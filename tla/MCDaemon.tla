------------------------------- MODULE MCDaemon -------------------------------
(* diagd with the listeners in pairs and threes, and with ops alone, and with *)
(* a bandwidth budget for two sessions.                                       *)
EXTENDS Daemon

Good == [ver |-> 20, mcIndex |-> 0, mcCount |-> 1, maxBandwidth |-> 2,
         modifiers |-> 0, authMode |-> 0, keyId |-> 0, signedBy |-> 0,
         skew |-> 0]
OneRequest == {Good}
MCSettings == {{"http", "tr471"}, {"tr471", "ops"}, {"http", "echo", "ops"}, {"ops"}}
=============================================================================
