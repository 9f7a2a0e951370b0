---------------------------- MODULE SetupRequest ----------------------------
(***************************************************************************)
(* The Setup Request of the TR-471 control plane and the order in which    *)
(* handleSetup (internal/udpst/server.go) validates it.  A request is the  *)
(* part of the PDU the checks read; everything else is echoed.             *)
(***************************************************************************)
EXTENDS Integers

CONSTANTS Keys,             \* configured authentication key IDs, {} for none
          Jumbo,            \* server option: jumbo sending rates
          TraditionalMTU,   \* server option: 1500-byte sending rates
          MaxBandwidthMbps  \* per-direction budget, 0 disables the check

ProtocolMin == 11
ProtocolVer == 20
authModeNone == 0
authModeControl == 1
authTimeWindow == 5
bwUpstreamBit == 32768

(***************************************************************************)
(* signedBy is the key the peer computed the digest with: verifyDigest     *)
(* holds exactly when it is the key named by keyId (the MAC is idealised). *)
(* skew is the server clock minus authUnixTime, in seconds.                *)
(***************************************************************************)
SetupPDU == [ver : Nat, mcIndex : Nat, mcCount : Nat, maxBandwidth : Nat,
             modifiers : Nat, authMode : Nat, keyId : Nat, signedBy : Nat,
             skew : Int]

ZeroPDU == [ver |-> 0, mcIndex |-> 0, mcCount |-> 0, maxBandwidth |-> 0,
            modifiers |-> 0, authMode |-> 0, keyId |-> 0, signedBy |-> 0,
            skew |-> 0]

Dir == {"up", "down"}

\* The MaxBandwidth field: bit 15 is the direction, the rest is in Mbps.
Direction(r) == IF r.maxBandwidth >= bwUpstreamBit THEN "up" ELSE "down"
Mbps(r) == r.maxBandwidth % bwUpstreamBit

WantsJumbo(r) == r.modifiers % 2 = 1
WantsTraditionalMTU(r) == (r.modifiers \div 2) % 2 = 1

\* The digest was computed with the key the request names, and diagd knows it.
Authenticated(r) ==
    r.authMode = authModeControl /\ r.keyId \in Keys /\ r.signedBy = r.keyId

(***************************************************************************)
(* The checks made before bandwidth is reserved, in the code's order;      *)
(* "ACKOK" means that none of them rejects the request.                    *)
(***************************************************************************)
BeforeReserve(r) ==
    IF r.authMode = authModeControl /\ Keys # {} /\ ~Authenticated(r)
      THEN "AuthFail"
    ELSE IF /\ r.authMode = authModeControl /\ Keys # {}
            /\ r.skew \notin -authTimeWindow..authTimeWindow
      THEN "AuthTime"
    ELSE IF r.ver \notin ProtocolMin..ProtocolVer THEN "BadVersion"
    ELSE IF r.mcCount \notin 1..24 \/ r.mcIndex >= r.mcCount THEN "MCInvPar"
    ELSE IF WantsJumbo(r) # Jumbo THEN "BadJumbo"
    ELSE IF WantsTraditionalMTU(r) # TraditionalMTU THEN "BadTMTU"
    ELSE IF MaxBandwidthMbps > 0 /\ Mbps(r) = 0 THEN "NoMaxBW"
    ELSE "ACKOK"

\* Fault: a request that does not ask for authentication is let through.
AfterReserve_NoAuthReq(r) ==
    IF r.authMode = authModeControl /\ Keys = {} THEN "AuthNC"
    ELSE IF r.authMode > authModeControl THEN "AuthInv"
    ELSE "ACKOK"

\* The authentication-mode switch that follows the reservation.
AfterReserve(r) ==
    IF r.authMode = authModeControl /\ Keys = {} THEN "AuthNC"
    ELSE IF r.authMode = authModeNone /\ Keys # {} THEN "AuthReq"
    ELSE IF r.authMode > authModeControl THEN "AuthInv"
    ELSE "ACKOK"

AuthCodes == {"AuthFail", "AuthTime", "AuthNC", "AuthReq", "AuthInv"}
Codes == AuthCodes \cup {"BadVersion", "MCInvPar", "BadJumbo", "BadTMTU",
                         "NoMaxBW", "CapExc", "ConnFail", "ACKOK"}

ASSUME BudgetAssumption == MaxBandwidthMbps \in Nat
ASSUME OptionAssumption == Jumbo \in BOOLEAN /\ TraditionalMTU \in BOOLEAN
=============================================================================
