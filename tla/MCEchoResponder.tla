--------------------------- MODULE MCEchoResponder ---------------------------
(***************************************************************************)
(* Instances of EchoResponder.                                             *)
(***************************************************************************)
EXTENDS EchoResponder

AllPackets == PacketType
==============================================================================
