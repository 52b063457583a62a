---------------------------- MODULE MCOrderRouter ----------------------------
(***************************************************************************)
(* Instances of OrderRouter for TLC: two signals of the same symbol.       *)
(***************************************************************************)
EXTENDS OrderRouter

MCSymbolOf == [k \in Keys |-> "EURUSD"]
=============================================================================
