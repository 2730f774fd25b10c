----------------------------- MODULE MCPoeQueue -----------------------------
(***************************************************************************)
(* Instances of PoeQueue for TLC.                                          *)
(***************************************************************************)
EXTENDS PoeQueue

SwitchRaw == {[id |-> "enable", port |-> 0, on |-> FALSE]}
=============================================================================
