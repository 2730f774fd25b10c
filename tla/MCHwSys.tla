------------------------------- MODULE MCHwSys -------------------------------
(***************************************************************************)
(* Instances of HwSys for TLC: a relay that clients set, and a tamper      *)
(* input that is polled in the low priority dump, has a handler and is set *)
(* by a client too.                                                        *)
(***************************************************************************)
EXTENDS HwSys

RelayOnly  == <<"relay">>
TamperOnly == <<"tamper">>

\* What the properties of hw_sets and the guards of the threads depend on: the
\* values in the table and in the MCU are copied about but never tested there,
\* no register having a handler.
SetsView == <<mailbox, main, com, bus, calls, outages, jumps, since,
              fate, overlap, slow, jumped>>
=============================================================================
