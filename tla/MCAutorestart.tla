--------------------------- MODULE MCAutorestart ---------------------------
(***************************************************************************)
(* Instances of Autorestart for TLC: the contents of a configuration       *)
(* section and the answers of a poll that a run lets happen.               *)
(***************************************************************************)
EXTENDS Autorestart

Section(kind, ok, on, up, down) ==
  [state |-> kind, paramOk |-> ok, alarm |-> on, up |-> up, down |-> down]

LinkOnly     == {Section("link", TRUE, FALSE, 0, 0)}
PingOnly     == {Section("ping", TRUE, FALSE, 0, 0)}
OtherTests   == {Section("ping", TRUE, FALSE, 0, 0), Section("speed", TRUE, FALSE, 0, 0),
                 Section("ping", FALSE, FALSE, 0, 0), Section("speed", FALSE, FALSE, 0, 0),
                 Section("disable", TRUE, TRUE, 2, 1), Section("unknown", TRUE, FALSE, 0, 0)}
AllTests     == LinkOnly \cup OtherTests
Scheduled    == {Section("link", TRUE, TRUE, 2, 1)}

AlwaysEnabled == {AdminFlags}
MayBeDisabled == {AdminFlags, {"poe"}}
=============================================================================
