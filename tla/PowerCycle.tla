----------------------------- MODULE PowerCycle -----------------------------
(***************************************************************************)
(* What a reboot of a PoE port promises, whoever asked for it and whatever *)
(* else happens to the port: it is prepared, the port is switched off, the *)
(* off-time passes, and the port is switched on again or, if it has been   *)
(* disabled, left as it is.  The schedule may switch a port at any time,   *)
(* and a restart of the daemon forgets the reboots under way.              *)
(***************************************************************************)
EXTENDS Naturals

CONSTANTS
  Ports,       \* the PoE ports
  RebootDelay  \* the off-time of a reboot, in clock ticks

VARIABLES
  phase,  \* how far the reboot of each port has come
  poe,    \* the last PoE command to each port, and who gave it
  off     \* ticks since a reboot last switched the port off, up to RebootDelay

pvars == <<phase, poe, off>>

PInit ==
  /\ phase = [p \in Ports |-> "none"]
  /\ poe = [p \in Ports |-> [on |-> TRUE, by |-> "boot"]]
  /\ off = [p \in Ports |-> RebootDelay]

Enter(p, from, to) == phase[p] = from /\ phase' = [phase EXCEPT ![p] = to]
Command(p, b, who) == poe' = [poe EXCEPT ![p] = [on |-> b, by |-> who]]

Prepare(p)   == Enter(p, "none", "prepared") /\ UNCHANGED <<poe, off>>
SwitchOff(p) == /\ Enter(p, "prepared", "off")
                /\ Command(p, FALSE, "reboot")
                /\ off' = [off EXCEPT ![p] = 0]
TimeUp(p)    == off[p] = RebootDelay /\ Enter(p, "off", "due") /\ UNCHANGED <<poe, off>>
SwitchOn(p)  == Enter(p, "due", "done") /\ Command(p, TRUE, "reboot") /\ UNCHANGED off
Abandon(p)   == Enter(p, "due", "done") /\ UNCHANGED <<poe, off>>
End(p)       == Enter(p, "done", "none") /\ UNCHANGED <<poe, off>>

Schedule(p) == \E b \in BOOLEAN : Command(p, b, "schedule") /\ UNCHANGED <<phase, off>>

PTick    == /\ off' = [p \in Ports |-> IF off[p] < RebootDelay THEN off[p] + 1 ELSE off[p]]
            /\ UNCHANGED <<phase, poe>>
PRestart == phase' = [p \in Ports |-> "none"] /\ UNCHANGED <<poe, off>>

PNext ==
  \/ \E p \in Ports : \/ Prepare(p) \/ SwitchOff(p) \/ TimeUp(p)
                      \/ SwitchOn(p) \/ Abandon(p) \/ End(p) \/ Schedule(p)
  \/ PTick
  \/ PRestart

PSpec == PInit /\ [][PNext]_pvars
=============================================================================
