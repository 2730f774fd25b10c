------------------------- MODULE MCAutorestartPing -------------------------
(***************************************************************************)
(* Autorestart with a ping test and one more history variable: how often   *)
(* the daemon has switched a port off on its own since the port last       *)
(* answered a ping or an operator asked for a reboot.                      *)
(***************************************************************************)
EXTENDS MCAutorestart

VARIABLE futile

FutileInit == futile = [i \in Ports |-> 0]

Answered(i)  == worker[i] = "pinging" /\ worker'[i] = "none" /\ "OK" \in errorCode'[i]
Commanded(i) == com.pc = "accept" /\ com'.pc = "idle" /\ com.port = i
AutoOff(i)   == by[i] = "auto" /\ poe[i].on /\ ~poe'[i].on

FutileStep ==
  futile' = [i \in Ports |->
               IF Answered(i) \/ Commanded(i) THEN 0
               ELSE IF AutoOff(i) /\ futile[i] <= MaxReset + 1 THEN futile[i] + 1
               ELSE futile[i]]

PingSpec == Init /\ FutileInit /\ [][Next /\ FutileStep]_<<vars, futile>>

\* "reboot disabled after max resets": a host that never answers a ping is
\* power-cycled no more often than AutoCyclesBounded allows for ERR_OK.
SilentHostGivenUp == \A i \in Ports : futile[i] <= MaxReset + 1
=============================================================================
