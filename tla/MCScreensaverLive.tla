-------------------------- MODULE MCScreensaverLive --------------------------
(***************************************************************************)
(* The core for liveness checking: the user, the D-Bus clients and the     *)
(* hardware act at most MaxInputs times.  A timer that input keeps on      *)
(* restarting need not fire; once input has ceased it must, which is what  *)
(* the weak fairness of the timers says here.                              *)
(***************************************************************************)
EXTENDS Screensaver

CONSTANT MaxInputs  \* bound: inputs of one behaviour

VARIABLE inputs

Unsolicited == ~checking /\ \E r \in AuthResults : HelperReports(r)
Solicited   == checking /\ \E r \in AuthResults : HelperReports(r)

LiveInit == Init /\ inputs = 0

LiveNext ==
  \/ /\ inputs < MaxInputs
     /\ inputs' = inputs + 1
     /\ Requests \/ User \/ GrabBroken \/ HelperDies \/ Unsolicited
  \/ /\ Solicited \/ Timeouts \/ Idles
     /\ UNCHANGED inputs

LiveSpec == LiveInit /\ [][LiveNext]_<<vars, inputs>> /\ Fairness
=============================================================================
