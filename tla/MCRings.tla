------------------------------- MODULE MCRings -------------------------------
(***************************************************************************)
(* Instances of Ring and EventRing for TLC.  The rings share nothing, so a *)
(* behaviour uses one of them only; each has the fairness of its module.   *)
(***************************************************************************)
EXTENDS Ring, EventRing

CONSTANTS
  MaxPushes,   \* TRBs pushed in a behaviour, enough for several laps
  MaxEvents    \* events reported in a behaviour, enough for several laps

MCInit == Init /\ InterrupterInit

MCRingNext ==
  /\ reported = <<>>
  /\ Next /\ Len(sent') <= MaxPushes
  /\ UNCHANGED interrupterVars

MCEventRingNext ==
  /\ sent = <<>>
  /\ InterrupterNext /\ Len(reported') <= MaxEvents
  /\ UNCHANGED vars

MCSpec ==
  /\ MCInit /\ [][MCRingNext \/ MCEventRingNext]_<<vars, interrupterVars>>
  /\ WF_vars(FinishPush) /\ WF_vars(Fetch)
  /\ WF_interrupterVars(MainTask) /\ WF_interrupterVars(Interrupt)

EveryEventHandled == \A n \in 1 .. MaxEvents : NthEventHandled(n)
=============================================================================
