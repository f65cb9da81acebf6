------------------------------- MODULE PollOnce -------------------------------
(***************************************************************************)
(* What one run of an active poller promises, with no slaves, connections, *)
(* writer queues or flushes in sight: the devices are polled in the order  *)
(* of the configuration, each of them to its end; what a device gave is    *)
(* delivered as one batch, the same to every database that was available   *)
(* at the start; the run gives up at a device it cannot reach, or ends     *)
(* after the last one.                                                     *)
(***************************************************************************)
EXTENDS Naturals, Sequences

CONSTANTS
  Batches,    \* Batches[d]: what the d-th device may give
  Databases

VARIABLES
  phase,      \* "ready", "polling", "ended" or "gave up"
  writable,   \* the databases that were available at the start
  polled,     \* how many devices have been polled
  delivered   \* what each database was given

vars == <<phase, writable, polled, delivered>>

Init ==
  /\ phase = "ready"
  /\ writable = {}
  /\ polled = 0
  /\ delivered = [b \in Databases |-> {}]

Start ==
  /\ phase = "ready"
  /\ writable' \in SUBSET Databases
  /\ phase' = "polling"
  /\ UNCHANGED <<polled, delivered>>

PollDevice ==
  /\ phase = "polling" /\ polled < Len(Batches)
  /\ polled' = polled + 1
  /\ \E batch \in SUBSET Batches[polled + 1] :
       delivered' = [b \in Databases |->
                       delivered[b] \cup (IF b \in writable THEN batch ELSE {})]
  /\ UNCHANGED <<phase, writable>>

GiveUp ==
  /\ phase = "polling" /\ polled < Len(Batches)
  /\ phase' = "gave up"
  /\ UNCHANGED <<writable, polled, delivered>>

End ==
  /\ phase = "polling" /\ polled = Len(Batches)
  /\ phase' = "ended"
  /\ UNCHANGED <<writable, polled, delivered>>

Next == Start \/ PollDevice \/ GiveUp \/ End

SafeSpec == Init /\ [][Next]_vars

\* A run always comes to its end.
Spec == SafeSpec /\ WF_vars(Next)
===============================================================================
