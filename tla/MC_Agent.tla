------------------------------- MODULE MC_Agent -------------------------------
(***************************************************************************)
(* Instances of Agent: a port with pyranometers whose registers the        *)
(* configuration maps, and ports of other kinds beside it.                 *)
(***************************************************************************)
EXTENDS Agent

CONSTANTS A, B, s1, s2

\* The duration has no effect in store mode.
MCModes == [sub : {"test"}, timed : BOOLEAN] \cup [sub : {"store"}, timed : {FALSE}]
MCStore == [sub : {"store"}, timed : {FALSE}]

MCNames == {A, B}
MCSlaves == {s1, s2}

Mapped(n, ss) == [name |-> n, detected |-> ss, mapped |-> ss, dustiq |-> FALSE]

Answer(s) == [slave |-> s, value |-> 1, valid |-> TRUE, kind |-> "answer"]
Poll(s) == [slave |-> s, value |-> 1, valid |-> TRUE, kind |-> "poll"]
Garbled(s) == [slave |-> s, value |-> 1, valid |-> FALSE, kind |-> "answer"]
Closing(s) == [slave |-> s, value |-> 1, valid |-> TRUE, kind |-> "closing"]

Good == [influxdb2 |-> TRUE, complete |-> TRUE]
MCTwoTargets ==
  << [influxdb2 |-> FALSE, complete |-> TRUE], Good,
     [influxdb2 |-> TRUE, complete |-> FALSE], Good >>
MCOneTarget == << Good >>

\* A pyranometer port, and a port that a pyranometer, a DustIQ and a slave
\* nobody expects share.
MCShared ==
  << Mapped(A, {s1, s2}),
     [name |-> B, detected |-> {s1}, mapped |-> {s1}, dustiq |-> TRUE] >>
MCSharedTraffic ==
  << {Poll(s1), Answer(s1), Answer(s2)}, {Answer(s1), Closing(s2), Garbled(s2)} >>

\* A DustIQ listed beside a pyranometer port as in
\* configs/config-np5232i_9147.yml.
MCMixedListed ==
  << Mapped(A, {s1}),
     [name |-> B, detected |-> {s1}, mapped |-> {}, dustiq |-> TRUE] >>
MCListedTraffic == << {Answer(s1)}, {Closing(s1)} >>
===============================================================================
