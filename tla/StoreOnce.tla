------------------------------ MODULE StoreOnce ------------------------------
(***************************************************************************)
(* What the store coordinator of moxa-nport promises, with no goroutine,   *)
(* lock or HTTP request in sight: readings of a fixed set of keys (a port  *)
(* and a slave) are collected, the latest one per key; as soon as every    *)
(* key has a reading, the collection is committed once, whole, to every    *)
(* destination; nothing changes after that.  Left out is only what could   *)
(* not be sent in any case.                                                *)
(***************************************************************************)
CONSTANTS
  Keys,      \* the (port, slave) pairs that must be seen
  Values,    \* decoded readings
  NoValue,   \* "no reading yet"
  Dests,     \* the storage destinations
  Malformed, \* the destinations no request can be made for
  Nameless   \* the readings there is nothing to say about

VARIABLES
  reading,   \* the latest reading of each key
  committed, \* has the collection been committed?
  stored     \* the <<key, value>> points each destination was given

vars == <<reading, committed, stored>>

Complete == \A k \in Keys : reading[k] # NoValue

Init ==
  /\ reading = [k \in Keys |-> NoValue]
  /\ committed = FALSE
  /\ stored = [d \in Dests |-> {}]

\* A new reading replaces the previous one of its key; the last missing one
\* closes the collection.
Observe(k, v) ==
  /\ ~ committed
  /\ ~ Complete
  /\ reading' = [reading EXCEPT ![k] = v]
  /\ UNCHANGED <<committed, stored>>

\* What there is to give to destination d.
Collection(d) ==
  {<<k, reading[k]>> : k \in {j \in Keys : d \notin Malformed /\ reading[j] \notin Nameless}}

\* All destinations are given the collection.
Commit ==
  /\ ~ committed
  /\ Complete
  /\ committed' = TRUE
  /\ stored' = [d \in Dests |-> Collection(d)]
  /\ UNCHANGED reading

Next ==
  \/ \E k \in Keys, v \in Values : Observe(k, v)
  \/ Commit

SafeSpec == Init /\ [][Next]_vars

Spec == SafeSpec /\ WF_vars(Commit)
==============================================================================
