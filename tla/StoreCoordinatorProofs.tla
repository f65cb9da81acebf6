------------------------ MODULE StoreCoordinatorProofs ------------------------
(***************************************************************************)
(* Proofs about StoreCoordinator, for any number of NPorts, slaves,        *)
(* destinations and values.                                                *)
(***************************************************************************)
EXTENDS StoreCoordinator, TLAPS

\* Every step of the specification is one of these; the lemma is the case
\* split the proofs below share.
LEMMA NextCases ==
  ASSUME Next
  PROVE  \/ \E l \in Listeners, s \in Slaves, v \in Values : CallRecord(l, s, v)
         \/ \E l \in Listeners : RecordDropped(l)
         \/ \E l \in Listeners : RecordKept(l)
         \/ \E l \in Listeners : Store(l)
         \/ \E l \in Listeners : FlushDone(l)
         \/ Cancel
  BY DEF Next, Proceed

\* The slaves waited for are (port, slave) pairs of the configuration.
LEMMA WantedArePairs == Wanted \subseteq Pairs
  BY NPortsAssumption DEF Wanted, Pairs, Listeners

LEMMA ListenerIsNotFree == Free \notin Listeners
  BY NPortsAssumption DEF Listeners, Free

-----------------------------------------------------------------------------
\* Type correctness: no step leaves the types, the loop over the destinations
\* in particular never passes the last one (storage.go:84-118).
LEMMA TypeStep ==
  ASSUME TypeOK, [Next]_vars
  PROVE  TypeOK'
<1> USE NPortsAssumption, NumDestsAssumption DEF TypeOK
<1>1. CASE \E l \in Listeners, s \in Slaves, v \in Values : CallRecord(l, s, v)
  BY <1>1 DEF CallRecord
<1>2. CASE \E l \in Listeners : RecordDropped(l)
  BY <1>2 DEF RecordDropped
<1>3. CASE \E l \in Listeners : RecordKept(l)
  <2> PICK l \in Listeners : RecordKept(l)
    BY <1>3
  <2>1. call[l] \in Slaves \X Values
    BY DEF RecordKept
  <2>2. last' \in [Pairs -> Values \cup {NoValue}]
    BY <2>1 DEF RecordKept
  <2>3. mu' \in Listeners \cup {Free} /\ call' \in [Listeners -> (Slaves \X Values) \cup {NoCall}]
    BY DEF RecordKept
  <2> QED
    BY <2>2, <2>3 DEF RecordKept
<1>4. CASE \E l \in Listeners : Store(l)
  <2> PICK l \in Listeners : Store(l)
    BY <1>4
  <2>1. PICK w \in Recorded, ok \in BOOLEAN :
          /\ tried[w] < NumDests
          /\ offered' = [offered EXCEPT ![tried[w] + 1] = @ \cup Points(w)]
          /\ db' = IF ok THEN [db EXCEPT ![tried[w] + 1] = @ \cup Points(w)] ELSE db
          /\ tried' = [tried EXCEPT ![w] = @ + 1]
    BY DEF Store, Advance
  <2>2. w \in Pairs /\ Points(w) \subseteq Pairs \X Values
    BY DEF Recorded, Points
  <2>3. tried[w] + 1 \in Dests
    BY <2>1, <2>2 DEF Dests
  <2>4. tried' \in [Pairs -> 0 .. NumDests]
    BY <2>1, <2>2, <2>3 DEF Dests
  <2>5. offered' \in [Dests -> SUBSET (Pairs \X Values)]
    BY <2>1, <2>2, <2>3
  <2>6. db' \in [Dests -> SUBSET (Pairs \X Values)]
    BY <2>1, <2>2, <2>3
  <2> QED
    BY <2>4, <2>5, <2>6 DEF Store
<1>5. CASE \E l \in Listeners : FlushDone(l)
  BY <1>5 DEF FlushDone
<1>6. CASE Cancel
  BY <1>6 DEF Cancel
<1>7. CASE UNCHANGED vars
  BY <1>7 DEF vars
<1> QED
  BY <1>1, <1>2, <1>3, <1>4, <1>5, <1>6, <1>7, NextCases

LEMMA InitTypeOK ==
  ASSUME Init
  PROVE  TypeOK
<1>1. call \in [Listeners -> (Slaves \X Values) \cup {NoCall}]
  BY DEF Init
<1>2. last \in [Pairs -> Values \cup {NoValue}] /\ tried \in [Pairs -> 0 .. NumDests]
  BY NumDestsAssumption DEF Init
<1>3. offered \in [Dests -> SUBSET (Pairs \X Values)]
  BY DEF Init
<1>4. db \in [Dests -> SUBSET (Pairs \X Values)]
  BY DEF Init
<1> QED
  BY <1>1, <1>2, <1>3, <1>4 DEF Init, TypeOK

THEOREM TypeCorrect == SafeSpec => []TypeOK
<1>1. Init => TypeOK
  BY InitTypeOK
<1>2. TypeOK /\ [Next]_vars => TypeOK'
  BY TypeStep
<1> QED
  BY <1>1, <1>2, PTL DEF SafeSpec

-----------------------------------------------------------------------------
\* A step that leaves the mutex, the recorded frames, the flush and done alone
\* keeps the invariant.
LEMMA StepOutsideTheLock ==
  ASSUME IInv, TypeOK', UNCHANGED <<mu, last, tried, offered, done>>
  PROVE  IInv'
  BY DEF IInv, RecordedAreWanted, BeforeFlush, WhileFlushing, AfterFlush,
         AllSeen, Passed, Due

\* Recording a frame keeps the invariant: when it closes the collection,
\* nothing has been posted yet.
LEMMA RecordKeptStep ==
  ASSUME IInv, TypeOK', NEW l \in Listeners, RecordKept(l)
  PROVE  IInv'
<1>1. mu = Free /\ ~ done /\ Key(l) \in Wanted
  BY DEF RecordKept, Dropped
<1>2. /\ \A w \in Pairs : tried[w] = 0
      /\ \A d \in Dests : offered[d] = {}
  BY <1>1 DEF IInv, BeforeFlush
<1>3. tried' = tried /\ offered' = offered /\ done' = done
  BY DEF RecordKept
<1>4. RecordedAreWanted'
  <2> SUFFICES ASSUME NEW w \in Pairs \ Wanted PROVE last'[w] = NoValue
    BY DEF RecordedAreWanted
  <2>1. last[w] = NoValue /\ w # Key(l)
    BY <1>1 DEF IInv, RecordedAreWanted
  <2> QED
    BY <2>1 DEF RecordKept, IInv, TypeOK
<1>5. BeforeFlush'
  BY <1>1, <1>2, <1>3, ListenerIsNotFree DEF BeforeFlush, RecordKept, AllSeen
<1>6. WhileFlushing'
  <2> SUFFICES ASSUME mu' # Free PROVE (~ done /\ AllSeen(last) /\ \A d \in Dests : offered[d] = Passed(d))'
    BY DEF WhileFlushing
  <2>1. AllSeen(last)'
    BY <1>1 DEF RecordKept, AllSeen
  <2>2. \A d \in Dests : \A u \in Wanted : ~ (tried'[u] >= d)
    BY <1>2, <1>3, WantedArePairs, NumDestsAssumption DEF Dests
  <2>3. \A d \in Dests : Passed(d)' = {}
    BY <2>2 DEF Passed
  <2> QED
    BY <1>1, <1>2, <1>3, <2>1, <2>3
<1>7. AfterFlush'
  BY <1>1, <1>3 DEF AfterFlush
<1> QED
  BY <1>4, <1>5, <1>6, <1>7 DEF IInv

\* One turn of the loop keeps the invariant: the destination it is about gains
\* that pair if it can be posted, the others hold what they held.
LEMMA StoreStep ==
  ASSUME IInv, TypeOK', NEW l \in Listeners, Store(l)
  PROVE  IInv'
<1>1. mu # Free /\ mu' # Free /\ ~ done /\ ~ done' /\ last' = last
  BY ListenerIsNotFree DEF Store, IInv, WhileFlushing
<1>2. PICK w \in Recorded, ok \in BOOLEAN :
        /\ tried[w] < NumDests
        /\ offered' = [offered EXCEPT ![tried[w] + 1] = @ \cup Points(w)]
        /\ tried' = [tried EXCEPT ![w] = @ + 1]
  BY DEF Store, Advance
<1>3. w \in Wanted
  BY DEF IInv, RecordedAreWanted, Recorded
<1>4. /\ tried \in [Pairs -> 0 .. NumDests]
      /\ offered \in [Dests -> SUBSET (Pairs \X Values)]
      /\ w \in Pairs
  BY <1>3, WantedArePairs DEF IInv, TypeOK
<1>5. tried[w] \in Nat /\ tried[w] + 1 \in Dests
  BY <1>2, <1>4, NumDestsAssumption DEF Dests
<1>6. ASSUME NEW d \in Dests PROVE offered'[d] = Passed(d)'
  <2>0. offered[d] =
          {<<u, last[u]>> : u \in {x \in Wanted : tried[x] >= d /\ Postable(d, last[x])}}
    BY <1>1 DEF IInv, WhileFlushing, Passed
  <2>1. CASE d = tried[w] + 1
    <3>1. \A x \in Wanted : tried'[x] >= d <=> tried[x] >= d \/ x = w
      BY <1>2, <1>3, <1>4, <1>5, <2>1, WantedArePairs DEF Dests
    <3>2. Passed(d)' =
            {<<u, last[u]>> :
               u \in {x \in Wanted : (tried[x] >= d \/ x = w) /\ Postable(d, last[x])}}
      BY <3>1, <1>1 DEF Passed, Postable
    <3>3. offered'[d] = offered[d] \cup Points(w)
      BY <1>2, <1>4, <1>5, <2>1
    <3>4. Points(w) = IF Postable(d, last[w]) THEN {<<w, last[w]>>} ELSE {}
      BY <2>1 DEF Points
    <3> QED
      BY <2>0, <3>2, <3>3, <3>4, <1>3
  <2>2. CASE d # tried[w] + 1
    <3>1. \A x \in Wanted : tried'[x] >= d <=> tried[x] >= d
      BY <1>2, <1>3, <1>4, <1>5, <2>2, WantedArePairs, NumDestsAssumption DEF Dests
    <3>2. Passed(d)' =
            {<<u, last[u]>> : u \in {x \in Wanted : tried[x] >= d /\ Postable(d, last[x])}}
      BY <3>1, <1>1 DEF Passed, Postable
    <3>3. offered'[d] = offered[d]
      BY <1>2, <1>4, <1>5, <2>2
    <3> QED
      BY <2>0, <3>2, <3>3
  <2> QED
    BY <2>1, <2>2
<1>7. AllSeen(last)'
  BY <1>1 DEF IInv, WhileFlushing, AllSeen
<1>8. WhileFlushing'
  BY <1>1, <1>6, <1>7 DEF WhileFlushing
<1>9. RecordedAreWanted' /\ BeforeFlush' /\ AfterFlush'
  BY <1>1 DEF IInv, RecordedAreWanted, BeforeFlush, AfterFlush
<1> QED
  BY <1>8, <1>9 DEF IInv

\* The end of the flush keeps the invariant: every recorded pair has passed
\* every destination, and every wanted pair is recorded.
LEMMA FlushDoneStep ==
  ASSUME IInv, TypeOK', NEW l \in Listeners, FlushDone(l)
  PROVE  IInv'
<1>1. mu # Free /\ mu' = Free /\ done' = TRUE
  BY ListenerIsNotFree DEF FlushDone
<1>2. last' = last /\ offered' = offered /\ tried' = tried
  BY DEF FlushDone
<1>3. AllSeen(last) /\ \A d \in Dests : offered[d] = Passed(d)
  BY <1>1 DEF IInv, WhileFlushing
<1>4. \A w \in Wanted : tried[w] = NumDests
  BY <1>3, WantedArePairs DEF FlushDone, AllSeen, Recorded
<1>5. \A d \in Dests : Passed(d) = Due(d)
  BY <1>4, NumDestsAssumption DEF Passed, Due, Dests
<1>6. AfterFlush'
  BY <1>1, <1>2, <1>3, <1>5 DEF AfterFlush, AllSeen, Due
<1>7. RecordedAreWanted' /\ BeforeFlush' /\ WhileFlushing'
  BY <1>1, <1>2 DEF IInv, RecordedAreWanted, BeforeFlush, WhileFlushing
<1> QED
  BY <1>6, <1>7 DEF IInv

\* The inductive invariant: the flush posts one complete snapshot of the
\* wanted slaves, pair by pair and destination by destination.
THEOREM Invariance == SafeSpec => []IInv
<1>1. Init => IInv
  <2> SUFFICES ASSUME Init PROVE IInv
    OBVIOUS
  <2>1. mu = Free /\ ~ done
    BY DEF Init
  <2>2. ~ AllSeen(last)
    BY WantedAssumption, WantedArePairs DEF Init, AllSeen
  <2>3. RecordedAreWanted /\ BeforeFlush
    BY <2>2 DEF Init, RecordedAreWanted, BeforeFlush
  <2> QED
    BY <2>1, <2>3, InitTypeOK DEF IInv, WhileFlushing, AfterFlush
<1>2. IInv /\ [Next]_vars => IInv'
  <2> SUFFICES ASSUME IInv, [Next]_vars PROVE IInv'
    OBVIOUS
  <2>0. TypeOK'
    BY TypeStep DEF IInv
  <2>1. CASE \E l \in Listeners, s \in Slaves, v \in Values : CallRecord(l, s, v)
    BY <2>0, <2>1, StepOutsideTheLock DEF CallRecord
  <2>2. CASE \E l \in Listeners : RecordDropped(l)
    BY <2>0, <2>2, StepOutsideTheLock DEF RecordDropped
  <2>3. CASE \E l \in Listeners : RecordKept(l)
    BY <2>0, <2>3, RecordKeptStep
  <2>4. CASE \E l \in Listeners : Store(l)
    BY <2>0, <2>4, StoreStep
  <2>5. CASE \E l \in Listeners : FlushDone(l)
    BY <2>0, <2>5, FlushDoneStep
  <2>6. CASE Cancel
    BY <2>0, <2>6, StepOutsideTheLock DEF Cancel
  <2>7. CASE UNCHANGED vars
    BY <2>0, <2>7, StepOutsideTheLock DEF vars
  <2> QED
    BY <2>1, <2>2, <2>3, <2>4, <2>5, <2>6, <2>7, NextCases
<1> QED
  BY <1>1, <1>2, PTL DEF SafeSpec

-----------------------------------------------------------------------------
\* No destination is ever given anything but the one snapshot taken when the
\* last slave was seen, whatever Record calls interleave with the flush.
THEOREM SingleSnapshotHolds == SafeSpec => []SingleSnapshot
<1>1. IInv => SingleSnapshot
  <2> SUFFICES ASSUME IInv, NEW d \in Dests, offered[d] # {}
               PROVE  AllSeen(last) /\ offered[d] \subseteq Snapshot
    BY DEF SingleSnapshot
  <2>1. mu # Free \/ done
    BY DEF IInv, BeforeFlush
  <2>2. CASE mu # Free
    BY <2>2 DEF IInv, WhileFlushing, Passed, Snapshot
  <2>3. CASE done
    BY <2>3 DEF IInv, AfterFlush, Due, Snapshot
  <2> QED
    BY <2>1, <2>2, <2>3
<1> QED
  BY <1>1, Invariance, PTL

\* done, and the cancellation that goes with it, come only after every
\* destination was given the value of every wanted slave that can be posted.
THEOREM DoneIsCompleteHolds == SafeSpec => []DoneIsComplete
<1>1. IInv => DoneIsComplete
  BY DEF IInv, AfterFlush, DoneIsComplete
<1> QED
  BY <1>1, Invariance, PTL

\* The recorded frames do not change under a flush, nor after it.
THEOREM SnapshotFrozenHolds == SafeSpec => SnapshotFrozen
<1>1. [Next]_vars => [mu # Free \/ done => last' = last]_vars
  <2> SUFFICES ASSUME [Next]_vars, mu # Free \/ done PROVE last' = last
    OBVIOUS
  <2>1. ~ \E l \in Listeners : RecordKept(l)
    BY DEF RecordKept, Dropped
  <2> QED
    BY <2>1, NextCases
    DEF CallRecord, RecordDropped, Store, FlushDone, Cancel, vars
<1> QED
  BY <1>1, PTL DEF SafeSpec, SnapshotFrozen

-----------------------------------------------------------------------------
\* The coordinator with its mutex, its loop of posts and its failures
\* implements the atomic single store of StoreOnce (safety part).
THEOREM StoresOnce == SafeSpec => Abs!SafeSpec
<1> USE DEF Abs!Complete, Abs!vars
<1>1. Init => Abs!Init
  BY WantedArePairs DEF Init, Abs!Init
<1>2. IInv /\ IInv' /\ [Next]_vars => [Abs!Next]_(Abs!vars)
  <2> SUFFICES ASSUME IInv, IInv', [Next]_vars
               PROVE  Abs!Next \/ UNCHANGED Abs!vars
    OBVIOUS
  <2>1. ASSUME UNCHANGED <<last, done>>, done => offered' = offered
        PROVE  UNCHANGED Abs!vars
    BY <2>1
  <2>2. ASSUME NEW l \in Listeners, RecordKept(l)
        PROVE  Abs!Next
    <3>1. ~ done /\ done' = done /\ Key(l) \in Wanted /\ mu = Free
      BY <2>2 DEF RecordKept, Dropped
    <3>2. call[l][2] \in Values
      BY <2>2 DEF RecordKept, IInv, TypeOK
    <3>3. \E w \in Wanted : last[w] = NoValue
      BY <3>1 DEF IInv, BeforeFlush, AllSeen
    <3>4. PICK k \in Wanted, v \in Values : k = Key(l) /\ v = call[l][2]
      BY <3>1, <3>2
    <3>5. [w \in Wanted |-> last'[w]]
            = [[w \in Wanted |-> last[w]] EXCEPT ![k] = v]
      BY <2>2, <3>4, WantedArePairs DEF RecordKept, IInv, TypeOK
    <3>6. ~ Abs!Complete
      BY <3>3
    <3>7. UNCHANGED <<done, IF done THEN offered ELSE [d \in Dests |-> {}]>>
      BY <3>1
    <3>8. Abs!Observe(k, v)
      BY <3>1, <3>5, <3>6, <3>7 DEF Abs!Observe
    <3> QED
      BY <3>8 DEF Abs!Next
  <2>3. ASSUME NEW l \in Listeners, FlushDone(l)
        PROVE  Abs!Next
    <3>1. ~ done /\ done' = TRUE /\ last' = last /\ AllSeen(last)
      BY <2>3, ListenerIsNotFree DEF FlushDone, IInv, WhileFlushing
    <3>2. \A d \in Dests : offered'[d] = Due(d)
      BY <3>1 DEF IInv, AfterFlush, Due, Postable
    <3>3. offered' = [d \in Dests |-> Due(d)]
      BY <3>2 DEF IInv, TypeOK
    <3>4. \A d \in Dests : Due(d) = Abs!Collection(d)
      BY DEF Due, Postable, Abs!Collection
    <3>5. Abs!Commit
      BY <3>1, <3>3, <3>4 DEF Abs!Commit, AllSeen
    <3> QED
      BY <3>5 DEF Abs!Next
  <2>4. ASSUME NEW l \in Listeners, Store(l)
        PROVE  UNCHANGED Abs!vars
    <3>1. ~ done /\ done' = done /\ last' = last
      BY <2>4, ListenerIsNotFree DEF Store, IInv, WhileFlushing
    <3> QED
      BY <2>1, <3>1
  <2>5. ASSUME NEW l \in Listeners,
               \/ \E s \in Slaves, v \in Values : CallRecord(l, s, v)
               \/ RecordDropped(l)
        PROVE  UNCHANGED Abs!vars
    BY <2>1, <2>5 DEF CallRecord, RecordDropped
  <2>6. CASE Cancel
    BY <2>1, <2>6 DEF Cancel
  <2>7. CASE UNCHANGED vars
    BY <2>1, <2>7 DEF vars
  <2> QED
    BY <2>1, <2>2, <2>3, <2>4, <2>5, <2>6, <2>7, NextCases
<1> QED
  BY <1>1, <1>2, Invariance, PTL DEF SafeSpec, Abs!SafeSpec
===============================================================================
