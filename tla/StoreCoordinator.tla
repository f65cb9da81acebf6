--------------------------- MODULE StoreCoordinator ---------------------------
(***************************************************************************)
(* moxa-nport/store_coordinator.go and the write loop of storage.go.       *)
(*                                                                         *)
(* One listener goroutine per configured NPort calls Record with the       *)
(* values decoded from a frame.  Record runs under the mutex mu; the call  *)
(* that supplies the last missing slave runs flush, which posts every      *)
(* recorded frame to every InfluxDB destination while it still holds mu,   *)
(* then sets done and cancels the context of the whole agent.              *)
(*                                                                         *)
(* The critical section contains no blocking operation except the POSTs    *)
(* of flush, so Record is one step up to the flush, and mu is seen taken   *)
(* only while a flush is under way.                                        *)
(***************************************************************************)
EXTENDS Naturals

CONSTANTS
  NPorts,    \* cfg.NPorts: index -> [name, detected, ...]; one listener each
  Names,     \* NPort names
  Slaves,    \* Modbus addresses
  Values,    \* decoded register values of a frame
  NoValue,   \* absence of a frame in last
  NumDests,  \* len(sm.dests)
  Malformed, \* destinations whose URL http.NewRequest refuses
  Nameless   \* values without a named register: they make no line to post

ASSUME NPortsAssumption ==
  /\ DOMAIN NPorts \subseteq Nat \ {0}
  /\ \A i \in DOMAIN NPorts :
        NPorts[i].name \in Names /\ NPorts[i].detected \subseteq Slaves

ASSUME ValuesAssumption == NoValue \notin Values

ASSUME NumDestsAssumption == NumDests \in Nat

Listeners == DOMAIN NPorts
Dests == 1 .. NumDests
Pairs == Names \X Slaves

\* Does storage.go get as far as a POST of v to destination d?
Postable(d, v) == d \notin Malformed /\ v \notin Nameless

Free == 0        \* mu is not held
NoCall == <<>>   \* the listener is outside Record

VARIABLES
  call,     \* call[l]: the <<slave, value>> listener l is inside Record with
  mu,       \* holder of sc.mu between steps: a flushing listener, or Free
  last,     \* sc.last: the latest value of each pair
  tried,    \* progress of flush: destinations already tried for each pair
  offered,  \* history: the <<pair, value>> points posted to each destination
  db,       \* the points each destination accepted
  done,     \* sc.done
  ctxDone   \* the agent's context is cancelled

vars == <<call, mu, last, tried, offered, db, done, ctxDone>>

-----------------------------------------------------------------------------
\* NewStoreCoordinator fills a map keyed by the NPort's name: among NPorts of
\* the same name, the last one that lists slaves wins.
Overwritten(i) ==
  \E j \in Listeners :
    j > i /\ NPorts[j].name = NPorts[i].name /\ NPorts[j].detected # {}

Wanted ==
  UNION {{NPorts[i].name} \X NPorts[i].detected :
           i \in {j \in Listeners : ~ Overwritten(j)}}

\* Without a slave to wait for, NewStoreCoordinator returns nil.
ASSUME WantedAssumption == Wanted # {}

\* Mutant: one slave of each port is enough.
AllSeenAnyOfPort(f) ==
  \A w \in Wanted : \E u \in Wanted : u[1] = w[1] /\ f[u] # NoValue

AllSeen(f) == \A w \in Wanted : f[w] # NoValue

Recorded == {w \in Pairs : last[w] # NoValue}

Snapshot == {<<w, last[w]>> : w \in Wanted}

\* The part of the snapshot that can be posted to d.
Due(d) == {<<w, last[w]>> : w \in {u \in Wanted : Postable(d, last[u])}}

Init ==
  /\ call = [l \in Listeners |-> NoCall]
  /\ mu = Free
  /\ last = [w \in Pairs |-> NoValue]
  /\ tried = [w \in Pairs |-> 0]
  /\ offered = [d \in Dests |-> {}]
  /\ db = [d \in Dests |-> {}]
  /\ done = FALSE
  /\ ctxDone = FALSE

\* The pair listener l is recording.
Key(l) == <<NPorts[l].name, call[l][1]>>

\* Mutant: the test of done is missing.
DroppedIfUnwanted(l) == Key(l) \notin Wanted

Dropped(l) == done \/ Key(l) \notin Wanted

\* A listener enters Record; it then waits for mu.
CallRecord(l, s, v) ==
  /\ call[l] = NoCall
  /\ call' = [call EXCEPT ![l] = <<s, v>>]
  /\ UNCHANGED <<mu, last, tried, offered, db, done, ctxDone>>

\* The values are ignored: the store is over, or nobody waits for this slave.
RecordDropped(l) ==
  /\ call[l] # NoCall
  /\ mu = Free
  /\ Dropped(l)
  /\ call' = [call EXCEPT ![l] = NoCall]
  /\ UNCHANGED <<mu, last, tried, offered, db, done, ctxDone>>

\* Mutant: mu is not taken for the update.
RecordKeptUnlocked(l) ==
  /\ call[l] # NoCall
  /\ ~ Dropped(l)
  /\ last' = [last EXCEPT ![Key(l)] = call[l][2]]
  /\ IF mu = Free /\ AllSeen(last')
       THEN mu' = l /\ UNCHANGED call
       ELSE call' = [call EXCEPT ![l] = NoCall] /\ UNCHANGED mu
  /\ UNCHANGED <<tried, offered, db, done, ctxDone>>

\* The values become the latest of their slave.  If nobody is missing any
\* more, the same goroutine goes on to flush and keeps mu.
RecordKept(l) ==
  /\ call[l] # NoCall
  /\ mu = Free
  /\ ~ Dropped(l)
  /\ last' = [last EXCEPT ![Key(l)] = call[l][2]]
  /\ IF AllSeen(last')
       THEN mu' = l /\ UNCHANGED call
       ELSE call' = [call EXCEPT ![l] = NoCall] /\ UNCHANGED mu
  /\ UNCHANGED <<tried, offered, db, done, ctxDone>>

\* Mutants: the first failure ends the loop over the destinations; a retry
\* of the next destination's index skips one.
AdvanceUnlessFailed(w, ok) ==
  [tried EXCEPT ![w] = IF ok THEN @ + 1 ELSE NumDests]
AdvanceTwice(w, ok) == [tried EXCEPT ![w] = IF ok THEN @ + 1 ELSE @ + 2]

\* The loop over the destinations goes on, whether or not there was something
\* to post and whether or not the destination accepted it.
Advance(w, ok) == [tried EXCEPT ![w] = @ + 1]

\* What the loop posts to its next destination.
Points(w) == IF Postable(tried[w] + 1, last[w]) THEN {<<w, last[w]>>} ELSE {}

\* One turn of the loop of Store, called by flush: the pairs come in any order
\* (Go's map order is random), one pair at a time, the destinations of a pair in
\* their configured order.  A refusal, an error or a timeout is logged.
Store(l) ==
  /\ mu = l
  /\ \E w \in Recorded, ok \in BOOLEAN :
       /\ tried[w] < NumDests
       /\ \A u \in Recorded \ {w} : tried[u] \in {0, NumDests}
       /\ offered' = [offered EXCEPT ![tried[w] + 1] = @ \cup Points(w)]
       /\ db' = IF ok THEN [db EXCEPT ![tried[w] + 1] = @ \cup Points(w)] ELSE db
       /\ tried' = Advance(w, ok)
  /\ UNCHANGED <<call, mu, last, done, ctxDone>>

\* Mutant: the context is not cancelled.
FlushDoneQuietly(l) ==
  /\ mu = l
  /\ \A w \in Recorded : tried[w] = NumDests
  /\ done' = TRUE
  /\ mu' = Free
  /\ call' = [call EXCEPT ![l] = NoCall]
  /\ UNCHANGED <<last, tried, offered, db, ctxDone>>

\* flush returns: done is set, the agent's context cancelled, mu released.
FlushDone(l) ==
  /\ mu = l
  /\ \A w \in Recorded : tried[w] = NumDests
  /\ done' = TRUE
  /\ ctxDone' = TRUE
  /\ mu' = Free
  /\ call' = [call EXCEPT ![l] = NoCall]
  /\ UNCHANGED <<last, tried, offered, db>>

\* The context may be cancelled from outside (SIGINT, SIGTERM, the timer).
Cancel ==
  /\ ~ ctxDone
  /\ ctxDone' = TRUE
  /\ UNCHANGED <<call, mu, last, tried, offered, db, done>>

Proceed(l) == RecordDropped(l) \/ RecordKept(l) \/ Store(l) \/ FlushDone(l)

Next ==
  \/ \E l \in Listeners, s \in Slaves, v \in Values : CallRecord(l, s, v)
  \/ \E l \in Listeners : Proceed(l)
  \/ Cancel

SafeSpec == Init /\ [][Next]_vars

\* A goroutine inside Record is eventually scheduled, mu is handed over, and
\* every POST ends (http.Client has a Timeout of 5 s).
Spec == SafeSpec /\ \A l \in Listeners : WF_vars(Proceed(l))

-----------------------------------------------------------------------------
(***************************************************************************)
(* Properties                                                              *)
(***************************************************************************)
TypeOK ==
  /\ call \in [Listeners -> (Slaves \X Values) \cup {NoCall}]
  /\ mu \in Listeners \cup {Free}
  /\ last \in [Pairs -> Values \cup {NoValue}]
  /\ tried \in [Pairs -> 0 .. NumDests]
  /\ offered \in [Dests -> SUBSET (Pairs \X Values)]
  /\ db \in [Dests -> SUBSET (Pairs \X Values)]
  /\ done \in BOOLEAN
  /\ ctxDone \in BOOLEAN

\* No destination is ever given a point before all slaves were seen, a point
\* of a slave nobody asked for, or two different values of one slave: the
\* posts of a flush are one consistent snapshot, however Record calls of
\* other listeners interleave with it.
SingleSnapshot ==
  \A d \in Dests : offered[d] # {} => AllSeen(last) /\ offered[d] \subseteq Snapshot

\* When the coordinator says done (and cancels everybody), every destination
\* has been given all of the snapshot that can be posted to it, whichever
\* destinations failed or were passed over on the way.
DoneIsComplete ==
  done => AllSeen(last) /\ \A d \in Dests : offered[d] = Due(d)

\* The strengthening of the two invariants above that is inductive: what is
\* recorded is wanted, the flushing listener saw everybody, and each
\* destination holds exactly the postable pairs whose loop has passed it.
Passed(d) ==
  {<<w, last[w]>> : w \in {u \in Wanted : tried[u] >= d /\ Postable(d, last[u])}}

RecordedAreWanted == \A w \in Pairs \ Wanted : last[w] = NoValue

BeforeFlush ==
  mu = Free /\ ~ done =>
    /\ ~ AllSeen(last)
    /\ \A w \in Pairs : tried[w] = 0
    /\ \A d \in Dests : offered[d] = {}

WhileFlushing ==
  mu # Free => ~ done /\ AllSeen(last) /\ \A d \in Dests : offered[d] = Passed(d)

AfterFlush ==
  done => mu = Free /\ AllSeen(last) /\ \A d \in Dests : offered[d] = Due(d)

IInv ==
  TypeOK /\ RecordedAreWanted /\ BeforeFlush /\ WhileFlushing /\ AfterFlush

\* From the first post on, no Record call changes what flush is posting.
SnapshotFrozen == [][mu # Free \/ done => last' = last]_vars

\* The coordinator implements the abstract single store.
Abs == INSTANCE StoreOnce WITH
  Keys <- Wanted,
  reading <- [w \in Wanted |-> last[w]],
  committed <- done,
  stored <- IF done THEN offered ELSE [d \in Dests |-> {}]

\* Each interleaving of listeners, locks and posts looks like one atomic
\* commit of a complete collection, which does happen once it is complete.
ImplementsStoreOnce == Abs!Spec
===============================================================================
