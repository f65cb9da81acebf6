------------------------------ MODULE AgentProofs ------------------------------
(***************************************************************************)
(* Proofs about Agent, for any number of listeners, targets and slaves and *)
(* any traffic.  What a listener does inside Record is covered by the      *)
(* proofs about the coordinator, whose theorems are used through SCP: an   *)
(* agent step is a step of the coordinator or leaves it alone.             *)
(***************************************************************************)
EXTENDS Agent, FiniteSetTheorems, TLAPS

SCP == INSTANCE StoreCoordinatorProofs

\* A listener that has a frame to handle has one of its line's frames, and a
\* store run that got past main's checks has a destination and a slave to wait
\* for.
FrameInHand == \A l \in Listeners : pc[l] \in {"log", "record", "handle"} => frame[l] \in Frames

StoreIsPossible == main = "wait" /\ Store => NumDests # 0 /\ SC!Wanted # {}

Gate == OwnTypes /\ ctxDone \in BOOLEAN /\ FrameInHand /\ StoreIsPossible

-----------------------------------------------------------------------------
\* The number of usable targets is a number.
LEMMA NumDestsIsNat == NumDests \in Nat
<1>1. DOMAIN Targets = 1 .. Len(Targets) /\ Len(Targets) \in Nat
  BY TargetsAssumption
<1>2. IsFiniteSet(DOMAIN Targets)
  BY <1>1, FS_Interval
<1>3. IsFiniteSet({i \in DOMAIN Targets : Usable(Targets[i])})
  BY <1>2, FS_Subset
<1> QED
  BY <1>3, FS_CardinalityType DEF NumDests

LEMMA PortsShape ==
  /\ Listeners \subseteq Nat \ {0}
  /\ \A l \in Listeners :
       /\ NPorts[l].name \in Names
       /\ NPorts[l].detected \subseteq Slaves
       /\ NPorts[l].mapped \subseteq Slaves
       /\ NPorts[l].dustiq \in BOOLEAN
<1> DEFINE Port == [name : Names, detected : SUBSET Slaves, mapped : SUBSET Slaves,
                    dustiq : BOOLEAN]
<1>1. NPorts \in Seq(Port)
  BY PortsAssumption
<1>2. ASSUME NEW port \in Port
      PROVE  /\ port.name \in Names /\ port.detected \subseteq Slaves
             /\ port.mapped \subseteq Slaves /\ port.dustiq \in BOOLEAN
  OBVIOUS
<1> HIDE DEF Port
<1>3. DOMAIN NPorts = 1 .. Len(NPorts) /\ Len(NPorts) \in Nat
      /\ \A l \in DOMAIN NPorts : NPorts[l] \in Port
  BY <1>1
<1> QED
  BY <1>2, <1>3 DEF Listeners

\* The coordinator is given what its module assumes, except that there may be
\* nobody to wait for.
LEMMA CoordinatorAssumptions ==
  SCP!NPortsAssumption /\ SCP!ValuesAssumption /\ SCP!NumDestsAssumption
  BY PortsShape, NumDestsIsNat, NoValueAssumption
     DEF SCP!NPortsAssumption, SCP!ValuesAssumption, SCP!NumDestsAssumption, Listeners

-----------------------------------------------------------------------------
LEMMA InitGate ==
  ASSUME Init
  PROVE  Gate
<1>1. ctxDone = FALSE
  BY DEF Init, SC!Init
<1>2. OwnTypes
  BY NumDestsIsNat DEF Init, OwnTypes, PCs
<1> QED
  BY <1>1, <1>2 DEF Init, Gate, FrameInHand, StoreIsPossible

\* What a frame shows the collector is a port and a slave.
LEMMA SeenIsAPair ==
  ASSUME NEW l \in Listeners, frame[l] \in Frames
  PROVE  Seen(l, frame[l]) \subseteq Names \X Slaves
  BY PortsShape DEF Seen, Frames

\* The coordinator's state changes by the coordinator's own steps: listeners
\* call Record and go on inside it, and the context is cancelled by a signal,
\* the timer or the flush.
LEMMA CoordinatorMoves ==
  ASSUME OwnTypes, FrameInHand, ctxDone \in BOOLEAN, [Next]_vars
  PROVE  [SC!Next]_(SC!vars) /\ ctxDone' \in BOOLEAN
<1> USE DEF SC!Next, SC!vars, SC!Listeners, Listeners, coordVars
<1>1. CASE TimerFires \/ Interrupt
  BY <1>1 DEF TimerFires, Interrupt, SC!Cancel
<1>2. ASSUME NEW l \in Listeners, LogFrame(l)
      PROVE  [SC!Next]_(SC!vars) /\ ctxDone' \in BOOLEAN
  <2>1. frame[l] \in Frames
    BY <1>2 DEF LogFrame, At, FrameInHand
  <2>2. frame[l].slave \in Slaves /\ frame[l].value \in Values
    BY <2>1 DEF Frames
  <2> QED
    BY <1>2, <2>2 DEF LogFrame, SC!CallRecord
<1>3. ASSUME NEW l \in Listeners, Record(l)
      PROVE  [SC!Next]_(SC!vars) /\ ctxDone' \in BOOLEAN
  BY <1>3 DEF Record, SC!Proceed, SC!RecordDropped, SC!RecordKept, SC!Store, SC!FlushDone
<1>4. CASE UNCHANGED <<coordVars, ctxDone>>
  BY <1>4
<1> QED
  BY <1>1, <1>2, <1>3, <1>4
     DEF Next, Start, Finish, TimerReturns, Listen, Top, Dial, Pause, Check, ReadBytes,
         ReadTimeout, ReadError, Handle, Post, Over, vars

LEMMA GateStep ==
  ASSUME Gate, [Next]_vars
  PROVE  Gate'
<1>0. ctxDone' \in BOOLEAN
  BY CoordinatorMoves DEF Gate
<1> USE <1>0 DEF Gate, OwnTypes, FrameInHand, StoreIsPossible, PCs, Store, Listeners
<1>1. CASE Start
  BY <1>1 DEF Start, frameVars
<1>2. CASE Finish
  BY <1>2 DEF Finish, frameVars
<1>3. CASE TimerFires \/ TimerReturns \/ Interrupt
  BY <1>3 DEF TimerFires, TimerReturns, Interrupt, frameVars
<1>4. ASSUME NEW l \in Listeners, Top(l) \/ Dial(l) \/ Pause(l) \/ Check(l)
      PROVE  Gate'
  BY <1>4 DEF Top, Dial, Pause, Check, At, Goto, mainVars, frameVars
<1>5. ASSUME NEW l \in Listeners, ReadBytes(l) \/ ReadTimeout(l) \/ ReadError(l)
      PROVE  Gate'
  BY <1>5, TrafficAssumption DEF ReadBytes, ReadTimeout, ReadError, Emit, At, Goto, mainVars
<1>6. ASSUME NEW l \in Listeners, LogFrame(l)
      PROVE  Gate'
  <2>1. frame[l] \in Frames
    BY <1>6 DEF LogFrame, At
  <2>2. detected' \subseteq Names \X Slaves /\ report' \subseteq detected'
    BY <1>6, <2>1, SeenIsAPair DEF LogFrame, mainVars
  <2>3. late' \in [Listeners -> Nat]
    BY <1>6 DEF LogFrame
  <2>4. pc' \in [Listeners -> PCs] /\ FrameInHand'
    BY <1>6, <2>1 DEF LogFrame, Goto, At
  <2> QED
    BY <1>6, <2>2, <2>3, <2>4 DEF LogFrame, mainVars
<1>7. ASSUME NEW l \in Listeners, Record(l)
      PROVE  Gate'
  BY <1>7 DEF Record, Goto, At, mainVars, frameVars
<1>8. ASSUME NEW l \in Listeners, Handle(l)
      PROVE  Gate'
  BY <1>8 DEF Handle, Goto, At, mainVars
<1>9. ASSUME NEW l \in Listeners, Post(l)
      PROVE  Gate'
  BY <1>9, NumDestsIsNat DEF Post, Goto, At, mainVars
<1>10. CASE UNCHANGED vars
  BY <1>10 DEF vars, mainVars, frameVars
<1> QED
  BY <1>1, <1>2, <1>3, <1>4, <1>5, <1>6, <1>7, <1>8, <1>9, <1>10 DEF Next, Listen, Over

LEMMA GateHolds == Spec => []Gate
<1>1. Init => Gate
  BY InitGate
<1>2. Gate /\ [Next]_vars => Gate'
  BY GateStep
<1> QED
  BY <1>1, <1>2, PTL DEF Spec

-----------------------------------------------------------------------------
\* The coordinator the agent runs, and the coordinator the theorems are about,
\* take the same steps.
LEMMA SameCoordinator ==
  /\ SC!Init => SCP!Init
  /\ [SC!Next]_(SC!vars) => [SCP!Next]_(SCP!vars)
  /\ SCP!Abs!Init => SC!Abs!Init
  /\ [SCP!Abs!Next]_(SCP!Abs!vars) => [SC!Abs!Next]_(SC!Abs!vars)
<1> USE DEF SC!Free, SCP!Free, SC!NoCall, SCP!NoCall, SC!Listeners, SCP!Listeners,
            SC!Dests, SCP!Dests, SC!Pairs, SCP!Pairs, SC!vars, SCP!vars,
            SC!Wanted, SCP!Wanted, SC!Overwritten, SCP!Overwritten
<1>1. SC!Init => SCP!Init
  BY DEF SC!Init, SCP!Init
<1>2. [SC!Next]_(SC!vars) => [SCP!Next]_(SCP!vars)
  <2> USE DEF SC!Key, SCP!Key, SC!Dropped, SCP!Dropped, SC!AllSeen, SCP!AllSeen,
              SC!Recorded, SCP!Recorded, SC!Advance, SCP!Advance
  <2>1. ASSUME NEW l \in Listeners
        PROVE  SC!Proceed(l) => SCP!Proceed(l)
    <3>1. SC!RecordDropped(l) => SCP!RecordDropped(l)
      BY DEF SC!RecordDropped, SCP!RecordDropped
    <3>2. SC!RecordKept(l) => SCP!RecordKept(l)
      BY DEF SC!RecordKept, SCP!RecordKept
    <3>3. SC!Store(l) => SCP!Store(l)
      BY DEF SC!Store, SCP!Store, SC!Points, SCP!Points, SC!Postable, SCP!Postable
    <3>4. SC!FlushDone(l) => SCP!FlushDone(l)
      BY DEF SC!FlushDone, SCP!FlushDone
    <3> QED
      BY <3>1, <3>2, <3>3, <3>4 DEF SC!Proceed, SCP!Proceed
  <2>2. ASSUME NEW l \in Listeners, NEW s \in Slaves, NEW v \in Values
        PROVE  SC!CallRecord(l, s, v) => SCP!CallRecord(l, s, v)
    BY DEF SC!CallRecord, SCP!CallRecord
  <2>3. SC!Cancel => SCP!Cancel
    BY DEF SC!Cancel, SCP!Cancel
  <2> QED
    BY <2>1, <2>2, <2>3 DEF SC!Next, SCP!Next, Listeners
<1>3. SCP!Abs!Init => SC!Abs!Init
  BY DEF SC!Abs!Init, SCP!Abs!Init
<1>4. [SCP!Abs!Next]_(SCP!Abs!vars) => [SC!Abs!Next]_(SC!Abs!vars)
  BY DEF SC!Abs!Next, SCP!Abs!Next, SC!Abs!vars, SCP!Abs!vars, SC!Abs!Observe, SCP!Abs!Observe,
         SC!Abs!Commit, SCP!Abs!Commit, SC!Abs!Complete, SCP!Abs!Complete,
         SC!Abs!Collection, SCP!Abs!Collection
<1> QED
  BY <1>1, <1>2, <1>3, <1>4

\* A listener uses the coordinator as its specification says, whatever the
\* frames, signals and connections do (listener.go:110-176, main.go:60-101).
THEOREM RunsTheCoordinator == Spec => SC!SafeSpec
<1>1. Init => SC!Init
  BY DEF Init
<1>2. Gate /\ [Next]_vars => [SC!Next]_(SC!vars)
  BY CoordinatorMoves DEF Gate
<1> QED
  BY <1>1, <1>2, GateHolds, PTL DEF Spec, SC!SafeSpec

LEMMA ProvedCoordinator == SC!SafeSpec => SCP!SafeSpec
<1>1. SC!Init => SCP!Init
  BY SameCoordinator
<1>2. [SC!Next]_(SC!vars) => [SCP!Next]_(SCP!vars)
  BY SameCoordinator
<1> QED
  BY <1>1, <1>2, PTL DEF SC!SafeSpec, SCP!SafeSpec

\* Nobody calls Record in test mode or when there is nobody to wait for.
Untouched ==
  /\ call = [l \in Listeners |-> SC!NoCall]
  /\ mu = SC!Free
  /\ last = [w \in SC!Pairs |-> NoValue]
  /\ tried = [w \in SC!Pairs |-> 0]
  /\ offered = [d \in SC!Dests |-> {}]
  /\ db = [d \in SC!Dests |-> {}]
  /\ done = FALSE

UnusedIsUntouched == ~ Store \/ SC!Wanted = {} => Untouched

LEMMA UnusedStep ==
  ASSUME Gate, UnusedIsUntouched, [Next]_vars
  PROVE  UnusedIsUntouched'
<1>1. mode' = mode
  BY DEF Next, Start, Finish, TimerFires, TimerReturns, Interrupt, Listen, Top, Dial, Pause,
         Check, ReadBytes, ReadTimeout, ReadError, LogFrame, Record, Handle, Post, Over, vars,
         mainVars
<1>2. CASE UNCHANGED coordVars
  BY <1>1, <1>2 DEF UnusedIsUntouched, Untouched, Store, coordVars
<1>3. ASSUME NEW l \in Listeners, LogFrame(l)
      PROVE  UnusedIsUntouched'
  <2>1. Store => SC!Wanted # {}
    BY <1>3 DEF LogFrame, At, Gate, StoreIsPossible
  <2>2. ~ Store => UNCHANGED coordVars
    BY <1>3 DEF LogFrame
  <2> QED
    BY <1>1, <1>2, <2>1, <2>2 DEF UnusedIsUntouched, Store
<1>4. ASSUME NEW l \in Listeners, Record(l), Untouched
      PROVE  FALSE
  <2>1. call[l] = SC!NoCall /\ mu # l
    BY <1>4, PortsShape DEF Untouched, SC!Free
  <2> QED
    BY <1>4, <2>1
       DEF Record, SC!Proceed, SC!RecordDropped, SC!RecordKept, SC!Store, SC!FlushDone
<1> QED
  BY <1>1, <1>2, <1>3, <1>4
     DEF Next, Start, Finish, TimerFires, TimerReturns, Interrupt, Listen, Top, Dial, Pause,
         Check, ReadBytes, ReadTimeout, ReadError, Handle, Post, Over, vars,
         UnusedIsUntouched, Store

LEMMA UnusedHolds == Spec => []UnusedIsUntouched
<1>1. Init => UnusedIsUntouched
  BY DEF Init, SC!Init, UnusedIsUntouched, Untouched, SC!Listeners, Listeners
<1>2. Gate /\ UnusedIsUntouched /\ [Next]_vars => UnusedIsUntouched'
  BY UnusedStep
<1> QED
  BY <1>1, <1>2, GateHolds, PTL DEF Spec

\* The coordinator's inductive invariant holds in the agent, when there is
\* somebody to wait for.
LEMMA CoordinatorInv == Spec => [](SC!Wanted # {} => SCP!IInv)
<1>1. CASE SC!Wanted # {}
  <2>1. SCP!WantedAssumption
    BY <1>1 DEF SC!Wanted, SCP!Wanted, SC!Overwritten, SCP!Overwritten,
                SC!Listeners, SCP!Listeners, SCP!WantedAssumption
  <2>2. SCP!SafeSpec => []SCP!IInv
    BY <2>1, CoordinatorAssumptions, SCP!Invariance, PTL
  <2> QED
    BY <2>2, RunsTheCoordinator, ProvedCoordinator, PTL
<1>2. CASE SC!Wanted = {}
  <2>1. SC!Wanted # {} => SCP!IInv
    BY <1>2
  <2> QED
    BY <2>1, PTL
<1> QED
  BY <1>1, <1>2

-----------------------------------------------------------------------------
LEMMA CoordinatorTypes ==
  ASSUME Gate, UnusedIsUntouched, SC!Wanted # {} => SCP!IInv
  PROVE  SC!TypeOK
<1> USE DEF SC!Free, SC!NoCall, SC!Listeners, SC!Dests, SC!Pairs, Listeners
<1>1. CASE SC!Wanted # {}
  <2>1. SCP!TypeOK
    BY <1>1 DEF SCP!IInv
  <2> QED
    BY <2>1 DEF SC!TypeOK, SCP!TypeOK, SCP!Free, SCP!NoCall, SCP!Listeners, SCP!Dests,
                SCP!Pairs
<1>2. CASE SC!Wanted = {}
  <2>1. Untouched /\ ctxDone \in BOOLEAN
    BY <1>2 DEF UnusedIsUntouched, Gate
  <2>2. tried \in [SC!Pairs -> 0 .. NumDests]
    BY <2>1, NumDestsIsNat DEF Untouched
  <2>3. /\ offered \in [SC!Dests -> SUBSET (SC!Pairs \X Values)]
        /\ db \in [SC!Dests -> SUBSET (SC!Pairs \X Values)]
    BY <2>1 DEF Untouched
  <2>4. /\ call \in [Listeners -> (Slaves \X Values) \cup {SC!NoCall}]
        /\ mu \in Listeners \cup {SC!Free}
        /\ last \in [SC!Pairs -> Values \cup {NoValue}]
    BY <2>1 DEF Untouched
  <2> QED
    BY <2>1, <2>2, <2>3, <2>4 DEF Untouched, SC!TypeOK
<1> QED
  BY <1>1, <1>2

\* Type correctness of the agent, with the state of the coordinator: no
\* listener posts to more targets than there are, and what is detected or
\* reported is a slave of a port.
THEOREM TypeCorrect == Spec => []TypeOK
<1>1. Gate /\ UnusedIsUntouched /\ (SC!Wanted # {} => SCP!IInv) => TypeOK
  BY CoordinatorTypes DEF TypeOK, Gate
<1> QED
  BY <1>1, GateHolds, UnusedHolds, CoordinatorInv, PTL

\* The whole agent stores one complete collection once: goroutines, frames,
\* reconnections, signals and the timer add nothing to what the coordinator
\* does (main.go:60-113, store_coordinator.go:52-125).
THEOREM AgentStoresOnceHolds == Spec => AgentStoresOnce
<1>1. CASE SC!Wanted # {}
  <2>1. SCP!WantedAssumption
    BY <1>1 DEF SC!Wanted, SCP!Wanted, SC!Overwritten, SCP!Overwritten,
                SC!Listeners, SCP!Listeners, SCP!WantedAssumption
  <2>2. SCP!SafeSpec => SCP!Abs!SafeSpec
    BY <2>1, CoordinatorAssumptions, SCP!StoresOnce, PTL
  <2>3. SCP!Abs!Init => SC!Abs!Init
    BY SameCoordinator
  <2>4. [SCP!Abs!Next]_(SCP!Abs!vars) => [SC!Abs!Next]_(SC!Abs!vars)
    BY SameCoordinator
  <2>5. SCP!Abs!SafeSpec => SC!Abs!SafeSpec
    BY <2>3, <2>4, PTL DEF SCP!Abs!SafeSpec, SC!Abs!SafeSpec
  <2> QED
    BY <2>2, <2>5, RunsTheCoordinator, ProvedCoordinator, PTL DEF AgentStoresOnce
<1>2. CASE SC!Wanted = {}
  <2>1. Init => SC!Abs!Init
    BY <1>2 DEF Init, SC!Init, SC!Abs!Init
  <2>2. UnusedIsUntouched /\ UnusedIsUntouched' => UNCHANGED SC!Abs!vars
    BY <1>2 DEF UnusedIsUntouched, Untouched, SC!Abs!vars
  <2> QED
    BY <2>1, <2>2, UnusedHolds, PTL DEF Spec, AgentStoresOnce, SC!Abs!SafeSpec
<1> QED
  BY <1>1, <1>2

-----------------------------------------------------------------------------
\* The context stays cancelled.
LEMMA CancelledForGood ==
  ASSUME [Next]_vars, ctxDone = TRUE
  PROVE  ctxDone' = TRUE
  BY DEF Next, Start, Finish, TimerFires, TimerReturns, Interrupt, Listen, Top, Dial, Pause,
         Check, ReadBytes, ReadTimeout, ReadError, LogFrame, Record, Handle, Post, Over, vars,
         SC!CallRecord, SC!Proceed, SC!RecordDropped, SC!RecordKept, SC!Store, SC!FlushDone

\* A listener that logged a frame after the cancellation does not read again.
LateOnce ==
  \A l \in Listeners :
    late[l] = 0 \/ (late[l] = 1 /\ ctxDone = TRUE /\ pc[l] \notin {"read", "log"})

LEMMA LateStep ==
  ASSUME OwnTypes, ctxDone \in BOOLEAN, LateOnce, [Next]_vars
  PROVE  LateOnce'
<1> SUFFICES ASSUME NEW k \in Listeners
             PROVE  (late[k] = 0 \/ (late[k] = 1 /\ ctxDone = TRUE
                                      /\ pc[k] \notin {"read", "log"}))'
  BY DEF LateOnce
<1> USE CancelledForGood DEF LateOnce, OwnTypes
<1>1. CASE UNCHANGED <<late, pc>>
  BY <1>1
<1>2. ASSUME NEW l \in Listeners, LogFrame(l)
      PROVE  (late[k] = 0 \/ (late[k] = 1 /\ ctxDone = TRUE
                               /\ pc[k] \notin {"read", "log"}))'
  <2>1. late[l] = 0 /\ pc'[l] \in {"record", "handle"}
    BY <1>2 DEF LogFrame, At, Goto
  <2>2. late'[l] = IF ctxDone THEN 1 ELSE 0
    BY <1>2, <2>1 DEF LogFrame
  <2>3. k # l => late'[k] = late[k] /\ pc'[k] = pc[k]
    BY <1>2 DEF LogFrame, Goto
  <2> QED
    BY <2>1, <2>2, <2>3
<1>3. ASSUME NEW l \in Listeners, Listen(l), ~ LogFrame(l)
      PROVE  (late[k] = 0 \/ (late[k] = 1 /\ ctxDone = TRUE
                               /\ pc[k] \notin {"read", "log"}))'
  <2>1. late' = late /\ (k # l => pc'[k] = pc[k])
    BY <1>3 DEF Listen, Top, Dial, Pause, Check, ReadBytes, ReadTimeout, ReadError, Emit,
                Record, Handle, Post, Goto, frameVars
  <2>2. pc[l] \notin {"read", "log"} /\ ctxDone => pc'[l] \notin {"read", "log"}
    BY <1>3 DEF Listen, Top, Dial, Pause, Check, ReadBytes, ReadTimeout, ReadError, Emit,
                Record, Handle, Post, Goto, At, frameVars
  <2> QED
    BY <2>1, <2>2
<1> QED
  BY <1>1, <1>2, <1>3
     DEF Next, Start, Finish, TimerFires, TimerReturns, Interrupt, Over, vars, frameVars

\* After the cancellation a listener handles at most the frame it was
\* collecting, however often it would still reconnect or read
\* (listener.go:32-107).
THEOREM OneLateFrameHolds == Spec => []OneLateFrame
<1>1. Init => LateOnce
  BY DEF Init, LateOnce
<1>2. Gate /\ LateOnce /\ [Next]_vars => LateOnce'
  BY LateStep DEF Gate
<1>3. LateOnce => OneLateFrame
  BY DEF LateOnce, OneLateFrame
<1> QED
  BY <1>1, <1>2, <1>3, GateHolds, PTL DEF Spec

-----------------------------------------------------------------------------
\* A listener is inside Record, or flushing, only at that place of its loop.
InsideRecord ==
  \A l \in Listeners :
    /\ call[l] # SC!NoCall => pc[l] = "record"
    /\ mu = l => call[l] # SC!NoCall

\* The DustIQ handler posts its cycle to every target, and only once, since
\* the listener returns after it.
PostsOnce ==
  \A l \in Listeners :
    /\ pc[l] \notin {"post", "done"} => posted[l] = 0
    /\ pc[l] = "done" => posted[l] \in {0, NumDests}
    /\ ~ Store => posted[l] = 0 /\ pc[l] # "post"

\* A process that exits has no listener in the middle of something, and one
\* that is killed was a timed test.
Endings ==
  /\ main = "start" => \A l \in Listeners : pc[l] = "top"
  /\ main = "exited" => \A l \in Listeners : pc[l] \in {"top", "done"}
  /\ timer = "armed" \/ ~ notify \/ main = "killed" => ~ Store

LEMMA InsideRecordStep ==
  ASSUME TypeOK, InsideRecord, [Next]_vars
  PROVE  InsideRecord'
<1> USE DEF InsideRecord, TypeOK, SC!TypeOK, OwnTypes, SC!Listeners, Listeners, SC!NoCall
<1>1. CASE UNCHANGED <<call, mu, pc>>
  BY <1>1
<1>2. ASSUME NEW l \in Listeners, pc[l] # "record", UNCHANGED <<call, mu>>,
             pc' = [pc EXCEPT ![l] = pc'[l]]
      PROVE  InsideRecord'
  BY <1>2
<1>3. ASSUME NEW l \in Listeners, LogFrame(l)
      PROVE  InsideRecord'
  BY <1>3 DEF LogFrame, At, Goto, coordVars, SC!CallRecord
<1>4. ASSUME NEW l \in Listeners, Record(l)
      PROVE  InsideRecord'
  <2>1. SC!Free \notin Listeners
    BY PortsShape DEF SC!Free, Listeners
  <2>2. /\ \A k \in Listeners \ {l} : call'[k] = call[k] /\ pc'[k] = pc[k]
        /\ pc'[l] = IF call'[l] = SC!NoCall THEN "handle" ELSE "record"
    BY <1>4 DEF Record, Goto, SC!Proceed, SC!RecordDropped, SC!RecordKept, SC!Store,
                SC!FlushDone
  <2>3. \/ mu' = SC!Free
        \/ mu' = l /\ call'[l] # SC!NoCall
    BY <1>4 DEF Record, SC!Proceed, SC!RecordDropped, SC!RecordKept, SC!Store, SC!FlushDone
  <2> QED
    BY <2>1, <2>2, <2>3
<1> QED
  BY <1>1, <1>2, <1>3, <1>4
     DEF Next, Start, Finish, TimerFires, TimerReturns, Interrupt, Listen, Top, Dial, Pause,
         Check, ReadBytes, ReadTimeout, ReadError, Emit, Handle, Post, At, Goto, Over, vars,
         coordVars

LEMMA PostsOnceStep ==
  ASSUME OwnTypes, PostsOnce, StoreIsPossible, [Next]_vars
  PROVE  PostsOnce'
<1> USE NumDestsIsNat DEF PostsOnce, OwnTypes, Store
<1>1. CASE UNCHANGED <<mode, pc, posted>>
  BY <1>1
<1>2. ASSUME NEW l \in Listeners, pc[l] \notin {"post", "done"}, pc'[l] # "post",
             UNCHANGED <<mode, posted>>, pc' = [pc EXCEPT ![l] = pc'[l]]
      PROVE  PostsOnce'
  BY <1>2
<1>3. ASSUME NEW l \in Listeners, Handle(l)
      PROVE  PostsOnce'
  BY <1>3 DEF Handle, At, Goto, mainVars
<1>4. ASSUME NEW l \in Listeners, Post(l)
      PROVE  PostsOnce'
  BY <1>4 DEF Post, At, Goto, mainVars
<1> QED
  BY <1>1, <1>2, <1>3, <1>4
     DEF Next, Start, Finish, TimerFires, TimerReturns, Interrupt, Listen, Top, Dial, Pause,
         Check, ReadBytes, ReadTimeout, ReadError, Emit, LogFrame, Record, At, Goto, Over, vars,
         mainVars, frameVars

LEMMA EndingsStep ==
  ASSUME OwnTypes, Endings, [Next]_vars
  PROVE  Endings'
<1> USE DEF Endings, OwnTypes, Store
<1>1. ASSUME NEW l \in Listeners, Listen(l)
      PROVE  Endings'
  <2>1. main = "wait" /\ UNCHANGED mainVars
    BY <1>1 DEF Listen, Top, Dial, Pause, Check, ReadBytes, ReadTimeout, ReadError, LogFrame,
                Record, Handle, Post, At
  <2> QED
    BY <2>1 DEF mainVars
<1> QED
  BY <1>1 DEF Next, Start, Finish, TimerFires, TimerReturns, Interrupt, Over, vars, mainVars

LEMMA EndingInv == Spec => [](InsideRecord /\ PostsOnce /\ Endings)
<1>1. Init => InsideRecord /\ PostsOnce /\ Endings
  BY PortsShape DEF Init, SC!Init, InsideRecord, PostsOnce, Endings, SC!Listeners, Listeners,
                    SC!NoCall, SC!Free
<1>2. TypeOK /\ InsideRecord /\ [Next]_vars => InsideRecord'
  BY InsideRecordStep
<1>3. Gate /\ PostsOnce /\ [Next]_vars => PostsOnce'
  BY PostsOnceStep DEF Gate
<1>4. Gate /\ Endings /\ [Next]_vars => Endings'
  BY EndingsStep DEF Gate
<1> QED
  BY <1>1, <1>2, <1>3, <1>4, TypeCorrect, GateHolds, PTL DEF Spec

\* However the process ends, each destination was given all of the collection
\* that can be posted to it, or nothing, and the loop that posts a listener's
\* DustIQ cycle came to the last destination or was not begun: main waits for
\* its listeners, and only a test can be killed (main.go:60-101,
\* listener.go:49-53).
THEOREM NoStoreIsCutShort == Spec => []NoStoreCutShort
<1>1. ASSUME TypeOK, UnusedIsUntouched, SC!Wanted # {} => SCP!IInv,
             InsideRecord, PostsOnce, Endings
      PROVE  NoStoreCutShort
  <2> SUFFICES ASSUME Ended
               PROVE  /\ \/ \A d \in SC!Dests : offered[d] = {}
                         \/ \A d \in SC!Dests : offered[d] = SC!Due(d)
                      /\ \A l \in Listeners : posted[l] \in {0, NumDests}
    BY DEF NoStoreCutShort
  <2>1. \A l \in Listeners : posted[l] \in {0, NumDests}
    BY <1>1 DEF Ended, Endings, PostsOnce
  <2>2. ASSUME ~ Store \/ SC!Wanted = {}
        PROVE  \A d \in SC!Dests : offered[d] = {}
    BY <1>1, <2>2 DEF UnusedIsUntouched, Untouched
  <2>3. ASSUME Store, SC!Wanted # {}
        PROVE  \/ \A d \in SC!Dests : offered[d] = {}
               \/ \A d \in SC!Dests : offered[d] = SC!Due(d)
    <3>1. main = "exited"
      BY <1>1, <2>3 DEF Ended, Endings
    <3>2. mu = SC!Free
      BY <1>1, <3>1 DEF Endings, InsideRecord, TypeOK, SC!TypeOK, SC!Listeners, Listeners
    <3>3. SCP!IInv
      BY <1>1, <2>3
    <3>4. CASE done
      BY <3>3, <3>4 DEF SCP!IInv, SCP!AfterFlush, SC!Due, SCP!Due, SC!Postable,
                        SCP!Postable, SC!Dests, SCP!Dests, SC!Wanted, SCP!Wanted, SC!Overwritten, SCP!Overwritten,
                        SC!Listeners, SCP!Listeners
    <3>5. CASE ~ done
      BY <3>2, <3>3, <3>5 DEF SCP!IInv, SCP!BeforeFlush, SC!Dests, SCP!Dests, SC!Free, SCP!Free
    <3> QED
      BY <3>4, <3>5
  <2> QED
    BY <2>1, <2>2, <2>3
<1> QED
  BY <1>1, TypeCorrect, UnusedHolds, CoordinatorInv, EndingInv, PTL

-----------------------------------------------------------------------------
\* A listener tells the collector of a slave before it calls Record, so what
\* is being recorded, or was, is detected.
RecordedAreDetected ==
  /\ \A l \in Listeners : call[l] # SC!NoCall => SC!Key(l) \in detected
  /\ \A w \in SC!Pairs : last[w] # NoValue => w \in detected

\* The report is written once, when the process exits.
ReportIsLast ==
  /\ main # "exited" => report = {}
  /\ report # {} => report = detected

LEMMA RecordedAreDetectedStep ==
  ASSUME TypeOK, Gate, RecordedAreDetected, [Next]_vars
  PROVE  RecordedAreDetected'
<1> USE DEF RecordedAreDetected
<1>1. CASE UNCHANGED <<call, last, detected>>
  BY <1>1 DEF SC!Key
<1>2. ASSUME NEW l \in Listeners, LogFrame(l)
      PROVE  RecordedAreDetected'
  <2>1. detected' = detected \cup Seen(l, frame[l])
    BY <1>2 DEF LogFrame
  <2>2. CASE UNCHANGED coordVars
    BY <2>1, <2>2 DEF coordVars, SC!Key
  <2>3. CASE Decodes(l, frame[l]) /\ SC!CallRecord(l, frame[l].slave, frame[l].value)
    <3>1. last' = last /\ call' = [call EXCEPT ![l] = <<frame[l].slave, frame[l].value>>]
      BY <2>3 DEF SC!CallRecord
    <3>2. <<NPorts[l].name, frame[l].slave>> \in detected'
      BY <2>1, <2>3 DEF Seen, Decodes
    <3>3. call \in [Listeners -> (Slaves \X Values) \cup {SC!NoCall}]
      BY DEF TypeOK, SC!TypeOK, SC!Listeners, Listeners
    <3>4. SC!Key(l)' = <<NPorts[l].name, frame[l].slave>>
      BY <3>1, <3>3 DEF SC!Key
    <3>5. \A k \in Listeners \ {l} : call'[k] = call[k] /\ SC!Key(k)' = SC!Key(k)
      BY <3>1, <3>3 DEF SC!Key
    <3> QED
      BY <2>1, <3>1, <3>2, <3>4, <3>5
  <2> QED
    BY <1>2, <2>2, <2>3 DEF LogFrame
<1>3. ASSUME NEW l \in Listeners, Record(l)
      PROVE  RecordedAreDetected'
  <2>1. detected' = detected
    BY <1>3 DEF Record, frameVars
  <2>2. /\ call \in [Listeners -> (Slaves \X Values) \cup {SC!NoCall}]
        /\ last \in [SC!Pairs -> Values \cup {NoValue}]
    BY DEF TypeOK, SC!TypeOK, SC!Listeners, Listeners
  <2>3. call' = call \/ call' = [call EXCEPT ![l] = SC!NoCall]
    BY <1>3 DEF Record, SC!Proceed, SC!RecordDropped, SC!RecordKept, SC!Store, SC!FlushDone
  <2>4. \A k \in Listeners : call'[k] # SC!NoCall => call'[k] = call[k] /\ SC!Key(k)' = SC!Key(k)
    BY <2>2, <2>3 DEF SC!Key
  <2>5. \/ last' = last
        \/ call[l] # SC!NoCall /\ last' = [last EXCEPT ![SC!Key(l)] = call[l][2]]
    BY <1>3 DEF Record, SC!Proceed, SC!RecordDropped, SC!RecordKept, SC!Store, SC!FlushDone
  <2>6. \A w \in SC!Pairs : last'[w] # NoValue => w \in detected
    BY <2>2, <2>5
  <2> QED
    BY <2>1, <2>4, <2>6
<1> QED
  BY <1>1, <1>2, <1>3
     DEF Next, Start, Finish, TimerFires, TimerReturns, Interrupt, Listen, Top, Dial, Pause,
         Check, ReadBytes, ReadTimeout, ReadError, Emit, Handle, Post, Over, vars,
         coordVars, frameVars

LEMMA ReportIsLastStep ==
  ASSUME ReportIsLast, [Next]_vars
  PROVE  ReportIsLast'
<1> USE DEF ReportIsLast
<1>1. ASSUME NEW l \in Listeners, Listen(l)
      PROVE  ReportIsLast'
  <2>1. main = "wait" /\ UNCHANGED mainVars
    BY <1>1 DEF Listen, Top, Dial, Pause, Check, ReadBytes, ReadTimeout, ReadError, LogFrame,
                Record, Handle, Post, At
  <2> QED
    BY <2>1 DEF mainVars
<1> QED
  BY <1>1
     DEF Next, Start, Finish, TimerFires, TimerReturns, Interrupt, Over, vars, mainVars, frameVars

\* What was posted to a destination is of slaves that were detected, and a
\* report that was written names them (listener.go:118-120, main.go:101-112).
THEOREM StoredAreDetected == Spec => []StoredWereDetected
<1>1. Init => RecordedAreDetected /\ ReportIsLast
  BY DEF Init, SC!Init, RecordedAreDetected, ReportIsLast, SC!Listeners, Listeners
<1>2. TypeOK /\ Gate /\ RecordedAreDetected /\ [Next]_vars => RecordedAreDetected'
  BY RecordedAreDetectedStep
<1>3. ReportIsLast /\ [Next]_vars => ReportIsLast'
  BY ReportIsLastStep
<1>4. ASSUME UnusedIsUntouched, SC!Wanted # {} => SCP!IInv, RecordedAreDetected, ReportIsLast
      PROVE  StoredWereDetected
  <2> SUFFICES ASSUME NEW d \in SC!Dests, NEW p \in offered[d]
               PROVE  p[1] \in detected /\ (report # {} => p[1] \in report)
    BY DEF StoredWereDetected
  <2>1. SC!Wanted # {}
    BY <1>4 DEF UnusedIsUntouched, Untouched
  <2>2. SCP!IInv
    BY <1>4, <2>1
  <2>3. PICK w \in SCP!Wanted : p = <<w, last[w]>> /\ last[w] # NoValue
    <3>1. mu # SCP!Free \/ done
      BY <2>2 DEF SCP!IInv, SCP!BeforeFlush, SC!Dests, SCP!Dests
    <3> QED
      BY <2>2, <3>1
         DEF SCP!IInv, SCP!WhileFlushing, SCP!AfterFlush, SCP!Passed, SCP!Due,
             SCP!AllSeen, SC!Dests, SCP!Dests
  <2>4. w \in SC!Pairs
    BY PortsShape DEF SCP!Wanted, SC!Pairs, SCP!Listeners, Listeners
  <2> QED
    BY <1>4, <2>3, <2>4 DEF RecordedAreDetected, ReportIsLast
<1> QED
  BY <1>1, <1>2, <1>3, <1>4, TypeCorrect, GateHolds, UnusedHolds, CoordinatorInv, PTL DEF Spec
===============================================================================
