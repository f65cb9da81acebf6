----------------------------- MODULE PollerProofs -----------------------------
(***************************************************************************)
(* Proofs about Poller, for every configuration of devices, slaves and     *)
(* registers.                                                              *)
(***************************************************************************)
EXTENDS Poller, TLAPS

\* p comes before the registers that are still to be polled.
Passed(p) ==
  \/ p[1] < dev
  \/ p[1] = dev /\ (p[2] < slave \/ (p[2] = slave /\ p[3] < reg))

\* The loops' positions: the inner ones start over whenever an outer one
\* moves, and a run that ended is past the last device.
Positions ==
  /\ pc = "ping" => dev = 1
  /\ pc \in {"poll", "fatal"} => dev <= Len(Devices)
  /\ pc = "ended" => dev = Len(Devices) + 1
  /\ pc # "poll" => slave = 1 /\ reg = 1
  /\ pc = "poll" /\ ~ HasSlave => reg = 1

\* What was asked for is what the loops have passed, nothing less.
AskedWhatWasPassed ==
  asked = {p \in Points : Passed(p) /\ Register(p).fc \in {3, 4}}

\* No database is available before the ping, and only values of the device
\* that is being polled wait in a queue.
QueuesOfThisDevice ==
  /\ pc = "ping" => \A b \in Databases : ~ available[b]
  /\ \A b \in Databases : pc # "poll" => queue[b] = {}
  /\ \A b \in Databases : \A p \in queue[b] : p[1] = dev

\* The inductive invariant.
IInv ==
  TypeOK /\ Positions /\ AskedWhatWasPassed /\ QueuesOfThisDevice /\ BooksAgree

-----------------------------------------------------------------------------
\* The configuration is a sequence of sequences of sequences of registers.
LEMMA DeviceShape ==
  /\ DOMAIN Devices = 1 .. Len(Devices) /\ Len(Devices) \in Nat
  /\ \A d \in DOMAIN Devices :
       /\ DOMAIN Devices[d] = 1 .. Len(Devices[d]) /\ Len(Devices[d]) \in Nat
       /\ \A s \in DOMAIN Devices[d] :
            DOMAIN Devices[d][s] = 1 .. Len(Devices[d][s]) /\ Len(Devices[d][s]) \in Nat
<1> DEFINE R == [fc : Nat, named : BOOLEAN, type : STRING]
<1>1. Devices \in Seq(Seq(Seq(R)))
  BY DevicesAssumption
<1>2. ASSUME NEW d \in DOMAIN Devices
      PROVE  Devices[d] \in Seq(Seq(R))
  BY <1>1
<1>3. ASSUME NEW d \in DOMAIN Devices, NEW s \in DOMAIN Devices[d]
      PROVE  Devices[d][s] \in Seq(R)
  BY <1>2
<1> QED
  BY <1>1, <1>2, <1>3

\* A point is a device, one of its slaves and one of the slave's registers.
LEMMA PointShape ==
  /\ \A d \in DOMAIN Devices : \A s \in DOMAIN Devices[d] :
       \A r \in DOMAIN Devices[d][s] : <<d, s, r>> \in Points
  /\ \A p \in Points :
       /\ p[1] \in DOMAIN Devices
       /\ p[2] \in DOMAIN Devices[p[1]]
       /\ p[3] \in DOMAIN Devices[p[1]][p[2]]
       /\ p = <<p[1], p[2], p[3]>>
  BY DEF Points

\* While a register is left, the loops stand at a point.
LEMMA HereIsAPoint ==
  ASSUME TypeOK, Positions, pc = "poll", HasRegister
  PROVE  Here \in Points
<1>1. dev \in DOMAIN Devices /\ slave \in DOMAIN Devices[dev]
  BY DeviceShape DEF TypeOK, Positions, HasRegister, HasSlave
<1>2. reg \in DOMAIN Devices[dev][slave]
  BY <1>1, DeviceShape DEF TypeOK, HasRegister
<1> QED
  BY <1>1, <1>2, PointShape DEF Here

-----------------------------------------------------------------------------
\* The loops stay within the configuration.
LEMMA PositionsStep ==
  ASSUME TypeOK, Positions, [Next]_vars
  PROVE  Positions' /\ (dev \in 1 .. Len(Devices) + 1)'
         /\ (dev <= Len(Devices) => slave \in 1 .. Len(Devices[dev]) + 1)'
         /\ (pc = "poll" /\ HasSlave => reg \in 1 .. Len(Devices[dev][slave]) + 1)'
<1> USE DeviceShape DEF TypeOK, Positions, HasSlave, HasRegister
<1>1. CASE Ping
  BY <1>1 DEF Ping, positions
<1>2. CASE Connect
  BY <1>2 DEF Connect, positions
<1>3. CASE ConnectFails
  BY <1>3 DEF ConnectFails, positions
<1>4. CASE pc = "poll" /\ HasRegister /\ reg' = reg + 1 /\ UNCHANGED <<pc, dev, slave>>
  BY <1>4
<1>5. CASE EndSlave
  BY <1>5 DEF EndSlave
<1>6. CASE EndDevice
  BY <1>6 DEF EndDevice
<1>7. CASE End
  BY <1>7 DEF End, positions
<1>8. CASE UNCHANGED <<pc, positions>>
  BY <1>8 DEF positions
<1> QED
  BY <1>1, <1>2, <1>3, <1>4, <1>5, <1>6, <1>7, <1>8
     DEF Next, Step, SkipRegister, ReadFails, ReadAnswers, Deliver, Over, vars, positions

\* What is queued, sent, asked and read are points.
LEMMA TypeStep ==
  ASSUME TypeOK, Positions, [Next]_vars
  PROVE  TypeOK'
<1> USE DEF TypeOK
<1>1. CASE Ping
  BY <1>1, PositionsStep DEF Ping, positions, books
<1>2. CASE Connect
  BY <1>2, PositionsStep, DeviceShape DEF Connect, positions, books
<1>3. CASE ReadFails \/ ReadAnswers
  <2>1. Here \in Points /\ dev \in DOMAIN Devices /\ pc = "poll"
    BY <1>3, HereIsAPoint, DeviceShape DEF ReadFails, ReadAnswers, Positions
  <2>2. open' \subseteq DOMAIN Devices /\ asked' = asked \cup {Here}
    BY <1>3, <2>1 DEF ReadFails, ReadAnswers
  <2>3. queue' \in [Databases -> SUBSET Points] /\ read' \subseteq asked'
    BY <1>3, <2>1 DEF ReadFails, ReadAnswers, Written
  <2> QED
    BY <1>3, <2>1, <2>2, <2>3, PositionsStep DEF ReadFails, ReadAnswers
<1>4. CASE SkipRegister \/ ConnectFails
  BY <1>4, PositionsStep DEF SkipRegister, ConnectFails, positions, books
<1>5. CASE EndSlave
  BY <1>5, PositionsStep DEF EndSlave, books
<1>6. CASE EndDevice
  BY <1>6, PositionsStep DEF EndDevice
<1>7. CASE End
  BY <1>7, PositionsStep DEF End, positions
<1>8. CASE \E b \in Databases : Deliver(b)
  BY <1>8, PositionsStep DEF Deliver, positions
<1>9. CASE UNCHANGED vars
  BY <1>9, PositionsStep DEF vars
<1> QED
  BY <1>1, <1>2, <1>3, <1>4, <1>5, <1>6, <1>7, <1>8, <1>9 DEF Next, Step, Over

\* A register is asked for in the step that passes it, or is skipped because
\* of its function code, and no step passes more than one register unless
\* there is none to pass.
LEMMA AskedStep ==
  ASSUME TypeOK, Positions, AskedWhatWasPassed, [Next]_vars
  PROVE  AskedWhatWasPassed'
<1> DEFINE Wanted == {p \in Points : Register(p).fc \in {3, 4}}
<1> USE DEF AskedWhatWasPassed
<1>1. CASE UNCHANGED <<positions, asked>>
  BY <1>1 DEF positions, Passed
<1>2. CASE SkipRegister \/ ReadFails \/ ReadAnswers
  <2>1. /\ pc = "poll" /\ HasRegister
        /\ reg' = reg + 1 /\ UNCHANGED <<dev, slave>>
        /\ asked' = IF Register(Here).fc \in {3, 4} THEN asked \cup {Here} ELSE asked
    BY <1>2 DEF SkipRegister, ReadFails, ReadAnswers, books
  <2>2. Here \in Points /\ dev \in Nat /\ slave \in Nat /\ reg \in Nat
    BY <2>1, HereIsAPoint, DeviceShape DEF TypeOK, Positions, HasRegister, HasSlave
  <2>3. ASSUME NEW p \in Points
        PROVE  Passed(p)' <=> Passed(p) \/ p = Here
    BY <2>1, <2>2, <2>3, PointShape, DeviceShape DEF Passed, Here
  <2>4. ~ Passed(Here)
    BY <2>2 DEF Passed, Here
  <2> QED
    BY <2>1, <2>2, <2>3
<1>3. CASE EndSlave
  <2>1. /\ slave \in DOMAIN Devices[dev] /\ dev \in DOMAIN Devices
        /\ reg \in Nat /\ reg > Len(Devices[dev][slave])
        /\ UNCHANGED <<dev, asked>> /\ slave' = slave + 1 /\ reg' = 1
    BY <1>3, DeviceShape
       DEF EndSlave, HasRegister, HasSlave, Positions, TypeOK, books
  <2>2. ASSUME NEW p \in Points
        PROVE  Passed(p)' <=> Passed(p)
    <3>1. /\ p[1] \in Nat /\ p[2] \in Nat /\ p[3] \in Nat \ {0}
          /\ dev \in Nat /\ slave \in Nat
      BY <2>1, PointShape, DeviceShape
    <3>2. p[1] = dev /\ p[2] = slave => p[3] < reg
      BY <2>1, <3>1, PointShape, DeviceShape
    <3> QED
      BY <2>1, <3>1, <3>2 DEF Passed
  <2> QED
    BY <2>1, <2>2
<1>4. CASE EndDevice
  <2>1. /\ dev \in DOMAIN Devices /\ slave > Len(Devices[dev]) /\ reg = 1
        /\ UNCHANGED <<asked, reg>> /\ dev' = dev + 1 /\ slave' = 1
    BY <1>4, DeviceShape DEF EndDevice, HasSlave, Positions, TypeOK
  <2>2. ASSUME NEW p \in Points
        PROVE  Passed(p)' <=> Passed(p)
    BY <2>1, <2>2, PointShape, DeviceShape DEF Passed, TypeOK
  <2> QED
    BY <2>1, <2>2
<1> QED
  BY <1>1, <1>2, <1>3, <1>4
     DEF Next, Step, Ping, Connect, ConnectFails, End, Deliver, Over, vars, positions, books

\* The register the loops stand at has not been asked for yet.
LEMMA HereIsNew ==
  ASSUME TypeOK, Positions, AskedWhatWasPassed, pc = "poll", HasRegister
  PROVE  Here \notin read
<1>1. dev \in Nat /\ slave \in Nat /\ reg \in Nat
  BY HereIsAPoint, PointShape, DeviceShape DEF Here
<1> QED
  BY <1>1 DEF TypeOK, AskedWhatWasPassed, Passed, Here

\* The queues and what was sent keep agreeing with what was read: a value that
\* is read is new, goes to each available database and to no other, and moves
\* from the queue to what is handed over when it is sent.
LEMMA BooksStep ==
  ASSUME IInv, [Next]_vars
  PROVE  QueuesOfThisDevice' /\ BooksAgree'
<1> USE DEF IInv, QueuesOfThisDevice, BooksAgree
<1>1. CASE Ping
  <2>1. \A b \in Databases : ~ available[b]
    BY <1>1 DEF Ping
  <2>2. read = {}
    <3>1. \A p \in Points : ~ Passed(p)
      BY <1>1, PointShape, DeviceShape DEF Ping, Positions, Passed
    <3> QED
      BY <3>1 DEF AskedWhatWasPassed, TypeOK
  <2>3. \A b \in Databases : queue[b] = {} /\ sent[b] = {}
    BY <2>1
  <2>4. pc' = "connect" /\ UNCHANGED <<queue, sent, read>>
    BY <1>1 DEF Ping, books
  <2> QED
    BY <2>2, <2>3, <2>4
<1>2. CASE ReadAnswers
  <2>1. Here \notin read /\ Here[1] = dev
    BY <1>2, HereIsNew DEF ReadAnswers, Here
  <2>2. CASE UNCHANGED <<queue, read>>
    BY <1>2, <2>2 DEF ReadAnswers
  <2>3. CASE /\ queue' = [b \in Databases |-> Written(b)]
             /\ read' = read \cup {Here}
    <3>1. /\ UNCHANGED <<pc, dev, available, sent>> /\ pc = "poll"
      BY <1>2 DEF ReadAnswers
    <3>2. ASSUME NEW b \in Databases
          PROVE  queue'[b] = IF available[b] THEN queue[b] \cup {Here} ELSE queue[b]
      BY <2>3 DEF Written
    <3>3. ASSUME NEW b \in Databases, NEW p \in queue'[b]
          PROVE  p[1] = dev
      <4>1. p \in queue[b] \cup {Here}
        BY <3>2, <3>3
      <4>2. \A q \in queue[b] : q[1] = dev
        OBVIOUS
      <4> QED
        BY <2>1, <4>1, <4>2
    <3>4. ASSUME NEW b \in Databases
          PROVE  /\ sent'[b] \cap queue'[b] = {}
                 /\ sent'[b] \cup queue'[b] = IF available'[b] THEN read' ELSE {}
      <4>1. Here \notin sent[b]
        BY <2>1
      <4> QED
        BY <2>3, <3>1, <3>2, <4>1
    <3> QED
      BY <3>1, <3>3, <3>4
  <2> QED
    BY <1>2, <2>2, <2>3 DEF ReadAnswers
<1>3. CASE EndDevice
  <2>1. /\ pc' = "connect" /\ UNCHANGED <<available, read>>
        /\ \A b \in Databases : queue'[b] = {}
        /\ \A b \in Databases : sent'[b] = sent[b] \cup queue[b]
    BY <1>3 DEF EndDevice
  <2> QED
    BY <2>1
<1>4. CASE End
  <2>1. /\ pc' = "ended" /\ UNCHANGED <<available, read>>
        /\ \A b \in Databases : queue'[b] = {}
        /\ \A b \in Databases : sent'[b] = sent[b] \cup queue[b]
    BY <1>4 DEF End
  <2> QED
    BY <2>1
<1>5. ASSUME NEW b \in Databases, Deliver(b)
      PROVE  QueuesOfThisDevice' /\ BooksAgree'
  <2>1. UNCHANGED <<pc, dev, available, read>> /\ pc # "ping"
    BY <1>5 DEF Deliver, positions
  <2>2. ASSUME NEW c \in Databases
        PROVE  \/ queue'[c] = {} /\ sent'[c] = sent[c] \cup queue[c]
               \/ queue'[c] = queue[c] /\ sent'[c] = sent[c]
    BY <1>5 DEF Deliver, TypeOK
  <2> QED
    BY <2>1, <2>2
<1>6. CASE UNCHANGED <<dev, available, queue, sent, read>> /\ pc # "ping"
           /\ (pc = "poll" => pc' = "poll") /\ pc' # "ping"
  BY <1>6
<1>7. CASE UNCHANGED vars
  BY <1>7 DEF vars
<1> QED
  BY <1>1, <1>2, <1>3, <1>4, <1>5, <1>6, <1>7
     DEF Next, Step, Connect, ConnectFails, SkipRegister, ReadFails, EndSlave, Over,
         positions, books

LEMMA InvStep ==
  ASSUME IInv, [Next]_vars
  PROVE  IInv'
  BY PositionsStep, TypeStep, AskedStep, BooksStep DEF IInv

LEMMA InitInv ==
  ASSUME Init
  PROVE  IInv
<1>1. TypeOK /\ Positions
  BY DeviceShape DEF Init, TypeOK, Positions, HasSlave
<1>2. AskedWhatWasPassed
  <2>1. \A p \in Points : ~ Passed(p)
    BY PointShape, DeviceShape DEF Init, Passed
  <2> QED
    BY <2>1 DEF Init, AskedWhatWasPassed
<1>3. QueuesOfThisDevice /\ BooksAgree
  BY DEF Init, QueuesOfThisDevice, BooksAgree
<1> QED
  BY <1>1, <1>2, <1>3 DEF IInv

\* The inductive invariant holds in every reachable state.
LEMMA Invariance == Spec => []IInv
<1>1. Init => IInv
  BY InitInv
<1>2. IInv /\ [Next]_vars => IInv'
  BY InvStep
<1> QED
  BY <1>1, <1>2, PTL DEF Spec

-----------------------------------------------------------------------------
\* The loops over devices, slaves and registers stay within any configuration,
\* slaves without registers and devices without slaves included
\* (ion7400/cmd/main.go:105-226).
THEOREM TypeCorrect == Spec => []TypeOK
<1>1. IInv => TypeOK
  BY DEF IInv
<1> QED
  BY <1>1, Invariance, PTL

\* Whatever the pings said, whichever reads fail and whenever the writer sends
\* what it has: what was handed over for each available database, or is about to
\* be, is exactly what was read, nothing twice, and for an unavailable one nothing
\* (ion7400/cmd/main.go:195-208).
THEOREM EachDatabaseGetsWhatWasRead == Spec => []BooksAgree
<1>1. IInv => BooksAgree
  BY DEF IInv
<1> QED
  BY <1>1, Invariance, PTL

\* A run that stops, after the last device or because one cannot be reached,
\* leaves no value behind in a queue, though log.Fatalf skips the deferred
\* Closes (ion7400/cmd/main.go:113, 217-226).
THEOREM NothingIsLeftBehind == Spec => []NothingLeftInQueue
<1>1. IInv => NothingLeftInQueue
  BY DEF IInv, QueuesOfThisDevice, BooksAgree, NothingLeftInQueue
<1> QED
  BY <1>1, Invariance, PTL

\* Between two devices, and when the run stops, every register with a known
\* function code of every slave of the devices passed has been asked for, and
\* no other one (ion7400/cmd/main.go:122-146).
THEOREM FailuresCostOnlyThemselves == Spec => []FailuresStayLocal
<1>1. ASSUME IInv
      PROVE  FailuresStayLocal
  <2> SUFFICES ASSUME pc \in {"connect", "ended", "fatal"}
               PROVE  asked = {p \in Points : p[1] < dev /\ Register(p).fc \in {3, 4}}
    BY DEF FailuresStayLocal
  <2>1. slave = 1 /\ reg = 1
    BY <1>1 DEF IInv, Positions
  <2>2. \A p \in Points : Passed(p) <=> p[1] < dev
    BY <2>1, PointShape, DeviceShape DEF Passed
  <2> QED
    BY <1>1, <2>2 DEF IInv, AskedWhatWasPassed
<1> QED
  BY <1>1, Invariance, PTL

-----------------------------------------------------------------------------
\* Where a connection can be open: none once the slaves of a device are done,
\* and none but the current device's.
Connections ==
  /\ open \subseteq {dev}
  /\ pc # "poll" => open = {}
  /\ pc = "poll" /\ ~ HasSlave => open = {}

LEMMA ConnectionsStep ==
  ASSUME \A d \in DOMAIN Devices : Devices[d] # <<>>,
         TypeOK, Positions, Connections, [Next]_vars
  PROVE  Connections'
<1> USE DEF Connections
<1>1. CASE Connect
  <2>1. dev \in DOMAIN Devices /\ slave = 1 /\ pc' = "poll"
        /\ UNCHANGED positions /\ open' = {dev}
    BY <1>1, DeviceShape DEF Connect, Positions, TypeOK
  <2>2. Len(Devices[dev]) > 0
    BY <2>1, DevicesAssumption
  <2> QED
    BY <2>1, <2>2 DEF positions, HasSlave
<1>2. CASE SkipRegister \/ ReadFails \/ ReadAnswers
  BY <1>2 DEF SkipRegister, ReadFails, ReadAnswers, HasRegister, HasSlave
<1>3. CASE EndSlave
  BY <1>3 DEF EndSlave
<1>4. CASE EndDevice
  BY <1>4 DEF EndDevice
<1>5. CASE UNCHANGED <<dev, open>> /\ pc # "poll" /\ pc' # "poll"
  BY <1>5
<1>6. CASE UNCHANGED <<pc, positions, open>>
  BY <1>6 DEF positions, HasSlave
<1> QED
  BY <1>1, <1>2, <1>3, <1>4, <1>5, <1>6
     DEF Next, Step, Ping, ConnectFails, End, Deliver, Over, vars, positions

\* If every device has a slave, the connection of a device is closed before
\* the next one's is opened (ion7400/cmd/main.go:212).  A device without
\* slaves breaks this: its connection is closed by nobody.
THEOREM OneConnectionAtATime ==
  ASSUME \A d \in DOMAIN Devices : Devices[d] # <<>>
  PROVE  Spec => []ClosedBeforeNext
<1>1. Init => Connections
  BY DEF Init, Connections
<1>2. IInv /\ Connections /\ [Next]_vars => Connections'
  BY ConnectionsStep DEF IInv
<1>3. Connections => ClosedBeforeNext
  BY DEF Connections, ClosedBeforeNext
<1> QED
  BY <1>1, <1>2, <1>3, Invariance, PTL DEF Spec

-----------------------------------------------------------------------------
\* What a database was given of the devices polled to their end is what was
\* read of them.
LEMMA GivenIsRead ==
  ASSUME IInv, NEW b \in Databases
  PROVE  {p \in sent[b] : p[1] < dev} =
           IF available[b] THEN {p \in read : p[1] < dev} ELSE {}
<1>1. \A p \in queue[b] : p[1] = dev
  BY DEF IInv, QueuesOfThisDevice
<1>2. dev \in Nat
  BY DeviceShape DEF IInv, TypeOK
<1>3. \A p \in queue[b] : ~ (p[1] < dev)
  BY <1>1, <1>2
<1> QED
  BY <1>3 DEF IInv, BooksAgree

\* Reaching the end of a device delivers what was read of it, as one batch and
\* the same to each available database.
LEMMA EndDeviceDelivers ==
  ASSUME IInv, EndDevice
  PROVE  AtomicDelivery!PollDevice
<1> DEFINE batch == {p \in read : p[1] = dev}
           given(b) == {p \in sent[b] : p[1] < dev}
           batches == [d \in DOMAIN Devices |-> PointsOf(d)]
           writable == {b \in Databases : available[b]}
           delivered == [b \in Databases |-> given(b)]
<1>1. /\ pc = "poll" /\ pc' = "connect" /\ dev' = dev + 1 /\ dev \in DOMAIN Devices
      /\ UNCHANGED <<available, read>> /\ dev \in Nat
  BY DeviceShape DEF EndDevice, IInv, Positions, TypeOK
<1>2. \A p \in read : p \in Points /\ p[1] \in Nat
  BY PointShape, DeviceShape DEF IInv, TypeOK
<1>3. \A p \in read : p[1] < dev + 1 <=> p[1] < dev \/ p[1] = dev
  BY <1>1, <1>2
<1>4. {p \in read' : p[1] < dev'} = {p \in read : p[1] < dev} \cup batch
  BY <1>1, <1>3
<1>5. ASSUME NEW b \in Databases
      PROVE  given(b)' = given(b) \cup (IF available[b] THEN batch ELSE {})
  <2>1. sent'[b] = IF available[b] THEN read ELSE {}
    BY DEF EndDevice, IInv, BooksAgree
  <2>2. given(b) = IF available[b] THEN {p \in read : p[1] < dev} ELSE {}
    BY GivenIsRead
  <2>3. given(b)' = IF available[b] THEN {p \in read' : p[1] < dev'} ELSE {}
    BY <1>1, <2>1
  <2> HIDE DEF given, batch
  <2> QED
    BY <1>4, <2>2, <2>3
<1>6. batch \in SUBSET batches[dev - 1 + 1]
  BY <1>1, <1>2 DEF PointsOf
<1>7. Len(batches) = Len(Devices) /\ dev - 1 < Len(Devices) /\ dev' - 1 = dev - 1 + 1
  BY <1>1, DeviceShape
<1>8. writable' = writable
  BY <1>1
<1>9. delivered' = [b \in Databases |->
                      delivered[b] \cup (IF b \in writable THEN batch ELSE {})]
  BY <1>5
<1> HIDE DEF batch, batches, writable, delivered
<1> QED
  BY <1>1, <1>6, <1>7, <1>8, <1>9
     DEF AtomicDelivery!PollDevice, batches, writable, delivered

\* A step inside a device shows nothing: what is sent meanwhile belongs to the
\* device that is still being polled.
LEMMA StepInsideADevice ==
  ASSUME IInv, NEW b \in Databases, UNCHANGED dev,
         sent'[b] = sent[b] \/ sent'[b] = sent[b] \cup queue[b]
  PROVE  {p \in sent'[b] : p[1] < dev'} = {p \in sent[b] : p[1] < dev}
<1>1. dev \in Nat /\ \A p \in queue[b] : p[1] = dev
  BY DeviceShape DEF IInv, TypeOK, QueuesOfThisDevice
<1>2. \A p \in queue[b] : ~ (p[1] < dev)
  BY <1>1
<1> QED
  BY <1>2

\* The poller, with its slaves, registers, connections, queues and flushes,
\* delivers one batch per device, the same to each available database, and
\* gives up or ends as PollOnce says (ion7400/cmd/main.go:69-229).
THEOREM PollsOnce == Spec => AtomicDelivery!SafeSpec
<1> DEFINE given == [b \in Databases |-> {p \in sent[b] : p[1] < dev}]
<1>1. Init => AtomicDelivery!Init
  BY DEF Init, AtomicDelivery!Init
<1>2. ASSUME IInv, [Next]_vars
      PROVE  [AtomicDelivery!Next]_(AtomicDelivery!vars)
  <2> USE DEF AtomicDelivery!Next, AtomicDelivery!vars
  <2>1. ASSUME UNCHANGED dev,
               \A b \in Databases : sent'[b] = sent[b] \/ sent'[b] = sent[b] \cup queue[b]
        PROVE  given' = given
    BY <1>2, <2>1, StepInsideADevice
  <2>2. Len([d \in DOMAIN Devices |-> PointsOf(d)]) = Len(Devices) /\ dev \in Nat
    BY <1>2, DeviceShape DEF IInv, TypeOK
  <2>3. CASE Ping
    BY <1>2, <2>1, <2>3 DEF Ping, positions, books, AtomicDelivery!Start
  <2>4. CASE ConnectFails
    BY <1>2, <2>1, <2>2, <2>4, DeviceShape
       DEF ConnectFails, positions, books, AtomicDelivery!GiveUp
  <2>5. CASE End
    BY <1>2, <2>1, <2>2, <2>5, DeviceShape
       DEF End, positions, AtomicDelivery!End, IInv, TypeOK
  <2>6. CASE EndDevice
    BY <1>2, <2>6, EndDeviceDelivers
  <2>7. CASE \E b \in Databases : Deliver(b)
    <3>1. \A b \in Databases : sent'[b] = sent[b] \/ sent'[b] = sent[b] \cup queue[b]
      BY <1>2, <2>7 DEF Deliver, IInv, TypeOK
    <3> QED
      BY <2>1, <2>7, <3>1 DEF Deliver, positions
  <2>8. CASE /\ UNCHANGED <<dev, available, sent>>
             /\ \/ pc' = pc
                \/ pc = "connect" /\ pc' = "poll"
    BY <2>1, <2>8
  <2> QED
    BY <1>2, <2>3, <2>4, <2>5, <2>6, <2>7, <2>8
       DEF Next, Step, Connect, SkipRegister, ReadFails, ReadAnswers, EndSlave, Over,
           vars, positions, books
<1> QED
  BY <1>1, <1>2, Invariance, PTL DEF Spec, AtomicDelivery!SafeSpec
===============================================================================
