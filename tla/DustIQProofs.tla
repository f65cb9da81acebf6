----------------------------- MODULE DustIQProofs -----------------------------
(***************************************************************************)
(* Proofs about the DustIQ handler behind a serial line, for any number of *)
(* devices, registers, readings and faults.                                *)
(***************************************************************************)
EXTENDS DustIQBus, SequenceTheorems, TLAPS

LEMMA ModInRange ==
  ASSUME NEW a \in Nat, NEW n \in Nat \ {0}
  PROVE  a % n \in 0 .. n - 1
  OBVIOUS

LEMMA DeviceFields ==
  /\ Len(Devices) \in Nat \ {0}
  /\ \A d \in 1 .. Len(Devices) :
       /\ Devices[d].slave \in Nat
       /\ Devices[d].registers \in Nat \ {0}
<1>1. \A d \in 1 .. Len(Devices) :
        Devices[d] \in [slave : Nat, dustiq : BOOLEAN, registers : Nat \ {0}]
  BY DevicesAssumption, ElementOfSeq
<1>2. Len(Devices) \in Nat \ {0}
  BY DevicesAssumption
<1> QED BY <1>1, <1>2

-----------------------------------------------------------------------------
\* The position of the poll stays within the devices and their registers.
LineOK ==
  /\ device \in 1 .. Len(Devices)
  /\ reg \in 1 .. Devices[device].registers
  /\ round \in 0 .. Rounds - 1

LEMMA NextPollOK ==
  ASSUME LineOK, NextPoll
  PROVE  LineOK'
<1>1. CASE reg < Devices[device].registers
  BY <1>1, DeviceFields DEF LineOK, NextPoll
<1>2. CASE ~ (reg < Devices[device].registers)
  <2>1. device' \in 1 .. Len(Devices)
    <3>1. device % Len(Devices) \in 0 .. Len(Devices) - 1
      <4>1. device \in Nat /\ Len(Devices) \in Nat \ {0}
        BY DeviceFields DEF LineOK
      <4> QED BY <4>1, ModInRange
    <3>2. device' = 1 + (device % Len(Devices))
      BY <1>2 DEF NextPoll
    <3> QED BY <3>1, <3>2, DeviceFields
  <2>2. reg' \in 1 .. Devices[device'].registers
    BY <1>2, <2>1, DeviceFields DEF NextPoll
  <2>3. round' \in 0 .. Rounds - 1
    <3>1. (round + 1) % Rounds \in 0 .. Rounds - 1
      <4>1. round + 1 \in Nat /\ Rounds \in Nat \ {0}
        BY BoundsAssumption DEF LineOK
      <4> QED BY <4>1, ModInRange
    <3>2. round' = (round + 1) % Rounds
      BY <1>2 DEF NextPoll
    <3> QED BY <3>1, <3>2 DEF LineOK
  <2> QED BY <2>1, <2>2, <2>3 DEF LineOK
<1> QED BY <1>1, <1>2

-----------------------------------------------------------------------------
\* What the handler keeps: frames it was right to accept, of one device.
HandlerOK ==
  /\ mode \in {"store", "test"}
  /\ cycle \in Seq(Frames)
  /\ \A i \in DOMAIN cycle : cycle[i].single /\ cycle[i].slave = currentSlave
  /\ currentSlave \in {NoSlave} \cup SlaveIds
  /\ complete \in BOOLEAN
  /\ OneDevice

ListenerOK == place \in {"read", "down", "returned"} /\ ctxDone \in BOOLEAN

Inv == LineOK /\ HandlerOK /\ ListenerOK

LEMMA AnswersAreFrames ==
  ASSUME LineOK, NEW b \in BOOLEAN, NEW f \in Answers(b)
  PROVE  f \in Frames
<1>1. Register(device, reg) \subseteq Readings \cup {Marker}
  BY DEF Register
<1>2. Devices[device].slave \in SlaveIds
  BY DEF LineOK, SlaveIds
<1>3. reg \in Nat /\ round \in Nat
  BY DeviceFields, BoundsAssumption DEF LineOK
<1> QED BY <1>1, <1>2, <1>3 DEF Answers, Frames

\* What decoding a cycle of one device gives.
LEMMA DecodedIsOfOneDevice ==
  ASSUME HandlerOK
  PROVE  \A i \in DOMAIN Decoded.values : Decoded.values[i].slave = Decoded.slave
  BY DEF HandlerOK, Decoded

LEMMA RestartOK ==
  ASSUME HandlerOK, NEW f \in Frames, f.single, RestartWith(f)
  PROVE  /\ cycle' \in Seq(Frames)
         /\ \A i \in DOMAIN cycle' : cycle'[i].single /\ cycle'[i].slave = currentSlave'
         /\ currentSlave' \in {NoSlave} \cup SlaveIds
<1>1. CASE f.value = Marker
  <2>1. cycle' = <<f>> /\ currentSlave' = f.slave
    BY <1>1 DEF RestartWith
  <2>2. f.slave \in SlaveIds
    BY DEF Frames
  <2>3. <<f>> \in Seq(Frames) /\ \A i \in DOMAIN <<f>> : <<f>>[i] = f
    OBVIOUS
  <2> QED BY <2>1, <2>2, <2>3
<1>2. CASE f.value # Marker
  <2>1. cycle' = <<>> /\ currentSlave' = NoSlave
    BY <1>2 DEF RestartWith
  <2> QED BY <2>1
<1> QED BY <1>1, <1>2

LEMMA HandlerStep ==
  ASSUME HandlerOK, NEW f \in Frames, HandleFrame(f)
  PROVE  HandlerOK'
<1>1. CASE Ignore(f)
  BY <1>1 DEF Ignore, handlerVars, HandlerOK, OneDevice
<1>2. CASE Begin(f)
  BY <1>2, RestartOK DEF Begin, HandlerOK, OneDevice
<1>3. CASE Extend(f)
  <2>1. cycle' = Append(cycle, f) /\ f.slave = currentSlave /\ f.single
    BY <1>3 DEF Extend, Closes
  <2>2. /\ cycle' \in Seq(Frames)
        /\ \A i \in DOMAIN cycle' : cycle'[i].single /\ cycle'[i].slave = currentSlave
    BY <2>1 DEF HandlerOK
  <2> QED BY <1>3, <2>2 DEF Extend, HandlerOK, OneDevice
<1>4. CASE Discard(f)
  BY <1>4, RestartOK DEF Discard, Closes, HandlerOK, OneDevice
<1>5. CASE PrintCycle(f)
  <2>1. f.single /\ RestartWith(f) /\ report' = Decoded
    BY <1>5 DEF PrintCycle, Closes
  <2>2. OneDevice'
    BY <2>1, DecodedIsOfOneDevice DEF OneDevice
  <2> QED BY <1>5, <2>1, <2>2, RestartOK DEF PrintCycle, HandlerOK
<1>6. CASE StoreCycle(f)
  <2>1. OneDevice'
    BY <1>6, DecodedIsOfOneDevice DEF StoreCycle, OneDevice
  <2> QED BY <1>6, <2>1 DEF StoreCycle, HandlerOK
<1> QED BY <1>1, <1>2, <1>3, <1>4, <1>5, <1>6 DEF HandleFrame

-----------------------------------------------------------------------------
LEMMA InitInv == Init => Inv
<1> SUFFICES ASSUME Init PROVE Inv
  OBVIOUS
<1>1. LineOK
  BY DeviceFields, BoundsAssumption DEF Init, LineOK
<1>2. HandlerOK
  <2>1. cycle \in Seq(Frames) /\ DOMAIN cycle = {}
    BY DEF Init, HandlerInit
  <2>2. report.values = <<>> /\ DOMAIN report.values = {}
    BY DEF Init, HandlerInit, Nothing
  <2> QED BY <2>1, <2>2 DEF Init, HandlerInit, HandlerOK, OneDevice
<1> QED BY <1>1, <1>2 DEF Init, Inv, ListenerOK

LEMMA StepInv == Inv /\ [Next]_vars => Inv'
<1> SUFFICES ASSUME Inv, [Next]_vars PROVE Inv'
  OBVIOUS
<1> USE DEF Inv
<1>1. CASE Answer
  <2>1. HandlerOK'
    BY <1>1, AnswersAreFrames, HandlerStep DEF Answer, Hear
  <2> QED BY <1>1, <2>1, NextPollOK DEF Answer, Hear, ListenerOK
<1>2. CASE Corrupt
  <2>1. HandlerOK'
    BY <1>2, AnswersAreFrames, HandlerStep DEF Corrupt, Hear
  <2> QED BY <1>2, <2>1, NextPollOK DEF Corrupt, Hear, ListenerOK
<1>3. CASE Repeat
  <2>1. HandlerOK'
    BY <1>3, AnswersAreFrames, HandlerStep DEF Repeat, Hear
  <2> QED BY <1>3, <2>1 DEF Repeat, Hear, lineVars, LineOK, ListenerOK
<1>4. CASE Miss
  BY <1>4, NextPollOK DEF Miss, handlerVars, HandlerOK, OneDevice, ListenerOK
<1>5. CASE Drop \/ Reconnect \/ Cancel \/ Return
  BY <1>5 DEF Drop, Reconnect, Cancel, Return, handlerVars, lineVars, HandlerOK,
              OneDevice, LineOK, ListenerOK
<1>6. CASE Stopped \/ UNCHANGED vars
  BY <1>6 DEF Stopped, vars, handlerVars, lineVars, HandlerOK, OneDevice, LineOK,
              ListenerOK
<1> QED BY <1>1, <1>2, <1>3, <1>4, <1>5, <1>6 DEF Next

\* Every state of the handler and of the line is of its type.
THEOREM TypeCorrect == Spec => []TypeOK
<1>1. Inv => TypeOK
  BY DEF Inv, HandlerOK, LineOK, ListenerOK, TypeOK
<1> QED BY InitInv, StepInv, <1>1, PTL DEF Spec

\* HandleFrame and decodeDustIQCycle: whatever is corrupted, repeated or
\* missed, on a line of any devices, a decoded cycle is of one device, and
\* filed under it.
THEOREM OneDeviceHolds == Spec => []OneDevice
<1>1. Inv => OneDevice
  BY DEF Inv, HandlerOK
<1> QED BY InitInv, StepInv, <1>1, PTL DEF Spec

-----------------------------------------------------------------------------
(***************************************************************************)
(* What faults of the line cost the DustIQ handler, proved for any line on *)
(* which every slave address is one instrument and no ordinary register    *)
(* reads as the marker.  (Where one does, and after a reconnection, the    *)
(* runs that expect a violation show what happens.)                        *)
(***************************************************************************)

OneInstrumentPerSlave ==
  \A d, e \in 1 .. Len(Devices) :
    Devices[d].slave = Devices[e].slave => Devices[d].dustiq = Devices[e].dustiq

MarkerIsUnique == Marker \notin Readings

\* The line is in the middle of a turn of the slave whose cycle is collected.
InTurn == Devices[device].slave = currentSlave /\ reg > 1

\* The registers of that slave that were polled since its last turn began.
Polled == IF InTurn THEN reg - 1 ELSE ExpectedFrames

\* A cycle is opened by a DustIQ.
OpenedByDustIQ ==
  cycle # <<>> => \E d \in 1 .. Len(Devices) :
                    Devices[d].slave = currentSlave /\ Devices[d].dustiq

-----------------------------------------------------------------------------
(***************************************************************************)
(* How the line goes on                                                    *)
(***************************************************************************)
\* The answer to the poll of a device type opens a cycle; no other one does.
LEMMA MarkerIsTheFirst ==
  ASSUME LineOK, MarkerIsUnique, NEW b \in BOOLEAN, NEW f \in Answers(b)
  PROVE  /\ f.slave = Devices[device].slave /\ f.single = b
         /\ f.reg = reg /\ f.round = round
         /\ f.value = Marker <=> Devices[device].dustiq /\ reg = 1
<1>1. /\ f.slave = Devices[device].slave /\ f.single = b /\ f.reg = reg /\ f.round = round
      /\ f.value \in Register(device, reg)
  BY DEF Answers
<1> QED
  BY <1>1 DEF Register, MarkerIsUnique

LEMMA TurnOfADustIQ ==
  ASSUME LineOK, OpenedByDustIQ, OneInstrumentPerSlave, cycle # <<>>,
         Devices[device].slave = currentSlave
  PROVE  Devices[device].dustiq /\ Devices[device].registers = ExpectedFrames
<1>1. PICK d \in 1 .. Len(Devices) : Devices[d].slave = currentSlave /\ Devices[d].dustiq
  BY DEF OpenedByDustIQ
<1>2. device \in 1 .. Len(Devices)
  BY DEF LineOK
<1>3. Devices[device].dustiq
  BY <1>1, <1>2 DEF OneInstrumentPerSlave
<1>4. device \in DOMAIN Devices
  BY <1>2, DevicesAssumption
<1> QED
  BY <1>3, <1>4, DevicesAssumption

\* A frame that the handler adds to its cycle is not the first of its turn.
LEMMA ExtendedInTurn ==
  ASSUME LineOK, MarkerIsUnique, OpenedByDustIQ, OneInstrumentPerSlave,
         NEW f \in Answers(TRUE), Extend(f)
  PROVE  InTurn /\ cycle # <<>> /\ cycle' = Append(cycle, f)
         /\ UNCHANGED <<currentSlave, report>>
<1>1. f.slave = currentSlave /\ f.value # Marker /\ cycle # <<>>
  BY DEF Extend, Closes
<1>2. Devices[device].slave = currentSlave
  BY <1>1, MarkerIsTheFirst
<1>3. Devices[device].dustiq
  BY <1>1, <1>2, TurnOfADustIQ
<1>4. reg # 1
  BY <1>1, <1>3, MarkerIsTheFirst
<1>5. reg > 1
  BY <1>4, DeviceFields DEF LineOK
<1> QED
  BY <1>1, <1>2, <1>5 DEF InTurn, Extend

LEMMA PolledRange ==
  ASSUME LineOK, OpenedByDustIQ, OneInstrumentPerSlave, cycle # <<>>
  PROVE  Polled \in 1 .. ExpectedFrames
<1>1. reg \in 1 .. Devices[device].registers /\ Devices[device].registers \in Nat
  BY DeviceFields DEF LineOK
<1>2. Devices[device].slave = currentSlave => Devices[device].registers = ExpectedFrames
  BY TurnOfADustIQ
<1> QED
  BY <1>1, <1>2, ExpectedFramesAssumption DEF Polled, InTurn

\* When the line has moved on, one more register was polled, or a turn is over.
LEMMA PolledStep ==
  ASSUME LineOK, OpenedByDustIQ, OneInstrumentPerSlave, cycle # <<>>,
         NextPoll, currentSlave' = currentSlave
  PROVE  /\ Polled \in 1 .. ExpectedFrames /\ Polled' \in 1 .. ExpectedFrames
         /\ InTurn => Polled' = Polled + 1
         /\ InTurn' => round' = round
         /\ InTurn' /\ ~ InTurn => reg = 1 /\ Devices[device].slave = currentSlave
<1>1. reg \in 1 .. Devices[device].registers /\ Devices[device].registers \in Nat
  BY DeviceFields DEF LineOK
<1>2. Devices[device].slave = currentSlave => Devices[device].registers = ExpectedFrames
  BY TurnOfADustIQ
<1>3. CASE reg < Devices[device].registers
  <2>1. reg' = reg + 1 /\ UNCHANGED <<device, round>>
    BY <1>3 DEF NextPoll
  <2>2. InTurn' <=> Devices[device].slave = currentSlave
    BY <1>1, <2>1 DEF InTurn
  <2> QED
    BY <1>1, <1>2, <1>3, <2>1, <2>2, ExpectedFramesAssumption DEF Polled, InTurn
<1>4. CASE ~ (reg < Devices[device].registers)
  <2>1. reg' = 1
    BY <1>4 DEF NextPoll
  <2>2. ~ InTurn'
    BY <2>1 DEF InTurn
  <2>3. reg = Devices[device].registers
    BY <1>1, <1>4
  <2> QED
    BY <1>1, <1>2, <2>2, <2>3, ExpectedFramesAssumption DEF Polled, InTurn
<1> QED
  BY <1>3, <1>4

\* After a marker, one register was polled.
LEMMA PolledOnce ==
  ASSUME LineOK, Devices[device].dustiq, reg = 1, NextPoll,
         currentSlave' = Devices[device].slave
  PROVE  /\ Polled' = 1
         /\ InTurn' => round' = round
<1>1. Devices[device].registers = ExpectedFrames
  BY DevicesAssumption DEF LineOK
<1>2. CASE 1 < ExpectedFrames
  BY <1>1, <1>2 DEF NextPoll, Polled, InTurn
<1>3. CASE ~ (1 < ExpectedFrames)
  <2>1. ExpectedFrames = 1 /\ reg' = 1
    BY <1>1, <1>3, ExpectedFramesAssumption DEF NextPoll
  <2> QED
    BY <2>1 DEF Polled, InTurn
<1> QED
  BY <1>2, <1>3

-----------------------------------------------------------------------------
(***************************************************************************)
(* What the handler does with an answer                                    *)
(***************************************************************************)
\* It waits for a marker, adds the answer to its cycle, or starts again, and
\* the cycle it decodes then is one whose slave is not in the middle of a turn.
Waits == cycle = <<>> /\ UNCHANGED handlerVars

Adds(f) ==
  /\ cycle # <<>> /\ InTurn
  /\ cycle' = Append(cycle, f) /\ UNCHANGED <<currentSlave, report>>

StartsAgain(f) ==
  /\ \/ cycle' = <<>>
     \/ /\ cycle' = <<f>> /\ currentSlave' = Devices[device].slave
        /\ Devices[device].dustiq /\ reg = 1
  /\ \/ report' = report
     \/ cycle # <<>> /\ ~ InTurn /\ Decodable /\ report' = Decoded

LEMMA Handled ==
  ASSUME LineOK, MarkerIsUnique, OpenedByDustIQ, OneInstrumentPerSlave,
         NEW f \in Answers(TRUE), HandleFrame(f)
  PROVE  Waits \/ Adds(f) \/ StartsAgain(f)
<1>1. CASE Ignore(f)
  BY <1>1, MarkerIsTheFirst DEF Ignore, Waits
<1>2. CASE Extend(f)
  BY <1>2, ExtendedInTurn DEF Adds
<1>3. ASSUME RestartWith(f)
      PROVE  \/ cycle' = <<>>
             \/ /\ cycle' = <<f>> /\ currentSlave' = Devices[device].slave
                /\ Devices[device].dustiq /\ reg = 1
  BY <1>3, MarkerIsTheFirst DEF RestartWith
<1>4. ASSUME Closes(f)
      PROVE  cycle # <<>> /\ ~ InTurn
  <2>1. cycle # <<>> /\ (f.value = Marker \/ f.slave # currentSlave)
    BY <1>4 DEF Closes
  <2>2. f.slave = Devices[device].slave /\ (f.value = Marker => reg = 1)
    BY MarkerIsTheFirst
  <2> QED
    BY <2>1, <2>2 DEF InTurn
<1>5. CASE Begin(f)
  BY <1>3, <1>5 DEF Begin, StartsAgain
<1>6. CASE Discard(f)
  BY <1>3, <1>6 DEF Discard, StartsAgain
<1>7. CASE PrintCycle(f)
  BY <1>3, <1>4, <1>7 DEF PrintCycle, StartsAgain
<1>8. CASE StoreCycle(f)
  BY <1>4, <1>8 DEF StoreCycle, StartsAgain
<1> QED
  BY <1>1, <1>2, <1>5, <1>6, <1>7, <1>8 DEF HandleFrame

LEMMA CorruptIsIgnored ==
  ASSUME LineOK, NEW f \in Answers(FALSE), HandleFrame(f)
  PROVE  UNCHANGED handlerVars
<1>1. ~ f.single
  BY DEF Answers
<1> QED
  BY <1>1 DEF HandleFrame, Ignore, Begin, Extend, Discard, PrintCycle, StoreCycle, Closes

\* Whether the line is listened to; after the listener has returned the line no
\* longer matters, and stays where it was.
Connected == place # "down"

\* A frame was heard.
Reading == place = "read" /\ place' # "down"

\* The steps of the line, by what they mean for the handler.
LEMMA LineSteps ==
  ASSUME LineOK, MarkerIsUnique, OpenedByDustIQ, OneInstrumentPerSlave, Next
  PROVE  \/ /\ Answer /\ NextPoll /\ Reading /\ UNCHANGED faultVars
            /\ \E f \in Answers(TRUE) : Waits \/ Adds(f) \/ StartsAgain(f)
         \/ /\ Repeat /\ repeated' = repeated + 1
            /\ Reading /\ UNCHANGED <<lineVars, corrupted, dropped>>
            /\ \E f \in Answers(TRUE) : Waits \/ Adds(f) \/ StartsAgain(f)
         \/ /\ Corrupt /\ NextPoll /\ corrupted' = corrupted + 1 /\ UNCHANGED handlerVars
            /\ Reading /\ UNCHANGED <<repeated, dropped>>
         \/ Drop \/ Miss \/ Reconnect \/ Cancel \/ Return \/ UNCHANGED vars
<1>1. CASE Answer
  <2>1. PICK f \in Answers(TRUE) : HandleFrame(f)
    BY <1>1 DEF Answer, Hear
  <2>2. Waits \/ Adds(f) \/ StartsAgain(f)
    BY <2>1, Handled
  <2> QED
    BY <1>1, <2>2 DEF Answer, Hear, Reading
<1>2. CASE Repeat
  <2>1. PICK f \in Answers(TRUE) : HandleFrame(f)
    BY <1>2 DEF Repeat, Hear
  <2>2. Waits \/ Adds(f) \/ StartsAgain(f)
    BY <2>1, Handled
  <2> QED
    BY <1>2, <2>2 DEF Repeat, Hear, Reading
<1>3. CASE Corrupt
  <2>1. UNCHANGED handlerVars
    BY <1>3, CorruptIsIgnored DEF Corrupt, Hear
  <2> QED
    BY <1>3, <2>1 DEF Corrupt, Hear, Reading
<1> QED
  BY <1>1, <1>2, <1>3 DEF Next, Stopped

\* Whatever it does, the cycle under way was opened by a DustIQ.
LEMMA OpenedStep ==
  ASSUME LineOK, MarkerIsUnique, OpenedByDustIQ, OneInstrumentPerSlave, [Next]_vars
  PROVE  OpenedByDustIQ'
<1>1. ASSUME NEW f \in Answers(TRUE), Waits \/ Adds(f) \/ StartsAgain(f)
      PROVE  OpenedByDustIQ'
  <2>1. CASE Waits
    BY <2>1 DEF Waits, handlerVars, OpenedByDustIQ
  <2>2. CASE Adds(f)
    BY <2>2 DEF Adds, OpenedByDustIQ
  <2>3. CASE StartsAgain(f)
    BY <2>3 DEF StartsAgain, LineOK, OpenedByDustIQ
  <2> QED
    BY <1>1, <2>1, <2>2, <2>3
<1>2. CASE UNCHANGED handlerVars
  BY <1>2 DEF handlerVars, OpenedByDustIQ
<1>3. Drop \/ Miss \/ Reconnect \/ Cancel \/ Return \/ UNCHANGED vars =>
        UNCHANGED handlerVars
  BY DEF Drop, Miss, Reconnect, Cancel, Return, vars
<1> QED
  BY <1>1, <1>2, <1>3, LineSteps

-----------------------------------------------------------------------------
(***************************************************************************)
(* The length of a cycle                                                   *)
(***************************************************************************)
Faults == corrupted \in Nat /\ repeated \in Nat /\ dropped \in Nat

\* What faults may have added to the cycle.
Surplus == ExpectedFrames * (corrupted + dropped) + repeated

\* While the connection is down, the turn that was cut short is itself counted
\* as surplus.
Bounded ==
  cycle # <<>> => Len(cycle) <= Surplus + (IF Connected THEN Polled ELSE 0)

LEMMA FaultsStep ==
  ASSUME Faults, [Next]_vars
  PROVE  Faults'
<1>1. CASE Answer \/ Miss \/ Reconnect \/ Cancel \/ Return \/ Stopped \/ UNCHANGED vars
  BY <1>1 DEF Faults, Answer, Miss, Reconnect, Cancel, Return, Stopped, vars, faultVars
<1>2. CASE Corrupt
  BY <1>2 DEF Faults, Corrupt
<1>3. CASE Repeat
  BY <1>3 DEF Faults, Repeat
<1>4. CASE Drop
  BY <1>4 DEF Faults, Drop
<1> QED
  BY <1>1, <1>2, <1>3, <1>4 DEF Next

\* Every lost frame, and every lost connection, is worth a turn.
LEMMA SurplusGrows ==
  ASSUME Faults
  PROVE  /\ Surplus \in Nat
         /\ corrupted' + dropped' = corrupted + dropped + 1 /\ repeated' = repeated =>
              Surplus' = Surplus + ExpectedFrames
         /\ corrupted' + dropped' = corrupted + dropped /\ repeated' = repeated + 1 =>
              Surplus' = Surplus + 1
<1>1. ExpectedFrames \in Nat /\ corrupted + dropped \in Nat /\ repeated \in Nat
  BY ExpectedFramesAssumption DEF Faults
<1>2. \A m, n \in Nat : m * n \in Nat /\ m * (n + 1) = m * n + m
  OBVIOUS
<1>3. /\ ExpectedFrames * (corrupted + dropped) \in Nat
      /\ ExpectedFrames * (corrupted + dropped + 1)
            = ExpectedFrames * (corrupted + dropped) + ExpectedFrames
  BY <1>1, <1>2
<1> QED
  BY <1>1, <1>3 DEF Surplus

\* While the line has not moved, neither has the turn, unless its marker was
\* repeated.
LEMMA PolledStays ==
  ASSUME UNCHANGED lineVars
  PROVE  /\ currentSlave' = currentSlave => Polled' = Polled /\ InTurn' = InTurn
         /\ reg = 1 => Polled' = ExpectedFrames /\ ~ InTurn'
  BY DEF lineVars, Polled, InTurn

LEMMA BoundedStep ==
  ASSUME Inv, Faults, MarkerIsUnique, OpenedByDustIQ, OneInstrumentPerSlave,
         Bounded, [Next]_vars, cycle' # <<>>
  PROVE  Len(cycle') <= Surplus' + (IF Connected' THEN Polled' ELSE 0)
<1>1. /\ Surplus \in Nat /\ ExpectedFrames \in Nat \ {0}
      /\ cycle \in Seq(Frames) /\ Len(cycle) \in Nat
  BY SurplusGrows, ExpectedFramesAssumption DEF Inv, HandlerOK
<1>2. LineOK
  BY DEF Inv
<1>3. cycle # <<>> => Polled \in 1 .. ExpectedFrames
  BY <1>2, PolledRange
<1>4. ASSUME NEW f \in Answers(TRUE), Waits \/ Adds(f) \/ StartsAgain(f)
      PROVE  \/ cycle # <<>> /\ InTurn /\ currentSlave' = currentSlave
                /\ Len(cycle') = Len(cycle) + 1
             \/ Len(cycle') = 1 /\ reg = 1 /\ Devices[device].dustiq
                /\ currentSlave' = Devices[device].slave
  <2>1. CASE Waits
    BY <2>1 DEF Waits, handlerVars
  <2>2. CASE Adds(f)
    <3>1. f \in Frames
      BY <1>2, AnswersAreFrames
    <3> QED
      BY <1>1, <2>2, <3>1 DEF Adds
  <2>3. CASE StartsAgain(f)
    BY <2>3 DEF StartsAgain
  <2> QED
    BY <1>4, <2>1, <2>2, <2>3
<1>5. CASE Answer /\ NextPoll /\ Reading /\ UNCHANGED faultVars
           /\ \E f \in Answers(TRUE) : Waits \/ Adds(f) \/ StartsAgain(f)
  <2>1. Connected /\ Connected' /\ Surplus' = Surplus
    BY <1>5 DEF Reading, Connected, faultVars, Surplus
  <2>2. CASE cycle # <<>> /\ InTurn /\ currentSlave' = currentSlave
             /\ Len(cycle') = Len(cycle) + 1
    <3>1. Polled' = Polled + 1
      BY <1>2, <1>5, <2>2, PolledStep
    <3> QED
      BY <1>1, <1>3, <2>1, <2>2, <3>1 DEF Bounded
  <2>3. CASE Len(cycle') = 1 /\ reg = 1 /\ Devices[device].dustiq
             /\ currentSlave' = Devices[device].slave
    <3>1. Polled' = 1
      BY <1>2, <1>5, <2>3, PolledOnce
    <3> QED
      BY <1>1, <2>1, <2>3, <3>1
  <2> QED
    BY <1>4, <1>5, <2>2, <2>3
<1>6. CASE Repeat /\ repeated' = repeated + 1
           /\ Reading /\ UNCHANGED <<lineVars, corrupted, dropped>>
           /\ \E f \in Answers(TRUE) : Waits \/ Adds(f) \/ StartsAgain(f)
  <2>1. Connected /\ Connected'
    BY <1>6 DEF Reading, Connected
  <2>2. Surplus' = Surplus + 1
    BY <1>6, SurplusGrows
  <2>3. CASE cycle # <<>> /\ InTurn /\ currentSlave' = currentSlave
             /\ Len(cycle') = Len(cycle) + 1
    <3>1. Polled' = Polled
      BY <1>6, <2>3, PolledStays
    <3> QED
      BY <1>1, <1>3, <2>1, <2>2, <2>3, <3>1 DEF Bounded
  <2>4. CASE Len(cycle') = 1 /\ reg = 1
    <3>1. Polled' = ExpectedFrames
      BY <1>6, <2>4, PolledStays
    <3> QED
      BY <1>1, <2>1, <2>2, <2>4, <3>1
  <2> QED
    BY <1>4, <1>6, <2>3, <2>4
<1>7. CASE Corrupt /\ NextPoll /\ corrupted' = corrupted + 1 /\ UNCHANGED handlerVars
           /\ Reading /\ UNCHANGED <<repeated, dropped>>
  <2>1. Connected /\ Connected' /\ UNCHANGED <<cycle, currentSlave>>
    BY <1>7 DEF Reading, Connected, handlerVars
  <2>2. Surplus' = Surplus + ExpectedFrames
    <3>1. corrupted' + dropped' = corrupted + dropped + 1 /\ repeated' = repeated
      BY <1>7 DEF Faults
    <3> QED
      BY <3>1, SurplusGrows
  <2>3. Polled' \in 1 .. ExpectedFrames
    BY <1>2, <1>7, <2>1, PolledStep
  <2> QED
    BY <1>1, <1>3, <2>1, <2>2, <2>3 DEF Bounded
<1>8. CASE Drop
  <2>1. Connected /\ ~ Connected' /\ cycle' = cycle
    BY <1>8 DEF Drop, Connected, handlerVars
  <2>2. Surplus' = Surplus + ExpectedFrames
    <3>1. corrupted' + dropped' = corrupted + dropped + 1 /\ repeated' = repeated
      BY <1>8 DEF Drop, Faults
    <3> QED
      BY <3>1, SurplusGrows
  <2> QED
    BY <1>1, <1>3, <2>1, <2>2 DEF Bounded
<1>9. CASE Miss
  <2>1. ~ Connected /\ ~ Connected' /\ cycle' = cycle /\ Surplus' = Surplus
    BY <1>9 DEF Miss, Connected, handlerVars, faultVars, Surplus
  <2> QED
    BY <2>1 DEF Bounded
<1>10. CASE Reconnect \/ Cancel \/ Return
  <2>1. /\ Connected => Connected'
        /\ cycle' = cycle /\ Surplus' = Surplus
        /\ UNCHANGED <<lineVars, currentSlave>>
    BY <1>10 DEF Reconnect, Cancel, Return, Connected, handlerVars, faultVars, Surplus
  <2>2. Polled' = Polled
    BY <2>1, PolledStays
  <2> QED
    BY <1>1, <1>3, <2>1, <2>2 DEF Bounded
<1>11. CASE UNCHANGED vars
  <2>1. /\ Connected' = Connected /\ Surplus' = Surplus
        /\ UNCHANGED <<cycle, lineVars, currentSlave>>
    BY <1>11 DEF vars, Connected, handlerVars, faultVars, Surplus
  <2>2. Polled' = Polled
    BY <2>1, PolledStays
  <2> QED
    BY <2>1, <2>2 DEF Bounded
<1> QED
  BY <1>2, <1>5, <1>6, <1>7, <1>8, <1>9, <1>10, <1>11, LineSteps

-----------------------------------------------------------------------------
(***************************************************************************)
(* One lost frame                                                          *)
(***************************************************************************)
OneLoss == corrupted <= 1 /\ repeated = 0 /\ dropped = 0

\* Either every register of the cycle is at its position, up to the end of it
\* or of the turn, or a frame of this very turn was lost, the cycle lags
\* behind the line, and no more losses are to come.
Intact ==
  cycle # <<>> =>
    \/ /\ \A i \in 1 .. ExpectedFrames : i <= Len(cycle) => cycle[i].reg = i
       /\ Len(cycle) >= ExpectedFrames \/ Len(cycle) = Polled
    \/ corrupted = 1 /\ Len(cycle) < Polled

ConnectedUnlessDropped == dropped = 0 => Connected

LEMMA NoMoreThanOne ==
  ASSUME Faults, [Next]_vars
  PROVE  /\ corrupted <= corrupted' /\ repeated <= repeated' /\ dropped <= dropped'
         /\ Repeat => repeated' > 0
         /\ Drop => dropped' > 0
         /\ Corrupt => corrupted' = corrupted + 1
<1>1. Repeat => repeated' > 0
  BY DEF Repeat, Faults
<1>2. Drop => dropped' > 0
  BY DEF Drop, Faults
<1>3. Corrupt => corrupted' = corrupted + 1
  BY DEF Corrupt
<1>4. CASE Answer \/ Miss \/ Reconnect \/ Cancel \/ Return \/ Stopped \/ UNCHANGED vars
  <2>1. UNCHANGED faultVars
    BY <1>4 DEF Answer, Miss, Reconnect, Cancel, Return, Stopped, vars
  <2>2. corrupted <= corrupted' /\ repeated <= repeated' /\ dropped <= dropped'
    BY <2>1 DEF Faults, faultVars
  <2> QED
    BY <1>1, <1>2, <1>3, <2>2
<1>5. CASE Corrupt
  <2>1. corrupted <= corrupted' /\ repeated <= repeated' /\ dropped <= dropped'
    BY <1>5 DEF Faults, Corrupt
  <2> QED
    BY <1>1, <1>2, <1>3, <2>1
<1>6. CASE Repeat
  <2>1. corrupted <= corrupted' /\ repeated <= repeated' /\ dropped <= dropped'
    BY <1>6 DEF Faults, Repeat
  <2> QED
    BY <1>1, <1>2, <1>3, <2>1
<1>7. CASE Drop
  <2>1. corrupted <= corrupted' /\ repeated <= repeated' /\ dropped <= dropped'
    BY <1>7 DEF Faults, Drop
  <2> QED
    BY <1>1, <1>2, <1>3, <2>1
<1> QED
  BY <1>4, <1>5, <1>6, <1>7 DEF Next

\* A cycle that gets one more register, or that is not touched.
LEMMA LengthStep ==
  ASSUME Inv, NEW f \in Answers(TRUE), Adds(f)
  PROVE  /\ Len(cycle) \in Nat /\ Len(cycle') = Len(cycle) + 1
         /\ cycle'[Len(cycle) + 1] = f
         /\ \A i \in 1 .. Len(cycle) : cycle'[i] = cycle[i]
<1>1. f \in Frames /\ cycle \in Seq(Frames) /\ cycle' = Append(cycle, f)
  BY AnswersAreFrames DEF Inv, HandlerOK, Adds
<1> QED
  BY <1>1, AppendProperties

LEMMA AlignedStep ==
  ASSUME Inv, Faults, MarkerIsUnique, OpenedByDustIQ, OneInstrumentPerSlave,
         ConnectedUnlessDropped, Intact, Aligned, [Next]_vars, OneLoss, OneLoss'
  PROVE  Intact' /\ Aligned'
<1>1. /\ LineOK /\ ExpectedFrames \in Nat \ {0}
      /\ cycle \in Seq(Frames) /\ Len(cycle) \in Nat
  BY ExpectedFramesAssumption DEF Inv, HandlerOK
<1>2. cycle # <<>> => Polled \in 1 .. ExpectedFrames
  BY <1>1, PolledRange
<1>3. CASE Answer /\ NextPoll /\ Reading /\ UNCHANGED faultVars
           /\ \E f \in Answers(TRUE) : Waits \/ Adds(f) \/ StartsAgain(f)
  <2>1. PICK f \in Answers(TRUE) : Waits \/ Adds(f) \/ StartsAgain(f)
    BY <1>3
  <2>2. NextPoll /\ corrupted' = corrupted
    BY <1>3 DEF faultVars
  <2>3. f.reg = reg
    BY <1>1, MarkerIsTheFirst
  <2>4. CASE Waits
    BY <2>4 DEF Waits, handlerVars, Intact, Aligned
  <2>5. CASE Adds(f)
    <3>1. cycle # <<>> /\ InTurn /\ UNCHANGED <<currentSlave, report>>
      BY <2>5 DEF Adds
    <3>2. Polled' = Polled + 1 /\ Polled = reg - 1 /\ reg \in Nat
      BY <1>1, <2>2, <3>1, PolledStep, DeviceFields DEF Polled, LineOK
    <3>3. /\ Len(cycle') = Len(cycle) + 1 /\ cycle'[Len(cycle) + 1] = f
          /\ \A i \in 1 .. Len(cycle) : cycle'[i] = cycle[i]
      BY <2>5, LengthStep
    <3>4. ASSUME corrupted = 1 /\ Len(cycle) < Polled
          PROVE  Intact'
      <4>1. corrupted' = 1 /\ Len(cycle') < Polled'
        BY <1>1, <1>2, <2>2, <3>1, <3>2, <3>3, <3>4
      <4> QED
        BY <4>1 DEF Intact
    <3>5. ASSUME /\ \A i \in 1 .. ExpectedFrames : i <= Len(cycle) => cycle[i].reg = i
                 /\ Len(cycle) >= ExpectedFrames \/ Len(cycle) = Polled
          PROVE  Intact'
      <4>1. ASSUME NEW i \in 1 .. ExpectedFrames
            PROVE  i <= Len(cycle') => cycle'[i].reg = i
        <5>1. CASE i <= Len(cycle)
          BY <3>3, <3>5, <5>1
        <5>2. CASE i = Len(cycle) + 1
          <6>1. Len(cycle) = reg - 1
            BY <1>1, <3>2, <3>5, <5>2
          <6> QED
            BY <2>3, <3>2, <3>3, <5>2, <6>1
        <5> QED
          BY <1>1, <3>3, <5>1, <5>2
      <4>2. Len(cycle') >= ExpectedFrames \/ Len(cycle') = Polled'
        BY <1>1, <1>2, <3>1, <3>2, <3>3, <3>5
      <4> QED
        BY <4>1, <4>2 DEF Intact
    <3>6. Intact'
      BY <3>1, <3>4, <3>5 DEF Intact
    <3> QED
      BY <3>1, <3>6 DEF Aligned
  <2>6. CASE StartsAgain(f)
    <3>1. Intact'
      <4>1. CASE cycle' = <<>>
        BY <4>1 DEF Intact
      <4>2. CASE /\ cycle' = <<f>> /\ currentSlave' = Devices[device].slave
                 /\ Devices[device].dustiq /\ reg = 1
        <5>1. Polled' = 1
          BY <1>1, <2>2, <4>2, PolledOnce
        <5>2. Len(cycle') = 1 /\ cycle'[1].reg = 1
          BY <2>3, <4>2
        <5> QED
          BY <1>1, <5>1, <5>2 DEF Intact
      <4> QED
        BY <2>6, <4>1, <4>2 DEF StartsAgain
    <3>2. CASE report' = report
      BY <3>1, <3>2 DEF Aligned
    <3>3. CASE cycle # <<>> /\ ~ InTurn /\ Decodable /\ report' = Decoded
      <4>1. Polled = ExpectedFrames /\ Len(cycle) >= ExpectedFrames
        BY <3>3 DEF Polled, Decodable
      <4>2. \A i \in 1 .. ExpectedFrames : cycle[i].reg = i
        BY <1>1, <3>3, <4>1 DEF Intact
      <4>3. Aligned'
        BY <3>3, <4>2 DEF Aligned, Decoded
      <4> QED
        BY <3>1, <4>3
    <3> QED
      BY <2>6, <3>2, <3>3 DEF StartsAgain
  <2> QED
    BY <2>1, <2>4, <2>5, <2>6
<1>4. CASE Corrupt /\ NextPoll /\ corrupted' = corrupted + 1 /\ UNCHANGED handlerVars
  <2>1. UNCHANGED <<cycle, currentSlave, report>>
    BY <1>4 DEF handlerVars
  <2>2. corrupted = 0 /\ corrupted' = 1
    BY <1>4 DEF OneLoss, Faults
  <2>3. ASSUME cycle # <<>>
        PROVE  \/ Len(cycle) >= ExpectedFrames
               \/ Len(cycle) < Polled'
    <3>1. InTurn => Polled' = Polled + 1
      BY <1>1, <1>4, <2>1, <2>3, PolledStep
    <3>2. ~ InTurn => Polled = ExpectedFrames
      BY DEF Polled
    <3>3. Len(cycle) >= ExpectedFrames \/ Len(cycle) = Polled
      BY <2>2, <2>3 DEF Intact
    <3> QED
      BY <1>1, <1>2, <2>3, <3>1, <3>2, <3>3
  <2>4. cycle # <<>> =>
          \A i \in 1 .. ExpectedFrames : i <= Len(cycle) => cycle[i].reg = i
    BY <2>2 DEF Intact
  <2> QED
    BY <2>1, <2>2, <2>3, <2>4 DEF Intact, Aligned
<1>5. CASE Miss \/ Reconnect
  BY <1>5 DEF Miss, Reconnect, OneLoss, ConnectedUnlessDropped, Connected
<1>6. CASE Cancel \/ Return \/ UNCHANGED vars
  <2>1. UNCHANGED <<cycle, lineVars, currentSlave, report, corrupted>>
    BY <1>6 DEF Cancel, Return, vars, handlerVars, faultVars
  <2>2. Polled' = Polled
    BY <2>1, PolledStays
  <2> QED
    BY <2>1, <2>2 DEF Intact, Aligned
<1>7. ~ Repeat /\ ~ Drop
  BY NoMoreThanOne DEF OneLoss
<1> QED
  BY <1>1, <1>3, <1>4, <1>5, <1>6, <1>7, LineSteps

-----------------------------------------------------------------------------
(***************************************************************************)
(* One turn                                                                *)
(***************************************************************************)
OneLostAtMost == corrupted <= 1 /\ dropped = 0

\* The marker of this turn was heard, and its poll is repeated.
Reopened ==
  /\ reg = 1 /\ Devices[device].slave = currentSlave
  /\ round = cycle[1].round

\* The registers that count are of one turn, the one under way unless there
\* are enough of them; as long as nothing is lost, none is missing.
SameTurn ==
  cycle # <<>> =>
    /\ \A i \in 1 .. ExpectedFrames : i <= Len(cycle) => cycle[i].round = cycle[1].round
    /\ Len(cycle) >= ExpectedFrames \/ (InTurn => round = cycle[1].round)
    /\ corrupted = 0 => Len(cycle) >= Polled \/ Reopened

RoundsAgree ==
  \A i, j \in DOMAIN report.values : report.values[i].round = report.values[j].round

\* A register that is added is of the turn of those before it.
LEMMA SameTurnGrows ==
  ASSUME Inv, MarkerIsUnique, SameTurn, NEW f \in Answers(TRUE), Adds(f)
  PROVE  /\ \A i \in 1 .. ExpectedFrames :
              i <= Len(cycle') => cycle'[i].round = cycle'[1].round
         /\ Len(cycle') = Len(cycle) + 1 /\ Len(cycle) \in Nat
         /\ Len(cycle) >= ExpectedFrames \/ round = cycle'[1].round
         /\ corrupted = 0 => Len(cycle) >= Polled
<1>1. /\ Len(cycle) \in Nat /\ Len(cycle') = Len(cycle) + 1
      /\ cycle'[Len(cycle) + 1] = f
      /\ \A i \in 1 .. Len(cycle) : cycle'[i] = cycle[i]
  BY LengthStep
<1>2. cycle # <<>> /\ InTurn /\ reg # 1
  BY DeviceFields DEF Adds, InTurn, Inv, LineOK
<1>3. Len(cycle) >= 1 /\ cycle'[1] = cycle[1]
  BY <1>1, <1>2, EmptySeq DEF Inv, HandlerOK
<1>4. Len(cycle) >= ExpectedFrames \/ round = cycle[1].round
  BY <1>2 DEF SameTurn
<1>5. f.round = round
  BY MarkerIsTheFirst DEF Inv
<1>6. ASSUME NEW i \in 1 .. ExpectedFrames
      PROVE  i <= Len(cycle') => cycle'[i].round = cycle'[1].round
  <2>1. CASE i <= Len(cycle)
    BY <1>1, <1>2, <1>3, <2>1 DEF SameTurn
  <2>2. CASE i = Len(cycle) + 1
    BY <1>1, <1>3, <1>4, <1>5, <2>2, ExpectedFramesAssumption
  <2> QED
    BY <1>1, <2>1, <2>2
<1>7. corrupted = 0 => Len(cycle) >= Polled
  BY <1>2 DEF SameTurn, Reopened
<1> QED
  BY <1>1, <1>3, <1>4, <1>6, <1>7

LEMMA RoundStep ==
  ASSUME Inv, Faults, MarkerIsUnique, OpenedByDustIQ, OneInstrumentPerSlave,
         ConnectedUnlessDropped, SameTurn, RoundsAgree, [Next]_vars,
         OneLostAtMost, OneLostAtMost'
  PROVE  SameTurn' /\ RoundsAgree'
<1>1. LineOK /\ ExpectedFrames \in Nat \ {0} /\ Len(cycle) \in Nat
  BY ExpectedFramesAssumption DEF Inv, HandlerOK
<1>2. cycle # <<>> => Polled \in 1 .. ExpectedFrames
  BY <1>1, PolledRange
<1>3. ASSUME NEW f \in Answers(TRUE), StartsAgain(f)
      PROVE  RoundsAgree'
  <2>1. CASE report' = report
    BY <2>1 DEF RoundsAgree
  <2>2. CASE cycle # <<>> /\ Decodable /\ report' = Decoded
    <3>1. \A i \in 1 .. ExpectedFrames : cycle[i].round = cycle[1].round
      BY <1>1, <2>2 DEF SameTurn, Decodable
    <3> QED
      BY <2>2, <3>1 DEF RoundsAgree, Decoded
  <2> QED
    BY <1>3, <2>1, <2>2 DEF StartsAgain
<1>4. CASE Answer /\ NextPoll /\ Reading /\ UNCHANGED faultVars
           /\ \E f \in Answers(TRUE) : Waits \/ Adds(f) \/ StartsAgain(f)
  <2>1. PICK f \in Answers(TRUE) : Waits \/ Adds(f) \/ StartsAgain(f)
    BY <1>4
  <2>2. NextPoll /\ corrupted' = corrupted
    BY <1>4 DEF faultVars
  <2>3. CASE Waits
    BY <2>3 DEF Waits, handlerVars, SameTurn, RoundsAgree
  <2>4. CASE Adds(f)
    <3>1. cycle # <<>> /\ InTurn /\ UNCHANGED <<currentSlave, report>>
      BY <2>4 DEF Adds
    <3>2. Polled' = Polled + 1 /\ (InTurn' => round' = round)
      BY <1>1, <2>2, <3>1, PolledStep
    <3>3. /\ \A i \in 1 .. ExpectedFrames :
                i <= Len(cycle') => cycle'[i].round = cycle'[1].round
          /\ Len(cycle') = Len(cycle) + 1
          /\ Len(cycle) >= ExpectedFrames \/ round = cycle'[1].round
          /\ corrupted = 0 => Len(cycle) >= Polled
      BY <2>4, SameTurnGrows
    <3>4. Len(cycle') >= ExpectedFrames \/ (InTurn' => round' = cycle'[1].round)
      BY <1>1, <3>2, <3>3
    <3>5. corrupted' = 0 => Len(cycle') >= Polled'
      BY <1>1, <1>2, <2>2, <3>1, <3>2, <3>3
    <3>6. SameTurn'
      BY <3>3, <3>4, <3>5 DEF SameTurn
    <3> QED
      BY <3>1, <3>6 DEF RoundsAgree
  <2>5. CASE StartsAgain(f)
    <3>1. CASE cycle' = <<>>
      BY <1>3, <2>5, <3>1 DEF SameTurn
    <3>2. CASE /\ cycle' = <<f>> /\ currentSlave' = Devices[device].slave
               /\ Devices[device].dustiq /\ reg = 1
      <4>1. Polled' = 1 /\ (InTurn' => round' = round)
        BY <1>1, <2>2, <3>2, PolledOnce
      <4>2. f.round = round
        BY <1>1, MarkerIsTheFirst
      <4>3. Len(cycle') = 1 /\ cycle'[1] = f
        BY <3>2
      <4>4. \A i \in 1 .. ExpectedFrames : i <= Len(cycle') => cycle'[i].round = cycle'[1].round
        BY <4>3
      <4>5. SameTurn'
        BY <4>1, <4>2, <4>3, <4>4 DEF SameTurn
      <4> QED
        BY <1>3, <2>5, <4>5
    <3> QED
      BY <2>5, <3>1, <3>2 DEF StartsAgain
  <2> QED
    BY <2>1, <2>3, <2>4, <2>5
<1>5. CASE Repeat /\ Reading /\ UNCHANGED <<lineVars, corrupted, dropped>>
           /\ \E f \in Answers(TRUE) : Waits \/ Adds(f) \/ StartsAgain(f)
  <2>1. PICK f \in Answers(TRUE) : Waits \/ Adds(f) \/ StartsAgain(f)
    BY <1>5
  <2>2. UNCHANGED <<device, reg, round, corrupted>>
    BY <1>5 DEF lineVars
  <2>3. CASE Waits
    BY <2>3 DEF Waits, handlerVars, SameTurn, RoundsAgree
  <2>4. CASE Adds(f)
    <3>1. cycle # <<>> /\ UNCHANGED <<currentSlave, report>>
      BY <2>4 DEF Adds
    <3>2. Polled' = Polled
      BY <1>5, <3>1, PolledStays
    <3>3. /\ \A i \in 1 .. ExpectedFrames :
                i <= Len(cycle') => cycle'[i].round = cycle'[1].round
          /\ Len(cycle') = Len(cycle) + 1
          /\ Len(cycle) >= ExpectedFrames \/ round = cycle'[1].round
          /\ corrupted = 0 => Len(cycle) >= Polled
      BY <2>4, SameTurnGrows
    <3>4. Len(cycle') >= ExpectedFrames \/ round' = cycle'[1].round
      BY <1>1, <2>2, <3>3
    <3>5. corrupted' = 0 => Len(cycle') >= Polled'
      BY <1>1, <1>2, <2>2, <3>1, <3>2, <3>3
    <3>6. SameTurn'
      BY <3>3, <3>4, <3>5 DEF SameTurn
    <3> QED
      BY <3>1, <3>6 DEF RoundsAgree
  <2>5. CASE StartsAgain(f)
    <3>1. CASE cycle' = <<>>
      BY <1>3, <2>5, <3>1 DEF SameTurn
    <3>2. CASE /\ cycle' = <<f>> /\ currentSlave' = Devices[device].slave
               /\ Devices[device].dustiq /\ reg = 1
      <4>1. ~ InTurn'
        BY <1>5, <3>2, PolledStays
      <4>2. f.round = round
        BY <1>1, MarkerIsTheFirst
      <4>3. Len(cycle') = 1 /\ cycle'[1] = f
        BY <3>2
      <4>4. \A i \in 1 .. ExpectedFrames : i <= Len(cycle') => cycle'[i].round = cycle'[1].round
        BY <4>3
      <4>5. Reopened'
        BY <2>2, <3>2, <4>2, <4>3 DEF Reopened
      <4>6. SameTurn'
        BY <4>1, <4>4, <4>5 DEF SameTurn
      <4> QED
        BY <1>3, <2>5, <4>6
    <3> QED
      BY <2>5, <3>1, <3>2 DEF StartsAgain
  <2> QED
    BY <2>1, <2>3, <2>4, <2>5
<1>6. CASE Corrupt /\ NextPoll /\ corrupted' = corrupted + 1 /\ UNCHANGED handlerVars
  <2>1. UNCHANGED <<cycle, currentSlave, report>>
    BY <1>6 DEF handlerVars
  <2>2. corrupted = 0 /\ corrupted' = 1
    BY <1>6 DEF OneLostAtMost, Faults
  <2>3. ASSUME cycle # <<>>
        PROVE  Len(cycle) >= ExpectedFrames \/ (InTurn' => round' = cycle[1].round)
    <3>1. InTurn' => round' = round
      BY <1>1, <1>6, <2>1, <2>3, PolledStep
    <3>2. ~ InTurn => Polled = ExpectedFrames
      BY DEF Polled
    <3>3. Len(cycle) >= Polled \/ round = cycle[1].round
      BY <2>2, <2>3 DEF SameTurn, Reopened
    <3>4. Len(cycle) >= ExpectedFrames \/ (InTurn => round = cycle[1].round)
      BY <2>3 DEF SameTurn
    <3> QED
      BY <3>1, <3>2, <3>3, <3>4
  <2>4. SameTurn'
    BY <2>1, <2>2, <2>3 DEF SameTurn
  <2> QED
    BY <2>1, <2>4 DEF RoundsAgree
<1>7. CASE Cancel \/ Return \/ UNCHANGED vars
  <2>1. UNCHANGED <<cycle, lineVars, device, reg, round, currentSlave, report, corrupted>>
    BY <1>7 DEF Cancel, Return, vars, handlerVars, faultVars, lineVars
  <2>2. Polled' = Polled /\ InTurn' = InTurn /\ Reopened' = Reopened
    BY <2>1, PolledStays DEF Reopened
  <2> QED
    BY <2>1, <2>2 DEF SameTurn, RoundsAgree
<1>8. ~ Drop /\ ~ Miss /\ ~ Reconnect
  BY NoMoreThanOne DEF OneLostAtMost, ConnectedUnlessDropped, Connected, Miss, Reconnect
<1> QED
  BY <1>1, <1>4, <1>5, <1>6, <1>7, <1>8, LineSteps

-----------------------------------------------------------------------------
(***************************************************************************)
(* The inductive invariant                                                 *)
(***************************************************************************)
LossInv ==
  /\ Inv /\ Faults /\ OpenedByDustIQ /\ ConnectedUnlessDropped
  /\ Bounded
  /\ OneLoss => Intact /\ Aligned
  /\ OneLostAtMost => SameTurn /\ RoundsAgree

LEMMA InitLossInv == Init => LossInv
<1> SUFFICES ASSUME Init
             PROVE  LossInv
  OBVIOUS
<1>1. /\ cycle = <<>> /\ report.values = <<>> /\ Connected
      /\ corrupted = 0 /\ repeated = 0 /\ dropped = 0
  BY DEF Init, Connected, HandlerInit, Nothing
<1>2. DOMAIN report.values = {}
  BY <1>1
<1>3. Inv
  BY InitInv
<1>4. Faults /\ OpenedByDustIQ /\ ConnectedUnlessDropped
  BY <1>1 DEF Faults, OpenedByDustIQ, ConnectedUnlessDropped
<1>5. Bounded /\ Intact /\ SameTurn
  BY <1>1 DEF Bounded, Intact, SameTurn
<1>6. Aligned /\ RoundsAgree
  BY <1>2 DEF Aligned, RoundsAgree
<1> QED
  BY <1>3, <1>4, <1>5, <1>6 DEF LossInv

LEMMA ConnectedStep ==
  ASSUME Faults, ConnectedUnlessDropped, [Next]_vars
  PROVE  ConnectedUnlessDropped'
<1>1. CASE Drop
  <2>1. dropped' # 0
    BY <1>1 DEF Drop, Faults
  <2> QED
    BY <2>1 DEF ConnectedUnlessDropped
<1>2. CASE ~ Drop
  <2>1. dropped' = dropped /\ (Connected => Connected')
    BY <1>2 DEF Next, Answer, Corrupt, Repeat, Hear, Miss, Reconnect, Cancel, Return,
                Stopped, vars, faultVars, Connected
  <2> QED
    BY <2>1 DEF ConnectedUnlessDropped
<1> QED
  BY <1>1, <1>2

LEMMA StepLossInv ==
  ASSUME MarkerIsUnique, OneInstrumentPerSlave, LossInv, [Next]_vars
  PROVE  LossInv'
<1>1. Inv /\ Faults /\ OpenedByDustIQ /\ ConnectedUnlessDropped /\ Bounded
  BY DEF LossInv
<1>2. Inv' /\ Faults' /\ OpenedByDustIQ' /\ ConnectedUnlessDropped'
  BY <1>1, StepInv, FaultsStep, OpenedStep, ConnectedStep DEF Inv
<1>3. Bounded'
  <2>1. cycle' # <<>> => Len(cycle') <= Surplus' + (IF Connected' THEN Polled' ELSE 0)
    BY <1>1, BoundedStep
  <2> QED
    BY <2>1 DEF Bounded
<1>4. /\ corrupted <= corrupted' /\ repeated <= repeated' /\ dropped <= dropped'
      /\ corrupted \in Nat /\ repeated \in Nat /\ dropped \in Nat
      /\ corrupted' \in Nat /\ repeated' \in Nat /\ dropped' \in Nat
  BY <1>1, <1>2, NoMoreThanOne DEF Faults
<1>5. ASSUME OneLoss'
      PROVE  Intact' /\ Aligned'
  <2>1. OneLoss
    BY <1>4, <1>5 DEF OneLoss
  <2>2. Intact /\ Aligned
    BY <2>1 DEF LossInv
  <2> QED
    BY <1>1, <1>5, <2>1, <2>2, AlignedStep
<1>6. ASSUME OneLostAtMost'
      PROVE  SameTurn' /\ RoundsAgree'
  <2>1. OneLostAtMost
    BY <1>4, <1>6 DEF OneLostAtMost
  <2>2. SameTurn /\ RoundsAgree
    BY <2>1 DEF LossInv
  <2> QED
    BY <1>1, <1>6, <2>1, <2>2, RoundStep
<1> QED
  BY <1>2, <1>3, <1>5, <1>6 DEF LossInv

LEMMA LossInvariance ==
  ASSUME MarkerIsUnique, OneInstrumentPerSlave
  PROVE  Spec => []LossInv
<1>1. LossInv /\ [Next]_vars => LossInv'
  BY StepLossInv
<1> QED
  BY InitLossInv, <1>1, PTL DEF Spec

-----------------------------------------------------------------------------
(***************************************************************************)
(* Theorems                                                                *)
(***************************************************************************)
\* HandleFrame and decodeDustIQCycle (dustiq.go:63-131): on a line that loses
\* at most one frame, whichever it is, every decoded value carries the name of
\* the register it was read from.
THEOREM OneLossAlignedHolds ==
  ASSUME MarkerIsUnique, OneInstrumentPerSlave
  PROVE  Spec => []OneLossAligned
<1>1. LossInv => OneLossAligned
  BY DEF LossInv, OneLoss, OneLossAligned
<1> QED
  BY <1>1, LossInvariance, PTL

\* However many polls the master repeats, and whichever single frame is lost,
\* the values of a decoded cycle (dustiq.go:63-131) were read while it was the
\* device's turn once.
THEOREM OneLossOneRoundHolds ==
  ASSUME MarkerIsUnique, OneInstrumentPerSlave
  PROVE  Spec => []OneLossOneRound
<1>1. LossInv => OneLossOneRound
  BY DEF LossInv, OneLostAtMost, RoundsAgree, OneLossOneRound
<1> QED
  BY <1>1, LossInvariance, PTL

\* What the handler keeps (h.cycle, dustiq.go:63-99) is bounded by the faults
\* of the line, whatever their number, and not by how long it listens.
THEOREM CycleBoundedHolds ==
  ASSUME MarkerIsUnique, OneInstrumentPerSlave
  PROVE  Spec => []CycleBounded
<1>1. ASSUME LossInv
      PROVE  CycleBounded
  <2>1. Inv /\ Faults /\ Bounded /\ OpenedByDustIQ /\ LineOK
    BY <1>1 DEF LossInv, Inv
  <2>2. /\ corrupted \in Nat /\ repeated \in Nat /\ dropped \in Nat
        /\ ExpectedFrames \in Nat \ {0} /\ Surplus \in Nat
    BY <2>1, ExpectedFramesAssumption, SurplusGrows DEF Faults
  <2>3. ExpectedFrames * (1 + corrupted + dropped) + repeated = Surplus + ExpectedFrames
    <3>1. \A m, n \in Nat : m * (n + 1) = m * n + m
      OBVIOUS
    <3>2. 1 + corrupted + dropped = (corrupted + dropped) + 1
      BY <2>2
    <3>3. ExpectedFrames * (corrupted + dropped) \in Nat
      BY <2>2
    <3>4. ExpectedFrames * ((corrupted + dropped) + 1)
            = ExpectedFrames * (corrupted + dropped) + ExpectedFrames
      BY <2>2, <3>1
    <3> QED
      BY <2>2, <3>2, <3>3, <3>4 DEF Surplus
  <2>4. CASE cycle = <<>>
    BY <2>2, <2>3, <2>4 DEF CycleBounded
  <2>5. CASE cycle # <<>>
    <3>1. Polled \in 1 .. ExpectedFrames
      BY <2>1, <2>5, PolledRange
    <3>2. Len(cycle) \in Nat
      BY <2>1 DEF Inv, HandlerOK
    <3> QED
      BY <2>1, <2>2, <2>3, <2>5, <3>1, <3>2 DEF Bounded, CycleBounded
  <2> QED
    BY <2>4, <2>5
<1>2. LossInv => CycleBounded
  BY <1>1
<1> QED
  BY <1>2, LossInvariance, PTL
=============================================================================
