------------------------------ MODULE DustIQBus ------------------------------
(***************************************************************************)
(* A DustIQ handler listening to an RS485 line through a Moxa NPort.       *)
(*                                                                         *)
(* The line is external: a master polls the registers of every device in   *)
(* turn, over and over, and each answer is one frame.  A frame may be      *)
(* corrupted (bad CRC, or glued to its neighbour by the idle-gap framing), *)
(* a device may answer a repeated poll, and the TCP connection may drop:   *)
(* runPassiveListeningTest reconnects, but what the line carried meanwhile *)
(* is gone, and the handler, created before the reconnection loop          *)
(* (listener.go:30), keeps its half-filled cycle.                          *)
(*                                                                         *)
(* The context may be cancelled at any moment: by a signal, by the timer   *)
(* of a test, or by the coordinator once the other ports are complete.     *)
(* The listener then returns when it next looks at the context.            *)
(***************************************************************************)
EXTENDS DustIQHandler

CONSTANTS
  Devices,     \* <<[slave, dustiq, registers], ...>> in polling order
  Readings,    \* values of ordinary registers
  Rounds,      \* the turns of the devices are told apart modulo Rounds
  MaxCorrupt,  \* bound: frames corrupted
  MaxRepeat,   \* bound: polls repeated
  MaxDrop      \* bound: connections lost

ASSUME DevicesAssumption ==
  /\ Devices \in Seq([slave : Nat, dustiq : BOOLEAN, registers : Nat \ {0}])
  /\ Devices # <<>>
  /\ \A d \in DOMAIN Devices :
       Devices[d].dustiq => Devices[d].registers = ExpectedFrames

ASSUME BoundsAssumption ==
  /\ Rounds \in Nat \ {0}
  /\ MaxCorrupt \in Nat /\ MaxRepeat \in Nat /\ MaxDrop \in Nat

VARIABLES
  device,     \* the device being polled, an index of Devices
  reg,        \* the register being polled, from 1
  round,      \* the device's turn the poll belongs to, modulo Rounds
  place,      \* the listener: in "read", "down" between two connections, "returned"
  ctxDone,    \* is the context cancelled?
  corrupted, repeated, dropped   \* faults so far

lineVars == <<device, reg, round>>
faultVars == <<corrupted, repeated, dropped>>
vars == <<handlerVars, lineVars, place, ctxDone, faultVars>>

Init ==
  /\ HandlerInit
  /\ device = 1
  /\ reg = 1
  /\ round = 0
  /\ place = "read"
  /\ ctxDone = FALSE
  /\ corrupted = 0 /\ repeated = 0 /\ dropped = 0

\* The first register of a DustIQ is its device type.
Register(d, r) ==
  IF Devices[d].dustiq /\ r = 1 THEN {Marker} ELSE Readings

\* The frames that may answer the current poll; reg and round say where the
\* frame comes from, which the handler cannot see.
Answers(readable) ==
  [slave : {Devices[device].slave}, value : Register(device, reg),
   single : {readable}, reg : {reg}, round : {round}]

NextPoll ==
  IF reg < Devices[device].registers
    THEN reg' = reg + 1 /\ UNCHANGED <<device, round>>
    ELSE /\ reg' = 1
         /\ device' = 1 + (device % Len(Devices))
         /\ round' = (round + 1) % Rounds

\* A frame ends.  The listener returns when its handler is done, or when it
\* looks at the context before the next read.
Hear(f) ==
  /\ place = "read"
  /\ HandleFrame(f)
  /\ place' = IF complete' \/ ctxDone THEN "returned" ELSE "read"

Answer ==
  /\ \E f \in Answers(TRUE) : Hear(f)
  /\ NextPoll
  /\ UNCHANGED <<ctxDone, faultVars>>

Corrupt ==
  /\ corrupted < MaxCorrupt
  /\ corrupted' = corrupted + 1
  /\ \E f \in Answers(FALSE) : Hear(f)
  /\ NextPoll
  /\ UNCHANGED <<ctxDone, repeated, dropped>>

\* The answer is heard, and the master polls the same register again.
Repeat ==
  /\ repeated < MaxRepeat
  /\ repeated' = repeated + 1
  /\ \E f \in Answers(TRUE) : Hear(f)
  /\ UNCHANGED <<lineVars, ctxDone, corrupted, dropped>>

Drop ==
  /\ place = "read"
  /\ dropped < MaxDrop
  /\ dropped' = dropped + 1
  /\ place' = "down"
  /\ UNCHANGED <<handlerVars, lineVars, ctxDone, corrupted, repeated>>

\* The line goes on while nobody listens.
Miss ==
  /\ place = "down"
  /\ NextPoll
  /\ UNCHANGED <<handlerVars, place, ctxDone, faultVars>>

\* A dial that is under way succeeds although the context is cancelled; the
\* context is looked at before the first read.
Reconnect ==
  /\ place = "down"
  /\ place' = IF ctxDone THEN "returned" ELSE "read"
  /\ UNCHANGED <<handlerVars, lineVars, ctxDone, faultVars>>

Cancel ==
  /\ place # "returned" /\ ~ ctxDone
  /\ ctxDone' = TRUE
  /\ UNCHANGED <<handlerVars, lineVars, place, faultVars>>

\* The listener sees the cancellation while it waits to redial, or after a read
\* that did not end a frame.
Return ==
  /\ place # "returned" /\ ctxDone
  /\ place' = "returned"
  /\ UNCHANGED <<handlerVars, lineVars, ctxDone, faultVars>>

Stopped == place = "returned" /\ UNCHANGED vars

Next ==
  \/ Answer \/ Corrupt \/ Repeat
  \/ Drop \/ Miss \/ Reconnect
  \/ Cancel \/ Return \/ Stopped

\* The master keeps polling, and the listener redials until it succeeds and
\* returns when it is told to.  Whether it is told to is left open.
Spec ==
  /\ Init /\ [][Next]_vars
  /\ WF_vars(Answer) /\ WF_vars(Reconnect) /\ WF_vars(Return)

-----------------------------------------------------------------------------
(***************************************************************************)
(* Properties                                                              *)
(***************************************************************************)
SlaveIds == {Devices[d].slave : d \in 1 .. Len(Devices)}

Frames ==
  [slave : SlaveIds, value : Readings \cup {Marker}, single : BOOLEAN,
   reg : Nat, round : Nat]

TypeOK ==
  /\ mode \in {"store", "test"}
  /\ cycle \in Seq(Frames)
  /\ \A i \in DOMAIN cycle : cycle[i].single
  /\ currentSlave \in {NoSlave} \cup SlaveIds
  /\ complete \in BOOLEAN
  /\ device \in 1 .. Len(Devices)
  /\ reg \in 1 .. Devices[device].registers
  /\ round \in 0 .. Rounds - 1
  /\ place \in {"read", "down", "returned"}
  /\ ctxDone \in BOOLEAN

\* decodeDustIQCycle: every decoded value carries the name of the register
\* it was read from.  The code does not achieve this after a reconnection.
Aligned == \A i \in DOMAIN report.values : report.values[i].reg = i

\* HandleFrame and decodeDustIQCycle: a line that loses any single frame,
\* the one that opens or closes a cycle included, never makes a value appear
\* under the name of another register.
OneLossAligned == corrupted <= 1 /\ repeated = 0 /\ dropped = 0 => Aligned

\* The values of a decoded cycle are a snapshot: however many polls the
\* master repeats and whichever single frame is lost, they were read while
\* it was the device's turn once.
OneLossOneRound ==
  corrupted <= 1 /\ dropped = 0 =>
    \A i, j \in DOMAIN report.values :
      report.values[i].round = report.values[j].round

\* What the handler keeps is bounded by the faults of the line, not by how
\* long it listens: a lost frame or connection can glue one more turn to the
\* cycle, a repeated poll one more frame.
CycleBounded ==
  Len(cycle) <= ExpectedFrames * (1 + corrupted + dropped) + repeated

\* Whatever is lost, repeated or missed, a decoded cycle never mixes devices
\* and is filed under the device it was read from.
OneDevice ==
  \A i \in DOMAIN report.values : report.values[i].slave = report.slave

\* A fault can spoil only the rounds it touches: in store mode the port stops,
\* and it stops without a stored cycle only if the context was cancelled.
EventuallyStored ==
  mode = "store" ~> place = "returned" /\ (complete \/ ctxDone)
==============================================================================
