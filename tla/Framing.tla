-------------------------------- MODULE Framing --------------------------------
(***************************************************************************)
(* How streamFrames (listener.go) cuts the bytes of a connection into      *)
(* frames: a frame ends when nothing has been read for an idle gap, or     *)
(* when it has reached MaxFrame bytes.  Time passes in ticks; the reader   *)
(* acts between two ticks unless the scheduler, or whatever logFrame waits *)
(* for, delays it.                                                         *)
(*                                                                         *)
(* External: the line, whose messages are followed by Silence ticks and    *)
(* have pauses of at most Pause ticks inside, and the socket.              *)
(***************************************************************************)
EXTENDS Naturals, Sequences

CONSTANTS
  NPort,     \* [idleGap, baud, dataBits, parity, stopHalves, maxFrame, readBuf]:
             \* idleGap in ticks, stop bits in halves, 0 for what is not set
  TickRate,  \* ticks in a second
  Pause, Silence,   \* of the line: within and between messages
  MaxLength,        \* of a message
  Messages,  \* messages are told apart modulo Messages
  MaxUnread, \* bound: bytes waiting in the socket
  MaxDelay,  \* bound: ticks by which the reader is late
  MaxDrop    \* bound: connections lost

OrDefault(setting, default) == IF setting > 0 THEN setting ELSE default

\* What is configured, or the time of three and a half characters: a start bit,
\* the data, a parity bit and the stop bits.  The code computes in nanoseconds
\* and falls back if there is not one of them; here a gap is cut to whole ticks,
\* and to one tick at least.
deriveIdleGap(np, fallback) ==
  LET parityBits == IF np.parity \in {"even", "odd", "mark", "space"} THEN 1 ELSE 0
      halfBits == 2 * (1 + OrDefault(np.dataBits, 8) + parityBits)
                    + OrDefault(np.stopHalves, 2)
      hasNanosecond == (4 * np.baud - 1) \div 1000000000 < 7 * halfBits
      ticks == OrDefault((7 * halfBits * TickRate) \div (4 * np.baud), 1)
  IN OrDefault(np.idleGap, IF np.baud > 0 /\ hasNanosecond THEN ticks ELSE fallback)

Gap == deriveIdleGap(NPort, (5 * TickRate) \div 1000)
MaxFrame == OrDefault(NPort.maxFrame, 4096)
ReadBuf == OrDefault(NPort.readBuf, 1024)

ASSUME ReaderAssumption ==
  /\ Gap \in Nat \ {0}
  /\ MaxFrame \in Nat \ {0} /\ ReadBuf \in Nat \ {0}

\* The configured idle gap suits the line, and so does the size guard.
ASSUME LineAssumption ==
  /\ Pause \in Nat /\ Silence \in Nat /\ Pause < Gap /\ Gap < Silence
  /\ MaxLength \in Nat \ {0} /\ MaxLength < MaxFrame
  /\ Messages \in Nat \ {0}

ASSUME BoundsAssumption ==
  MaxUnread \in Nat \ {0} /\ MaxDelay \in Nat /\ MaxDrop \in Nat

VARIABLES
  msg, pos,  \* the line: the message, and its last byte sent; 0 between messages
  idle,      \* ticks since the last byte, up to Silence
  socket,    \* bytes received but not read
  pc,        \* "arm" (SetReadDeadline), "read", "log", or "down"
  timer,     \* ticks left before the read deadline
  frame,     \* frame, the bytes read since the last one was logged
  logged,    \* history: the latest frame of this connection that was logged
  first,     \* history: it was the connection's first
  delayed, dropped   \* ticks the reader was late, connections lost

lineVars == <<msg, pos>>
readerVars == <<pc, timer, frame>>
history == <<logged, first>>
vars == <<lineVars, idle, socket, readerVars, history, delayed, dropped>>

Bytes == [msg : 0 .. Messages - 1, pos : 1 .. MaxLength, last : BOOLEAN]

Init ==
  /\ msg = 0 /\ pos = 0
  /\ idle = Silence
  /\ socket = <<>>
  /\ pc = "arm" /\ timer = 0 /\ frame = <<>>
  /\ logged = <<>> /\ first = FALSE
  /\ delayed = 0 /\ dropped = 0

-----------------------------------------------------------------------------
\* The next byte of the message under way; nobody hears it while the
\* connection is down.
Send ==
  \E last \in IF pos + 1 < MaxLength THEN BOOLEAN ELSE {TRUE} :
    /\ socket' = IF pc = "down"
                   THEN <<>>
                   ELSE Append(socket, [msg |-> msg, pos |-> pos + 1, last |-> last])
    /\ pos' = IF last THEN 0 ELSE pos + 1
    /\ msg' = IF last THEN (msg + 1) % Messages ELSE msg
    /\ idle' = 0
    /\ UNCHANGED <<readerVars, history, delayed, dropped>>

Begin == pos = 0 /\ idle = Silence /\ Len(socket) < MaxUnread /\ Send
Continue == pos # 0 /\ Len(socket) < MaxUnread /\ Send

\* The reader has something to do.
Ready ==
  \/ pc \in {"arm", "log"}
  \/ pc = "read" /\ (socket # <<>> \/ timer = 0)

Tick ==
  /\ pos # 0 => idle < Pause
  /\ Ready => delayed < MaxDelay
  /\ delayed' = IF Ready THEN delayed + 1 ELSE delayed
  /\ timer' = IF timer = 0 THEN 0 ELSE timer - 1
  /\ idle' = IF idle = Silence THEN Silence ELSE idle + 1
  /\ UNCHANGED <<lineVars, socket, pc, frame, history, dropped>>

-----------------------------------------------------------------------------
\* Mutants: one deadline per frame; the deadline is added to what is left.
ArmOncePerFrame ==
  /\ pc = "arm"
  /\ timer' = IF frame = <<>> THEN Gap ELSE timer
  /\ pc' = "read"
  /\ UNCHANGED <<lineVars, idle, socket, frame, history, delayed, dropped>>

ArmOnTop ==
  /\ pc = "arm"
  /\ timer' = timer + Gap
  /\ pc' = "read"
  /\ UNCHANGED <<lineVars, idle, socket, frame, history, delayed, dropped>>

\* The deadline of each read is an idle gap from now.
Arm ==
  /\ pc = "arm"
  /\ timer' = Gap
  /\ pc' = "read"
  /\ UNCHANGED <<lineVars, idle, socket, frame, history, delayed, dropped>>

\* Mutant: the guard is off by one.
Beyond(f) == Len(f) > MaxFrame

\* The size guard, which looks at the frame after the append.
Full(f) == Len(f) >= MaxFrame

Taken == IF Len(socket) < ReadBuf THEN Len(socket) ELSE ReadBuf

\* A read returns what there is.  If its deadline passes at the same time,
\* either may win.
ReadBytes ==
  /\ pc = "read" /\ socket # <<>>
  /\ frame' = frame \o SubSeq(socket, 1, Taken)
  /\ socket' = SubSeq(socket, Taken + 1, Len(socket))
  /\ pc' = IF Full(frame') THEN "log" ELSE "arm"
  /\ UNCHANGED <<lineVars, idle, timer, history, delayed, dropped>>

\* Mutant: a timeout only starts the next read.
ReadTimeoutIgnored ==
  /\ pc = "read" /\ timer = 0
  /\ pc' = "arm"
  /\ UNCHANGED <<lineVars, idle, socket, timer, frame, history, delayed, dropped>>

\* The idle gap has passed: what was read is a frame.
ReadTimeout ==
  /\ pc = "read" /\ timer = 0
  /\ pc' = IF frame = <<>> THEN "arm" ELSE "log"
  /\ UNCHANGED <<lineVars, idle, socket, timer, frame, history, delayed, dropped>>

\* logFrame and HandleFrame, then the next frame starts empty.
Log ==
  /\ pc = "log"
  /\ logged' = frame
  /\ first' = (logged = <<>>)
  /\ frame' = <<>>
  /\ pc' = "arm"
  /\ UNCHANGED <<lineVars, idle, socket, timer, delayed, dropped>>

\* Mutant: the unfinished frame survives the connection.
ReadErrorKeepsFrame ==
  /\ pc = "read" /\ dropped < MaxDrop
  /\ dropped' = dropped + 1
  /\ socket' = <<>>
  /\ pc' = "down"
  /\ logged' = <<>> /\ first' = FALSE
  /\ UNCHANGED <<lineVars, idle, timer, frame, delayed>>

\* The connection breaks; the bytes of the unfinished frame are dropped.
ReadError ==
  /\ pc = "read" /\ dropped < MaxDrop
  /\ dropped' = dropped + 1
  /\ socket' = <<>>
  /\ frame' = <<>>
  /\ pc' = "down"
  /\ logged' = <<>> /\ first' = FALSE
  /\ UNCHANGED <<lineVars, idle, timer, delayed>>

\* streamFrames is called again on a new connection.
Reconnect ==
  /\ pc = "down"
  /\ pc' = "arm"
  /\ UNCHANGED <<lineVars, idle, socket, timer, frame, history, delayed, dropped>>

Read == Arm \/ ReadBytes \/ ReadTimeout \/ Log

Next == Begin \/ Continue \/ Tick \/ Read \/ ReadError \/ Reconnect

\* A message that was begun is finished, time passes, and the reader is
\* scheduled; no message, and no outage, is promised.
Spec ==
  /\ Init
  /\ [][Next]_vars
  /\ WF_vars(Continue) /\ WF_vars(Tick) /\ WF_vars(Read)

-----------------------------------------------------------------------------
(***************************************************************************)
(* Properties                                                              *)
(***************************************************************************)
TypeOK ==
  /\ msg \in 0 .. Messages - 1 /\ pos \in 0 .. MaxLength - 1
  /\ idle \in 0 .. Silence
  /\ socket \in Seq(Bytes) /\ Len(socket) <= MaxUnread
  /\ pc \in {"arm", "read", "log", "down"}
  /\ timer \in 0 .. Gap
  /\ frame \in Seq(Bytes)
  /\ logged \in Seq(Bytes) /\ first \in BOOLEAN
  /\ delayed \in 0 .. MaxDelay /\ dropped \in 0 .. MaxDrop

\* b and c follow each other on the line.
Adjacent(b, c) ==
  IF b.last
    THEN c.msg = (b.msg + 1) % Messages /\ c.pos = 1
    ELSE c.msg = b.msg /\ c.pos = b.pos + 1

\* However late the reader is, and wherever frames are cut, no byte of a
\* connection is lost, doubled or moved between the socket and the log, and
\* no frame joins the bytes of two connections.
NothingLost ==
  LET bytes == logged \o frame \o socket IN
  \A i \in 1 .. Len(bytes) - 1 : Adjacent(bytes[i], bytes[i + 1])

\* A reader that was never late logs exactly the messages of the line; only
\* the first frame of a connection may lack its beginning.
WholeFrames ==
  delayed = 0 /\ logged # <<>> =>
    /\ \A i \in DOMAIN logged : logged[i].last <=> i = Len(logged)
    /\ first \/ logged[1].pos = 1

\* The size guard lets a frame exceed MaxFrame by less than one read, however
\* many messages a late reader finds glued together.
FrameBounded ==
  /\ Len(logged) < MaxFrame + ReadBuf
  /\ pc = "arm" => Len(frame) < MaxFrame

\* Bytes that were read do not wait for traffic that may never come: the frame
\* is logged, or dropped with its connection.
EveryFrameEnds == frame # <<>> ~> frame = <<>>
===============================================================================
