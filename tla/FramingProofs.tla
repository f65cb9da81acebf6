----------------------------- MODULE FramingProofs -----------------------------
(***************************************************************************)
(* Proofs about Framing, for every line and every setting of the reader    *)
(* that meet the module's assumptions.                                     *)
(***************************************************************************)
EXTENDS Framing, SequenceTheorems, TLAPS

-----------------------------------------------------------------------------
(***************************************************************************)
(* The inductive invariant                                                 *)
(***************************************************************************)
\* The bytes of the connection that are not logged yet, and all of them.
Current == frame \o socket
Heard == logged \o Current

Chain(s) == \A i \in 1 .. Len(s) - 1 : Adjacent(s[i], s[i + 1])

\* The next byte of the line follows the last one that was heard.
LineGoesOn ==
  Heard # <<>> =>
    LET b == Heard[Len(Heard)]
    IN IF b.last THEN msg = (b.msg + 1) % Messages /\ pos = 0
                 ELSE msg = b.msg /\ pos = b.pos

NothingHeardWhileDown == pc = "down" => Heard = <<>>

\* No silence within a message is longer than a pause.
NoGapInMessage == pos # 0 => idle <= Pause

\* The size of the frame at each place of the loop.
FrameSizes ==
  /\ pc \in {"arm", "read"} => Len(frame) < MaxFrame
  /\ pc = "log" => frame # <<>> /\ Len(frame) < MaxFrame + ReadBuf
  /\ Len(logged) < MaxFrame + ReadBuf

\* A reader that was never late: bytes are read in the tick they come, and
\* then the deadline of the next read is an idle gap after them.
InStep ==
  /\ socket # <<>> => idle = 0
  /\ pc = "arm" /\ frame # <<>> => idle = 0
  /\ pc = "read" /\ frame # <<>> =>
       IF socket = <<>> THEN timer + idle = Gap ELSE timer > 0
  /\ pc = "log" => socket = <<>> /\ idle = Gap /\ pos = 0

\* What is not logged yet is a part of one message, and it begins the message
\* unless nothing was logged on this connection before.
OneMessage ==
  /\ \A i \in 1 .. Len(Current) :
       /\ Current[i].pos = Current[1].pos + i - 1
       /\ Current[i].last => i = Len(Current)
  /\ logged # <<>> => IF Current = <<>> THEN pos = 0 ELSE Current[1].pos = 1

Punctual == delayed = 0 => InStep /\ OneMessage /\ WholeFrames

IInv ==
  /\ TypeOK /\ Chain(Heard) /\ LineGoesOn /\ NothingHeardWhileDown
  /\ NoGapInMessage /\ FrameSizes /\ Punctual

-----------------------------------------------------------------------------
(***************************************************************************)
(* Sequences                                                               *)
(***************************************************************************)
LEMMA AppendToConcat ==
  ASSUME NEW S, NEW s \in Seq(S), NEW t \in Seq(S), NEW e \in S
  PROVE  s \o Append(t, e) = Append(s \o t, e)
<1> DEFINE left == s \o Append(t, e)
           right == Append(s \o t, e)
<1>1. /\ left \in Seq(S) /\ right \in Seq(S)
      /\ Len(left) = Len(s) + Len(t) + 1 /\ Len(right) = Len(s) + Len(t) + 1
  OBVIOUS
<1>2. \A i \in 1 .. Len(left) : left[i] = right[i]
  OBVIOUS
<1> HIDE DEF left, right
<1> QED
  BY <1>1, <1>2, SeqEqual

\* A sequence is its first n elements and the others.
LEMMA SplitSeq ==
  ASSUME NEW S, NEW t \in Seq(S), NEW n \in 0 .. Len(t)
  PROVE  /\ SubSeq(t, 1, n) \in Seq(S) /\ Len(SubSeq(t, 1, n)) = n
         /\ SubSeq(t, n + 1, Len(t)) \in Seq(S)
         /\ Len(SubSeq(t, n + 1, Len(t))) = Len(t) - n
         /\ SubSeq(t, 1, n) \o SubSeq(t, n + 1, Len(t)) = t
<1> DEFINE a == SubSeq(t, 1, n)
           b == SubSeq(t, n + 1, Len(t))
<1>1. /\ a \in Seq(S) /\ Len(a) = n
      /\ \A i \in 1 .. n : a[i] = t[i]
  BY SubSeqProperties
<1>2. /\ b \in Seq(S) /\ Len(b) = Len(t) - n
      /\ \A i \in 1 .. Len(t) - n : b[i] = t[n + i]
  BY SubSeqProperties
<1> HIDE DEF a, b
<1>3. a \o b \in Seq(S) /\ Len(a \o b) = Len(t)
      /\ \A i \in 1 .. Len(t) : (a \o b)[i] = IF i <= n THEN a[i] ELSE b[i - n]
  BY <1>1, <1>2, ConcatProperties
<1>4. ASSUME NEW i \in 1 .. Len(t)
      PROVE  (a \o b)[i] = t[i]
  <2>1. CASE i <= n
    BY <1>1, <1>3, <2>1
  <2>2. CASE ~ (i <= n)
    <3>1. i - n \in 1 .. Len(t) - n /\ n + (i - n) = i
      BY <2>2
    <3>2. (a \o b)[i] = b[i - n]
      BY <1>3, <2>2
    <3>3. b[i - n] = t[n + (i - n)]
      BY <1>2, <3>1
    <3> QED
      BY <3>1, <3>2, <3>3
  <2> QED
    BY <2>1, <2>2
<1>5. a \o b = t
  BY <1>3, <1>4, SeqEqual
<1> QED
  BY <1>1, <1>2, <1>5 DEF a, b

\* A byte that follows the last one of a chain lengthens it, and what is left
\* of a chain without its beginning is one.
LEMMA ChainGrows ==
  ASSUME NEW s \in Seq(Bytes), NEW e \in Bytes, Chain(s),
         s # <<>> => Adjacent(s[Len(s)], e)
  PROVE  Chain(Append(s, e))
<1> SUFFICES ASSUME NEW i \in 1 .. Len(s)
             PROVE  Adjacent(Append(s, e)[i], Append(s, e)[i + 1])
  BY DEF Chain
<1>1. CASE i < Len(s)
  BY <1>1 DEF Chain
<1>2. CASE i = Len(s)
  BY <1>2
<1> QED
  BY <1>1, <1>2

LEMMA ChainEnd ==
  ASSUME NEW s \in Seq(Bytes), NEW t \in Seq(Bytes), Chain(s \o t)
  PROVE  Chain(t)
<1> SUFFICES ASSUME NEW i \in 1 .. Len(t) - 1
             PROVE  Adjacent(t[i], t[i + 1])
  BY DEF Chain
<1>1. Len(s) + i \in 1 .. Len(s \o t) - 1
  OBVIOUS
<1>2. (s \o t)[Len(s) + i] = t[i] /\ (s \o t)[Len(s) + i + 1] = t[i + 1]
  OBVIOUS
<1> QED
  BY <1>1, <1>2 DEF Chain

-----------------------------------------------------------------------------
(***************************************************************************)
(* What a step does to the bytes that were heard                           *)
(***************************************************************************)
LEMMA BytesShape ==
  ASSUME TypeOK
  PROVE  /\ Current \in Seq(Bytes) /\ Len(Current) = Len(frame) + Len(socket)
         /\ Heard \in Seq(Bytes) /\ Len(Heard) = Len(logged) + Len(Current)
         /\ logged \o frame \o socket = Heard
         /\ frame # <<>> \/ socket # <<>> <=> Current # <<>>
<1>1. socket \in Seq(Bytes) /\ frame \in Seq(Bytes) /\ logged \in Seq(Bytes)
  BY DEF TypeOK
<1>2. /\ Current \in Seq(Bytes) /\ Len(Current) = Len(frame) + Len(socket)
      /\ frame # <<>> \/ socket # <<>> <=> Current # <<>>
  BY <1>1, ConcatProperties, ConcatEqualIffEmpty DEF Current
<1>3. Heard \in Seq(Bytes) /\ Len(Heard) = Len(logged) + Len(Current)
  BY <1>1, <1>2, ConcatProperties DEF Heard
<1>4. logged \o frame \o socket = Heard
  BY <1>1, ConcatAssociative DEF Heard, Current
<1> QED
  BY <1>2, <1>3, <1>4

LEMMA NextMessage == \A m \in Nat : (m + 1) % Messages \in 0 .. Messages - 1
  BY LineAssumption

\* The line sends its next byte; a reader that is connected gets it.
LEMMA SendStep ==
  ASSUME TypeOK, Begin \/ Continue
  PROVE  \E last \in BOOLEAN :
           LET e == [msg |-> msg, pos |-> pos + 1, last |-> last] IN
           /\ e \in Bytes
           /\ socket' = IF pc = "down" THEN <<>> ELSE Append(socket, e)
           /\ pc # "down" => Current' = Append(Current, e) /\ Heard' = Append(Heard, e)
           /\ IF last THEN pos' = 0 /\ msg' = (msg + 1) % Messages
                      ELSE pos' = pos + 1 /\ msg' = msg /\ pos + 1 < MaxLength
           /\ idle' = 0 /\ Len(socket) < MaxUnread
           /\ UNCHANGED <<readerVars, history, delayed, dropped>>
<1>1. Send /\ Len(socket) < MaxUnread
  BY DEF Begin, Continue
<1>2. PICK last \in IF pos + 1 < MaxLength THEN BOOLEAN ELSE {TRUE} :
        /\ socket' = IF pc = "down"
                       THEN <<>>
                       ELSE Append(socket, [msg |-> msg, pos |-> pos + 1, last |-> last])
        /\ pos' = IF last THEN 0 ELSE pos + 1
        /\ msg' = IF last THEN (msg + 1) % Messages ELSE msg
        /\ idle' = 0
        /\ UNCHANGED <<readerVars, history, delayed, dropped>>
  BY <1>1 DEF Send
<1> DEFINE e == [msg |-> msg, pos |-> pos + 1, last |-> last]
<1>3. last \in BOOLEAN /\ (~ last => pos + 1 < MaxLength)
  BY <1>2
<1>4. e \in Bytes
  BY <1>3, LineAssumption DEF TypeOK, Bytes
<1>5. ASSUME pc # "down"
      PROVE  Current' = Append(Current, e) /\ Heard' = Append(Heard, e)
  <2> HIDE DEF e
  <2>1. socket' = Append(socket, e) /\ UNCHANGED <<frame, logged>>
    BY <1>2, <1>5 DEF e, readerVars, history
  <2>2. Current' = Append(Current, e)
    BY <1>4, <2>1, AppendToConcat DEF TypeOK, Current
  <2>3. logged \in Seq(Bytes) /\ Current \in Seq(Bytes)
    BY BytesShape DEF TypeOK
  <2>4. logged \o Append(Current, e) = Append(logged \o Current, e)
    BY <1>4, <2>3, AppendToConcat
  <2>5. Heard' = Append(Heard, e)
    BY <2>1, <2>2, <2>4 DEF Heard
  <2> QED
    BY <2>2, <2>5
<1> QED
  BY <1>1, <1>2, <1>3, <1>4, <1>5

\* A read moves bytes from the socket to the frame.
LEMMA ReadBytesStep ==
  ASSUME TypeOK, ReadBytes
  PROVE  /\ Current' = Current /\ Heard' = Heard
         /\ frame' \in Seq(Bytes) /\ socket' \in Seq(Bytes)
         /\ Len(frame') = Len(frame) + Taken /\ Len(socket') = Len(socket) - Taken
         /\ Taken \in 1 .. ReadBuf /\ Taken <= Len(socket)
<1>1. Taken \in 1 .. ReadBuf /\ Taken \in 0 .. Len(socket)
  BY ReaderAssumption DEF ReadBytes, TypeOK, Taken
<1>2. frame' = frame \o SubSeq(socket, 1, Taken)
      /\ socket' = SubSeq(socket, Taken + 1, Len(socket)) /\ logged' = logged
  BY DEF ReadBytes, history
<1> HIDE DEF Taken
<1>3. frame \in Seq(Bytes) /\ socket \in Seq(Bytes)
  BY DEF TypeOK
<1>4. /\ SubSeq(socket, 1, Taken) \in Seq(Bytes)
      /\ Len(SubSeq(socket, 1, Taken)) = Taken
      /\ socket' \in Seq(Bytes) /\ Len(socket') = Len(socket) - Taken
      /\ SubSeq(socket, 1, Taken) \o socket' = socket
  BY <1>1, <1>2, <1>3, SplitSeq
<1> DEFINE taken == SubSeq(socket, 1, Taken)
<1> HIDE DEF taken
<1>5. /\ frame' \in Seq(Bytes) /\ Len(frame') = Len(frame) + Taken
      /\ frame' \o socket' = frame \o socket
  <2>1. taken \in Seq(Bytes) /\ Len(taken) = Taken /\ taken \o socket' = socket
    BY <1>4 DEF taken
  <2>2. frame' = frame \o taken
    BY <1>2 DEF taken
  <2>3. frame' \in Seq(Bytes) /\ Len(frame') = Len(frame) + Taken
    BY <1>3, <2>1, <2>2, ConcatProperties
  <2>4. socket' \in Seq(Bytes)
    BY <1>4
  <2>5. (frame \o taken) \o socket' = frame \o (taken \o socket')
    <3>1. \A r, s, t \in Seq(Bytes) : (r \o s) \o t = r \o (s \o t)
      BY ConcatAssociative
    <3> QED
      BY <1>3, <2>1, <2>4, <3>1, Zenon
  <2> QED
    BY <2>1, <2>2, <2>3, <2>5
<1>6. Current' = Current
  BY <1>5 DEF Current
<1>7. Heard' = Heard
  BY <1>2, <1>6 DEF Heard
<1> QED
  BY <1>1, <1>3, <1>4, <1>5, <1>6, <1>7

\* What was read becomes the latest frame that was logged.
LEMMA LogStep ==
  ASSUME TypeOK, Log
  PROVE  Current' = socket /\ Heard' = Current
<1>1. frame' = <<>> /\ socket' = socket /\ logged' = frame
  BY DEF Log
<1>2. <<>> \o socket = socket
  BY ConcatEmptySeq DEF TypeOK
<1> QED
  BY <1>1, <1>2 DEF Current, Heard

\* The bytes that were heard are gone with their connection.
LEMMA ReadErrorStep ==
  ASSUME ReadError
  PROVE  Current' = <<>> /\ Heard' = <<>>
<1>1. frame' = <<>> /\ socket' = <<>> /\ logged' = <<>>
  BY DEF ReadError
<1>2. <<>> \o <<>> = <<>>
  OBVIOUS
<1> QED
  BY <1>1, <1>2 DEF Current, Heard

\* The other steps of the reader, and time, leave every byte where it is.
LEMMA OtherSteps ==
  ASSUME Tick \/ Arm \/ ReadTimeout \/ Reconnect \/ UNCHANGED vars
  PROVE  /\ UNCHANGED <<msg, pos, socket, frame, logged, first>>
         /\ Current' = Current /\ Heard' = Heard
<1>1. UNCHANGED <<msg, pos, socket, frame, logged, first>>
  BY DEF Tick, Arm, ReadTimeout, Reconnect, vars, lineVars, readerVars, history
<1>2. Current' = Current
  BY <1>1 DEF Current
<1> QED
  BY <1>1, <1>2 DEF Heard

LEMMA EmptyWhileDown ==
  ASSUME TypeOK, NothingHeardWhileDown, pc = "down"
  PROVE  socket = <<>> /\ frame = <<>> /\ logged = <<>> /\ Current = <<>>
<1>1. socket \in Seq(Bytes) /\ frame \in Seq(Bytes) /\ logged \in Seq(Bytes)
  BY DEF TypeOK
<1>2. Heard = <<>>
  BY DEF NothingHeardWhileDown
<1>3. logged = <<>> /\ Current = <<>>
  BY <1>1, <1>2, BytesShape, ConcatEqualIffEmpty, EmptySeq DEF Heard
<1> QED
  BY <1>3, BytesShape

LEMMA LastHeard ==
  ASSUME TypeOK, Current # <<>>
  PROVE  /\ Heard # <<>> /\ Heard[Len(Heard)] = Current[Len(Current)]
         /\ Len(Current) \in Nat \ {0}
<1>1. logged \in Seq(Bytes) /\ Current \in Seq(Bytes)
  BY BytesShape DEF TypeOK
<1>2. Len(Current) \in Nat \ {0} /\ Len(logged) \in Nat
  BY <1>1, EmptySeq
<1>3. Len(Heard) = Len(logged) + Len(Current)
  BY BytesShape
<1>4. Heard[Len(logged) + Len(Current)] = Current[Len(Current)]
  BY <1>1, <1>2, ConcatProperties DEF Heard
<1> QED
  BY <1>2, <1>3, <1>4, BytesShape, EmptySeq

-----------------------------------------------------------------------------
(***************************************************************************)
(* Types                                                                   *)
(***************************************************************************)
LEMMA TypeStep ==
  ASSUME TypeOK, [Next]_vars
  PROVE  TypeOK'
<1> USE LineAssumption, ReaderAssumption, BoundsAssumption
<1>1. CASE Begin \/ Continue
  <2>1. PICK last \in BOOLEAN :
          LET e == [msg |-> msg, pos |-> pos + 1, last |-> last] IN
          /\ e \in Bytes
          /\ socket' = IF pc = "down" THEN <<>> ELSE Append(socket, e)
          /\ IF last THEN pos' = 0 /\ msg' = (msg + 1) % Messages
                     ELSE pos' = pos + 1 /\ msg' = msg /\ pos + 1 < MaxLength
          /\ idle' = 0 /\ Len(socket) < MaxUnread
          /\ UNCHANGED <<readerVars, history, delayed, dropped>>
    BY <1>1, SendStep
  <2>2. socket' \in Seq(Bytes) /\ Len(socket') <= MaxUnread
    BY <2>1 DEF TypeOK
  <2>3. msg' \in 0 .. Messages - 1 /\ pos' \in 0 .. MaxLength - 1
    BY <2>1, NextMessage DEF TypeOK
  <2> QED
    BY <2>1, <2>2, <2>3 DEF TypeOK, readerVars, history
<1>2. CASE Tick
  BY <1>2 DEF TypeOK, Tick, lineVars, history
<1>3. CASE Arm
  BY <1>3 DEF TypeOK, Arm, lineVars, history
<1>4. CASE ReadBytes
  <2>1. /\ frame' \in Seq(Bytes) /\ socket' \in Seq(Bytes)
        /\ Len(socket') <= MaxUnread
    BY <1>4, ReadBytesStep DEF TypeOK
  <2>2. /\ pc' \in {"arm", "log"}
        /\ UNCHANGED <<msg, pos, idle, timer, logged, first, delayed, dropped>>
    BY <1>4 DEF ReadBytes, lineVars, history
  <2> QED
    BY <2>1, <2>2 DEF TypeOK
<1>5. CASE ReadTimeout
  BY <1>5 DEF TypeOK, ReadTimeout, lineVars, history
<1>6. CASE Log
  BY <1>6 DEF TypeOK, Log, lineVars
<1>7. CASE ReadError
  <2>1. /\ UNCHANGED <<msg, pos, idle, timer, delayed>>
        /\ pc' = "down" /\ first' = FALSE /\ dropped' = dropped + 1 /\ dropped < MaxDrop
        /\ socket' = <<>> /\ frame' = <<>> /\ logged' = <<>>
    BY <1>7 DEF ReadError, lineVars
  <2>2. socket' \in Seq(Bytes) /\ frame' \in Seq(Bytes) /\ logged' \in Seq(Bytes)
        /\ Len(socket') <= MaxUnread
    BY <2>1, EmptySeq
  <2>3. dropped' \in 0 .. MaxDrop
    BY <2>1 DEF TypeOK
  <2>4. /\ msg' \in 0 .. Messages - 1 /\ pos' \in 0 .. MaxLength - 1
        /\ idle' \in 0 .. Silence /\ timer' \in 0 .. Gap /\ delayed' \in 0 .. MaxDelay
        /\ pc' \in {"arm", "read", "log", "down"} /\ first' \in BOOLEAN
    BY <2>1 DEF TypeOK
  <2> QED
    BY <2>2, <2>3, <2>4 DEF TypeOK
<1>8. CASE Reconnect
  BY <1>8 DEF TypeOK, Reconnect, lineVars, history
<1>9. CASE UNCHANGED vars
  BY <1>9 DEF TypeOK, vars, lineVars, readerVars, history
<1> QED
  BY <1>1, <1>2, <1>3, <1>4, <1>5, <1>6, <1>7, <1>8, <1>9 DEF Next, Read

-----------------------------------------------------------------------------
(***************************************************************************)
(* Nothing is lost                                                         *)
(***************************************************************************)
\* The line, and the bytes of the connection, which are a stretch of it.
Stretch == Chain(Heard) /\ LineGoesOn /\ NothingHeardWhileDown

LEMMA StretchGrows ==
  ASSUME TypeOK, Stretch, Begin \/ Continue
  PROVE  Stretch'
<1>1. PICK last \in BOOLEAN :
        LET e == [msg |-> msg, pos |-> pos + 1, last |-> last] IN
        /\ e \in Bytes
        /\ socket' = IF pc = "down" THEN <<>> ELSE Append(socket, e)
        /\ pc # "down" => Current' = Append(Current, e) /\ Heard' = Append(Heard, e)
        /\ IF last THEN pos' = 0 /\ msg' = (msg + 1) % Messages
                   ELSE pos' = pos + 1 /\ msg' = msg /\ pos + 1 < MaxLength
        /\ UNCHANGED <<readerVars, history>>
  BY SendStep
<1>2. CASE pc = "down"
  <2>1. socket = <<>> /\ frame = <<>> /\ logged = <<>>
    BY <1>2, EmptyWhileDown DEF Stretch
  <2>2. UNCHANGED <<socket, frame, logged, pc>>
    BY <1>1, <1>2, <2>1 DEF readerVars, history
  <2>3. Heard' = Heard /\ Heard = <<>>
    BY <1>2, <2>2 DEF Heard, Current, Stretch, NothingHeardWhileDown
  <2>4. Chain(Heard)'
    BY <2>3 DEF Stretch, Chain
  <2> QED
    BY <2>3, <2>4 DEF Stretch, LineGoesOn, NothingHeardWhileDown
<1>3. CASE pc # "down"
  <2> DEFINE e == [msg |-> msg, pos |-> pos + 1, last |-> last]
  <2>1. e \in Bytes /\ e.msg = msg /\ e.pos = pos + 1 /\ e.last = last
    BY <1>1
  <2>2. Heard' = Append(Heard, e) /\ pc' = pc
    BY <1>1, <1>3 DEF readerVars
  <2> HIDE DEF e
  <2>3. Heard \in Seq(Bytes)
    BY BytesShape
  <2>4. Heard # <<>> => Adjacent(Heard[Len(Heard)], e)
    BY <2>1 DEF Stretch, LineGoesOn, Adjacent
  <2>5. Chain(Append(Heard, e))
    BY <2>1, <2>3, <2>4, ChainGrows DEF Stretch
  <2>6. Chain(Heard)'
    BY <2>2, <2>5 DEF Chain
  <2>7. Heard'[Len(Heard')] = e
    BY <2>1, <2>2, <2>3, AppendProperties
  <2>8. LineGoesOn'
    BY <1>1, <2>1, <2>7 DEF LineGoesOn
  <2> QED
    BY <1>3, <2>2, <2>6, <2>8 DEF Stretch, NothingHeardWhileDown
<1> QED
  BY <1>2, <1>3

LEMMA StretchStep ==
  ASSUME TypeOK, Stretch, [Next]_vars
  PROVE  Stretch'
<1>1. CASE Begin \/ Continue
  BY <1>1, StretchGrows
<1>2. CASE Log
  <2>1. Heard' = Current /\ UNCHANGED <<msg, pos>> /\ pc' = "arm"
    BY <1>2, LogStep DEF Log, lineVars
  <2>2. logged \in Seq(Bytes) /\ Current \in Seq(Bytes) /\ Chain(logged \o Current)
    BY BytesShape DEF TypeOK, Stretch, Heard
  <2>3. Chain(Current)
    BY <2>2, ChainEnd
  <2>4. Chain(Heard)'
    BY <2>1, <2>3 DEF Chain
  <2>5. LineGoesOn'
    BY <2>1, LastHeard DEF Stretch, LineGoesOn
  <2> QED
    BY <2>1, <2>4, <2>5 DEF Stretch, NothingHeardWhileDown
<1>3. CASE ReadError
  <2>1. Heard' = <<>>
    BY <1>3, ReadErrorStep
  <2>2. Chain(Heard)'
    BY <2>1 DEF Chain
  <2> QED
    BY <2>1, <2>2 DEF Stretch, LineGoesOn, NothingHeardWhileDown
<1>4. CASE ReadBytes \/ Tick \/ Arm \/ ReadTimeout \/ Reconnect \/ UNCHANGED vars
  <2>1. Heard' = Heard /\ UNCHANGED <<msg, pos>>
    BY <1>4, ReadBytesStep, OtherSteps DEF ReadBytes, lineVars
  <2>2. pc' = "down" => pc = "down"
    BY <1>4 DEF ReadBytes, Tick, Arm, ReadTimeout, Reconnect, vars, readerVars
  <2>3. Chain(Heard)'
    BY <2>1 DEF Stretch, Chain
  <2> QED
    BY <2>1, <2>2, <2>3 DEF Stretch, LineGoesOn, NothingHeardWhileDown
<1> QED
  BY <1>1, <1>2, <1>3, <1>4 DEF Next, Read

LEMMA PauseStep ==
  ASSUME TypeOK, NoGapInMessage, [Next]_vars
  PROVE  NoGapInMessage'
<1> USE LineAssumption DEF NoGapInMessage
<1>1. CASE Begin \/ Continue
  <2>1. idle' = 0
    BY <1>1, SendStep
  <2> QED
    BY <2>1
<1>2. CASE Tick
  BY <1>2 DEF TypeOK, Tick, lineVars
<1>3. CASE ~ (Begin \/ Continue \/ Tick)
  <2>1. UNCHANGED <<pos, idle>>
    BY <1>3 DEF Next, Read, Arm, ReadBytes, ReadTimeout, Log, ReadError, Reconnect,
                vars, lineVars
  <2> QED
    BY <2>1
<1> QED
  BY <1>1, <1>2, <1>3

-----------------------------------------------------------------------------
(***************************************************************************)
(* The size guard                                                          *)
(***************************************************************************)
LEMMA SizeStep ==
  ASSUME TypeOK, FrameSizes, NothingHeardWhileDown, [Next]_vars
  PROVE  FrameSizes'
<1> USE ReaderAssumption DEF FrameSizes
<1>1. CASE Begin \/ Continue
  <2>1. UNCHANGED <<pc, frame, logged>>
    BY <1>1, SendStep DEF readerVars, history
  <2> QED
    BY <2>1
<1>2. CASE ReadBytes
  <2>1. /\ frame' \in Seq(Bytes) /\ Len(frame') = Len(frame) + Taken
        /\ Taken \in 1 .. ReadBuf
    BY <1>2, ReadBytesStep
  <2>2. Len(frame) \in Nat /\ Len(frame) < MaxFrame
    BY <1>2 DEF TypeOK, ReadBytes
  <2>3. logged' = logged /\ pc' = IF Len(frame') >= MaxFrame THEN "log" ELSE "arm"
    BY <1>2 DEF ReadBytes, Full, history
  <2>4. frame' # <<>> /\ Len(frame') < MaxFrame + ReadBuf
    BY <2>1, <2>2, EmptySeq
  <2>5. Len(frame') \in Nat
    BY <2>1
  <2> HIDE DEF Taken
  <2> QED
    BY <2>3, <2>4, <2>5
<1>3. CASE ReadTimeout
  BY <1>3 DEF TypeOK, ReadTimeout, history
<1>4. CASE Log
  <2>1. Len(frame') = 0 /\ logged' = frame /\ pc' = "arm" /\ pc = "log"
    BY <1>4 DEF Log
  <2> QED
    BY <2>1
<1>5. CASE ReadError
  <2>1. Len(logged') = 0 /\ pc' = "down"
    BY <1>5 DEF ReadError
  <2> QED
    BY <2>1
<1>6. CASE Reconnect
  <2>1. pc = "down" /\ pc' = "arm" /\ UNCHANGED <<frame, logged>>
    BY <1>6 DEF Reconnect, history
  <2>2. Len(frame) = 0
    BY <2>1, EmptyWhileDown
  <2> QED
    BY <2>1, <2>2
<1>7. CASE Tick \/ Arm \/ UNCHANGED vars
  BY <1>7 DEF Tick, Arm, history, vars, readerVars
<1> QED
  BY <1>1, <1>2, <1>3, <1>4, <1>5, <1>6, <1>7 DEF Next, Read

-----------------------------------------------------------------------------
(***************************************************************************)
(* A reader that was never late                                            *)
(***************************************************************************)
\* A message begins only when everything heard before is logged.
LEMMA NothingLeftInSilence ==
  ASSUME TypeOK, NothingHeardWhileDown, InStep, idle = Silence
  PROVE  Current = <<>> /\ pc # "log"
<1> USE LineAssumption, ReaderAssumption
<1>1. socket = <<>>
  BY DEF InStep
<1>2. pc # "log"
  BY DEF InStep
<1>3. CASE pc = "down"
  BY <1>2, <1>3, EmptyWhileDown
<1>4. CASE pc = "arm"
  <2>1. frame = <<>>
    BY <1>4 DEF InStep
  <2> QED
    BY <1>1, <1>2, <2>1, BytesShape
<1>5. CASE pc = "read"
  <2>1. frame = <<>>
    BY <1>1, <1>5 DEF InStep, TypeOK
  <2> QED
    BY <1>1, <1>2, <2>1, BytesShape
<1> QED
  BY <1>2, <1>3, <1>4, <1>5 DEF TypeOK

LEMMA InStepSend ==
  ASSUME TypeOK, NothingHeardWhileDown, NoGapInMessage, InStep, Begin \/ Continue
  PROVE  InStep'
<1> USE LineAssumption, ReaderAssumption
<1>1. idle' = 0 /\ UNCHANGED <<pc, timer, frame>>
  BY SendStep DEF readerVars
<1>2. pc # "log"
  BY NothingLeftInSilence DEF Begin, Continue, InStep
<1>3. ASSUME pc = "read", frame # <<>>
      PROVE  timer' > 0 /\ socket' # <<>>
  <2>1. \E e \in Bytes : socket' = Append(socket, e)
    BY <1>3, SendStep
  <2>2. socket' # <<>>
    BY <2>1 DEF TypeOK
  <2>3. Current # <<>>
    BY <1>3, BytesShape
  <2>4. pos # 0
    BY <2>3, NothingLeftInSilence DEF Begin, Continue
  <2>5. idle <= Pause /\ Pause < Gap
    BY <2>4 DEF NoGapInMessage
  <2>6. IF socket = <<>> THEN timer + idle = Gap ELSE timer > 0
    BY <1>3 DEF InStep
  <2>7. timer > 0
    BY <2>5, <2>6 DEF TypeOK
  <2> QED
    BY <1>1, <2>2, <2>7
<1> QED
  BY <1>1, <1>2, <1>3 DEF InStep

\* What is left to read of a message is shorter than the size guard.
LEMMA GuardIsFar ==
  ASSUME TypeOK, OneMessage
  PROVE  Len(Current) < MaxFrame
<1> USE LineAssumption
<1>1. Current \in Seq(Bytes)
  BY BytesShape
<1>2. CASE Current = <<>>
  <2>1. Len(Current) = 0
    BY <1>2, EmptySeq
  <2> QED
    BY <2>1, ReaderAssumption
<1>3. CASE Current # <<>>
  <2>1. Len(Current) \in Nat \ {0}
    BY <1>1, <1>3, EmptySeq
  <2>2. Current[1] \in Bytes /\ Current[Len(Current)] \in Bytes
    BY <1>1, <2>1
  <2>3. Current[Len(Current)].pos = Current[1].pos + Len(Current) - 1
    BY <2>1 DEF OneMessage
  <2>4. Current[1].pos \in 1 .. MaxLength /\ Current[Len(Current)].pos \in 1 .. MaxLength
    BY <2>2 DEF Bytes
  <2> QED
    BY <2>1, <2>3, <2>4, ReaderAssumption
<1> QED
  BY <1>2, <1>3

LEMMA InStepStep ==
  ASSUME TypeOK, NothingHeardWhileDown, NoGapInMessage, OneMessage, InStep,
         delayed' = 0, [Next]_vars
  PROVE  InStep'
<1> USE LineAssumption, ReaderAssumption
<1>1. CASE Begin \/ Continue
  BY <1>1, InStepSend
<1>2. CASE Tick
  <2>1. ~ Ready
    BY <1>2 DEF Tick, TypeOK
  <2>2. pc \in {"read", "down"} /\ (pc = "read" => socket = <<>> /\ timer # 0)
    BY <2>1 DEF Ready, TypeOK
  <2>3. /\ UNCHANGED <<pc, socket, frame>>
        /\ timer' = IF timer = 0 THEN 0 ELSE timer - 1
        /\ idle' = IF idle = Silence THEN Silence ELSE idle + 1
    BY <1>2 DEF Tick
  <2>4. socket = <<>>
    BY <2>2, EmptyWhileDown
  <2> QED
    BY <2>2, <2>3, <2>4 DEF InStep, TypeOK
<1>3. CASE Arm
  BY <1>3 DEF InStep, Arm, TypeOK
<1>4. CASE ReadBytes
  <2>1. UNCHANGED <<idle, pos>> /\ socket # <<>>
    BY <1>4 DEF ReadBytes, lineVars
  <2>2. idle = 0
    BY <2>1 DEF InStep
  <2>3. Len(frame') <= Len(Current) /\ Len(frame') \in Nat
    BY <1>4, ReadBytesStep, BytesShape DEF TypeOK
  <2>4. ~ Full(frame')
    BY <2>3, GuardIsFar, BytesShape DEF Full
  <2>5. pc' = "arm"
    BY <1>4, <2>4 DEF ReadBytes
  <2> QED
    BY <2>1, <2>2, <2>5 DEF InStep
<1>5. CASE ReadTimeout
  <2>1. /\ pc = "read" /\ timer = 0 /\ UNCHANGED <<pos, idle, socket, timer, frame>>
        /\ pc' = IF frame = <<>> THEN "arm" ELSE "log"
    BY <1>5 DEF ReadTimeout, lineVars
  <2>2. frame # <<>> => socket = <<>> /\ idle = Gap
    BY <2>1 DEF InStep, TypeOK
  <2>3. frame # <<>> => pos = 0
    BY <2>2 DEF NoGapInMessage
  <2> QED
    BY <2>1, <2>2, <2>3 DEF InStep
<1>6. CASE Log
  BY <1>6 DEF InStep, Log
<1>7. CASE ReadError
  BY <1>7 DEF InStep, ReadError
<1>8. CASE Reconnect
  <2>1. socket' = <<>> /\ frame' = <<>> /\ pc' = "arm"
    BY <1>8, EmptyWhileDown DEF Reconnect
  <2> QED
    BY <2>1 DEF InStep
<1>9. CASE UNCHANGED vars
  BY <1>9 DEF InStep, vars, lineVars, readerVars
<1> QED
  BY <1>1, <1>2, <1>3, <1>4, <1>5, <1>6, <1>7, <1>8, <1>9 DEF Next, Read

LEMMA OneMessageSend ==
  ASSUME TypeOK, Stretch, InStep, OneMessage, Begin \/ Continue
  PROVE  OneMessage'
<1>1. PICK last \in BOOLEAN :
        LET e == [msg |-> msg, pos |-> pos + 1, last |-> last] IN
        /\ e \in Bytes
        /\ socket' = IF pc = "down" THEN <<>> ELSE Append(socket, e)
        /\ pc # "down" => Current' = Append(Current, e) /\ Heard' = Append(Heard, e)
        /\ UNCHANGED <<readerVars, history>>
  BY SendStep
<1>2. CASE pc = "down"
  <2>1. socket = <<>> /\ frame = <<>> /\ logged = <<>> /\ Current = <<>>
    BY <1>2, EmptyWhileDown DEF Stretch
  <2>2. Current' = <<>> /\ logged' = <<>>
    BY <1>1, <1>2, <2>1 DEF Current, readerVars, history
  <2> QED
    BY <2>2 DEF OneMessage
<1>3. CASE pc # "down"
  <2> DEFINE e == [msg |-> msg, pos |-> pos + 1, last |-> last]
  <2>1. e \in Bytes /\ e.pos = pos + 1
    BY <1>1
  <2>2. Current' = Append(Current, e) /\ logged' = logged
    BY <1>1, <1>3 DEF history
  <2> HIDE DEF e
  <2>3. Current \in Seq(Bytes)
    BY BytesShape
  <2>4. CASE Current = <<>>
    <3>1. Len(Current') = 1 /\ Current'[1] = e /\ Current' # <<>>
      BY <2>2, <2>4, <2>1
    <3>2. logged # <<>> => pos = 0
      BY <2>4 DEF OneMessage
    <3>3. e.pos \in Nat
      BY <2>1 DEF TypeOK
    <3> QED
      BY <2>1, <2>2, <3>1, <3>2, <3>3 DEF OneMessage
  <2>5. CASE Current # <<>>
    <3> DEFINE n == Len(Current)
               b == Current[n]
    <3>1. n \in Nat \ {0} /\ Heard # <<>> /\ Heard[Len(Heard)] = b
      BY <2>5, LastHeard
    <3>2. pos # 0
      BY <2>5, NothingLeftInSilence DEF Begin, Continue, Stretch
    <3>3. ~ b.last /\ b.pos = pos
      BY <3>1, <3>2 DEF Stretch, LineGoesOn
    <3>4. Len(Current') = n + 1 /\ Current'[n + 1] = e
          /\ \A i \in 1 .. n : Current'[i] = Current[i]
      BY <2>1, <2>2, <2>3, AppendProperties
    <3>5. pos = Current[1].pos + n - 1
      BY <3>1, <3>3 DEF OneMessage
    <3>6. Current[1] \in Bytes
      BY <2>3, <3>1
    <3>7. Current[1].pos \in Nat
      BY <3>6 DEF Bytes
    <3>8. \A i \in 1 .. n : Current[i].pos = Current[1].pos + i - 1
                            /\ (Current[i].last => i = n)
      BY DEF OneMessage
    <3> HIDE DEF n
    <3>9. ASSUME NEW i \in 1 .. n + 1
          PROVE  /\ Current'[i].pos = Current'[1].pos + i - 1
                 /\ Current'[i].last => i = n + 1
      <4>1. Current'[1] = Current[1]
        BY <3>1, <3>4
      <4>2. CASE i = n + 1
        BY <2>1, <3>1, <3>4, <3>5, <3>7, <4>1, <4>2
      <4>3. CASE i # n + 1
        <5>1. i \in 1 .. n /\ Current'[i] = Current[i]
          BY <3>1, <3>4, <4>3
        <5>2. ~ Current[i].last
          BY <3>3, <3>8, <5>1
        <5> QED
          BY <3>8, <4>1, <5>1, <5>2
      <4> QED
        BY <4>2, <4>3
    <3>10. Current'[1] = Current[1] /\ Current' # <<>>
      BY <3>1, <3>4
    <3>11. logged # <<>> => Current[1].pos = 1
      BY <2>5 DEF OneMessage
    <3> QED
      BY <2>2, <3>4, <3>9, <3>10, <3>11 DEF OneMessage
  <2> QED
    BY <2>4, <2>5
<1> QED
  BY <1>2, <1>3

\* A frame is logged when the whole message was read and nothing else.
LEMMA LogIsPunctual ==
  ASSUME TypeOK, Stretch, InStep, OneMessage, Log
  PROVE  OneMessage' /\ WholeFrames' /\ logged' = Current
<1>1. socket = <<>> /\ pos = 0
  BY DEF InStep, Log
<1>2. Current = frame
  BY <1>1, ConcatEmptySeq DEF Current, TypeOK
<1>3. logged' = Current /\ first' = (logged = <<>>) /\ pos' = 0 /\ Current' = <<>>
  BY <1>1, <1>2, LogStep DEF Log, lineVars
<1>4. OneMessage'
  BY <1>3 DEF OneMessage
<1>5. ASSUME Current # <<>>
      PROVE  /\ \A i \in DOMAIN Current : Current[i].last <=> i = Len(Current)
             /\ logged = <<>> \/ Current[1].pos = 1
  <2>1. Current \in Seq(Bytes) /\ Len(Current) \in Nat \ {0}
    BY <1>5, BytesShape, LastHeard
  <2>2. Current[Len(Current)] \in Bytes
    BY <2>1
  <2>3. Current[Len(Current)].last
    <3>1. Current[Len(Current)].pos # 0
      BY <2>2 DEF Bytes
    <3> QED
      BY <1>1, <1>5, <3>1, LastHeard DEF Stretch, LineGoesOn
  <2>4. \A i \in 1 .. Len(Current) : Current[i].last => i = Len(Current)
    BY DEF OneMessage
  <2>5. DOMAIN Current = 1 .. Len(Current)
    BY <2>1
  <2>6. logged = <<>> \/ Current[1].pos = 1
    BY <1>5 DEF OneMessage
  <2> QED
    BY <2>3, <2>4, <2>5, <2>6
<1>6. WholeFrames'
  BY <1>3, <1>5 DEF WholeFrames
<1> QED
  BY <1>3, <1>4, <1>6

LEMMA OneMessageStep ==
  ASSUME TypeOK, Stretch, InStep, OneMessage, [Next]_vars
  PROVE  OneMessage'
<1>1. CASE Begin \/ Continue
  BY <1>1, OneMessageSend
<1>2. CASE Log
  BY <1>2, LogIsPunctual
<1>3. CASE ReadError
  <2>1. Current' = <<>> /\ logged' = <<>>
    BY <1>3, ReadErrorStep DEF ReadError
  <2> QED
    BY <2>1 DEF OneMessage
<1>4. CASE ReadBytes \/ Tick \/ Arm \/ ReadTimeout \/ Reconnect \/ UNCHANGED vars
  <2>1. Current' = Current /\ UNCHANGED <<pos, logged>>
    BY <1>4, ReadBytesStep, OtherSteps DEF ReadBytes, lineVars, history
  <2> QED
    BY <2>1 DEF OneMessage
<1> QED
  BY <1>1, <1>2, <1>3, <1>4 DEF Next, Read

LEMMA WholeStep ==
  ASSUME TypeOK, Stretch, InStep, OneMessage, WholeFrames, delayed = 0, [Next]_vars
  PROVE  WholeFrames'
<1>1. CASE Log
  BY <1>1, LogIsPunctual
<1>2. CASE ReadError
  BY <1>2 DEF ReadError, WholeFrames
<1>3. CASE ~ (Log \/ ReadError)
  <2>1. UNCHANGED <<logged, first>>
    <3>1. CASE Begin \/ Continue
      BY <3>1, SendStep DEF history
    <3>2. CASE ReadBytes \/ Tick \/ Arm \/ ReadTimeout \/ Reconnect \/ UNCHANGED vars
      BY <3>2, OtherSteps DEF ReadBytes, history
    <3> QED
      BY <1>3, <3>1, <3>2 DEF Next, Read
  <2> QED
    BY <2>1 DEF WholeFrames
<1> QED
  BY <1>1, <1>2, <1>3

\* The reader does not become punctual again.
LEMMA LateStaysLate ==
  ASSUME TypeOK, [Next]_vars, delayed' = 0
  PROVE  delayed = 0
<1>1. CASE Tick
  BY <1>1 DEF Tick, TypeOK
<1>2. CASE Begin \/ Continue
  <2>1. delayed' = delayed
    BY <1>2, SendStep
  <2> QED
    BY <2>1
<1>3. CASE ~ (Tick \/ Begin \/ Continue)
  BY <1>3 DEF Next, Read, Arm, ReadBytes, ReadTimeout, Log, ReadError, Reconnect, vars
<1> QED
  BY <1>1, <1>2, <1>3

-----------------------------------------------------------------------------
(***************************************************************************)
(* Invariance                                                              *)
(***************************************************************************)
LEMMA InitInv == Init => IInv
<1> SUFFICES ASSUME Init
             PROVE  IInv
  OBVIOUS
<1> USE LineAssumption, ReaderAssumption, BoundsAssumption
<1>1. /\ msg = 0 /\ pos = 0 /\ idle = Silence /\ pc = "arm" /\ timer = 0
      /\ first = FALSE /\ delayed = 0 /\ dropped = 0
      /\ socket = <<>> /\ frame = <<>> /\ logged = <<>>
  BY DEF Init
<1>2. socket \in Seq(Bytes) /\ frame \in Seq(Bytes) /\ logged \in Seq(Bytes)
      /\ Len(socket) = 0 /\ Len(frame) = 0 /\ Len(logged) = 0
  BY <1>1, EmptySeq
<1>3. TypeOK
  <2>1. /\ msg \in 0 .. Messages - 1 /\ pos \in 0 .. MaxLength - 1
        /\ idle \in 0 .. Silence /\ timer \in 0 .. Gap
        /\ delayed \in 0 .. MaxDelay /\ dropped \in 0 .. MaxDrop
    BY <1>1
  <2>2. pc \in {"arm", "read", "log", "down"} /\ first \in BOOLEAN
    BY <1>1
  <2>3. Len(socket) <= MaxUnread
    BY <1>2
  <2> QED
    BY <1>2, <2>1, <2>2, <2>3 DEF TypeOK
<1>4. <<>> \o <<>> = <<>>
  OBVIOUS
<1>5. Current = <<>> /\ Heard = <<>>
  BY <1>1, <1>4 DEF Current, Heard
<1>6. Chain(Heard) /\ LineGoesOn /\ NothingHeardWhileDown /\ NoGapInMessage
  BY <1>1, <1>5 DEF Chain, LineGoesOn, NothingHeardWhileDown, NoGapInMessage
<1>7. FrameSizes
  BY <1>1, <1>2 DEF FrameSizes
<1>8. InStep /\ OneMessage /\ WholeFrames
  BY <1>1, <1>5 DEF InStep, OneMessage, WholeFrames
<1> QED
  BY <1>3, <1>6, <1>7, <1>8 DEF IInv, Punctual

LEMMA InvStep == IInv /\ [Next]_vars => IInv'
<1> SUFFICES ASSUME IInv, [Next]_vars
             PROVE  IInv'
  OBVIOUS
<1>1. TypeOK /\ Stretch /\ NoGapInMessage /\ FrameSizes /\ Punctual
  BY DEF IInv, Stretch
<1>2. TypeOK'
  BY <1>1, TypeStep
<1>3. Stretch'
  BY <1>1, StretchStep
<1>4. NoGapInMessage' /\ FrameSizes'
  BY <1>1, PauseStep, SizeStep DEF Stretch
<1>5. ASSUME delayed' = 0
      PROVE  InStep' /\ OneMessage' /\ WholeFrames'
  <2>1. delayed = 0
    BY <1>1, <1>5, LateStaysLate
  <2>2. InStep /\ OneMessage /\ WholeFrames
    BY <1>1, <2>1 DEF Punctual
  <2> QED
    BY <1>1, <1>5, <2>1, <2>2, InStepStep, OneMessageStep, WholeStep DEF Stretch
<1> QED
  BY <1>2, <1>3, <1>4, <1>5 DEF IInv, Stretch, Punctual

LEMMA Invariance == Spec => []IInv
<1> QED
  BY InitInv, InvStep, PTL DEF Spec

-----------------------------------------------------------------------------
(***************************************************************************)
(* Theorems                                                                *)
(***************************************************************************)
\* The line, the socket and the loop of streamFrames (listener.go:77-110) keep
\* to their types: no more unread bytes than the bound, the timer within the
\* idle gap.
THEOREM TypeCorrect == Spec => []TypeOK
<1>1. IInv => TypeOK
  BY DEF IInv
<1> QED
  BY <1>1, Invariance, PTL

\* Whatever the line, the read buffer and the delays of the reader, no byte of
\* a connection is lost, doubled or moved between conn.Read and logFrame, and
\* no frame joins the bytes of two connections (listener.go:77-110).
THEOREM NothingLostHolds == Spec => []NothingLost
<1>1. IInv => NothingLost
  BY BytesShape DEF IInv, NothingLost, Chain
<1> QED
  BY <1>1, Invariance, PTL

\* The size guard bounds a frame by less than MaxFrame and one read together
\* (listener.go:88-96), for every MaxFrame and ReadBuf, however late the reader
\* is and however much it finds in the socket.
THEOREM FrameBoundedHolds == Spec => []FrameBounded
<1>1. IInv => FrameBounded
  BY DEF IInv, FrameSizes, FrameBounded
<1> QED
  BY <1>1, Invariance, PTL

\* With an idle gap longer than the pauses within a message and shorter than
\* the silence after it, a reader that is never late logs exactly the messages
\* of the line, the first one of a connection perhaps without its beginning
\* (listener.go:77-110): the deadline that each read sets anew does it.
THEOREM WholeFramesHold == Spec => []WholeFrames
<1>1. IInv /\ ~ WholeFrames => FALSE
  BY DEF IInv, Punctual, WholeFrames
<1>2. IInv => WholeFrames
  BY <1>1
<1> QED
  BY <1>2, Invariance, PTL
===============================================================================
