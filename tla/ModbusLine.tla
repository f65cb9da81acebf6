------------------------------- MODULE ModbusLine -------------------------------
(***************************************************************************)
(* From the registers of the instruments on one RS485 line to the readings *)
(* in a database, through the bytes of the frames: a master polls, the     *)
(* agent listens, and logFrame (moxa-nport/listener.go) gives what it      *)
(* decodes to the writer.                                                  *)
(*                                                                         *)
(* The master, the instruments and the database are external.  The reader  *)
(* may hear two messages as one frame (see Framing), and a disturbance may *)
(* flip bits of a message, within a burst no longer than the CRC; the two  *)
(* together are beyond what a CRC can tell and are left out.  Instruments  *)
(* compute the CRC by the division of polynomials that defines it, not by  *)
(* the shift register of the code.                                         *)
(***************************************************************************)
EXTENDS FrameParser, LineProtocol, FiniteSets

CONSTANTS
  Sections,     \* np.Slaves: <<[address, name, registers], ...>>, a register is
                \* [register, name, type, count]
  Polls,        \* what the master asks: [slave, function, start, count]
  Held,         \* slave -> register -> the numbers the register may hold
  Measurement,  \* of the destination
  Ports         \* names the NPort may have

ReadsRegisters(p) == p.function \in {3, 4}
ReadsBits(p) == p.function \in {1, 2}
Asked(p) == p.start .. p.start + p.count - 1

\* The bytes that hold the bits asked for.
BitBytes(p) == (p.count + ByteBits - 1) \div ByteBits

\* The length of an answer is written in a byte.
ASSUME PollsAssumption ==
  \A p \in Polls :
    /\ p.slave \in 1 .. Base - 1 /\ p.function \in 1 .. Power[ByteBits - 1] - 1
    /\ p.start \in Nat /\ p.count \in 1 .. WordBase - 1
    /\ ReadsRegisters(p) => 2 * p.count < Base
    /\ ReadsBits(p) => BitBytes(p) < Base

ASSUME HeldAssumption ==
  \A p \in Polls : ReadsRegisters(p) =>
    \A r \in Asked(p) : \A v \in Held[p.slave][r] : v \in Int

ASSUME SectionsAssumption ==
  /\ DOMAIN Sections \subseteq Nat
  /\ \A i \in DOMAIN Sections : \A reg \in ToSet(Sections[i].registers) : reg.register \in Int

VARIABLES
  polled,   \* the poll the master waits for an answer to
  wire,     \* messages sent and not heard yet
  heard     \* the latest frame, what became of it, and the message it was

vars == <<polled, wire, heard>>

Idle == [slave |-> 0, function |-> 0, start |-> 0, count |-> 0]
Silence == <<>>

Init ==
  /\ polled = Idle
  /\ wire = <<>>
  /\ heard = Silence

-----------------------------------------------------------------------------
(***************************************************************************)
(* The CRC of Modbus: the first bits of the message are inverted, as many  *)
(* zeros appended as the CRC has bits, and the whole is divided by the     *)
(* polynomial.  A polynomial is the set of the exponents it has; the       *)
(* coefficients of the remainder come in the order of sending.             *)
(***************************************************************************)
\* Bit k of the bytes in the order they are sent, the lowest of a byte first.
Bit(bytes, k) ==
  k < ByteBits * Len(bytes) /\ k % ByteBits \in Bits(bytes[k \div ByteBits + 1])

Dividend(bytes, k) == k < Width <=> ~ Bit(bytes, k)

Mirrored(word) == {Width - 1 - i : i \in word}

Generator == {Width} \cup Mirrored(Polynomial)

BringDown(rest, bit) ==
  LET next == {e + 1 : e \in rest} \cup (IF bit THEN {0} ELSE {})
  IN IF Width \in next THEN Xor(next, Generator) ELSE next

\* What is left after each bit of the dividend.
Division(bytes) ==
  LET rest[k \in 0 .. ByteBits * Len(bytes) + Width] ==
        IF k = 0 THEN {} ELSE BringDown(rest[k - 1], Dividend(bytes, k - 1))
  IN rest

Remainder(bytes) == Division(bytes)[ByteBits * Len(bytes) + Width]

\* The byte with these bits.
ByteOf(s) == CHOOSE v \in Byte : Bits(v) = s

WithCRC(bytes) ==
  LET crc == Mirrored(Remainder(bytes))
  IN bytes \o <<ByteOf(crc \cap BytePlaces), ByteOf({i \in BytePlaces : i + ByteBits \in crc})>>

-----------------------------------------------------------------------------
(***************************************************************************)
(* Messages                                                                *)
(***************************************************************************)
\* Two bytes, the high one first; negative numbers in two's complement.
WordBytes(v) == LET u == v % WordBase IN <<u \div Base, u % Base>>

\* registers is what the message says of the registers of its slave.
Message(slave, bytes, registers) ==
  [slave |-> slave, bytes |-> WithCRC(bytes), registers |-> registers]

NoRegisters == [r \in {} |-> 0]

Query(p) ==
  Message(p.slave, <<p.slave, p.function>> \o WordBytes(p.start) \o WordBytes(p.count),
          NoRegisters)

\* What the registers asked for may hold at a moment.
Contents(p) ==
  {values \in [Asked(p) -> UNION {Held[p.slave][r] : r \in Asked(p)}] :
     \A r \in Asked(p) : values[r] \in Held[p.slave][r]}

Response(p, values) ==
  Message(p.slave,
          <<p.slave, p.function, 2 * p.count>>
            \o [k \in 1 .. 2 * p.count |->
                 WordBytes(values[p.start + (k - 1) \div 2])[2 - (k % 2)]],
          values)

\* Coils and discrete inputs are bits, ByteBits of them in a byte.
BitsResponse(p) ==
  Message(p.slave, <<p.slave, p.function, BitBytes(p)>> \o [k \in 1 .. BitBytes(p) |-> 1],
          NoRegisters)

\* The slave has no such register, or is busy.
ExceptionResponse(p, code) ==
  Message(p.slave, <<p.slave, p.function + Power[ByteBits - 1], code>>, NoRegisters)

-----------------------------------------------------------------------------
(***************************************************************************)
(* The master and the instruments                                          *)
(***************************************************************************)
Send(m) ==
  /\ Len(wire) < 2
  /\ wire' = Append(wire, m)
  /\ heard' = Silence

\* The master does not wait forever for an answer.
Poll(p) == Send(Query(p)) /\ polled' = p

Answer ==
  /\ ReadsRegisters(polled)
  /\ \E values \in Contents(polled) : Send(Response(polled, values))
  /\ polled' = Idle

AnswerBits ==
  /\ ReadsBits(polled)
  /\ Send(BitsResponse(polled))
  /\ polled' = Idle

Exception ==
  /\ polled # Idle
  /\ \E code \in {2, 6} : Send(ExceptionResponse(polled, code))
  /\ polled' = Idle

-----------------------------------------------------------------------------
(***************************************************************************)
(* The agent                                                               *)
(***************************************************************************)
\* logFrame and the test of the DustIQ handler; a frame that decodes to nothing
\* is not recorded, and what is recorded is posted in the end.  SkipInvalidCRC
\* silences only frames that have no effect here anyway.
Logged(port, frame, intact, message) ==
  LET summary == summarizeFrame(frame)
      decoded == RegisterValues(Sections, frame)
  IN [intact |-> intact,
      message |-> message,
      port |-> port,
      detected |-> IF summary.crcValid THEN {summary.slaveID} ELSE {},
      single |-> SingleRegister(frame),
      values |-> decoded.values,
      stored |-> {Fields(line) : line \in
                    buildLineProtocol(Measurement, port, summary.slaveID,
                                      decoded.slaveName, decoded.values)}]

\* One message is one frame.
Hear ==
  /\ Len(wire) = 1
  /\ \E port \in Ports : heard' = Logged(port, wire[1].bytes, TRUE, wire[1])
  /\ wire' = <<>>
  /\ UNCHANGED polled

\* A late reader takes two messages for one frame.
HearGlued ==
  /\ Len(wire) = 2
  /\ \E port \in Ports : heard' = Logged(port, wire[1].bytes \o wire[2].bytes, FALSE, wire[1])
  /\ wire' = <<>>
  /\ UNCHANGED polled

\* A burst flips the bits of pattern, counted from bit first of the frame on.
Flipped(frame, first, pattern) ==
  [b \in DOMAIN frame |->
     ByteOf(Xor(Bits(frame[b]),
                {i \in BytePlaces : (b - 1) * ByteBits + i - first \in pattern}))]

\* One name is enough for the frames that are never written.
SomePort == CHOOSE port \in Ports : TRUE

\* The first bit of a burst is flipped, the others within the width may be.
HearDamaged ==
  /\ Len(wire) = 1
  /\ \E first \in 0 .. ByteBits * Len(wire[1].bytes) - 1, pattern \in SUBSET Places :
       /\ 0 \in pattern
       /\ heard' = Logged(SomePort, Flipped(wire[1].bytes, first, pattern), FALSE, wire[1])
  /\ wire' = <<>>
  /\ UNCHANGED polled

Next ==
  \/ \E p \in Polls : Poll(p)
  \/ Answer \/ AnswerBits \/ Exception
  \/ Hear \/ HearGlued \/ HearDamaged

Spec == Init /\ [][Next]_vars

-----------------------------------------------------------------------------
(***************************************************************************)
(* Properties                                                              *)
(***************************************************************************)
TypeOK ==
  /\ polled \in Polls \cup {Idle}
  /\ Len(wire) <= 2
  /\ \A i \in DOMAIN wire : \A b \in DOMAIN wire[i].bytes : wire[i].bytes[b] \in Byte
  /\ heard # Silence =>
       \A v \in heard.values :
         v.value \in -(WordBase \div 2) .. WordBase - 1

-----------------------------------------------------------------------------
\* What the last four properties need of the configuration and of the polls.

\* Every slave has one section.
UniqueSections ==
  \A i, j \in DOMAIN Sections : Sections[i].address = Sections[j].address => i = j

\* Registers are asked for from number 0 on; the agent takes the first one it
\* hears for number 0.
PollsFromZero == \A p \in Polls : ReadsRegisters(p) => p.start = 0

\* The agent takes bits that come in an even number of bytes for registers.
OddBitBytes == \A p \in Polls : ReadsBits(p) => BitBytes(p) % 2 = 1

\* The configuration says of every register whether it is signed.
OfType(type) ==
  IF type = "uint16" THEN 0 .. WordBase - 1 ELSE -(WordBase \div 2) .. WordBase \div 2 - 1

TypesFit ==
  \A p \in Polls, i \in DOMAIN Sections :
    ReadsRegisters(p) /\ Sections[i].address = p.slave =>
      \A reg \in ToSet(Sections[i].registers) :
        reg.register \in Asked(p) => Held[p.slave][reg.register] \subseteq OfType(reg.type)

\* The CRC check passes exactly the undamaged frames of one message: neither a
\* burst of errors nor a second message in the same frame goes unnoticed, and
\* the collector learns the address of the message and no other.
OnlyIntactFrames ==
  heard # Silence =>
    heard.detected = IF heard.intact THEN {heard.message.slave} ELSE {}

\* What the configuration says of a register of the message.
Named(m) ==
  {r \in UNION {ToSet(s.registers) : s \in {s \in ToSet(Sections) : s.address = m.slave}} :
     r.register \in DOMAIN m.registers /\ r.count \in {0, 1}}

Readings(m) ==
  {[register |-> r.register, name |-> r.name, value |-> m.registers[r.register]] :
     r \in Named(m)}

\* registers.go:15: the values are those of the slave's known registers.  Every
\* register an answer carries is decoded to the number it held, under its own
\* name, and nothing is decoded from anything else.
KnownRegistersDecoded ==
  heard # Silence =>
    heard.values = IF heard.intact THEN Readings(heard.message) ELSE {}

\* The DustIQ handler is given every answer of one register, and no poll,
\* exception, longer answer or damaged frame.
SinglesAreAnswers ==
  heard # Silence =>
    (heard.single <=> heard.intact /\ Cardinality(DOMAIN heard.message.registers) = 1)

\* The database reads back what the slave answered: every named reading under
\* the names of the configuration, whatever characters they are made of.
StoredAsAnswered ==
  heard # Silence =>
    heard.stored =
      {Meant(Measurement, heard.port, heard.message.slave, s.name, v) :
         s \in {s \in ToSet(Sections) : s.address = heard.message.slave},
         v \in {v \in heard.values : v.name # <<>>}}
=================================================================================
