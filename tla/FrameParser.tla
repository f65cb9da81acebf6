------------------------------ MODULE FrameParser ------------------------------
(***************************************************************************)
(* What the agent reads out of the bytes of one frame: summarizeFrame and  *)
(* modbusCRC16 (moxa-nport/frame.go), the data logFrame cuts out           *)
(* (listener.go), decodeKnownRegisters (registers.go) and the test of the  *)
(* DustIQ handler for the frame of a single register (dustiq.go).          *)
(*                                                                         *)
(* Bytes are numbers of ByteBits bits; a CRC of twice as many is the set of *)
(* the places of its bits that are set, the lowest place being 0.          *)
(***************************************************************************)
EXTENDS Integers, Sequences, SequencesExt

CONSTANTS
  ByteBits,    \* bits of a byte, 8 in the code
  Polynomial   \* what is fed back into the CRC, 0xA001 in the code: {0, 13, 15}

Width == 2 * ByteBits
Places == 0 .. Width - 1
BytePlaces == 0 .. ByteBits - 1

\* A byte has room for the codes of functions and exceptions.
ASSUME ByteBitsAssumption == ByteBits \in Nat /\ ByteBits >= 3
ASSUME PolynomialAssumption == Polynomial \subseteq Places /\ Width - 1 \in Polynomial

Power[n \in 0 .. ByteBits] == IF n = 0 THEN 1 ELSE 2 * Power[n - 1]

Base == Power[ByteBits]
WordBase == Base * Base
Byte == 0 .. Base - 1

Bits(v) == {i \in BytePlaces : (v \div Power[i]) % 2 = 1}

\* The operator ^ of the code.
Xor(s, t) == (s \ t) \cup (t \ s)

-----------------------------------------------------------------------------
\* One step to the right; the bit that falls out is fed back.
Shifted(crc) ==
  LET right == {i - 1 : i \in crc \ {0}}
  IN IF 0 \in crc THEN Xor(right, Polynomial) ELSE right

\* As many steps as a byte has bits.
Shifts(crc) ==
  LET after[i \in 0 .. ByteBits] == IF i = 0 THEN crc ELSE Shifted(after[i - 1])
  IN after

AfterByte(crc, v) == Shifts(Xor(crc, Bits(v)))[ByteBits]

\* The CRC after each of the bytes; it starts with all bits set.
Registers(b) ==
  LET crc[n \in 0 .. Len(b)] == IF n = 0 THEN Places ELSE AfterByte(crc[n - 1], b[n])
  IN crc

modbusCRC16(b) == Registers(b)[Len(b)]

\* The last two bytes of a frame, the low one first.
CRCSeen(frame) ==
  Bits(frame[Len(frame) - 1]) \cup {i + ByteBits : i \in Bits(frame[Len(frame)])}

-----------------------------------------------------------------------------
\* Pointers that are nil: no CRC, no byte count.
NoCount == -1

\* Mutant: only one byte of the CRC is compared.
summarizeFrameByLowByte(frame) ==
  IF Len(frame) < 4
    THEN [slaveID |-> 0, crcValid |-> FALSE, byteCount |-> NoCount]
    ELSE [slaveID |-> frame[1],
          crcValid |-> modbusCRC16(SubSeq(frame, 1, Len(frame) - 2)) \cap BytePlaces
                         = CRCSeen(frame) \cap BytePlaces,
          byteCount |-> IF Len(frame) > 4 THEN frame[3] ELSE NoCount]

summarizeFrame(frame) ==
  IF Len(frame) < 4
    THEN [slaveID |-> 0, crcValid |-> FALSE, byteCount |-> NoCount]
    ELSE [slaveID |-> frame[1],
          crcValid |-> modbusCRC16(SubSeq(frame, 1, Len(frame) - 2)) = CRCSeen(frame),
          byteCount |-> IF Len(frame) > 4 THEN frame[3] ELSE NoCount]

\* Mutant: the byte count is taken for data.
DataWithCount(frame) == SubSeq(frame, 3, Len(frame) - 2)

\* The data between the byte count and the CRC.
Data(frame) == SubSeq(frame, 4, Len(frame) - 2)

\* Only the data of an intact frame that the byte count agrees with is decoded;
\* the function code is not looked at.
Decodable(frame) ==
  LET summary == summarizeFrame(frame) IN
  /\ summary.crcValid
  /\ Len(frame) > 5
  /\ summary.byteCount = Len(frame) - 5
  /\ summary.byteCount % 2 = 0

-----------------------------------------------------------------------------
\* Mutant: the sign is looked for in the low byte.
WordSignedByLow(type, hi, lo) ==
  LET u == hi * Base + lo IN IF type # "uint16" /\ u >= Base THEN u - WordBase ELSE u

\* A register is two bytes, the high one first; anything but uint16 is signed.
Word(type, hi, lo) ==
  LET u == hi * Base + lo
  IN IF type # "uint16" /\ u >= WordBase \div 2 THEN u - WordBase ELSE u

\* decodeKnownRegisters: the registers of the first section for this slave, by
\* their place in the data, whatever register the poll began with.
NoValues == [slaveName |-> <<>>, values |-> {}]

decodeKnownRegisters(slaves, slaveID, data) ==
  LET sections == {i \in DOMAIN slaves : slaves[i].address = slaveID}
      section == slaves[CHOOSE i \in sections : \A j \in sections : i <= j]
      usable == {reg \in ToSet(section.registers) : /\ reg.register >= 0
                                                   /\ reg.count \in {0, 1}
                                                   /\ 2 * reg.register + 1 < Len(data)}
      Value(reg) == [register |-> reg.register, name |-> reg.name,
                     value |-> Word(reg.type, data[2 * reg.register + 1],
                                              data[2 * reg.register + 2])]
  IN IF sections = {} THEN NoValues
     ELSE [slaveName |-> section.name, values |-> {Value(reg) : reg \in usable}]

\* What logFrame gives to Record, if there are values.
RegisterValues(slaves, frame) ==
  IF Decodable(frame)
    THEN decodeKnownRegisters(slaves, summarizeFrame(frame).slaveID, Data(frame))
    ELSE NoValues

-----------------------------------------------------------------------------
\* Mutant: the CRC is not looked at.
SevenBytes(frame) == Len(frame) = 7 /\ summarizeFrame(frame).byteCount = 2

\* HandleFrame of the DustIQ handler looks at no other frames.
SingleRegister(frame) ==
  /\ Len(frame) = 7
  /\ summarizeFrame(frame).crcValid
  /\ summarizeFrame(frame).byteCount = 2
================================================================================
