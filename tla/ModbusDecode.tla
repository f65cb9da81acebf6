----------------------------- MODULE ModbusDecode -----------------------------
(***************************************************************************)
(* The byte-order helpers of ion7400/internal/modbus.go on the bytes of a  *)
(* response.  They use the bytes as digits only, so the base (256 in the   *)
(* program) is a parameter; the width of a result is its number of digits. *)
(* The floats, which are the same words read otherwise, are left out.      *)
(***************************************************************************)
EXTENDS Integers, Sequences, SequencesExt

CONSTANTS
  Base,     \* values of a byte
  MaxBytes  \* bound: length of a response

ASSUME BaseAssumption == Base \in Nat \ {0} /\ Base % 2 = 0
ASSUME MaxBytesAssumption == MaxBytes \in Nat

VARIABLE resp   \* the response, as it arrives byte by byte

Byte == 0 .. Base - 1

Init == resp = <<>>

Arrive ==
  /\ Len(resp) < MaxBytes
  /\ \E b \in Byte : resp' = Append(resp, b)

Spec == Init /\ [][Arrive]_resp

-----------------------------------------------------------------------------
\* The most significant byte first; 0 for a short response.
U8(b) == IF b = <<>> THEN 0 ELSE Last(b)
U16(b) == IF Len(b) < 2 THEN 0 ELSE b[1] * Base + b[2]
U32(b) == IF Len(b) < 4 THEN 0 ELSE (U16(b) * Base + b[3]) * Base + b[4]
U64BE(b) ==
  IF Len(b) < 8
    THEN 0
    ELSE (((U32(b) * Base + b[5]) * Base + b[6]) * Base + b[7]) * Base + b[8]

\* The numbers that fit in two, four and eight bytes.
Size16 == Base * Base
Size32 == Size16 * Size16
Size64 == Size32 * Size32

\* Mutant: the conversion to a signed integer clamps.
Clamped(u, size) == IF u < size \div 2 THEN u ELSE size \div 2 - 1

\* Conversion of an unsigned integer to the signed one of the same width.
Signed(u, size) == IF u < size \div 2 THEN u ELSE u - size

S16(b) == Signed(U16(b), Size16)
S32(b) == Signed(U32(b), Size32)
S64BE(b) == Signed(U64BE(b), Size64)

\* The low word comes first, its bytes in big-endian order.
U32LE(b) ==
  IF Len(b) < 4
    THEN 0
    ELSE U16(SubSeq(b, 1, 2)) + U16(SubSeq(b, 3, 4)) * Size16

S32LE(b) == Signed(U32LE(b), Size32)

\* Mutant: only the padding at the end is cut.
UTF8Trimmed(b) ==
  IF b # <<>> /\ Last(b) = 0 THEN Front(b) ELSE b

\* The text ends before the first NUL.
UTF8(b) ==
  IF \E i \in DOMAIN b : b[i] = 0
    THEN SubSeq(b, 1, (CHOOSE i \in DOMAIN b :
                         b[i] = 0 /\ \A j \in 1 .. i - 1 : b[j] # 0) - 1)
    ELSE b

-----------------------------------------------------------------------------
(***************************************************************************)
(* Properties                                                              *)
(***************************************************************************)
\* An integer in two's complement, the most significant byte first.
Bytes2(v) == << (v \div Base) % Base, v % Base >>
Bytes4(v) == Bytes2(v \div Size16) \o Bytes2(v)
Bytes8(v) == Bytes4(v \div Size32) \o Bytes4(v)

\* Every signed reading is the one whose two's complement is the response,
\* extreme values included, and fits in its type; U8 is a word's low byte.
TwosComplement ==
  /\ Len(resp) = 2 =>
       Bytes2(S16(resp)) = resp /\ 2 * S16(resp) \in -Size16 .. Size16 - 1
         /\ U8(resp) = S16(resp) % Base
  /\ Len(resp) = 4 =>
       Bytes4(S32(resp)) = resp /\ 2 * S32(resp) \in -Size32 .. Size32 - 1
  /\ Len(resp) = 4 =>
       Bytes4(S32LE(resp)) = <<resp[3], resp[4], resp[1], resp[2]>>
  /\ Len(resp) = 8 =>
       Bytes8(S64BE(resp)) = resp /\ 2 * S64BE(resp) \in -Size64 .. Size64 - 1

\* A text register yields no NUL, and all of what precedes the first one.
TextIsCut ==
  /\ \A i \in DOMAIN UTF8(resp) : UTF8(resp)[i] # 0
  /\ IsPrefix(UTF8(resp), resp)
  /\ Len(UTF8(resp)) < Len(resp) => resp[Len(UTF8(resp)) + 1] = 0
===============================================================================
