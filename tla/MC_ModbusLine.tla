----------------------------- MODULE MC_ModbusLine -----------------------------
(***************************************************************************)
(* Instances of ModbusLine: bytes of three bits, hence a CRC of six, with  *)
(* a polynomial that has the factor x + 1 as the one of Modbus has; two    *)
(* slaves whose registers have names of every kind.                        *)
(***************************************************************************)
EXTENDS ModbusLine

\* x^6 + x^5 + x^3 + x^2 + x + 1
MCPolynomial == {0, 2, 3, 4, 5}

Reg(r, n, t, c) == [register |-> r, name |-> n, type |-> t, count |-> c]

MCSections == <<
  [address |-> 1, name |-> <<"a", " ", "A">>,
   registers |-> << Reg(0, <<"A", "\\">>, "int16", 0), Reg(1, <<"a", ",", "a", "=">>, "uint16", 1),
                    Reg(2, <<" ", " ">>, "", 1), Reg(-1, <<"a">>, "int16", 1) >>],
  [address |-> 2, name |-> <<>>,
   registers |-> << Reg(1, <<"\\", " ", "a">>, "uint16", 1), Reg(0, <<"a">>, "int16", 2),
                    Reg(2, <<>>, "int16", 1) >>] >>

MCHeld == <<
  0 :> {-7, 20} @@ 1 :> {3, 43} @@ 2 :> {-32},
  0 :> {9} @@ 1 :> {0, 60} @@ 2 :> {31, -1} @@ 3 :> {5, 6} >>

MCMeasurement == <<"a", "\\">>
MCPorts == UNION {[1 .. n -> {"a", " ", ",", "=", "\\"}] : n \in {1, 2}}
MCOnePort == {<<"a">>}

Ask(s, f, start, count) == [slave |-> s, function |-> f, start |-> start, count |-> count]

\* The blocks begin with register 0, as in the shipped configurations, and no
\* answer has an even number of bytes of coils, which the agent would take for
\* registers.
MCPolls == {Ask(1, 3, 0, 3), Ask(1, 3, 0, 1), Ask(1, 1, 0, 3), Ask(2, 3, 0, 2), Ask(2, 3, 0, 3)}

\* Two blocks of one slave, the second of which does not.
MCTwoBlocks == {Ask(2, 3, 0, 2), Ask(2, 3, 2, 2)}

ASSUME Configuration ==
  Polls = MCPolls => UniqueSections /\ PollsFromZero /\ OddBitBytes /\ TypesFit

\* The check value of 01 03 00 00 00 0A is CD C5, sent as C5 CD.
Modbus == INSTANCE FrameParser WITH ByteBits <- 8, Polynomial <- {0, 13, 15}

ASSUME KnownAnswer ==
  LET frame == <<1, 3, 0, 0, 0, 10, 197, 205>>
  IN Modbus!modbusCRC16(SubSeq(frame, 1, 6)) = Modbus!CRCSeen(frame)
================================================================================
