---------------------------- MODULE DustIQHandler ----------------------------
(***************************************************************************)
(* The frame handler of a DustIQ port (moxa-nport/dustiq.go).  A DustIQ is *)
(* polled one register per frame; the handler collects the frames of one   *)
(* device from the register that carries the marker 800 (its device type)  *)
(* up to the next boundary and then decodes the collection BY POSITION:    *)
(* the i-th frame is taken for the i-th register.                          *)
(*                                                                         *)
(* A frame is a record with the fields the handler looks at: slave, value  *)
(* and single (7 bytes, valid CRC, byte count 2).  Whatever other fields   *)
(* it has are carried along.                                               *)
(***************************************************************************)
EXTENDS Naturals, Sequences

CONSTANTS
  ExpectedFrames,  \* dustIQExpectedFrames, 23 in the code
  Unnamed,         \* positions of dustIQSpecs without a name (11 in the code)
  Marker,          \* the register value that opens a cycle, 800 in the code
  NoSlave          \* currentSlave of an empty cycle, 0 in the code

ASSUME ExpectedFramesAssumption == ExpectedFrames \in Nat \ {0}
ASSUME UnnamedAssumption ==
  Unnamed \subseteq 1 .. ExpectedFrames /\ Unnamed # 1 .. ExpectedFrames

VARIABLES
  mode,          \* h.mode: "store" or "test"
  cycle,         \* h.cycle
  currentSlave,  \* h.currentSlave
  report,        \* the latest decoded cycle, as printed by flush
  stored,        \* what flush gave to storage.Store: slave and decoded cycle
  complete       \* HandleFrame returned true: the listener stops

handlerVars == <<mode, cycle, currentSlave, report, stored, complete>>

Nothing == [slave |-> NoSlave, values |-> <<>>]

HandlerInit ==
  /\ mode \in {"store", "test"}
  /\ cycle = <<>>
  /\ currentSlave = NoSlave
  /\ report = Nothing
  /\ stored = Nothing
  /\ complete = FALSE

-----------------------------------------------------------------------------
\* Mutant: only a new marker closes a cycle.
ClosesAtMarker(f) == f.single /\ cycle # <<>> /\ f.value = Marker

\* Mutant: only another device closes a cycle.
ClosesAtOtherDevice(f) == f.single /\ cycle # <<>> /\ f.slave # currentSlave

\* A frame that ends the cycle under way: the next marker, or another device.
Closes(f) ==
  /\ f.single
  /\ cycle # <<>>
  /\ f.value = Marker \/ f.slave # currentSlave

\* Mutants: one frame may be missing; one frame more is needed.
AlmostDecodable == Len(cycle) >= ExpectedFrames - 1
MoreThanDecodable == Len(cycle) > ExpectedFrames

Decodable == Len(cycle) >= ExpectedFrames

\* decodeDustIQCycle: one value per named position that has a frame.
Decoded ==
  [slave |-> currentSlave,
   values |-> [i \in (DOMAIN cycle \cap 1 .. ExpectedFrames) \ Unnamed |-> cycle[i]]]

\* Mutant: the frames of the cycle just closed stay in it.
RestartWithout(f) ==
  IF f.value = Marker
    THEN cycle' = Append(cycle, f) /\ currentSlave' = f.slave
    ELSE UNCHANGED <<cycle, currentSlave>>

\* resetCycle, and the start of the next cycle when f is a marker.
RestartWith(f) ==
  IF f.value = Marker
    THEN cycle' = <<f>> /\ currentSlave' = f.slave
    ELSE cycle' = <<>> /\ currentSlave' = NoSlave

\* Frames of another length, with a bad CRC or with more than one register,
\* and everything before the first marker.
Ignore(f) ==
  /\ ~ f.single \/ (cycle = <<>> /\ f.value # Marker)
  /\ UNCHANGED handlerVars

\* Mutant: the CRC and the length are not looked at.
BeginAnyFrame(f) ==
  /\ cycle = <<>> /\ f.value = Marker
  /\ RestartWith(f)
  /\ UNCHANGED <<mode, report, stored, complete>>

Begin(f) ==
  /\ f.single /\ cycle = <<>> /\ f.value = Marker
  /\ RestartWith(f)
  /\ UNCHANGED <<mode, report, stored, complete>>

Extend(f) ==
  /\ f.single /\ cycle # <<>> /\ ~ Closes(f)
  /\ cycle' = Append(cycle, f)
  /\ UNCHANGED <<mode, currentSlave, report, stored, complete>>

\* decodeDustIQCycle returns an error: the cycle is dropped.
Discard(f) ==
  /\ Closes(f)
  /\ ~ Decodable
  /\ RestartWith(f)
  /\ UNCHANGED <<mode, report, stored, complete>>

\* The cycle is printed; in test mode the handler goes on.
PrintCycle(f) ==
  /\ Closes(f)
  /\ Decodable
  /\ mode # "store"
  /\ report' = Decoded
  /\ RestartWith(f)
  /\ UNCHANGED <<mode, stored, complete>>

\* In store mode the first decoded cycle is printed and posted, and the
\* acquisition of this port is over; f itself is forgotten.
StoreCycle(f) ==
  /\ Closes(f)
  /\ Decodable
  /\ mode = "store"
  /\ report' = Decoded
  /\ stored' = Decoded
  /\ complete' = TRUE
  /\ cycle' = <<>>
  /\ currentSlave' = NoSlave
  /\ UNCHANGED mode

HandleFrame(f) ==
  \/ Ignore(f)
  \/ Begin(f)
  \/ Extend(f)
  \/ Discard(f)
  \/ PrintCycle(f)
  \/ StoreCycle(f)
==============================================================================
