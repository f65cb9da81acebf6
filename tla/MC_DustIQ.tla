------------------------------ MODULE MC_DustIQ ------------------------------
(***************************************************************************)
(* Instances of DustIQBus: DustIQs of four registers, one of which has no  *)
(* name, alone on the line or with another instrument that also answers    *)
(* one register per frame.  On the shared line the first DustIQ is read    *)
(* twice in a row, so that a lost marker glues two of its cycles together. *)
(***************************************************************************)
EXTENDS DustIQBus

MCDustIQ(s) == [slave |-> s, dustiq |-> TRUE, registers |-> ExpectedFrames]

MCOther(s) == [slave |-> s, dustiq |-> FALSE, registers |-> 2]

MCAlone == << MCDustIQ(1) >>

MCShared == << MCDustIQ(1), MCDustIQ(1), MCOther(2), MCDustIQ(3) >>
==============================================================================
