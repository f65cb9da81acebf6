------------------------------ MODULE MC_Framing ------------------------------
(***************************************************************************)
(* Messages of up to three bytes, a size guard of four, reads of two, and  *)
(* the serial settings of the shipped configurations (19200 baud, eight    *)
(* bits, even parity, one stop bit) in ticks of a millisecond, which give  *)
(* an idle gap of two ticks.                                               *)
(***************************************************************************)
EXTENDS Framing

MCNPort ==
  [idleGap |-> 0, baud |-> 19200, dataBits |-> 8, parity |-> "even",
   stopHalves |-> 2, maxFrame |-> 4, readBuf |-> 2]

\* Settings that are missing, and a gap of a third of a millisecond.
ASSUME KnownGaps ==
  /\ deriveIdleGap([MCNPort EXCEPT !.idleGap = 50], 5) = 50
  /\ deriveIdleGap([MCNPort EXCEPT !.baud = 0], 5) = 5
  /\ deriveIdleGap([MCNPort EXCEPT !.baud = 115200], 5) = 1
  /\ deriveIdleGap([MCNPort EXCEPT !.baud = 1200, !.parity = "none", !.stopHalves = 3,
                                   !.dataBits = 0], 5) = 30
===============================================================================
