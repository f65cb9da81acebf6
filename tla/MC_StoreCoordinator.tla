------------------------- MODULE MC_StoreCoordinator -------------------------
(***************************************************************************)
(* Instance of StoreCoordinator: three NPorts of which two carry the same  *)
(* name, so that the slaves of one replace those of the other and one of   *)
(* the pairs recorded is wanted by nobody, and two values, so that fresh   *)
(* ones arrive during a flush.  No request can be built for the second of  *)
(* the three destinations, and the second value makes no line to post.     *)
(***************************************************************************)
EXTENDS StoreCoordinator

CONSTANTS A, B, s1, s2

MCNames == {A, B}
MCSlaves == {s1, s2}

MCNPorts == <<
  [name |-> A, detected |-> {s2}],
  [name |-> B, detected |-> {s1, s2}],
  [name |-> A, detected |-> {s1}] >>
==============================================================================
