------------------------------- MODULE MC_Poller -------------------------------
(***************************************************************************)
(* Instances of Poller: two devices whose registers are good, unnamed, of  *)
(* a data type that no program or not every program knows, or of a         *)
(* function code the programs do not know.                                 *)
(***************************************************************************)
EXTENDS Poller

Holding == [fc |-> 3, named |-> TRUE, type |-> "U16"]
Input == [fc |-> 4, named |-> TRUE, type |-> "U16"]
Unnamed == [fc |-> 3, named |-> FALSE, type |-> "U16"]
Unknown == [fc |-> 4, named |-> TRUE, type |-> "F32CDAB"]
Wide == [fc |-> 3, named |-> TRUE, type |-> "S64BE"]
Coil == [fc |-> 1, named |-> TRUE, type |-> "U16"]

MCPrograms == {"ion7400", "logger3000"}

MCDevices ==
  << << <<Holding, Unnamed, Input>>, <<Coil, Input>> >>,
     << <<Unknown, Wide>>, <<>>, <<Input>> >> >>

\* The second device has no slaves.
MCNoSlaves == << << <<Holding>> >>, <<>>, << <<Input>> >> >>
===============================================================================
