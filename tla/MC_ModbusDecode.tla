---------------------------- MODULE MC_ModbusDecode ----------------------------
(***************************************************************************)
(* Responses of up to eight bytes; a byte has four values instead of 256.  *)
(***************************************************************************)
EXTENDS ModbusDecode
===============================================================================
