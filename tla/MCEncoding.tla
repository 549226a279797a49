----------------------------- MODULE MCEncoding ------------------------------
(***************************************************************************)
(* Buffers of every size from just above the header on, so that each piece *)
(* of an instruction meets the end at every byte.                          *)
(***************************************************************************)
EXTENDS NscEncoding

MCCapacities == 14 .. 36
MCFiles == 0 .. 2
=============================================================================
