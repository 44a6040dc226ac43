------------------------------ MODULE MCUplink ------------------------------
(***************************************************************************)
(* An instance of Uplink: texts of no, one and four bytes, four being the   *)
(* length of a frame without data.                                          *)
(***************************************************************************)
EXTENDS Uplink

MCTexts == {<<>>, <<7>>, <<7, 7, 7, 7>>}
=============================================================================
