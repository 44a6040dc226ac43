----------------------------- MODULE MCFraming -----------------------------
(***************************************************************************)
(* An instance of Framing: heads of two bytes, a buffer of six, bodies that *)
(* hold both marks, one of them a whole frame, and noise that can announce  *)
(* a size that fits, one that just does not, and one far too large.         *)
(***************************************************************************)
EXTENDS Framing

MCBodies == {<<>>, <<Hash>>, <<Dollar, 0, Hash>>}
MCNoise == {3, Dollar, Hash}
=============================================================================
