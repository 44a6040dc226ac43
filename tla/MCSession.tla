----------------------------- MODULE MCSession -----------------------------
(***************************************************************************)
(* Instances of Session for TLC.                                            *)
(***************************************************************************)
EXTENDS Session

CONSTANT text

MCFeeders == {text}
=============================================================================
