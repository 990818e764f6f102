------------------------------ MODULE MCFraming ------------------------------
(***************************************************************************)
(* Small instances of Framing.                                             *)
(***************************************************************************)
EXTENDS Framing
=============================================================================
