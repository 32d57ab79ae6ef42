----------------------------- MODULE MCFraming -----------------------------
(***************************************************************************)
(* Instances of FramingProperties for TLC.                                 *)
(***************************************************************************)
EXTENDS FramingProperties, TLC

CONSTANTS c1, c2
=============================================================================
