------------------------------ MODULE MCFrames ------------------------------
(***************************************************************************)
(* Three frames of different length.                                       *)
(***************************************************************************)
EXTENDS Frames

ThreeFrames == <<2, 3, 1>>

=============================================================================
