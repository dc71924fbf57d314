------------------------------- MODULE MCLabRun -------------------------------
(***************************************************************************)
(* Two runs of two scenarios with up to three peers, in every environment   *)
(* and with both allocators; the second may come after one that was killed. *)
(***************************************************************************)
EXTENDS LabRun
=============================================================================
