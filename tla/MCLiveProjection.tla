-------------------------- MODULE MCLiveProjection --------------------------
(***************************************************************************)
(* One page, one lobby, a few changes.                                     *)
(***************************************************************************)
EXTENDS LiveProjectionProperties
CONSTANT s1
=============================================================================
