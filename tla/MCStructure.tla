----------------------------- MODULE MCStructure -----------------------------
(***************************************************************************)
(* A small division: one phase with one pool and one match.                *)
(***************************************************************************)
EXTENDS StructureProperties

CONSTANTS r1

OnePool == <<"phase", 1>> :> Division @@ <<"pool", 2>> :> <<"phase", 1>> @@ <<"match", 3>> :> <<"pool", 2>>
=============================================================================
