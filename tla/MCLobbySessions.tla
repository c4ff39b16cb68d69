--------------------------- MODULE MCLobbySessions ---------------------------
(***************************************************************************)
(* Small instances of the lobby sessions.                                  *)
(***************************************************************************)
EXTENDS LobbySessions, TLC

CONSTANTS a, b, A

\* Nothing tells one session from another.
SessionSymmetry == Permutations(Session)
=============================================================================
