----------------------------- MODULE MCStartgg -----------------------------
(***************************************************************************)
(* A player, a team and a player who may enter late, in three sets of two  *)
(* pools; the third phase has no pool.  The tag of the late one is known,  *)
(* and that player takes part in the tournament already.                   *)
(***************************************************************************)
EXTENDS StartggProperties

MCEntrant  == <<"a", "t", "c">>
MCEntering == {"a", "t"}
MCMembers  == [a |-> <<"pa">>, t |-> <<"pt", "pu">>, c |-> <<"pc">>]
MCTag      == [pa |-> "ann", pt |-> "tom", pu |-> "una", pc |-> "cat"]
MCKnown    == {"cat", "tom"}
MCRegistered == <<"cat">>

MCPhase   == <<"f1", "f2", "f3">>
MCPool    == <<"g1", "g2">>
MCPhaseOf == [g1 |-> "f1", g2 |-> "f2"]
MCBout    == <<"x1", "x2", "x3">>
MCPoolOf  == [x1 |-> "g1", x2 |-> "g2", x3 |-> "g2"]
MCSlots   ==
  [x1 |-> <<SeededBy("a"), SeededBy("t")>>,
   x2 |-> <<SentBy("pool", "g1", 1), SeededBy("c")>>,
   x3 |-> <<SentBy("set", "x1", 2), SentBy("set", "x2", 2)>>]
MCProgress  == <<[from |-> "g1", place |-> 1, to |-> "g2", slot |-> 1]>>
MCDeletable == {"division", "phase", "pool", "match"}
=============================================================================
