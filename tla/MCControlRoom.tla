---------------------------- MODULE MCControlRoom ----------------------------
(***************************************************************************)
(* Small instances of the control room.                                    *)
(***************************************************************************)
EXTENDS ControlRoomProperties, TLC

CONSTANTS r1, r2, s1, s2, m1, m2, p1, p2

\* One schedule over both matches; a schedule for each.
ShortSchedule == s1 :> <<m1, m2>>
TwoSchedules  == s1 :> <<m1>> @@ s2 :> <<m2>>

\* The winner of the first match takes a seat in the second.
NoRules     == {}
FeedsSecond == {[source |-> m1, placement |-> 1, target |-> m2, slot |-> 2]}

Prepared(ps) == [EmptyRow EXCEPT !.players = ps, !.rounds = TRUE]

\* Everybody plays every match, and nothing was played yet.
SamePlayers == [m \in Match |-> {Prepared(Player)}]

\* The second match waits for one of the first, and for a song.
AwaitsSecond == m1 :> {Prepared({p1, p2})} @@ m2 :> {[Prepared({p2}) EXCEPT !.rounds = FALSE]}

RequestSymmetry == Permutations(Request)
=============================================================================
