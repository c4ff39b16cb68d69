------------------------------ MODULE MatchLife ------------------------------
(***************************************************************************)
(* The life of a match as the rest of the system sees it: the row of       *)
(* MatchRow, changed by one command at a time.  ControlRoom interleaves    *)
(* schedules with these effects; MatchAggregate implements them.           *)
(***************************************************************************)
EXTENDS MatchRow

VARIABLE row

\* A match that was just created, with entrants and perhaps rounds.
Init == row \in {[EmptyRow EXCEPT !.players = players, !.rounds = rounds] :
                   players \in SUBSET Player, rounds \in BOOLEAN}

Command(cmd) == Editable(cmd, row) /\ row' \in Effect(cmd, row)

\* An update that takes nobody out of the match.
Joined(players) == Editable("addEntrant", row) /\ row' \in Rejudged([row EXCEPT !.players = @ \cup players])

\* An advancement rule fills or empties a slot of the match.
Advancement(p) == row' \in Placed(row, p) \cup Released(row, p)

\* The rules that leave the match decide whether a tie blocks it.
Rerouted ==
  /\ Settled(row)
  /\ row' \in {[row EXCEPT !.state = st] : st \in {"ready", "tiebreak_required"}}

Next ==
  \/ \E cmd \in MatchCommand : Command(cmd)
  \/ \E players \in SUBSET Player : Joined(players)
  \/ \E p \in Player : Advancement(p)
  \/ Rerouted

Spec == Init /\ [][Next]_row
=============================================================================
