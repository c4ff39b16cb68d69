---------------------------- MODULE BracketWalk ----------------------------
(***************************************************************************)
(* A generated bracket as BracketCommands writes it and as it is played:   *)
(* every match is made with the entrants it is seated with, every route    *)
(* becomes a rule, and each result sends its places along the rules.       *)
(*                                                                         *)
(* Matches are played in the order they are made, in which none comes      *)
(* before one that feeds it: the order of two that do not feed each other  *)
(* changes nothing.                                                        *)
(***************************************************************************)
EXTENDS Brackets, FiniteSets, Functions, TLC

CONSTANTS
  Types,       \* the generators asked for a plan
  Sizes,       \* how many play a match
  Entrants,    \* how many entrants a division may have
  MaxMatches   \* bound: how many matches a bracket has

VARIABLES
  type, plan,  \* the bracket, as it was generated
  arrived,     \* who sits in each match so far, and in which slot
  placing      \* the entrants of each match that was played, in their places
vars == <<type, plan, arrived, placing>>

Matches == Range(plan.matches)
Played == DOMAIN placing

\* write: a match is made with the entrants the plan seats in it.
write == [m \in Matches |-> {[slot |-> s.slot, entrant |-> s.seed] : s \in {x \in plan.seats : x.match = m}}]

Init ==
  \E t \in Types, n \in Entrants, size \in Sizes :
    /\ ~Refused(t, size)
    /\ type = t /\ plan = generate(t, n, size) /\ Len(plan.matches) <= MaxMatches
    /\ arrived = write
    /\ placing = [m \in {} |-> <<>>]

\* Bound: those in a match finish in the order of their slots or against it,
\* which is every result of a match of two.
Orders(n) == {[i \in 1..n |-> i], [i \in 1..n |-> n + 1 - i]}

\* Slip: whoever is last stays, also when nobody else is there.
SentAbove(m, result, target) ==
  {[slot |-> r.slot, entrant |-> result[r.placement]] :
     r \in {x \in plan.routes : x.source = m /\ x.target = target /\ x.placement < Len(result)}}

\* Who goes where when a match is decided: the rules of its places, as far as
\* there are entrants in them.
Sent(m, result, target) ==
  {[slot |-> r.slot, entrant |-> result[r.placement]] :
     r \in {x \in plan.routes : x.source = m /\ x.target = target /\ x.placement <= Len(result)}}

\* The next match is played and its result committed; nobody is in one that
\* nobody reached.
Play ==
  /\ Cardinality(Played) < Len(plan.matches)
  /\ LET m == plan.matches[Cardinality(Played) + 1]
         field == FlattenSeq([slot \in 1..plan.size |-> SetToSeq({a.entrant : a \in {b \in arrived[m] : b.slot = slot}})])
     IN  \E order \in Orders(Len(field)) :
           LET result == [i \in DOMAIN field |-> field[order[i]]]
           IN  /\ placing' = placing @@ (m :> result)
               /\ arrived' = [n \in Matches |-> arrived[n] \cup Sent(m, result, n)]
  /\ UNCHANGED <<type, plan>>

Spec == Init /\ [][Play]_vars

-----------------------------------------------------------------------------
\* The round of a match holds no other.
Alone(m) == \A n \in Matches : n.side = m.side /\ n.round = m.round => n = m

\* What a bracket ends with: its finals, or its last round.
Ends(m) == m.side = "final" \/ m = Last(plan.matches) \/ type = "Manual"

\* A match whose lower half has lost it.  The last one of a single elimination
\* sends both halves to a final.
Beats(m) == ~Ends(m) /\ ~(type = "SingleElimination" /\ Alone(m))

Losses(e) ==
  Cardinality({m \in Played : Beats(m) /\ \E p \in DOMAIN placing[m] : placing[m][p] = e /\ p > plan.size \div 2})

Lives == IF type = "DoubleElimination" THEN 2 ELSE 1

Waits(e) == {m \in Matches \ Played : \E a \in arrived[m] : a.entrant = e}

Done(e) == Losses(e) >= Lives \/ \E m \in Played : Ends(m) /\ e \in Range(placing[m])

\* An entrant plays on, in one match at a time, until beaten once or twice or
\* through with the finals, and not after that ("The top half of a match stays
\* in the bracket it is in; the bottom half drops to the losers side",
\* double-elimination.ts): no route is lost, none is one too many, and byes
\* leave nobody behind.
OutOnlyWhenBeaten ==
  \A e \in 0..(plan.entrants - 1) : Cardinality(Waits(e)) = IF Done(e) THEN 0 ELSE 1

Capacity(m) == IF type = "SingleElimination" /\ m.side = "final" THEN plan.size \div 2 ELSE plan.size

\* "a slot is within the match", "slot is claimed once" (brackets.test.mjs), of
\* those who arrive and not of the routes they may arrive by; and without a bye
\* every match that is played is full.
FieldIsFull ==
  \A m \in Played :
    LET slots == {a.slot : a \in arrived[m]}
    IN  /\ slots \subseteq 1..Capacity(m) /\ Cardinality(slots) = Cardinality(arrived[m])
        /\ plan.byes = 0 => slots = 1..Capacity(m)

\* leastRematchIndexes: of those who come out of one match of a single
\* elimination at most every second meets again in the next, as long as there is
\* more than one to send them to: nobody after matches of two and four, two after
\* matches of eight.
FewRematches ==
  type = "SingleElimination" =>
    \A m, n \in Played : n.side = "single" /\ n.round = m.round + 1 /\ ~Alone(n) =>
      Cardinality(Range(placing[m]) \cap Range(placing[n])) <= ceilDiv(plan.size \div 2, 2)
=============================================================================
