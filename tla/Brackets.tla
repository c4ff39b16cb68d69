------------------------------ MODULE Brackets ------------------------------
(***************************************************************************)
(* The generators of packages/brackets: what a bracket is before anything  *)
(* of it is written.  A plan is a list of matches in the order they are    *)
(* made, the routes between them and the seats of the first wave.          *)
(*                                                                         *)
(* A match is [side, round, index]; places and slots count from one, seeds *)
(* from zero.  Names and labels are left out.                              *)
(*                                                                         *)
(* A definition under a comment "Slip:" is not the code but the definition *)
(* that follows it with a plausible mistake in it.                         *)
(***************************************************************************)
EXTENDS Integers, Sequences, SequencesExt, FiniteSetsExt

BracketType == {"SingleElimination", "DoubleElimination", "Manual"}

ceilDiv(a, b) == (a + b - 1) \div b

\* The smallest power of two at or above a value, and which one it is.
levels(value) == Min({e \in 0..value : 2 ^ e >= value})
nextPow2(value) == 2 ^ levels(value)

\* addRound: the matches of a round, in order.
addRound(side, round, count) == [i \in 1..count |-> [side |-> side, round |-> round, index |-> i - 1]]

At(side, round, index) == [side |-> side, round |-> round, index |-> index]

\* addRoute takes the place and the slot counted from zero.
addRoute(source, placement, target, slot) ==
  [source |-> source, placement |-> placement + 1, target |-> target, slot |-> slot + 1]

\* seatFirstWave: the entrants as they are seeded, the first size of them into
\* the first match, and so on; the matches behind them stay empty.
seatFirstWave(firstRound, entrants, size) ==
  {[match |-> firstRound[(seed \div size) + 1], slot |-> (seed % size) + 1, seed |-> seed] :
     seed \in {s \in 0..(entrants - 1) : s \div size < Len(firstRound)}}

Plan(size, rounds, routes, entrants) ==
  [size |-> size, entrants |-> entrants, matches |-> FlattenSeq(rounds), routes |-> routes,
   seats |-> seatFirstWave(rounds[1], entrants, size),
   byes |-> Len(rounds[1]) * size - entrants]

-----------------------------------------------------------------------------
(***************************************************************************)
(* Single elimination: the upper half of every match goes on, and a last   *)
(* match of more than two is followed by a final for either half of it.    *)
(***************************************************************************)

\* directMatchIndexes: who meets in match g of the next round.
directMatchIndexes(matchCount, g) ==
  SelectSeq([i \in 1..matchCount |-> [match |-> i - 1, place |-> 0]], LAMBDA p : p.match \div 2 = g)

\* Slip: everybody who comes out of a match goes to the same next one, as in
\* matches of two.
DealtTogether(matchCount, size, i, j) == i \div 2

\* The match of the next round that place j of match i is dealt into: even
\* places from the first match on, odd ones from the last match back, as many
\* matches to one as half a match holds.
Dealt(matchCount, size, i, j) ==
  IF j % 2 = 0 THEN i \div ceilDiv(size, 2) ELSE (matchCount \div 2) - 1 - (i \div ceilDiv(size, 2))

\* leastRematchIndexes: the same for matches of more than two, place by place.
leastRematchIndexes(matchCount, size, g) ==
  SelectSeq([t \in 1..(matchCount * ceilDiv(size, 2)) |->
               [match |-> (t - 1) % matchCount, place |-> (t - 1) \div matchCount]],
            LAMBDA p : Dealt(matchCount, size, p.match, p.place) = g)

getIndexes(matchCount, size, g) ==
  IF size > 2 THEN leastRematchIndexes(matchCount, size, g) ELSE directMatchIndexes(matchCount, g)

SingleElimination(entrants, size) ==
  LET first == nextPow2(ceilDiv(entrants, size))
      last == levels(first)
      matchesIn(r) == first \div 2 ^ r
      rounds == [r \in 1..(last + 1) |-> addRound("single", r - 1, matchesIn(r - 1))]
      onward == UNION {{LET from == getIndexes(matchesIn(r), size, g)[j + 1]
                        IN  addRoute(At("single", r, from.match), from.place, At("single", r + 1, g), j) :
                          g \in 0..(matchesIn(r + 1) - 1), j \in 0..(size - 1)} : r \in 0..(last - 1)}
      passing == size \div 2
      toFinals == {addRoute(At("single", last, 0), p, At("final", last + 1, IF p < passing THEN 0 ELSE 1),
                            IF p < passing THEN p ELSE p - passing) : p \in 0..(size - 1)}
  IN  IF size > 2
      THEN Plan(size, Append(rounds, addRound("final", last + 1, 2)), onward \cup toFinals, entrants)
      ELSE Plan(size, rounds, onward, entrants)

-----------------------------------------------------------------------------
(***************************************************************************)
(* Double elimination: the upper half of a match stays on its side, the    *)
(* lower half of a winners match drops to the losers, and what is left of  *)
(* both sides meets in the grand final.                                    *)
(***************************************************************************)

grandFinal == At("final", 0, 0)

\* Slip: those who drop take the slots of those who are there.
DropSlotLow(size, k, m) == (m % 2) * (size \div 2)

\* Where the losers of a winners match sit: side by side with those of the
\* match beside it in the first round, and behind the losers side afterwards.
LoserBaseSlot(size, k, m) == IF k = 0 THEN (m % 2) * (size \div 2) ELSE size \div 2

\* The drop round of the same depth takes them in.
LoserDestination(k, m) == IF k = 0 THEN At("losers", 0, m \div 2) ELSE At("losers", 2 * k - 1, m)

DoubleElimination(entrants, size) ==
  LET first == Max({2, nextPow2(ceilDiv(entrants, size))})
      passing == size \div 2
      winnersRounds == levels(first) + 1
      losersRounds == 2 * (winnersRounds - 1)
      winnersIn(k) == first \div 2 ^ k
      losersIn(i) == first \div 2 ^ ((i \div 2) + 1)
      rounds == [k \in 1..winnersRounds |-> addRound("winners", k - 1, winnersIn(k - 1))]
                \o [i \in 1..losersRounds |-> addRound("losers", i - 1, losersIn(i - 1))]
                \o <<addRound("final", 0, 1)>>
      winners == UNION {{addRoute(At("winners", k, m), p,
                                  IF k < winnersRounds - 1 THEN At("winners", k + 1, m \div 2) ELSE grandFinal,
                                  (m % 2) * passing + p) :
                           m \in 0..(winnersIn(k) - 1), p \in 0..(passing - 1)} : k \in 0..(winnersRounds - 1)}
      drops == UNION {{addRoute(At("winners", k, m), passing + p, LoserDestination(k, m), LoserBaseSlot(size, k, m) + p) :
                         m \in 0..(winnersIn(k) - 1), p \in 0..(passing - 1)} : k \in 0..(winnersRounds - 1)}
      losers == UNION {{CASE i = losersRounds - 1 -> addRoute(At("losers", i, m), p, grandFinal, passing + p)
                          [] i < losersRounds - 1 /\ i % 2 = 0 ->
                               addRoute(At("losers", i, m), p, At("losers", i + 1, m), p)
                          [] OTHER -> addRoute(At("losers", i, m), p, At("losers", i + 1, m \div 2), (m % 2) * passing + p) :
                          m \in 0..(losersIn(i) - 1), p \in 0..(passing - 1)} : i \in 0..(losersRounds - 1)}
  IN  Plan(size, rounds, winners \cup drops \cup losers, entrants)

\* One round and nothing after it.
Manual(entrants, size) == Plan(size, <<addRound("single", 0, ceilDiv(entrants, size))>>, {}, entrants)

\* BracketGeneratorProvider and the sizes its generators refuse.
Refused(type, size) == size < 2 \/ (type = "DoubleElimination" /\ size \notin {2, 4, 8})

generate(type, entrants, size) ==
  CASE type = "SingleElimination" -> SingleElimination(entrants, size)
    [] type = "DoubleElimination" -> DoubleElimination(entrants, size)
    [] type = "Manual"            -> Manual(entrants, size)
=============================================================================
