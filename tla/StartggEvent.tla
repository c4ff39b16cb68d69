---------------------------- MODULE StartggEvent ----------------------------
(***************************************************************************)
(* An event of start.gg as the API knows it: who entered, what its sets    *)
(* wait for, who sits in them and who won.  It is a service outside the    *)
(* repository, modelled from what StartggClient reads and reports.         *)
(***************************************************************************)
EXTENDS Integers, Sequences, SequencesExt, FiniteSets

CONSTANTS
  Entrant,  \* those who may enter, in the order of their seeds
  Members,  \* the participants of each entrant: one, or those of a team
  Tag,      \* the gamer tag of each participant, as names are compared
  Phase,    \* the phases, in order
  Pool,     \* the pools (phase groups), in order
  PhaseOf,  \* the phase of each pool
  Bout,     \* the sets, in order
  PoolOf,   \* the pool of each set
  Slots,    \* of each set, whom each of its two slots is for
  Progress, \* which place of a pool is seeded into which slot of another
  None      \* nobody

\* A slot is for an entrant, or for the one a set or a pool sends there.
SeededBy(e) == [seed |-> e, from |-> None, place |-> 0]
SentBy(kind, source, place) == [seed |-> None, from |-> <<kind, source>>, place |-> place]

ASSUME EventAssumption ==
  /\ Members \in [Range(Entrant) -> Seq(DOMAIN Tag)]
  /\ PhaseOf \in [Range(Pool) -> Range(Phase)] /\ PoolOf \in [Range(Bout) -> Range(Pool)]
  /\ DOMAIN Slots = Range(Bout) /\ \A x \in Range(Bout) : Len(Slots[x]) = 2

\* The slots of a set somebody is sent to.
SentSlots(x) == SelectSeq(<<1, 2>>, LAMBDA i : Slots[x][i].from # None)

\* The elements of S in the order of a list that has them all.
InOrder(list, S) == SelectSeq(list, LAMBDA e : e \in S)

BoutsOf(g) == {x \in Range(Bout) : PoolOf[x] = g}

\* Those who sit in a set, slot by slot, without the slots nobody has.
Seated(ev, x) == SelectSeq(ev.seated[x], LAMBDA e : e # None)

\* The two places of a set that was decided.
Places(ev, x) ==
  IF ev.winner[x] = None THEN <<>>
  ELSE <<ev.winner[x]>> \o SelectSeq(Seated(ev, x), LAMBDA e : e # ev.winner[x])

\* Whom a set or a pool sends; a pool sends the places of its last set.
Sent(ev, from, place) ==
  LET x == IF from[1] = "set" THEN from[2] ELSE Last(InOrder(Bout, BoutsOf(from[2])))
      places == Places(ev, x)
  IN  IF place \in DOMAIN places THEN places[place] ELSE None

\* start.gg seats whoever entered, and whoever a set or a pool sends.
Reseated(ev) ==
  [ev EXCEPT !.seated = [x \in Range(Bout) |-> [i \in 1..2 |->
     LET slot == Slots[x][i]
     IN  IF slot.from # None THEN Sent(ev, slot.from, slot.place)
         ELSE IF slot.seed \in ev.entrants THEN slot.seed ELSE None]]]

Opened(entered) ==
  Reseated([entrants |-> entered,
            seated |-> [x \in Range(Bout) |-> <<None, None>>],
            winner |-> [x \in Range(Bout) |-> None]])

Entered(ev, e) == Reseated([ev EXCEPT !.entrants = @ \cup {e}])

CanWin(ev, x, e) == ev.winner[x] = None /\ Len(Seated(ev, x)) = 2 /\ e \in Range(Seated(ev, x))

Won(ev, x, e) == Reseated([ev EXCEPT !.winner[x] = e])
=============================================================================
