------------------------- MODULE StartggProperties -------------------------
(***************************************************************************)
(* What people rely on when they import an event more than once, around    *)
(* crashes, late entries and their own changes to the tournament.          *)
(***************************************************************************)
EXTENDS StartggImport

\* Who leaves what for where, in the event, between the rows the links lead to.
RoutesOf(ls) ==
  LET at(ext) == LinkOf(ls, ext)
  IN  {Rule(at(Ext("pool", r.from)), r.place, at(Ext("pool", r.to)), r.slot) : r \in Range(Progress)}
      \cup UNION {{Rule(at(Slots[x][i].from), Slots[x][i].place, at(Ext("set", x)), i) :
                     i \in Range(SentSlots(x))} : x \in Range(Bout)}

\* The tournament is as the event is, through the links ls.
Agrees(ev, ls) ==
  LET at(kind, id) == LinkOf(ls, Ext(kind, id))
      d == LinkOf(ls, TheEvent)
      entrants(es) == [k \in DOMAIN es |-> at("entrant", es[k])]
      tags(es) == [k \in DOMAIN es |-> Tag[Members[es[k]][1]]]
      alone(e) == {i \in EntrantsOf(rows, d) : rows[i].members = <<at("participant", Members[e][1])>>}
      ends == {at("set", x) : x \in Range(Bout)} \cup {at("pool", g) : g \in Range(Pool)}
  IN  /\ \A e \in ev.entrants :
           LET i == at("entrant", e)
           IN  /\ i \in EntrantsOf(rows, d) /\ rows[i].active
               /\ rows[i].members = [k \in DOMAIN Members[e] |-> at("participant", Members[e][k])]
               /\ \A k \in DOMAIN Members[e] : rows[rows[i].members[k]].player = Tag[Members[e][k]]
               /\ Len(Members[e]) = 1 => alone(e) = {i}
      /\ \A f \in Range(Phase) : at("phase", f) \in PhasesOf(rows, d) /\ PoolsOf(rows, at("phase", f)) # {}
      /\ \A g \in Range(Pool) : at("pool", g) \in PoolsOf(rows, at("phase", PhaseOf[g]))
      /\ \A x \in Range(Bout) :
           LET i == at("set", x)
           IN  /\ i \in MatchesOf(rows, at("pool", PoolOf[x]))
               /\ rows[i].entrants = entrants(Those(ev, Seated(ev, x)))
               /\ rows[i].result = tags(Those(ev, Places(ev, x)))
               /\ Range(rows[i].entrants) \subseteq Range(rows[at("pool", PoolOf[x])].seats)
      /\ Restrict(rules, {r \in BagToSet(rules) : r.source \in ends}) = SetToBag(RoutesOf(ls))

\* An import that answers leaves the tournament as the event is, if nothing has
\* changed in the event since the snapshot was begun, and as the snapshot is
\* otherwise: everybody active and in one entrant, the sets in their pools with
\* who sits in them and their results, and each of them left by the routes of
\* the event, once each.  This holds whatever imports that were cut short have
\* left and whatever people have done since, but for what they do under the
\* import itself.  It does not speak of the routes that come from elsewhere:
\* a match an import created and never linked still sends people (importEvent).
ImportAgrees ==
  [][Flush /\ ~touched => Agrees(IF moved THEN task.snap ELSE event, links')]_vars

\* A second import of the same snapshot changes nothing: what the first linked
\* is found again, each route is drawn once, no phase gets another pool
\* (externalMapping, findMappingInCache).
AgainAddsNothing ==
  [][Flush /\ seen # None /\ seen.snap = task.snap =>
       rows = seen.rows /\ rules = seen.rules /\ links' = seen.links]_vars

\* What a preview said would be linked is linked to that very row, and what it
\* said would be created is created: the preview and the import find what is
\* there in ways of their own (previewImport, importEvent).
PreviewIsKept ==
  [][Flush /\ plan # None /\ plan.snap = task.snap =>
       \A ext \in DOMAIN plan.nodes :
         LET id == LinkOf(links', ext)
         IN  IF plan.nodes[ext] = None THEN id > plan.since ELSE id = plan.nodes[ext]]_vars
=============================================================================
