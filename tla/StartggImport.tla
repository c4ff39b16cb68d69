---------------------------- MODULE StartggImport ----------------------------
(***************************************************************************)
(* Importing an event of start.gg into a tournament (StartggService), and  *)
(* what a preview says the import will do, while people edit the           *)
(* tournament, the event goes on, and the API goes down.  One import runs  *)
(* at a time.                                                              *)
(*                                                                         *)
(* An import reads a snapshot of the event, or takes the one it read in    *)
(* the last five minutes, then makes sure of each thing in turn, one short *)
(* transaction after another: a thing the links (external_mapping) name is *)
(* looked up, another is created.  The links it made are written last.     *)
(*                                                                         *)
(* A definition under a comment "Slip:" is not the code but the definition *)
(* that follows it with a plausible mistake in it.                         *)
(***************************************************************************)
EXTENDS StartggEvent, Functions, Bags, BagsExt, FiniteSetsExt

CONSTANTS
  Entering,   \* those who have entered at first
  Known,      \* tags the catalogue of players has at first
  Registered, \* those of them who take part in the tournament at first, a list
  Deletable,  \* the kinds of rows people delete
  MaxRuns,    \* bound: imports and previews
  MaxUpsets   \* bound: what people do here and on start.gg, and crashes

VARIABLES
  event,   \* the event as start.gg has it
  cache,   \* snapshotCache: the last snapshot, until it expires
  players, \* the catalogue, by tag; a tag is unique in it
  rows,    \* the rows of the tournament by id, each with what it hangs from
  rules,   \* the advancement rules, a bag: nothing keeps one from being there twice
  links,   \* external_mapping: pairs of an external and a local id
  lastId,  \* the last id a row was given
  task,    \* the import or preview under way
  plan,    \* history: the last preview, while nothing it rests on has changed
  seen,    \* history: what the last import left, while nobody has touched it
  moved,   \* history: the event has changed since the last snapshot was begun
  touched, \* history: people have changed rows under the import
  runs, upsets
db == <<players, rows, rules, links, lastId>>
history == <<plan, seen, moved, touched>>
bounds == <<runs, upsets>>
vars == <<event, cache, db, task, history, bounds>>

ASSUME ImportAssumption ==
  /\ Entering \subseteq Range(Entrant) /\ Range(Registered) \subseteq Known
  /\ {MaxRuns, MaxUpsets} \subseteq Nat

Idle == [at |-> "idle"]

\* External ids name their kind; there is one event.
Ext(kind, id) == <<kind, id>>
TheEvent == Ext("event", None)

-----------------------------------------------------------------------------
(***************************************************************************)
(* Rows and links.                                                         *)
(***************************************************************************)

Division             == [kind |-> "division"]
Participant(tag)     == [kind |-> "participant", player |-> tag]
EntrantRow(d, ps)    == [kind |-> "entrant", division |-> d, members |-> ps, active |-> TRUE]
PhaseRow(d)          == [kind |-> "phase", division |-> d]
PoolRow(f)           == [kind |-> "pool", phase |-> f, seats |-> <<>>]
MatchRow(g, es, res) == [kind |-> "match", pool |-> g, entrants |-> es, result |-> res]

OfKind(rs, kind) == {i \in DOMAIN rs : rs[i].kind = kind}

EntrantsOf(rs, d) == {i \in OfKind(rs, "entrant") : rs[i].division = d}
PhasesOf(rs, d)   == {i \in OfKind(rs, "phase") : rs[i].division = d}
PoolsOf(rs, f)    == {i \in OfKind(rs, "pool") : rs[i].phase = f}
MatchesOf(rs, g)  == {i \in OfKind(rs, "match") : rs[i].pool = g}

\* What goes with a row through the foreign keys.
Below(rs, i) ==
  LET pools(f) == PoolsOf(rs, f) \cup UNION {MatchesOf(rs, g) : g \in PoolsOf(rs, f)}
  IN  CASE rs[i].kind = "division" ->
             EntrantsOf(rs, i) \cup PhasesOf(rs, i) \cup UNION {pools(f) : f \in PhasesOf(rs, i)}
        [] rs[i].kind = "phase" -> pools(i)
        [] rs[i].kind = "pool"  -> MatchesOf(rs, i)
        [] OTHER -> {}

Deleted(rs, i) == Restrict(rs, DOMAIN rs \ ({i} \cup Below(rs, i)))

\* findMappingInCache, findMappingInList: the local id a link leads to.
LinkOf(ls, ext) ==
  IF \E l \in ls : l[1] = ext THEN (CHOOSE l \in ls : l[1] = ext)[2] ELSE None

\* The row a link leads to, if it is still there and is what it should be.
LinkedRow(ls, ext, candidates) ==
  IF LinkOf(ls, ext) \in candidates THEN LinkOf(ls, ext) ELSE None

\* TournamentAggregate.register: the participant of a player, if there is one.
ParticipantOf(rs, tag) ==
  LET found == {i \in OfKind(rs, "participant") : rs[i].player = tag}
  IN  IF found = {} THEN None ELSE Min(found)

\* DivisionAggregate.entrantOfParticipant.
EntrantOfParticipant(rs, d, p) ==
  LET found == {i \in EntrantsOf(rs, d) : p \in Range(rs[i].members)}
  IN  IF found = {} THEN None ELSE Min(found)

\* The player a result knows an entrant by: that of its first participant.
PlayersOf(rs, es) ==
  LET named == SelectSeq(es, LAMBDA i : rs[i].members # <<>>)
  IN  [k \in DOMAIN named |-> rs[rs[named[k]].members[1]].player]

-----------------------------------------------------------------------------
(***************************************************************************)
(* A snapshot, and the order in which an import goes through it.           *)
(***************************************************************************)

ParticipantsIn(snap) == UNION {Range(Members[e]) : e \in snap.entrants}

\* Those of a set, or of its places, the snapshot also has as entrants.
Those(snap, es) == SelectSeq(es, LAMBDA e : e \in snap.entrants)

\* Those of the sets of a pool, by their seeds.
EntrantsOfPool(snap, g) ==
  InOrder(Entrant, snap.entrants \cap UNION {Range(Seated(snap, x)) : x \in BoutsOf(g)})

LocalsOf(local, es) == [k \in DOMAIN es |-> local[Ext("entrant", es[k])]]

Rule(source, place, target, slot) == [source |-> source, place |-> place, target |-> target, slot |-> slot]

\* createPhaseGroupProgressionRules, then the rules of the slots, between the
\* local ids the import has for their ends.
RulesOf(local) ==
  LET progress == [k \in DOMAIN Progress |->
                     Rule(local[Ext("pool", Progress[k].from)], Progress[k].place,
                          local[Ext("pool", Progress[k].to)], Progress[k].slot)]
      ofSlot(x, i) == Rule(local[Slots[x][i].from], Slots[x][i].place, local[Ext("set", x)], i)
      ofSet(x) == [k \in 1..Len(SentSlots(x)) |-> ofSlot(x, SentSlots(x)[k])]
  IN  progress \o FlattenSeq([k \in DOMAIN Bout |-> ofSet(Bout[k])])

\* Slip: the rules that leave the pools are forgotten.
MatchSources(local) == [k \in DOMAIN Bout |-> local[Ext("set", Bout[k])]]

\* What rules of the event may leave: its matches, then its pools.
Sources(local) ==
  [k \in DOMAIN Bout |-> local[Ext("set", Bout[k])]] \o [k \in DOMAIN Pool |-> local[Ext("pool", Pool[k])]]

\* The loops of an import, and what each goes through.
Work(t, loop) ==
  CASE loop = "entrant" -> InOrder(Entrant, t.snap.entrants)
    [] loop \in {"phase", "keep"} -> Phase
    [] loop = "pool" -> Pool
    [] loop = "drop" -> Sources(t.local)
    [] loop = "draw" -> RulesOf(t.local)
    [] OTHER -> <<>>

After == [entrant |-> "phase", phase |-> "pool", pool |-> "matches", drop |-> "draw", draw |-> "results",
          keep |-> "flush"]

GoTo(t, step) == [t EXCEPT !.at = step, !.todo = Work(t, step)]
Went(t) == [t EXCEPT !.todo = Tail(@)]
In(loop) == task.at = loop /\ task.todo # <<>>

\* cacheMapping: the import knows the local id of a thing, and will link it.
Resolved(t, ext, id) == [t EXCEPT !.local = (ext :> id) @@ @]

-----------------------------------------------------------------------------
Init ==
  /\ event = Opened(Entering) /\ cache = None
  /\ players = Known
  /\ rows = [i \in DOMAIN Registered |-> Participant(Registered[i])]
  /\ rules = EmptyBag /\ links = {} /\ lastId = Len(Registered)
  /\ task = Idle
  /\ plan = None /\ seen = None /\ moved = FALSE /\ touched = FALSE
  /\ runs = 0 /\ upsets = 0

(***************************************************************************)
(* The snapshot.                                                           *)
(***************************************************************************)

\* importEvent, previewImport: one who may edit the tournament asks.
\* buildEventSnapshot answers from its cache while that lasts.
Begin(purpose) ==
  /\ task = Idle /\ runs < MaxRuns
  /\ task' = [at |-> IF cache = None THEN "entrants" ELSE "links", for |-> purpose,
              snap |-> IF cache = None THEN event ELSE cache]
  /\ touched' = FALSE
  /\ runs' = runs + 1
  /\ UNCHANGED <<event, cache, db, plan, seen, moved, upsets>>

\* The requests of a snapshot go out one by one, the sets last.
ReadEntrants ==
  /\ task.at = "entrants"
  /\ task' = [task EXCEPT !.at = "sets", !.snap = event]
  /\ moved' = FALSE
  /\ UNCHANGED <<event, cache, db, plan, seen, touched, bounds>>

ReadSets ==
  /\ task.at = "sets"
  /\ LET snap == [event EXCEPT !.entrants = task.snap.entrants]
     IN  /\ task' = [task EXCEPT !.at = "links", !.snap = snap]
         /\ cache' = snap
  /\ UNCHANGED <<event, db, history, bounds>>

\* A request is refused, or answers with an error, also when it is repeated.
RequestFails ==
  /\ task.at \in {"entrants", "sets"}
  /\ task' = Idle
  /\ UNCHANGED <<event, cache, db, history, bounds>>

\* The snapshot expires five minutes after it was read.
Expire ==
  /\ cache # None
  /\ cache' = None
  /\ UNCHANGED <<event, db, task, history, bounds>>

-----------------------------------------------------------------------------
(***************************************************************************)
(* The steps of an import.                                                 *)
(***************************************************************************)

\* loadCaches: the links, and the players the event names.
LoadLinks ==
  /\ task.at = "links" /\ task.for = "import"
  /\ task' = [at |-> "division", for |-> "import", snap |-> task.snap, links |-> links,
              known |-> players, local |-> <<>>, todo |-> <<>>]
  /\ UNCHANGED <<event, cache, db, history, bounds>>

\* An import that throws leaves what it has written, and writes no links.
Throw ==
  /\ task' = Idle /\ plan' = None /\ seen' = None
  /\ UNCHANGED <<event, cache, db, moved, touched, bounds>>

\* A step of an import that writes rows.
Writes(rs) == rows' = rs /\ UNCHANGED <<event, cache, players, rules, links, history, bounds>>

\* ensureDivision: the linked division, or a new one (DivisionCommands.create).
EnsureDivision ==
  /\ task.at = "division"
  /\ LET found == LinkedRow(task.links, TheEvent, OfKind(rows, "division"))
         id == IF found = None THEN lastId + 1 ELSE found
     IN  /\ Writes((id :> Division) @@ rows)
         /\ lastId' = IF found = None THEN id ELSE lastId
         /\ task' = [Resolved(task, TheEvent, id) EXCEPT !.at = "players"]

\* ensureParticipants, first half: those no link leads to are to be registered,
\* and whoever of them the catalogue did not have when it was read is created.
Unregistered(t) ==
  {p \in ParticipantsIn(t.snap) : LinkedRow(t.links, Ext("participant", p), OfKind(rows, "participant")) = None}

CreatePlayers ==
  /\ task.at = "players"
  /\ LET missing == {Tag[p] : p \in Unregistered(task)} \ task.known
     IN  IF missing \cap players # {} THEN Throw
         ELSE /\ players' = players \cup missing
              /\ task' = [task EXCEPT !.at = "register"]
              /\ UNCHANGED <<event, cache, rows, rules, links, lastId, history, bounds>>

\* ensureParticipants, second half: registerAll loads and saves the roster.
RegisterAll ==
  /\ task.at = "register"
  /\ LET new == SetToSeq({tag \in {Tag[p] : p \in Unregistered(task)} : ParticipantOf(rows, tag) = None})
         registered == [i \in lastId + 1 .. lastId + Len(new) |-> Participant(new[i - lastId])] @@ rows
         local == [x \in {Ext("participant", p) : p \in ParticipantsIn(task.snap)} |->
                     IF x[2] \in Unregistered(task) THEN ParticipantOf(registered, Tag[x[2]])
                                                    ELSE LinkOf(task.links, x)]
     IN  /\ Writes(registered)
         /\ lastId' = lastId + Len(new)
         /\ task' = GoTo([task EXCEPT !.local = local @@ @], "entrant")

\* Slip: an entrant no link leads to is always a new one.
AdmittedAnew(rs, d, e, p) == None

\* DivisionAggregate.admit: one who was here before keeps the entrant they had.
Admitted(rs, d, e, p) == IF Len(Members[e]) = 1 THEN EntrantOfParticipant(rs, d, p) ELSE None

\* ensureEntrant: the linked entrant of this division, or the one its only
\* participant has in it, or a new one.
EnsureEntrant ==
  /\ In("entrant")
  /\ LET e == Head(task.todo)  d == task.local[TheEvent]
         ps == [k \in DOMAIN Members[e] |-> task.local[Ext("participant", Members[e][k])]]
         linked == LinkedRow(task.links, Ext("entrant", e), EntrantsOf(rows, d))
         found == IF linked # None THEN linked ELSE Admitted(rows, d, e, ps[1])
         id == IF found = None THEN lastId + 1 ELSE found
         row == IF found = None \/ Len(ps) > 1 THEN EntrantRow(d, ps) ELSE [rows[id] EXCEPT !.active = TRUE]
     IN  IF d \notin DOMAIN rows THEN Throw
         ELSE /\ Writes((id :> row) @@ rows)
              /\ lastId' = IF found = None THEN id ELSE lastId
              /\ task' = Went(Resolved(task, Ext("entrant", e), id))

\* ensurePhase: the linked phase of this division, or a new one without a pool.
EnsurePhase ==
  /\ In("phase")
  /\ LET f == Head(task.todo)  d == task.local[TheEvent]
         found == LinkedRow(task.links, Ext("phase", f), PhasesOf(rows, d))
         id == IF found = None THEN lastId + 1 ELSE found
     IN  IF d \notin DOMAIN rows THEN Throw
         ELSE /\ Writes((id :> PhaseRow(d)) @@ rows)
              /\ lastId' = IF found = None THEN id ELSE lastId
              /\ task' = Went(Resolved(task, Ext("phase", f), id))

\* ensurePhaseGroup: the linked pool, wherever it is, or a new one; and a link
\* to a pool that is gone refuses the import.  Then seatEntrants.
EnsurePool ==
  /\ In("pool")
  /\ LET g == Head(task.todo)  f == task.local[Ext("phase", PhaseOf[g])]
         found == LinkOf(task.links, Ext("pool", g))
         id == IF found = None THEN lastId + 1 ELSE found
         seats == LocalsOf(task.local, EntrantsOfPool(task.snap, g))
         row == IF found = None THEN PoolRow(f) ELSE rows[id]
     IN  IF (IF found = None THEN f ELSE found) \notin DOMAIN rows THEN Throw
         ELSE /\ Writes((id :> [row EXCEPT !.seats = seats]) @@ rows)
              /\ lastId' = IF found = None THEN id ELSE lastId
              /\ task' = Went(Resolved(task, Ext("pool", g), id))

\* The match rows of the sets, as a save of all of them writes them; it is
\* refused when a pool is gone.
Staged(id, result) ==
  [i \in Range(id) |->
     LET x == CHOOSE y \in DOMAIN id : id[y] = i
     IN  MatchRow(task.local[Ext("pool", PoolOf[x])],
                  LocalsOf(task.local, Those(task.snap, Seated(task.snap, x))), result[x])]

PoolsAreGone == \E g \in Range(Pool) : task.local[Ext("pool", g)] \notin DOMAIN rows

\* syncImportedMatches, first save: the linked matches with what start.gg says
\* of them but their results, and new ones for the sets that have none.
StageMatches ==
  /\ task.at = "matches"
  /\ LET linked(x) == LinkedRow(task.links, Ext("set", x), OfKind(rows, "match"))
         new == SelectSeq(Bout, LAMBDA x : linked(x) = None)
         id == [x \in Range(Bout) |-> IF linked(x) # None THEN linked(x)
                                      ELSE lastId + (CHOOSE k \in DOMAIN new : new[k] = x)]
         result == [x \in Range(Bout) |-> IF linked(x) # None THEN rows[linked(x)].result ELSE <<>>]
         local == [ext \in {Ext("set", x) : x \in Range(Bout)} |-> id[ext[2]]]
     IN  IF PoolsAreGone THEN Throw
         ELSE /\ Writes(Staged(id, result) @@ rows)
              /\ lastId' = lastId + Len(new)
              /\ task' = GoTo([task EXCEPT !.local = local @@ @], "drop")

\* The rules that leave each match and each pool of the event are deleted, ...
DropRules ==
  /\ In("drop")
  /\ rules' = LET kept == {r \in BagToSet(rules) : r.source # Head(task.todo)} IN Restrict(rules, kept)
  /\ task' = Went(task)
  /\ UNCHANGED <<event, cache, players, rows, links, lastId, history, bounds>>

\* ... and those the snapshot knows are drawn, one after another.
DrawRule ==
  /\ In("draw")
  /\ rules' = rules (+) SetToBag({Head(task.todo)})
  /\ task' = Went(task)
  /\ UNCHANGED <<event, cache, players, rows, links, lastId, history, bounds>>

\* buildImportedPlayerPoints: the players of those who sit in a decided set,
\* best first.  A set that is not decided leaves no result.
ResultOf(x) == PlayersOf(rows, LocalsOf(task.local, Those(task.snap, Places(task.snap, x))))

\* syncImportedMatches, second save: the same rows once more, with the results.
\* A match that was deleted in between is inserted again.
SaveResults ==
  /\ task.at = "results"
  /\ LET id == [x \in Range(Bout) |-> task.local[Ext("set", x)]]
     IN  IF PoolsAreGone THEN Throw
         ELSE /\ Writes(Staged(id, [x \in Range(Bout) |-> ResultOf(x)]) @@ rows)
              /\ task' = GoTo(task, "keep")
              /\ UNCHANGED lastId

\* A phase the event has no pool for is given one.
KeepAPool ==
  /\ In("keep")
  /\ LET f == task.local[Ext("phase", Head(task.todo))]
     IN  IF f \notin DOMAIN rows THEN Throw
         ELSE /\ task' = Went(task)
              /\ IF PoolsOf(rows, f) # {} THEN UNCHANGED <<event, cache, db, history, bounds>>
                 ELSE Writes(((lastId + 1) :> PoolRow(f)) @@ rows) /\ lastId' = lastId + 1

LoopEnds ==
  /\ task.at \in DOMAIN After /\ task.todo = <<>>
  /\ task' = GoTo(task, After[task.at])
  /\ UNCHANGED <<event, cache, db, history, bounds>>

\* Slip: only what had no link is linked.
FirstLinks == {<<ext, task.local[ext]>> : ext \in {x \in DOMAIN task.local : LinkOf(links, x) = None}} \cup links

\* flushMappingCache: what was linked before leads to its new row.
Relinked == {l \in links : l[1] \notin DOMAIN task.local} \cup {<<ext, task.local[ext]>> : ext \in DOMAIN task.local}

Flush ==
  /\ task.at = "flush"
  /\ links' = Relinked
  /\ task' = Idle /\ plan' = None
  /\ seen' = IF touched THEN None ELSE [snap |-> task.snap, rows |-> rows, rules |-> rules, links |-> links']
  /\ UNCHANGED <<event, cache, players, rows, rules, lastId, moved, touched, bounds>>

-----------------------------------------------------------------------------
(***************************************************************************)
(* The preview, which reads everything at once and writes nothing.         *)
(***************************************************************************)

\* buildLocalContext, planOf: what each thing of the snapshot will be linked
\* to, None where the import will create it.
PlanOf(snap) ==
  LET d == LinkedRow(links, TheEvent, OfKind(rows, "division"))
      linked(kind, id, candidates) == LinkedRow(links, Ext(kind, id), candidates)
      participant(p) ==
        LET found == linked("participant", p, OfKind(rows, "participant"))
        IN  IF found # None THEN found ELSE IF Tag[p] \in players THEN ParticipantOf(rows, Tag[p]) ELSE None
      entrant(e) ==
        LET found == linked("entrant", e, OfKind(rows, "entrant"))
            p == participant(Members[e][1])
        IN  IF found # None THEN found
            ELSE IF d # None /\ p # None /\ Len(Members[e]) = 1 THEN EntrantOfParticipant(rows, d, p) ELSE None
      node(ext) ==
        CASE ext[1] = "event"       -> d
          [] ext[1] = "participant" -> participant(ext[2])
          [] ext[1] = "entrant"     -> entrant(ext[2])
          [] ext[1] = "phase"       -> linked("phase", ext[2], OfKind(rows, "phase"))
          [] ext[1] = "set"         -> linked("set", ext[2], OfKind(rows, "match"))
  IN  [ext \in {TheEvent} \cup {Ext("participant", p) : p \in ParticipantsIn(snap)}
               \cup {Ext("entrant", e) : e \in snap.entrants} \cup {Ext("phase", f) : f \in Range(Phase)}
               \cup {Ext("set", x) : x \in Range(Bout)} |-> node(ext)]

Preview ==
  /\ task.at = "links" /\ task.for = "preview"
  /\ plan' = [snap |-> task.snap, nodes |-> PlanOf(task.snap), since |-> lastId]
  /\ task' = Idle
  /\ UNCHANGED <<event, cache, db, seen, moved, touched, bounds>>

-----------------------------------------------------------------------------
(***************************************************************************)
(* People, here and on start.gg.                                           *)
(***************************************************************************)

Upset == upsets < MaxUpsets /\ upsets' = upsets + 1 /\ UNCHANGED <<links, runs>>

Edit ==
  /\ Upset
  /\ plan' = None /\ seen' = None /\ touched' = TRUE
  /\ UNCHANGED <<event, cache, task, moved>>

\* addPlayersToDivision with one name, which may be new; each command it is
\* made of is one of the steps above.
Admit(d, tag) ==
  LET registered == IF ParticipantOf(rows, tag) # None THEN <<>> ELSE ((lastId + 1) :> Participant(tag))
      rs == registered @@ rows
      p == ParticipantOf(rs, tag)
      found == EntrantOfParticipant(rs, d, p)
      id == IF found # None THEN found ELSE Max(DOMAIN rs \cup {lastId}) + 1
  IN  /\ Edit
      /\ players' = players \cup {tag}
      /\ rows' = (id :> IF found = None THEN EntrantRow(d, <<p>>) ELSE [rs[id] EXCEPT !.active = TRUE]) @@ rs
      /\ lastId' = Max({lastId, p, id})
      /\ UNCHANGED rules

\* removeParticipants: the entrant stays, withdrawn.
Withdraw(i) ==
  /\ rows[i].active
  /\ Edit
  /\ rows' = [rows EXCEPT ![i].active = FALSE]
  /\ UNCHANGED <<players, rules, lastId>>

\* PhaseGroupCommands.delete: a phase is never left without a pool.
IsLastPool(i) == rows[i].kind = "pool" /\ Cardinality(PoolsOf(rows, rows[i].phase)) <= 1

\* The delete commands.  Only that of a match takes the rules with it.
Delete(i) ==
  /\ rows[i].kind \in Deletable /\ ~IsLastPool(i)
  /\ Edit
  /\ rows' = Deleted(rows, i)
  /\ rules' = IF rows[i].kind # "match" THEN rules
              ELSE Restrict(rules, {r \in BagToSet(rules) : i \notin {r.source, r.target}})
  /\ UNCHANGED <<players, lastId>>

\* The event goes on: somebody enters late, or a set is decided.
GoesOn(ev) ==
  /\ Upset
  /\ event' = ev /\ moved' = TRUE
  /\ UNCHANGED <<cache, players, rows, rules, lastId, task, plan, seen, touched>>

Enter(e) == e \notin event.entrants /\ GoesOn(Entered(event, e))

Decide(x, e) == CanWin(event, x, e) /\ GoesOn(Won(event, x, e))

\* The API goes down: the import is cut short and the snapshot forgotten.
Crash ==
  /\ Upset
  /\ task' = Idle /\ cache' = None
  /\ plan' = IF task = Idle THEN plan ELSE None
  /\ seen' = IF task = Idle THEN seen ELSE None
  /\ UNCHANGED <<event, players, rows, rules, lastId, moved, touched>>

-----------------------------------------------------------------------------
Next ==
  \/ \E purpose \in {"import", "preview"} : Begin(purpose)
  \/ ReadEntrants \/ ReadSets \/ RequestFails \/ Expire
  \/ LoadLinks \/ EnsureDivision \/ CreatePlayers \/ RegisterAll
  \/ EnsureEntrant \/ EnsurePhase \/ EnsurePool
  \/ StageMatches \/ DropRules \/ DrawRule \/ SaveResults
  \/ KeepAPool \/ LoopEnds \/ Flush
  \/ Preview
  \/ \E d \in OfKind(rows, "division"), tag \in Range(Tag) : Admit(d, tag)
  \/ \E i \in OfKind(rows, "entrant") : Withdraw(i)
  \/ \E i \in DOMAIN rows : Delete(i)
  \/ \E e \in Range(Entrant) : Enter(e)
  \/ \E x \in Range(Bout), e \in Range(Entrant) : Decide(x, e)
  \/ Crash

Spec == Init /\ [][Next]_vars
=============================================================================
