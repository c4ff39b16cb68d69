------------------------------ MODULE Structure ------------------------------
(***************************************************************************)
(* The shape of a division: its phases, pools and matches, the routes      *)
(* between them, and the version a plan is checked against.  Commands of   *)
(* the API change it one at a time (DivisionCommands, PhaseGroupCommands,  *)
(* MatchCommands, AdvancementRuleCommands), statement by statement; a page *)
(* reads it in two requests, collects a draft, and sends a plan of it      *)
(* (useStructurePage, StructurePlanCommands, StructurePlanStore).          *)
(*                                                                         *)
(* A definition under a comment "Slip:" is not the code but the definition *)
(* that follows it with a plausible mistake in it.                         *)
(***************************************************************************)
EXTENDS StructureDraft

CONSTANTS
  Request,   \* the requests the API serves at once
  Shape,     \* the tree the division has at first
  Routes,    \* the routes it has at first
  Slots,     \* the slots a route may lead to
  Commands,  \* the commands people send beside the page
  None,      \* nothing
  MaxWrites, \* bound: how many commands people send
  MaxEdits   \* bound: how many gestures the page sees

VARIABLES
  tree,    \* the rows and what they hang from
  rules,   \* the advancement rules; they name their ends by kind and id
  version, \* division.structureVersion
  lastId,  \* the last id a row was given
  task,    \* the request each handler has in hand
  page,    \* what the page shows, its draft, and as history whether its matches
           \* are those of the version it shows
  writes, edits
vars == <<tree, rules, version, lastId, task, page, writes, edits>>

\* A row whose parent was set to null is in no division.
Nowhere == <<"nowhere", 0>>

Idle == [pc |-> "idle"]

Upper(t) == Restrict(t, OfKind(DOMAIN t, {"phase", "pool"}))
Lower(t) == Restrict(t, OfKind(DOMAIN t, {"match"}))

\* What hangs from the division, and not what was left hanging nowhere.
InDivision(t) == Restrict(t, UNION {Within(t, phase) : phase \in ChildrenOf(t, {Division})})

\* The two reads of the page: the tree with its version, and the matches.
Overview(t, v) == [tree |-> Upper(InDivision(t)), version |-> v]
Matches(t)     == Lower(InDivision(t))

\* A page that has read both and drafts nothing.
Fresh(t, v) == [overview |-> Overview(t, v), matches |-> Matches(t), whole |-> TRUE, draft |-> emptyDraft]

Init ==
  /\ tree = Shape /\ rules = Routes /\ version = 0
  /\ lastId = Max({n[2] : n \in DOMAIN Shape})
  /\ task = [r \in Request |-> Idle]
  /\ page = Fresh(tree, version)
  /\ writes = 0 /\ edits = 0

-----------------------------------------------------------------------------
(***************************************************************************)
(* Writing rows.                                                           *)
(***************************************************************************)

\* DELETE: children go with their parent through the foreign keys; rules stay.
Deleted(t, nodes) == Restrict(t, DOMAIN t \ UNION {Within(t, n) : n \in nodes})

\* TypeORM saves a parent with its children as they were loaded: children that
\* came since are set to null, and a row that is gone is inserted again.
SavedOver(t, parent, children) ==
  [n \in DOMAIN t \cup children |->
     IF n \in children THEN parent ELSE IF t[n] = parent THEN Nowhere ELSE t[n]]

\* Matches are not cascaded into: one that is gone is not inserted again.
PoolSaved(t, pool, phase, matches) == (pool :> phase) @@ SavedOver(t, pool, matches \cap DOMAIN t)

NewNode(kind) == <<kind, lastId + 1>>

-----------------------------------------------------------------------------
(***************************************************************************)
(* The commands.  Each loads, saves and moves the version on, in that      *)
(* order and in statements of their own.                                   *)
(***************************************************************************)

Continue(r, t) == task' = [task EXCEPT ![r] = t]
Answer(r) == Continue(r, Idle)

\* What each command is about.
About == [addPhase |-> "division", renamePhase |-> "phase", removePhase |-> "phase", createPool |-> "phase",
          updatePool |-> "pool", deletePool |-> "pool", createMatch |-> "pool", moveMatch |-> "match",
          deleteMatch |-> "match", updateRules |-> "match"]

\* What else it is told: where a match goes, or the rules a match is given.
Told(op, n) ==
  CASE op = "moveMatch"   -> OfKind(DOMAIN tree, {"pool"})
    [] op = "updateRules" -> {{[source |-> n, target |-> m, slot |-> s]} :
                                m \in OfKind(DOMAIN tree, {"match"}) \ {n}, s \in Slots} \cup {{}}
    [] OTHER -> {None}

\* PhaseGroupCommands.delete: a phase is never left without a pool.
IsLastPool(op, n) == op = "deletePool" /\ Cardinality(ChildrenOf(tree, {tree[n]})) <= 1

\* A request comes in and its handler loads the rows it is about.  One that is
\* about nothing, or about the last pool of a phase, is answered at once.
Ask(r) ==
  /\ task[r].pc = "idle" /\ writes < MaxWrites
  /\ \E op \in Commands, n \in DOMAIN InDivision(tree) \cup {Division} :
       /\ Kind(n) = About[op] /\ ~IsLastPool(op, n)
       /\ \E to \in Told(op, n) :
            Continue(r, [pc |-> IF op \in {"deleteMatch", "updateRules"} THEN "unrule" ELSE "save",
                         op |-> op, node |-> n, to |-> to, tree |-> tree, version |-> version])
  /\ writes' = writes + 1
  /\ UNCHANGED <<tree, rules, version, lastId, page, edits>>

Saving(r, ops) == task[r].pc = "save" /\ task[r].op \in ops

\* The version is to be moved on.
Moves(r) == Continue(r, [task[r] EXCEPT !.pc = "bump"])

\* DivisionStore.save: the division as it was loaded, its version included,
\* with a phase more or less.
SaveDivision(r) ==
  LET t == task[r]
      loaded == ChildrenOf(t.tree, {Division})
      added == {n \in {NewNode("phase")} : t.op = "addPhase"}
      gone  == {n \in {t.node} : t.op = "removePhase"}
  IN  /\ Saving(r, {"addPhase", "renamePhase", "removePhase"})
      /\ tree' = Deleted(SavedOver(tree, Division, (loaded \cup added) \ gone), gone)
      /\ version' = t.version
      /\ lastId' = lastId + Cardinality(added)
      /\ Continue(r, [t EXCEPT !.pc = "bump", !.to = IF added = {} THEN None ELSE NewNode("phase")])
      /\ UNCHANGED <<rules, page, writes, edits>>

\* PhaseGroupStore.save of a new pool: it is refused when its phase is gone.
CreatePool(r) ==
  /\ Saving(r, {"createPool"})
  /\ IF task[r].node \notin DOMAIN tree THEN Answer(r) /\ UNCHANGED <<tree, lastId>>
     ELSE /\ tree' = tree @@ (NewNode("pool") :> task[r].node)
          /\ lastId' = lastId + 1 /\ Moves(r)
  /\ UNCHANGED <<rules, version, page, writes, edits>>

\* PhaseGroupStore.save: the pool with its matches, as they were loaded.
UpdatePool(r) ==
  LET t == task[r] phase == t.tree[t.node]
  IN  /\ Saving(r, {"updatePool"})
      /\ IF phase \notin DOMAIN tree THEN Answer(r) /\ UNCHANGED tree
         ELSE tree' = PoolSaved(tree, t.node, phase, ChildrenOf(t.tree, {t.node})) /\ Moves(r)
      /\ UNCHANGED <<rules, version, lastId, page, writes, edits>>

\* Slip: who deletes a pool forgets the version.
DeletePoolUnseen(r) ==
  /\ Saving(r, {"deletePool"})
  /\ tree' = Deleted(tree, {task[r].node}) /\ Answer(r)
  /\ UNCHANGED <<rules, version, lastId, page, writes, edits>>

DeletePool(r) ==
  /\ Saving(r, {"deletePool"})
  /\ tree' = Deleted(tree, {task[r].node}) /\ Moves(r)
  /\ UNCHANGED <<rules, version, lastId, page, writes, edits>>

\* MatchStore.save: a match in the pool it was made in or moved to.
SaveMatch(r) ==
  LET t == task[r]
      new == t.op = "createMatch"
      pool == IF new THEN t.node ELSE t.to
  IN  /\ Saving(r, {"createMatch", "moveMatch"})
      /\ IF pool \notin DOMAIN tree THEN Answer(r) /\ UNCHANGED <<tree, lastId>>
         ELSE /\ tree' = ((IF new THEN NewNode("match") ELSE t.node) :> pool) @@ tree
              /\ lastId' = IF new THEN lastId + 1 ELSE lastId
              /\ Moves(r)
      /\ UNCHANGED <<rules, version, page, writes, edits>>

\* deleteInvolvingMatch, and deleteBySource of the rules to be written anew.
DropRules(r) ==
  LET t == task[r]
  IN  /\ t.pc = "unrule"
      /\ rules' = {u \in rules : u.source # t.node /\ (t.op = "deleteMatch" => u.target # t.node)}
      /\ Continue(r, [t EXCEPT !.pc = "save"])
      /\ UNCHANGED <<tree, version, lastId, page, writes, edits>>

DeleteMatch(r) ==
  /\ Saving(r, {"deleteMatch"})
  /\ tree' = Deleted(tree, {task[r].node}) /\ Moves(r)
  /\ UNCHANGED <<rules, version, lastId, page, writes, edits>>

\* updateForSource does not move the version.
WriteRules(r) ==
  /\ Saving(r, {"updateRules"})
  /\ rules' = rules \cup task[r].to /\ Answer(r)
  /\ UNCHANGED <<tree, version, lastId, page, writes, edits>>

\* StructureVersionStore.bump; a phase that was added is given its pool next.
Bump(r) ==
  LET t == task[r]
  IN  /\ t.pc = "bump"
      /\ version' = version + 1
      /\ IF t.op = "addPhase" THEN Continue(r, [t EXCEPT !.pc = "save", !.op = "createPool", !.node = t.to])
         ELSE Answer(r)
      /\ UNCHANGED <<tree, rules, lastId, page, writes, edits>>

-----------------------------------------------------------------------------
(***************************************************************************)
(* The page.                                                               *)
(***************************************************************************)

\* The tree is read with the version, the matches by a request of their own.
ReadOverview ==
  /\ page.overview # Overview(tree, version)
  /\ page' = [page EXCEPT !.overview = Overview(tree, version), !.whole = (page.matches = Matches(tree))]
  /\ UNCHANGED <<tree, rules, version, lastId, task, writes, edits>>

ReadMatches ==
  LET whole == page.overview.version = version
  IN  /\ page.matches # Matches(tree) \/ (whole /\ ~page.whole)
      /\ page' = [page EXCEPT !.matches = Matches(tree), !.whole = whole]
      /\ UNCHANGED <<tree, rules, version, lastId, task, writes, edits>>

\* What the canvas draws.
Drawn == projectStructure(page.overview.tree, page.matches, page.draft)

\* Every gesture the canvas offers.  What goes with a node is read off what is
\* drawn.
Gestures ==
  LET d == page.draft
      routable == OfKind(DOMAIN Drawn, {"pool", "match"})
  IN  {addPhase(d)}
      \cup {addNode(d, "pool", n) : n \in OfKind(DOMAIN Drawn, {"phase"})}
      \cup {addNode(d, "match", n) : n \in OfKind(DOMAIN Drawn, {"pool"})}
      \cup {removeNode(d, n, Restrict(Drawn, routable)) : n \in DOMAIN Drawn}
      \cup {drawRoute(d, [source |-> m, target |-> n, slot |-> s]) : m \in routable, n \in routable, s \in Slots}
      \cup {clearSlot(d, [target |-> n, slot |-> s]) : n \in routable, s \in Slots}

Edit ==
  /\ edits < MaxEdits /\ edits' = edits + 1
  /\ \E d \in Gestures : page' = [page EXCEPT !.draft = d]
  /\ UNCHANGED <<tree, rules, version, lastId, task, writes>>

Discard ==
  /\ page.draft # emptyDraft /\ page' = [page EXCEPT !.draft = emptyDraft]
  /\ UNCHANGED <<tree, rules, version, lastId, task, writes, edits>>

-----------------------------------------------------------------------------
(***************************************************************************)
(* The plan.                                                               *)
(***************************************************************************)

\* Slip: a plan is welcome whatever it was based on.
BasisIsAny(plan) == TRUE

\* assertBasisIsCurrent.
BasisIsCurrent(plan) == plan.basedOn = version

\* commit, and StructurePlanCommands.apply up to its transaction: the draft goes
\* as a plan against the version the page looks at now, is validated, and its
\* version compared.  One that is refused leaves the draft as it is.  The plan
\* remembers what was drawn, which is not sent.
Commit(r) ==
  LET plan == toStructurePlan(page.draft, page.overview.tree, page.matches, page.overview.version)
  IN  /\ task[r].pc = "idle" /\ page.draft # emptyDraft
      /\ \A o \in Request : task[o].pc # "apply"
      /\ ValidStructurePlan(plan) /\ BasisIsCurrent(plan)
      /\ Continue(r, [pc |-> "apply", plan |-> plan, drawn |-> Drawn, whole |-> page.whole])
      /\ UNCHANGED <<tree, rules, version, lastId, page, writes, edits>>

\* The id a node is given; one that is there has one.
RowId(n) == IF isPending(n) THEN <<Kind(n), lastId - n[2]>> ELSE n

\* The routes of a plan between rows.
RoutesOf(plan) == {[u EXCEPT !.source = RowId(@), !.target = RowId(@)] : u \in plan.routes}

\* Slip: a route is written beside the one its slot had.
EmptiedByName(plan) == plan.clearedSlots

\* The slots a plan empties, those it writes into among them.
Emptied(plan) == {SlotOf(u) : u \in RoutesOf(plan)} \cup plan.clearedSlots

\* StructurePlanStore.apply, in one transaction: every node it links to or
\* removes is there; rows are made, rows and the rules of those it removes
\* deleted, slots cleared, routes written into them, and the version moves on.
\* The page lets the draft go once it has read what was written.
Apply(r) ==
  LET plan == task[r].plan
      nodes == DOMAIN plan.nodes
      created == {n \in nodes : plan.nodes[n].action = "create"}
      removed == {n \in nodes : plan.nodes[n].action = "remove"}
      made == [row \in {RowId(n) : n \in created} |-> RowId(plan.nodes[CHOOSE n \in created : RowId(n) = row].parent)]
      kept == {u \in rules : {u.source, u.target} \cap removed = {} /\ SlotOf(u) \notin Emptied(plan)}
      there == nodes \ created \subseteq DOMAIN InDivision(tree)
  IN  /\ task[r].pc = "apply"
      /\ IF there
         THEN /\ tree' = Deleted(tree @@ made, removed)
              /\ rules' = kept \cup RoutesOf(plan)
              /\ version' = version + 1
              /\ lastId' = Max({lastId} \cup {row[2] : row \in DOMAIN made})
         ELSE UNCHANGED <<tree, rules, version, lastId>>
      /\ page' = IF there THEN Fresh(tree', version') ELSE page
      /\ Answer(r)
      /\ UNCHANGED <<writes, edits>>

Serve(r) ==
  \/ Ask(r)
  \/ SaveDivision(r) \/ CreatePool(r) \/ UpdatePool(r) \/ DeletePool(r)
  \/ SaveMatch(r) \/ DropRules(r) \/ DeleteMatch(r) \/ WriteRules(r) \/ Bump(r)
  \/ Commit(r) \/ Apply(r)

Next ==
  \/ \E r \in Request : Serve(r)
  \/ ReadOverview \/ ReadMatches
  \/ Edit \/ Discard

Spec == Init /\ [][Next]_vars
=============================================================================
