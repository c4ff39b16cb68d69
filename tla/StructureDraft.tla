--------------------------- MODULE StructureDraft ---------------------------
(***************************************************************************)
(* A change of shape before any of it is written (structureDraft.ts), and  *)
(* the plan that writes it: what a gesture on the canvas does to a draft,  *)
(* what the canvas draws of it, and when a plan is a structure at all      *)
(* (structure-plan.validation.ts).                                         *)
(*                                                                         *)
(* One division.  A node is [kind, id], a tree a function from the nodes   *)
(* that are there to what they hang from; a phase hangs from the division. *)
(* Names, seats, songs and the places a route leaves from are left out.    *)
(*                                                                         *)
(* A definition under a comment "Slip:" is not the code but the definition *)
(* that follows it with a plausible mistake in it.                         *)
(***************************************************************************)
EXTENDS Integers, FiniteSets, SequencesExt

Division == <<"division", 0>>

Kind(n) == n[1]
OfKind(nodes, kinds) == {n \in nodes : Kind(n) \in kinds}

\* PARENT_OF
ParentKind == [phase |-> "division", pool |-> "phase", match |-> "pool"]

Bare == [n \in {} |-> Division]

\* What hangs from a node: pools and their matches from a phase.
ChildrenOf(tree, nodes) == {n \in DOMAIN tree : tree[n] \in nodes}
Within(tree, ref) == {ref} \cup ChildrenOf(tree, {ref}) \cup ChildrenOf(tree, ChildrenOf(tree, {ref}))

-----------------------------------------------------------------------------
(***************************************************************************)
(* The gestures.                                                           *)
(***************************************************************************)

emptyDraft == [added |-> Bare, removed |-> {}, routes |-> {}, cleared |-> {}]

\* What is not written yet has a negative id.
isPending(n) == n[2] < 0
nextId(draft) == Min({0} \cup {n[2] : n \in DOMAIN draft.added}) - 1

addNode(draft, kind, parent) == [draft EXCEPT !.added = @ @@ (<<kind, nextId(draft)>> :> parent)]

\* A phase arrives with its pool.
addPhase(draft) == addNode(addNode(draft, "phase", Division), "pool", <<"phase", nextId(draft)>>)

\* removeNode: a node goes with its contents, and so does what the draft said
\* about any of it.
removeNode(draft, ref, index) ==
  LET gone == Within(index, ref)
  IN  [added   |-> Restrict(draft.added, DOMAIN draft.added \ gone),
       removed |-> draft.removed \cup {n \in gone : ~isPending(n)},
       routes  |-> {r \in draft.routes : {r.source, r.target} \cap gone = {}},
       cleared |-> {c \in draft.cleared : c.target \notin gone}]

SlotOf(r) == [target |-> r.target, slot |-> r.slot]

\* A slot holds one route.
drawRoute(draft, route) ==
  [draft EXCEPT !.routes = {r \in @ : SlotOf(r) # SlotOf(route)} \cup {route}, !.cleared = @ \ {SlotOf(route)}]

\* A route of the draft is taken back; another one is to be deleted.
clearSlot(draft, slot) ==
  IF \E r \in draft.routes : SlotOf(r) = slot
  THEN [draft EXCEPT !.routes = {r \in @ : SlotOf(r) # slot}]
  ELSE [draft EXCEPT !.cleared = @ \cup {slot}]

\* indexStructure: what pools and matches hang from, on the page and in the
\* draft.  A phase is not in it.
indexStructure(overview, matches, draft) ==
  LET all == draft.added @@ overview @@ matches IN Restrict(all, OfKind(DOMAIN all, {"pool", "match"}))

\* projectStructure: the division as the draft would leave it.
projectStructure(overview, matches, draft) ==
  LET phases == (OfKind(DOMAIN overview, {"phase"}) \ draft.removed) \cup OfKind(DOMAIN draft.added, {"phase"})
      pools  == {n \in OfKind(DOMAIN overview, {"pool"}) : n \notin draft.removed /\ overview[n] \in phases}
                \cup {n \in OfKind(DOMAIN draft.added, {"pool"}) : draft.added[n] \in phases}
      played == {n \in DOMAIN matches : {n, matches[n]} \cap draft.removed = {}}
                \cup OfKind(DOMAIN draft.added, {"match"})
  IN  Restrict(draft.added @@ overview @@ matches, phases \cup pools \cup played)

-----------------------------------------------------------------------------
(***************************************************************************)
(* The plan.                                                               *)
(***************************************************************************)

\* toStructurePlan: every node the draft names, with what it hangs from as far
\* as the page knows it, and from the division otherwise; what the page does
\* not know has no name either.  The version is the one the page looks at.
toStructurePlan(draft, overview, matches, version) ==
  LET index == indexStructure(overview, matches, draft)
      parentOf(n) == IF n \in DOMAIN index THEN index[n] ELSE Division
      said  == DOMAIN draft.added \cup draft.removed \cup {c.target : c \in draft.cleared}
               \cup UNION {{r.source, r.target} : r \in draft.routes}
      above == {parentOf(n) : n \in said}
      ensured == (said \cup above \cup {parentOf(n) : n \in above}) \ {Division}
      action(n) == IF n \in draft.removed THEN "remove" ELSE IF isPending(n) THEN "create" ELSE "link"
  IN  [basedOn |-> version, routes |-> draft.routes, clearedSlots |-> draft.cleared,
       nodes |-> [n \in ensured |->
                    [action |-> action(n), parent |-> parentOf(n),
                     named |-> n \in DOMAIN overview \cup DOMAIN matches \cup DOMAIN draft.added]]]

Survivors(plan) == {Division} \cup {n \in DOMAIN plan.nodes : plan.nodes[n].action # "remove"}

\* validateStructurePlan: every node hangs where its kind does, nothing is
\* written into what goes, and routes join two nodes that stay, one to a slot.
ValidStructurePlan(plan) ==
  /\ \A n \in DOMAIN plan.nodes :
       /\ Kind(plan.nodes[n].parent) = ParentKind[Kind(n)]
       /\ n \in Survivors(plan) => plan.nodes[n].named /\ plan.nodes[n].parent \in Survivors(plan)
  /\ \A r \in plan.routes : r.source # r.target /\ {r.source, r.target} \subseteq Survivors(plan)
  /\ \A r, q \in plan.routes : SlotOf(r) = SlotOf(q) => r = q
  /\ {SlotOf(r) : r \in plan.routes} \cap plan.clearedSlots = {}
=============================================================================
