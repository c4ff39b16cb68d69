------------------------- MODULE StructureProperties -------------------------
(***************************************************************************)
(* What a version and a plan promise.  All of it needs requests that come  *)
(* one after another.                                                      *)
(***************************************************************************)
EXTENDS Structure

\* A plan is written by this step.
Lands(r) == task[r].pc = "apply" /\ task'[r].pc = "idle" /\ version' # version

\* Its nodes under the ids they were given.
AsRows(drawn) ==
  LET rows == {RowId(n) : n \in DOMAIN drawn}
  IN  [row \in rows |-> RowId(drawn[CHOOSE n \in DOMAIN drawn : RowId(n) = row])]

(***************************************************************************)
(* The version vouches for the shape: a page that holds the current one    *)
(* while no command is under way shows the division as it is.              *)
(* (structure-version.store.ts: "a preview left open while somebody else   *)
(* edits is not written against rows it never saw").                       *)
(***************************************************************************)
VersionVouches ==
  (\A r \in Request : task[r].pc = "idle") /\ page.overview.version = version =>
    page.overview = Overview(tree, version)

\* What the page drew: the matches only as far as it read them in the version
\* of its tree, which nothing makes it do (see the README).
Drew(t) == IF t.whole THEN InDivision(t.drawn) ELSE Upper(t.drawn)

(***************************************************************************)
(* A plan that is written leaves the division as it was drawn when it was  *)
(* sent, whatever was drafted against a tree that has changed since and    *)
(* whatever came in between: "the canvas draws the division as the draft   *)
(* would leave it" (useStructurePage.ts), "it is refused and recomputed    *)
(* rather than merged" (structure-plan.commands.ts).                       *)
(***************************************************************************)
TreeIsAsDrawn ==
  [][\A r \in Request : Lands(r) =>
       LET left == InDivision(tree')
       IN  AsRows(Drew(task[r])) = IF task[r].whole THEN left ELSE Upper(left)]_vars

(***************************************************************************)
(* Such a plan leaves every slot it routes into with that route alone,     *)
(* between two nodes that are there (writeRoutes, assertLinkable).         *)
(***************************************************************************)
RoutesLand ==
  [][\A r \in Request : Lands(r) /\ task[r].whole =>
       \A u \in task[r].plan.routes :
         LET target == RowId(u.target)
             into == {v \in rules' : v.target = target /\ v.slot = u.slot}
         IN  /\ {v.source : v \in into} = {RowId(u.source)}
             /\ {RowId(u.source), target} \subseteq DOMAIN InDivision(tree')]_vars
=============================================================================
