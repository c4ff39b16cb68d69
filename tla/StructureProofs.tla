--------------------------- MODULE StructureProofs ---------------------------
(***************************************************************************)
(* What the version of a division vouches for, while requests come one     *)
(* after another.                                                          *)
(***************************************************************************)
EXTENDS StructureProperties, TLAPS

OneRequest == \A q, r \in Request : q = r

-----------------------------------------------------------------------------
(***************************************************************************)
(* The inductive invariant.                                                *)
(***************************************************************************)

\* A handler between its statements, and the page.
Loaded(t) == t = [pc |-> t.pc, op |-> t.op, node |-> t.node, to |-> t.to, tree |-> t.tree, version |-> t.version]

DivisionCommand == {"addPhase", "renamePhase", "removePhase"}

\* Who has loaded the rows has them in hand until the answer, and who writes
\* the division writes the version that is there.
Handles(t) ==
  /\ t.pc \in {"idle", "unrule", "save", "bump", "apply"}
  /\ t.pc \in {"unrule", "save", "bump"} => Loaded(t)
  /\ t.pc = "unrule" => t.op \notin DivisionCommand
  /\ t.pc = "save" /\ t.op \in DivisionCommand => t.version = version

PageType == page = [overview |-> page.overview, matches |-> page.matches, whole |-> page.whole, draft |-> page.draft]

\* The rows changed, and the version is to move on.
Behind == \E r \in Request : task[r].pc = "bump"

Vouched ==
  /\ DOMAIN task = Request /\ \A r \in Request : Handles(task[r])
  /\ PageType
  /\ version \in Nat /\ page.overview.version \in 0..version
  /\ ~Behind /\ page.overview.version = version => page.overview = Overview(tree, version)

-----------------------------------------------------------------------------
(***************************************************************************)
(* The steps of a handler.                                                 *)
(***************************************************************************)

\* Nobody else is at work.
LEMMA Alone ==
  ASSUME OneRequest, Vouched, NEW r \in Request, NEW t, Continue(r, t)
  PROVE  /\ task'[r] = t /\ DOMAIN task' = Request
         /\ \A q \in Request : q = r
         /\ Behind' <=> t.pc = "bump"
         /\ Behind <=> task[r].pc = "bump"
<1>1. task'[r] = t /\ DOMAIN task' = Request
  BY DEF Continue, Vouched
<1>2. \A q \in Request : q = r
  BY DEF OneRequest
<1>3. Behind' <=> t.pc = "bump"
  BY <1>1, <1>2 DEF Behind
<1> QED BY <1>1, <1>2, <1>3 DEF Behind

\* A step of the one handler that leaves the page as it is: it may change rows
\* if it moves the version on, now or next.
LEMMA HandlerVouches ==
  ASSUME OneRequest, Vouched, NEW r \in Request, NEW t, Continue(r, t), UNCHANGED page,
         Handles(task[r])', version' \in {version, version + 1},
         \/ t.pc = "bump" \/ version' = version + 1
         \/ UNCHANGED <<tree, version>> /\ task[r].pc # "bump"
  PROVE  Vouched'
<1>1. /\ task'[r] = t /\ DOMAIN task' = Request /\ \A q \in Request : q = r
      /\ (Behind' <=> t.pc = "bump") /\ (Behind <=> task[r].pc = "bump")
  BY Alone
<1>2. \A q \in Request : Handles(task[q])'
  BY <1>1
<1>3. PageType' /\ version' \in Nat /\ page'.overview.version \in 0..version'
  BY DEF Vouched, PageType
<1>4. ~Behind' /\ page'.overview.version = version' => page'.overview = Overview(tree', version')
  <2>1. CASE version' = version + 1
    BY <1>1, <2>1 DEF Vouched
  <2>2. CASE UNCHANGED <<tree, version>> /\ task[r].pc # "bump"
    BY <1>1, <2>2 DEF Vouched
  <2> QED BY <1>1, <2>1, <2>2
<1> QED BY <1>1, <1>2, <1>3, <1>4 DEF Vouched, Overview

\* The handler answers, without having changed a row.
LEMMA AnswerVouches ==
  ASSUME OneRequest, Vouched, NEW r \in Request, task[r].pc # "bump", Answer(r), UNCHANGED <<tree, version, page>>
  PROVE  Vouched'
<1>1. Continue(r, Idle) /\ Idle.pc = "idle"
  BY DEF Answer, Idle
<1>2. task'[r] = Idle
  BY <1>1, Alone
<1>3. Handles(task[r])'
  BY <1>1, <1>2 DEF Handles
<1>4. version' \in {version, version + 1}
  OBVIOUS
<1> QED BY <1>1, <1>3, <1>4, HandlerVouches

\* The handler has changed rows, and moves the version on next.
LEMMA MovesVouches ==
  ASSUME OneRequest, Vouched, NEW r \in Request, task[r].pc = "save", Moves(r), UNCHANGED <<version, page>>
  PROVE  Vouched'
<1> DEFINE t == [task[r] EXCEPT !.pc = "bump"]
<1>1. Loaded(task[r]) /\ Continue(r, t)
  BY DEF Vouched, Handles, Moves
<1>2. t.pc = "bump" /\ Loaded(t)
  BY <1>1 DEF Loaded
<1> HIDE DEF t
<1>3. task'[r] = t
  BY <1>1, Alone
<1>4. Handles(task[r])'
  BY <1>2, <1>3 DEF Handles, Loaded
<1>5. version' \in {version, version + 1}
  OBVIOUS
<1> QED BY <1>1, <1>2, <1>4, <1>5, HandlerVouches

LEMMA AskVouches ==
  ASSUME OneRequest, Vouched, NEW r \in Request, Ask(r)
  PROVE  Vouched'
<1>1. PICK op, n, to : Continue(r, [pc |-> IF op \in {"deleteMatch", "updateRules"} THEN "unrule" ELSE "save",
                                    op |-> op, node |-> n, to |-> to, tree |-> tree, version |-> version])
  BY DEF Ask
<1> DEFINE t == [pc |-> IF op \in {"deleteMatch", "updateRules"} THEN "unrule" ELSE "save",
                 op |-> op, node |-> n, to |-> to, tree |-> tree, version |-> version]
<1>2. Continue(r, t) /\ Loaded(t) /\ t.op = op /\ t.version = version
      /\ t.pc = IF op \in {"deleteMatch", "updateRules"} THEN "unrule" ELSE "save"
  BY <1>1 DEF Loaded
<1> HIDE DEF t
<1>3. task'[r] = t /\ UNCHANGED <<tree, version, page>> /\ task[r].pc = "idle"
  BY <1>2, Alone DEF Ask
<1>4. Handles(task[r])'
  BY <1>2, <1>3 DEF Handles, Loaded, DivisionCommand
<1>5. version' \in {version, version + 1}
  BY <1>3
<1> QED BY <1>2, <1>3, <1>4, <1>5, HandlerVouches

\* A handler that changes a field has still what it had.
LEMMA StaysLoaded ==
  ASSUME NEW t, Loaded(t), NEW x
  PROVE  /\ Loaded([t EXCEPT !.pc = x]) /\ [t EXCEPT !.pc = x].pc = x
         /\ Loaded([t EXCEPT !.to = x]) /\ [t EXCEPT !.to = x].pc = t.pc
         /\ Loaded([t EXCEPT !.op = x]) /\ [t EXCEPT !.op = x].pc = t.pc /\ [t EXCEPT !.op = x].op = x
         /\ Loaded([t EXCEPT !.node = x]) /\ [t EXCEPT !.node = x].pc = t.pc /\ [t EXCEPT !.node = x].op = t.op
<1>1. Loaded([t EXCEPT !.pc = x]) /\ [t EXCEPT !.pc = x].pc = x
  BY DEF Loaded
<1>2. Loaded([t EXCEPT !.to = x]) /\ [t EXCEPT !.to = x].pc = t.pc
  BY DEF Loaded
<1>3. Loaded([t EXCEPT !.op = x]) /\ [t EXCEPT !.op = x].pc = t.pc /\ [t EXCEPT !.op = x].op = x
  BY DEF Loaded
<1>4. Loaded([t EXCEPT !.node = x]) /\ [t EXCEPT !.node = x].pc = t.pc /\ [t EXCEPT !.node = x].op = t.op
  BY DEF Loaded
<1> QED BY <1>1, <1>2, <1>3, <1>4

\* The division is written with the version it was loaded with, which nobody
\* else has moved on.
LEMMA SaveDivisionVouches ==
  ASSUME OneRequest, Vouched, NEW r \in Request, SaveDivision(r)
  PROVE  Vouched'
<1>1. PICK to : Continue(r, [task[r] EXCEPT !.pc = "bump", !.to = to])
  BY DEF SaveDivision
<1> DEFINE b == [task[r] EXCEPT !.pc = "bump"]
           t == [b EXCEPT !.to = to]
<1>2. /\ task[r].pc = "save" /\ task[r].op \in DivisionCommand /\ version' = task[r].version
      /\ UNCHANGED page
  BY DEF SaveDivision, Saving, DivisionCommand
<1>3. Loaded(task[r]) /\ version' = version
  BY <1>2 DEF Vouched, Handles
<1>4. Continue(r, t) /\ t.pc = "bump" /\ Loaded(t)
  <2>1. [task[r] EXCEPT !.pc = "bump", !.to = to] = t
    OBVIOUS
  <2>2. Loaded(b) /\ b.pc = "bump"
    BY <1>3, StaysLoaded
  <2> HIDE DEF b
  <2>3. Loaded(t) /\ t.pc = "bump"
    BY <2>2, StaysLoaded
  <2> HIDE DEF t
  <2> QED BY <1>1, <2>1, <2>3
<1> HIDE DEF t
<1>5. task'[r] = t
  BY <1>4, Alone
<1>6. Handles(task[r])'
  BY <1>4, <1>5 DEF Handles, Loaded
<1>7. version' \in {version, version + 1}
  BY <1>3
<1> QED BY <1>2, <1>4, <1>6, <1>7, HandlerVouches

\* The commands that save a pool or a match, or are refused.
LEMMA SavesVouch ==
  ASSUME OneRequest, Vouched, NEW r \in Request,
         CreatePool(r) \/ UpdatePool(r) \/ DeletePool(r) \/ SaveMatch(r) \/ DeleteMatch(r) \/ WriteRules(r)
  PROVE  Vouched'
<1>1. task[r].pc = "save" /\ UNCHANGED <<version, page>>
  BY DEF CreatePool, UpdatePool, DeletePool, SaveMatch, DeleteMatch, WriteRules, Saving
<1>2. Moves(r) \/ (Answer(r) /\ UNCHANGED tree)
  BY DEF CreatePool, UpdatePool, DeletePool, SaveMatch, DeleteMatch, WriteRules
<1> QED BY <1>1, <1>2, MovesVouches, AnswerVouches

LEMMA DropRulesVouches ==
  ASSUME OneRequest, Vouched, NEW r \in Request, DropRules(r)
  PROVE  Vouched'
<1> DEFINE t == [task[r] EXCEPT !.pc = "save"]
<1>1. task[r].pc = "unrule" /\ Continue(r, t) /\ UNCHANGED <<tree, version, page>>
  BY DEF DropRules
<1>2. Loaded(task[r]) /\ task[r].op \notin DivisionCommand
  BY <1>1 DEF Vouched, Handles
<1>3. t.pc = "save" /\ Loaded(t) /\ t.op \notin DivisionCommand
  BY <1>2 DEF Loaded
<1> HIDE DEF t
<1>4. task'[r] = t
  BY <1>1, Alone
<1>5. Handles(task[r])'
  BY <1>3, <1>4 DEF Handles, Loaded
<1>6. version' \in {version, version + 1}
  BY <1>1
<1> QED BY <1>1, <1>5, <1>6, HandlerVouches

LEMMA BumpVouches ==
  ASSUME OneRequest, Vouched, NEW r \in Request, Bump(r)
  PROVE  Vouched'
<1> DEFINE s == [task[r] EXCEPT !.pc = "save"]
           o == [s EXCEPT !.op = "createPool"]
           t == [o EXCEPT !.node = task[r].to]
           m == [task[r] EXCEPT !.pc = "save", !.op = "createPool", !.node = task[r].to]
<1>0. m = t
  OBVIOUS
<1>1. task[r].pc = "bump" /\ version' = version + 1 /\ UNCHANGED page
      /\ (Continue(r, m) \/ Continue(r, Idle))
  BY DEF Bump, Answer
<1> HIDE DEF m
<1>2. Loaded(task[r])
  BY <1>1 DEF Vouched, Handles
<1>3. t.pc = "save" /\ Loaded(t) /\ t.op = "createPool"
  <2>1. s.pc = "save" /\ Loaded(s)
    BY <1>2, StaysLoaded
  <2> HIDE DEF s
  <2>2. o.pc = "save" /\ Loaded(o) /\ o.op = "createPool"
    BY <2>1, StaysLoaded
  <2> HIDE DEF o
  <2> QED BY <2>2, StaysLoaded
<1> HIDE DEF t
<1>4. PICK e \in {t, Idle} : Continue(r, e)
  BY <1>0, <1>1
<1>5. task'[r] = e
  BY <1>4, Alone
<1>6. Handles(task[r])'
  BY <1>3, <1>5 DEF Handles, Loaded, Idle, DivisionCommand
<1>7. version' \in {version, version + 1}
  BY <1>1
<1> QED BY <1>1, <1>4, <1>6, <1>7, HandlerVouches

LEMMA CommitVouches ==
  ASSUME OneRequest, Vouched, NEW r \in Request, Commit(r)
  PROVE  Vouched'
<1>1. PICK plan : Continue(r, [pc |-> "apply", plan |-> plan, drawn |-> Drawn, whole |-> page.whole])
  BY DEF Commit
<1> DEFINE t == [pc |-> "apply", plan |-> plan, drawn |-> Drawn, whole |-> page.whole]
<1>2. task[r].pc = "idle" /\ UNCHANGED <<tree, version, page>>
  BY DEF Commit
<1>3. Continue(r, t) /\ t.pc = "apply"
  BY <1>1
<1> HIDE DEF t
<1>4. task'[r] = t
  BY <1>3, Alone
<1>5. Handles(task[r])'
  BY <1>3, <1>4 DEF Handles
<1>6. version' \in {version, version + 1}
  BY <1>2
<1> QED BY <1>2, <1>3, <1>5, <1>6, HandlerVouches

\* A page that has read both halves shows what is there.
LEMMA FreshShows ==
  ASSUME NEW t, NEW v, NEW p, p = Fresh(t, v)
  PROVE  /\ p.overview = Overview(t, v) /\ p.overview.version = v
         /\ p = [overview |-> p.overview, matches |-> p.matches, whole |-> p.whole, draft |-> p.draft]
BY DEF Fresh, Overview

LEMMA ApplyVouches ==
  ASSUME OneRequest, Vouched, NEW r \in Request, Apply(r)
  PROVE  Vouched'
<1>1. task[r].pc = "apply" /\ Answer(r)
      /\ \/ version' = version + 1 /\ page' = Fresh(tree', version')
         \/ UNCHANGED <<tree, version, page>>
  BY DEF Apply
<1>2. CASE UNCHANGED <<tree, version, page>>
  BY <1>1, <1>2, AnswerVouches
<1>3. CASE version' = version + 1 /\ page' = Fresh(tree', version')
  <2>1. page'.overview = Overview(tree', version') /\ page'.overview.version = version' /\ PageType'
    BY <1>3, FreshShows DEF PageType
  <2>2. Continue(r, Idle) /\ Idle.pc = "idle"
    BY <1>1 DEF Answer, Idle
  <2>3. task'[r] = Idle /\ DOMAIN task' = Request /\ \A q \in Request : q = r
    BY <2>2, Alone
  <2>4. \A q \in Request : Handles(task[q])'
    BY <2>2, <2>3 DEF Handles
  <2>5. version' \in Nat /\ page'.overview.version \in 0..version'
    BY <1>3, <2>1 DEF Vouched
  <2> QED BY <2>1, <2>3, <2>4, <2>5 DEF Vouched, Overview
<1> QED BY <1>1, <1>2, <1>3

-----------------------------------------------------------------------------
(***************************************************************************)
(* The steps of the page.                                                  *)
(***************************************************************************)

LEMMA PageVouches ==
  ASSUME Vouched, UNCHANGED <<tree, version, task>>, PageType',
         page'.overview = page.overview \/ page'.overview = Overview(tree, version)
  PROVE  Vouched'
<1>1. Overview(tree, version)' = Overview(tree, version) /\ Overview(tree, version).version = version
  BY DEF Overview, Upper, InDivision
<1>2. page'.overview.version \in 0..version'
  BY <1>1 DEF Vouched
<1>3. \A r \in Request : Handles(task[r])'
  BY DEF Vouched, Handles, Loaded
<1> QED BY <1>1, <1>2, <1>3 DEF Vouched, Behind

LEMMA PageStepsVouch ==
  ASSUME Vouched, ReadOverview \/ ReadMatches \/ Edit \/ Discard
  PROVE  Vouched'
<1>1. UNCHANGED <<tree, version, task>> /\ PageType
  BY DEF ReadOverview, ReadMatches, Edit, Discard, Vouched
<1>2. \/ \E o, b : page' = [page EXCEPT !.overview = o, !.whole = b] /\ o = Overview(tree, version)
      \/ \E ms, b : page' = [page EXCEPT !.matches = ms, !.whole = b]
      \/ \E d : page' = [page EXCEPT !.draft = d]
  BY DEF ReadOverview, ReadMatches, Edit, Discard
<1>3. PageType' /\ (page'.overview = page.overview \/ page'.overview = Overview(tree, version))
  BY <1>1, <1>2 DEF PageType
<1> QED BY <1>1, <1>3, PageVouches

-----------------------------------------------------------------------------

LEMMA VouchedAtFirst == Init => Vouched
<1> SUFFICES ASSUME Init PROVE Vouched
  OBVIOUS
<1>1. PageType /\ page.overview.version = 0 /\ page.overview = Overview(tree, version)
  BY FreshShows DEF Init, PageType
<1>2. DOMAIN task = Request /\ \A r \in Request : task[r] = Idle
  BY DEF Init
<1>3. \A r \in Request : Handles(task[r])
  BY <1>2 DEF Handles, Idle
<1> QED BY <1>1, <1>2, <1>3 DEF Vouched, Init

LEMMA NextVouches ==
  ASSUME OneRequest, Vouched, [Next]_vars
  PROVE  Vouched'
<1>1. ASSUME NEW r \in Request, Serve(r) PROVE Vouched'
  BY <1>1, AskVouches, SaveDivisionVouches, SavesVouch, DropRulesVouches, BumpVouches, CommitVouches,
     ApplyVouches DEF Serve
<1>2. CASE UNCHANGED vars
  BY <1>2, PageVouches DEF vars, Vouched, PageType
<1> QED BY <1>1, <1>2, PageStepsVouch DEF Next

(***************************************************************************)
(* The version vouches for the shape (structure-version.store.ts): while   *)
(* requests come one after another, a page that holds the current version  *)
(* between two of them shows the division as it is, whatever the shape,    *)
(* the commands and the gestures.  Every command that changes a row moves  *)
(* the version on before it answers, and a division is written back with   *)
(* the version it was loaded with only while that is still the one there.  *)
(***************************************************************************)
THEOREM VersionIsOfTheShape == OneRequest => (Spec => []VersionVouches)
<1> SUFFICES ASSUME OneRequest PROVE Spec => []VersionVouches
  OBVIOUS
<1>1. Vouched /\ [Next]_vars => Vouched'
  BY NextVouches
<1>2. Vouched => VersionVouches
  BY DEF Vouched, VersionVouches, Behind
<1> QED BY <1>1, <1>2, VouchedAtFirst, PTL DEF Spec

=============================================================================
