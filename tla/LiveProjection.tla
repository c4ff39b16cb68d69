--------------------------- MODULE LiveProjection ---------------------------
(***************************************************************************)
(* How a change reaches a page: the API and the SyncStart service publish  *)
(* to a Redis channel that keeps nothing, the realtime service numbers     *)
(* what it receives (TournamentRealtimeState), keeps the last message of   *)
(* each kind for those who connect later, and sends a frame on each of its *)
(* paths; a browser socket (useRealtimeSocket) notices what it missed.     *)
(*                                                                         *)
(* One tournament, one lobby, and one page with two sockets: "ui" tells    *)
(* the page what to read again, "live" carries the state of the lobby.     *)
(*                                                                         *)
(* A definition under a comment "Slip:" is not the code but the definition *)
(* that follows it with a plausible mistake in it.                         *)
(***************************************************************************)
EXTENDS Integers, Sequences, SequencesExt, FiniteSets

CONSTANTS
  Song,       \* the songs a lobby may select
  None,       \* nothing: no song, no message, no sequence, no fetch
  Asked,      \* a read the API has not answered yet
  Early,      \* bound: whether a change may come before the page is up
  MaxWrites,  \* bound: how often the API changes what the page shows
  MaxEvents,  \* bound: how many events a lobby sends
  MaxNews,    \* bound: how many of the two together
  MaxFaults   \* bound: sockets closed, events lost, restarts

ASSUME BoundsAssumption == {MaxWrites, MaxEvents, MaxNews, MaxFaults} \subseteq Nat /\ Early \in BOOLEAN

VARIABLES
  version,  \* what the database holds of what the page shows
  unsaid,   \* the API has saved a change and not yet published it
  wire,     \* events between a publisher and the realtime service
  stage,    \* the last event of the lobby in its order, and how many it sent
  server,   \* the realtime service: its sequence, its cache, its lobby
  socket,   \* the two sockets of the page, with the frames on their way
  view,     \* what the live part of the page shows of the lobby
  page,     \* what the page shows, is fetching, and knows to be stale
  lost,     \* history: a change nobody will hear of, and none after it
  faults
vars == <<version, unsaid, wire, stage, server, socket, view, page, lost, faults>>

Path == {"ui", "live"}

Stages == <<"OnSongSelected", "OnMatchUpdate", "OnSongCompleted">>

Changed == [event |-> "ui.changed", song |-> None]
Gone    == [event |-> "syncstart.lobby-disconnected", song |-> None]

-----------------------------------------------------------------------------
(***************************************************************************)
(* The realtime service.                                                   *)
(***************************************************************************)

Empty == [up |-> TRUE, sequence |-> 0, cache |-> <<>>, live |-> None]

\* mapRealtimeEvent: what an event is on a path; an update without a song has
\* the song of the message before it.  The empty list is RealtimeSequence.
mapRealtimeEvent(event, path, live) ==
  CASE event = Changed -> IF path = "ui" THEN <<event>> ELSE <<>>
    [] event = Gone    -> <<>>
    [] OTHER -> IF path = "ui" THEN <<>>
                ELSE <<IF event.song = None /\ live # None THEN [event EXCEPT !.song = live.song] ELSE event>>

\* cache: one message per kind, the last one, in the place of the first; a
\* Map keeps the order in which its keys first came.
cache(messages, message) ==
  IF \E i \in DOMAIN messages : messages[i].event = message.event
  THEN [i \in DOMAIN messages |-> IF messages[i].event = message.event THEN message ELSE messages[i]]
  ELSE Append(messages, message)

\* apply: the event is numbered, a lobby that left is forgotten.
apply(state, event) ==
  LET kept == IF event = Gone THEN [state EXCEPT !.cache = <<>>, !.live = None] ELSE state
      message == mapRealtimeEvent(event, "live", kept.live)
  IN  [kept EXCEPT !.sequence = @ + 1,
                   !.cache = IF message = <<>> THEN @ ELSE cache(@, message[1]),
                   !.live = IF message = <<>> THEN @ ELSE message[1]]

Frame(ready, sequence, messages) == [ready |-> ready, sequence |-> sequence, messages |-> messages]

\* The first frame of a connection: the snapshot of its path.  What the "ui"
\* path has cached is left out, since a page ignores what is replayed there.
ReadyFrame(path) == Frame(TRUE, server.sequence, IF path = "live" THEN server.cache ELSE <<>>)

-----------------------------------------------------------------------------
(***************************************************************************)
(* The page.                                                               *)
(***************************************************************************)

Closed == [open |-> FALSE, queue |-> <<>>, last |-> None, resumed |-> FALSE]

\* invalidateQueries: a read that has shown something is begun again, the very
\* first one is joined, and one under way is not doubled.
Invalidated(p) == IF p.fetch # None /\ p.shown = None THEN p ELSE [p EXCEPT !.fetch = Asked]

Init ==
  /\ version = 0 /\ unsaid = FALSE /\ wire = <<>>
  /\ stage = [at |-> 0, sent |-> 0]
  /\ server = Empty
  /\ socket = [path \in Path |-> Closed]
  /\ view = None
  /\ page = [shown |-> None, fetch |-> Asked, dirty |-> FALSE]
  /\ lost = FALSE /\ faults = 0

Up == page.shown # None /\ socket["ui"].last # None

News == version + stage.sent < MaxNews

\* A command of the API saves, ...
Write ==
  /\ version < MaxWrites /\ News /\ ~unsaid /\ (Early \/ Up)
  /\ version' = version + 1 /\ unsaid' = TRUE
  /\ UNCHANGED <<wire, stage, server, socket, view, page, lost, faults>>

\* The socket has had the snapshot of the service as it runs now.
InStep(path) == socket[path].open /\ \A i \in DOMAIN socket[path].queue : ~socket[path].queue[i].ready

\* ... then publishes.  A page in step will hear of this change, now or when it
\* comes back, and so of every one before it.
Publish ==
  /\ unsaid /\ server.up
  /\ unsaid' = FALSE /\ wire' = Append(wire, Changed)
  /\ lost' = (lost /\ ~InStep("ui"))
  /\ UNCHANGED <<version, stage, server, socket, view, page, faults>>

\* Redis delivers to whoever is subscribed, and nobody is.
PublishToNobody ==
  /\ unsaid /\ (~server.up \/ faults < MaxFaults)
  /\ faults' = IF server.up THEN faults + 1 ELSE faults
  /\ unsaid' = FALSE /\ lost' = TRUE
  /\ UNCHANGED <<version, wire, stage, server, socket, view, page>>

\* The SyncStart service publishes what a lobby does: a song is selected, its
\* runs go on, and they are completed.
LobbyEvent(i, song) ==
  /\ stage.sent < MaxEvents /\ News
  /\ i = 1 \/ stage.at > 0
  /\ i # 2 => song # None
  /\ stage' = [at |-> i, sent |-> stage.sent + 1]
  /\ wire' = IF server.up THEN Append(wire, [event |-> Stages[i], song |-> song]) ELSE wire
  /\ UNCHANGED <<version, unsaid, server, socket, view, page, lost, faults>>

LobbyLeaves ==
  /\ stage.at > 0 /\ stage.sent < MaxEvents /\ News
  /\ stage' = [at |-> 0, sent |-> stage.sent + 1]
  /\ wire' = IF server.up THEN Append(wire, Gone) ELSE wire
  /\ UNCHANGED <<version, unsaid, server, socket, view, page, lost, faults>>

\* forward: the state takes the event, and each open socket its frame.
Forward ==
  /\ server.up /\ wire # <<>>
  /\ wire' = Tail(wire)
  /\ server' = apply(server, Head(wire))
  /\ LET live == IF Head(wire) = Gone THEN None ELSE server.live
     IN  socket' = [path \in Path |->
           IF socket[path].open
           THEN [socket[path] EXCEPT
                   !.queue = Append(@, Frame(FALSE, server.sequence + 1, mapRealtimeEvent(Head(wire), path, live)))]
           ELSE socket[path]]
  /\ UNCHANGED <<version, unsaid, stage, view, page, lost, faults>>

\* handleUpgrade: the snapshot is the first frame of the connection.
Connect(path) ==
  /\ server.up /\ ~socket[path].open
  /\ socket' = [socket EXCEPT ![path].open = TRUE, ![path].queue = <<ReadyFrame(path)>>]
  /\ UNCHANGED <<version, unsaid, wire, stage, server, view, page, lost, faults>>

\* Slip: what the broken connection had under way is still read.
HangsUnread(path) == [socket[path] EXCEPT !.open = FALSE, !.resumed = @ \/ socket[path].open]

Hangs(path) == [socket[path] EXCEPT !.open = FALSE, !.queue = <<>>, !.resumed = @ \/ socket[path].open]

\* A connection breaks with frames on their way.
Disconnect(path) ==
  /\ socket[path].open /\ faults < MaxFaults
  /\ socket' = [socket EXCEPT ![path] = Hangs(path)]
  /\ faults' = faults + 1
  /\ UNCHANGED <<version, unsaid, wire, stage, server, view, page, lost>>

\* The realtime service stops: its state, its sockets and what is published
\* until it is back are gone.
Stop ==
  /\ server.up /\ faults < MaxFaults
  /\ server' = [Empty EXCEPT !.up = FALSE]
  /\ wire' = <<>> /\ lost' = TRUE
  /\ socket' = [path \in Path |-> Hangs(path)]
  /\ faults' = faults + 1
  /\ UNCHANGED <<version, unsaid, stage, view, page>>

Start ==
  /\ ~server.up
  /\ server' = Empty
  /\ UNCHANGED <<version, unsaid, wire, stage, socket, view, page, lost, faults>>

-----------------------------------------------------------------------------
\* Slip: a gap is looked for in the stream only.
MissedInStream(s, frame) == ~frame.ready /\ s.last # None /\ frame.sequence > s.last + 1

\* The two cases a socket recovers from: it comes back to a sequence it has not
\* seen, or the stream skips one.
Missed(s, frame) ==
  IF frame.ready THEN s.resumed /\ (s.last = None \/ frame.sequence > s.last)
                 ELSE s.last # None /\ frame.sequence > s.last + 1

\* Slip: a snapshot counts as seen like any other frame.
DuplicateSnapshot(s, frame) == s.last # None /\ frame.sequence <= s.last

Duplicate(s, frame) == ~frame.ready /\ s.last # None /\ frame.sequence <= s.last

\* onmessage on the "live" socket: what is recovered from is cleared, and the
\* messages of a frame are shown one after the other, the last one staying.
ReceiveLive ==
  LET s == socket["live"]  frame == Head(s.queue)
  IN  /\ s.queue # <<>>
      /\ view' = IF Duplicate(s, frame) THEN view
                 ELSE IF frame.messages # <<>> THEN Last(frame.messages)
                 ELSE IF Missed(s, frame) THEN None ELSE view
      /\ socket' = [socket EXCEPT !["live"] =
                      [s EXCEPT !.queue = Tail(@), !.last = IF Duplicate(s, frame) THEN @ ELSE frame.sequence,
                                !.resumed = @ /\ ~frame.ready]]
      /\ UNCHANGED <<version, unsaid, wire, stage, server, page, lost, faults>>

\* onmessage on the "ui" socket: a recovery reads everything again at once, a
\* message of the stream after a moment, a replayed one never.
ReceiveUi ==
  LET s == socket["ui"]  frame == Head(s.queue)
      recovered == IF Missed(s, frame) THEN Invalidated(page) ELSE page
  IN  /\ s.queue # <<>>
      /\ page' = IF frame.messages # <<>> /\ ~frame.ready /\ ~Duplicate(s, frame)
                 THEN [recovered EXCEPT !.dirty = TRUE] ELSE recovered
      /\ socket' = [socket EXCEPT !["ui"] =
                      [s EXCEPT !.queue = Tail(@), !.last = IF Duplicate(s, frame) THEN @ ELSE frame.sequence,
                                !.resumed = @ /\ ~frame.ready]]
      /\ UNCHANGED <<version, unsaid, wire, stage, server, view, lost, faults>>

\* flushInvalidations, once the debounce timer fires.
Flush ==
  /\ page.dirty
  /\ page' = [Invalidated(page) EXCEPT !.dirty = FALSE]
  /\ UNCHANGED <<version, unsaid, wire, stage, server, socket, view, lost, faults>>

\* The API answers a read, and the answer arrives.
Read ==
  /\ page.fetch = Asked
  /\ page' = [page EXCEPT !.fetch = version]
  /\ UNCHANGED <<version, unsaid, wire, stage, server, socket, view, lost, faults>>

Arrive ==
  /\ page.fetch \notin {None, Asked}
  /\ page' = [page EXCEPT !.shown = page.fetch, !.fetch = None]
  /\ UNCHANGED <<version, unsaid, wire, stage, server, socket, view, lost, faults>>

-----------------------------------------------------------------------------
Source ==
  \/ Write \/ Publish \/ PublishToNobody \/ LobbyLeaves
  \/ \E i \in DOMAIN Stages, song \in Song \cup {None} : LobbyEvent(i, song)

Realtime == Forward \/ Start \/ \E path \in Path : Connect(path)
Browser  == ReceiveLive \/ ReceiveUi \/ Flush \/ Read \/ Arrive
Fault    == Stop \/ \E path \in Path : Disconnect(path)

Next == Source \/ Realtime \/ Browser \/ Fault

Spec == Init /\ [][Next]_vars

\* What a process or a timer does by itself, it does; nobody has to change
\* anything, and no fault has to happen.
Fairness ==
  /\ WF_vars(Publish \/ PublishToNobody) /\ WF_vars(Forward) /\ WF_vars(Start)
  /\ \A path \in Path : WF_vars(Connect(path))
  /\ WF_vars(ReceiveLive) /\ WF_vars(ReceiveUi)
  /\ WF_vars(Flush) /\ WF_vars(Read) /\ WF_vars(Arrive)

FairSpec == Spec /\ Fairness
=============================================================================
