---------------------------- MODULE LobbySessions ----------------------------
(***************************************************************************)
(* The lobbies one tournament follows: SyncStartClient, the LobbySessions  *)
(* it owns, the LobbyConnection under each, and the LobbyCatalog that      *)
(* lists them.  JavaScript runs one event at a time, so an action is what  *)
(* one event (a request, a socket event, a timer, a message, the end of an *)
(* awaited observer) does before the next one, the continuations of        *)
(* settled promises included (EndOfEvent).  A promise that is rejected     *)
(* while nothing awaits it ends the process.  An observer may reject: the  *)
(* publisher when Redis is away, the submitter when the API is.  The       *)
(* catalog is told of an event before any of them answers.                 *)
(* A definition under a comment "Slip:" is not the code: it is the one that *)
(* follows it with a plausible mistake in it.                              *)
(***************************************************************************)
EXTENDS Integers, Sequences, FiniteSets

CONSTANTS
  Session,    \* the LobbySessions the client may come to create
  Code,       \* lobby codes
  Command,    \* the events of the lobby commands: changeSong, startSong
  None,       \* no code, no session
  MaxQueue    \* bound: messages of a session that wait to be handled

ASSUME SessionsAssumption ==
  /\ None \notin Session \cup Code
  /\ Session \cap Code = {}
  /\ MaxQueue \in Nat \ {0}

VARIABLES
  ses,       \* [Session -> Session record]: session, connection and its caller
  members,   \* SyncStartClient.lobbySessions
  byCode,    \* SyncStartClient.lobbySessionsByCode
  shown,     \* LobbyCatalog.lobbyMeta: what each code is listed as
  closed,    \* the runtime was closed: its client takes no more requests
  down       \* the process ended

vars == <<ses, members, byCode, shown, closed, down>>

\* A promise is "lost" when nothing is left that could settle it.
Promise == {"none", "open", "kept", "broken", "lost"}
Call    == {"none", "activating", "opening", "waiting", "joined", "failed"}

(* A message of the server: the lobby state of a code, a disconnection, or *)
(* the response to a command.                                              *)
Message == {<<"state", c>> : c \in Code} \cup {<<"gone">>} \cup {<<"response", k>> : k \in Command}

SessionRecord ==
  [ mode      : {"create", "spectate"},
    lobby     : Code \cup {None},    \* the lobby the server serves
    code      : Code \cup {None},    \* currentLobbyCode
    call      : Call,                \* where connect() is
    dial      : Promise,             \* connectPromise
    result    : Promise,             \* pendingResult
    pending   : BOOLEAN,             \* pendingConnect is set, its timer runs
    commands  : SUBSET Command,      \* pendingCommands
    active    : BOOLEAN,
    connected : BOOLEAN,
    ws        : {"none", "connecting", "open"},
    asked     : {"no", "telling", "yes"},  \* createLobby, spectateLobby sent
    retry     : BOOLEAN,             \* reconnectTimer runs
    notified  : BOOLEAN,             \* connectedNotificationSent
    queue     : Seq(Message),        \* messageChain
    handler   : {"idle", "joining", "telling"}, \* what its head awaits
    closes    : Nat ]                \* closings whose observers still run

Unborn ==
  [ mode |-> "create", lobby |-> None, code |-> None, call |-> "none", dial |-> "none",
    result |-> "none", pending |-> FALSE, commands |-> {}, active |-> FALSE,
    connected |-> FALSE, ws |-> "none", asked |-> "no", retry |-> FALSE,
    notified |-> FALSE, queue |-> <<>>, handler |-> "idle", closes |-> 0 ]

Init ==
  /\ ses = [s \in Session |-> Unborn]
  /\ members = {}
  /\ byCode = [c \in Code |-> None]
  /\ shown = [c \in Code |-> "absent"]
  /\ closed = FALSE
  /\ down = FALSE

-----------------------------------------------------------------------------
(* Steps of a session that run within one event.                           *)

\* The catalog hears of a code before the publisher's promise is awaited.
Listed(list, code, as) == [c \in Code |-> IF c = code THEN as ELSE list[c]]

\* removeLobbySession
Without(codes, s) == [c \in Code |-> IF codes[c] = s THEN None ELSE codes[c]]

\* Slip: a rejected connect() stays pending, for a late first state to answer.
RejectKeepsPending(r) == [r EXCEPT !.result = IF r.pending THEN "broken" ELSE @]

\* rejectPendingConnect
RejectConnect(r) ==
  [r EXCEPT !.pending = FALSE, !.result = IF r.pending THEN "broken" ELSE @]

\* LobbyConnection.Disconnect, with the part of handleClose before its await
HangUp(r) ==
  [RejectConnect(r) EXCEPT
     !.commands = {}, !.active = FALSE, !.connected = FALSE, !.ws = "none",
     !.asked = "no", !.retry = FALSE, !.closes = IF r.code = None THEN @ ELSE @ + 1]

\* connect() goes on as soon as what it awaits is settled.
Awaiting(r) == IF r.call = "opening" /\ r.dial = "kept" THEN "waiting" ELSE r.call

CallFails(r) == \/ Awaiting(r) = "waiting" /\ r.result = "broken"
                \/ Awaiting(r) = "opening" /\ r.dial = "broken"

CallJoins(r) == Awaiting(r) = "waiting" /\ r.result = "kept"

\* A rejection that no await and no catch of connect() stands ready for.
Unhandled(r) == \/ r.call = "activating" /\ "broken" \in {r.dial, r.result}
                \/ Awaiting(r) = "opening" /\ r.result = "broken" /\ r.dial = "open"

\* The session once its caller went on: a call that fails closes it again.
Continued(r) ==
  IF CallFails(r) THEN [HangUp(r) EXCEPT !.call = "failed"]
  ELSE [r EXCEPT !.call = IF CallJoins(r) THEN "joined" ELSE Awaiting(r)]

\* The event leaves session s as r, the codes and the list as given; the
\* caller of connect() goes on, and a failed session is removed.
EndOfEvent(s, r, codes, list) ==
  /\ ses' = [ses EXCEPT ![s] = Continued(r)]
  /\ members' = IF CallFails(r) THEN members \ {s} ELSE members
  /\ byCode' = IF CallFails(r) THEN Without(codes, s) ELSE codes
  /\ shown' = IF CallFails(r) THEN Listed(list, r.code, "absent") ELSE list
  /\ down' = Unhandled(r)
  /\ UNCHANGED closed

Up == ~down

-----------------------------------------------------------------------------
(* Requests.                                                               *)

Dialled(mode, code) ==
  [Unborn EXCEPT !.mode = mode, !.lobby = code, !.code = code,
     !.call = IF code = None THEN "opening" ELSE "activating",
     !.dial = "open", !.result = "open", !.pending = TRUE,
     !.active = TRUE, !.ws = "connecting"]

CreateLobby(s) ==
  /\ Up /\ ~closed /\ ses[s].call = "none"
  /\ ses' = [ses EXCEPT ![s] = Dialled("create", None)]
  /\ members' = members \cup {s}
  /\ UNCHANGED <<byCode, shown, closed, down>>

SpectateLobby(s, c) ==
  /\ Up /\ ~closed /\ ses[s].call = "none"
  /\ byCode[c] = None
  /\ ses' = [ses EXCEPT ![s] = Dialled("spectate", c)]
  /\ members' = members \cup {s}
  /\ byCode' = [byCode EXCEPT ![c] = s]
  /\ shown' = [shown EXCEPT ![c] = "active"]
  /\ UNCHANGED <<closed, down>>

LeaveLobby(c) ==
  /\ Up /\ ~closed
  /\ byCode[c] # None
  /\ LET s == byCode[c] IN
     /\ ses' = [ses EXCEPT ![s] = Continued(HangUp(@))]
     /\ members' = members \ {s}
     /\ byCode' = Without(byCode, s)
     /\ shown' = Listed(shown, ses[s].code, "absent")
     /\ down' = Unhandled(HangUp(ses[s]))
     /\ UNCHANGED closed

\* Slip: only the sessions that have a code are disconnected.
CloseRegistered ==
  /\ Up /\ ~closed
  /\ closed' = TRUE
  /\ ses' = [s \in Session |->
               IF \E c \in Code : byCode[c] = s THEN Continued(HangUp(ses[s])) ELSE ses[s]]
  /\ members' = {}
  /\ byCode' = [c \in Code |-> None]
  /\ shown' = [c \in Code |-> "absent"]
  /\ down' = \E s \in members : Unhandled(HangUp(ses[s]))

\* DisconnectAll, and the catalog is cleared with the runtime.
CloseRuntime ==
  /\ Up /\ ~closed
  /\ closed' = TRUE
  /\ ses' = [s \in Session |->
               IF s \in members THEN Continued(HangUp(ses[s])) ELSE ses[s]]
  /\ members' = {}
  /\ byCode' = [c \in Code |-> None]
  /\ shown' = [c \in Code |-> "absent"]
  /\ down' = \E s \in members : Unhandled(HangUp(ses[s]))

\* changeSong, startSong: refused while one of its kind is pending, and when
\* the connection cannot send.
SendCommand(c, k) ==
  /\ Up /\ ~closed
  /\ byCode[c] # None
  /\ LET s == byCode[c] IN
     /\ k \notin ses[s].commands
     /\ ses[s].connected /\ ses[s].ws = "open"
     /\ ses' = [ses EXCEPT ![s].commands = @ \cup {k}]
  /\ UNCHANGED <<members, byCode, shown, closed, down>>

CommandTimesOut(s, k) ==
  /\ Up /\ k \in ses[s].commands
  /\ ses' = [ses EXCEPT ![s].commands = @ \ {k}]
  /\ UNCHANGED <<members, byCode, shown, closed, down>>

-----------------------------------------------------------------------------
(* Observers that were awaited.                                            *)

\* dispatchConnectionActive returns.
ActivationTold(s) ==
  /\ Up /\ ses[s].call = "activating"
  /\ EndOfEvent(s, [ses[s] EXCEPT !.call = "opening"], byCode, shown)

\* An observer of OnConnectionActive rejects: connect() throws before its try,
\* its caller hangs up, and a first state still waited for is rejected with
\* nobody to catch it.
ActivationRejected(s) ==
  /\ Up /\ ses[s].call = "activating"
  /\ ses' = [ses EXCEPT ![s] = [HangUp(@) EXCEPT !.call = "failed"]]
  /\ members' = members \ {s}
  /\ byCode' = Without(byCode, s)
  /\ shown' = Listed(shown, ses[s].code, "absent")
  /\ down' = (HangUp(ses[s]).result = "broken")
  /\ UNCHANGED closed

\* handleOpen was telling OnConnected and sends spectateLobby, unless the
\* connection closed meanwhile (the Send throws and is logged).
SpectateSent(s) ==
  /\ Up /\ ses[s].asked = "telling"
  /\ ses' = [ses EXCEPT ![s].asked = "yes"]
  /\ UNCHANGED <<members, byCode, shown, closed, down>>

\* An observer of OnConnected rejects: spectateLobby is never sent, and the open
\* callback is logged.
SpectateUnsent(s) ==
  /\ Up /\ ses[s].asked = "telling"
  /\ ses' = [ses EXCEPT ![s].asked = "no"]
  /\ UNCHANGED <<members, byCode, shown, closed, down>>

\* The observers of the state at the head are done; connect() gets its lobby.
HandlerDone(s) ==
  /\ Up /\ ses[s].handler # "idle"
  /\ EndOfEvent(s, [ses[s] EXCEPT !.handler = "idle",
                      !.result = IF ses[s].handler = "joining" THEN "kept" ELSE @],
                byCode, shown)

\* An observer of the state at the head rejects: the message is logged, and the
\* promise of connect(), if this was its first state, is not settled.
HandlerRejected(s) ==
  /\ Up /\ ses[s].handler # "idle"
  /\ ses' = [ses EXCEPT ![s].handler = "idle",
                        ![s].result = IF ses[s].handler = "joining" THEN "lost" ELSE @]
  /\ UNCHANGED <<members, byCode, shown, closed, down>>

\* Slip: the owner may hear of a closing before there is one.
ClosingToldEarly(s) ==
  /\ Up /\ ses[s].call # "none"
  /\ ses' = [ses EXCEPT ![s].closes = @ - 1]
  /\ members' = members \ {s}
  /\ byCode' = Without(byCode, s)
  /\ UNCHANGED <<shown, closed, down>>

\* handleClose: OnDisconnection returns, and the owner hears of the closing.
ClosingTold(s) ==
  /\ Up /\ ses[s].closes > 0
  /\ ses' = [ses EXCEPT ![s].closes = @ - 1]
  /\ members' = members \ {s}
  /\ byCode' = Without(byCode, s)
  /\ UNCHANGED <<shown, closed, down>>

\* OnDisconnection rejects: the closing is logged, the owner does not hear of it.
\* (Of a socket that closed by itself it ends the process: CloseUnheard.)
ClosingRejected(s) ==
  /\ Up /\ ses[s].closes > 0
  /\ ses' = [ses EXCEPT ![s].closes = @ - 1]
  /\ UNCHANGED <<members, byCode, shown, closed, down>>

-----------------------------------------------------------------------------
(* Messages, one at a time.                                                *)

Serves(r, msg) ==
  \/ msg[1] = "state" /\ (r.lobby = None \/ msg[2] = r.lobby)
  \/ msg[1] \in {"gone", "response"}

\* The server answers what it was asked, and goes on reporting the lobby.
Receive(s, msg) ==
  /\ Up /\ ses[s].ws = "open" /\ ses[s].asked = "yes"
  /\ Len(ses[s].queue) < MaxQueue
  /\ Serves(ses[s], msg)
  /\ ses' = [ses EXCEPT ![s].queue = Append(@, msg),
                        ![s].lobby = IF msg[1] = "state" THEN msg[2] ELSE @]
  /\ UNCHANGED <<members, byCode, shown, closed, down>>

\* messageChain goes on with its next message.
Taken(r) == [r EXCEPT !.queue = Tail(@)]

CanHandle(s) == Up /\ ses[s].handler = "idle" /\ ses[s].queue # <<>>

\* The owner refuses a code that another session has: the session closes.
RefuseState(s) ==
  LET c == Head(ses[s].queue)[2]
      r == HangUp([Taken(ses[s]) EXCEPT !.code = c])
  IN  /\ CanHandle(s) /\ Head(ses[s].queue)[1] = "state"
      /\ byCode[c] \notin {None, s}
      /\ EndOfEvent(s, r, byCode, Listed(shown, c, "absent"))

\* onLobbyCodeChanged: the session moves to the code it was told.
Registered(s, c) ==
  [d \in Code |-> IF d = c THEN s
                  ELSE IF d = ses[s].code /\ byCode[d] = s THEN None ELSE byCode[d]]

\* The first state answers connect() once the observers are told.
HandleState(s) ==
  LET c      == Head(ses[s].queue)[2]
      joins  == ses[s].pending
      tells  == joins /\ ~ses[s].notified
  IN  /\ CanHandle(s) /\ Head(ses[s].queue)[1] = "state"
      /\ byCode[c] \in {None, s}
      /\ EndOfEvent(s, [Taken(ses[s]) EXCEPT !.code = c, !.pending = FALSE,
                          !.notified = @ \/ tells,
                          !.handler = IF joins THEN "joining" ELSE "telling"],
                    Registered(s, c),
                    IF tells THEN Listed(shown, c, "connected") ELSE shown)

\* clientDisconnected closes an active session.
HandleGone(s) ==
  LET r == Taken(ses[s])
  IN  /\ CanHandle(s) /\ Head(ses[s].queue)[1] = "gone"
      /\ EndOfEvent(s, IF r.active THEN HangUp(r) ELSE r, byCode,
                    IF r.active THEN Listed(shown, r.code, "absent") ELSE shown)

\* responseStatus settles the pending command of that event, if there is one.
HandleResponse(s) ==
  /\ CanHandle(s) /\ Head(ses[s].queue)[1] = "response"
  /\ ses' = [ses EXCEPT ![s] = [Taken(ses[s]) EXCEPT !.commands = @ \ {Head(ses[s].queue)[2]}]]
  /\ UNCHANGED <<members, byCode, shown, closed, down>>

-----------------------------------------------------------------------------
(* Socket events and timers.                                               *)

\* open, and handleOpen: a creator asks at once, a spectator tells first.
SocketOpens(s) ==
  LET creates == ses[s].mode = "create"
  IN  /\ Up /\ ses[s].ws = "connecting"
      /\ EndOfEvent(s, [ses[s] EXCEPT !.ws = "open", !.active = TRUE, !.connected = TRUE,
                          !.dial = IF @ = "open" THEN "kept" ELSE @,
                          !.asked = IF creates THEN "yes" ELSE "telling",
                          !.notified = ~creates],
                    byCode,
                    IF creates THEN shown ELSE Listed(shown, ses[s].lobby, "connected"))

\* The first dial is refused: error event, both promises are rejected.
DialRefused(s) ==
  /\ Up /\ ses[s].ws = "connecting" /\ ses[s].dial = "open"
  /\ EndOfEvent(s, [RejectConnect(ses[s]) EXCEPT !.dial = "broken", !.active = FALSE],
                byCode, shown)

\* Slip: the commands of a connection outlive it when it is redialled.
SocketClosesOverCommands(s) ==
  LET redials == ses[s].active /\ ses[s].mode = "spectate"
      r       == ses[s]
  IN  /\ Up /\ r.ws \in {"connecting", "open"} /\ r.dial = "kept"
      /\ IF redials
         THEN EndOfEvent(s, [RejectConnect(r) EXCEPT !.connected = FALSE,
                               !.ws = "none", !.asked = "no", !.retry = TRUE],
                         byCode, Listed(shown, r.code, "active"))
         ELSE EndOfEvent(s, HangUp(r), byCode, Listed(shown, r.code, "absent"))

\* close of an open socket, or of a redial that failed: a spectator redials.
SocketCloses(s) ==
  LET redials == ses[s].active /\ ses[s].mode = "spectate"
      r       == ses[s]
  IN  /\ Up /\ r.ws \in {"connecting", "open"} /\ r.dial = "kept"
      /\ IF redials
         THEN EndOfEvent(s, [RejectConnect(r) EXCEPT !.commands = {}, !.connected = FALSE,
                               !.ws = "none", !.asked = "no", !.retry = TRUE],
                         byCode, Listed(shown, r.code, "active"))
         ELSE EndOfEvent(s, HangUp(r), byCode, Listed(shown, r.code, "absent"))

\* The socket closes, and an observer rejects: nothing awaits that closing.
CloseUnheard(s) ==
  /\ Up /\ ses[s].ws \in {"connecting", "open"} /\ ses[s].dial = "kept"
  /\ ses[s].code # None
  /\ down' = TRUE
  /\ UNCHANGED <<ses, members, byCode, shown, closed>>

Redial(s) ==
  /\ Up /\ ses[s].retry /\ ses[s].active
  /\ ses' = [ses EXCEPT ![s].retry = FALSE, ![s].ws = "connecting"]
  /\ UNCHANGED <<members, byCode, shown, closed, down>>

\* Slip: the timer hangs up and leaves it to the closing to reject connect().
StateTimesOutUnanswered(s) ==
  LET r == HangUp([ses[s] EXCEPT !.pending = FALSE])
  IN  /\ Up /\ ses[s].pending
      /\ EndOfEvent(s, r, byCode, Listed(shown, r.code, "absent"))

\* Ten seconds without a first state.
StateTimesOut(s) ==
  LET r == [HangUp([ses[s] EXCEPT !.pending = FALSE]) EXCEPT !.result = "broken"]
  IN  /\ Up /\ ses[s].pending
      /\ EndOfEvent(s, r, byCode, Listed(shown, r.code, "absent"))

-----------------------------------------------------------------------------

Request ==
  \/ CloseRuntime
  \/ \E s \in Session : CreateLobby(s)
  \/ \E s \in Session, c \in Code : SpectateLobby(s, c)
  \/ \E c \in Code : LeaveLobby(c)
  \/ \E c \in Code, k \in Command : SendCommand(c, k)

HandleMessage(s) == HandleState(s) \/ RefuseState(s) \/ HandleGone(s) \/ HandleResponse(s)

\* What awaits observers goes on, with their answer or their rejection.
ActivationEnds(s) == ActivationTold(s) \/ ActivationRejected(s)
HandlerEnds(s) == HandlerDone(s) \/ HandlerRejected(s)

Observed(s) ==
  \/ ActivationEnds(s) \/ HandlerEnds(s)
  \/ SpectateSent(s) \/ SpectateUnsent(s)
  \/ ClosingTold(s) \/ ClosingRejected(s)

Timer(s) == StateTimesOut(s) \/ Redial(s) \/ \E k \in Command : CommandTimesOut(s, k)

Socket(s) ==
  SocketOpens(s) \/ DialRefused(s) \/ SocketCloses(s) \/ CloseUnheard(s) \/ \E msg \in Message : Receive(s, msg)

Next ==
  Request \/ \E s \in Session : HandleMessage(s) \/ Observed(s) \/ Timer(s) \/ Socket(s)

\* Awaited observers return or reject, and the timer of a first state fires.
\* Nothing obliges the server to answer, or an observer not to reject.
Fairness ==
  \A s \in Session :
    /\ WF_vars(ActivationEnds(s))
    /\ WF_vars(HandlerEnds(s))
    /\ WF_vars(StateTimesOut(s))

Spec == Init /\ [][Next]_vars /\ Fairness

-----------------------------------------------------------------------------
(* Properties.                                                             *)

TypeOK ==
  /\ ses \in [Session -> SessionRecord]
  /\ members \subseteq Session
  /\ byCode \in [Code -> Session \cup {None}]
  /\ shown \in [Code -> {"absent", "active", "connected"}]
  /\ closed \in BOOLEAN /\ down \in BOOLEAN

\* The two registries agree with the sessions.  An active session is one that
\* the client still owns, under the code it follows: two sessions never follow
\* one lobby (its songs would be completed twice), and no redialling session is
\* out of the operator's reach.  And a lobby is listed as connected only while
\* some session has it open, across closings, redials, first states that arrive
\* late and lobbies left meanwhile.
FollowedIsRegistered ==
  \A s \in Session : ses[s].active =>
    s \in members /\ (ses[s].code # None => byCode[ses[s].code] = s)

ListedIsFollowed ==
  \A c \in Code : shown[c] = "connected" =>
    \E s \in Session : ses[s].connected /\ ses[s].ws = "open" /\ c \in {ses[s].code, ses[s].lobby}

RegistriesAgree == Up => FollowedIsRegistered /\ ListedIsFollowed

\* Closing a runtime leaves no socket, no timer and no command of it behind,
\* the sessions that were still connecting included.
ClosedHoldsNothing ==
  Up /\ closed => \A s \in Session :
    /\ ~ses[s].active /\ ses[s].ws = "none"
    /\ ~ses[s].retry /\ ~ses[s].pending /\ ses[s].commands = {}

\* A command waits for its answer only while the connection it was sent on is
\* open: no answer of a later connection can settle it.
CommandsOfThisConnection ==
  \A s \in Session : Up /\ ses[s].commands # {} => ses[s].connected

\* Whoever waits for a lobby is still owed an answer: what connect() awaits is not
\* settled behind its back, and while it is not settled the timer of the first
\* state runs or that state is being told.  Neither a closing, nor a redial, nor a
\* late state, nor a leave may take the last of these away unanswered.  The one
\* exception is an observer of the first state that rejects, which leaves
\* connect() with nothing to settle it (lobby-session.ts:188).
NoCallIsForgotten ==
  \A s \in Session : Up =>
    /\ ses[s].call \in {"opening", "waiting"} => ses[s].result \in {"open", "lost"}
    /\ ses[s].result = "open" => ses[s].pending \/ ses[s].handler = "joining"

\* Whoever asked for a lobby hears of it or of a failure: what NoCallIsForgotten
\* comes to under Fairness.  (Without a run of its own.)
EveryCallAnswered ==
  \A s \in Session :
    ses[s].call # "none" ~>
      ses[s].call \in {"joined", "failed"} \/ ses[s].result = "lost" \/ down

\* No rejection ends the process that serves every tournament.
StaysUp == Up
=============================================================================
