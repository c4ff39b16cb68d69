------------------------- MODULE LobbySessionsProofs -------------------------
(***************************************************************************)
(* The lobby sessions of a tournament, for any sessions, codes, commands   *)
(* and any order of events: the registries agree with the sessions, a      *)
(* closed runtime holds nothing, no command outlives its connection, and   *)
(* nobody who waits for a lobby is forgotten.                              *)
(***************************************************************************)
EXTENDS LobbySessions, SequenceTheorems, TLAPS

-----------------------------------------------------------------------------
(***************************************************************************)
(* The inductive invariant.                                                *)
(***************************************************************************)

\* No socket, no timer, nobody who waits for an answer.
Quiet(r) == r.ws = "none" /\ ~r.retry /\ ~r.pending /\ r.commands = {}

\* While the first dial goes on, connect() has not come to await its result, no
\* state was heard, and one is waited for unless connect() was rejected.
Dialling(r) ==
  r.dial = "open" =>
    /\ r.call \in {"activating", "opening"} /\ r.handler # "joining"
    /\ r.pending \/ r.result = "broken"

\* A session by itself: an open socket was dialled and is a connection, what
\* redials has no socket, what has a socket or a timer is active, and what was
\* never dialled or was hung up is not; who waits for a first state has messages
\* of this connection only.
Sound(r) ==
  /\ Dialling(r)
  /\ r.ws = "open" => r.connected /\ r.dial # "open"
  /\ r.retry => r.ws = "none"
  /\ r.commands # {} => r.connected
  /\ ~r.active => Quiet(r)
  /\ r.call = "none" \/ r.closes > 0 => ~r.active
  /\ r.pending /\ r.queue # <<>> => r.ws = "open"

\* A session follows one lobby: the code it is registered under, and those in
\* its messages, are the lobby that the server serves it.
OneLobby(r) ==
  /\ r.code # None => r.code = r.lobby
  /\ r.mode = "spectate" => r.code # None
  /\ \A i \in DOMAIN r.queue : r.queue[i][1] = "state" => r.queue[i][2] = r.lobby

\* The client owns session s, as r, under its code.
OwnedAs(s, r, owned, codes) == r.active => s \in owned /\ (r.code # None => codes[r.code] = s)

\* The lobby c is open on the session r.
OpenOn(r, c) == r.connected /\ r.ws = "open" /\ r.code = c

ListedIsOpen == \A c \in Code : shown[c] = "connected" => \E s \in Session : OpenOn(ses[s], c)

Kept ==
  /\ \A s \in Session : Sound(ses[s]) /\ OneLobby(ses[s]) /\ OwnedAs(s, ses[s], members, byCode)
  /\ closed => \A s \in Session : ~ses[s].active
  /\ ListedIsOpen

Inv == TypeOK /\ (Up => Kept)

-----------------------------------------------------------------------------
(***************************************************************************)
(* What the pieces of an event do to one session.                          *)
(***************************************************************************)

\* Hanging up leaves nothing running, and what the session follows alone.
LEMMA HangUpEffect ==
  ASSUME NEW r \in SessionRecord
  PROVE  /\ HangUp(r) \in SessionRecord
         /\ Quiet(HangUp(r)) /\ ~HangUp(r).active /\ ~HangUp(r).connected
         /\ HangUp(r).result = IF r.pending THEN "broken" ELSE r.result
         /\ \A f \in {"queue", "code", "lobby", "mode", "call", "dial", "handler"} : HangUp(r)[f] = r[f]
<1> DEFINE j == RejectConnect(r)
<1>1. /\ j \in SessionRecord /\ ~j.pending /\ j.result = IF r.pending THEN "broken" ELSE r.result
      /\ \A f \in {"queue", "code", "lobby", "mode", "call", "dial", "handler"} : j[f] = r[f]
  BY DEF RejectConnect, SessionRecord, Promise
<1>2. HangUp(r) = [j EXCEPT !.commands = {}, !.active = FALSE, !.connected = FALSE, !.ws = "none",
                            !.asked = "no", !.retry = FALSE, !.closes = IF r.code = None THEN @ ELSE @ + 1]
  BY DEF HangUp
<1>3. j.closes \in Nat /\ (IF r.code = None THEN j.closes ELSE j.closes + 1) \in Nat
  BY <1>1 DEF SessionRecord
<1> HIDE DEF j
<1>4. HangUp(r) \in SessionRecord
  BY <1>1, <1>2, <1>3 DEF SessionRecord
<1> QED BY <1>1, <1>2, <1>4 DEF SessionRecord, Quiet

LEMMA ContinuedType ==
  ASSUME NEW r \in SessionRecord
  PROVE  Continued(r) \in SessionRecord
<1>1. CASE CallFails(r)
  <2> DEFINE h == HangUp(r)
  <2>1. h \in SessionRecord /\ Continued(r) = [h EXCEPT !.call = "failed"]
    BY <1>1, HangUpEffect DEF Continued
  <2> HIDE DEF h
  <2> QED BY <2>1 DEF SessionRecord, Call
<1>2. CASE ~CallFails(r)
  BY <1>2 DEF Continued, Awaiting, SessionRecord, Call
<1> QED BY <1>1, <1>2

\* Whose call fails is hung up; nobody else changes in what Sound speaks of.
LEMMA ContinuedSound ==
  ASSUME NEW r \in SessionRecord, Dialling(r),
         CallFails(r) \/ Sound(r)
  PROVE  Sound(Continued(r))
<1>1. CASE CallFails(r)
  <2> DEFINE h == HangUp(r)
  <2>1. /\ h \in SessionRecord /\ Quiet(h) /\ ~h.active /\ ~h.connected
        /\ h.dial = r.dial /\ r.dial # "open"
    BY <1>1, HangUpEffect DEF CallFails, Awaiting, Dialling
  <2>2. Continued(r) = [h EXCEPT !.call = "failed"]
    BY <1>1 DEF Continued
  <2> HIDE DEF h
  <2> QED BY <2>1, <2>2 DEF Sound, Dialling, Quiet, SessionRecord
<1>2. CASE ~CallFails(r)
  <2>1. /\ r.dial = "open" => Continued(r).call \in {"activating", "opening"}
        /\ Continued(r).call = "none" => r.call = "none"
    BY <1>2 DEF Continued, CallJoins, Awaiting, Dialling, SessionRecord
  <2>2. \A f \in {"dial", "handler", "pending", "result", "ws", "connected", "retry", "commands", "active",
                  "closes", "queue"} : Continued(r)[f] = r[f]
    BY <1>2 DEF Continued, SessionRecord
  <2> QED BY <1>2, <2>1, <2>2 DEF Sound, Dialling, Quiet
<1> QED BY <1>1, <1>2

LEMMA ContinuedLobby ==
  ASSUME NEW r \in SessionRecord, OneLobby(r)
  PROVE  OneLobby(Continued(r))
<1>1. CASE CallFails(r)
  <2> DEFINE h == HangUp(r)
  <2>1. h \in SessionRecord /\ h.queue = r.queue /\ h.code = r.code /\ h.lobby = r.lobby /\ h.mode = r.mode
    BY HangUpEffect
  <2>2. Continued(r) = [h EXCEPT !.call = "failed"]
    BY <1>1 DEF Continued
  <2> HIDE DEF h
  <2> QED BY <2>1, <2>2 DEF OneLobby, SessionRecord
<1>2. CASE ~CallFails(r)
  BY <1>2 DEF Continued, OneLobby, SessionRecord
<1> QED BY <1>1, <1>2

\* A message that is taken was about the lobby the session follows.
LEMMA TakenEffect ==
  ASSUME NEW r \in SessionRecord, r.queue # <<>>, OneLobby(r)
  PROVE  /\ Taken(r) \in SessionRecord /\ OneLobby(Taken(r))
         /\ Head(r.queue) \in Message
         /\ Head(r.queue)[1] = "state" => Head(r.queue)[2] = r.lobby /\ r.lobby \in Code
         /\ Sound(r) => Sound(Taken(r))
         /\ \A f \in {"code", "lobby", "mode", "call", "dial", "handler", "result", "active", "ws", "connected", "pending"} : Taken(r)[f] = r[f]
<1>1. r.queue \in Seq(Message)
  BY DEF SessionRecord
<1>2. /\ Tail(r.queue) \in Seq(Message) /\ Head(r.queue) \in Message /\ Head(r.queue) = r.queue[1]
      /\ 1 \in DOMAIN r.queue /\ \A i \in DOMAIN Tail(r.queue) : i + 1 \in DOMAIN r.queue /\ Tail(r.queue)[i] = r.queue[i + 1]
  BY <1>1
<1>3. Taken(r) \in SessionRecord
  BY <1>2 DEF Taken, SessionRecord
<1>4. OneLobby(Taken(r))
  BY <1>2 DEF Taken, OneLobby, SessionRecord
<1>5. Head(r.queue)[1] = "state" => Head(r.queue)[2] = r.lobby /\ r.lobby \in Code
  BY <1>2 DEF OneLobby, Message
<1>6. Sound(r) => Sound(Taken(r))
  BY DEF Taken, Sound, Dialling, Quiet, SessionRecord
<1> QED BY <1>2, <1>3, <1>4, <1>5, <1>6 DEF Taken, SessionRecord

(***************************************************************************)
(* An event keeps the invariant if it leaves its session sound and owned,  *)
(* or fails its call, takes no code from another session, and lists as     *)
(* connected nothing that is not open.                                     *)
(***************************************************************************)
LEMMA EndOfEventKept ==
  ASSUME Inv, Up, NEW s \in Session, NEW r \in SessionRecord,
         NEW codes \in [Code -> Session \cup {None}],
         NEW list \in [Code -> {"absent", "active", "connected"}],
         EndOfEvent(s, r, codes, list),
         Dialling(r),
         OneLobby(r),
         \/ Unhandled(r) \/ CallFails(r)
         \/ Sound(r) /\ OwnedAs(s, r, members, codes) /\ (closed => ~r.active),
         \A t \in Session \ {s} : OwnedAs(t, ses[t], members, codes),
         \A c \in Code : list[c] = "connected" =>
           OpenOn(r, c) \/ \E t \in Session \ {s} : OpenOn(ses[t], c)
  PROVE  Inv'
<1> USE DEF EndOfEvent
<1>1. /\ ses' = [ses EXCEPT ![s] = Continued(r)] /\ ses \in [Session -> SessionRecord]
      /\ ses'[s] = Continued(r) /\ \A t \in Session \ {s} : ses'[t] = ses[t]
  BY DEF Inv, TypeOK
<1>2. TypeOK'
  <2>1. ses' \in [Session -> SessionRecord]
    BY <1>1, ContinuedType
  <2>2. members' \subseteq Session /\ byCode' \in [Code -> Session \cup {None}]
    BY DEF Inv, TypeOK, Without
  <2>3. shown' \in [Code -> {"absent", "active", "connected"}]
    BY DEF Listed
  <2> QED BY <2>1, <2>2, <2>3 DEF Inv, TypeOK, Unhandled
<1> SUFFICES ASSUME ~Unhandled(r) PROVE Kept'
  BY <1>2 DEF Inv, Up
<1>3. CallFails(r) \/ Sound(r)
  OBVIOUS
<1>4. Sound(ses'[s]) /\ OneLobby(ses'[s])
  BY <1>1, <1>3, ContinuedSound, ContinuedLobby
<1>5. \A t \in Session \ {s} : Sound(ses'[t]) /\ OneLobby(ses'[t]) /\ (closed => ~ses'[t].active)
  BY <1>1 DEF Inv, Kept
<1>6. CASE CallFails(r)
  <2>1. ~ses'[s].active
    <3>1. HangUp(r) \in SessionRecord /\ ~HangUp(r).active
      BY HangUpEffect
    <3> QED BY <1>1, <1>6, <3>1 DEF Continued, SessionRecord
  <2>2. \A t \in Session \ {s} : OwnedAs(t, ses'[t], members', byCode')
    BY <1>1, <1>6 DEF OwnedAs, Without, Inv, TypeOK, SessionRecord
  <2>3. ListedIsOpen'
    <3> SUFFICES ASSUME NEW c \in Code, shown'[c] = "connected"
                 PROVE  \E t \in Session : OpenOn(ses'[t], c)
      BY DEF ListedIsOpen, OpenOn
    <3>1. list[c] = "connected" /\ c # r.code
      BY <1>6 DEF Listed
    <3>2. ~OpenOn(r, c)
      BY <3>1 DEF OpenOn
    <3> QED BY <1>1, <3>1, <3>2
  <2> QED BY <1>4, <1>5, <2>1, <2>2, <2>3 DEF Kept, OwnedAs
<1>7. CASE ~CallFails(r)
  <2>1. \A f \in {"active", "code", "connected", "ws"} : ses'[s][f] = r[f]
    BY <1>1, <1>7 DEF Continued, SessionRecord
  <2>2. \A t \in Session : OwnedAs(t, ses'[t], members', byCode')
    BY <1>1, <1>7, <2>1 DEF OwnedAs
  <2>3. ListedIsOpen'
    BY <1>1, <1>7, <2>1 DEF ListedIsOpen, OpenOn
  <2> QED BY <1>4, <1>5, <1>7, <2>1, <2>2, <2>3 DEF Kept
<1> QED BY <1>6, <1>7

\* What the invariant says of a session before its event.
LEMMA Before ==
  ASSUME Inv, Up, NEW s \in Session
  PROVE  /\ ses \in [Session -> SessionRecord] /\ ses[s] \in SessionRecord
         /\ Sound(ses[s]) /\ OneLobby(ses[s]) /\ OwnedAs(s, ses[s], members, byCode)
         /\ closed => ~ses[s].active
         /\ members \subseteq Session /\ byCode \in [Code -> Session \cup {None}]
         /\ shown \in [Code -> {"absent", "active", "connected"}]
         /\ \A t \in Session \ {s} : OwnedAs(t, ses[t], members, byCode)
         /\ \A c \in Code : shown[c] = "connected" =>
              OpenOn(ses[s], c) \/ \E t \in Session \ {s} : OpenOn(ses[t], c)
<1>1. ses \in [Session -> SessionRecord] /\ ses[s] \in SessionRecord
  BY DEF Inv, TypeOK
<1>2. \A c \in Code : shown[c] = "connected" =>
        OpenOn(ses[s], c) \/ \E t \in Session \ {s} : OpenOn(ses[t], c)
  BY DEF Inv, Kept, ListedIsOpen
<1> QED BY <1>1, <1>2 DEF Inv, Kept, TypeOK

\* A session that was hung up, once its caller went on.
LEMMA HungUp ==
  ASSUME NEW r \in SessionRecord, OneLobby(r), Dialling(r)
  PROVE  /\ Sound(HangUp(r)) /\ OneLobby(HangUp(r))
         /\ LET n == Continued(HangUp(r))
            IN  n \in SessionRecord /\ Sound(n) /\ OneLobby(n) /\ ~n.active
<1> DEFINE h == HangUp(r)
<1>1. /\ h \in SessionRecord /\ Quiet(h) /\ ~h.active /\ ~h.connected /\ h.queue = r.queue /\ h.code = r.code
      /\ h.lobby = r.lobby /\ h.mode = r.mode /\ h.call = r.call /\ h.dial = r.dial
      /\ h.handler = r.handler /\ h.result = IF r.pending THEN "broken" ELSE r.result
  BY HangUpEffect
<1> HIDE DEF h
<1>2. Sound(h) /\ OneLobby(h) /\ Dialling(h)
  <2>1. Dialling(h)
    BY <1>1 DEF Dialling
  <2>2. OneLobby(h)
    BY <1>1 DEF OneLobby
  <2>3. h.call = "none" \/ h.closes > 0 => ~h.active
    BY <1>1
  <2> QED BY <1>1, <2>1, <2>2, <2>3 DEF Sound, Quiet
<1>3. Continued(h) \in SessionRecord /\ Sound(Continued(h)) /\ OneLobby(Continued(h))
  BY <1>1, <1>2, ContinuedType, ContinuedSound, ContinuedLobby
<1>4. ~Continued(h).active
  <2>1. HangUp(h) \in SessionRecord /\ ~HangUp(h).active
    BY <1>1, HangUpEffect
  <2> QED BY <1>1, <2>1 DEF Continued, SessionRecord
<1> QED BY <1>2, <1>3, <1>4 DEF h

\* An event that leaves its session quiet and delists its code.
LEMMA ClosingKept ==
  ASSUME Inv, Up, NEW s \in Session, NEW r \in SessionRecord,
         NEW list \in [Code -> {"absent", "active", "connected"}],
         EndOfEvent(s, r, byCode, list),
         Sound(r), OneLobby(r), ~r.active,
         \A c \in Code : list[c] = "connected" => shown[c] = "connected" /\ c # ses[s].code
  PROVE  Inv'
<1>1. \A c \in Code : list[c] = "connected" => \E t \in Session \ {s} : OpenOn(ses[t], c)
  BY Before DEF OpenOn
<1> QED BY <1>1, Before, EndOfEventKept DEF Sound, Dialling, OwnedAs

\* A step that changes one session, closes nothing that is open on it and
\* leaves the list alone.
LEMMA SessionKept ==
  ASSUME Inv, Up, NEW s \in Session, NEW r \in SessionRecord,
         ses' = [ses EXCEPT ![s] = r], members' \in {members, members \ {s}},
         byCode' \in {byCode, Without(byCode, s)}, UNCHANGED <<shown, closed, down>>,
         Sound(r), OneLobby(r), OwnedAs(s, r, members', byCode'), closed => ~r.active,
         \A c \in Code : OpenOn(ses[s], c) => OpenOn(r, c)
  PROVE  Inv'
<1>1. ses'[s] = r /\ \A t \in Session \ {s} : ses'[t] = ses[t]
  BY Before
<1>2. TypeOK'
  BY DEF Inv, TypeOK, Without
<1>3. \A t \in Session \ {s} : OwnedAs(t, ses'[t], members', byCode')
  <2> SUFFICES ASSUME NEW t \in Session \ {s} PROVE OwnedAs(t, ses[t], members', byCode')
    BY <1>1
  <2>1. OwnedAs(t, ses[t], members, byCode) /\ ses[t].code \in Code \cup {None}
    BY Before DEF SessionRecord
  <2> QED BY <2>1 DEF OwnedAs, Without
<1>4. ListedIsOpen'
  BY <1>1, Before DEF ListedIsOpen, OpenOn
<1> QED BY <1>1, <1>2, <1>3, <1>4 DEF Inv, Kept, Up

-----------------------------------------------------------------------------
(***************************************************************************)
(* Every action keeps the invariant.                                       *)
(***************************************************************************)

LEMMA SendCommandKeeps ==
  ASSUME Inv, NEW c \in Code, NEW k \in Command, SendCommand(c, k)
  PROVE  Inv'
<1> DEFINE s == byCode[c]
           r == [ses[s] EXCEPT !.commands = @ \cup {k}]
<1>1. s \in Session /\ Up
  BY DEF SendCommand, Inv, TypeOK
<1>2. ses[s] \in SessionRecord /\ Sound(ses[s]) /\ OneLobby(ses[s]) /\ ses[s].active
  BY <1>1, Before DEF SendCommand, Sound, Dialling, Quiet
<1>3. r \in SessionRecord /\ Sound(r) /\ OneLobby(r) /\ r.active /\ r.code = ses[s].code
  BY <1>2 DEF SendCommand, SessionRecord, Sound, Dialling, Quiet, OneLobby
<1>4. ses' = [ses EXCEPT ![s] = r] /\ UNCHANGED <<members, byCode, shown, closed, down>>
  BY <1>1, Before DEF SendCommand
<1>5. \A d \in Code : OpenOn(ses[s], d) => OpenOn(r, d)
  BY <1>2 DEF OpenOn, SessionRecord
<1>6. OwnedAs(s, r, members', byCode') /\ (closed => ~r.active)
  BY <1>1, <1>2, <1>3, <1>4, Before DEF OwnedAs
<1> HIDE DEF s, r
<1> QED BY <1>1, <1>3, <1>4, <1>5, <1>6, SessionKept

LEMMA CommandTimesOutKeeps ==
  ASSUME Inv, NEW s \in Session, NEW k \in Command, CommandTimesOut(s, k)
  PROVE  Inv'
<1> DEFINE r == [ses[s] EXCEPT !.commands = @ \ {k}]
<1>1. Up /\ ses' = [ses EXCEPT ![s] = r] /\ UNCHANGED <<members, byCode, shown, closed, down>>
  BY Before DEF CommandTimesOut
<1>2. ses[s] \in SessionRecord /\ Sound(ses[s]) /\ OneLobby(ses[s])
  BY <1>1, Before
<1>3. /\ r \in SessionRecord /\ Sound(r) /\ OneLobby(r) /\ r.active = ses[s].active /\ r.code = ses[s].code
      /\ \A d \in Code : OpenOn(ses[s], d) => OpenOn(r, d)
  BY <1>2 DEF SessionRecord, Sound, Dialling, Quiet, OneLobby, OpenOn
<1>4. OwnedAs(s, r, members', byCode') /\ (closed => ~r.active)
  BY <1>1, <1>3, Before DEF OwnedAs
<1> HIDE DEF r
<1> QED BY <1>1, <1>3, <1>4, SessionKept

LEMMA SpectateSentKeeps ==
  ASSUME Inv, NEW s \in Session, SpectateSent(s)
  PROVE  Inv'
<1> DEFINE r == [ses[s] EXCEPT !.asked = "yes"]
<1>1. Up /\ ses' = [ses EXCEPT ![s] = r] /\ UNCHANGED <<members, byCode, shown, closed, down>>
  BY Before DEF SpectateSent
<1>2. ses[s] \in SessionRecord /\ Sound(ses[s]) /\ OneLobby(ses[s])
  BY <1>1, Before
<1>3. /\ r \in SessionRecord /\ Sound(r) /\ OneLobby(r) /\ r.active = ses[s].active /\ r.code = ses[s].code
      /\ \A d \in Code : OpenOn(ses[s], d) => OpenOn(r, d)
  BY <1>2 DEF SessionRecord, Sound, Dialling, Quiet, OneLobby, OpenOn
<1>4. OwnedAs(s, r, members', byCode') /\ (closed => ~r.active)
  BY <1>1, <1>3, Before DEF OwnedAs
<1> HIDE DEF r
<1> QED BY <1>1, <1>3, <1>4, SessionKept

\* What was asked for is not asked for after all.
LEMMA SpectateUnsentKeeps ==
  ASSUME Inv, NEW s \in Session, SpectateUnsent(s)
  PROVE  Inv'
<1> DEFINE r == [ses[s] EXCEPT !.asked = "no"]
<1>1. Up /\ ses' = [ses EXCEPT ![s] = r] /\ UNCHANGED <<members, byCode, shown, closed, down>>
  BY Before DEF SpectateUnsent
<1>2. ses[s] \in SessionRecord /\ Sound(ses[s]) /\ OneLobby(ses[s])
  BY <1>1, Before
<1>3. /\ r \in SessionRecord /\ Sound(r) /\ OneLobby(r) /\ r.active = ses[s].active /\ r.code = ses[s].code
      /\ \A d \in Code : OpenOn(ses[s], d) => OpenOn(r, d)
  BY <1>2 DEF SessionRecord, Sound, Dialling, Quiet, OneLobby, OpenOn
<1>4. OwnedAs(s, r, members', byCode') /\ (closed => ~r.active)
  BY <1>1, <1>3, Before DEF OwnedAs
<1> HIDE DEF r
<1> QED BY <1>1, <1>3, <1>4, SessionKept

\* The promise of a first state is lost, and nothing else moves.
LEMMA HandlerRejectedKeeps ==
  ASSUME Inv, NEW s \in Session, HandlerRejected(s)
  PROVE  Inv'
<1> DEFINE result == IF ses[s].handler = "joining" THEN "lost" ELSE ses[s].result
           r == [ses[s] EXCEPT !.handler = "idle", !.result = result]
<1>1. ses[s] \in SessionRecord /\ Sound(ses[s]) /\ OneLobby(ses[s])
  BY Before DEF HandlerRejected
<1>2. Up /\ ses' = [ses EXCEPT ![s] = r] /\ UNCHANGED <<members, byCode, shown, closed, down>>
  BY <1>1, Before DEF HandlerRejected, SessionRecord
<1>3. result \in Promise /\ (ses[s].handler # "joining" => result = ses[s].result)
  BY <1>1 DEF SessionRecord, Promise
<1> HIDE DEF result
<1>4. /\ r \in SessionRecord /\ r.handler = "idle" /\ r.result = result
      /\ \A f \in {"mode", "lobby", "code", "call", "dial", "active", "connected", "ws", "retry", "pending",
                    "commands", "queue", "closes"} : r[f] = ses[s][f]
  BY <1>1, <1>3 DEF SessionRecord
<1> HIDE DEF r
<1>5. Sound(r) /\ OneLobby(r)
  BY <1>1, <1>3, <1>4 DEF Sound, Dialling, Quiet, OneLobby
<1>6. /\ OwnedAs(s, r, members', byCode') /\ (closed => ~r.active)
      /\ \A d \in Code : OpenOn(ses[s], d) => OpenOn(r, d)
  BY <1>2, <1>4, Before DEF OwnedAs, OpenOn
<1> QED BY <1>2, <1>4, <1>5, <1>6, SessionKept

\* The owner does not hear of a closing: that session is not active any more.
LEMMA ClosingRejectedKeeps ==
  ASSUME Inv, NEW s \in Session, ClosingRejected(s)
  PROVE  Inv'
<1> DEFINE r == [ses[s] EXCEPT !.closes = @ - 1]
<1>1. /\ Up /\ ses' = [ses EXCEPT ![s] = r] /\ UNCHANGED <<members, byCode, shown, closed, down>>
      /\ ses[s].closes > 0
  BY Before DEF ClosingRejected
<1>2. ses[s] \in SessionRecord /\ Sound(ses[s]) /\ OneLobby(ses[s]) /\ ~ses[s].active
  BY <1>1, Before DEF Sound
<1>3. ses[s].closes \in Nat /\ ses[s].closes - 1 \in Nat
  BY <1>1, <1>2 DEF SessionRecord
<1>4. /\ r \in SessionRecord /\ Sound(r) /\ OneLobby(r) /\ ~r.active
      /\ \A d \in Code : OpenOn(ses[s], d) => OpenOn(r, d)
  BY <1>2, <1>3 DEF SessionRecord, Sound, Dialling, Quiet, OneLobby, OpenOn
<1>5. OwnedAs(s, r, members', byCode')
  BY <1>4 DEF OwnedAs
<1> HIDE DEF r
<1> QED BY <1>1, <1>4, <1>5, SessionKept

\* A process that ended keeps its types.
LEMMA CloseUnheardKeeps ==
  ASSUME Inv, NEW s \in Session, CloseUnheard(s)
  PROVE  Inv'
BY DEF CloseUnheard, Inv, TypeOK, Up

\* The owner hears of a closing: that session has nothing left to own.
LEMMA ClosingToldKeeps ==
  ASSUME Inv, NEW s \in Session, ClosingTold(s)
  PROVE  Inv'
<1> DEFINE r == [ses[s] EXCEPT !.closes = @ - 1]
<1>1. /\ Up /\ ses' = [ses EXCEPT ![s] = r] /\ members' = members \ {s} /\ byCode' = Without(byCode, s)
      /\ UNCHANGED <<shown, closed, down>> /\ ses[s].closes > 0
  BY Before DEF ClosingTold
<1>2. ses[s] \in SessionRecord /\ Sound(ses[s]) /\ OneLobby(ses[s]) /\ ~ses[s].active
  BY <1>1, Before DEF Sound, Dialling
<1>3. ses[s].closes \in Nat /\ ses[s].closes - 1 \in Nat
  BY <1>1, <1>2 DEF SessionRecord
<1>4. /\ r \in SessionRecord /\ Sound(r) /\ OneLobby(r) /\ ~r.active
      /\ \A d \in Code : OpenOn(ses[s], d) => OpenOn(r, d)
  BY <1>2, <1>3 DEF SessionRecord, Sound, Dialling, Quiet, OneLobby, OpenOn
<1>5. OwnedAs(s, r, members', byCode')
  BY <1>4 DEF OwnedAs
<1> HIDE DEF r
<1> QED BY <1>1, <1>4, <1>5, SessionKept

LEMMA AppendAt ==
  ASSUME NEW S, NEW q \in Seq(S), NEW m \in S
  PROVE  /\ Append(q, m) \in Seq(S) /\ Append(q, m) # <<>> /\ DOMAIN Append(q, m) = 1..Len(q) + 1
         /\ \A i \in DOMAIN Append(q, m) : Append(q, m)[i] = IF i = Len(q) + 1 THEN m ELSE q[i]
         /\ DOMAIN q = 1..Len(q)
OBVIOUS

\* A message joins the queue of an open socket, about the lobby that is served.
LEMMA ReceiveKeeps ==
  ASSUME Inv, NEW s \in Session, NEW msg \in Message, Receive(s, msg)
  PROVE  Inv'
<1> DEFINE lobby == IF msg[1] = "state" THEN msg[2] ELSE ses[s].lobby
           q == Append(ses[s].queue, msg)
           r == [ses[s] EXCEPT !.queue = q, !.lobby = lobby]
<1>1. Up /\ ses' = [ses EXCEPT ![s] = r] /\ UNCHANGED <<members, byCode, shown, closed, down>>
  BY Before DEF Receive
<1>2. /\ ses[s] \in SessionRecord /\ Sound(ses[s]) /\ OneLobby(ses[s])
      /\ ses[s].ws = "open" /\ ses[s].queue \in Seq(Message) /\ ses[s].lobby \in Code \cup {None}
      /\ Serves(ses[s], msg)
  BY <1>1, Before DEF SessionRecord, Receive
<1>3. lobby \in Code \cup {None} /\ (ses[s].lobby # None => lobby = ses[s].lobby)
  BY <1>2 DEF Message, Serves
<1>4. /\ q \in Seq(Message) /\ q # <<>> /\ DOMAIN q = 1..Len(ses[s].queue) + 1
      /\ \A i \in DOMAIN q : q[i] = IF i = Len(ses[s].queue) + 1 THEN msg ELSE ses[s].queue[i]
      /\ DOMAIN ses[s].queue = 1..Len(ses[s].queue)
  BY <1>2, AppendAt
<1>5. \A i \in DOMAIN ses[s].queue : ses[s].queue[i][1] = "state" => ses[s].queue[i][2] = ses[s].lobby /\ ses[s].lobby # None
  BY <1>2, SessionsAssumption DEF OneLobby, Message
<1>6. \A i \in DOMAIN q : q[i][1] = "state" => q[i][2] = lobby
  <2> SUFFICES ASSUME NEW i \in DOMAIN q, q[i][1] = "state" PROVE q[i][2] = lobby
    OBVIOUS
  <2>1. CASE i = Len(ses[s].queue) + 1
    BY <1>4, <2>1
  <2>2. CASE i # Len(ses[s].queue) + 1
    BY <1>2, <1>3, <1>4, <1>5, <2>2
  <2> QED BY <2>1, <2>2
<1> HIDE DEF q, lobby
<1>7. /\ r \in SessionRecord /\ r.queue = q /\ r.lobby = lobby
      /\ \A f \in {"mode", "code", "call", "dial", "handler", "result", "active", "connected", "ws", "retry", "pending", "commands", "closes"} :
           r[f] = ses[s][f]
  BY <1>2, <1>3, <1>4 DEF SessionRecord
<1> HIDE DEF r
<1>8. Sound(r)
  BY <1>2, <1>7 DEF Sound, Dialling, Quiet
<1>9. OneLobby(r)
  BY <1>2, <1>3, <1>6, <1>7 DEF OneLobby
<1>10. OwnedAs(s, r, members', byCode') /\ (closed => ~r.active)
  BY <1>1, <1>7, Before DEF OwnedAs
<1>11. \A d \in Code : OpenOn(ses[s], d) => OpenOn(r, d)
  BY <1>7 DEF OpenOn
<1> QED BY <1>1, <1>7, <1>8, <1>9, <1>10, <1>11, SessionKept

LEMMA HandleResponseKeeps ==
  ASSUME Inv, NEW s \in Session, HandleResponse(s)
  PROVE  Inv'
<1> DEFINE t == Taken(ses[s])
           k == Head(ses[s].queue)[2]
           r == [t EXCEPT !.commands = @ \ {k}]
<1>1. Up /\ UNCHANGED <<members, byCode, shown, closed, down>> /\ ses[s].queue # <<>>
  BY DEF HandleResponse, CanHandle
<1>2. ses' = [ses EXCEPT ![s] = r]
  BY Zenon DEF HandleResponse
<1>3. ses[s] \in SessionRecord /\ Sound(ses[s]) /\ OneLobby(ses[s])
  BY <1>1, Before
<1>4. /\ t \in SessionRecord /\ Sound(t) /\ OneLobby(t)
      /\ \A f \in {"code", "active", "ws", "connected"} : t[f] = ses[s][f]
  BY <1>1, <1>3, TakenEffect
<1> HIDE DEF t, k
<1>5. /\ r \in SessionRecord /\ Sound(r) /\ OneLobby(r) /\ r.active = ses[s].active /\ r.code = ses[s].code
      /\ r.ws = ses[s].ws /\ r.connected = ses[s].connected
  BY <1>4 DEF SessionRecord, Sound, Dialling, Quiet, OneLobby
<1> HIDE DEF r
<1>6. OwnedAs(s, r, members', byCode') /\ (closed => ~r.active)
  BY <1>1, <1>5, Before DEF OwnedAs
<1>7. \A d \in Code : OpenOn(ses[s], d) => OpenOn(r, d)
  BY <1>5 DEF OpenOn
<1> QED BY <1>1, <1>2, <1>5, <1>6, <1>7, SessionKept

\* A redial is of a session that has nothing open, so nobody waits on it.
LEMMA RedialKeeps ==
  ASSUME Inv, NEW s \in Session, Redial(s)
  PROVE  Inv'
<1> DEFINE r == [ses[s] EXCEPT !.retry = FALSE, !.ws = "connecting"]
<1>1. Up /\ ses' = [ses EXCEPT ![s] = r] /\ UNCHANGED <<members, byCode, shown, closed, down>>
  BY Before DEF Redial
<1>2. ses[s] \in SessionRecord /\ Sound(ses[s]) /\ OneLobby(ses[s]) /\ ses[s].active /\ ses[s].retry
  BY <1>1, Before DEF Redial
<1>3. ses[s].ws = "none" /\ ses[s].closes = 0 /\ ~(ses[s].pending /\ ses[s].queue # <<>>)
  BY <1>2 DEF Sound, Dialling, SessionRecord
<1>4. /\ r \in SessionRecord /\ r.ws = "connecting" /\ ~r.retry
      /\ \A f \in {"mode", "lobby", "code", "call", "dial", "handler", "result", "active", "connected", "pending", "commands", "queue", "closes"} :
           r[f] = ses[s][f]
  BY <1>2 DEF SessionRecord
<1> HIDE DEF r
<1>5. Sound(r) /\ OneLobby(r)
  BY <1>2, <1>3, <1>4 DEF Sound, Dialling, OneLobby
<1>6. OwnedAs(s, r, members', byCode') /\ (closed => ~r.active)
  BY <1>1, <1>2, <1>4, Before DEF OwnedAs
<1>7. \A d \in Code : OpenOn(ses[s], d) => OpenOn(r, d)
  BY <1>3 DEF OpenOn
<1> QED BY <1>1, <1>5, <1>4, <1>6, <1>7, SessionKept

\* An event that leaves the registries alone, and its session as active and as
\* open as it was.
LEMMA SameKept ==
  ASSUME Inv, Up, NEW s \in Session, NEW r \in SessionRecord,
         EndOfEvent(s, r, byCode, shown), Sound(r), OneLobby(r),
         \A f \in {"code", "active", "ws", "connected"} : r[f] = ses[s][f]
  PROVE  Inv'
<1>1. OwnedAs(s, r, members, byCode) /\ (closed => ~r.active)
  BY Before DEF OwnedAs
<1>2. \A c \in Code : shown[c] = "connected" =>
        OpenOn(r, c) \/ \E t \in Session \ {s} : OpenOn(ses[t], c)
  BY Before DEF OpenOn
<1> QED BY <1>1, <1>2, Before, EndOfEventKept DEF Sound, Dialling

LEMMA ActivationToldKeeps ==
  ASSUME Inv, NEW s \in Session, ActivationTold(s)
  PROVE  Inv'
<1> DEFINE r == [ses[s] EXCEPT !.call = "opening"]
<1>1. Up /\ EndOfEvent(s, r, byCode, shown) /\ ses[s].call = "activating"
  BY DEF ActivationTold
<1>2. ses[s] \in SessionRecord /\ Sound(ses[s]) /\ OneLobby(ses[s])
  BY <1>1, Before
<1>3. /\ r \in SessionRecord /\ Sound(r) /\ OneLobby(r)
      /\ \A f \in {"code", "active", "ws", "connected"} : r[f] = ses[s][f]
  BY <1>1, <1>2 DEF SessionRecord, Call, Sound, Dialling, Quiet, OneLobby
<1> HIDE DEF r
<1> QED BY <1>1, <1>3, SameKept

LEMMA HandlerDoneKeeps ==
  ASSUME Inv, NEW s \in Session, HandlerDone(s)
  PROVE  Inv'
<1> DEFINE result == IF ses[s].handler = "joining" THEN "kept" ELSE ses[s].result
           r == [ses[s] EXCEPT !.handler = "idle", !.result = result]
<1>1. Up /\ EndOfEvent(s, r, byCode, shown)
  BY DEF HandlerDone
<1>2. ses[s] \in SessionRecord /\ Sound(ses[s]) /\ OneLobby(ses[s])
  BY <1>1, Before
<1>3. result \in Promise /\ (ses[s].handler # "joining" => result = ses[s].result)
  BY <1>2 DEF SessionRecord, Promise
<1> HIDE DEF result
<1>4. /\ r \in SessionRecord /\ r.handler = "idle" /\ r.result = result
      /\ \A f \in {"mode", "lobby", "code", "call", "dial", "active", "connected", "ws", "retry", "pending",
                    "commands", "queue", "closes"} : r[f] = ses[s][f]
  BY <1>2, <1>3 DEF SessionRecord
<1> HIDE DEF r
<1>5. Sound(r) /\ OneLobby(r)
  BY <1>2, <1>3, <1>4 DEF Sound, Dialling, Quiet, OneLobby
<1> QED BY <1>1, <1>4, <1>5, SameKept

\* A refused code was that of the lobby the session follows, if it has one yet.
LEMMA RefuseStateKeeps ==
  ASSUME Inv, NEW s \in Session, RefuseState(s)
  PROVE  Inv'
<1> DEFINE c == Head(ses[s].queue)[2]
           t == Taken(ses[s])
           m == [t EXCEPT !.code = c]
<1>1. /\ Up /\ EndOfEvent(s, HangUp(m), byCode, Listed(shown, c, "absent"))
      /\ ses[s].queue # <<>> /\ Head(ses[s].queue)[1] = "state"
  BY DEF RefuseState, CanHandle
<1>2. ses[s] \in SessionRecord /\ Sound(ses[s]) /\ OneLobby(ses[s]) /\ shown \in [Code -> {"absent", "active", "connected"}]
  BY <1>1, Before
<1>3. t \in SessionRecord /\ Sound(t) /\ OneLobby(t) /\ t.lobby = c /\ c \in Code
  BY <1>1, <1>2, TakenEffect
<1> HIDE DEF t
<1>4. m \in SessionRecord /\ OneLobby(m) /\ Dialling(m)
  BY <1>3 DEF SessionRecord, Sound, Dialling, OneLobby
<1>5. ses[s].code # None => ses[s].code = c
  BY <1>1, <1>2, TakenEffect DEF OneLobby
<1> HIDE DEF m, c
<1>6. HangUp(m) \in SessionRecord /\ Sound(HangUp(m)) /\ OneLobby(HangUp(m)) /\ ~HangUp(m).active
  BY <1>4, HungUp, HangUpEffect
<1>7. Listed(shown, c, "absent") \in [Code -> {"absent", "active", "connected"}]
  BY <1>2 DEF Listed
<1>8. \A d \in Code : Listed(shown, c, "absent")[d] = "connected" => shown[d] = "connected" /\ d # ses[s].code
  BY <1>5, SessionsAssumption DEF Listed
<1> QED BY <1>1, <1>6, <1>7, <1>8, ClosingKept

\* The code that a state registers was nobody else's, and it is the code of the
\* lobby that the session has open.
LEMMA HandleStateKeeps ==
  ASSUME Inv, NEW s \in Session, HandleState(s)
  PROVE  Inv'
<1> DEFINE c     == Head(ses[s].queue)[2]
           joins == ses[s].pending
           tells == joins /\ ~ses[s].notified
           t     == Taken(ses[s])
           told  == t.notified \/ tells
           next  == IF joins THEN "joining" ELSE "telling"
           r     == [t EXCEPT !.code = c, !.pending = FALSE, !.notified = told, !.handler = next]
           codes == Registered(s, c)
           list  == IF tells THEN Listed(shown, c, "connected") ELSE shown
<1>1. /\ Up /\ EndOfEvent(s, r, codes, list) /\ byCode[c] \in {None, s}
      /\ ses[s].queue # <<>> /\ Head(ses[s].queue)[1] = "state"
  BY DEF HandleState, CanHandle
<1>2. ses[s] \in SessionRecord /\ Sound(ses[s]) /\ OneLobby(ses[s])
  BY <1>1, Before
<1>3. /\ t \in SessionRecord /\ Sound(t) /\ OneLobby(t) /\ t.lobby = c /\ c \in Code
      /\ ses[s].lobby = c
      /\ \A f \in {"code", "active", "ws", "connected", "pending", "dial", "result", "handler"} : t[f] = ses[s][f]
  BY <1>1, <1>2, TakenEffect
<1>4. (ses[s].code # None => ses[s].code = c) /\ (joins => ses[s].ws = "open" /\ ses[s].connected)
  BY <1>1, <1>2, <1>3 DEF OneLobby, Sound, Dialling
<1>5. codes \in [Code -> Session \cup {None}] /\ list \in [Code -> {"absent", "active", "connected"}]
  BY <1>1, <1>3, Before DEF Registered, Listed
<1>6. told \in BOOLEAN /\ next \in {"joining", "telling"} /\ (~joins => next # "joining")
  BY <1>3 DEF SessionRecord
<1> HIDE DEF t, c, told, next
<1>7. /\ r \in SessionRecord /\ r.code = c /\ ~r.pending /\ r.handler = next
      /\ \A f \in {"mode", "lobby", "call", "dial", "result", "active", "connected", "ws", "retry", "commands", "queue", "closes"} :
           r[f] = t[f]
  BY <1>3, <1>6 DEF SessionRecord
<1> HIDE DEF r
<1>8. Sound(r) /\ OneLobby(r)
  <2>1. joins => t.dial # "open"
    BY <1>2, <1>3, <1>4 DEF Sound
  <2>2. Dialling(r)
    BY <1>3, <1>6, <1>7, <2>1 DEF Sound, Dialling
  <2> QED BY <1>3, <1>7, <2>2, SessionsAssumption DEF Sound, Quiet, OneLobby
<1>9. OwnedAs(s, r, members, codes) /\ (closed => ~r.active)
  BY <1>1, <1>3, <1>7, Before DEF OwnedAs, Registered
<1>10. \A u \in Session \ {s} : OwnedAs(u, ses[u], members, codes)
  <2> SUFFICES ASSUME NEW u \in Session \ {s} PROVE OwnedAs(u, ses[u], members, codes)
    OBVIOUS
  <2>1. OwnedAs(u, ses[u], members, byCode) /\ ses[u].code \in Code \cup {None} /\ u # None
    BY <1>1, Before, SessionsAssumption DEF SessionRecord
  <2> QED BY <1>1, <2>1 DEF OwnedAs, Registered
<1>11. \A d \in Code : list[d] = "connected" =>
         OpenOn(r, d) \/ \E u \in Session \ {s} : OpenOn(ses[u], d)
  <2> SUFFICES ASSUME NEW d \in Code, list[d] = "connected", ~OpenOn(r, d)
               PROVE  \E u \in Session \ {s} : OpenOn(ses[u], d)
    OBVIOUS
  <2>1. ~OpenOn(ses[s], d)
    BY <1>3, <1>4, <1>7, SessionsAssumption DEF OpenOn
  <2>2. tells => d # c
    BY <1>3, <1>4, <1>7 DEF OpenOn
  <2>3. shown[d] = "connected"
    BY <2>2 DEF Listed
  <2> QED BY <1>1, <2>1, <2>3, Before
<1> QED BY <1>1, <1>5, <1>7, <1>8, <1>9, <1>10, <1>11, EndOfEventKept DEF Sound, Dialling

LEMMA HandleGoneKeeps ==
  ASSUME Inv, NEW s \in Session, HandleGone(s)
  PROVE  Inv'
<1> DEFINE t == Taken(ses[s])
<1>1. /\ Up /\ ses[s].queue # <<>>
      /\ EndOfEvent(s, IF t.active THEN HangUp(t) ELSE t, byCode,
                    IF t.active THEN Listed(shown, t.code, "absent") ELSE shown)
  BY DEF HandleGone, CanHandle
<1>2. ses[s] \in SessionRecord /\ Sound(ses[s]) /\ OneLobby(ses[s])
  BY <1>1, Before
<1>3. /\ t \in SessionRecord /\ Sound(t) /\ OneLobby(t)
      /\ \A f \in {"code", "active", "ws", "connected"} : t[f] = ses[s][f]
  BY <1>1, <1>2, TakenEffect
<1> HIDE DEF t
<1>4. CASE t.active
  <2>1. HangUp(t) \in SessionRecord /\ Sound(HangUp(t)) /\ OneLobby(HangUp(t)) /\ ~HangUp(t).active
    BY <1>3, HungUp, HangUpEffect DEF Sound, Dialling
  <2>2. Listed(shown, t.code, "absent") \in [Code -> {"absent", "active", "connected"}]
    BY <1>1, Before DEF Listed
  <2>3. \A d \in Code : Listed(shown, t.code, "absent")[d] = "connected" => shown[d] = "connected" /\ d # ses[s].code
    BY <1>3 DEF Listed
  <2>4. EndOfEvent(s, HangUp(t), byCode, Listed(shown, t.code, "absent"))
    BY <1>1, <1>4
  <2> QED BY <1>1, <2>1, <2>2, <2>3, <2>4, ClosingKept
<1>5. CASE ~t.active
  <2>1. EndOfEvent(s, t, byCode, shown)
    BY <1>1, <1>5
  <2> QED BY <1>1, <1>3, <2>1, SameKept
<1> QED BY <1>4, <1>5

\* A socket that opens is a connection, and lists a spectator's lobby.
LEMMA SocketOpensKeeps ==
  ASSUME Inv, NEW s \in Session, SocketOpens(s)
  PROVE  Inv'
<1> DEFINE creates == ses[s].mode = "create"
           dial    == IF ses[s].dial = "open" THEN "kept" ELSE ses[s].dial
           asked   == IF creates THEN "yes" ELSE "telling"
           told    == ~creates
           o       == [ses[s] EXCEPT !.ws = "open", !.active = TRUE, !.connected = TRUE]
           r       == [o EXCEPT !.dial = dial, !.asked = asked, !.notified = told]
           list    == IF creates THEN shown ELSE Listed(shown, ses[s].lobby, "connected")
<1>1. Up /\ EndOfEvent(s, r, byCode, list) /\ ses[s].ws = "connecting"
  BY DEF SocketOpens
<1>2. ses[s] \in SessionRecord /\ Sound(ses[s]) /\ OneLobby(ses[s]) /\ ses[s].active
  BY <1>1, Before DEF Sound, Dialling, Quiet
<1>3. dial \in Promise \ {"open"} /\ asked \in {"no", "telling", "yes"} /\ told \in BOOLEAN
  BY <1>2 DEF SessionRecord, Promise
<1>4. ~creates => ses[s].lobby = ses[s].code /\ ses[s].code # None
  BY <1>2 DEF SessionRecord, OneLobby
<1>5. list \in [Code -> {"absent", "active", "connected"}]
  BY <1>1, Before DEF Listed
<1> HIDE DEF dial, asked, told, creates
<1>6. /\ o \in SessionRecord /\ o.ws = "open" /\ o.active /\ o.connected
      /\ \A f \in {"mode", "lobby", "code", "call", "retry", "pending", "commands", "queue", "closes"} :
           o[f] = ses[s][f]
  BY <1>2 DEF SessionRecord
<1> HIDE DEF o
<1>7. /\ r \in SessionRecord /\ r.ws = "open" /\ r.active /\ r.connected /\ r.dial # "open"
      /\ \A f \in {"mode", "lobby", "code", "call", "retry", "pending", "commands", "queue", "closes"} :
           r[f] = ses[s][f]
  BY <1>3, <1>6 DEF SessionRecord
<1> HIDE DEF r
<1>8. Sound(r) /\ OneLobby(r)
  BY <1>1, <1>2, <1>7 DEF Sound, Dialling, OneLobby
<1>9. OwnedAs(s, r, members, byCode) /\ (closed => ~r.active)
  BY <1>1, <1>2, <1>7, Before DEF OwnedAs
<1>10. \A c \in Code : list[c] = "connected" =>
        OpenOn(r, c) \/ \E t \in Session \ {s} : OpenOn(ses[t], c)
  <2> SUFFICES ASSUME NEW c \in Code, list[c] = "connected", ~OpenOn(r, c)
               PROVE  \E t \in Session \ {s} : OpenOn(ses[t], c)
    OBVIOUS
  <2>1. shown[c] = "connected" /\ ~OpenOn(ses[s], c)
    BY <1>1, <1>4, <1>7 DEF OpenOn, Listed
  <2> QED BY <1>1, <2>1, Before
<1> HIDE DEF list
<1> QED BY <1>1, <1>5, <1>7, <1>8, <1>9, <1>10, Before, EndOfEventKept DEF Dialling

\* A refused dial fails the call that awaits it, or rejects a promise that
\* nobody awaits.
LEMMA DialRefusedKeeps ==
  ASSUME Inv, NEW s \in Session, DialRefused(s)
  PROVE  Inv'
<1> DEFINE j == RejectConnect(ses[s])
           r == [j EXCEPT !.dial = "broken", !.active = FALSE]
<1>1. Up /\ EndOfEvent(s, r, byCode, shown) /\ ses[s].ws = "connecting" /\ ses[s].dial = "open"
  BY DEF DialRefused
<1>2. ses[s] \in SessionRecord /\ Sound(ses[s]) /\ OneLobby(ses[s]) /\ ses[s].call \in {"activating", "opening"}
  BY <1>1, Before DEF Sound, Dialling
<1>3. /\ j \in SessionRecord
      /\ \A f \in {"mode", "lobby", "code", "call", "queue"} : j[f] = ses[s][f]
  BY <1>2 DEF RejectConnect, SessionRecord, Promise
<1> HIDE DEF j
<1>4. /\ r \in SessionRecord /\ r.dial = "broken"
      /\ \A f \in {"mode", "lobby", "code", "call", "queue"} : r[f] = ses[s][f]
  BY <1>3 DEF SessionRecord, Promise
<1> HIDE DEF r
<1>5. OneLobby(r)
  BY <1>2, <1>4 DEF OneLobby
<1>6. Unhandled(r) \/ CallFails(r)
  BY <1>2, <1>4 DEF Unhandled, CallFails, Awaiting
<1>7. \A c \in Code : shown[c] = "connected" => \E t \in Session \ {s} : OpenOn(ses[t], c)
  BY <1>1, Before DEF OpenOn
<1>8. Dialling(r)
  BY <1>4 DEF Dialling
<1> QED BY <1>1, <1>4, <1>5, <1>6, <1>7, <1>8, Before, EndOfEventKept

\* A closing that hangs its session up, as it was or with its timer cleared.
LEMMA HangingUpKept ==
  ASSUME Inv, Up, NEW s \in Session, NEW r \in SessionRecord,
         EndOfEvent(s, r, byCode, Listed(shown, ses[s].code, "absent")),
         Sound(r), OneLobby(r), ~r.active
  PROVE  Inv'
<1>1. Listed(shown, ses[s].code, "absent") \in [Code -> {"absent", "active", "connected"}]
  BY Before DEF Listed
<1>2. \A d \in Code : Listed(shown, ses[s].code, "absent")[d] = "connected" => shown[d] = "connected" /\ d # ses[s].code
  BY DEF Listed
<1> QED BY <1>1, <1>2, ClosingKept

LEMMA SocketClosesKeeps ==
  ASSUME Inv, NEW s \in Session, SocketCloses(s)
  PROVE  Inv'
<1>1. Up /\ ses[s].ws \in {"connecting", "open"} /\ ses[s].dial = "kept"
  BY DEF SocketCloses
<1>2. ses[s] \in SessionRecord /\ Sound(ses[s]) /\ OneLobby(ses[s])
  BY <1>1, Before
<1>3. CASE ses[s].active /\ ses[s].mode = "spectate"
  <2> DEFINE j    == RejectConnect(ses[s])
             r    == [j EXCEPT !.commands = {}, !.connected = FALSE, !.ws = "none", !.asked = "no", !.retry = TRUE]
             list == Listed(shown, ses[s].code, "active")
  <2>1. /\ j \in SessionRecord /\ ~j.pending
        /\ \A f \in {"mode", "lobby", "code", "call", "dial", "active", "queue", "closes"} : j[f] = ses[s][f]
    BY <1>2 DEF RejectConnect, SessionRecord, Promise
  <2>2. r.code = ses[s].code
    BY <2>1 DEF SessionRecord, RejectConnect
  <2>3. EndOfEvent(s, r, byCode, list)
    BY <1>3, <2>2 DEF SocketCloses
  <2> HIDE DEF j
  <2>4. /\ r \in SessionRecord /\ r.ws = "none" /\ r.commands = {} /\ ~r.pending
        /\ \A f \in {"mode", "lobby", "code", "call", "dial", "active", "queue", "closes"} : r[f] = ses[s][f]
    BY <2>1 DEF SessionRecord
  <2> HIDE DEF r
  <2>5. Sound(r) /\ OneLobby(r)
    BY <1>1, <1>2, <1>3, <2>4 DEF Sound, Dialling, OneLobby
  <2>6. OwnedAs(s, r, members, byCode) /\ (closed => ~r.active)
    BY <1>1, <2>4, Before DEF OwnedAs
  <2>7. list \in [Code -> {"absent", "active", "connected"}]
    BY <1>1, Before DEF Listed
  <2>8. \A c \in Code : list[c] = "connected" => \E t \in Session \ {s} : OpenOn(ses[t], c)
    <3> SUFFICES ASSUME NEW c \in Code, list[c] = "connected" PROVE \E t \in Session \ {s} : OpenOn(ses[t], c)
      OBVIOUS
    <3>1. shown[c] = "connected" /\ ~OpenOn(ses[s], c)
      BY DEF OpenOn, Listed
    <3> QED BY <1>1, <3>1, Before
  <2> HIDE DEF list
  <2>9. Dialling(r)
    BY <2>5 DEF Sound
  <2> QED BY <1>1, <2>3, <2>4, <2>5, <2>6, <2>7, <2>8, <2>9, Before, EndOfEventKept
<1>4. CASE ~(ses[s].active /\ ses[s].mode = "spectate")
  <2> DEFINE h == HangUp(ses[s])
  <2>1. EndOfEvent(s, h, byCode, Listed(shown, ses[s].code, "absent"))
    BY <1>4 DEF SocketCloses
  <2>2. h \in SessionRecord /\ Sound(h) /\ OneLobby(h) /\ ~h.active
    BY <1>2, HungUp, HangUpEffect DEF Sound, Dialling
  <2> HIDE DEF h
  <2> QED BY <1>1, <2>1, <2>2, HangingUpKept
<1> QED BY <1>3, <1>4

LEMMA StateTimesOutKeeps ==
  ASSUME Inv, NEW s \in Session, StateTimesOut(s)
  PROVE  Inv'
<1> DEFINE m == [ses[s] EXCEPT !.pending = FALSE]
           h == HangUp(m)
           r == [h EXCEPT !.result = "broken"]
<1>1. Up
  BY DEF StateTimesOut
<1>2. ses[s] \in SessionRecord /\ Sound(ses[s]) /\ OneLobby(ses[s])
  BY <1>1, Before
<1>3. /\ m \in SessionRecord /\ ~m.pending
      /\ \A f \in {"mode", "lobby", "code", "call", "dial", "handler", "result", "active", "connected", "ws", "retry", "commands", "queue", "closes"} :
           m[f] = ses[s][f]
  BY <1>2 DEF SessionRecord
<1>4. EndOfEvent(s, r, byCode, Listed(shown, r.code, "absent"))
  BY DEF StateTimesOut
<1> HIDE DEF m
<1>5. OneLobby(m)
  BY <1>2, <1>3 DEF OneLobby
<1>6. /\ h \in SessionRecord /\ Quiet(h) /\ ~h.active /\ ~h.connected
      /\ \A f \in {"queue", "code", "lobby", "mode", "call", "dial", "handler"} : h[f] = m[f]
  BY <1>3, HangUpEffect
<1> HIDE DEF h
<1>7. /\ r \in SessionRecord /\ r.result = "broken"
      /\ \A f \in {"mode", "lobby", "code", "call", "dial", "handler", "active", "connected", "ws", "retry", "pending",
                    "commands", "queue", "closes"} : r[f] = h[f]
  BY <1>6 DEF SessionRecord, Promise
<1> HIDE DEF r
<1>8. Sound(r) /\ OneLobby(r) /\ ~r.active /\ r.code = ses[s].code
  BY <1>2, <1>3, <1>5, <1>6, <1>7 DEF Sound, Dialling, Quiet, OneLobby
<1> QED BY <1>1, <1>4, <1>7, <1>8, HangingUpKept

\* A session that was never dialled has nothing.
LEMMA DialledEffect ==
  ASSUME NEW code \in Code \cup {None}, NEW mode \in {"create", "spectate"}, mode = "spectate" => code # None
  PROVE  LET r == Dialled(mode, code)
         IN  r \in SessionRecord /\ Sound(r) /\ OneLobby(r) /\ r.active /\ r.code = code
<1> DEFINE call == IF code = None THEN "opening" ELSE "activating"
           a == [Unborn EXCEPT !.mode = mode, !.lobby = code, !.code = code, !.call = call, !.dial = "open"]
           b == [a EXCEPT !.result = "open", !.pending = TRUE, !.active = TRUE, !.ws = "connecting"]
<1>1. call \in Call /\ call \in {"activating", "opening"}
  BY DEF Call
<1>2. <<>> \in Seq(Message) /\ DOMAIN <<>> = {} /\ {} \in SUBSET Command
  OBVIOUS
<1>3. Dialled(mode, code) = b
  BY DEF Dialled
<1> HIDE DEF call
<1>4. /\ a \in SessionRecord /\ a.mode = mode /\ a.lobby = code /\ a.code = code /\ a.call = call
      /\ a.commands = {} /\ a.closes = 0 /\ a.queue = <<>> /\ ~a.retry /\ a.handler = "idle"
  BY <1>1, <1>2 DEF Unborn, SessionRecord, Promise
<1> HIDE DEF a
<1>5. /\ b \in SessionRecord /\ b.ws = "connecting" /\ b.active /\ b.pending
      /\ \A f \in {"mode", "lobby", "code", "call", "commands", "closes", "queue", "retry", "handler"} : b[f] = a[f]
  BY <1>4 DEF SessionRecord, Promise
<1> HIDE DEF b
<1>6. Sound(b) /\ OneLobby(b)
  BY <1>1, <1>2, <1>4, <1>5 DEF Sound, Dialling, OneLobby
<1> QED BY <1>3, <1>4, <1>5, <1>6

LEMMA CreateLobbyKeeps ==
  ASSUME Inv, NEW s \in Session, CreateLobby(s)
  PROVE  Inv'
<1> DEFINE r == Dialled("create", None)
<1>1. /\ Up /\ ~closed /\ ses[s].call = "none" /\ ses' = [ses EXCEPT ![s] = r]
      /\ members' = members \cup {s} /\ UNCHANGED <<byCode, shown, closed, down>>
  BY DEF CreateLobby
<1>2. r \in SessionRecord /\ Sound(r) /\ OneLobby(r) /\ r.code = None
  BY DialledEffect
<1> HIDE DEF r
<1>3. ses'[s] = r /\ \A t \in Session \ {s} : ses'[t] = ses[t]
  BY <1>1, Before
<1>4. TypeOK'
  BY <1>1, <1>2 DEF Inv, TypeOK
<1>5. \A t \in Session : Sound(ses'[t]) /\ OneLobby(ses'[t]) /\ OwnedAs(t, ses'[t], members', byCode')
  BY <1>1, <1>2, <1>3, Before DEF OwnedAs
<1>6. \A c \in Code : ~OpenOn(ses[s], c)
  BY <1>1, Before DEF OpenOn, Sound, Dialling, Quiet
<1>7. ListedIsOpen'
  BY <1>1, <1>3, <1>6, Before DEF ListedIsOpen, OpenOn
<1> QED BY <1>1, <1>4, <1>5, <1>7 DEF Inv, Kept

LEMMA SpectateLobbyKeeps ==
  ASSUME Inv, NEW s \in Session, NEW c \in Code, SpectateLobby(s, c)
  PROVE  Inv'
<1> DEFINE r == Dialled("spectate", c)
<1>1. /\ Up /\ ~closed /\ ses[s].call = "none" /\ ses' = [ses EXCEPT ![s] = r] /\ byCode[c] = None
      /\ members' = members \cup {s} /\ UNCHANGED <<closed, down>>
      /\ byCode' = [byCode EXCEPT ![c] = s] /\ shown' = [shown EXCEPT ![c] = "active"]
  BY DEF SpectateLobby
<1>2. r \in SessionRecord /\ Sound(r) /\ OneLobby(r) /\ r.code = c
  BY DialledEffect, SessionsAssumption
<1> HIDE DEF r
<1>3. ses'[s] = r /\ \A t \in Session \ {s} : ses'[t] = ses[t]
  BY <1>1, Before
<1>4. TypeOK'
  BY <1>1, <1>2 DEF Inv, TypeOK
<1>5. \A t \in Session \ {s} : OwnedAs(t, ses'[t], members', byCode')
  <2> SUFFICES ASSUME NEW t \in Session \ {s} PROVE OwnedAs(t, ses[t], members', byCode')
    BY <1>3
  <2>1. OwnedAs(t, ses[t], members, byCode) /\ ses[t].code \in Code \cup {None} /\ t # None
    BY <1>1, Before, SessionsAssumption DEF SessionRecord
  <2> QED BY <1>1, <2>1, Before DEF OwnedAs
<1>6. \A t \in Session : Sound(ses'[t]) /\ OneLobby(ses'[t]) /\ OwnedAs(t, ses'[t], members', byCode')
  BY <1>1, <1>2, <1>3, <1>5, Before DEF OwnedAs
<1>7. \A d \in Code : ~OpenOn(ses[s], d)
  BY <1>1, Before DEF OpenOn, Sound, Dialling, Quiet
<1>8. ListedIsOpen'
  BY <1>1, <1>3, <1>7, Before DEF ListedIsOpen, OpenOn
<1> QED BY <1>1, <1>4, <1>6, <1>8 DEF Inv, Kept

\* A call that fails before its try: while the first dial goes on, a first state
\* is waited for and its rejection ends the process.
LEMMA ActivationRejectedKeeps ==
  ASSUME Inv, NEW s \in Session, ActivationRejected(s)
  PROVE  Inv'
<1> DEFINE h == HangUp(ses[s])
           r == [h EXCEPT !.call = "failed"]
<1>1. /\ Up /\ ses' = [ses EXCEPT ![s] = r] /\ members' = members \ {s}
      /\ byCode' = Without(byCode, s) /\ shown' = Listed(shown, ses[s].code, "absent")
      /\ down' = (h.result = "broken") /\ UNCHANGED closed
  BY Before DEF ActivationRejected
<1>2. ses[s] \in SessionRecord /\ Sound(ses[s]) /\ OneLobby(ses[s])
  BY <1>1, Before
<1>3. /\ h \in SessionRecord /\ Sound(h) /\ OneLobby(h) /\ Quiet(h) /\ ~h.active
      /\ h.dial = "open" => h.result = "broken"
  BY <1>2, HangUpEffect, HungUp DEF Sound, Dialling, Quiet
<1> HIDE DEF h
<1>4. /\ r \in SessionRecord /\ OneLobby(r) /\ ~r.active
      /\ ~down' => Sound(r)
  BY <1>1, <1>3 DEF SessionRecord, Call, Sound, Dialling, Quiet, OneLobby
<1> HIDE DEF r
<1>5. ses'[s] = r /\ \A t \in Session \ {s} : ses'[t] = ses[t]
  BY <1>1, Before
<1>6. TypeOK'
  <2>1. ses' \in [Session -> SessionRecord] /\ members' \subseteq Session
    BY <1>1, <1>4, Before
  <2>2. byCode' \in [Code -> Session \cup {None}] /\ shown' \in [Code -> {"absent", "active", "connected"}]
    BY <1>1, Before DEF Without, Listed
  <2> QED BY <1>1, <2>1, <2>2 DEF Inv, TypeOK
<1> SUFFICES ASSUME ~down' PROVE Kept'
  BY <1>6 DEF Inv, Up
<1>7. \A t \in Session \ {s} : OwnedAs(t, ses'[t], members', byCode')
  <2> SUFFICES ASSUME NEW t \in Session \ {s} PROVE OwnedAs(t, ses[t], members', byCode')
    BY <1>5
  <2>1. OwnedAs(t, ses[t], members, byCode) /\ ses[t].code \in Code \cup {None}
    BY <1>1, Before DEF SessionRecord
  <2> QED BY <1>1, <2>1 DEF OwnedAs, Without
<1>8. \A t \in Session : Sound(ses'[t]) /\ OneLobby(ses'[t]) /\ OwnedAs(t, ses'[t], members', byCode')
  BY <1>1, <1>4, <1>5, <1>7, Before DEF OwnedAs
<1>9. ListedIsOpen'
  <2> SUFFICES ASSUME NEW d \in Code, shown'[d] = "connected" PROVE \E t \in Session : OpenOn(ses'[t], d)
    BY DEF ListedIsOpen, OpenOn
  <2>1. shown[d] = "connected" /\ ~OpenOn(ses[s], d)
    BY <1>1 DEF Listed, OpenOn
  <2> QED BY <1>1, <1>5, <2>1, Before
<1>10. closed' => \A t \in Session : ~ses'[t].active
  BY <1>1, <1>4, <1>5, Before
<1> QED BY <1>8, <1>9, <1>10 DEF Kept

\* The session of the code that is left may follow another code than the one it
\* is found under; what it follows is what is delisted.
LEMMA LeaveLobbyKeeps ==
  ASSUME Inv, NEW c \in Code, LeaveLobby(c)
  PROVE  Inv'
<1> DEFINE s == byCode[c]
           r == Continued(HangUp(ses[s]))
<1>1. /\ Up /\ byCode[c] # None /\ ses' = [ses EXCEPT ![s] = r] /\ members' = members \ {s}
      /\ byCode' = Without(byCode, s) /\ shown' = Listed(shown, ses[s].code, "absent")
      /\ down' = Unhandled(HangUp(ses[s])) /\ UNCHANGED closed
  BY DEF LeaveLobby
<1>2. s \in Session
  BY <1>1 DEF Inv, TypeOK
<1> HIDE DEF s
<1>3. r \in SessionRecord /\ Sound(r) /\ OneLobby(r) /\ ~r.active
  BY <1>1, <1>2, Before, HungUp DEF Sound, Dialling
<1> HIDE DEF r
<1>4. ses'[s] = r /\ \A t \in Session \ {s} : ses'[t] = ses[t]
  BY <1>1, <1>2, Before
<1>5. TypeOK'
  <2>1. ses' \in [Session -> SessionRecord] /\ members' \subseteq Session
    BY <1>1, <1>2, <1>3, Before
  <2>2. byCode' \in [Code -> Session \cup {None}] /\ shown' \in [Code -> {"absent", "active", "connected"}]
    BY <1>1, <1>2, Before DEF Without, Listed
  <2> QED BY <1>1, <2>1, <2>2 DEF Inv, TypeOK, Unhandled
<1>6. \A t \in Session \ {s} : OwnedAs(t, ses'[t], members', byCode')
  <2> SUFFICES ASSUME NEW t \in Session \ {s} PROVE OwnedAs(t, ses[t], members', byCode')
    BY <1>4
  <2>1. OwnedAs(t, ses[t], members, byCode) /\ ses[t].code \in Code \cup {None}
    BY <1>1, <1>2, Before DEF SessionRecord
  <2> QED BY <1>1, <2>1 DEF OwnedAs, Without
<1>7. \A t \in Session : Sound(ses'[t]) /\ OneLobby(ses'[t]) /\ OwnedAs(t, ses'[t], members', byCode')
  BY <1>1, <1>3, <1>4, <1>6, Before DEF OwnedAs
<1>8. ListedIsOpen'
  <2> SUFFICES ASSUME NEW d \in Code, shown'[d] = "connected" PROVE \E t \in Session : OpenOn(ses'[t], d)
    BY DEF ListedIsOpen, OpenOn
  <2>1. shown[d] = "connected" /\ ~OpenOn(ses[s], d)
    BY <1>1 DEF Listed, OpenOn
  <2> QED BY <1>1, <1>2, <1>4, <2>1, Before
<1>9. closed' => \A t \in Session : ~ses'[t].active
  BY <1>1, <1>3, <1>4, Before
<1> QED BY <1>5, <1>7, <1>8, <1>9 DEF Inv, Kept

\* Who is not a member has nothing to hang up.
LEMMA CloseRuntimeKeeps ==
  ASSUME Inv, CloseRuntime
  PROVE  Inv'
<1>1. Up /\ closed' = TRUE /\ down' \in BOOLEAN /\ members' = {} /\ byCode' = [c \in Code |-> None]
      /\ shown' = [c \in Code |-> "absent"]
  BY DEF CloseRuntime
<1>2. \A s \in Session : /\ ses'[s] \in SessionRecord /\ Sound(ses'[s]) /\ OneLobby(ses'[s])
                         /\ ~ses'[s].active
  <2> SUFFICES ASSUME NEW s \in Session
               PROVE  ses'[s] \in SessionRecord /\ Sound(ses'[s]) /\ OneLobby(ses'[s]) /\ ~ses'[s].active
    OBVIOUS
  <2>1. ses[s] \in SessionRecord /\ Sound(ses[s]) /\ OneLobby(ses[s]) /\ OwnedAs(s, ses[s], members, byCode)
    BY <1>1, Before
  <2>2. ses'[s] = IF s \in members THEN Continued(HangUp(ses[s])) ELSE ses[s]
    BY DEF CloseRuntime
  <2>3. CASE s \in members
    BY <2>1, <2>2, <2>3, HungUp DEF Sound, Dialling
  <2>4. CASE s \notin members
    BY <2>1, <2>2, <2>4 DEF OwnedAs
  <2> QED BY <2>3, <2>4
<1>3. TypeOK'
  <2>1. ses' = [s \in Session |-> ses'[s]]
    BY DEF CloseRuntime
  <2>2. ses' \in [Session -> SessionRecord]
    BY <1>2, <2>1
  <2> QED BY <1>1, <2>2 DEF TypeOK
<1>4. ListedIsOpen'
  BY <1>1 DEF ListedIsOpen
<1> QED BY <1>2, <1>3, <1>4 DEF Inv, Kept, OwnedAs

-----------------------------------------------------------------------------
(***************************************************************************)
(* The theorems.                                                           *)
(***************************************************************************)

LEMMA InitHolds == Init => Inv
<1> SUFFICES ASSUME Init PROVE Inv
  OBVIOUS
<1>1. /\ Unborn \in SessionRecord
      /\ Sound(Unborn) /\ OneLobby(Unborn) /\ ~Unborn.active
  <2>1. <<>> \in Seq(Message) /\ DOMAIN <<>> = {} /\ {} \in SUBSET Command
    OBVIOUS
  <2> QED BY <2>1 DEF Unborn, SessionRecord, Call, Promise, Sound, Dialling, Quiet, OneLobby
<1>2. TypeOK
  BY <1>1 DEF Init, TypeOK
<1>3. \A s \in Session : ses[s] = Unborn
  BY DEF Init
<1>4. ListedIsOpen
  BY DEF Init, ListedIsOpen
<1> QED BY <1>1, <1>2, <1>3, <1>4 DEF Inv, Kept, OwnedAs

LEMMA NextKeeps == Inv /\ [Next]_vars => Inv'
<1> SUFFICES ASSUME Inv, [Next]_vars PROVE Inv'
  OBVIOUS
<1>1. CASE Request
  BY <1>1, CreateLobbyKeeps, SpectateLobbyKeeps, LeaveLobbyKeeps, CloseRuntimeKeeps, SendCommandKeeps DEF Request
<1>2. ASSUME NEW s \in Session, HandleMessage(s) PROVE Inv'
  BY <1>2, HandleStateKeeps, RefuseStateKeeps, HandleGoneKeeps, HandleResponseKeeps DEF HandleMessage
<1>3. ASSUME NEW s \in Session, Observed(s) PROVE Inv'
  BY <1>3, ActivationToldKeeps, ActivationRejectedKeeps, HandlerDoneKeeps, HandlerRejectedKeeps,
     SpectateSentKeeps, SpectateUnsentKeeps, ClosingToldKeeps, ClosingRejectedKeeps
     DEF Observed, ActivationEnds, HandlerEnds
<1>4. ASSUME NEW s \in Session, Timer(s) PROVE Inv'
  BY <1>4, StateTimesOutKeeps, RedialKeeps, CommandTimesOutKeeps DEF Timer
<1>5. ASSUME NEW s \in Session, Socket(s) PROVE Inv'
  BY <1>5, SocketOpensKeeps, DialRefusedKeeps, SocketClosesKeeps, CloseUnheardKeeps, ReceiveKeeps DEF Socket
<1>6. CASE UNCHANGED vars
  BY <1>6 DEF vars, Inv, TypeOK, Up, Kept, ListedIsOpen, OpenOn
<1> QED BY <1>1, <1>2, <1>3, <1>4, <1>5, <1>6 DEF Next

LEMMA Invariant == Spec => []Inv
BY InitHolds, NextKeeps, PTL DEF Spec

-----------------------------------------------------------------------------
(***************************************************************************)
(* Who waits for a lobby is owed an answer.                                *)
(***************************************************************************)

\* A promise that is open has the timer of the first state or the handler of it,
\* never both; who dials has the timer, and who awaits the result knows no
\* rejection.
Owed(r) ==
  /\ r.pending => r.result = "open" /\ r.handler # "joining"
  /\ r.result = "open" => r.pending \/ r.handler = "joining"
  /\ r.call = "activating" => r.dial \in {"open", "kept"} /\ r.result # "none"
  /\ r.call = "opening" => r.dial = "open" /\ r.pending
  /\ r.call = "waiting" => r.result \in {"open", "lost"}

Owing == Up => \A s \in Session : Owed(ses[s])

\* The same in the middle of an event, when the caller has not gone on: what he
\* awaits may have been settled.
Due(r) ==
  /\ r.pending => r.result = "open" /\ r.handler # "joining"
  /\ r.result = "open" => r.pending \/ r.handler = "joining"
  /\ r.call \in {"activating", "opening"} =>
       r.dial \in {"open", "kept", "broken"} /\ r.result # "none"
  /\ r.call = "opening" /\ r.dial = "open" => r.pending \/ r.result = "broken"
  /\ r.call = "waiting" => r.result # "none"

LEMMA OwedIsDue ==
  ASSUME NEW r \in SessionRecord, Owed(r)
  PROVE  Due(r)
BY DEF Owed, Due

LEMMA HangUpDue ==
  ASSUME NEW r \in SessionRecord, Due(r)
  PROVE  HangUp(r) \in SessionRecord /\ Due(HangUp(r))
<1> DEFINE h == HangUp(r)
<1>1. /\ h \in SessionRecord /\ ~h.pending /\ h.call = r.call /\ h.dial = r.dial /\ h.handler = r.handler
      /\ h.result = IF r.pending THEN "broken" ELSE r.result
  BY HangUpEffect DEF Quiet
<1> HIDE DEF h
<1>2. Due(h)
  BY <1>1 DEF Due
<1> QED BY <1>1, <1>2 DEF h

\* The caller goes on with what is settled, or still has what will settle it.
LEMMA ContinuedOwed ==
  ASSUME NEW r \in SessionRecord, Due(r), ~Unhandled(r)
  PROVE  Owed(Continued(r))
<1>1. CASE CallFails(r)
  <2> DEFINE h == HangUp(r)
  <2>1. h \in SessionRecord /\ Due(h) /\ ~h.pending
    BY HangUpDue, HangUpEffect DEF Quiet
  <2>2. Continued(r) = [h EXCEPT !.call = "failed"]
    BY <1>1 DEF Continued
  <2> HIDE DEF h
  <2> QED BY <2>1, <2>2 DEF Owed, Due, SessionRecord
<1>2. CASE ~CallFails(r)
  <2> DEFINE n == Continued(r)
  <2>1. /\ n.call = IF CallJoins(r) THEN "joined" ELSE Awaiting(r)
        /\ n.dial = r.dial /\ n.result = r.result /\ n.pending = r.pending /\ n.handler = r.handler
    BY <1>2 DEF Continued, SessionRecord
  <2>2. r.result \in Promise /\ r.dial \in Promise /\ r.call \in Call
    BY DEF SessionRecord
  <2> HIDE DEF n
  <2>3. n.call = "waiting" => n.result \in {"open", "lost"}
    BY <1>2, <2>1, <2>2 DEF CallFails, CallJoins, Awaiting, Due, Promise
  <2>4. n.call = "opening" => n.dial = "open" /\ n.pending
    BY <1>2, <2>1, <2>2 DEF CallFails, CallJoins, Awaiting, Unhandled, Due, Promise
  <2>5. n.call = "activating" => n.dial \in {"open", "kept"} /\ n.result # "none"
    BY <1>2, <2>1, <2>2 DEF CallFails, CallJoins, Awaiting, Unhandled, Due, Promise
  <2>6. Owed(n)
    BY <2>1, <2>3, <2>4, <2>5 DEF Owed, Due
  <2> QED BY <2>6 DEF n
<1> QED BY <1>1, <1>2

\* An event at whose end its session is due an answer.
LEMMA EndOfEventOwes ==
  ASSUME Inv, Owing, Up, NEW s \in Session, NEW r \in SessionRecord, NEW codes, NEW list,
         EndOfEvent(s, r, codes, list), Due(r)
  PROVE  Owing'
<1> SUFFICES ASSUME ~Unhandled(r), NEW t \in Session PROVE Owed(ses'[t])
  BY DEF Owing, EndOfEvent, Up
<1>1. ses \in [Session -> SessionRecord] /\ ses' = [ses EXCEPT ![s] = Continued(r)]
  BY DEF Inv, TypeOK, EndOfEvent
<1>2. CASE t = s
  BY <1>1, <1>2, ContinuedOwed
<1>3. CASE t # s
  BY <1>1, <1>3 DEF Owing
<1> QED BY <1>2, <1>3

\* A step that changes one session otherwise.
LEMMA SessionOwes ==
  ASSUME Inv, Owing, Up, NEW s \in Session, NEW r,
         ses' = [ses EXCEPT ![s] = r], Owed(r)
  PROVE  Owing'
<1> SUFFICES ASSUME NEW t \in Session PROVE Owed(ses'[t])
  BY DEF Owing
<1>1. ses \in [Session -> SessionRecord]
  BY DEF Inv, TypeOK
<1> QED BY <1>1 DEF Owing

\* The same when nothing moves that the answer depends on.
LEMMA SparedOwes ==
  ASSUME Inv, Owing, Up, NEW s \in Session, NEW r,
         ses' = [ses EXCEPT ![s] = r],
         \A f \in {"pending", "result", "handler", "call", "dial"} : r[f] = ses[s][f]
  PROVE  Owing'
<1>1. Owed(r)
  BY DEF Owing, Owed
<1> QED BY <1>1, SessionOwes

\* What the proofs of the actions start from.
LEMMA OwedBefore ==
  ASSUME Inv, Owing, Up, NEW s \in Session
  PROVE  /\ ses[s] \in SessionRecord /\ Sound(ses[s]) /\ Owed(ses[s]) /\ Due(ses[s])
         /\ HangUp(ses[s]) \in SessionRecord /\ Due(HangUp(ses[s]))
<1>1. ses[s] \in SessionRecord /\ Sound(ses[s]) /\ Owed(ses[s])
  BY Before DEF Owing
<1> QED BY <1>1, OwedIsDue, HangUpDue

LEMMA RequestOwes ==
  ASSUME Inv, Owing, Request
  PROVE  Owing'
<1>1. CASE CloseRuntime
  <2> SUFFICES ASSUME Up', NEW s \in Session PROVE Owed(ses'[s])
    BY DEF Owing
  <2>1. /\ Up /\ ses'[s] = IF s \in members THEN Continued(HangUp(ses[s])) ELSE ses[s]
        /\ s \in members => ~Unhandled(HangUp(ses[s]))
    BY <1>1 DEF CloseRuntime, Up
  <2>2. Owed(ses[s]) /\ HangUp(ses[s]) \in SessionRecord /\ Due(HangUp(ses[s]))
    BY <2>1, OwedBefore
  <2> QED BY <2>1, <2>2, ContinuedOwed
<1>2. ASSUME NEW s \in Session, NEW mode, NEW c, Up, ses' = [ses EXCEPT ![s] = Dialled(mode, c)]
      PROVE  Owing'
  <2>1. Owed(Dialled(mode, c))
    BY DEF Dialled, Unborn, Owed
  <2> QED BY <1>2, <2>1, SessionOwes
<1>3. ASSUME NEW c \in Code, LeaveLobby(c) PROVE Owing'
  <2> DEFINE s == byCode[c]
  <2>1. Up /\ s # None /\ ses' = [ses EXCEPT ![s] = Continued(HangUp(ses[s]))] /\ down' = Unhandled(HangUp(ses[s]))
    BY <1>3, Zenon DEF LeaveLobby
  <2>2. s \in Session
    BY <2>1 DEF Inv, TypeOK
  <2> HIDE DEF s
  <2> SUFFICES ASSUME ~Unhandled(HangUp(ses[s])) PROVE Owing'
    BY <2>1 DEF Owing, Up
  <2>3. Owed(Continued(HangUp(ses[s])))
    BY <2>1, <2>2, OwedBefore, ContinuedOwed
  <2> QED BY <2>1, <2>2, <2>3, SessionOwes
<1>4. ASSUME NEW c \in Code, NEW k \in Command, SendCommand(c, k) PROVE Owing'
  <2> DEFINE s == byCode[c]
             r == [ses[s] EXCEPT !.commands = @ \cup {k}]
  <2>1. Up /\ s \in Session /\ ses' = [ses EXCEPT ![s] = r]
    BY <1>4 DEF SendCommand, Inv, TypeOK
  <2>2. \A f \in {"pending", "result", "handler", "call", "dial"} : r[f] = ses[s][f]
    BY <2>1, OwedBefore DEF SessionRecord
  <2> HIDE DEF s, r
  <2> QED BY <2>1, <2>2, SparedOwes
<1>5. ASSUME NEW s \in Session, CreateLobby(s) PROVE Owing'
  BY <1>2, <1>5 DEF CreateLobby
<1>6. ASSUME NEW s \in Session, NEW c \in Code, SpectateLobby(s, c) PROVE Owing'
  BY <1>2, <1>6 DEF SpectateLobby
<1> QED BY <1>1, <1>3, <1>4, <1>5, <1>6 DEF Request

\* A state that is taken goes from the timer to its handler.
LEMMA MessageOwes ==
  ASSUME Inv, Owing, NEW s \in Session, HandleMessage(s)
  PROVE  Owing'
<1> DEFINE t == Taken(ses[s])
<1>1. Up /\ ses[s].handler = "idle" /\ ses[s].queue # <<>>
  BY DEF HandleMessage, HandleState, RefuseState, HandleGone, HandleResponse, CanHandle
<1>2. ses[s] \in SessionRecord /\ Sound(ses[s]) /\ Owed(ses[s]) /\ OneLobby(ses[s])
  BY <1>1, OwedBefore, Before
<1>3. /\ t \in SessionRecord /\ Head(ses[s].queue) \in Message
      /\ \A f \in {"pending", "result", "handler", "call", "dial", "ws", "active"} : t[f] = ses[s][f]
  BY <1>1, <1>2, TakenEffect
<1>4. Owed(t) /\ Due(t) /\ HangUp(t) \in SessionRecord /\ Due(HangUp(t))
  <2>1. Owed(t)
    BY <1>2, <1>3 DEF Owed
  <2> QED BY <1>3, <2>1, OwedIsDue, HangUpDue
<1>5. t.call # "opening"
  BY <1>1, <1>2, <1>3 DEF Owed, Sound
<1>6. CASE RefuseState(s)
  <2> DEFINE c == Head(ses[s].queue)[2]
             q == [t EXCEPT !.code = c]
  <2>1. c \in Code
    BY <1>3, <1>6 DEF RefuseState, Message
  <2>2. EndOfEvent(s, HangUp(q), byCode, Listed(shown, c, "absent"))
    BY <1>6 DEF RefuseState
  <2> HIDE DEF t
  <2>3. q \in SessionRecord /\ \A f \in {"pending", "result", "handler", "call", "dial"} : q[f] = t[f]
    BY <1>3, <2>1 DEF SessionRecord
  <2> HIDE DEF q
  <2>4. Due(q)
    BY <1>4, <2>3 DEF Due
  <2> QED BY <1>1, <2>2, <2>3, <2>4, HangUpDue, EndOfEventOwes
<1>7. CASE HandleState(s)
  <2> DEFINE c == Head(ses[s].queue)[2]
             joins == ses[s].pending
             tells == joins /\ ~ses[s].notified
             notified == ses[s].notified \/ tells
             handler == IF joins THEN "joining" ELSE "telling"
             r == [t EXCEPT !.code = c, !.pending = FALSE, !.notified = notified, !.handler = handler]
             list == IF tells THEN Listed(shown, c, "connected") ELSE shown
  <2>1. c \in Code
    BY <1>3, <1>7 DEF HandleState, Message
  <2>2. EndOfEvent(s, r, Registered(s, c), list)
    BY <1>2, <1>3, <1>7 DEF HandleState, Taken, SessionRecord
  <2>3. /\ notified \in BOOLEAN /\ handler \in {"idle", "joining", "telling"}
        /\ handler = IF ses[s].pending THEN "joining" ELSE "telling"
    BY <1>2 DEF SessionRecord
  <2> HIDE DEF t, c, notified, handler, list
  <2>4. /\ r \in SessionRecord /\ ~r.pending /\ r.handler = handler
        /\ r.result = t.result /\ r.call = t.call /\ r.dial = t.dial
    BY <1>3, <2>1, <2>3 DEF SessionRecord
  <2> HIDE DEF r
  <2>5. Due(r)
    BY <1>1, <1>3, <1>4, <1>5, <2>3, <2>4 DEF Due, Owed
  <2> QED BY <1>1, <2>2, <2>4, <2>5, EndOfEventOwes
<1>8. CASE HandleGone(s)
  <2> DEFINE r == IF t.active THEN HangUp(t) ELSE t
  <2>1. r \in SessionRecord /\ Due(r)
    BY <1>3, <1>4
  <2>2. EndOfEvent(s, r, byCode, IF t.active THEN Listed(shown, t.code, "absent") ELSE shown)
    BY <1>8 DEF HandleGone
  <2> HIDE DEF r
  <2> QED BY <1>1, <2>1, <2>2, EndOfEventOwes
<1>9. CASE HandleResponse(s)
  <2> DEFINE r == [t EXCEPT !.commands = @ \ {Head(ses[s].queue)[2]}]
  <2>1. ses' = [ses EXCEPT ![s] = r]
    BY <1>9, Zenon DEF HandleResponse
  <2>2. \A f \in {"pending", "result", "handler", "call", "dial"} : r[f] = ses[s][f]
    BY <1>3 DEF SessionRecord
  <2> HIDE DEF r
  <2> QED BY <1>1, <2>1, <2>2, SparedOwes
<1> QED BY <1>6, <1>7, <1>8, <1>9 DEF HandleMessage

\* The handler of the first state ends with an answer, or with none for ever.
LEMMA ObservedOwes ==
  ASSUME Inv, Owing, NEW s \in Session, Observed(s)
  PROVE  Owing'
<1>1. Up
  BY DEF Observed, ActivationEnds, HandlerEnds, ActivationTold, ActivationRejected, HandlerDone,
     HandlerRejected, SpectateSent, SpectateUnsent, ClosingTold, ClosingRejected
<1>2. ses[s] \in SessionRecord /\ Sound(ses[s]) /\ Owed(ses[s]) /\ HangUp(ses[s]) \in SessionRecord /\ Due(HangUp(ses[s]))
  BY <1>1, OwedBefore
<1>3. CASE ActivationTold(s)
  <2> DEFINE r == [ses[s] EXCEPT !.call = "opening"]
  <2>1. EndOfEvent(s, r, byCode, shown) /\ ses[s].call = "activating"
    BY <1>3 DEF ActivationTold
  <2>2. r \in SessionRecord /\ r.call = "opening"
        /\ \A f \in {"pending", "result", "handler", "dial"} : r[f] = ses[s][f]
    BY <1>2 DEF SessionRecord, Call
  <2> HIDE DEF r
  <2>3. Due(r)
    BY <1>2, <2>1, <2>2 DEF Due, Owed, Sound, Dialling
  <2> QED BY <1>1, <2>1, <2>2, <2>3, EndOfEventOwes
<1>4. CASE ActivationRejected(s)
  <2> DEFINE h == HangUp(ses[s])
             r == [h EXCEPT !.call = "failed"]
  <2>1. ses' = [ses EXCEPT ![s] = r]
    BY <1>4 DEF ActivationRejected
  <2>2. Owed(r)
    BY <1>2 DEF Due, Owed, SessionRecord
  <2> HIDE DEF r
  <2> QED BY <1>1, <2>1, <2>2, SessionOwes
<1>5. CASE HandlerDone(s)
  <2> DEFINE result == IF ses[s].handler = "joining" THEN "kept" ELSE ses[s].result
             r == [ses[s] EXCEPT !.handler = "idle", !.result = result]
  <2>1. EndOfEvent(s, r, byCode, shown)
    BY <1>2, <1>5 DEF HandlerDone, SessionRecord
  <2>2. result \in Promise
    BY <1>2 DEF SessionRecord, Promise
  <2>3. r \in SessionRecord /\ r.handler = "idle" /\ r.result = result
        /\ \A f \in {"pending", "call", "dial"} : r[f] = ses[s][f]
    BY <1>2, <2>2 DEF SessionRecord
  <2> HIDE DEF r
  <2>4. Due(r)
    BY <1>2, <2>3 DEF Due, Owed, Sound, Dialling
  <2> QED BY <1>1, <2>1, <2>3, <2>4, EndOfEventOwes
<1>6. CASE HandlerRejected(s)
  <2> DEFINE result == IF ses[s].handler = "joining" THEN "lost" ELSE ses[s].result
             r == [ses[s] EXCEPT !.handler = "idle", !.result = result]
  <2>1. ses' = [ses EXCEPT ![s] = r]
    BY <1>2, <1>6, Before, <1>1 DEF HandlerRejected, SessionRecord
  <2>2. r.handler = "idle" /\ r.result = result
        /\ \A f \in {"pending", "call", "dial"} : r[f] = ses[s][f]
    BY <1>2 DEF SessionRecord
  <2> HIDE DEF r
  <2>3. Owed(r)
    BY <1>2, <2>2 DEF Owed, Sound, Dialling
  <2> QED BY <1>1, <2>1, <2>3, SessionOwes
<1>7. ASSUME NEW r, ses' = [ses EXCEPT ![s] = r],
             r \in {[ses[s] EXCEPT !.asked = "yes"], [ses[s] EXCEPT !.asked = "no"], [ses[s] EXCEPT !.closes = @ - 1]}
      PROVE  Owing'
  <2>1. \A f \in {"pending", "result", "handler", "call", "dial"} : r[f] = ses[s][f]
    BY <1>2, <1>7 DEF SessionRecord
  <2> QED BY <1>1, <1>7, <2>1, SparedOwes
<1>8. CASE SpectateSent(s) \/ SpectateUnsent(s) \/ ClosingTold(s) \/ ClosingRejected(s)
  BY <1>7, <1>8 DEF SpectateSent, SpectateUnsent, ClosingTold, ClosingRejected
<1> QED BY <1>3, <1>4, <1>5, <1>6, <1>8 DEF Observed, ActivationEnds, HandlerEnds

\* The timer of a first state rejects whoever waits.
LEMMA TimerOwes ==
  ASSUME Inv, Owing, NEW s \in Session, Timer(s)
  PROVE  Owing'
<1>1. Up
  BY DEF Timer, StateTimesOut, Redial, CommandTimesOut
<1>2. ses[s] \in SessionRecord /\ Owed(ses[s]) /\ Due(ses[s])
  BY <1>1, OwedBefore
<1>3. CASE StateTimesOut(s)
  <2> DEFINE p == [ses[s] EXCEPT !.pending = FALSE]
             h == HangUp(p)
             r == [h EXCEPT !.result = "broken"]
  <2>1. p \in SessionRecord /\ p.call = ses[s].call /\ p.dial = ses[s].dial
    BY <1>2 DEF SessionRecord
  <2> HIDE DEF p
  <2>2. h \in SessionRecord /\ ~h.pending /\ h.call = p.call /\ h.dial = p.dial
    BY <2>1, HangUpEffect DEF Quiet
  <2>3. EndOfEvent(s, r, byCode, Listed(shown, r.code, "absent"))
    BY <1>3 DEF StateTimesOut, p
  <2> HIDE DEF h
  <2>4. r \in SessionRecord /\ ~r.pending /\ r.result = "broken" /\ r.call = h.call /\ r.dial = h.dial
    BY <2>2 DEF SessionRecord, Promise
  <2> HIDE DEF r
  <2>5. Due(r)
    BY <1>2, <2>1, <2>2, <2>4 DEF Due
  <2> QED BY <1>1, <2>3, <2>4, <2>5, EndOfEventOwes
<1>4. ASSUME NEW r, ses' = [ses EXCEPT ![s] = r],
             \/ r = [ses[s] EXCEPT !.retry = FALSE, !.ws = "connecting"]
             \/ \E k \in Command : r = [ses[s] EXCEPT !.commands = @ \ {k}]
      PROVE  Owing'
  <2>1. \A f \in {"pending", "result", "handler", "call", "dial"} : r[f] = ses[s][f]
    BY <1>2, <1>4 DEF SessionRecord
  <2> QED BY <1>1, <1>4, <2>1, SparedOwes
<1>5. CASE Redial(s)
  BY <1>1, <1>4, <1>5, Before DEF Redial
<1>6. ASSUME NEW k \in Command, CommandTimesOut(s, k) PROVE Owing'
  BY <1>4, <1>6 DEF CommandTimesOut
<1> QED BY <1>3, <1>5, <1>6 DEF Timer

\* A socket that closes rejects whoever waits for a first state.
LEMMA SocketOwes ==
  ASSUME Inv, Owing, NEW s \in Session, Socket(s)
  PROVE  Owing'
<1>1. Up
  BY DEF Socket, SocketOpens, DialRefused, SocketCloses, CloseUnheard, Receive
<1>2. /\ ses[s] \in SessionRecord /\ Sound(ses[s]) /\ Owed(ses[s]) /\ Due(ses[s])
      /\ HangUp(ses[s]) \in SessionRecord /\ Due(HangUp(ses[s]))
  BY <1>1, OwedBefore
<1> DEFINE result == IF ses[s].pending THEN "broken" ELSE ses[s].result
           j == RejectConnect(ses[s])
<1>3. /\ j \in SessionRecord /\ ~j.pending /\ j.result = IF ses[s].pending THEN "broken" ELSE ses[s].result
      /\ j.call = ses[s].call /\ j.dial = ses[s].dial /\ j.handler = ses[s].handler
  <2>1. j = [ses[s] EXCEPT !.pending = FALSE, !.result = result]
    BY <1>2 DEF RejectConnect, SessionRecord
  <2>2. result \in Promise /\ result = IF ses[s].pending THEN "broken" ELSE ses[s].result
    BY <1>2 DEF SessionRecord, Promise
  <2> HIDE DEF result, j
  <2> QED BY <1>2, <2>1, <2>2 DEF SessionRecord
<1>4. CASE SocketOpens(s)
  <2> DEFINE creates == ses[s].mode = "create"
             dial == IF ses[s].dial = "open" THEN "kept" ELSE ses[s].dial
             asked == IF creates THEN "yes" ELSE "telling"
             notified == ~creates
             o == [ses[s] EXCEPT !.ws = "open", !.active = TRUE, !.connected = TRUE]
             r == [o EXCEPT !.dial = dial, !.asked = asked, !.notified = notified]
             list == IF creates THEN shown ELSE Listed(shown, ses[s].lobby, "connected")
  <2>1. EndOfEvent(s, r, byCode, list)
    BY <1>2, <1>4 DEF SocketOpens, SessionRecord
  <2>2. dial \in Promise /\ asked \in {"no", "telling", "yes"} /\ notified \in BOOLEAN
        /\ dial = IF ses[s].dial = "open" THEN "kept" ELSE ses[s].dial
    BY <1>2 DEF SessionRecord, Promise
  <2> HIDE DEF creates, dial, asked, notified, list
  <2>3. o \in SessionRecord /\ \A f \in {"pending", "result", "handler", "call"} : o[f] = ses[s][f]
    BY <1>2 DEF SessionRecord
  <2> HIDE DEF o
  <2>4. /\ r \in SessionRecord /\ r.dial = dial
        /\ \A f \in {"pending", "result", "handler", "call"} : r[f] = ses[s][f]
    BY <2>2, <2>3 DEF SessionRecord
  <2> HIDE DEF r
  <2>5. Due(r)
    BY <1>2, <2>2, <2>4 DEF Due, Owed
  <2> QED BY <1>1, <2>1, <2>4, <2>5, EndOfEventOwes
<1>5. CASE DialRefused(s)
  <2> DEFINE r == [j EXCEPT !.dial = "broken", !.active = FALSE]
  <2>1. EndOfEvent(s, r, byCode, shown)
    BY <1>5 DEF DialRefused
  <2> HIDE DEF j
  <2>2. /\ r \in SessionRecord /\ r.dial = "broken"
        /\ \A f \in {"pending", "result", "handler", "call"} : r[f] = j[f]
    BY <1>3 DEF SessionRecord, Promise
  <2> HIDE DEF r
  <2>3. Due(r)
    BY <1>2, <1>3, <2>2 DEF Due
  <2> QED BY <1>1, <2>1, <2>2, <2>3, EndOfEventOwes
<1>6. CASE SocketCloses(s)
  <2> DEFINE r == [j EXCEPT !.commands = {}, !.connected = FALSE, !.ws = "none", !.asked = "no", !.retry = TRUE]
  <2>1. ses[s].dial = "kept"
    BY <1>6 DEF SocketCloses
  <2>2. \/ EndOfEvent(s, r, byCode, Listed(shown, ses[s].code, "active"))
        \/ EndOfEvent(s, HangUp(ses[s]), byCode, Listed(shown, ses[s].code, "absent"))
    BY <1>6 DEF SocketCloses
  <2> HIDE DEF j
  <2>3. r \in SessionRecord /\ \A f \in {"pending", "result", "handler", "call", "dial"} : r[f] = j[f]
    BY <1>3 DEF SessionRecord
  <2> HIDE DEF r
  <2>4. Due(r)
    BY <1>2, <1>3, <2>1, <2>3 DEF Due
  <2> QED BY <1>1, <1>2, <2>2, <2>3, <2>4, EndOfEventOwes
<1>7. CASE CloseUnheard(s)
  BY <1>7 DEF CloseUnheard, Owing, Up
<1>8. ASSUME NEW msg \in Message, Receive(s, msg) PROVE Owing'
  <2> DEFINE r == [ses[s] EXCEPT !.queue = Append(@, msg), !.lobby = IF msg[1] = "state" THEN msg[2] ELSE @]
  <2>1. ses' = [ses EXCEPT ![s] = r]
    BY <1>1, <1>8, Before DEF Receive
  <2>2. \A f \in {"pending", "result", "handler", "call", "dial"} : r[f] = ses[s][f]
    BY <1>2 DEF SessionRecord
  <2> HIDE DEF r
  <2> QED BY <1>1, <2>1, <2>2, SparedOwes
<1> QED BY <1>4, <1>5, <1>6, <1>7, <1>8 DEF Socket

LEMMA NextOwes == Inv /\ Owing /\ [Next]_vars => Owing'
<1> SUFFICES ASSUME Inv, Owing, [Next]_vars PROVE Owing'
  OBVIOUS
<1>1. CASE UNCHANGED vars
  BY <1>1 DEF vars, Owing, Up
<1> QED BY <1>1, RequestOwes, MessageOwes, ObservedOwes, TimerOwes, SocketOwes DEF Next

LEMMA AlwaysOwing == Spec => []Owing
<1>1. Init => Owing
  BY DEF Init, Owing, Unborn, Owed
<1> QED BY <1>1, NextOwes, Invariant, PTL DEF Spec

-----------------------------------------------------------------------------
\* The records of the sessions, the registries and the list keep their types in
\* every behaviour, whatever the bounds.
THEOREM TypeCorrect == Spec => []TypeOK
<1>1. Inv => TypeOK
  BY DEF Inv
<1> QED BY <1>1, Invariant, PTL

\* In every order of requests, messages, timers and socket events, an active
\* session is owned under the code it follows and a lobby listed as connected
\* is open on some session (SyncStartClient, LobbyCatalog).
THEOREM RegistriesAlwaysAgree == Spec => []RegistriesAgree
<1>1. Inv => RegistriesAgree
  <2> SUFFICES ASSUME Inv, Up PROVE FollowedIsRegistered /\ ListedIsFollowed
    BY DEF RegistriesAgree
  <2>1. FollowedIsRegistered
    BY DEF Inv, Kept, OwnedAs, FollowedIsRegistered
  <2>2. ListedIsFollowed
    BY DEF Inv, Kept, ListedIsOpen, OpenOn, ListedIsFollowed
  <2> QED BY <2>1, <2>2
<1> QED BY <1>1, Invariant, PTL

\* A closed runtime holds no socket, timer or command, however its sessions
\* stood when it was closed and whatever they were still awaiting
\* (SyncStartClient.DisconnectAll).
THEOREM ClosedAlwaysHoldsNothing == Spec => []ClosedHoldsNothing
<1>1. Inv => ClosedHoldsNothing
  BY DEF Inv, Kept, Sound, Dialling, Quiet, ClosedHoldsNothing
<1> QED BY <1>1, Invariant, PTL

\* No command waits across a connection's end, redials included
\* (LobbyConnection.handleClose, LobbySession's pending commands).
THEOREM CommandsEndWithTheirConnection == Spec => []CommandsOfThisConnection
<1>1. Inv => CommandsOfThisConnection
  BY DEF Inv, Kept, Sound, Dialling, CommandsOfThisConnection
<1> QED BY <1>1, Invariant, PTL

\* Whatever closes, leaves, redials or comes late, whoever waits for a lobby has
\* the timer or the handler of a first state to answer him, unless an observer
\* rejected that state (LobbySession.connect, its pendingConnect and its timer).
THEOREM NoCallIsEverForgotten == Spec => []NoCallIsForgotten
<1>1. Owing => NoCallIsForgotten
  BY DEF Owing, Owed, NoCallIsForgotten
<1> QED BY <1>1, AlwaysOwing, PTL

=============================================================================
