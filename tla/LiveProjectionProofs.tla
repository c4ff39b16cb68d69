------------------------ MODULE LiveProjectionProofs ------------------------
(***************************************************************************)
(* A connected page with nothing on its way shows the lobby as the         *)
(* realtime service last heard of it, or as its snapshot ended: for any    *)
(* songs, any number of changes and events, and any faults.                *)
(***************************************************************************)
EXTENDS LiveProjectionProperties, SequenceTheorems, TLAPS

-----------------------------------------------------------------------------
(***************************************************************************)
(* The inductive invariant.                                                *)
(***************************************************************************)

ServerRecord == [up : BOOLEAN, sequence : Nat, cache : Seq(Message), live : Message \cup {None}]
FrameRecord  == [ready : BOOLEAN, sequence : Nat, messages : Seq(Message \cup {Changed})]
SocketRecord == [open : BOOLEAN, queue : Seq(FrameRecord), last : Nat \cup {None}, resumed : BOOLEAN]
PageRecord   == [shown : Version \cup {None}, fetch : Version \cup {Asked, None}, dirty : BOOLEAN]

\* The cache holds one message of each kind, and at least one once there is a
\* lobby to show.
Remembers(srv) ==
  /\ srv \in ServerRecord
  /\ srv.live # None => srv.cache # <<>>
  /\ \A i, j \in DOMAIN srv.cache : srv.cache[i].event = srv.cache[j].event => i = j

\* What is on its way on a socket goes on from what it has seen up to what the
\* service has sent, n, one by one; only the first frame may be a snapshot.
Flows(s, n) ==
  LET q == s.queue
  IN  /\ s \in SocketRecord
      /\ q # <<>> => s.open /\ q[Len(q)].sequence = n
      /\ s.open /\ q = <<>> => s.last = n
      /\ \A i \in DOMAIN q : q[i].ready => i = 1
      /\ \A i \in 2..Len(q) : q[i].sequence = q[i - 1].sequence + 1
      /\ q # <<>> /\ ~q[1].ready => s.last \in Nat /\ q[1].sequence = s.last + 1

\* The last message on its way is m.
Tells(q, m) ==
  \E i \in DOMAIN q : /\ q[i].messages # <<>> /\ Last(q[i].messages) = m
                      /\ \A j \in DOMAIN q : j > i => q[j].messages = <<>>

\* What the page shows of the lobby, v, is what it should, or will be once it
\* has read what is on its way.
Follows(s, srv, v) ==
  srv.live # None /\ s.open =>
    \/ \E m \in {srv.live, Last(srv.cache)} : Tells(s.queue, m)
    \/ /\ v \in {srv.live, Last(srv.cache)}
       /\ \A i \in DOMAIN s.queue : s.queue[i].messages = <<>> /\ ~s.queue[i].ready

Kinds ==
  /\ version \in Version /\ unsaid \in BOOLEAN /\ lost \in BOOLEAN
  /\ wire \in Seq(Message \cup {Changed, Gone})
  /\ page \in PageRecord
  /\ view \in Message \cup {None}

Inv ==
  /\ Kinds
  /\ Remembers(server)
  /\ socket \in [Path -> SocketRecord]
  /\ \A path \in Path : Flows(socket[path], server.sequence)
  /\ \A i \in DOMAIN socket["live"].queue : socket["live"].queue[i].messages \in Seq(Message)
  /\ Follows(socket["live"], server, view)

-----------------------------------------------------------------------------
(***************************************************************************)
(* What the realtime service makes of an event.                            *)
(***************************************************************************)

LEMMA EventIs == /\ Event = {"OnSongSelected", "OnMatchUpdate", "OnSongCompleted"}
                 /\ DOMAIN Stages = 1..3 /\ \A i \in DOMAIN Stages : Stages[i] \in Event
                 /\ Changed \notin Message /\ Gone \notin Message /\ Changed # Gone
<1>1. DOMAIN Stages = 1..3 /\ Stages[1] = "OnSongSelected" /\ Stages[2] = "OnMatchUpdate" /\ Stages[3] = "OnSongCompleted"
  BY DEF Stages
<1>2. Event = {"OnSongSelected", "OnMatchUpdate", "OnSongCompleted"} /\ \A i \in DOMAIN Stages : Stages[i] \in Event
  BY <1>1 DEF Event
<1>3. Changed.event = "ui.changed" /\ Gone.event = "syncstart.lobby-disconnected"
  BY DEF Changed, Gone
<1>4. \A m \in Message : m.event \in Event
  BY DEF Message
<1> QED BY <1>1, <1>2, <1>3, <1>4

\* The Map of the cache keeps one message of each kind.
LEMMA CacheEffect ==
  ASSUME NEW c \in Seq(Message), NEW m \in Message,
         \A i, j \in DOMAIN c : c[i].event = c[j].event => i = j
  PROVE  LET d == cache(c, m)
         IN  /\ d \in Seq(Message) /\ d # <<>>
             /\ \A i, j \in DOMAIN d : d[i].event = d[j].event => i = j
<1> DEFINE d == cache(c, m)
<1>1. CASE \E i \in DOMAIN c : c[i].event = m.event
  <2>1. d = [i \in DOMAIN c |-> IF c[i].event = m.event THEN m ELSE c[i]]
    BY <1>1 DEF cache
  <2>2. DOMAIN d = DOMAIN c /\ \A i \in DOMAIN d : d[i].event = c[i].event /\ d[i] \in Message
    BY <2>1
  <2>3. d \in Seq(Message) /\ d # <<>>
    BY <1>1, <2>1, <2>2
  <2> QED BY <2>2, <2>3
<1>2. CASE ~\E i \in DOMAIN c : c[i].event = m.event
  <2>1. d = Append(c, m)
    BY <1>2 DEF cache
  <2>2. d \in Seq(Message) /\ d # <<>> /\ DOMAIN d = 1..Len(c) + 1 /\ DOMAIN c = 1..Len(c) /\ Len(c) \in Nat
    BY <2>1
  <2>3. \A i \in DOMAIN d : d[i] = IF i = Len(c) + 1 THEN m ELSE c[i]
    BY <2>1, <2>2
  <2>4. \A i, j \in DOMAIN d : d[i].event = d[j].event => i = j
    <3> SUFFICES ASSUME NEW i \in DOMAIN d, NEW j \in DOMAIN d, d[i].event = d[j].event PROVE i = j
      OBVIOUS
    <3>1. CASE i = Len(c) + 1
      BY <1>2, <2>2, <2>3, <3>1
    <3>2. CASE j = Len(c) + 1
      BY <1>2, <2>2, <2>3, <3>2
    <3>3. CASE i # Len(c) + 1 /\ j # Len(c) + 1
      <4>1. i \in DOMAIN c /\ j \in DOMAIN c
        BY <2>2, <3>3
      <4> QED BY <2>3, <3>3, <4>1
    <3> QED BY <3>1, <3>2, <3>3
  <2> QED BY <2>2, <2>4
<1> QED BY <1>1, <1>2

\* The lobby a live message is read against: none once the lobby has left.
Reads(srv, e) == IF e = Gone THEN None ELSE srv.live

\* An event is numbered; the cache and the lobby change together.
LEMMA ApplyEffect ==
  ASSUME NEW srv, Remembers(srv), NEW e \in Message \cup {Changed, Gone}
  PROVE  LET new == apply(srv, e)
             messages == mapRealtimeEvent(e, "live", Reads(srv, e))
         IN  /\ Remembers(new) /\ new.sequence = srv.sequence + 1
             /\ messages \in Seq(Message)
             /\ messages # <<>> => Last(messages) = new.live
             /\ messages = <<>> => \/ new.live = None
                                   \/ new.live = srv.live /\ new.cache = srv.cache
<1> DEFINE kept     == IF e = Gone THEN [srv EXCEPT !.cache = <<>>, !.live = None] ELSE srv
           messages == mapRealtimeEvent(e, "live", kept.live)
           new      == apply(srv, e)
<1>1. srv \in ServerRecord
  BY DEF Remembers
<1>2. /\ kept \in ServerRecord /\ Remembers(kept) /\ kept.live = Reads(srv, e) /\ kept.sequence = srv.sequence
      /\ e = Gone => kept.live = None /\ kept.cache = <<>>
  <2>1. CASE e = Gone
    <3>1. <<>> \in Seq(Message) /\ DOMAIN <<>> = {}
      OBVIOUS
    <3>2. kept = [srv EXCEPT !.cache = <<>>, !.live = None]
      BY <2>1
    <3> QED BY <1>1, <2>1, <3>1, <3>2 DEF ServerRecord, Remembers, Reads
  <2>2. CASE e # Gone
    BY <1>1, <2>2 DEF Reads
  <2> QED BY <2>1, <2>2
<1>3. /\ new = [kept EXCEPT !.sequence = @ + 1,
                            !.cache = IF messages = <<>> THEN @ ELSE cache(@, messages[1]),
                            !.live = IF messages = <<>> THEN @ ELSE messages[1]]
  BY DEF apply
<1> HIDE DEF kept, new
<1>4. \/ messages = <<>> /\ e \in {Changed, Gone}
      \/ e \in Message /\ \E m \in Message : messages = <<m>>
  <2>1. CASE e \in {Changed, Gone}
    BY <2>1, EventIs DEF mapRealtimeEvent
  <2>2. CASE e \in Message
    <3> DEFINE live == kept.live
               m == IF e.song = None /\ live # None THEN [e EXCEPT !.song = live.song] ELSE e
    <3>1. e # Changed /\ e # Gone
      BY <2>2, EventIs
    <3>2. live \in Message \cup {None}
      BY <1>2 DEF ServerRecord
    <3>3. m \in Message
      BY <2>2, <3>2 DEF Message
    <3>4. messages = <<m>>
      BY <3>1 DEF mapRealtimeEvent
    <3> QED BY <2>2, <3>3, <3>4
  <2> QED BY <2>1, <2>2
<1> HIDE DEF messages
<1>5. ASSUME messages = <<>>
      PROVE  /\ Remembers(new) /\ new.sequence = srv.sequence + 1
             /\ (new.live = None \/ (new.live = srv.live /\ new.cache = srv.cache))
  <2>1. new = [kept EXCEPT !.sequence = kept.sequence + 1, !.cache = kept.cache, !.live = kept.live]
    BY <1>3, <1>5
  <2>2. kept.sequence \in Nat /\ kept.sequence + 1 \in Nat
    BY <1>2 DEF ServerRecord
  <2>3. new.cache = kept.cache /\ new.live = kept.live /\ new.sequence = srv.sequence + 1 /\ new \in ServerRecord
    BY <1>2, <2>1, <2>2 DEF ServerRecord
  <2>4. kept.live = None \/ kept = srv
    BY <1>2 DEF kept
  <2>5. Remembers(new)
    BY <1>2, <2>3 DEF Remembers
  <2> QED BY <2>3, <2>4, <2>5
<1>6. ASSUME NEW m \in Message, messages = <<m>>
      PROVE  new.live = m /\ Remembers(new) /\ new.sequence = srv.sequence + 1
  <2> DEFINE c == cache(kept.cache, m)
  <2>1. /\ c \in Seq(Message) /\ c # <<>>
        /\ \A i, j \in DOMAIN c : c[i].event = c[j].event => i = j
    BY <1>2, CacheEffect DEF Remembers, ServerRecord
  <2>2. new = [kept EXCEPT !.sequence = kept.sequence + 1, !.cache = c, !.live = m]
    BY <1>3, <1>6
  <2>3. kept.sequence \in Nat /\ kept.sequence + 1 \in Nat
    BY <1>2 DEF ServerRecord
  <2> HIDE DEF c
  <2>4. new.cache = c /\ new.live = m /\ new.sequence = srv.sequence + 1 /\ new \in ServerRecord
    BY <1>2, <2>1, <2>2, <2>3 DEF ServerRecord
  <2> QED BY <2>1, <2>4 DEF Remembers
<1>7. /\ Remembers(new) /\ new.sequence = srv.sequence + 1 /\ messages \in Seq(Message)
      /\ messages # <<>> => Last(messages) = new.live
      /\ messages = <<>> => (new.live = None \/ (new.live = srv.live /\ new.cache = srv.cache))
  <2>1. CASE messages = <<>>
    BY <1>5, <2>1
  <2>2. ASSUME NEW m \in Message, messages = <<m>>
        PROVE  messages \in Seq(Message) /\ messages # <<>> /\ Last(messages) = m
    BY <2>2 DEF Last
  <2> QED BY <1>4, <1>6, <2>1, <2>2
<1> QED BY <1>2, <1>7 DEF messages, new

-----------------------------------------------------------------------------
(***************************************************************************)
(* What a step does to the frames on their way on one socket.              *)
(***************************************************************************)

LEMMA AppendAt ==
  ASSUME NEW S, NEW q \in Seq(S), NEW f \in S
  PROVE  /\ Append(q, f) \in Seq(S) /\ Len(Append(q, f)) = Len(q) + 1 /\ Append(q, f) # <<>>
         /\ DOMAIN Append(q, f) = 1..Len(q) + 1 /\ DOMAIN q = 1..Len(q) /\ Len(q) \in Nat
         /\ \A i \in DOMAIN Append(q, f) : Append(q, f)[i] = IF i = Len(q) + 1 THEN f ELSE q[i]
OBVIOUS

LEMMA TailAt ==
  ASSUME NEW S, NEW q \in Seq(S), q # <<>>
  PROVE  /\ Tail(q) \in Seq(S) /\ Len(Tail(q)) = Len(q) - 1 /\ Len(q) \in Nat \ {0}
         /\ DOMAIN Tail(q) = 1..Len(q) - 1 /\ DOMAIN q = 1..Len(q)
         /\ \A i \in DOMAIN Tail(q) : i + 1 \in DOMAIN q /\ Tail(q)[i] = q[i + 1]
         /\ Head(q) = q[1] /\ Head(q) \in S
         /\ Tail(q) = <<>> <=> Len(q) = 1
<1>1. /\ Tail(q) \in Seq(S) /\ Len(Tail(q)) = Len(q) - 1 /\ Len(q) \in Nat \ {0}
      /\ DOMAIN Tail(q) = 1..Len(q) - 1 /\ DOMAIN q = 1..Len(q)
      /\ \A i \in DOMAIN Tail(q) : i + 1 \in DOMAIN q /\ Tail(q)[i] = q[i + 1]
      /\ Head(q) = q[1] /\ Head(q) \in S
  OBVIOUS
<1>2. Tail(q) = <<>> <=> Len(Tail(q)) = 0
  BY <1>1, EmptySeq
<1> QED BY <1>1, <1>2

LEMMA OneFrame ==
  ASSUME NEW f
  PROVE  Len(<<f>>) = 1 /\ DOMAIN <<f>> = {1} /\ <<f>>[1] = f /\ <<f>> # <<>>
OBVIOUS

\* A frame of the stream goes behind those on their way.
LEMMA SentFlows ==
  ASSUME NEW s, NEW n \in Nat, Flows(s, n), s.open, NEW messages \in Seq(Message \cup {Changed})
  PROVE  Flows([s EXCEPT !.queue = Append(@, Frame(FALSE, n + 1, messages))], n + 1)
<1> DEFINE f == Frame(FALSE, n + 1, messages)
           q == s.queue
           p == Append(q, f)
           t == [s EXCEPT !.queue = p]
<1>1. f \in FrameRecord /\ ~f.ready /\ f.sequence = n + 1
  BY DEF Frame, FrameRecord
<1>2. s \in SocketRecord /\ q \in Seq(FrameRecord)
  BY DEF Flows, SocketRecord
<1> HIDE DEF f
<1>3. /\ p \in Seq(FrameRecord) /\ Len(p) = Len(q) + 1 /\ p # <<>> /\ Len(q) \in Nat
      /\ DOMAIN p = 1..Len(q) + 1 /\ DOMAIN q = 1..Len(q)
      /\ \A i \in DOMAIN p : p[i] = IF i = Len(q) + 1 THEN f ELSE q[i]
  BY <1>1, <1>2, AppendAt
<1>4. q = <<>> <=> Len(q) = 0
  BY <1>2
<1> HIDE DEF p
<1>5. t \in SocketRecord /\ t.queue = p /\ t.open /\ t.last = s.last
  BY <1>2, <1>3 DEF SocketRecord
<1>6. p[Len(p)].sequence = n + 1
  BY <1>1, <1>3
<1>7. \A i \in DOMAIN p : p[i].ready => i = 1
  BY <1>1, <1>3 DEF Flows
<1>8. \A i \in 2..Len(p) : p[i].sequence = p[i - 1].sequence + 1
  <2> SUFFICES ASSUME NEW i \in 2..Len(p) PROVE p[i].sequence = p[i - 1].sequence + 1
    OBVIOUS
  <2>1. i \in DOMAIN p /\ i - 1 \in DOMAIN p /\ i - 1 # Len(q) + 1
    BY <1>3
  <2>2. p[i - 1] = q[i - 1]
    BY <1>3, <2>1
  <2>3. CASE i = Len(q) + 1
    BY <1>1, <1>3, <1>4, <2>1, <2>2, <2>3 DEF Flows
  <2>4. CASE i # Len(q) + 1
    BY <1>3, <2>1, <2>2, <2>4 DEF Flows
  <2> QED BY <2>3, <2>4
<1>9. ~p[1].ready => s.last \in Nat /\ p[1].sequence = s.last + 1
  <2>1. CASE q = <<>>
    BY <1>1, <1>3, <1>4, <2>1 DEF Flows
  <2>2. CASE q # <<>>
    BY <1>3, <1>4, <2>2 DEF Flows
  <2> QED BY <2>1, <2>2
<1> HIDE DEF t
<1>10. Flows(t, n + 1)
  BY <1>3, <1>5, <1>6, <1>7, <1>8, <1>9 DEF Flows
<1> QED BY <1>10 DEF t, p, f

\* The page reads the first frame: nothing of the stream is new twice, and
\* nothing is missed.
Taken(s, frame) ==
  [s EXCEPT !.queue = Tail(@), !.last = IF Duplicate(s, frame) THEN @ ELSE frame.sequence,
            !.resumed = @ /\ ~frame.ready]

LEMMA TakenFlows ==
  ASSUME NEW s, NEW n \in Nat, Flows(s, n), s.queue # <<>>
  PROVE  LET frame == Head(s.queue)
         IN  /\ Flows(Taken(s, frame), n) /\ Taken(s, frame).open = s.open /\ Taken(s, frame).queue = Tail(s.queue)
             /\ frame \in FrameRecord /\ ~Duplicate(s, frame) /\ (~frame.ready => ~Missed(s, frame))
<1> DEFINE q     == s.queue
           frame == Head(q)
           p     == Tail(q)
           t     == Taken(s, frame)
<1>1. s \in SocketRecord /\ q \in Seq(FrameRecord) /\ s.last \in Nat \cup {None} /\ s.resumed \in BOOLEAN
  BY DEF Flows, SocketRecord
<1>2. /\ p \in Seq(FrameRecord) /\ Len(p) = Len(q) - 1 /\ Len(q) \in Nat \ {0}
      /\ DOMAIN p = 1..Len(q) - 1 /\ DOMAIN q = 1..Len(q)
      /\ \A i \in DOMAIN p : i + 1 \in DOMAIN q /\ p[i] = q[i + 1]
      /\ frame = q[1] /\ frame \in FrameRecord /\ (p = <<>> <=> Len(q) = 1)
  BY <1>1, TailAt
<1>3. frame.ready \in BOOLEAN /\ frame.sequence \in Nat
  BY <1>2 DEF FrameRecord
<1>4. ~frame.ready => s.last \in Nat /\ frame.sequence = s.last + 1
  BY <1>2 DEF Flows
<1> HIDE DEF frame, p
<1>5. ~Duplicate(s, frame) /\ (~frame.ready => ~Missed(s, frame))
  BY <1>3, <1>4 DEF Duplicate, Missed
<1> DEFINE resumed == s.resumed /\ ~frame.ready
<1>7. resumed \in BOOLEAN
  OBVIOUS
<1>8. t = [s EXCEPT !.queue = p, !.last = frame.sequence, !.resumed = resumed]
  BY <1>5 DEF Taken, p
<1> HIDE DEF resumed, t
<1>9. t \in SocketRecord /\ t.queue = p /\ t.open = s.open /\ t.last = frame.sequence
  BY <1>1, <1>2, <1>3, <1>7, <1>8 DEF SocketRecord
<1>10. \A i \in DOMAIN p : ~p[i].ready
  BY <1>2 DEF Flows
<1>11. \A i \in 2..Len(q) : q[i].sequence = q[i - 1].sequence + 1
  BY DEF Flows
<1>12. \A i \in 2..Len(p) : p[i].sequence = p[i - 1].sequence + 1
  <2> SUFFICES ASSUME NEW i \in 2..Len(p) PROVE p[i].sequence = p[i - 1].sequence + 1
    OBVIOUS
  <2>1. Len(p) = Len(q) - 1 /\ Len(q) \in Nat /\ DOMAIN p = 1..Len(p)
    BY <1>2
  <2>2. i \in DOMAIN p /\ i - 1 \in DOMAIN p /\ i + 1 \in 2..Len(q) /\ (i - 1) + 1 = i
    BY <2>1
  <2>3. p[i] = q[i + 1] /\ p[i - 1] = q[i]
    <3>1. \A j \in DOMAIN p : p[j] = q[j + 1]
      BY <1>2
    <3> QED BY <2>2, <3>1
  <2> QED BY <1>11, <2>2, <2>3
<1>13. p # <<>> => p[Len(p)].sequence = n /\ p[1].sequence = frame.sequence + 1 /\ s.open
  <2> SUFFICES ASSUME p # <<>> PROVE p[Len(p)].sequence = n /\ p[1].sequence = frame.sequence + 1 /\ s.open
    OBVIOUS
  <2>1. Len(p) \in DOMAIN p /\ 1 \in DOMAIN p /\ 2 \in 2..Len(q)
    BY <1>2
  <2>2. p[Len(p)] = q[Len(q)] /\ p[1] = q[2]
    BY <1>2, <2>1
  <2> QED BY <1>2, <1>11, <2>1, <2>2 DEF Flows
<1>14. p = <<>> => frame.sequence = n
  BY <1>2 DEF Flows
<1>15. Flows(t, n)
  BY <1>3, <1>9, <1>10, <1>12, <1>13, <1>14, <1>2 DEF Flows
<1> QED BY <1>2, <1>5, <1>9, <1>15 DEF t, frame, p

-----------------------------------------------------------------------------
(***************************************************************************)
(* What the page will show.                                                *)
(***************************************************************************)

\* A message goes behind the others, or the lobby is as it was.
LEMMA SentFollows ==
  ASSUME NEW s, NEW n \in Nat, Flows(s, n), s.open, NEW messages \in Seq(Message \cup {Changed}),
         NEW srv, NEW new, NEW v, Follows(s, srv, v),
         messages # <<>> => Last(messages) = new.live,
         messages = <<>> => \/ new.live = None
                            \/ new.live = srv.live /\ new.cache = srv.cache
  PROVE  Follows([s EXCEPT !.queue = Append(@, Frame(FALSE, n + 1, messages))], new, v)
<1> DEFINE f == Frame(FALSE, n + 1, messages)
           q == s.queue
           p == Append(q, f)
           t == [s EXCEPT !.queue = p]
<1>1. f \in FrameRecord /\ ~f.ready /\ f.messages = messages
  BY DEF Frame, FrameRecord
<1>2. s \in SocketRecord /\ q \in Seq(FrameRecord)
  BY DEF Flows, SocketRecord
<1> HIDE DEF f
<1>3. /\ DOMAIN p = 1..Len(q) + 1 /\ DOMAIN q = 1..Len(q) /\ Len(q) \in Nat
      /\ \A i \in DOMAIN p : p[i] = IF i = Len(q) + 1 THEN f ELSE q[i]
  BY <1>1, <1>2, AppendAt
<1> HIDE DEF p
<1>4. t.queue = p /\ t.open
  BY <1>2 DEF SocketRecord
<1> HIDE DEF t
<1>5. CASE messages # <<>>
  <2>1. Tells(p, new.live)
    <3> DEFINE k == Len(q) + 1
    <3>1. k \in DOMAIN p /\ p[k] = f /\ \A j \in DOMAIN p : ~(j > k)
      BY <1>3
    <3>2. p[k].messages # <<>> /\ Last(p[k].messages) = new.live
      BY <1>1, <1>5, <3>1
    <3> HIDE DEF k
    <3> QED BY <3>1, <3>2 DEF Tells
  <2> QED BY <1>4, <2>1 DEF Follows, t, p, f
<1>6. CASE messages = <<>>
  <2> SUFFICES ASSUME new.live # None PROVE Follows(t, new, v)
    BY DEF Follows, t, p, f
  <2>1. new.live = srv.live /\ new.cache = srv.cache
    BY <1>6
  <2>2. \A m : Tells(q, m) => Tells(p, m)
    <3> SUFFICES ASSUME NEW m, NEW i \in DOMAIN q, q[i].messages # <<>>, Last(q[i].messages) = m,
                        \A j \in DOMAIN q : j > i => q[j].messages = <<>>
                 PROVE  Tells(p, m)
      BY DEF Tells
    <3>1. i \in DOMAIN p /\ p[i] = q[i]
      BY <1>3
    <3>2. \A j \in DOMAIN p : j > i => p[j].messages = <<>>
      BY <1>1, <1>3, <1>6
    <3> QED BY <3>1, <3>2 DEF Tells
  <2>3. (\A i \in DOMAIN q : q[i].messages = <<>> /\ ~q[i].ready) =>
          \A i \in DOMAIN p : p[i].messages = <<>> /\ ~p[i].ready
    BY <1>1, <1>3, <1>6
  <2> QED BY <1>4, <2>1, <2>2, <2>3 DEF Follows
<1> QED BY <1>5, <1>6

\* What a frame shows is what the others behind it leave.
LEMMA TakenFollows ==
  ASSUME NEW s, NEW n \in Nat, Flows(s, n), s.queue # <<>>, NEW srv, NEW v, NEW w,
         Follows(s, srv, v),
         LET frame == Head(s.queue)
         IN  w = IF Duplicate(s, frame) THEN v
                 ELSE IF frame.messages # <<>> THEN Last(frame.messages)
                 ELSE IF Missed(s, frame) THEN None ELSE v
  PROVE  Follows(Taken(s, Head(s.queue)), srv, w)
<1> DEFINE q     == s.queue
           frame == Head(q)
           p     == Tail(q)
           t     == Taken(s, frame)
<1>1. t.open = s.open /\ t.queue = p /\ ~Duplicate(s, frame) /\ (~frame.ready => ~Missed(s, frame))
  BY TakenFlows
<1>2. q \in Seq(FrameRecord)
  BY DEF Flows, SocketRecord
<1>3. /\ Len(q) \in Nat \ {0} /\ DOMAIN p = 1..Len(q) - 1 /\ DOMAIN q = 1..Len(q)
      /\ \A i \in DOMAIN p : i + 1 \in DOMAIN q /\ p[i] = q[i + 1]
      /\ frame = q[1]
  BY <1>2, TailAt
<1>4. w = IF frame.messages # <<>> THEN Last(frame.messages) ELSE IF Missed(s, frame) THEN None ELSE v
  BY <1>1
<1>5. \A i \in DOMAIN p : ~p[i].ready
  BY <1>3 DEF Flows
<1> HIDE DEF frame, p, t
<1> SUFFICES ASSUME srv.live # None, s.open PROVE Follows(t, srv, w)
  BY <1>1 DEF Follows, t, frame
<1>6. ASSUME NEW m \in {srv.live, Last(srv.cache)}, Tells(q, m) PROVE Follows(t, srv, w)
  <2>1. PICK i \in DOMAIN q : /\ q[i].messages # <<>> /\ Last(q[i].messages) = m
                              /\ \A j \in DOMAIN q : j > i => q[j].messages = <<>>
    BY <1>6 DEF Tells
  <2>2. CASE i = 1
    <3>1. w = m /\ \A j \in DOMAIN p : p[j].messages = <<>>
      BY <1>3, <1>4, <2>1, <2>2
    <3> QED BY <1>1, <1>5, <3>1 DEF Follows
  <2>3. CASE i # 1
    <3>1. i - 1 \in DOMAIN p /\ (i - 1) + 1 = i
      BY <1>3, <2>3
    <3>2. p[i - 1] = q[i]
      BY <1>3, <3>1
    <3>3. \A j \in DOMAIN p : j > i - 1 => p[j].messages = <<>>
      <4> SUFFICES ASSUME NEW j \in DOMAIN p, j > i - 1 PROVE p[j].messages = <<>>
        OBVIOUS
      <4>1. j + 1 \in DOMAIN q /\ p[j] = q[j + 1] /\ j + 1 > i
        BY <1>3
      <4> QED BY <2>1, <4>1
    <3>4. Tells(p, m)
      BY <2>1, <3>1, <3>2, <3>3 DEF Tells
    <3> QED BY <1>1, <3>4 DEF Follows
  <2> QED BY <2>2, <2>3
<1>7. ASSUME v \in {srv.live, Last(srv.cache)}, \A i \in DOMAIN q : q[i].messages = <<>> /\ ~q[i].ready
      PROVE  Follows(t, srv, w)
  <2>1. w = v /\ \A j \in DOMAIN p : p[j].messages = <<>>
    BY <1>1, <1>3, <1>4, <1>7
  <2> QED BY <1>1, <1>5, <1>7, <2>1 DEF Follows
<1> QED BY <1>6, <1>7 DEF Follows

-----------------------------------------------------------------------------
(***************************************************************************)
(* Every action keeps the invariant.                                       *)
(***************************************************************************)

LEMMA SourceKeeps ==
  ASSUME Inv, Source \/ Flush \/ Read \/ Arrive
  PROVE  Inv'
<1> USE DEF Inv, Kinds
<1>1. UNCHANGED <<server, socket, view>>
  BY DEF Source, Write, Publish, PublishToNobody, LobbyEvent, LobbyLeaves, Flush, Read, Arrive
<1>2. version' \in Version /\ unsaid' \in BOOLEAN /\ lost' \in BOOLEAN /\ wire' \in Seq(Message \cup {Changed, Gone})
  <2>1. CASE Write
    BY <2>1, BoundsAssumption DEF Write, Version
  <2>2. CASE Publish
    <3>1. unsaid' = FALSE /\ version' = version /\ wire' = Append(wire, Changed)
      BY <2>2 DEF Publish
    <3>2. lost' \in BOOLEAN
      BY <2>2 DEF Publish
    <3>3. Append(wire, Changed) \in Seq(Message \cup {Changed, Gone})
      OBVIOUS
    <3> QED BY <3>1, <3>2, <3>3
  <2>3. CASE PublishToNobody
    BY <2>3 DEF PublishToNobody
  <2>4. ASSUME NEW i \in DOMAIN Stages, NEW song \in Song \cup {None}, LobbyEvent(i, song)
        PROVE  /\ UNCHANGED <<version, unsaid, lost>>
               /\ wire' \in Seq(Message \cup {Changed, Gone})
    <3> DEFINE m == [event |-> Stages[i], song |-> song]
    <3>1. m \in Message
      BY EventIs DEF Message
    <3>2. wire' \in {Append(wire, m), wire}
      BY <2>4 DEF LobbyEvent
    <3> HIDE DEF m
    <3> QED BY <2>4, <3>1, <3>2 DEF LobbyEvent
  <2>5. CASE LobbyLeaves
    BY <2>5 DEF LobbyLeaves
  <2>6. CASE Flush \/ Read \/ Arrive
    BY <2>6 DEF Flush, Read, Arrive
  <2> QED BY <2>1, <2>2, <2>3, <2>4, <2>5, <2>6 DEF Source
<1>4. page' \in PageRecord
  <2>1. CASE Flush
    BY <2>1 DEF Flush, Invalidated, PageRecord
  <2>2. CASE Read
    BY <2>2 DEF Read, PageRecord
  <2>3. CASE Arrive
    BY <2>3 DEF Arrive, PageRecord
  <2>4. CASE Source
    BY <2>4 DEF Source, Write, Publish, PublishToNobody, LobbyEvent, LobbyLeaves
  <2> QED BY <2>1, <2>2, <2>3, <2>4
<1> QED BY <1>1, <1>2, <1>4

LEMMA ForwardKeeps ==
  ASSUME Inv, Forward
  PROVE  Inv'
<1> DEFINE e == Head(wire)
           live == Reads(server, e)
           n == server.sequence
           sent(path) == mapRealtimeEvent(e, path, live)
           t(path) == [socket[path] EXCEPT !.queue = Append(@, Frame(FALSE, n + 1, sent(path)))]
<1>1. e \in Message \cup {Changed, Gone} /\ wire' \in Seq(Message \cup {Changed, Gone})
  BY DEF Inv, Kinds, Forward
<1>2. server' = apply(server, e) /\ Remembers(server) /\ server \in ServerRecord /\ n \in Nat
  BY DEF Inv, Forward, Remembers, ServerRecord
<1>3. socket' = [path \in Path |-> IF socket[path].open THEN t(path) ELSE socket[path]]
  BY DEF Forward, Reads
<1>4. \A path \in Path : Flows(socket[path], n) /\ socket[path] \in SocketRecord /\ socket[path].queue \in Seq(FrameRecord)
  BY DEF Inv, SocketRecord
<1>5. UNCHANGED <<version, unsaid, lost, page, view>>
  BY DEF Forward
<1> HIDE DEF e
<1>6. /\ Remembers(server') /\ server'.sequence = n + 1 /\ sent("live") \in Seq(Message)
      /\ sent("live") # <<>> => Last(sent("live")) = server'.live
      /\ sent("live") = <<>> => \/ server'.live = None
                                \/ server'.live = server.live /\ server'.cache = server.cache
  BY <1>1, <1>2, ApplyEffect
<1>7. \A path \in Path : sent(path) \in Seq(Message \cup {Changed})
  <2>1. sent("ui") \in Seq(Message \cup {Changed})
    <3>1. sent("ui") \in {<<e>>, <<>>} /\ (e # Changed => sent("ui") = <<>>)
      BY EventIs DEF mapRealtimeEvent
    <3>2. <<Changed>> \in Seq(Message \cup {Changed}) /\ <<>> \in Seq(Message \cup {Changed})
      OBVIOUS
    <3> QED BY <3>1, <3>2
  <2>2. sent("live") \in Seq(Message \cup {Changed})
    BY <1>6
  <2> QED BY <2>1, <2>2 DEF Path
<1> HIDE DEF sent
<1>8. ASSUME NEW path \in Path PROVE Flows(socket'[path], n + 1)
  <2>1. CASE socket[path].open
    BY <1>2, <1>3, <1>4, <1>7, <2>1, SentFlows
  <2>2. CASE ~socket[path].open
    BY <1>3, <1>4, <2>2 DEF Flows
  <2> QED BY <2>1, <2>2
<1>9. socket' \in [Path -> SocketRecord]
  BY <1>3, <1>8 DEF Flows
<1> DEFINE s == socket["live"]
<1>10. /\ "live" \in Path /\ Flows(s, n) /\ Follows(s, server, view) /\ s \in SocketRecord /\ s.queue \in Seq(FrameRecord)
       /\ \A i \in DOMAIN s.queue : s.queue[i].messages \in Seq(Message)
  BY <1>4 DEF Inv, Path
<1>11. CASE s.open
  <2>1. socket'["live"] = t("live")
    BY <1>3, <1>10, <1>11
  <2>2. Follows(t("live"), server', view)
    BY <1>2, <1>6, <1>7, <1>10, <1>11, SentFollows
  <2>3. \A i \in DOMAIN t("live").queue : t("live").queue[i].messages \in Seq(Message)
    <3> DEFINE f == Frame(FALSE, n + 1, sent("live"))
    <3>1. f \in FrameRecord /\ f.messages = sent("live")
      BY <1>2, <1>7, <1>10 DEF Frame, FrameRecord
    <3> DEFINE q == s.queue
               p == Append(q, f)
    <3>2. t("live").queue = p
      BY <1>10 DEF SocketRecord
    <3> HIDE DEF f, t
    <3>3. /\ DOMAIN p = 1..Len(q) + 1 /\ DOMAIN q = 1..Len(q) /\ Len(q) \in Nat
          /\ \A i \in DOMAIN p : p[i] = IF i = Len(q) + 1 THEN f ELSE q[i]
      BY <1>10, <3>1, AppendAt
    <3> HIDE DEF p
    <3>4. \A i \in DOMAIN p : p[i].messages \in Seq(Message)
      BY <1>6, <1>10, <3>1, <3>3
    <3> QED BY <3>2, <3>4
  <2> HIDE DEF t, s
  <2> QED BY <1>1, <1>5, <1>6, <1>8, <1>9, <2>1, <2>2, <2>3 DEF Inv, Kinds
<1>12. CASE ~s.open
  <2>1. socket'["live"] = s
    BY <1>3, <1>10, <1>12
  <2>2. Follows(s, server', view)
    BY <1>12 DEF Follows
  <2> QED BY <1>1, <1>5, <1>6, <1>8, <1>9, <1>10, <2>1, <2>2 DEF Inv, Kinds
<1> QED BY <1>11, <1>12

\* A connection begins with a snapshot, in which the cache speaks for the lobby.
LEMMA ConnectKeeps ==
  ASSUME Inv, NEW path \in Path, Connect(path)
  PROVE  Inv'
<1> DEFINE f == ReadyFrame(path)
           q == <<f>>
           t == [socket[path] EXCEPT !.open = TRUE, !.queue = q]
<1>1. UNCHANGED <<version, unsaid, wire, server, view, page, lost>> /\ socket \in [Path -> SocketRecord]
  BY DEF Inv, Connect
<1>2. socket' = [socket EXCEPT ![path] = t]
  BY <1>1 DEF Connect
<1>3. server \in ServerRecord /\ Remembers(server)
  BY DEF Inv, Remembers
<1>4. /\ f \in FrameRecord /\ f.ready /\ f.sequence = server.sequence
      /\ path = "live" => f.messages = server.cache /\ f.messages \in Seq(Message)
  BY <1>3 DEF ReadyFrame, Frame, FrameRecord, ServerRecord
<1> HIDE DEF f
<1>5. q \in Seq(FrameRecord) /\ socket[path] \in SocketRecord
  BY <1>1, <1>4
<1> HIDE DEF q
<1>6. t \in SocketRecord /\ t.open /\ t.queue = q
  BY <1>5 DEF SocketRecord
<1>7. DOMAIN q = {1} /\ Len(q) = 1 /\ q[1] = f /\ q # <<>>
  BY OneFrame DEF q
<1>8. socket'[path] = t /\ \A other \in Path \ {path} : socket'[other] = socket[other]
  BY <1>1, <1>2
<1> HIDE DEF t
<1>9. Flows(t, server.sequence)
  BY <1>4, <1>6, <1>7 DEF Flows
<1>10. path = "live" => Follows(t, server, view) /\ \A i \in DOMAIN t.queue : t.queue[i].messages \in Seq(Message)
  <2> SUFFICES ASSUME path = "live"
               PROVE  Follows(t, server, view) /\ \A i \in DOMAIN t.queue : t.queue[i].messages \in Seq(Message)
    OBVIOUS
  <2>1. server.live # None => Tells(t.queue, Last(server.cache))
    BY <1>3, <1>4, <1>6, <1>7 DEF Tells, Remembers
  <2> QED BY <1>4, <1>6, <2>1, <1>7 DEF Follows
<1>11. "live" \in Path
  BY DEF Path
<1> QED BY <1>1, <1>2, <1>6, <1>8, <1>9, <1>10, <1>11 DEF Inv, Kinds

\* A connection that breaks has nothing left on its way.
LEMMA HangsKept ==
  ASSUME NEW path \in Path, socket \in [Path -> SocketRecord]
  PROVE  /\ ~Hangs(path).open /\ Hangs(path).queue = <<>> /\ Hangs(path) \in SocketRecord
         /\ \A n, srv, v : Flows(Hangs(path), n) /\ Follows(Hangs(path), srv, v)
<1> DEFINE resumed == socket[path].resumed \/ socket[path].open
           t == Hangs(path)
<1>1. <<>> \in Seq(FrameRecord) /\ DOMAIN <<>> = {} /\ Len(<<>>) = 0
  OBVIOUS
<1>2. resumed \in BOOLEAN
  OBVIOUS
<1>3. t = [socket[path] EXCEPT !.open = FALSE, !.queue = <<>>, !.resumed = resumed]
  BY DEF Hangs
<1> HIDE DEF resumed
<1>4. t \in SocketRecord /\ ~t.open /\ t.queue = <<>>
  BY <1>1, <1>2, <1>3 DEF SocketRecord
<1> HIDE DEF t
<1>5. \A n, srv, v : Flows(t, n) /\ Follows(t, srv, v)
  BY <1>1, <1>4 DEF Flows, Follows
<1> QED BY <1>4, <1>5 DEF t

LEMMA DisconnectKeeps ==
  ASSUME Inv, NEW path \in Path, Disconnect(path)
  PROVE  Inv'
<1>1. UNCHANGED <<version, unsaid, wire, server, view, page, lost>> /\ socket \in [Path -> SocketRecord]
  BY DEF Inv, Disconnect
<1>2. socket' = [socket EXCEPT ![path] = Hangs(path)]
  BY DEF Disconnect
<1>3. socket'[path] = Hangs(path) /\ \A other \in Path \ {path} : socket'[other] = socket[other]
  BY <1>1, <1>2
<1>4. DOMAIN <<>> = {} /\ "live" \in Path
  BY DEF Path
<1> QED BY <1>1, <1>2, <1>3, <1>4, HangsKept DEF Inv, Kinds

LEMMA StopKeeps ==
  ASSUME Inv, Stop
  PROVE  Inv'
<1>1. UNCHANGED <<version, unsaid, view, page>> /\ socket \in [Path -> SocketRecord] /\ wire' = <<>> /\ lost' = TRUE
  BY DEF Inv, Stop
<1>2. socket' = [path \in Path |-> Hangs(path)]
  BY DEF Stop
<1>3. DOMAIN <<>> = {} /\ "live" \in Path
  BY DEF Path
<1>4. Remembers(server') /\ server'.sequence = 0
  <2>1. Empty \in ServerRecord /\ Empty.cache = <<>> /\ Empty.live = None /\ Empty.sequence = 0
    BY DEF Empty, ServerRecord
  <2>2. server' \in ServerRecord /\ server'.cache = <<>> /\ server'.live = None /\ server'.sequence = 0
    BY <2>1 DEF Stop, ServerRecord
  <2> QED BY <1>3, <2>2 DEF Remembers
<1>5. socket' \in [Path -> SocketRecord] /\ <<>> \in Seq(Message \cup {Changed, Gone})
  BY <1>1, <1>2, HangsKept
<1> QED BY <1>5, <1>1, <1>2, <1>3, <1>4, HangsKept DEF Inv, Kinds

LEMMA ReceiveLiveKeeps ==
  ASSUME Inv, ReceiveLive
  PROVE  Inv'
<1> DEFINE s     == socket["live"]
           frame == Head(s.queue)
           t     == Taken(s, frame)
           n     == server.sequence
<1>1. UNCHANGED <<version, unsaid, wire, server, page, lost>> /\ s.queue # <<>> /\ socket \in [Path -> SocketRecord]
  BY DEF Inv, ReceiveLive
<1>2. socket' = [socket EXCEPT !["live"] = t]
  BY DEF ReceiveLive, Taken
<1>3. view' = IF Duplicate(s, frame) THEN view
              ELSE IF frame.messages # <<>> THEN Last(frame.messages)
              ELSE IF Missed(s, frame) THEN None ELSE view
  BY DEF ReceiveLive
<1>4. /\ "live" \in Path /\ Flows(s, n) /\ Follows(s, server, view) /\ n \in Nat
      /\ s \in SocketRecord /\ s.queue \in Seq(FrameRecord)
      /\ \A i \in DOMAIN s.queue : s.queue[i].messages \in Seq(Message)
  BY DEF Inv, Path, Remembers, ServerRecord, SocketRecord
<1>5. Follows(t, server, view')
  BY <1>1, <1>3, <1>4, TakenFollows
<1>6. Flows(t, n) /\ t.queue = Tail(s.queue)
  BY <1>1, <1>4, TakenFlows
<1>7. /\ frame = s.queue[1] /\ 1 \in DOMAIN s.queue
      /\ \A i \in DOMAIN Tail(s.queue) : i + 1 \in DOMAIN s.queue /\ Tail(s.queue)[i] = s.queue[i + 1]
  <2> DEFINE q == s.queue
  <2>1. q \in Seq(FrameRecord) /\ q # <<>>
    BY <1>1, <1>4
  <2> HIDE DEF q
  <2>2. Head(q) = q[1] /\ 1 \in DOMAIN q /\ \A i \in DOMAIN Tail(q) : i + 1 \in DOMAIN q /\ Tail(q)[i] = q[i + 1]
    BY <2>1, TailAt
  <2> QED BY <2>2 DEF q
<1>8. view' \in Message \cup {None}
  <2>1. frame.messages \in Seq(Message)
    BY <1>4, <1>7
  <2>2. frame.messages # <<>> => Last(frame.messages) \in Message
    BY <2>1 DEF Last
  <2> QED BY <1>3, <2>2 DEF Inv, Kinds
<1>9. socket'["live"] = t /\ \A path \in Path \ {"live"} : socket'[path] = socket[path]
  BY <1>1, <1>2, <1>4
<1>10. \A i \in DOMAIN t.queue : t.queue[i].messages \in Seq(Message)
  BY <1>4, <1>6, <1>7
<1>11. t \in SocketRecord
  BY <1>6 DEF Flows
<1> HIDE DEF t
<1> QED BY <1>1, <1>2, <1>5, <1>6, <1>8, <1>9, <1>10, <1>11 DEF Inv, Kinds

LEMMA ReceiveUiKeeps ==
  ASSUME Inv, ReceiveUi
  PROVE  Inv'
<1> DEFINE s     == socket["ui"]
           frame == Head(s.queue)
           t     == Taken(s, frame)
<1>1. UNCHANGED <<version, unsaid, wire, server, view, lost>> /\ s.queue # <<>> /\ socket \in [Path -> SocketRecord]
  BY DEF Inv, ReceiveUi
<1>2. socket' = [socket EXCEPT !["ui"] = t]
  BY DEF ReceiveUi, Taken
<1>3. "ui" \in Path /\ "live" \in Path \ {"ui"} /\ server.sequence \in Nat
  BY DEF Inv, Path, Remembers, ServerRecord
<1>4. Flows(t, server.sequence)
  BY <1>1, <1>3, TakenFlows DEF Inv
<1>5. page' \in PageRecord
  <2> DEFINE recovered == IF Missed(s, frame) THEN Invalidated(page) ELSE page
  <2>1. recovered \in PageRecord
    BY DEF Inv, Kinds, Invalidated, PageRecord
  <2>2. page' \in {[recovered EXCEPT !.dirty = TRUE], recovered}
    BY DEF ReceiveUi
  <2> HIDE DEF recovered
  <2> QED BY <2>1, <2>2 DEF PageRecord
<1>6. socket'["ui"] = t /\ \A path \in Path \ {"ui"} : socket'[path] = socket[path]
  BY <1>1, <1>2, <1>3
<1>7. t \in SocketRecord
  BY <1>4 DEF Flows
<1> HIDE DEF t
<1> QED BY <1>1, <1>2, <1>3, <1>4, <1>5, <1>6, <1>7 DEF Inv, Kinds

\* A service that stopped starts where it stopped, with nothing sent.
LEMMA StartKeeps ==
  ASSUME Inv, server.up \/ server.sequence = 0, Start
  PROVE  Inv'
<1>1. UNCHANGED <<version, unsaid, wire, socket, view, page, lost>> /\ server' = Empty /\ server.sequence = 0
  BY DEF Start
<1>2. Empty \in ServerRecord /\ Empty.cache = <<>> /\ Empty.live = None /\ Empty.sequence = 0 /\ DOMAIN Empty.cache = {}
  BY DEF Empty, ServerRecord
<1> HIDE DEF Empty
<1> QED BY <1>1, <1>2 DEF Inv, Kinds, Remembers, Follows

-----------------------------------------------------------------------------
(***************************************************************************)
(* The theorems.                                                           *)
(***************************************************************************)

\* A service that is down has sent nothing.
Quiet == server.up \/ server.sequence = 0

LEMMA InitHolds == Init => Inv /\ Quiet
<1> SUFFICES ASSUME Init PROVE Inv /\ Quiet
  OBVIOUS
<1>1. <<>> \in Seq(FrameRecord) /\ DOMAIN <<>> = {} /\ Len(<<>>) = 0 /\ <<>> \in Seq(Message \cup {Changed, Gone})
  OBVIOUS
<1>2. Closed \in SocketRecord /\ ~Closed.open /\ Closed.queue = <<>>
  BY <1>1 DEF Closed, SocketRecord
<1>3. /\ Empty \in ServerRecord /\ Empty.cache = <<>> /\ Empty.live = None /\ Empty.sequence = 0
      /\ DOMAIN Empty.cache = {} /\ Empty.up
  BY DEF Empty, ServerRecord
<1>4. Flows(Closed, 0) /\ Follows(Closed, server, view)
  BY <1>1, <1>2 DEF Flows, Follows
<1>5. Kinds
  <2>1. 0 \in Version
    BY BoundsAssumption DEF Version
  <2>2. page \in PageRecord
    BY <2>1 DEF Init, PageRecord
  <2>3. version = 0 /\ unsaid = FALSE /\ lost = FALSE /\ wire = <<>> /\ view = None
    BY DEF Init
  <2> QED BY <1>1, <2>1, <2>2, <2>3 DEF Kinds
<1>6. Remembers(server) /\ server.sequence = 0 /\ server.up
  BY <1>3 DEF Init, Remembers
<1>7. socket \in [Path -> SocketRecord] /\ \A path \in Path : socket[path] = Closed
  BY <1>2 DEF Init
<1>8. "live" \in Path
  BY DEF Path
<1> HIDE DEF Closed
<1> QED BY <1>1, <1>2, <1>4, <1>5, <1>6, <1>7, <1>8 DEF Inv, Quiet

LEMMA QuietKept ==
  ASSUME Inv, Quiet, [Next]_vars
  PROVE  Quiet'
<1> USE DEF Quiet
<1>1. CASE Forward
  <2>1. server \in ServerRecord
    BY DEF Inv, Remembers
  <2>2. apply(server, Head(wire)).up = server.up
    BY <2>1 DEF apply, ServerRecord
  <2> QED BY <1>1, <2>2 DEF Forward
<1>2. CASE Start
  BY <1>2 DEF Start, Empty
<1>3. CASE Stop
  BY <1>3 DEF Stop, Empty
<1>4. CASE Source \/ Browser \/ UNCHANGED vars
  <2>1. UNCHANGED server
    BY <1>4 DEF Source, Browser, Write, Publish, PublishToNobody, LobbyEvent, LobbyLeaves,
                ReceiveLive, ReceiveUi, Flush, Read, Arrive, vars
  <2> QED BY <2>1
<1>5. ASSUME NEW path \in Path, Connect(path) \/ Disconnect(path) PROVE Quiet'
  BY <1>5 DEF Connect, Disconnect
<1> QED BY <1>1, <1>2, <1>3, <1>4, <1>5 DEF Next, Realtime, Fault

LEMMA NextKeeps == Inv /\ Quiet /\ [Next]_vars => Inv' /\ Quiet'
<1> SUFFICES ASSUME Inv, Quiet, [Next]_vars PROVE Inv'
  BY QuietKept
<1>1. CASE Source
  BY <1>1, SourceKeeps
<1>2. CASE Realtime
  BY <1>2, ForwardKeeps, StartKeeps, ConnectKeeps DEF Realtime, Quiet
<1>3. CASE Browser
  BY <1>3, ReceiveLiveKeeps, ReceiveUiKeeps, SourceKeeps DEF Browser
<1>4. CASE Fault
  BY <1>4, StopKeeps, DisconnectKeeps DEF Fault
<1>5. CASE UNCHANGED vars
  BY <1>5 DEF vars, Inv, Kinds
<1> QED BY <1>1, <1>2, <1>3, <1>4, <1>5 DEF Next

LEMMA Invariant == Spec => []Inv
<1>1. Spec => [](Inv /\ Quiet)
  BY InitHolds, NextKeeps, PTL DEF Spec
<1> QED BY <1>1, PTL

\* What is on its way to a page goes on, frame by frame and without a gap, from
\* what the page has seen to what the service has sent, through every fault;
\* and the cache never holds two messages of one kind.
THEOREM TypeCorrect == Spec => []TypeOK
<1>1. Inv => TypeOK
  <2> SUFFICES ASSUME Inv PROVE TypeOK
    OBVIOUS
  <2> USE DEF Inv, Kinds
  <2>1. server \in ServerRecord
    BY DEF Remembers
  <2>2. \A i \in DOMAIN server.cache : server.cache[i] \in Message
    BY <2>1 DEF ServerRecord
  <2>3. Len(server.cache) <= Len(Stages)
    <3> DEFINE c == server.cache
    <3>1. Len(Stages) = 3 /\ Len(c) \in Nat
      BY <2>1 DEF ServerRecord, Stages
    <3> SUFFICES ASSUME Len(c) >= 4 PROVE FALSE
      BY <3>1
    <3>2. 1 \in DOMAIN c /\ 2 \in DOMAIN c /\ 3 \in DOMAIN c /\ 4 \in DOMAIN c
      BY <2>1 DEF ServerRecord
    <3>3. \A i \in DOMAIN c : c[i].event \in {"OnSongSelected", "OnMatchUpdate", "OnSongCompleted"}
      BY <2>2, EventIs DEF Message
    <3>4. \A i, j \in DOMAIN c : c[i].event = c[j].event => i = j
      BY DEF Remembers
    <3> HIDE DEF c
    <3> QED BY <3>2, <3>3, <3>4
  <2>4. ASSUME NEW path \in Path
        PROVE  LET s == socket[path]  q == s.queue IN
                 /\ q # <<>> => s.open /\ Last(q).sequence = server.sequence
                 /\ s.open /\ q = <<>> => s.last = server.sequence
                 /\ \A i \in DOMAIN q : q[i].ready => i = 1
                 /\ \A i \in 2..Len(q) : q[i].sequence = q[i - 1].sequence + 1
    BY DEF Flows, Last
  <2> QED BY <2>1, <2>2, <2>3, <2>4 DEF TypeOK, ServerRecord, PageRecord
<1> QED BY <1>1, Invariant, PTL

\* A page that is connected and has read what was sent shows the lobby as the
\* service last heard of it, or as a snapshot ended, whatever sockets closed,
\* events were lost and services restarted on the way (useRealtimeSocket).
THEOREM ViewIsAlwaysLatest == Spec => []ViewIsLatest
<1>1. Inv => ViewIsLatest
  <2> DEFINE s == socket["live"]
  <2> SUFFICES ASSUME Inv, server.live # None, s.open, s.queue = <<>>
               PROVE  view \in {server.live, Last(server.cache)}
    BY DEF ViewIsLatest
  <2>1. \A m : ~Tells(s.queue, m)
    BY DEF Tells
  <2>2. Follows(s, server, view)
    BY DEF Inv
  <2> QED BY <2>1, <2>2 DEF Follows
<1> QED BY <1>1, Invariant, PTL

=============================================================================
