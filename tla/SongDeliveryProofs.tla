------------------------- MODULE SongDeliveryProofs -------------------------
(***************************************************************************)
(* Of a final score on its way from a legacy cabinet to a standing: what   *)
(* holds of the bridge, the reader and the API for any cabinets, players,  *)
(* songs and matches, any number of plays, and any losses and restarts.    *)
(***************************************************************************)
EXTENDS SongDelivery, SequenceTheorems, WellFoundedInduction, TLAPS

-----------------------------------------------------------------------------
(***************************************************************************)
(* The inductive invariant.                                                *)
(***************************************************************************)

BridgeRecord ==
  [ machines : SUBSET Address, machineSong : [Address -> Song \cup {None}],
    run : [Seat -> Run \cup {None}], song : Song \cup {None},
    isCompleted : BOOLEAN, flushTimer : {"none", "grace", "timeout"} ]

Scores == [Seat -> [player : Player, exScore : Score] \cup {None}]

SnapshotRecord == [screen : Screen, song : Song \cup {None}, players : Scores]

CabinetRecord ==
  [ song : Song \cup {None}, player : Player \cup {None},
    phase : {"menu", "playing", "done", "repeated"}, final : Final \cup {None} ]

\* Who plays has a name and a song, and who is done has a score.
Cabinets(c) ==
  /\ c \in [Seat -> CabinetRecord]
  /\ \A seat \in Seat :
       /\ c[seat].song # None => c[seat].player # None
       /\ c[seat].phase # "menu" => c[seat].song # None
       /\ c[seat].phase = "done" => c[seat].final # None

\* Only machines on the lobby's song have runs; a completed song waits for no
\* timer; and a final score waits for one, or is in a completed song.
Settled(b) ==
  /\ b \in BridgeRecord
  /\ \A a \in Address \ b.machines : b.machineSong[a] = None
  /\ \A seat \in Seat : b.run[seat] # None => InSession(b, seat[1])
  /\ b.isCompleted => b.flushTimer = "none"
  /\ \A seat \in Seat : b.run[seat] # None /\ b.run[seat].final # None =>
       b.isCompleted \/ b.flushTimer # "none"

Reads ==
  /\ link \in {"up", "down"}
  /\ reader = [screens |-> reader.screens, song |-> reader.song, signature |-> reader.signature]
  /\ reader.screens \in [Reader!Keys -> Screen \cup {None}]
  /\ current \in SnapshotRecord
  /\ \A c \in read : c[2].song \in Song /\ c[2].scores \in Scores
  /\ posts \in Seq({c[2] : c \in read})

\* Nothing of the session that goes on was completed unless the bridge has
\* completed it; and nobody that the last snapshot shows was last seen playing
\* once that snapshot has been read as a completion.
Once ==
  /\ session \in Nat /\ told \in Nat /\ told <= session
  /\ \A c \in read : c[1] \in Nat /\ c[1] <= told
  /\ \A c \in read : c[1] = session => isCompleted
  /\ current.screen = "ScreenEvaluation" =>
       /\ told = session => isCompleted
       /\ \A c \in read : c[1] = told => \A seat \in Reader!Present(current) :
            reader.screens[Reader!KeyOf(current, seat)] # "ScreenGameplay"
  /\ CompletesOnce

\* The runs of a completion that somebody known played are in the score table.
IsRecorded(c) ==
  \A seat \in Seat :
    c.scores[seat] # None /\ c.scores[seat].player \in Roster /\ c.song \in Pool =>
      <<c.scores[seat].player, c.song, c.scores[seat].exScore>> \in recorded

Submissions ==
  /\ recorded \subseteq Player \X Song \X Result
  /\ active \subseteq Match
  /\ standing \in [Match -> [Player -> Result \cup {None, Typed}]]
  /\ job \in [ completion : {c[2] : c \in read} \cup {None},
               at : {"idle", "record", "targets", "apply"},
               runs : SUBSET (Player \X Result), targets : SUBSET (Match \X Player \X Result) ]
  /\ job.at # "idle" => job.completion \in {c[2] : c \in read}
  /\ job.at \in {"idle", "record"} => job.runs = {}
  /\ job.at # "apply" => job.targets = {}
  /\ job.at \in {"targets", "apply"} => IsRecorded(job.completion)
  /\ \A r \in job.runs : <<r[1], job.completion.song, r[2]>> \in recorded
  /\ \A t \in job.targets : <<t[2], RoundSong[t[1]], t[3]>> \in recorded

\* A completion that was read waits to be posted or recorded, or is recorded, or
\* has the name of another; a name is known of what is recorded.
Delivery ==
  /\ upsets \in Nat
  /\ \A id \in completions : \E c \in read : c[2].id = id /\ IsRecorded(c[2])
  /\ upsets = 0 => \A c \in read :
       \/ c[2] \in ToSet(posts) \/ IsRecorded(c[2])
       \/ job.at = "record" /\ job.completion = c[2]
       \/ \E d \in read : c # d /\ d[2].id = c[2].id

Inv ==
  /\ Cabinets(cabinet)
  /\ Settled(Bridge)
  /\ Reads
  /\ Once
  /\ Submissions
  /\ Delivery

-----------------------------------------------------------------------------
(***************************************************************************)
(* The bridge.                                                             *)
(***************************************************************************)

\* What a datagram that does not complete the song may do to the bridge b.
Moves(b, c) ==
  /\ Settled(c)
  /\ c.isCompleted => b.isCompleted /\ c.song = b.song
  /\ b.isCompleted /\ ~c.isCompleted => c.song # None

\* c has only fewer runs than b.
Keeps(b, c) ==
  /\ c.song = b.song /\ (c.isCompleted <=> b.isCompleted)
  /\ \A seat \in Seat : c.run[seat] \in {b.run[seat], None}

Fewer(b, c) == Keeps(b, c) \/ \A seat \in Seat : c.run[seat] = None

\* c plays the song s with fewer runs than b had of it, but for that of a seat.
Upserts(b, c, acting, s) ==
  /\ c.song = s /\ ~c.isCompleted
  /\ \/ b.song = s /\ ~b.isCompleted
     \/ \A seat \in Seat \ {acting} : c.run[seat] = None
  /\ \A seat \in Seat \ {acting} : c.run[seat] \in {b.run[seat], None}
  /\ c.run[acting] # None

Plain(screens) ==
  screens = <<>> \/ screens = <<"ScreenSelectMusic">> \/ screens = <<"ScreenGameplay">>

LEMMA SeatShape ==
  ASSUME NEW seat \in Seat
  PROVE  seat[1] \in Address /\ seat[2] \in {1, 2}
  BY BridgeAssumption

\* The fields of what joins.
LEMMA JoinedSettled ==
  ASSUME NEW b, Settled(b), NEW a \in Address
  PROVE  /\ Settled(Joined(b, a))
         /\ Keeps(b, Joined(b, a))
         /\ Joined(b, a).flushTimer = b.flushTimer
         /\ a \in Joined(b, a).machines
<1> DEFINE c == [b EXCEPT !.machines = @ \cup {a}, !.machineSong[a] = None, !.run = Cleared(b, a)]
<1>1. b \in BridgeRecord
  BY DEF Settled
<1>2. CASE a \in b.machines
  BY <1>1, <1>2 DEF Joined, Keeps, BridgeRecord
<1>3. CASE a \notin b.machines
  <2>1. Joined(b, a) = c
    BY <1>3 DEF Joined
  <2>2. /\ c \in BridgeRecord
        /\ c.machines = b.machines \cup {a} /\ c.song = b.song
        /\ c.machineSong = [b.machineSong EXCEPT ![a] = None]
        /\ c.run = Cleared(b, a)
        /\ c.isCompleted = b.isCompleted /\ c.flushTimer = b.flushTimer
    BY <1>1 DEF BridgeRecord, Cleared
  <2> HIDE DEF c
  <2>3. \A seat \in Seat : c.run[seat] = IF seat[1] = a THEN None ELSE b.run[seat]
    BY <2>2 DEF Cleared
  <2>4. \A x \in Address : c.machineSong[x] = IF x = a THEN None ELSE b.machineSong[x]
    BY <1>1, <2>2 DEF BridgeRecord
  <2>5. Keeps(b, c)
    BY <2>2, <2>3 DEF Keeps
  <2>6. Settled(c)
    <3>1. \A x \in Address \ c.machines : c.machineSong[x] = None
      BY <2>2, <2>4 DEF Settled
    <3>2. ASSUME NEW seat \in Seat, c.run[seat] # None
          PROVE  InSession(c, seat[1])
      <4>1. seat[1] # a /\ c.run[seat] = b.run[seat]
        BY <2>3, <3>2
      <4>2. InSession(b, seat[1])
        BY <3>2, <4>1 DEF Settled
      <4>3. QED
        BY <2>2, <2>4, <4>1, <4>2, SeatShape DEF InSession
    <3>3. c.isCompleted => c.flushTimer = "none"
      BY <2>2 DEF Settled
    <3>4. \A seat \in Seat : c.run[seat] # None /\ c.run[seat].final # None =>
            c.isCompleted \/ c.flushTimer # "none"
      BY <2>2, <2>3 DEF Settled
    <3>5. QED
      BY <2>2, <3>1, <3>2, <3>3, <3>4 DEF Settled
  <2>7. QED
    BY <2>1, <2>2, <2>5, <2>6
<1>4. QED
  BY <1>2, <1>3

\* A new session has no runs.
LEMMA BeginSessionSettled ==
  ASSUME NEW b, b \in BridgeRecord, NEW s \in Song,
         \A a \in Address \ b.machines : b.machineSong[a] = None
  PROVE  /\ Settled(BeginSession(b, s))
         /\ BeginSession(b, s).song = s /\ ~BeginSession(b, s).isCompleted
         /\ BeginSession(b, s).machines = b.machines
         /\ \A a \in Address : b.machineSong[a] = s => BeginSession(b, s).machineSong[a] = s
         /\ \A seat \in Seat : BeginSession(b, s).run[seat] = None
<1> DEFINE c == BeginSession(b, s)
           m == [a \in Address |-> IF b.machineSong[a] = s THEN s ELSE None]
<1>1. m \in [Address -> Song \cup {None}]
  OBVIOUS
<1>2. Nobody \in [Seat -> Run \cup {None}] /\ \A seat \in Seat : Nobody[seat] = None
  BY DEF Nobody
<1> HIDE DEF m
<1>3. /\ c \in BridgeRecord
      /\ c.machines = b.machines /\ c.machineSong = m
      /\ c.run = Nobody /\ c.song = s
      /\ ~c.isCompleted /\ c.flushTimer = "none"
  BY <1>1, <1>2 DEF BridgeRecord, BeginSession, m
<1> HIDE DEF c
<1>4. \A a \in Address : m[a] = IF b.machineSong[a] = s THEN s ELSE None
  BY DEF m
<1>5. \A a \in Address \ c.machines : c.machineSong[a] = None
  <2> SUFFICES ASSUME NEW a \in Address \ c.machines
               PROVE  c.machineSong[a] = None
    OBVIOUS
  <2>1. b.machineSong[a] = None
    BY <1>3
  <2>2. s # None
    BY BridgeAssumption
  <2>3. QED
    BY <1>3, <1>4, <2>1, <2>2
<1>6. Settled(c)
  BY <1>2, <1>3, <1>5 DEF Settled
<1>7. QED
  BY <1>2, <1>3, <1>4, <1>6 DEF c

\* A machine that goes to a song leaves what it had of another, and begins a
\* session unless the lobby is at that song, or at one that is not over.
LEMMA MoveToSettled ==
  ASSUME NEW b, Settled(b), NEW a \in Address, a \in b.machines, NEW s \in Song
  PROVE  /\ Settled(MoveTo(b, a, s))
         /\ MoveTo(b, a, s).machines = b.machines
         /\ MoveTo(b, a, s).machineSong[a] = s
         /\ ~MoveTo(b, a, s).isCompleted
         /\ \/ Keeps(b, MoveTo(b, a, s))
            \/ /\ MoveTo(b, a, s).song = s
               /\ \A seat \in Seat : MoveTo(b, a, s).run[seat] = None
<1> DEFINE m == IF b.machineSong[a] = s THEN b
                ELSE [b EXCEPT !.machineSong[a] = s, !.run = Cleared(b, a)]
           over == m.song = None \/ m.isCompleted \/ EveryMachineMovedOn(m)
           c == MoveTo(b, a, s)
<1>1. b \in BridgeRecord
  BY DEF Settled
<1>2. c = IF (m.song = s /\ ~m.isCompleted) \/ ~over THEN m ELSE BeginSession(m, s)
  BY DEF MoveTo
<1>3. /\ m \in BridgeRecord
      /\ m.machines = b.machines /\ m.song = b.song
      /\ m.machineSong = [b.machineSong EXCEPT ![a] = s]
      /\ m.isCompleted = b.isCompleted /\ m.flushTimer = b.flushTimer
      /\ \A seat \in Seat : m.run[seat] \in {b.run[seat], None}
      /\ \A seat \in Seat : m.run[seat] # None /\ seat[1] = a => b.machineSong[a] = s
  <2>1. CASE b.machineSong[a] = s
    BY <1>1, <2>1 DEF BridgeRecord
  <2>2. CASE b.machineSong[a] # s
    BY <1>1, <2>2 DEF BridgeRecord, Cleared
  <2>3. QED
    BY <2>1, <2>2
<1> HIDE DEF m, c
<1>4. \A x \in Address : m.machineSong[x] = IF x = a THEN s ELSE b.machineSong[x]
  BY <1>1, <1>3 DEF BridgeRecord
<1>5. \A x \in Address \ m.machines : m.machineSong[x] = None
  BY <1>3, <1>4 DEF Settled
<1>6. Settled(m) /\ Keeps(b, m)
  <2>1. ASSUME NEW seat \in Seat, m.run[seat] # None
        PROVE  InSession(m, seat[1])
    <3>1. InSession(b, seat[1])
      BY <1>3, <2>1 DEF Settled
    <3>2. seat[1] = a => b.machineSong[a] = s
      BY <1>3, <2>1
    <3>3. QED
      BY <1>3, <1>4, <3>1, <3>2, SeatShape DEF InSession
  <2>2. m.isCompleted => m.flushTimer = "none"
    BY <1>3 DEF Settled
  <2>3. \A seat \in Seat : m.run[seat] # None /\ m.run[seat].final # None =>
          m.isCompleted \/ m.flushTimer # "none"
    BY <1>3 DEF Settled
  <2>4. QED
    BY <1>3, <1>5, <2>1, <2>2, <2>3 DEF Settled, Keeps
<1>7. CASE (m.song = s /\ ~m.isCompleted) \/ ~over
  BY <1>2, <1>3, <1>4, <1>6, <1>7 DEF c
<1>8. CASE ~((m.song = s /\ ~m.isCompleted) \/ ~over)
  <2>1. c = BeginSession(m, s)
    BY <1>2, <1>8
  <2>2. /\ Settled(BeginSession(m, s))
        /\ BeginSession(m, s).song = s /\ ~BeginSession(m, s).isCompleted
        /\ BeginSession(m, s).machines = m.machines
        /\ \A x \in Address : m.machineSong[x] = s => BeginSession(m, s).machineSong[x] = s
        /\ \A seat \in Seat : BeginSession(m, s).run[seat] = None
    <3>1. m \in BridgeRecord /\ \A x \in Address \ m.machines : m.machineSong[x] = None
      BY <1>3, <1>5
    <3>2. QED
      BY ONLY <3>1, s \in Song, BeginSessionSettled
  <2>3. m.machineSong[a] = s
    BY <1>4
  <2>4. BeginSession(m, s).machines = b.machines /\ BeginSession(m, s).machineSong[a] = s
    BY <1>3, <2>2, <2>3
  <2>5. QED
    BY <2>1, <2>2, <2>4 DEF c
<1>9. QED
  BY <1>7, <1>8

\* A timer that is set waits for the final scores there are.
LEMMA ScheduledSettled ==
  ASSUME NEW b, b \in BridgeRecord, ~b.isCompleted,
         \A a \in Address \ b.machines : b.machineSong[a] = None,
         \A seat \in Seat : b.run[seat] # None => InSession(b, seat[1])
  PROVE  /\ Settled(Scheduled(b))
         /\ Scheduled(b).run = b.run /\ Scheduled(b).song = b.song /\ ~Scheduled(b).isCompleted
<1> DEFINE c == Scheduled(b)
<1>1. /\ c \in BridgeRecord
      /\ c.machines = b.machines /\ c.machineSong = b.machineSong
      /\ c.run = b.run /\ c.song = b.song /\ ~c.isCompleted /\ c.flushTimer # "none"
  BY DEF Scheduled, BridgeRecord
<1> HIDE DEF c
<1>2. \A seat \in Seat : c.run[seat] # None => InSession(c, seat[1])
  BY <1>1 DEF InSession
<1>3. Settled(c)
  BY <1>1, <1>2 DEF Settled
<1>4. QED
  BY <1>1, <1>3 DEF c

\* Fewer runs in the session of b.
LEMMA KeepsIsSettled ==
  ASSUME NEW b, Settled(b), NEW c, c \in BridgeRecord,
         c.machines = b.machines, c.machineSong = b.machineSong, c.flushTimer = b.flushTimer,
         Keeps(b, c)
  PROVE  Settled(c)
<1>1. \A seat \in Seat : c.run[seat] # None => c.run[seat] = b.run[seat]
  BY DEF Keeps
<1>2. \A seat \in Seat : c.run[seat] # None => InSession(c, seat[1])
  BY <1>1 DEF Settled, InSession, Keeps
<1>3. QED
  BY <1>1, <1>2 DEF Settled, Keeps

\* A datagram of a song.
LEMMA OnSongMoves ==
  ASSUME NEW b, Settled(b), NEW a \in Address, NEW s \in Song
  PROVE  /\ Moves(b, OnSong(b, a, s).bridge) /\ Fewer(b, OnSong(b, a, s).bridge)
         /\ Plain(OnSong(b, a, s).screens)
<1> DEFINE j == Joined(b, a)
           m == MoveTo(j, a, s)
<1>1. Settled(j) /\ Keeps(b, j) /\ a \in j.machines
  BY JoinedSettled
<1> HIDE DEF j
<1>2. /\ Settled(m) /\ ~m.isCompleted
      /\ Keeps(j, m) \/ (m.song = s /\ \A seat \in Seat : m.run[seat] = None)
  BY <1>1, MoveToSettled
<1>3. OnSong(b, a, s) \in {Nothing(b), Nothing(m), Publishing(m, <<"ScreenSelectMusic">>)}
  BY DEF OnSong, j
<1> HIDE DEF m
<1>4. Moves(b, m) /\ Fewer(b, m)
  <2>1. CASE Keeps(j, m)
    BY <1>1, <1>2, <2>1 DEF Moves, Fewer, Keeps
  <2>2. CASE m.song = s /\ \A seat \in Seat : m.run[seat] = None
    BY <1>1, <1>2, <2>2, BridgeAssumption DEF Moves, Fewer
  <2>3. QED
    BY <1>2, <2>1, <2>2
<1>5. Moves(b, b) /\ Fewer(b, b)
  BY DEF Moves, Fewer, Keeps
<1>6. QED
  BY <1>3, <1>4, <1>5 DEF Nothing, Publishing, Plain

\* The start of a song.
LEMMA OnStartMoves ==
  ASSUME NEW b, Settled(b), NEW a \in Address, NEW s \in Song
  PROVE  /\ Moves(b, OnStart(b, a, s).bridge) /\ Fewer(b, OnStart(b, a, s).bridge)
         /\ Plain(OnStart(b, a, s).screens)
<1>1. Settled(Joined(b, a)) /\ Keeps(b, Joined(b, a))
  BY JoinedSettled
<1>2. Moves(b, Joined(b, a)) /\ Fewer(b, Joined(b, a))
  BY <1>1 DEF Moves, Fewer, Keeps
<1>3. OnStart(b, a, s) \in {Nothing(Joined(b, a)), OnSong(b, a, s)}
  BY DEF OnStart
<1>4. QED
  BY <1>2, <1>3, OnSongMoves DEF Nothing, Plain

\* A player who skipped the song is out of it.
LEMMA OnSkippedMoves ==
  ASSUME NEW b, Settled(b), NEW seat \in Seat, NEW s
  PROVE  /\ Moves(b, OnSkipped(b, seat, s).bridge) /\ Fewer(b, OnSkipped(b, seat, s).bridge)
         /\ Plain(OnSkipped(b, seat, s).screens)
<1> DEFINE j == Joined(b, seat[1])
           left == [j EXCEPT !.run[seat] = None]
<1>1. Settled(j) /\ Keeps(b, j)
  BY JoinedSettled, SeatShape
<1> HIDE DEF j
<1>2. /\ left \in BridgeRecord
      /\ left.machines = j.machines /\ left.machineSong = j.machineSong /\ left.song = j.song
      /\ left.flushTimer = j.flushTimer /\ left.isCompleted = j.isCompleted
      /\ \A t \in Seat : left.run[t] = IF t = seat THEN None ELSE j.run[t]
  BY <1>1 DEF Settled, BridgeRecord
<1>3. OnSkipped(b, seat, s) \in
        {Nothing(b), Nothing(j),
         Publishing(IF j.flushTimer = "none" THEN left ELSE Scheduled(left), <<"ScreenGameplay">>)}
  BY DEF OnSkipped, j
<1> HIDE DEF left
<1>4. Keeps(j, left)
  BY <1>2 DEF Keeps
<1>5. Settled(left)
  BY <1>1, <1>2, <1>4, KeepsIsSettled
<1>6. j.flushTimer # "none" =>
        /\ Settled(Scheduled(left))
        /\ Scheduled(left).run = left.run /\ Scheduled(left).song = left.song
        /\ ~Scheduled(left).isCompleted /\ ~left.isCompleted
  <2> SUFFICES ASSUME j.flushTimer # "none"
               PROVE  /\ Settled(Scheduled(left))
                      /\ Scheduled(left).run = left.run /\ Scheduled(left).song = left.song
                      /\ ~Scheduled(left).isCompleted /\ ~left.isCompleted
    OBVIOUS
  <2>1. ~left.isCompleted
    BY <1>1, <1>2 DEF Settled
  <2>2. /\ left \in BridgeRecord
        /\ \A a \in Address \ left.machines : left.machineSong[a] = None
        /\ \A t \in Seat : left.run[t] # None => InSession(left, t[1])
    BY <1>5 DEF Settled
  <2>3. QED
    BY <2>1, <2>2, ScheduledSettled
<1>7. \A c \in {b, j, left} : Moves(b, c) /\ Fewer(b, c)
  BY <1>1, <1>4, <1>5 DEF Moves, Fewer, Keeps
<1>8. ASSUME j.flushTimer # "none"
      PROVE  Moves(b, Scheduled(left)) /\ Fewer(b, Scheduled(left))
  <2>1. ~b.isCompleted
    BY <1>1, <1>4, <1>6, <1>8 DEF Keeps
  <2>2. Keeps(b, left)
    BY <1>1, <1>4 DEF Keeps
  <2>3. Keeps(b, Scheduled(left))
    BY <1>6, <1>8, <2>1, <2>2 DEF Keeps
  <2>4. QED
    BY <1>6, <1>8, <2>1, <2>3 DEF Moves, Fewer
<1> DEFINE z == IF j.flushTimer = "none" THEN left ELSE Scheduled(left)
<1>9. Moves(b, z) /\ Fewer(b, z)
  BY <1>7, <1>8
<1>10. OnSkipped(b, seat, s) \in {Nothing(b), Nothing(j), Publishing(z, <<"ScreenGameplay">>)}
  BY <1>3
<1> HIDE DEF z
<1>11. QED
  BY <1>7, <1>9, <1>10 DEF Nothing, Publishing, Plain

\* The idle machines that go take their runs with them.
LEMMA EvictedMoves ==
  ASSUME NEW b, Settled(b), NEW quiet
  PROVE  /\ Moves(b, Evicted(b, quiet).bridge) /\ Fewer(b, Evicted(b, quiet).bridge)
         /\ Plain(Evicted(b, quiet).screens)
<1> DEFINE gone == {a \in quiet \cap b.machines : ~(b.flushTimer # "none" /\ HasFinished(b, a))}
           e == [b EXCEPT !.machines = @ \ gone,
                   !.run = [seat \in Seat |-> IF seat[1] \in gone THEN None ELSE @[seat]],
                   !.machineSong = [a \in Address |-> IF a \in gone THEN None ELSE @[a]]]
<1>1. b \in BridgeRecord
  BY DEF Settled
<1>2. Evicted(b, quiet) =
        IF gone = {} \/ b.isCompleted THEN Nothing(e)
        ELSE Publishing(IF b.flushTimer = "none" THEN e ELSE Scheduled(e), <<"ScreenGameplay">>)
  BY DEF Evicted
<1> HIDE DEF gone
<1>3. /\ e \in BridgeRecord
      /\ e.machines = b.machines \ gone /\ e.song = b.song
      /\ e.flushTimer = b.flushTimer /\ e.isCompleted = b.isCompleted
      /\ \A t \in Seat : e.run[t] = IF t[1] \in gone THEN None ELSE b.run[t]
      /\ \A a \in Address : e.machineSong[a] = IF a \in gone THEN None ELSE b.machineSong[a]
  BY <1>1 DEF BridgeRecord
<1> HIDE DEF e
<1>4. Keeps(b, e)
  BY <1>3 DEF Keeps
<1>5. \A a \in Address \ e.machines : e.machineSong[a] = None
  BY <1>3 DEF Settled
<1>6. \A t \in Seat : e.run[t] # None => InSession(e, t[1])
  <2> SUFFICES ASSUME NEW t \in Seat, e.run[t] # None
               PROVE  InSession(e, t[1])
    OBVIOUS
  <2>1. t[1] \notin gone /\ b.run[t] # None
    BY <1>3
  <2>2. InSession(b, t[1])
    BY <2>1 DEF Settled
  <2>3. QED
    BY <1>3, <2>1, <2>2, SeatShape DEF InSession
<1>7. Settled(e)
  BY <1>3, <1>5, <1>6 DEF Settled
<1>8. ~e.isCompleted => /\ Settled(Scheduled(e))
                        /\ Scheduled(e).run = e.run /\ Scheduled(e).song = e.song
                        /\ ~Scheduled(e).isCompleted
  BY <1>3, <1>5, <1>6, ScheduledSettled
<1>9. Moves(b, e) /\ Fewer(b, e)
  BY <1>3, <1>4, <1>7 DEF Moves, Fewer
<1>10. ASSUME ~b.isCompleted
       PROVE  Moves(b, Scheduled(e)) /\ Fewer(b, Scheduled(e))
  <2>1. Keeps(b, Scheduled(e))
    BY <1>3, <1>4, <1>8, <1>10 DEF Keeps
  <2>2. QED
    BY <1>3, <1>8, <1>10, <2>1 DEF Moves, Fewer
<1> DEFINE z == IF b.flushTimer = "none" THEN e ELSE Scheduled(e)
<1>11. ~b.isCompleted => Moves(b, z) /\ Fewer(b, z)
  BY <1>9, <1>10
<1>12. \/ Evicted(b, quiet) = Nothing(e)
       \/ /\ ~b.isCompleted
          /\ Evicted(b, quiet) = Publishing(z, <<"ScreenGameplay">>)
  BY <1>2
<1> HIDE DEF z
<1>13. QED
  BY <1>9, <1>11, <1>12 DEF Nothing, Publishing, Plain

\* The run of a seat whose machine is in the session.
LEMMA UpsertShape ==
  ASSUME NEW b, b \in BridgeRecord, NEW seat \in Seat, NEW name \in Player,
         NEW score \in Score, NEW final \in Final \cup {None}
  PROVE  LET u == Upsert(b, seat, name, score, final)
         IN  /\ u \in BridgeRecord
             /\ u.machines = b.machines /\ u.machineSong = b.machineSong /\ u.song = b.song
             /\ u.isCompleted = b.isCompleted /\ u.flushTimer = b.flushTimer
             /\ \A t \in Seat \ {seat} : u.run[t] = b.run[t]
             /\ u.run[seat] # None
             /\ u.run[seat].player = name /\ u.run[seat].exScore = score
             /\ u.run[seat].final =
                  IF final # None \/ b.run[seat] = None THEN final ELSE b.run[seat].final
<1> DEFINE r == [ player |-> name, exScore |-> score,
                  final |-> IF final # None \/ b.run[seat] = None THEN final ELSE b.run[seat].final ]
<1>1. b.run[seat] \in Run \cup {None}
  BY DEF BridgeRecord
<1>2. r \in Run
  BY <1>1 DEF Run
<1>3. r # None
  BY <1>2, BridgeAssumption
<1>4. /\ r.player = name /\ r.exScore = score
      /\ r.final = IF final # None \/ b.run[seat] = None THEN final ELSE b.run[seat].final
  OBVIOUS
<1> HIDE DEF r
<1>5. Upsert(b, seat, name, score, final) = [b EXCEPT !.run[seat] = r]
  BY DEF Upsert, r
<1> DEFINE u == [b EXCEPT !.run[seat] = r]
<1>6. /\ u \in BridgeRecord
      /\ u.machines = b.machines /\ u.machineSong = b.machineSong /\ u.song = b.song
      /\ u.isCompleted = b.isCompleted /\ u.flushTimer = b.flushTimer
      /\ u.run = [b.run EXCEPT ![seat] = r]
  BY <1>2 DEF BridgeRecord
<1> HIDE DEF u
<1>7. u.run[seat] = r /\ \A t \in Seat \ {seat} : u.run[t] = b.run[t]
  BY <1>6 DEF BridgeRecord
<1>8. QED
  BY <1>3, <1>4, <1>5, <1>6, <1>7 DEF u

\* A live score, of somebody with no final score in the song or with one.
LEMMA OnScoreMoves ==
  ASSUME NEW b, Settled(b), NEW seat \in Seat, NEW name \in Player, NEW s \in Song
  PROVE  LET p == OnScore(b, seat, name, s)
         IN  /\ Moves(b, p.bridge) /\ Plain(p.screens)
             /\ \/ Fewer(b, p.bridge)
                \/ /\ Upserts(b, p.bridge, seat, s)
                   /\ p.bridge.run[seat].exScore = Half
                   /\ p.bridge.run[seat].final # None =>
                        /\ ~b.isCompleted /\ b.run[seat] # None
                        /\ b.run[seat].final # None
<1> DEFINE j == Joined(b, seat[1])
           m == MoveTo(j, seat[1], s)
           u == Upsert(m, seat, name, Half, None)
<1>1. Settled(j) /\ Keeps(b, j) /\ seat[1] \in j.machines
  BY JoinedSettled, SeatShape
<1>2. \/ OnScore(b, seat, name, s) \in {Nothing(b), Nothing(m)}
      \/ /\ InSession(m, seat[1])
         /\ OnScore(b, seat, name, s) = Publishing(u, <<"ScreenGameplay">>)
  BY DEF OnScore
<1> HIDE DEF j
<1>3. /\ Settled(m) /\ ~m.isCompleted /\ m.machineSong[seat[1]] = s
      /\ Keeps(j, m) \/ (m.song = s /\ \A t \in Seat : m.run[t] = None)
  BY <1>1, MoveToSettled, SeatShape
<1> HIDE DEF m
<1>4. /\ u \in BridgeRecord
      /\ u.machines = m.machines /\ u.machineSong = m.machineSong /\ u.song = m.song
      /\ u.isCompleted = m.isCompleted /\ u.flushTimer = m.flushTimer
      /\ \A t \in Seat \ {seat} : u.run[t] = m.run[t]
      /\ u.run[seat] # None
      /\ u.run[seat].player = name /\ u.run[seat].exScore = Half
      /\ u.run[seat].final = IF m.run[seat] = None THEN None ELSE m.run[seat].final
  <2>1. m \in BridgeRecord /\ Half \in Score /\ None \in Final \cup {None}
    BY <1>3 DEF Settled, Score
  <2>2. QED
    BY <2>1, UpsertShape
<1> HIDE DEF u
<1>5. Moves(b, m) /\ Fewer(b, m)
  <2>1. CASE Keeps(j, m)
    BY <1>1, <1>3, <2>1 DEF Moves, Fewer, Keeps
  <2>2. CASE m.song = s /\ \A t \in Seat : m.run[t] = None
    BY <1>1, <1>3, <2>2, BridgeAssumption DEF Moves, Fewer
  <2>3. QED
    BY <1>3, <2>1, <2>2
<1>6. Moves(b, b) /\ Fewer(b, b)
  BY DEF Moves, Fewer, Keeps
<1>7. CASE InSession(m, seat[1]) /\ OnScore(b, seat, name, s) = Publishing(u, <<"ScreenGameplay">>)
  <2>1. m.song = s
    BY <1>3, <1>7 DEF InSession
  <2>2. Settled(u)
    <3>1. \A t \in Seat : u.run[t] # None => InSession(u, t[1])
      BY <1>3, <1>4, <1>7 DEF Settled, InSession
    <3>2. QED
      BY <1>3, <1>4, <3>1 DEF Settled
  <2>3. Moves(b, u)
    BY <1>3, <1>4, <2>1, <2>2, BridgeAssumption DEF Moves
  <2>4. Upserts(b, u, seat, s)
    <3>1. CASE Keeps(j, m)
      <4>1. b.song = s /\ ~b.isCompleted
        BY <1>1, <1>3, <2>1, <3>1 DEF Keeps
      <4>2. \A t \in Seat \ {seat} : u.run[t] \in {b.run[t], None}
        BY <1>1, <1>4, <3>1 DEF Keeps
      <4>3. QED
        BY <1>3, <1>4, <2>1, <4>1, <4>2 DEF Upserts
    <3>2. CASE \A t \in Seat : m.run[t] = None
      BY <1>3, <1>4, <2>1, <3>2 DEF Upserts
    <3>3. QED
      BY <1>3, <3>1, <3>2
  <2>5. ASSUME u.run[seat].final # None
        PROVE  ~b.isCompleted /\ b.run[seat] # None /\ b.run[seat].final # None
    <3>1. m.run[seat] # None /\ m.run[seat].final # None
      BY <1>4, <2>5
    <3>2. Keeps(j, m)
      BY <1>3, <3>1
    <3>3. QED
      BY <1>1, <1>3, <3>1, <3>2 DEF Keeps
  <2>6. QED
    BY <1>4, <1>7, <2>3, <2>4, <2>5 DEF Publishing, Plain
<1>8. CASE OnScore(b, seat, name, s) \in {Nothing(b), Nothing(m)}
  BY <1>5, <1>6, <1>8 DEF Nothing, Plain
<1>9. QED
  BY <1>2, <1>7, <1>8

\* A final score is the run of its seat, and waits for a timer.
LEMMA OnFinalScoreMoves ==
  ASSUME NEW b, Settled(b), NEW seat \in Seat, NEW name \in Player, NEW s \in Song,
         NEW score \in Final
  PROVE  LET p == OnFinalScore(b, seat, name, s, score)
         IN  /\ Moves(b, p.bridge) /\ Plain(p.screens)
             /\ \/ Fewer(b, p.bridge)
                \/ /\ Upserts(b, p.bridge, seat, s)
                   /\ p.bridge.run[seat].player = name
                   /\ p.bridge.run[seat].exScore = score
                   /\ p.bridge.run[seat].final = score
<1> DEFINE j == Joined(b, seat[1])
           m == MoveTo(j, seat[1], s)
           u == Upsert(m, seat, name, score, score)
           c == Scheduled(u)
<1>1. Settled(j) /\ Keeps(b, j) /\ seat[1] \in j.machines
  BY JoinedSettled, SeatShape
<1>2. \/ OnFinalScore(b, seat, name, s, score) \in {Nothing(b), Nothing(j), Nothing(m)}
      \/ /\ InSession(m, seat[1])
         /\ OnFinalScore(b, seat, name, s, score) = Nothing(c)
  BY DEF OnFinalScore
<1> HIDE DEF j
<1>3. /\ Settled(m) /\ ~m.isCompleted /\ m.machineSong[seat[1]] = s
      /\ Keeps(j, m) \/ (m.song = s /\ \A t \in Seat : m.run[t] = None)
  BY <1>1, MoveToSettled, SeatShape
<1> HIDE DEF m
<1>4. score # None
  BY BridgeAssumption
<1>5. /\ u \in BridgeRecord
      /\ u.machines = m.machines /\ u.machineSong = m.machineSong /\ u.song = m.song
      /\ u.isCompleted = m.isCompleted /\ u.flushTimer = m.flushTimer
      /\ \A t \in Seat \ {seat} : u.run[t] = m.run[t]
      /\ u.run[seat] # None
      /\ u.run[seat].player = name /\ u.run[seat].exScore = score
      /\ u.run[seat].final = score
  <2>1. m \in BridgeRecord /\ score \in Score /\ score \in Final \cup {None}
    BY <1>3 DEF Settled, Score
  <2>2. QED
    BY <1>4, <2>1, UpsertShape
<1> HIDE DEF u
<1>6. Moves(b, m) /\ Fewer(b, m)
  <2>1. CASE Keeps(j, m)
    BY <1>1, <1>3, <2>1 DEF Moves, Fewer, Keeps
  <2>2. CASE m.song = s /\ \A t \in Seat : m.run[t] = None
    BY <1>1, <1>3, <2>2, BridgeAssumption DEF Moves, Fewer
  <2>3. QED
    BY <1>3, <2>1, <2>2
<1>7. \A x \in {b, j} : Moves(b, x) /\ Fewer(b, x)
  BY <1>1 DEF Moves, Fewer, Keeps
<1>8. CASE InSession(m, seat[1]) /\ OnFinalScore(b, seat, name, s, score) = Nothing(c)
  <2>1. m.song = s
    BY <1>3, <1>8 DEF InSession
  <2>2. Settled(c) /\ c.run = u.run /\ c.song = u.song /\ ~c.isCompleted
    <3>1. \A t \in Seat : u.run[t] # None => InSession(u, t[1])
      BY <1>3, <1>5, <1>8 DEF Settled, InSession
    <3>2. ~u.isCompleted /\ \A a \in Address \ u.machines : u.machineSong[a] = None
      BY <1>3, <1>5 DEF Settled
    <3>3. QED
      BY <1>5, <3>1, <3>2, ScheduledSettled
  <2> HIDE DEF c
  <2>3. Moves(b, c)
    BY <1>5, <2>1, <2>2, BridgeAssumption DEF Moves
  <2>4. Upserts(b, c, seat, s)
    <3>1. CASE Keeps(j, m)
      <4>1. b.song = s /\ ~b.isCompleted
        BY <1>1, <1>3, <2>1, <3>1 DEF Keeps
      <4>2. \A t \in Seat \ {seat} : c.run[t] \in {b.run[t], None}
        BY <1>1, <1>5, <2>2, <3>1 DEF Keeps
      <4>3. QED
        BY <1>3, <1>5, <2>1, <2>2, <4>1, <4>2 DEF Upserts
    <3>2. CASE \A t \in Seat : m.run[t] = None
      BY <1>3, <1>5, <2>1, <2>2, <3>2 DEF Upserts
    <3>3. QED
      BY <1>3, <3>1, <3>2
  <2>5. QED
    BY <1>5, <1>8, <2>2, <2>3, <2>4 DEF Nothing, Plain
<1>9. CASE OnFinalScore(b, seat, name, s, score) \in {Nothing(b), Nothing(j), Nothing(m)}
  BY <1>6, <1>7, <1>9 DEF Nothing, Plain
<1>10. QED
  BY <1>2, <1>8, <1>9

\* What a flush leaves: nobody, or a completed song of final scores.
Flushes(b, c) ==
  /\ Settled(c)
  /\ c.isCompleted /\ c.song \in Song
  /\ \A seat \in Seat : c.run[seat] \in {b.run[seat], None}
  /\ \A seat \in Seat : c.run[seat] # None => c.run[seat].final # None
  /\ c.song = b.song /\ SessionPlayers(c) # {}

LEMMA FlushedMoves ==
  ASSUME NEW b, Settled(b)
  PROVE  LET p == Flushed(b)
         IN  \/ Moves(b, p.bridge) /\ Fewer(b, p.bridge) /\ Plain(p.screens)
             \/ Flushes(b, p.bridge) /\ p.screens = <<"ScreenGameplay", "ScreenEvaluation">>
<1> DEFINE f == [b EXCEPT !.flushTimer = "none",
                   !.run = [seat \in Seat |-> IF seat \in Unfinished(b) THEN None ELSE @[seat]]]
           c == [f EXCEPT !.isCompleted = TRUE]
<1>1. b \in BridgeRecord
  BY DEF Settled
<1>2. Flushed(b) = IF SessionPlayers(f) = {} THEN Nothing(f)
                   ELSE Publishing(c, <<"ScreenGameplay", "ScreenEvaluation">>)
  BY DEF Flushed
<1>3. /\ f \in BridgeRecord
      /\ f.machines = b.machines /\ f.machineSong = b.machineSong /\ f.song = b.song
      /\ f.flushTimer = "none" /\ f.isCompleted = b.isCompleted
      /\ \A t \in Seat : f.run[t] = IF t \in Unfinished(b) THEN None ELSE b.run[t]
  BY <1>1 DEF BridgeRecord
<1> HIDE DEF f
<1>4. /\ c \in BridgeRecord
      /\ c.machines = f.machines /\ c.machineSong = f.machineSong /\ c.song = f.song
      /\ c.flushTimer = "none" /\ c.isCompleted = TRUE /\ c.run = f.run
  BY <1>3 DEF BridgeRecord
<1> HIDE DEF c
<1>5. Keeps(b, f)
  BY <1>3 DEF Keeps
<1>6. \A t \in Seat : f.run[t] # None => InSession(f, t[1]) /\ f.run[t].final # None
  <2> SUFFICES ASSUME NEW t \in Seat, f.run[t] # None
               PROVE  InSession(f, t[1]) /\ f.run[t].final # None
    OBVIOUS
  <2>1. f.run[t] = b.run[t] /\ t \notin Unfinished(b)
    BY <1>3
  <2>2. InSession(b, t[1])
    BY <2>1 DEF Settled
  <2>3. QED
    BY <1>3, <2>1, <2>2 DEF InSession, Unfinished, SessionPlayers
<1>7. \A a \in Address \ b.machines : b.machineSong[a] = None
  BY DEF Settled
<1>8. CASE SessionPlayers(f) = {}
  <2>1. \A t \in Seat : f.run[t] = None
    BY <1>6, <1>8 DEF SessionPlayers
  <2>2. Settled(f)
    BY <1>3, <1>6, <1>7, <2>1 DEF Settled
  <2>3. Moves(b, f) /\ Fewer(b, f)
    BY <1>3, <2>1, <2>2 DEF Moves, Fewer
  <2>4. QED
    BY <1>2, <1>8, <2>3 DEF Nothing, Plain
<1>9. CASE SessionPlayers(f) # {}
  <2>1. SessionPlayers(c) = SessionPlayers(f)
    BY <1>4 DEF SessionPlayers, InSession
  <2>2. c.song \in Song
    <3>1. PICK t \in Seat : InSession(f, t[1])
      BY <1>9 DEF SessionPlayers
    <3>2. f.song # None
      BY <3>1 DEF InSession
    <3>3. QED
      BY <1>3, <1>4, <3>2 DEF BridgeRecord
  <2>3. \A t \in Seat : c.run[t] # None => InSession(c, t[1])
    BY <1>4, <1>6 DEF InSession
  <2>4. Settled(c)
    BY <1>3, <1>4, <1>7, <2>3 DEF Settled
  <2>5. Flushes(b, c)
    BY <1>3, <1>4, <1>6, <1>9, <2>1, <2>2, <2>4 DEF Flushes
  <2>6. QED
    BY <1>2, <1>9, <2>5 DEF Publishing
<1>10. QED
  BY <1>8, <1>9

-----------------------------------------------------------------------------
(***************************************************************************)
(* What is published, and what the reader makes of it.                     *)
(***************************************************************************)

LEMMA SnapshotShape ==
  ASSUME NEW b, Settled(b), NEW screen \in Screen
  PROVE  /\ Snapshot(b, screen) \in SnapshotRecord
         /\ Snapshot(b, screen).song = b.song
         /\ Snapshot(b, screen).screen \in {screen, "none"}
         /\ SessionPlayers(b) # {} => Snapshot(b, screen).screen = screen
         /\ \A seat \in Seat : Snapshot(b, screen).players[seat] # None =>
              /\ b.run[seat] # None
              /\ Snapshot(b, screen).players[seat].player = b.run[seat].player
              /\ Snapshot(b, screen).players[seat].exScore = b.run[seat].exScore
<1> DEFINE shown == [seat \in Seat |-> IF seat \notin SessionPlayers(b) THEN None
                       ELSE [player |-> b.run[seat].player, exScore |-> b.run[seat].exScore]]
<1>1. b \in BridgeRecord
  BY DEF Settled
<1>2. \A seat \in SessionPlayers(b) : seat \in Seat /\ b.run[seat] # None /\ b.run[seat] \in Run
  BY <1>1 DEF SessionPlayers, BridgeRecord
<1>3. shown \in Scores
  <2> SUFFICES ASSUME NEW seat \in Seat
               PROVE  shown[seat] \in [player : Player, exScore : Score] \cup {None}
    BY DEF Scores
  <2>1. CASE seat \in SessionPlayers(b)
    BY <1>2, <2>1 DEF Run
  <2>2. CASE seat \notin SessionPlayers(b)
    BY <2>2
  <2>3. QED
    BY <2>1, <2>2
<1>4. \A seat \in Seat : shown[seat] # None =>
        /\ b.run[seat] # None
        /\ shown[seat].player = b.run[seat].player
        /\ shown[seat].exScore = b.run[seat].exScore
  BY <1>2
<1> HIDE DEF shown
<1> DEFINE screenOf == IF SessionPlayers(b) = {} THEN "none" ELSE screen
<1>5. screenOf \in Screen /\ screenOf \in {screen, "none"}
  BY DEF Screen
<1> HIDE DEF screenOf
<1>6. Snapshot(b, screen) = [screen |-> screenOf, song |-> b.song, players |-> shown]
  BY DEF Snapshot, shown, screenOf
<1>7. b.song \in Song \cup {None}
  BY <1>1 DEF BridgeRecord
<1>8. [screen |-> screenOf, song |-> b.song, players |-> shown] \in SnapshotRecord
  BY <1>3, <1>5, <1>7 DEF SnapshotRecord
<1>9. SessionPlayers(b) # {} => screenOf = screen
  BY DEF screenOf
<1>10. QED
  BY <1>4, <1>5, <1>6, <1>8, <1>9

Remembers(rd) ==
  /\ rd = [screens |-> rd.screens, song |-> rd.song, signature |-> rd.signature]
  /\ rd.screens \in [Reader!Keys -> Screen \cup {None}]

LEMMA KeyShape ==
  ASSUME NEW state \in SnapshotRecord, NEW seat \in Reader!Present(state)
  PROVE  /\ seat \in Seat /\ state.players[seat] # None
         /\ state.players[seat] \in [player : Player, exScore : Score]
         /\ Reader!KeyOf(state, seat) \in Reader!Keys
<1>1. seat \in Seat /\ state.players[seat] # None
  BY DEF Reader!Present
<1>2. state.players[seat] \in [player : Player, exScore : Score]
  BY <1>1 DEF SnapshotRecord, Scores
<1>3. Reader!KeyOf(state, seat) \in Reader!Keys
  BY <1>1, <1>2, SeatShape DEF Reader!KeyOf, Reader!Keys
<1>4. QED
  BY <1>1, <1>2, <1>3

\* A reader that has read a snapshot last saw everybody in it on its screen.
LEMMA InterpretRemembers ==
  ASSUME NEW rd, Remembers(rd), NEW state \in SnapshotRecord
  PROVE  /\ Remembers(Reader!Interpret(rd, state))
         /\ \A seat \in Reader!Present(state) :
              Reader!Interpret(rd, state).screens[Reader!KeyOf(state, seat)] = state.screen
<1> DEFINE before == Reader!SongRead(rd, state)
           sig == IF Reader!Completes(rd, state) THEN Reader!Signature(state) ELSE before.signature
           scr == [key \in Reader!Keys |->
                     IF \E seat \in Reader!Present(state) : Reader!KeyOf(state, seat) = key
                     THEN state.screen ELSE before.screens[key]]
<1>1. /\ before = [screens |-> before.screens, song |-> before.song, signature |-> before.signature]
      /\ before.screens = rd.screens
  <2>1. CASE state.song \in {None, rd.song}
    BY <2>1 DEF Remembers, Reader!SongRead
  <2>2. CASE state.song \notin {None, rd.song}
    <3>1. before = [rd EXCEPT !.song = state.song, !.signature = None]
      BY <2>2 DEF Reader!SongRead
    <3>2. QED
      BY <3>1 DEF Remembers
  <2>3. QED
    BY <2>1, <2>2
<1> HIDE DEF before
<1>2. state.screen \in Screen
  BY DEF SnapshotRecord
<1>3. scr \in [Reader!Keys -> Screen \cup {None}]
  BY <1>1, <1>2 DEF Remembers
<1>4. \A seat \in Reader!Present(state) : scr[Reader!KeyOf(state, seat)] = state.screen
  BY KeyShape
<1> HIDE DEF sig, scr
<1>5. Reader!Interpret(rd, state) = [before EXCEPT !.signature = sig, !.screens = scr]
  BY DEF Reader!Interpret, before, sig, scr
<1>6. [before EXCEPT !.signature = sig, !.screens = scr]
        = [screens |-> scr, song |-> before.song, signature |-> sig]
  <2>1. PICK x, y, z : before = [screens |-> x, song |-> y, signature |-> z]
    BY <1>1
  <2> DEFINE e == [[screens |-> x, song |-> y, signature |-> z]
                     EXCEPT !.signature = sig, !.screens = scr]
  <2>2. e \in [screens : {scr}, song : {y}, signature : {sig}]
    OBVIOUS
  <2> HIDE DEF e
  <2>3. e = [screens |-> e.screens, song |-> e.song, signature |-> e.signature]
    BY <2>2
  <2>4. e.screens = scr /\ e.song = y /\ e.signature = sig
    BY <2>2
  <2>5. e = [screens |-> scr, song |-> y, signature |-> sig]
    BY <2>3, <2>4
  <2>6. before.song = y
    BY <2>1
  <2>7. QED
    BY <2>1, <2>5, <2>6 DEF e
<1>7. QED
  BY <1>3, <1>4, <1>5, <1>6 DEF Remembers

LEMMA CompletesOnEvaluation ==
  ASSUME NEW rd, NEW state \in SnapshotRecord, Reader!Completes(rd, state)
  PROVE  /\ state.screen = "ScreenEvaluation" /\ state.song \in Song
         /\ \E seat \in Reader!Present(state) :
              rd.screens[Reader!KeyOf(state, seat)] = "ScreenGameplay"
  BY DEF Reader!Completes, Reader!IsOver, SnapshotRecord

\* The snapshots are read in order.
LEMMA ReadInOrder ==
  ASSUME NEW n \in Nat, NEW s, s = [i \in 1..n |-> s[i]], n <= 2, Len(s) = n
  PROVE  LET base == [reader |-> reader, completions |-> <<>>]
         IN  /\ n = 0 => ReadAll(s) = base
             /\ n = 1 => ReadAll(s) = ReadOne(base, s[1])
             /\ n = 2 => ReadAll(s) = ReadOne(ReadOne(base, s[1]), s[2])
<1> DEFINE base == [reader |-> reader, completions |-> <<>>]
           step(g, i) == IF i = 0 THEN base ELSE ReadOne(g[i - 1], s[i])
           found == [i \in 0..n |-> IF i = 0 THEN base
                                    ELSE IF i = 1 THEN ReadOne(base, s[1])
                                    ELSE ReadOne(ReadOne(base, s[1]), s[2])]
           g == CHOOSE g : g = [i \in 0..n |-> step(g, i)]
<1> HIDE DEF base
<1>1. \A i \in 0..n : found[i] = step(found, i)
  <2>1. \A i \in 0..n : i = 0 \/ i = 1 \/ i = 2
    OBVIOUS
  <2>2. QED
    BY <2>1
<1>2. found = [i \in 0..n |-> step(found, i)]
  <2> DEFINE h == [i \in 0..n |-> step(found, i)]
  <2>1. found = [i \in 0..n |-> found[i]]
    OBVIOUS
  <2> HIDE DEF found
  <2>2. QED
    BY <1>1, <2>1
<1>3. \E x : x = [i \in 0..n |-> step(x, i)]
  BY <1>2
<1>4. g = [i \in 0..n |-> step(g, i)]
  BY <1>3
<1>5. ReadAll(s) = g[n]
  BY DEF ReadAll, base
<1>6. /\ step(g, 0) = base
      /\ step(g, 1) = ReadOne(g[1 - 1], s[1])
      /\ step(g, 2) = ReadOne(g[2 - 1], s[2])
  OBVIOUS
<1> HIDE DEF g, found, step
<1>9. g[0] = base
  BY <1>4, <1>6
<1>7. ASSUME n >= 1
      PROVE  g[1] = ReadOne(base, s[1])
  <2>1. g[1] = step(g, 1)
    BY <1>4, <1>7
  <2>2. 1 - 1 = 0
    OBVIOUS
  <2>3. QED
    BY <1>6, <1>9, <2>1, <2>2
<1>8. ASSUME n = 2
      PROVE  g[2] = ReadOne(ReadOne(base, s[1]), s[2])
  <2>1. g[2] = step(g, 2)
    BY <1>4, <1>8
  <2>2. 2 - 1 = 1
    OBVIOUS
  <2>3. QED
    BY <1>6, <1>7, <1>8, <2>1, <2>2
<1>10. QED
  BY <1>5, <1>7, <1>8, <1>9 DEF base

LEMMA AppendedIs ==
  ASSUME NEW S, NEW q \in Seq(S), NEW e
  PROVE  /\ q \o <<e>> \in Seq(S \cup {e})
         /\ ToSet(q \o <<e>>) = ToSet(q) \cup {e}
<1>1. q \in Seq(S \cup {e}) /\ <<e>> \in Seq(S \cup {e}) /\ Len(<<e>>) = 1 /\ <<e>>[1] = e
  BY SeqMonotonic
<1> DEFINE t == q \o <<e>>
<1>2. /\ t \in Seq(S \cup {e}) /\ Len(t) = Len(q) + 1 /\ Len(q) \in Nat
      /\ \A i \in 1..Len(q) + 1 : t[i] = IF i <= Len(q) THEN q[i] ELSE <<e>>[i - Len(q)]
  BY <1>1, ConcatProperties, LenProperties
<1> HIDE DEF t
<1>3. DOMAIN t = 1..Len(q) + 1 /\ DOMAIN q = 1..Len(q)
  BY <1>2, LenProperties
<1>4. t[Len(q) + 1] = e /\ \A i \in 1..Len(q) : t[i] = q[i]
  BY <1>1, <1>2
<1>5. ToSet(t) = ToSet(q) \cup {e}
  BY <1>2, <1>3, <1>4 DEF ToSet
<1>6. QED
  BY <1>2, <1>5 DEF t

\* A snapshot that is read last completes a song or does not.
Completed(y) ==
  /\ y.screen = "ScreenEvaluation" /\ y.song \in Song
  /\ posts' \in Seq({c[2] : c \in read} \cup {Completion(y)})
  /\ ToSet(posts') = ToSet(posts) \cup {Completion(y)}
  /\ read' = read \cup {<<told', Completion(y)>>}

Hears(y) ==
  /\ Remembers(reader')
  /\ \A seat \in Reader!Present(y) : reader'.screens[Reader!KeyOf(y, seat)] = y.screen
  /\ UNCHANGED <<posts, read>> \/ Completed(y)

LEMMA TakesNone ==
  ASSUME Reads, ReaderTakes(<<>>)
  PROVE  UNCHANGED <<reader, posts, read>>
<1> DEFINE s == <<>>
<1>1. 0 \in Nat /\ s = [i \in 1..0 |-> s[i]] /\ 0 <= 2 /\ Len(s) = 0
  OBVIOUS
<1>2. ReadAll(<<>>) = [reader |-> reader, completions |-> <<>>]
  BY <1>1, ReadInOrder
<1>3. posts \o <<>> = posts /\ ToSet(<<>>) = {}
  BY ConcatEmptySeq DEF Reads, ToSet
<1> DEFINE f == ReadAll(<<>>)
<1>4. /\ reader' = f.reader /\ posts' = posts \o f.completions
      /\ read' = read \cup {<<told', c>> : c \in ToSet(f.completions)}
  BY DEF ReaderTakes
<1>5. f.reader = reader /\ f.completions = <<>>
  BY <1>2
<1> HIDE DEF f
<1>6. read' = read
  BY <1>3, <1>4, <1>5
<1>7. QED
  BY <1>3, <1>4, <1>5, <1>6

\* What the reader does with one snapshot when it has found nothing yet.
LEMMA ReadOneEffect ==
  ASSUME NEW rd, Remembers(rd), NEW y \in SnapshotRecord
  PROVE  LET f == ReadOne([reader |-> rd, completions |-> <<>>], y)
         IN  /\ f = [reader |-> Reader!Interpret(rd, y), completions |-> f.completions]
             /\ f.completions = IF Reader!Completes(rd, y) THEN <<Completion(y)>> ELSE <<>>
<1>1. Append(<<>>, Completion(y)) = <<Completion(y)>>
  OBVIOUS
<1>2. QED
  BY <1>1 DEF ReadOne

LEMMA TakesFound ==
  ASSUME Reads, NEW rd, Remembers(rd), NEW y \in SnapshotRecord, NEW s, ReaderTakes(s),
         ReadAll(s) = ReadOne([reader |-> rd, completions |-> <<>>], y)
  PROVE  /\ Hears(y)
         /\ Reader!Completes(rd, y) \/ UNCHANGED <<posts, read>>
<1> DEFINE f == ReadOne([reader |-> rd, completions |-> <<>>], y)
           S == {c[2] : c \in read}
<1>1. /\ f = [reader |-> Reader!Interpret(rd, y), completions |-> f.completions]
      /\ f.completions = IF Reader!Completes(rd, y) THEN <<Completion(y)>> ELSE <<>>
  BY ReadOneEffect
<1>2. /\ reader' = f.reader /\ posts' = posts \o f.completions
      /\ read' = read \cup {<<told', c>> : c \in ToSet(f.completions)}
  BY DEF ReaderTakes
<1>3. posts \in Seq(S)
  BY DEF Reads
<1> HIDE DEF f, S
<1>4. reader' = Reader!Interpret(rd, y)
  BY <1>1, <1>2
<1>5. /\ Remembers(reader')
      /\ \A seat \in Reader!Present(y) : reader'.screens[Reader!KeyOf(y, seat)] = y.screen
  BY <1>4, InterpretRemembers
<1>6. CASE Reader!Completes(rd, y)
  <2>1. f.completions = <<Completion(y)>>
    BY <1>1, <1>6
  <2>2. posts' \in Seq(S \cup {Completion(y)}) /\ ToSet(posts') = ToSet(posts) \cup {Completion(y)}
    BY <1>2, <1>3, <2>1, AppendedIs
  <2>3. ToSet(<<Completion(y)>>) = {Completion(y)}
    BY DEF ToSet
  <2>4. read' = read \cup {<<told', Completion(y)>>}
    BY <1>2, <2>1, <2>3
  <2>5. QED
    BY <1>5, <1>6, <2>2, <2>4, CompletesOnEvaluation DEF Hears, Completed, S
<1>7. CASE ~Reader!Completes(rd, y)
  <2>1. f.completions = <<>>
    BY <1>1, <1>7
  <2>2. posts' = posts
    BY <1>2, <1>3, <2>1, ConcatEmptySeq
  <2>3. read' = read
    BY <1>2, <2>1 DEF ToSet
  <2>4. QED
    BY <1>5, <2>2, <2>3 DEF Hears
<1>8. QED
  BY <1>6, <1>7

LEMMA TakesOne ==
  ASSUME Reads, NEW y \in SnapshotRecord, ReaderTakes(<<y>>)
  PROVE  /\ Hears(y)
         /\ \/ UNCHANGED <<posts, read>>
            \/ \E seat \in Reader!Present(y) :
                 reader.screens[Reader!KeyOf(y, seat)] = "ScreenGameplay"
<1> DEFINE s == <<y>>
<1>1. 1 \in Nat /\ s = [i \in 1..1 |-> s[i]] /\ 1 <= 2 /\ Len(s) = 1 /\ s[1] = y
  OBVIOUS
<1>2. ReadAll(s) = ReadOne([reader |-> reader, completions |-> <<>>], y)
  <2> HIDE DEF s
  <2>1. QED
    BY <1>1, ReadInOrder
<1>3. Remembers(reader)
  BY DEF Reads, Remembers
<1>4. QED
  BY <1>2, <1>3, TakesFound, CompletesOnEvaluation

\* The first of the two snapshots of a completion completes nothing.
LEMMA TakesTwo ==
  ASSUME Reads, NEW x \in SnapshotRecord, NEW y \in SnapshotRecord, ReaderTakes(<<x, y>>),
         x.screen # "ScreenEvaluation"
  PROVE  Hears(y)
<1> DEFINE s == <<x, y>>
           base == [reader |-> reader, completions |-> <<>>]
<1>1. 2 \in Nat /\ s = [i \in 1..2 |-> s[i]] /\ 2 <= 2 /\ Len(s) = 2 /\ s[1] = x /\ s[2] = y
  OBVIOUS
<1>2. ReadAll(s) = ReadOne(ReadOne(base, x), y)
  <2> HIDE DEF s
  <2>1. QED
    BY <1>1, ReadInOrder
<1>3. Remembers(reader)
  BY DEF Reads, Remembers
<1>4. ReadOne(base, x) = [reader |-> Reader!Interpret(reader, x), completions |-> <<>>]
  BY <1>3, ReadOneEffect, CompletesOnEvaluation
<1>5. Remembers(Reader!Interpret(reader, x))
  BY <1>3, InterpretRemembers
<1>6. QED
  BY <1>2, <1>4, <1>5, TakesFound

LEMMA SentNone ==
  ASSUME NEW p, p.screens = <<>>
  PROVE  Sent(p) = <<>>
<1>1. [i \in DOMAIN p.screens |-> Snapshot(p.bridge, p.screens[i])] = <<>>
  OBVIOUS
<1>2. QED
  BY <1>1 DEF Sent

LEMMA SentOne ==
  ASSUME NEW p, NEW screen, p.screens = <<screen>>
  PROVE  Sent(p) \in {<<>>, <<Snapshot(p.bridge, screen)>>}
<1> DEFINE x == Snapshot(p.bridge, screen)
           s == [i \in DOMAIN p.screens |-> Snapshot(p.bridge, p.screens[i])]
<1>1. DOMAIN p.screens = {1} /\ p.screens[1] = screen
  OBVIOUS
<1>2. DOMAIN s = {1} /\ s[1] = x
  BY <1>1
<1> HIDE DEF x
<1>3. s = <<x>>
  BY <1>1, <1>2
<1>4. Tail(<<x>>) = <<>>
  BY EmptySeq
<1>5. QED
  BY <1>3, <1>4 DEF Sent, x

LEMMA SentTwo ==
  ASSUME NEW p, NEW first, NEW last, p.screens = <<first, last>>
  PROVE  Sent(p) \in {<<Snapshot(p.bridge, last)>>,
                      <<Snapshot(p.bridge, first), Snapshot(p.bridge, last)>>}
<1> DEFINE x == Snapshot(p.bridge, first)
           y == Snapshot(p.bridge, last)
           s == [i \in DOMAIN p.screens |-> Snapshot(p.bridge, p.screens[i])]
<1>1. DOMAIN p.screens = {1, 2} /\ p.screens[1] = first /\ p.screens[2] = last
  OBVIOUS
<1>2. DOMAIN s = {1, 2} /\ s[1] = x /\ s[2] = y
  BY <1>1
<1> HIDE DEF x, y
<1>3. s = <<x, y>>
  BY <1>1, <1>2
<1>4. Tail(<<x, y>>) = <<y>>
  OBVIOUS
<1>5. QED
  BY <1>3, <1>4 DEF Sent, x, y

\* The session that a handler leaves.
SessionAfter(c) ==
  IF c.song # None /\ (c.song # song \/ (isCompleted /\ ~c.isCompleted))
  THEN session + 1 ELSE session

Told(c) ==
  /\ Bridge' = c
  /\ session' = SessionAfter(c)
  /\ link' = link

LEMMA HandledTells ==
  ASSUME NEW p, p.bridge \in BridgeRecord, Handled(p)
  PROVE  /\ Told(p.bridge)
         /\ current' = IF Sent(p) = <<>> THEN current ELSE Last(Sent(p))
         /\ told' = IF Sent(p) = <<>> THEN told ELSE session'
         /\ IF link = "up" THEN ReaderTakes(Sent(p)) ELSE UNCHANGED <<reader, posts, read>>
<1>1. BridgeIs(p.bridge)
  BY DEF Handled, Takes
<1>2. Bridge' = p.bridge
  <2> DEFINE c == p.bridge
  <2>1. c = [machines |-> c.machines, machineSong |-> c.machineSong, run |-> c.run, song |-> c.song,
             isCompleted |-> c.isCompleted, flushTimer |-> c.flushTimer]
    BY DEF BridgeRecord
  <2>2. QED
    BY <1>1, <2>1 DEF BridgeIs, Bridge
<1>3. QED
  BY <1>1, <1>2 DEF Handled, Takes, BridgeIs, Told, SessionAfter

\* Nothing is completed by a snapshot of another screen.
Passes(c) ==
  /\ Told(c)
  /\ UNCHANGED <<posts, read>>
  /\ Remembers(reader')
  /\ \/ UNCHANGED <<current, told, reader>>
     \/ current' \in SnapshotRecord /\ current'.screen # "ScreenEvaluation" /\ told' = session'

LEMMA HandledPasses ==
  ASSUME Reads, NEW p, Settled(p.bridge), Plain(p.screens), Handled(p)
  PROVE  Passes(p.bridge)
<1>1. /\ Told(p.bridge)
      /\ current' = IF Sent(p) = <<>> THEN current ELSE Last(Sent(p))
      /\ told' = IF Sent(p) = <<>> THEN told ELSE session'
      /\ IF link = "up" THEN ReaderTakes(Sent(p)) ELSE UNCHANGED <<reader, posts, read>>
  BY HandledTells DEF Settled
<1>2. Remembers(reader)
  BY DEF Reads, Remembers
<1>3. CASE Sent(p) = <<>>
  BY <1>1, <1>2, <1>3, TakesNone DEF Passes
<1>4. ASSUME NEW screen \in {"ScreenSelectMusic", "ScreenGameplay"},
             Sent(p) = <<Snapshot(p.bridge, screen)>>
      PROVE  Passes(p.bridge)
  <2> DEFINE y == Snapshot(p.bridge, screen)
  <2>1. y \in SnapshotRecord /\ y.screen # "ScreenEvaluation"
    BY SnapshotShape DEF Screen
  <2> HIDE DEF y
  <2>2. Sent(p) = <<y>> /\ Last(<<y>>) = y /\ <<y>> # <<>>
    BY <1>4 DEF y, Last
  <2>3. current' = y /\ told' = session'
    BY <1>1, <2>2
  <2>4. CASE link = "up"
    <3>1. Hears(y)
      BY <1>1, <2>1, <2>2, <2>4, TakesOne
    <3>2. QED
      BY <1>1, <2>1, <2>3, <3>1 DEF Passes, Hears, Completed
  <2>5. CASE link # "up"
    BY <1>1, <1>2, <2>1, <2>3, <2>5 DEF Passes
  <2>6. QED
    BY <2>4, <2>5
<1>5. QED
  BY <1>3, <1>4, SentNone, SentOne DEF Plain

\* The completed song is the last snapshot, which the reader hears of or not.
Concludes(c) ==
  /\ Told(c)
  /\ current' = Snapshot(c, "ScreenEvaluation") /\ told' = session'
  /\ UNCHANGED <<reader, posts, read>> \/ Hears(current')

LEMMA HandledConcludes ==
  ASSUME Reads, NEW p, Settled(p.bridge),
         p.screens = <<"ScreenGameplay", "ScreenEvaluation">>, Handled(p)
  PROVE  Concludes(p.bridge)
<1> DEFINE x == Snapshot(p.bridge, "ScreenGameplay")
           y == Snapshot(p.bridge, "ScreenEvaluation")
<1>1. /\ Told(p.bridge)
      /\ current' = IF Sent(p) = <<>> THEN current ELSE Last(Sent(p))
      /\ told' = IF Sent(p) = <<>> THEN told ELSE session'
      /\ IF link = "up" THEN ReaderTakes(Sent(p)) ELSE UNCHANGED <<reader, posts, read>>
  BY HandledTells DEF Settled
<1>2. x \in SnapshotRecord /\ y \in SnapshotRecord /\ x.screen # "ScreenEvaluation"
  BY SnapshotShape DEF Screen
<1>3. Sent(p) \in {<<y>>, <<x, y>>}
  BY SentTwo
<1>4. current' = y /\ told' = session'
  <2> HIDE DEF x, y
  <2>1. Last(<<y>>) = y /\ Last(<<x, y>>) = y /\ <<y>> # <<>> /\ <<x, y>> # <<>>
    BY DEF Last
  <2>2. QED
    BY <1>1, <1>3, <2>1
<1>5. CASE link = "up"
  <2>1. Hears(y)
    BY <1>1, <1>2, <1>3, <1>5, TakesOne, TakesTwo
  <2>2. QED
    BY <1>1, <1>4, <2>1 DEF Concludes
<1>6. CASE link # "up"
  BY <1>1, <1>4, <1>6 DEF Concludes
<1>7. QED
  BY <1>5, <1>6

-----------------------------------------------------------------------------
(***************************************************************************)
(* Every step preserves the invariant.                                     *)
(***************************************************************************)

LEMMA BridgeFields ==
  /\ Bridge.song = song /\ Bridge.isCompleted = isCompleted /\ Bridge.flushTimer = flushTimer
  /\ Bridge.run = run /\ Bridge.machines = machines /\ Bridge.machineSong = machineSong
  BY DEF Bridge

LEMMA ToldFields ==
  ASSUME NEW c, Told(c)
  PROVE  /\ song' = c.song /\ isCompleted' = c.isCompleted /\ flushTimer' = c.flushTimer
         /\ run' = c.run /\ machines' = c.machines
  BY DEF Told, Bridge

\* What the API keeps says of posts and completions the same, or more.
LEMMA SubmissionsStay ==
  ASSUME Submissions, UNCHANGED <<job, completions, recorded, active, standing>>,
         read \subseteq read'
  PROVE  Submissions'
<1>1. \A c : IsRecorded(c) => IsRecorded(c)'
  BY DEF IsRecorded
<1>2. {c[2] : c \in read} \subseteq {c[2] : c \in read'}
  BY DEF Submissions
<1>3. QED
  BY <1>1, <1>2 DEF Submissions

LEMMA DeliveryStays ==
  ASSUME Delivery, UNCHANGED <<job, completions, recorded>>, upsets' \in {upsets, upsets + 1},
         read \subseteq read',
         upsets' = 0 => ToSet(posts) \subseteq ToSet(posts'),
         \A c \in read' : c \in read \/ c[2] \in ToSet(posts')
  PROVE  Delivery'
<1>1. \A c : IsRecorded(c) => IsRecorded(c)'
  BY DEF IsRecorded
<1>2. upsets' \in Nat /\ (upsets' = 0 => upsets = 0)
  BY DEF Delivery
<1>3. \A id \in completions' : \E c \in read' : c[2].id = id /\ IsRecorded(c[2])'
  BY <1>1 DEF Delivery
<1>4. ASSUME upsets' = 0, NEW c \in read'
      PROVE  \/ c[2] \in ToSet(posts') \/ IsRecorded(c[2])'
             \/ job'.at = "record" /\ job'.completion = c[2]
             \/ \E d \in read' : c # d /\ d[2].id = c[2].id
  <2>1. CASE c \in read
    <3>1. \/ c[2] \in ToSet(posts) \/ IsRecorded(c[2])
          \/ job.at = "record" /\ job.completion = c[2]
          \/ \E d \in read : c # d /\ d[2].id = c[2].id
      BY <1>2, <1>4, <2>1 DEF Delivery
    <3>2. QED
      BY <1>1, <1>4, <3>1
  <2>2. CASE c[2] \in ToSet(posts')
    BY <2>2
  <2>3. QED
    BY <2>1, <2>2
<1>5. QED
  BY <1>2, <1>3, <1>4 DEF Delivery

\* The session that goes on is not completed by a handler that completes nothing.
LEMMA PassesOnce ==
  ASSUME Once, NEW c, Moves(Bridge, c), Passes(c)
  PROVE  Once'
<1>1. song' = c.song /\ isCompleted' = c.isCompleted /\ session' = SessionAfter(c)
  BY ToldFields DEF Passes, Told
<1>2. session' \in {session, session + 1}
  BY <1>1 DEF SessionAfter
<1>3. session' = session => (isCompleted => isCompleted')
  BY <1>1, BridgeFields DEF SessionAfter, Moves, Once
<1>4. read' = read /\ told' \in {told, session'}
  BY DEF Passes
<1>5. session' \in Nat /\ told' \in Nat /\ told' <= session' /\ told <= told'
  BY <1>2, <1>4 DEF Once
<1>6. \A d \in read' : d[1] \in Nat /\ d[1] <= told'
  BY <1>4, <1>5 DEF Once
<1>7. \A d \in read' : d[1] = session' => isCompleted'
  BY <1>2, <1>3, <1>4 DEF Once
<1>8. ASSUME current'.screen = "ScreenEvaluation"
      PROVE  /\ told' = session' => isCompleted'
             /\ \A d \in read' : d[1] = told' => \A seat \in Reader!Present(current') :
                  reader'.screens[Reader!KeyOf(current', seat)] # "ScreenGameplay"
  <2>1. UNCHANGED <<current, told, reader>>
    BY <1>8 DEF Passes
  <2>2. told' = session' => isCompleted'
    BY <1>2, <1>3, <1>8, <2>1 DEF Once
  <2>3. QED
    BY <1>4, <1>8, <2>1, <2>2 DEF Once
<1>9. CompletesOnce'
  BY <1>4 DEF Once, CompletesOnce
<1>10. QED
  BY <1>5, <1>6, <1>7, <1>8, <1>9 DEF Once

LEMMA PassesKeeps ==
  ASSUME Inv, NEW c, Moves(Bridge, c), Passes(c), UNCHANGED apiVars,
         upsets' \in {upsets, upsets + 1}, Cabinets(cabinet')
  PROVE  Inv'
<1>1. Settled(Bridge)'
  BY DEF Moves, Passes, Told
<1>2. read' = read /\ posts' = posts /\ link' = link /\ Remembers(reader')
  BY DEF Passes, Told
<1>3. Reads'
  <2>1. current' \in SnapshotRecord
    BY DEF Passes, Inv, Reads
  <2>2. QED
    BY <1>2, <2>1 DEF Inv, Reads, Remembers
<1>4. Once'
  BY PassesOnce DEF Inv
<1>5. UNCHANGED <<job, completions, recorded, active, standing>>
  BY DEF apiVars
<1>6. Submissions'
  BY <1>2, <1>5, SubmissionsStay DEF Inv
<1>7. Delivery'
  BY <1>2, <1>5, DeliveryStays DEF Inv
<1>8. QED
  BY <1>1, <1>3, <1>4, <1>6, <1>7 DEF Inv

\* A session that is completed was not, and none of its completions was read.
LEMMA ConcludesKeeps ==
  ASSUME Inv, NEW c, Flushes(Bridge, c), ~isCompleted, Concludes(c), UNCHANGED apiVars,
         UNCHANGED <<upsets, cabinet>>
  PROVE  Inv'
<1> DEFINE y == Snapshot(c, "ScreenEvaluation")
<1>1. /\ Settled(c) /\ Bridge' = c /\ session' = session /\ told' = session /\ link' = link
      /\ isCompleted' /\ current' = y
  BY ToldFields, BridgeFields DEF Concludes, Flushes, Told, SessionAfter
<1>2. y \in SnapshotRecord /\ y.screen = "ScreenEvaluation"
  BY <1>1, SnapshotShape DEF Flushes, Screen
<1> HIDE DEF y
<1>3. UNCHANGED <<reader, posts, read>> \/ Hears(y)
  BY <1>1 DEF Concludes
<1>4. \A d \in read : d[1] \in Nat /\ d[1] <= told /\ d[1] # session
  BY DEF Inv, Once
<1>5. session \in Nat /\ told \in Nat /\ told <= session /\ CompletesOnce
  BY DEF Inv, Once
<1>6. CASE UNCHANGED <<reader, posts, read>>
  <2>1. Reads'
    BY <1>1, <1>2, <1>6 DEF Inv, Reads
  <2>2. Once'
    BY <1>1, <1>4, <1>5, <1>6 DEF Once, CompletesOnce
  <2>3. UNCHANGED <<job, completions, recorded, active, standing>>
    BY DEF apiVars
  <2>4. Submissions' /\ Delivery'
    BY <1>6, <2>3, SubmissionsStay, DeliveryStays DEF Inv
  <2>5. Settled(Bridge)'
    BY <1>1
  <2>6. QED
    BY <2>1, <2>2, <2>4, <2>5 DEF Inv
<1>7. CASE Hears(y)
  <2>1. Remembers(reader')
    BY <1>7 DEF Hears
  <2>2. \A seat \in Reader!Present(y) : reader'.screens[Reader!KeyOf(y, seat)] # "ScreenGameplay"
    BY <1>2, <1>7 DEF Hears
  <2> DEFINE e == Completion(y)
             new == <<told', e>>
  <2>3. \/ UNCHANGED <<posts, read>>
        \/ /\ y.song \in Song
           /\ posts' \in Seq({x[2] : x \in read} \cup {e})
           /\ ToSet(posts') = ToSet(posts) \cup {e}
           /\ read' = read \cup {new}
    BY <1>7 DEF Hears, Completed
  <2>4. e.song = y.song /\ e.scores = y.players /\ y.players \in Scores
    BY <1>2 DEF Completion, SnapshotRecord
  <2>5. new[1] = session /\ new[2] = e
    BY <1>1
  <2> HIDE DEF e, new
  <2>6. read \subseteq read' /\ \A d \in read' : d \in read \/ d = new
    BY <2>3
  <2>7. Reads'
    <3>1. \A d \in read' : d[2].song \in Song /\ d[2].scores \in Scores
      BY <2>3, <2>4, <2>5 DEF Inv, Reads
    <3>2. posts' \in Seq({x[2] : x \in read'})
      <4>1. CASE UNCHANGED <<posts, read>>
        BY <4>1 DEF Inv, Reads
      <4>2. CASE ~UNCHANGED <<posts, read>>
        <5>1. {x[2] : x \in read} \cup {e} = {x[2] : x \in read'}
          BY <2>3, <2>5, <4>2
        <5>2. QED
          BY <2>3, <4>2, <5>1
      <4>3. QED
        BY <4>1, <4>2
    <3>3. QED
      BY <1>1, <1>2, <2>1, <3>1, <3>2 DEF Inv, Reads, Remembers
  <2>8. Once'
    <3>1. \A d \in read' : d[1] \in Nat /\ d[1] <= told'
      BY <1>1, <1>4, <1>5, <2>5, <2>6
    <3>2. CompletesOnce'
      BY <1>4, <1>5, <2>5, <2>6 DEF CompletesOnce
    <3>3. QED
      BY <1>1, <1>5, <2>2, <3>1, <3>2 DEF Once
  <2>9. UNCHANGED <<job, completions, recorded, active, standing>>
    BY DEF apiVars
  <2>10. Submissions'
    BY <2>6, <2>9, SubmissionsStay DEF Inv
  <2>11. Delivery'
    <3>1. ToSet(posts) \subseteq ToSet(posts')
      BY <2>3
    <3>2. \A d \in read' : d \in read \/ d[2] \in ToSet(posts')
      BY <2>3, <2>5
    <3>3. QED
      BY <2>6, <2>9, <3>1, <3>2, DeliveryStays DEF Inv
  <2>12. Settled(Bridge)'
    BY <1>1
  <2>13. QED
    BY <2>7, <2>8, <2>10, <2>11, <2>12 DEF Inv
<1>8. QED
  BY <1>3, <1>6, <1>7

\* A fault between the bridge and the API, or nothing that they see.
LEMMA QuietKeeps ==
  ASSUME Inv, UNCHANGED <<bridgeVars, sessionVars, apiVars, read>>,
         Cabinets(cabinet'),
         upsets' \in {upsets, upsets + 1},
         link' \in {"up", "down"}, reader' \in {reader, Reader!NewReader},
         posts' \in Seq({c[2] : c \in read}), posts' = posts \/ upsets' = upsets + 1
  PROVE  Inv'
<1>1. /\ UNCHANGED <<song, isCompleted, current, session, told, read>>
      /\ UNCHANGED <<job, completions, recorded, active, standing>>
      /\ Bridge' = Bridge
  BY DEF bridgeVars, sessionVars, apiVars, Bridge
<1>2. Remembers(reader')
  <2>1. Remembers(reader)
    BY DEF Inv, Reads, Remembers
  <2>2. Remembers(Reader!NewReader)
    BY DEF Remembers, Reader!NewReader
  <2>3. QED
    BY <2>1, <2>2
<1>3. Reads'
  BY <1>1, <1>2 DEF Inv, Reads, Remembers
<1>4. Once'
  <2>1. CASE reader' = reader
    BY <1>1, <2>1 DEF Inv, Once, CompletesOnce
  <2>2. CASE reader' = Reader!NewReader
    <3>1. \A seat \in Reader!Present(current) :
            reader'.screens[Reader!KeyOf(current, seat)] # "ScreenGameplay"
      <4> SUFFICES ASSUME NEW seat \in Reader!Present(current)
                   PROVE  reader'.screens[Reader!KeyOf(current, seat)] # "ScreenGameplay"
        OBVIOUS
      <4>1. Reader!KeyOf(current, seat) \in Reader!Keys
        BY KeyShape DEF Inv, Reads
      <4>2. reader'.screens[Reader!KeyOf(current, seat)] = None
        BY <2>2, <4>1 DEF Reader!NewReader
      <4>3. QED
        BY <4>2, BridgeAssumption DEF Screen
    <3>2. QED
      BY <1>1, <3>1 DEF Inv, Once, CompletesOnce
  <2>3. QED
    BY <2>1, <2>2
<1>5. Submissions'
  BY <1>1, SubmissionsStay DEF Inv
<1>6. Delivery'
  <2>1. upsets' = 0 => posts' = posts
    BY DEF Inv, Delivery
  <2>2. QED
    BY <1>1, <2>1, DeliveryStays DEF Inv
<1>7. QED
  BY <1>1, <1>3, <1>4, <1>5, <1>6 DEF Inv

\* The state that a session is sent when it connects again is read with what
\* the reader remembers.
LEMMA ReconnectKeeps ==
  ASSUME Inv, Reconnect
  PROVE  Inv'
<1>1. /\ UNCHANGED <<song, isCompleted, current, session, told>>
      /\ UNCHANGED <<job, completions, recorded, active, standing, cabinet, upsets>>
      /\ Bridge' = Bridge /\ link' = "up"
  BY DEF Reconnect, bridgeVars, sessionVars, cabinetVars, apiVars, Bridge
<1>2. current \in SnapshotRecord
  BY DEF Inv, Reads
<1>3. /\ Hears(current)
      /\ \/ UNCHANGED <<posts, read>>
         \/ \E seat \in Reader!Present(current) :
              reader.screens[Reader!KeyOf(current, seat)] = "ScreenGameplay"
  BY <1>2, TakesOne DEF Reconnect, Inv
<1>4. Remembers(reader') /\ \A seat \in Reader!Present(current) :
        reader'.screens[Reader!KeyOf(current, seat)] = current.screen
  BY <1>3 DEF Hears
<1>5. CASE UNCHANGED <<posts, read>>
  <2>1. Reads'
    BY <1>1, <1>4, <1>5 DEF Inv, Reads, Remembers
  <2>2. Once'
    BY <1>1, <1>4, <1>5 DEF Inv, Once, CompletesOnce
  <2>3. Submissions' /\ Delivery'
    BY <1>1, <1>5, SubmissionsStay, DeliveryStays DEF Inv
  <2>4. QED
    BY <1>1, <2>1, <2>2, <2>3 DEF Inv
<1>6. CASE ~UNCHANGED <<posts, read>>
  <2> DEFINE e == Completion(current)
             new == <<told', e>>
  <2>1. /\ current.screen = "ScreenEvaluation" /\ current.song \in Song
        /\ posts' \in Seq({x[2] : x \in read} \cup {e})
        /\ ToSet(posts') = ToSet(posts) \cup {e}
        /\ read' = read \cup {new}
    BY <1>3, <1>6 DEF Hears, Completed
  <2>2. \A d \in read : d[1] # told
    BY <1>3, <1>6, <2>1 DEF Inv, Once
  <2>3. new[1] = told /\ new[2] = e
    BY <1>1
  <2>4. e.song = current.song /\ e.scores = current.players /\ current.players \in Scores
    BY <1>2 DEF Completion, SnapshotRecord
  <2> HIDE DEF e, new
  <2>5. {x[2] : x \in read} \cup {e} = {x[2] : x \in read'}
    BY <2>1, <2>3
  <2>6. Reads'
    <3>1. \A d \in read' : d[2].song \in Song /\ d[2].scores \in Scores
      BY <2>1, <2>3, <2>4 DEF Inv, Reads
    <3>2. QED
      BY <1>1, <1>4, <2>1, <2>5, <3>1 DEF Inv, Reads, Remembers
  <2>7. Once'
    <3>1. \A d \in read' : d[1] \in Nat /\ d[1] <= told'
      BY <1>1, <2>1, <2>3 DEF Inv, Once
    <3>2. CompletesOnce'
      BY <2>1, <2>2, <2>3 DEF Inv, Once, CompletesOnce
    <3>3. \A d \in read' : d[1] = session' => isCompleted'
      BY <1>1, <2>1, <2>3 DEF Inv, Once
    <3>4. \A seat \in Reader!Present(current) :
            reader'.screens[Reader!KeyOf(current, seat)] # "ScreenGameplay"
      BY <1>4, <2>1
    <3>5. QED
      BY <1>1, <3>1, <3>2, <3>3, <3>4 DEF Inv, Once
  <2>8. read \subseteq read' /\ \A d \in read' : d \in read \/ d[2] \in ToSet(posts')
    BY <2>1, <2>3
  <2>9. Submissions' /\ Delivery'
    BY <1>1, <2>1, <2>8, SubmissionsStay, DeliveryStays DEF Inv
  <2>10. QED
    BY <1>1, <2>6, <2>7, <2>9 DEF Inv
<1>7. QED
  BY <1>5, <1>6

\* The first of a sequence, and the others.
LEMMA HeadAndTail ==
  ASSUME NEW S, NEW q \in Seq(S), q # <<>>
  PROVE  /\ Head(q) \in S /\ Tail(q) \in Seq(S)
         /\ \A x \in ToSet(q) : x = Head(q) \/ x \in ToSet(Tail(q))
<1>1. /\ Head(q) \in S /\ Tail(q) \in Seq(S) /\ Len(q) \in Nat
      /\ Head(q) = q[1]
      /\ DOMAIN q = 1..Len(q) /\ DOMAIN Tail(q) = 1..Len(q) - 1
      /\ \A i \in DOMAIN Tail(q) : Tail(q)[i] = q[i + 1]
  OBVIOUS
<1>2. \A i \in DOMAIN q : i = 1 \/ (i - 1 \in DOMAIN Tail(q) /\ q[i] = Tail(q)[i - 1])
  BY <1>1
<1>3. ASSUME NEW x \in ToSet(q)
      PROVE  x = Head(q) \/ x \in ToSet(Tail(q))
  <2>1. PICK i \in DOMAIN q : x = q[i]
    BY DEF ToSet
  <2>2. CASE i = 1
    BY <1>1, <2>1, <2>2
  <2>3. CASE i - 1 \in DOMAIN Tail(q) /\ q[i] = Tail(q)[i - 1]
    BY <2>1, <2>3 DEF ToSet
  <2>4. QED
    BY <1>2, <2>2, <2>3
<1>4. QED
  BY <1>1, <1>3

\* The API works on its own.
LEMMA ApiKeeps ==
  ASSUME Inv, UNCHANGED <<bridgeVars, cabinetVars, link, reader, read, sessionVars>>,
         posts' \in Seq({c[2] : c \in read}), Submissions', Delivery'
  PROVE  Inv'
<1>1. /\ UNCHANGED <<song, isCompleted, current, session, told, read, cabinet, link, reader>>
      /\ Bridge' = Bridge
  BY DEF bridgeVars, sessionVars, cabinetVars, Bridge
<1>2. Reads'
  BY <1>1 DEF Inv, Reads
<1>3. Once'
  BY <1>1 DEF Inv, Once, CompletesOnce
<1>4. QED
  BY <1>1, <1>2, <1>3 DEF Inv

\* A completion that is posted is on its way to the table, or its name is known.
LEMMA PostKeeps ==
  ASSUME Inv, Post
  PROVE  Inv'
<1> DEFINE h == Head(posts)
           S == {c[2] : c \in read}
           new == [completion |-> h, at |-> "record", runs |-> {}, targets |-> {}]
<1>1. /\ posts # <<>> /\ posts' = Tail(posts) /\ job.at = "idle"
      /\ job' = IF API!Seen(h) THEN job ELSE new
      /\ UNCHANGED <<completions, recorded, active, standing, read, upsets>>
      /\ UNCHANGED <<bridgeVars, cabinetVars, link, reader, sessionVars>>
  BY DEF Post, API!Submit
<1>2. posts \in Seq(S)
  BY DEF Inv, Reads
<1>3. h \in S /\ posts' \in Seq(S) /\ \A x \in ToSet(posts) : x = h \/ x \in ToSet(posts')
  BY <1>1, <1>2, HeadAndTail
<1> HIDE DEF h
<1>4. \A c : IsRecorded(c) => IsRecorded(c)'
  BY <1>1 DEF IsRecorded
<1>5. Submissions'
  <2>1. CASE API!Seen(h)
    BY <1>1, <1>4, <2>1 DEF Inv, Submissions
  <2>2. CASE ~API!Seen(h)
    <3>1. /\ new \in [ completion : S \cup {None}, at : {"idle", "record", "targets", "apply"},
                       runs : SUBSET (Player \X Result),
                       targets : SUBSET (Match \X Player \X Result) ]
          /\ new.at = "record" /\ new.runs = {} /\ new.targets = {} /\ new.completion = h
      BY <1>3
    <3> HIDE DEF new
    <3>2. job' = new
      BY <1>1, <2>2
    <3>3. QED
      BY <1>1, <1>3, <3>1, <3>2 DEF Inv, Submissions
  <2>3. QED
    BY <2>1, <2>2
<1>6. Delivery'
  <2>1. \A id \in completions : \E c \in read : c[2].id = id /\ IsRecorded(c[2])
    BY DEF Inv, Delivery
  <2>2. upsets \in Nat
    BY DEF Inv, Delivery
  <2>3. ASSUME upsets = 0, NEW c \in read
        PROVE  \/ c[2] \in ToSet(posts') \/ IsRecorded(c[2])'
               \/ job'.at = "record" /\ job'.completion = c[2]
               \/ \E d \in read : c # d /\ d[2].id = c[2].id
    <3>1. \/ c[2] \in ToSet(posts) \/ IsRecorded(c[2])
          \/ \E d \in read : c # d /\ d[2].id = c[2].id
      BY <1>1, <2>3 DEF Inv, Delivery
    <3>2. CASE c[2] = h
      <4>1. CASE API!Seen(h)
        <5>1. PICK d \in read : d[2].id = h.id /\ IsRecorded(d[2])
          BY <2>1, <4>1 DEF API!Seen
        <5>2. QED
          BY <1>4, <3>2, <5>1
      <4>2. CASE ~API!Seen(h)
        BY <1>1, <3>2, <4>2
      <4>3. QED
        BY <4>1, <4>2
    <3>3. QED
      BY <1>3, <1>4, <3>1, <3>2
  <2>4. QED
    BY <1>1, <1>4, <2>1, <2>2, <2>3 DEF Delivery
<1>7. QED
  BY <1>1, <1>3, <1>5, <1>6, ApiKeeps DEF apiVars

\* What the steps of the API leave alone.
Behind == <<bridgeVars, cabinetVars, readerVars, sessionVars, finals, upsets>>

LEMMA ResolvedIs ==
  ASSUME NEW c, c.song \in Song, c.scores \in Scores
  PROVE  /\ API!Resolved(c) \subseteq Player \X Result
         /\ \A r \in API!Resolved(c) : \E seat \in Seat :
              c.scores[seat] # None /\ r = <<c.scores[seat].player, c.scores[seat].exScore>>
         /\ \A seat \in Seat :
              c.scores[seat] # None /\ c.scores[seat].player \in Roster /\ c.song \in Pool =>
                <<c.scores[seat].player, c.scores[seat].exScore>> \in API!Resolved(c)
<1>1. \A seat \in Seat : c.scores[seat] # None =>
        c.scores[seat].player \in Player /\ c.scores[seat].exScore \in Result
  BY DEF Scores, Score, Result
<1>2. \A r \in API!Resolved(c) : \E seat \in Seat :
        c.scores[seat] # None /\ r = <<c.scores[seat].player, c.scores[seat].exScore>>
  BY DEF API!Resolved
<1>3. API!Resolved(c) \subseteq Player \X Result
  BY <1>1, <1>2
<1>4. QED
  BY <1>2, <1>3 DEF API!Resolved

\* The runs are in the score table before a round hears of them.
LEMMA RecordRunsKeeps ==
  ASSUME Inv, API!RecordRuns, UNCHANGED Behind
  PROVE  Inv'
<1> DEFINE c == job.completion
           runs == API!Resolved(c)
           S == {x[2] : x \in read}
<1>1. /\ job.at = "record"
      /\ recorded' = recorded \cup {<<r[1], c.song, r[2]>> : r \in runs}
      /\ job' = [job EXCEPT !.at = "targets", !.runs = runs]
      /\ UNCHANGED <<completions, active, standing>>
  BY DEF API!RecordRuns
<1>2. UNCHANGED <<bridgeVars, cabinetVars, link, reader, posts, read, sessionVars, upsets>>
  BY DEF Behind, readerVars
<1>3. /\ job \in [ completion : S \cup {None}, at : {"idle", "record", "targets", "apply"},
                   runs : SUBSET (Player \X Result),
                   targets : SUBSET (Match \X Player \X Result) ]
      /\ c \in S /\ job.targets = {}
  BY <1>1 DEF Inv, Submissions
<1>4. c.song \in Song /\ c.scores \in Scores
  BY <1>3 DEF Inv, Reads
<1>5. /\ runs \subseteq Player \X Result
      /\ \A seat \in Seat :
           c.scores[seat] # None /\ c.scores[seat].player \in Roster /\ c.song \in Pool =>
             <<c.scores[seat].player, c.scores[seat].exScore>> \in runs
  BY <1>4, ResolvedIs
<1> HIDE DEF runs, c
<1>6. /\ job' \in [ completion : S \cup {None}, at : {"idle", "record", "targets", "apply"},
                    runs : SUBSET (Player \X Result),
                    targets : SUBSET (Match \X Player \X Result) ]
      /\ job'.at = "targets" /\ job'.runs = runs /\ job'.targets = {} /\ job'.completion = c
  BY <1>1, <1>3, <1>5 DEF c
<1>7. recorded \subseteq recorded'
  BY <1>1
<1>8. \A x : IsRecorded(x) => IsRecorded(x)'
  BY <1>7 DEF IsRecorded
<1>9. IsRecorded(job.completion)'
  <2>1. \A seat \in Seat :
          c.scores[seat] # None /\ c.scores[seat].player \in Roster /\ c.song \in Pool =>
            <<c.scores[seat].player, c.song, c.scores[seat].exScore>> \in recorded'
    <3> SUFFICES ASSUME NEW seat \in Seat, c.scores[seat] # None,
                        c.scores[seat].player \in Roster, c.song \in Pool
                 PROVE  <<c.scores[seat].player, c.song, c.scores[seat].exScore>> \in recorded'
      OBVIOUS
    <3> DEFINE r == <<c.scores[seat].player, c.scores[seat].exScore>>
    <3>1. r \in runs
      BY <1>5
    <3>2. <<r[1], c.song, r[2]>> \in recorded'
      BY <1>1, <3>1
    <3>3. QED
      BY <3>2
  <2>2. QED
    BY <1>6, <2>1 DEF IsRecorded
<1>10. Submissions'
  <2>1. recorded' \subseteq Player \X Song \X Result
    <3>1. \A r \in runs : <<r[1], c.song, r[2]>> \in Player \X Song \X Result
      BY <1>4, <1>5
    <3>2. QED
      BY <1>1, <3>1 DEF Inv, Submissions
  <2>2. \A r \in job'.runs : <<r[1], job'.completion.song, r[2]>> \in recorded'
    BY <1>1, <1>6
  <2>3. QED
    BY <1>1, <1>2, <1>3, <1>6, <1>9, <2>1, <2>2 DEF Inv, Submissions
<1>11. Delivery'
  <2>1. \A d \in read : d[2] = job.completion => IsRecorded(d[2])'
    BY <1>6, <1>9 DEF IsRecorded, c
  <2>2. QED
    BY <1>1, <1>2, <1>8, <2>1 DEF Inv, Delivery
<1>12. QED
  BY <1>2, <1>10, <1>11, ApiKeeps DEF Inv, Reads

LEMMA LeastExists ==
  ASSUME NEW ms, ms \subseteq Nat, ms # {}
  PROVE  \E m \in ms : \A n \in ms : m <= n
<1> DEFINE R == OpToRel(<, Nat)
<1>1. IsWellFoundedOn(R, Nat)
  BY NatLessThanWellFounded
<1>2. \A x, y \in Nat : x < y => <<x, y>> \in R
  BY DEF OpToRel
<1> HIDE DEF R
<1>3. PICK m \in ms : \A n \in ms : ~ (<<n, m>> \in R)
  BY <1>1, WFMin
<1>4. ASSUME NEW n \in ms
      PROVE  m <= n
  <2>1. m \in Nat /\ n \in Nat /\ ~(n < m)
    BY <1>2, <1>3
  <2>2. QED
    BY <2>1
<1>5. QED
  BY <1>4

\* There is an oldest of the matches that wait.
LEMMA OldestWaits ==
  ASSUME NEW p, NEW s, Submissions, API!Waiting(p, s) # {}
  PROVE  API!Oldest(API!Waiting(p, s)) \in API!Waiting(p, s)
<1> DEFINE ms == API!Waiting(p, s)
<1>1. ms \subseteq Nat
  BY IngestionAssumption DEF API!Waiting, Submissions
<1> HIDE DEF ms
<1>2. PICK m \in ms : \A n \in ms : m <= n
  BY <1>1, LeastExists DEF ms
<1>3. QED
  BY <1>2 DEF API!Oldest, ms

\* The rounds that a run is for wait for its song.
LEMMA FindTargetsKeeps ==
  ASSUME Inv, API!FindTargets, UNCHANGED Behind
  PROVE  Inv'
<1> DEFINE s == job.completion.song
           runs == job.runs
           waiting == {x \in runs : API!Waiting(x[1], s) # {}}
           targets == {<<API!Oldest(API!Waiting(r[1], s)), r[1], r[2]>> : r \in waiting}
           S == {x[2] : x \in read}
<1>1. /\ job.at = "targets"
      /\ job' = [job EXCEPT !.at = "apply", !.targets = targets]
      /\ UNCHANGED <<completions, recorded, active, standing>>
  BY DEF API!FindTargets
<1>2. UNCHANGED <<bridgeVars, cabinetVars, link, reader, posts, read, sessionVars, upsets>>
  BY DEF Behind, readerVars
<1>3. /\ job \in [ completion : S \cup {None}, at : {"idle", "record", "targets", "apply"},
                   runs : SUBSET (Player \X Result),
                   targets : SUBSET (Match \X Player \X Result) ]
      /\ job.completion \in S /\ IsRecorded(job.completion)
      /\ \A r \in runs : <<r[1], s, r[2]>> \in recorded
  BY <1>1 DEF Inv, Submissions
<1>4. \A r \in waiting : API!Oldest(API!Waiting(r[1], s)) \in Match
                         /\ RoundSong[API!Oldest(API!Waiting(r[1], s))] = s
  <2> SUFFICES ASSUME NEW r \in waiting
               PROVE  API!Oldest(API!Waiting(r[1], s)) \in Match
                      /\ RoundSong[API!Oldest(API!Waiting(r[1], s))] = s
    OBVIOUS
  <2>1. API!Oldest(API!Waiting(r[1], s)) \in API!Waiting(r[1], s)
    BY OldestWaits DEF Inv
  <2>2. active \subseteq Match
    BY DEF Inv, Submissions
  <2>3. QED
    BY <2>1, <2>2 DEF API!Waiting
<1>5. /\ targets \subseteq Match \X Player \X Result
      /\ \A t \in targets : <<t[2], RoundSong[t[1]], t[3]>> \in recorded
  <2> SUFFICES ASSUME NEW r \in waiting
               PROVE  LET t == <<API!Oldest(API!Waiting(r[1], s)), r[1], r[2]>>
                      IN  t \in Match \X Player \X Result
                          /\ <<t[2], RoundSong[t[1]], t[3]>> \in recorded
    OBVIOUS
  <2>1. r \in Player \X Result /\ <<r[1], s, r[2]>> \in recorded
    BY <1>3
  <2>2. QED
    BY <1>4, <2>1
<1> HIDE DEF targets
<1>6. /\ job' \in [ completion : S \cup {None}, at : {"idle", "record", "targets", "apply"},
                    runs : SUBSET (Player \X Result),
                    targets : SUBSET (Match \X Player \X Result) ]
      /\ job'.at = "apply" /\ job'.runs = runs /\ job'.targets = targets
      /\ job'.completion = job.completion
  BY <1>1, <1>3, <1>5
<1>7. \A x : IsRecorded(x) => IsRecorded(x)'
  BY <1>1 DEF IsRecorded
<1>8. Submissions'
  BY <1>1, <1>2, <1>3, <1>5, <1>6, <1>7 DEF Inv, Submissions
<1>9. Delivery'
  BY <1>1, <1>2, <1>7 DEF Inv, Delivery
<1>10. QED
  BY <1>2, <1>8, <1>9, ApiKeeps DEF Inv, Reads

\* A match takes what was found for it.
LEMMA AppliedIs ==
  ASSUME Inv, NEW m \in Match, API!ApplyTo(m)
  PROVE  /\ standing' \in [Match -> [Player -> Result \cup {None, Typed}]]
         /\ \A n \in Match, p \in Player :
              \/ standing'[n][p] = standing[n][p]
              \/ \E t \in job.targets : t[1] = n /\ t[2] = p /\ standing'[n][p] = t[3]
<1> DEFINE found(p) == CHOOSE t \in job.targets : t[1] = m /\ t[2] = p
           row == [p \in Player |-> IF \E t \in job.targets : t[1] = m /\ t[2] = p
                                    THEN found(p)[3] ELSE standing[m][p]]
<1>1. /\ standing \in [Match -> [Player -> Result \cup {None, Typed}]]
      /\ job.targets \subseteq Match \X Player \X Result
  BY DEF Inv, Submissions
<1>2. standing' = [standing EXCEPT ![m] = row]
  BY <1>1 DEF API!ApplyTo
<1>3. \A p \in Player : (\E t \in job.targets : t[1] = m /\ t[2] = p) =>
        found(p) \in job.targets /\ found(p)[1] = m /\ found(p)[2] = p
  OBVIOUS
<1> HIDE DEF found
<1>4. \A p \in Player : row[p] \in Result \cup {None, Typed}
                        /\ \/ row[p] = standing[m][p]
                           \/ \E t \in job.targets : t[1] = m /\ t[2] = p /\ row[p] = t[3]
  <2> SUFFICES ASSUME NEW p \in Player
               PROVE  /\ row[p] \in Result \cup {None, Typed}
                      /\ \/ row[p] = standing[m][p]
                         \/ \E t \in job.targets : t[1] = m /\ t[2] = p /\ row[p] = t[3]
    OBVIOUS
  <2>1. CASE \E t \in job.targets : t[1] = m /\ t[2] = p
    <3>1. row[p] = found(p)[3]
      BY <2>1
    <3>2. found(p) \in job.targets /\ found(p)[1] = m /\ found(p)[2] = p
      BY <1>3, <2>1
    <3>3. found(p)[3] \in Result
      BY <1>1, <3>2
    <3>4. QED
      BY <3>1, <3>2, <3>3
  <2>2. CASE ~(\E t \in job.targets : t[1] = m /\ t[2] = p)
    BY <1>1, <2>2
  <2>3. QED
    BY <2>1, <2>2
<1>5. row \in [Player -> Result \cup {None, Typed}]
  BY <1>4
<1> HIDE DEF row
<1>6. QED
  BY <1>1, <1>2, <1>4, <1>5

LEMMA ApplyToKeeps ==
  ASSUME Inv, NEW m \in Match, API!ApplyTo(m), UNCHANGED Behind
  PROVE  Inv'
<1> DEFINE S == {x[2] : x \in read}
           rest == {t \in job.targets : t[1] # m}
<1>1. /\ job.at = "apply"
      /\ job' = [job EXCEPT !.targets = rest]
      /\ UNCHANGED <<completions, recorded, active>>
  BY DEF API!ApplyTo, Inv, Submissions
<1>2. UNCHANGED <<bridgeVars, cabinetVars, link, reader, posts, read, sessionVars, upsets>>
  BY DEF Behind, readerVars
<1>3. /\ job \in [ completion : S \cup {None}, at : {"idle", "record", "targets", "apply"},
                   runs : SUBSET (Player \X Result),
                   targets : SUBSET (Match \X Player \X Result) ]
  BY DEF Inv, Submissions
<1>4. rest \subseteq job.targets
  OBVIOUS
<1> HIDE DEF rest
<1>5. /\ job' \in [ completion : S \cup {None}, at : {"idle", "record", "targets", "apply"},
                    runs : SUBSET (Player \X Result),
                    targets : SUBSET (Match \X Player \X Result) ]
      /\ job'.at = "apply" /\ job'.runs = job.runs /\ job'.targets = rest
      /\ job'.completion = job.completion
  BY <1>1, <1>3, <1>4
<1>6. \A x : IsRecorded(x) => IsRecorded(x)'
  BY <1>1 DEF IsRecorded
<1>7. standing' \in [Match -> [Player -> Result \cup {None, Typed}]]
  BY AppliedIs
<1>8. Submissions'
  BY <1>1, <1>2, <1>4, <1>5, <1>6, <1>7 DEF Inv, Submissions
<1>9. Delivery'
  BY <1>1, <1>2, <1>5, <1>6 DEF Inv, Delivery
<1>10. QED
  BY <1>2, <1>8, <1>9, ApiKeeps DEF Inv, Reads

\* A name is known once its completion is written, and forgotten in a crash.
LEMMA SubmittedKeeps ==
  ASSUME Inv, API!Remember \/ (API!ApiCrash /\ upsets' = upsets + 1),
         UNCHANGED <<bridgeVars, cabinetVars, readerVars, sessionVars, finals>>,
         upsets' \in {upsets, upsets + 1}
  PROVE  Inv'
<1>1. UNCHANGED <<bridgeVars, cabinetVars, link, reader, posts, read, sessionVars>>
  BY DEF readerVars
<1>2. /\ job' = API!Idle /\ UNCHANGED <<recorded, active, standing>>
      /\ \/ job.at = "apply" /\ completions' = completions \cup {job.completion.id}
         \/ completions' = {} /\ upsets' = upsets + 1
  BY DEF API!Remember, API!ApiCrash
<1>3. \A x : IsRecorded(x) => IsRecorded(x)'
  BY <1>2 DEF IsRecorded
<1>4. Submissions'
  BY <1>1, <1>2 DEF Inv, Submissions, API!Idle
<1>5. Delivery'
  <2>1. job.at = "apply" =>
          \E c \in read : c[2].id = job.completion.id /\ IsRecorded(c[2])
    BY DEF Inv, Submissions
  <2>2. \A id \in completions' : \E c \in read : c[2].id = id /\ IsRecorded(c[2])'
    BY <1>2, <1>3, <2>1 DEF Inv, Delivery
  <2>3. upsets' = 0 => upsets = 0 /\ job.at = "apply"
    BY <1>2 DEF Inv, Delivery
  <2>4. QED
    BY <1>1, <1>2, <1>3, <2>2, <2>3 DEF Inv, Delivery
<1>6. QED
  BY <1>1, <1>4, <1>5, ApiKeeps DEF Inv, Reads

LEMMA OperateKeeps ==
  ASSUME Inv, Operate
  PROVE  Inv'
<1>1. UNCHANGED <<bridgeVars, cabinetVars, link, reader, posts, read, sessionVars>>
  BY DEF Operate, readerVars
<1>2. /\ UNCHANGED <<job, completions, recorded>>
      /\ upsets' = upsets + 1
      /\ standing' \in [Match -> [Player -> Result \cup {None, Typed}]]
      /\ active' \subseteq Match
  <2>1. CASE \E m \in Match, p \in Player : API!TypeStanding(m, p) \/ API!RemoveStanding(m, p)
    BY <2>1 DEF Operate, API!TypeStanding, API!RemoveStanding, Inv, Submissions
  <2>2. CASE \E m \in Match : API!Deactivate(m)
    BY <2>2 DEF Operate, API!Deactivate, Inv, Submissions
  <2>3. QED
    BY <2>1, <2>2 DEF Operate
<1>3. \A x : IsRecorded(x) => IsRecorded(x)'
  BY <1>2 DEF IsRecorded
<1>4. Submissions'
  BY <1>1, <1>2, <1>3 DEF Inv, Submissions
<1>5. Delivery'
  BY <1>1, <1>2, <1>3 DEF Inv, Delivery
<1>6. QED
  BY <1>1, <1>4, <1>5, ApiKeeps DEF Inv, Reads

\* The cabinets.
LEMMA SelectCabinets ==
  ASSUME Cabinets(cabinet), NEW a \in Address, NEW s \in Song, NEW names \in Line(a),
         Select(a, s, names)
  PROVE  Cabinets(cabinet')
<1> DEFINE r(seat) == [song |-> s, player |-> names[seat], phase |-> "menu", final |-> None]
<1>1. cabinet' = [seat \in Seat |-> IF seat \in SeatsOf(a) THEN r(seat) ELSE cabinet[seat]]
  BY DEF Select
<1>2. names \in [SeatsOf(a) -> Player]
  BY DEF Line
<1>3. \A seat \in SeatsOf(a) : r(seat) \in CabinetRecord /\ r(seat).player # None
                               /\ r(seat).phase = "menu"
  BY <1>2, BridgeAssumption DEF CabinetRecord
<1> HIDE DEF r
<1>4. QED
  BY <1>1, <1>3 DEF Cabinets

LEMMA BeginCabinets ==
  ASSUME Cabinets(cabinet), NEW a \in Address, Begin(a)
  PROVE  /\ Cabinets(cabinet')
         /\ \A seat \in SeatsOf(a) : cabinet[seat].song \in Song
<1> DEFINE r(seat) == [cabinet[seat] EXCEPT !.phase = "playing", !.final = None]
<1>1. cabinet' = [seat \in Seat |-> IF seat \in SeatsOf(a) THEN r(seat) ELSE cabinet[seat]]
  BY DEF Begin
<1>2. \A seat \in SeatsOf(a) :
        seat \in Seat /\ cabinet[seat] \in CabinetRecord /\ cabinet[seat].song # None
  BY DEF Begin, SeatsOf, Cabinets
<1>3. \A seat \in SeatsOf(a) :
        /\ r(seat) \in CabinetRecord
        /\ r(seat).song = cabinet[seat].song /\ r(seat).player = cabinet[seat].player
        /\ r(seat).phase = "playing"
  BY <1>2 DEF CabinetRecord
<1> HIDE DEF r
<1>4. Cabinets(cabinet')
  BY <1>1, <1>2, <1>3 DEF Cabinets
<1>5. QED
  BY <1>2, <1>4 DEF CabinetRecord

\* Who plays, by name and song.
LEMMA PlayerAt ==
  ASSUME Cabinets(cabinet), NEW seat \in Seat, cabinet[seat].phase # "menu"
  PROVE  cabinet[seat].song \in Song /\ cabinet[seat].player \in Player
  BY DEF Cabinets, CabinetRecord

LEMMA PhaseCabinets ==
  ASSUME Cabinets(cabinet), NEW seat \in Seat, cabinet[seat].phase # "menu",
         NEW phase \in {"menu", "done", "repeated"}, NEW final \in Final \cup {None},
         phase = "done" => final # None,
         cabinet' = [cabinet EXCEPT ![seat].phase = phase, ![seat].final = final]
  PROVE  Cabinets(cabinet')
<1> DEFINE r == [cabinet[seat] EXCEPT !.phase = phase, !.final = final]
<1>1. cabinet[seat] \in CabinetRecord /\ cabinet \in [Seat -> CabinetRecord]
  BY DEF Cabinets
<1>2. cabinet' = [cabinet EXCEPT ![seat] = r]
  BY <1>1
<1>3. /\ r \in CabinetRecord
      /\ r.song = cabinet[seat].song /\ r.player = cabinet[seat].player
      /\ r.phase = phase /\ r.final = final
  BY <1>1 DEF CabinetRecord
<1> HIDE DEF r
<1>4. QED
  BY <1>1, <1>2, <1>3 DEF Cabinets

\* A datagram is handled, or it is lost.
LEMMA HandledKeeps ==
  ASSUME Inv, NEW p, Moves(Bridge, p.bridge), Plain(p.screens), Handled(p),
         UNCHANGED apiVars, upsets' \in {upsets, upsets + 1}, Cabinets(cabinet')
  PROVE  Inv'
  BY HandledPasses, PassesKeeps DEF Inv, Moves

LEMMA BroadcastKeeps ==
  ASSUME Inv, NEW p, Moves(Bridge, p.bridge), Plain(p.screens), Broadcast(p),
         UNCHANGED apiVars, Cabinets(cabinet')
  PROVE  Inv'
<1>1. CASE Handled(p) /\ UNCHANGED upsets
  BY <1>1, HandledKeeps
<1>2. CASE Lost
  <2>1. /\ UNCHANGED <<bridgeVars, sessionVars, apiVars, read>>
        /\ link' = link /\ reader' = reader /\ posts' = posts /\ upsets' = upsets + 1
    BY <1>2 DEF Lost, readerVars
  <2>2. link \in {"up", "down"} /\ posts \in Seq({c[2] : c \in read})
    BY DEF Inv, Reads
  <2>3. QED
    BY <2>1, <2>2, QuietKeeps
<1>3. QED
  BY <1>1, <1>2 DEF Broadcast

LEMMA BridgeSettled == Inv => Settled(Bridge)
  BY DEF Inv

LEMMA CabinetsKeep ==
  ASSUME Inv,
         \/ \E a \in Address, s \in Song : \E names \in Line(a) : SelectSong(a, s, names)
         \/ \E a \in Address : BeginSong(a)
         \/ \E seat \in Seat : LiveScore(seat) \/ RepeatFinal(seat) \/ SkipSong(seat)
         \/ \E seat \in Seat, score \in Final : FinalScore(seat, score)
  PROVE  Inv'
<1>1. Settled(Bridge) /\ Cabinets(cabinet)
  BY DEF Inv
<1>2. ASSUME NEW a \in Address, NEW s \in Song, NEW names \in Line(a), SelectSong(a, s, names)
      PROVE  Inv'
  <2>1. Cabinets(cabinet')
    BY <1>1, <1>2, SelectCabinets DEF SelectSong
  <2>2. QED
    BY <1>1, <1>2, <2>1, OnSongMoves, BroadcastKeeps DEF SelectSong
<1>3. ASSUME NEW a \in Address, BeginSong(a)
      PROVE  Inv'
  <2>1. Cabinets(cabinet') /\ \A seat \in SeatsOf(a) : cabinet[seat].song \in Song
    BY <1>1, <1>3, BeginCabinets DEF BeginSong
  <2>2. PICK seat \in SeatsOf(a) : Broadcast(OnStart(Bridge, a, cabinet[seat].song))
    BY <1>3 DEF BeginSong
  <2>3. /\ Moves(Bridge, OnStart(Bridge, a, cabinet[seat].song).bridge)
        /\ Plain(OnStart(Bridge, a, cabinet[seat].song).screens)
    BY <1>1, <2>1, OnStartMoves
  <2>4. QED
    BY <1>3, <2>1, <2>2, <2>3, BroadcastKeeps DEF BeginSong
<1>4. ASSUME NEW seat \in Seat, LiveScore(seat)
      PROVE  Inv'
  <2>1. cabinet[seat].song \in Song /\ cabinet[seat].player \in Player
    BY <1>1, <1>4, PlayerAt DEF LiveScore
  <2> DEFINE p == OnScore(Bridge, seat, cabinet[seat].player, cabinet[seat].song)
  <2>2. Moves(Bridge, p.bridge) /\ Plain(p.screens)
    BY <1>1, <2>1, OnScoreMoves
  <2>3. Handled(p) /\ UNCHANGED apiVars /\ cabinet' = cabinet /\ upsets' = upsets
    BY <1>4 DEF LiveScore, cabinetVars
  <2> HIDE DEF p
  <2>4. QED
    BY <1>1, <2>2, <2>3, HandledKeeps
<1>5. ASSUME NEW seat \in Seat, RepeatFinal(seat)
      PROVE  Inv'
  <2>1. /\ cabinet[seat].song \in Song /\ cabinet[seat].player \in Player
        /\ cabinet[seat].final \in Final /\ cabinet[seat].phase = "done"
    BY <1>1, <1>5, PlayerAt DEF RepeatFinal, Cabinets, CabinetRecord
  <2> DEFINE p == OnFinalScore(Bridge, seat, cabinet[seat].player, cabinet[seat].song,
                               cabinet[seat].final)
  <2>2. Moves(Bridge, p.bridge) /\ Plain(p.screens)
    BY <1>1, <2>1, OnFinalScoreMoves
  <2>3. Handled(p) /\ UNCHANGED apiVars /\ upsets' = upsets
    BY <1>5 DEF RepeatFinal
  <2>4. Cabinets(cabinet')
    <3>1. cabinet' = [cabinet EXCEPT ![seat].phase = "repeated", ![seat].final = cabinet[seat].final]
      BY <1>1, <1>5 DEF RepeatFinal, Cabinets, CabinetRecord
    <3>2. QED
      BY <1>1, <2>1, <3>1, PhaseCabinets
  <2> HIDE DEF p
  <2>5. QED
    BY <2>2, <2>3, <2>4, HandledKeeps
<1>6. ASSUME NEW seat \in Seat, SkipSong(seat)
      PROVE  Inv'
  <2> DEFINE p == OnSkipped(Bridge, seat, cabinet[seat].song)
  <2>1. Moves(Bridge, p.bridge) /\ Plain(p.screens)
    BY <1>1, OnSkippedMoves
  <2>2. Broadcast(p) /\ UNCHANGED apiVars /\ cabinet[seat].phase = "playing"
    BY <1>6 DEF SkipSong, Skip
  <2>3. Cabinets(cabinet')
    <3>1. cabinet' = [cabinet EXCEPT ![seat].phase = "menu", ![seat].final = cabinet[seat].final]
      BY <1>1, <1>6 DEF SkipSong, Skip, Cabinets, CabinetRecord
    <3>2. cabinet[seat].final \in Final \cup {None}
      BY <1>1 DEF Cabinets, CabinetRecord
    <3>3. QED
      BY <1>1, <2>2, <3>1, <3>2, PhaseCabinets
  <2> HIDE DEF p
  <2>4. QED
    BY <2>1, <2>2, <2>3, BroadcastKeeps
<1>7. ASSUME NEW seat \in Seat, NEW score \in Final, FinalScore(seat, score)
      PROVE  Inv'
  <2>1. /\ cabinet[seat].song \in Song /\ cabinet[seat].player \in Player
        /\ cabinet[seat].phase = "playing"
    BY <1>1, <1>7, PlayerAt DEF FinalScore, Finish
  <2> DEFINE p == OnFinalScore(Bridge, seat, cabinet[seat].player, cabinet[seat].song, score)
  <2>2. Moves(Bridge, p.bridge) /\ Plain(p.screens)
    BY <1>1, <2>1, OnFinalScoreMoves
  <2>3. Broadcast(p) /\ UNCHANGED apiVars
    BY <1>7 DEF FinalScore
  <2>4. Cabinets(cabinet')
    BY <1>1, <1>7, <2>1, BridgeAssumption, PhaseCabinets DEF FinalScore, Finish
  <2> HIDE DEF p
  <2>5. QED
    BY <2>2, <2>3, <2>4, BroadcastKeeps
<1>8. QED
  BY <1>2, <1>3, <1>4, <1>5, <1>6, <1>7

LEMMA FlushKeeps ==
  ASSUME Inv, Flush
  PROVE  Inv'
<1> DEFINE p == Flushed(Bridge)
<1>1. /\ Settled(Bridge) /\ Cabinets(cabinet) /\ flushTimer # "none"
      /\ Handled(p) /\ UNCHANGED apiVars /\ UNCHANGED <<upsets, cabinet>>
  BY DEF Flush, Inv, cabinetVars
<1>2. ~isCompleted
  BY <1>1, BridgeFields DEF Settled
<1>3. \/ Moves(Bridge, p.bridge) /\ Fewer(Bridge, p.bridge) /\ Plain(p.screens)
      \/ Flushes(Bridge, p.bridge) /\ p.screens = <<"ScreenGameplay", "ScreenEvaluation">>
  BY <1>1, FlushedMoves
<1> HIDE DEF p
<1>4. CASE Moves(Bridge, p.bridge) /\ Plain(p.screens)
  BY <1>1, <1>4, HandledKeeps
<1>5. CASE Flushes(Bridge, p.bridge) /\ p.screens = <<"ScreenGameplay", "ScreenEvaluation">>
  <2>1. Concludes(p.bridge)
    BY <1>1, <1>5, HandledConcludes DEF Flushes, Inv
  <2>2. QED
    BY <1>1, <1>2, <1>5, <2>1, ConcludesKeeps
<1>6. QED
  BY <1>3, <1>4, <1>5

LEMMA EvictKeeps ==
  ASSUME Inv, NEW quiet, EvictIdleMachines(quiet)
  PROVE  Inv'
<1> DEFINE p == Evicted(Bridge, quiet)
<1>1. /\ Settled(Bridge) /\ Cabinets(cabinet)
      /\ Handled(p) /\ UNCHANGED apiVars /\ cabinet' = cabinet /\ upsets' = upsets + 1
  BY DEF EvictIdleMachines, Inv, cabinetVars
<1>2. Moves(Bridge, p.bridge) /\ Plain(p.screens)
  BY <1>1, EvictedMoves
<1> HIDE DEF p
<1>3. QED
  BY <1>1, <1>2, HandledKeeps

\* The link is lost, SyncStart restarts, or a post is lost.
LEMMA FaultKeeps ==
  ASSUME Inv, Disconnect \/ SyncStartRestarts \/ PostIsLost
  PROVE  Inv'
<1> DEFINE S == {c[2] : c \in read}
<1>1. /\ Cabinets(cabinet) /\ link \in {"up", "down"} /\ posts \in Seq(S)
  BY DEF Inv, Reads
<1>2. /\ UNCHANGED <<bridgeVars, sessionVars, apiVars, read, cabinet>>
      /\ upsets' = upsets + 1
      /\ link' \in {link, "down"} /\ reader' \in {reader, Reader!NewReader}
      /\ posts' \in {posts, <<>>} \/ (posts # <<>> /\ posts' = Tail(posts))
  BY DEF Disconnect, SyncStartRestarts, PostIsLost, cabinetVars
<1>3. posts' \in Seq(S)
  BY <1>1, <1>2, HeadAndTail, EmptySeq
<1>4. QED
  BY <1>1, <1>2, <1>3, QuietKeeps

LEMMA ApiStepKeeps ==
  ASSUME Inv, Ingest \/ ApiRestarts
  PROVE  Inv'
<1>1. CASE Ingest
  <2>1. UNCHANGED Behind
    BY <1>1 DEF Ingest, Behind
  <2>2. CASE API!Remember
    BY <2>1, <2>2, SubmittedKeeps DEF Behind
  <2>3. QED
    BY <1>1, <2>1, <2>2, RecordRunsKeeps, FindTargetsKeeps, ApplyToKeeps DEF Ingest
<1>2. CASE ApiRestarts
  BY <1>2, SubmittedKeeps DEF ApiRestarts
<1>3. QED
  BY <1>1, <1>2

LEMMA InitHolds == Init => Inv
<1> SUFFICES ASSUME Init
             PROVE  Inv
  OBVIOUS
<1>1. /\ cabinet = [seat \in Seat |-> [song |-> None, player |-> None, phase |-> "menu", final |-> None]]
      /\ machines = {} /\ machineSong = [a \in Address |-> None]
      /\ run = [seat \in Seat |-> None]
      /\ song = None /\ isCompleted = FALSE /\ flushTimer = "none"
      /\ current = [screen |-> "none", song |-> None, players |-> [seat \in Seat |-> None]]
      /\ job = [completion |-> None, at |-> "idle", runs |-> {}, targets |-> {}]
      /\ completions = {} /\ recorded = {} /\ active = Match
      /\ standing = [m \in Match |-> [p \in Player |-> None]]
      /\ link = "up" /\ reader = Reader!NewReader /\ posts = <<>>
      /\ session = 0 /\ told = 0 /\ read = {} /\ upsets = 0
  BY DEF Init, BridgeInit, Nobody, API!IngestionInit, API!Idle
<1>2. Cabinets(cabinet)
  BY <1>1 DEF Cabinets, CabinetRecord
<1>3. Settled(Bridge)
  <2>1. Bridge \in BridgeRecord
    BY <1>1 DEF Bridge, BridgeRecord
  <2>2. QED
    BY <1>1, <2>1, BridgeFields DEF Settled
<1>4. Reads
  <2>1. Remembers(reader)
    BY <1>1 DEF Remembers, Reader!NewReader
  <2>2. current \in SnapshotRecord
    BY <1>1 DEF SnapshotRecord, Scores, Screen
  <2>3. QED
    BY <1>1, <2>1, <2>2, EmptySeq DEF Reads, Remembers
<1>5. Once
  BY <1>1 DEF Once, CompletesOnce
<1>6. Submissions
  BY <1>1 DEF Submissions
<1>7. Delivery
  BY <1>1 DEF Delivery
<1>8. QED
  BY <1>2, <1>3, <1>4, <1>5, <1>6, <1>7 DEF Inv

LEMMA NextKeeps == Inv /\ [Next]_vars => Inv'
<1> SUFFICES ASSUME Inv, [Next]_vars
             PROVE  Inv'
  OBVIOUS
<1>1. CASE Next
  BY <1>1, CabinetsKeep, FlushKeeps, EvictKeeps, FaultKeeps, ReconnectKeeps, PostKeeps,
     ApiStepKeeps, OperateKeeps DEF Next
<1>2. CASE UNCHANGED vars
  <2>1. /\ UNCHANGED <<bridgeVars, sessionVars, apiVars, read>>
        /\ cabinet' = cabinet /\ link' = link /\ reader' = reader /\ posts' = posts
        /\ upsets' = upsets
    BY <1>2 DEF vars, cabinetVars, readerVars
  <2>2. Cabinets(cabinet) /\ link \in {"up", "down"} /\ posts \in Seq({c[2] : c \in read})
    BY DEF Inv, Reads
  <2>3. QED
    BY <2>1, <2>2, QuietKeeps
<1>3. QED
  BY <1>1, <1>2

LEMMA Invariant == Spec => []Inv
<1>1. QED
  BY InitHolds, NextKeeps, PTL DEF Spec

-----------------------------------------------------------------------------
(***************************************************************************)
(* What the invariant says.                                                *)
(***************************************************************************)

\* Every part of the bridge, the reader and the API keeps its type.
THEOREM TypeCorrect == Spec => []TypeOK
<1>1. Inv => TypeOK
  <2> SUFFICES ASSUME Inv
               PROVE  TypeOK
    OBVIOUS
  <2>1. Settled(Bridge) /\ Bridge \in BridgeRecord
    BY DEF Inv, Settled
  <2>2. /\ machines \subseteq Address
        /\ machineSong \in [Address -> Song \cup {None}]
        /\ run \in [Seat -> Run \cup {None}]
        /\ song \in Song \cup {None} /\ isCompleted \in BOOLEAN
        /\ flushTimer \in {"none", "grace", "timeout"}
    BY <2>1 DEF BridgeRecord, Bridge
  <2>3. \A a \in Address \ machines : machineSong[a] = None /\ \A seat \in SeatsOf(a) : run[seat] = None
    BY <2>1, BridgeFields DEF Settled, SeatsOf, InSession
  <2>4. cabinet \in [Seat -> [song : Song \cup {None}, player : Player \cup {None},
                       phase : {"menu", "playing", "done", "repeated"}, final : Final \cup {None}]]
    BY DEF Inv, Cabinets, CabinetRecord
  <2>5. /\ current.screen \in Screen /\ link \in {"up", "down"}
        /\ recorded \subseteq Player \X Song \X Result /\ active \subseteq Match
        /\ standing \in [Match -> [Player -> Result \cup {None, Typed}]]
    BY DEF Inv, Reads, Submissions, SnapshotRecord
  <2>6. QED
    BY <2>2, <2>3, <2>4, <2>5 DEF TypeOK
<1>2. QED
  BY <1>1, Invariant, PTL

\* No session of the bridge is read as completed twice, however the link, the
\* service and the cabinets fail (the last snapshot is read again after each
\* reconnection, and a skip after the end publishes another).
THEOREM SessionsCompleteOnce == Spec => []CompletesOnce
<1>1. Inv => CompletesOnce
  BY DEF Inv, Once
<1>2. QED
  BY <1>1, Invariant, PTL

\* A final score in the lobby's song is never left without the timer that will
\* complete the song: skips, machines that go quiet and songs that others select
\* take the score or leave the timer.
THEOREM FinalsAlwaysWait == Spec => []FinalsWaitForFlush
<1>1. Inv => FinalsWaitForFlush
  BY BridgeFields DEF Inv, Settled, SessionPlayers, FinalsWaitForFlush
<1>2. QED
  BY <1>1, Invariant, PTL

\* Without a fault, every run of somebody the tournament knows that the reader
\* found is in the score table once nothing is under way, unless its completion
\* had the name of another.
THEOREM NothingIsEverDropped == Spec => []NothingIsDropped
<1>1. Inv => NothingIsDropped
  <2> SUFFICES ASSUME Inv, posts = <<>>, job.at = "idle", upsets = 0,
                      NEW p \in Roster, NEW s \in Pool, NEW v \in Final,
                      NEW c \in Found(p, s, v)
               PROVE  \/ <<p, s, v>> \in recorded
                      \/ \E x \in Found(p, s, v), d \in read : x # d /\ x[2].id = d[2].id
    BY DEF NothingIsDropped
  <2>1. PICK seat \in Seat : c[2].scores[seat] = [player |-> p, exScore |-> v]
    BY DEF Found
  <2>2. c \in read /\ c[2].song = s
    BY DEF Found
  <2>3. ToSet(posts) = {}
    BY DEF ToSet
  <2>4. IsRecorded(c[2]) \/ \E d \in read : c # d /\ d[2].id = c[2].id
    BY <2>2, <2>3 DEF Inv, Delivery
  <2>5. CASE IsRecorded(c[2])
    <3>1. c[2].scores[seat] # None
      <4>1. p \in Player /\ v \in Score
        BY IngestionAssumption DEF Score
      <4>2. [player |-> p, exScore |-> v] \in [player : Player, exScore : Score]
        BY <4>1
      <4>3. QED
        BY <2>1, <4>2, BridgeAssumption
    <3>2. QED
      BY <2>1, <2>2, <2>5, <3>1 DEF IsRecorded
  <2>6. QED
    BY <2>4, <2>5
<1>2. QED
  BY <1>1, Invariant, PTL

-----------------------------------------------------------------------------
(***************************************************************************)
(* That a standing a lobby wrote is a final score: when no cabinet plays   *)
(* on while its last run waits for a flush, whatever is published, read,   *)
(* submitted and applied is a score that its player finished that song     *)
(* with.                                                                   *)
(***************************************************************************)

\* A run is not over, or is the final score of its player in the lobby's song.
Earned(b, F) ==
  \A seat \in Seat : b.run[seat] # None =>
    IF b.run[seat].final = None THEN b.run[seat].exScore = Half
    ELSE /\ b.run[seat].exScore = b.run[seat].final
         /\ <<b.run[seat].player, b.song, b.run[seat].final>> \in F

\* Who plays has no final score in a song that is not completed.
Fresh(c, b) ==
  \A seat \in Seat : c[seat].phase = "playing" /\ b.run[seat] # None /\ b.run[seat].final # None
                     => b.isCompleted

\* What a cabinet may repeat it has finished with.
Ended(c, F) ==
  \A seat \in Seat : c[seat].phase = "done" =>
    <<c[seat].player, c[seat].song, c[seat].final>> \in F

AreFinals(s, scores, F) ==
  \A seat \in Seat : scores[seat] # None => <<scores[seat].player, s, scores[seat].exScore>> \in F

\* What the bridge says, and the reader found.
Honest ==
  /\ Earned(Bridge, finals)
  /\ Fresh(cabinet, Bridge)
  /\ Ended(cabinet, finals)
  /\ current.screen = "ScreenEvaluation" => AreFinals(current.song, current.players, finals)
  /\ \A c \in read : AreFinals(c[2].song, c[2].scores, finals)

\* What the API makes of it.
Written ==
  /\ \A r \in job.runs : <<r[1], job.completion.song, r[2]>> \in finals
  /\ \A t \in job.targets : <<t[2], RoundSong[t[1]], t[3]>> \in finals
  /\ StandingsAreFinals

Truth == Honest /\ Written

-----------------------------------------------------------------------------
(***************************************************************************)
(* The bridge and the reader.                                              *)
(***************************************************************************)

LEMMA FewerEarned ==
  ASSUME NEW b, NEW c, NEW F, NEW G, Earned(b, F), F \subseteq G, Fewer(b, c)
  PROVE  Earned(c, G)
  BY DEF Earned, Fewer, Keeps

LEMMA FewerFresh ==
  ASSUME NEW d, NEW b, NEW c, Fresh(d, b), Fewer(b, c)
  PROVE  Fresh(d, c)
  BY DEF Fresh, Fewer, Keeps

\* A handler that completes nothing, of whatever runs it leaves.
LEMMA PassesHonest ==
  ASSUME Honest, NEW c, Passes(c), finals \subseteq finals',
         Earned(c, finals'), Fresh(cabinet', c), Ended(cabinet', finals')
  PROVE  Honest'
<1>1. Bridge' = c /\ read' = read
  BY DEF Passes, Told
<1>2. \A s, scores : AreFinals(s, scores, finals) => AreFinals(s, scores, finals')
  BY DEF AreFinals
<1>3. current'.screen = "ScreenEvaluation" => AreFinals(current'.song, current'.players, finals')
  BY <1>2 DEF Passes, Honest
<1>4. \A d \in read' : AreFinals(d[2].song, d[2].scores, finals')
  BY <1>1, <1>2 DEF Honest
<1>5. QED
  BY <1>1, <1>3, <1>4 DEF Honest

LEMMA HandledHonest ==
  ASSUME Inv, Honest, NEW p, Moves(Bridge, p.bridge), Plain(p.screens), Handled(p),
         finals \subseteq finals', Earned(p.bridge, finals'), Fresh(cabinet', p.bridge),
         Ended(cabinet', finals')
  PROVE  Honest'
<1>1. Passes(p.bridge)
  BY HandledPasses DEF Inv, Moves
<1>2. QED
  BY <1>1, PassesHonest

\* A datagram that only takes runs away, or that is lost.
LEMMA BroadcastHonest ==
  ASSUME Inv, Honest, NEW p, Moves(Bridge, p.bridge), Fewer(Bridge, p.bridge),
         Plain(p.screens), Broadcast(p),
         finals' = finals, Fresh(cabinet', Bridge), Ended(cabinet', finals)
  PROVE  Honest'
<1>1. CASE Handled(p)
  <2>1. Earned(p.bridge, finals') /\ Fresh(cabinet', p.bridge)
    BY FewerEarned, FewerFresh DEF Honest
  <2>2. QED
    BY <1>1, <2>1, HandledHonest
<1>2. CASE Lost
  <2>1. UNCHANGED <<current, read>> /\ Bridge' = Bridge
    BY <1>2 DEF Lost, bridgeVars, readerVars, Bridge
  <2>2. QED
    BY <2>1 DEF Honest
<1>3. QED
  BY <1>1, <1>2 DEF Broadcast

\* The run of a seat is upserted: nobody else who plays has a final score.
LEMMA UpsertsHonest ==
  ASSUME NEW b, NEW c, NEW acting \in Seat, NEW s, Upserts(b, c, acting, s),
         NEW F, NEW G, Earned(b, F), F \subseteq G, NEW d, Fresh(d, b),
         c.run[acting].final = None => c.run[acting].exScore = Half,
         c.run[acting].final # None =>
           /\ c.run[acting].exScore = c.run[acting].final
           /\ <<c.run[acting].player, s, c.run[acting].final>> \in G
           /\ d[acting].phase # "playing"
  PROVE  Earned(c, G) /\ Fresh(d, c)
<1>1. c.song = s /\ c.run[acting] # None
  BY DEF Upserts
<1>2. ASSUME NEW seat \in Seat \ {acting}, c.run[seat] # None
      PROVE  c.run[seat] = b.run[seat] /\ b.song = s /\ ~b.isCompleted
  BY <1>2 DEF Upserts
<1>3. Earned(c, G)
  <2> SUFFICES ASSUME NEW seat \in Seat, c.run[seat] # None
               PROVE  IF c.run[seat].final = None THEN c.run[seat].exScore = Half
                      ELSE /\ c.run[seat].exScore = c.run[seat].final
                           /\ <<c.run[seat].player, c.song, c.run[seat].final>> \in G
    BY DEF Earned
  <2>1. CASE seat = acting
    BY <1>1, <2>1
  <2>2. CASE seat # acting
    <3>1. c.run[seat] = b.run[seat] /\ c.song = b.song
      BY <1>1, <1>2, <2>2
    <3>2. QED
      BY <3>1 DEF Earned
  <2>3. QED
    BY <2>1, <2>2
<1>4. Fresh(d, c)
  <2> SUFFICES ASSUME NEW seat \in Seat, d[seat].phase = "playing", c.run[seat] # None,
                      c.run[seat].final # None
               PROVE  FALSE
    BY DEF Fresh
  <2>1. seat # acting
    OBVIOUS
  <2>2. c.run[seat] = b.run[seat] /\ ~b.isCompleted
    BY <1>2, <2>1
  <2>3. QED
    BY <2>2 DEF Fresh
<1>5. QED
  BY <1>3, <1>4


\* A song that was completed is of final scores, and so is what is read of it.
LEMMA HeardFinals ==
  ASSUME NEW y, AreFinals(y.song, y.players, finals'),
         \A c \in read : AreFinals(c[2].song, c[2].scores, finals'),
         UNCHANGED <<posts, read>> \/ Hears(y)
  PROVE  \A c \in read' : AreFinals(c[2].song, c[2].scores, finals')
<1> DEFINE e == Completion(y)
           new == <<told', e>>
<1>1. e.song = y.song /\ e.scores = y.players
  BY DEF Completion
<1>2. read' = read \/ read' = read \cup {new}
  BY DEF Hears, Completed
<1>3. new[2] = e
  OBVIOUS
<1> HIDE DEF e, new
<1>4. AreFinals(new[2].song, new[2].scores, finals')
  BY <1>1, <1>3
<1>5. QED
  BY <1>2, <1>4

LEMMA ConcludesHonest ==
  ASSUME Inv, Honest, NEW c, Flushes(Bridge, c), Concludes(c), UNCHANGED <<finals, cabinet>>
  PROVE  Honest'
<1> DEFINE y == Snapshot(c, "ScreenEvaluation")
<1>1. Bridge' = c /\ current' = y
  BY DEF Concludes, Told
<1>2. \A seat \in Seat : c.run[seat] # None =>
        /\ c.run[seat].final # None /\ c.run[seat].exScore = c.run[seat].final
        /\ <<c.run[seat].player, c.song, c.run[seat].final>> \in finals
  BY DEF Flushes, Honest, Earned
<1>3. /\ y.song = c.song
      /\ \A seat \in Seat : y.players[seat] # None =>
           /\ c.run[seat] # None
           /\ y.players[seat].player = c.run[seat].player
           /\ y.players[seat].exScore = c.run[seat].exScore
  BY SnapshotShape DEF Flushes, Screen
<1> HIDE DEF y
<1>4. AreFinals(y.song, y.players, finals')
  <2> SUFFICES ASSUME NEW seat \in Seat, y.players[seat] # None
               PROVE  <<y.players[seat].player, y.song, y.players[seat].exScore>> \in finals
    BY DEF AreFinals
  <2>1. /\ <<c.run[seat].player, c.song, c.run[seat].final>> \in finals
        /\ c.run[seat].exScore = c.run[seat].final
        /\ y.players[seat].player = c.run[seat].player
        /\ y.players[seat].exScore = c.run[seat].exScore
    BY <1>2, <1>3
  <2>2. QED
    BY <1>3, <2>1
<1>5. Earned(c, finals') /\ Fresh(cabinet', c) /\ Ended(cabinet', finals')
  BY <1>2 DEF Earned, Fresh, Flushes, Honest
<1>6. UNCHANGED <<posts, read>> \/ Hears(y)
  BY <1>1 DEF Concludes
<1>7. \A d \in read : AreFinals(d[2].song, d[2].scores, finals')
  BY DEF Honest
<1>8. \A d \in read' : AreFinals(d[2].song, d[2].scores, finals')
  BY <1>4, <1>6, <1>7, HeardFinals
<1>9. QED
  BY <1>1, <1>4, <1>5, <1>8 DEF Honest

\* The state that is sent again says no more than it said.
LEMMA ReconnectHonest ==
  ASSUME Inv, Honest, Reconnect
  PROVE  Honest'
<1>1. UNCHANGED <<current, cabinet, finals>> /\ Bridge' = Bridge
  BY DEF Reconnect, bridgeVars, cabinetVars, Bridge
<1>2. current \in SnapshotRecord
  BY DEF Inv, Reads
<1>3. Hears(current)
  BY <1>2, TakesOne DEF Reconnect, Inv
<1>4. \A d \in read' : AreFinals(d[2].song, d[2].scores, finals')
  <2>1. CASE UNCHANGED <<posts, read>>
    BY <1>1, <2>1 DEF Honest
  <2>2. CASE ~UNCHANGED <<posts, read>>
    <3>1. current.screen = "ScreenEvaluation"
      BY <1>3, <2>2 DEF Hears, Completed
    <3>2. AreFinals(current.song, current.players, finals')
      BY <1>1, <3>1 DEF Honest
    <3>3. \A d \in read : AreFinals(d[2].song, d[2].scores, finals')
      BY <1>1 DEF Honest
    <3>4. QED
      BY <1>3, <3>2, <3>3, HeardFinals
  <2>3. QED
    BY <2>1, <2>2
<1>5. QED
  BY <1>1, <1>4 DEF Honest

\* Nothing of the bridge, the cabinets and the reader's finds changes.
LEMMA StillHonest ==
  ASSUME Honest, UNCHANGED <<bridgeVars, cabinet, finals, read>>
  PROVE  Honest'
<1>1. UNCHANGED <<current, cabinet, finals, read>> /\ Bridge' = Bridge
  BY DEF bridgeVars, Bridge
<1>2. QED
  BY <1>1 DEF Honest

-----------------------------------------------------------------------------
(***************************************************************************)
(* The cabinets.                                                           *)
(***************************************************************************)

LEMMA SelectHonest ==
  ASSUME Inv, Honest, NEW a \in Address, NEW s \in Song, NEW names \in Line(a),
         SelectSong(a, s, names)
  PROVE  Honest'
<1>1. \A seat \in Seat : cabinet'[seat] = cabinet[seat] \/ cabinet'[seat].phase = "menu"
  BY DEF SelectSong, Select
<1>2. Fresh(cabinet', Bridge) /\ Ended(cabinet', finals)
  BY <1>1 DEF Honest, Fresh, Ended
<1>3. Settled(Bridge)
  BY DEF Inv
<1>4. QED
  BY <1>2, <1>3, OnSongMoves, BroadcastHonest DEF SelectSong

\* A cabinet that does not play on has no final score in a song that waits.
LEMMA BeginHonest ==
  ASSUME ~Hasty, Inv, Honest, NEW a \in Address, BeginSong(a)
  PROVE  Honest'
<1>1. Settled(Bridge) /\ Cabinets(cabinet)
  BY DEF Inv
<1> DEFINE r(seat) == [cabinet[seat] EXCEPT !.phase = "playing", !.final = None]
<1>2. cabinet' = [seat \in Seat |-> IF seat \in SeatsOf(a) THEN r(seat) ELSE cabinet[seat]]
  BY DEF BeginSong, Begin
<1>3. \A seat \in Seat \cap SeatsOf(a) : r(seat).phase = "playing"
  BY <1>1 DEF Cabinets, CabinetRecord
<1> HIDE DEF r
<1>4. \A seat \in Seat : \/ cabinet'[seat] = cabinet[seat]
                         \/ (seat \in SeatsOf(a) /\ cabinet'[seat].phase = "playing")
  BY <1>2, <1>3
<1>5. Ended(cabinet', finals)
  BY <1>4 DEF Honest, Ended
<1>6. ASSUME NEW seat \in SeatsOf(a), seat \in Seat, run[seat] # None, run[seat].final # None
      PROVE  isCompleted
  <2>1. flushTimer = "none"
    BY <1>6 DEF BeginSong, Begin
  <2>2. QED
    BY <1>1, <1>6, <2>1, BridgeFields DEF Settled
<1>7. Fresh(cabinet', Bridge)
  BY <1>4, <1>6, BridgeFields DEF Honest, Fresh
<1>8. \A seat \in SeatsOf(a) : cabinet[seat].song \in Song
  BY <1>1, BeginCabinets DEF BeginSong
<1>9. PICK seat \in SeatsOf(a) : Broadcast(OnStart(Bridge, a, cabinet[seat].song))
  BY DEF BeginSong
<1> DEFINE p == OnStart(Bridge, a, cabinet[seat].song)
<1>10. Moves(Bridge, p.bridge) /\ Fewer(Bridge, p.bridge) /\ Plain(p.screens)
  BY <1>1, <1>8, OnStartMoves
<1>11. Broadcast(p) /\ finals' = finals
  BY <1>9 DEF BeginSong
<1> HIDE DEF p
<1>12. QED
  BY <1>5, <1>7, <1>10, <1>11, BroadcastHonest

\* Who plays has no final score that a live score could hide.
LEMMA LiveHonest ==
  ASSUME Inv, Honest, NEW seat \in Seat, LiveScore(seat)
  PROVE  Honest'
<1>1. /\ Settled(Bridge) /\ cabinet[seat].song \in Song /\ cabinet[seat].player \in Player
      /\ cabinet[seat].phase = "playing"
  BY PlayerAt DEF Inv, LiveScore
<1> DEFINE s == cabinet[seat].song
           p == OnScore(Bridge, seat, cabinet[seat].player, s)
<1>2. /\ Moves(Bridge, p.bridge) /\ Plain(p.screens)
      /\ \/ Fewer(Bridge, p.bridge)
         \/ /\ Upserts(Bridge, p.bridge, seat, s)
            /\ p.bridge.run[seat].exScore = Half
            /\ p.bridge.run[seat].final # None =>
                 /\ ~Bridge.isCompleted /\ Bridge.run[seat] # None
                 /\ Bridge.run[seat].final # None
  BY <1>1, OnScoreMoves
<1>3. Handled(p) /\ cabinet' = cabinet /\ finals' = finals
  BY DEF LiveScore, cabinetVars
<1> HIDE DEF p, s
<1>4. Earned(Bridge, finals) /\ Fresh(cabinet, Bridge) /\ Ended(cabinet, finals)
  BY DEF Honest
<1>5. Earned(p.bridge, finals) /\ Fresh(cabinet, p.bridge)
  <2>1. CASE Fewer(Bridge, p.bridge)
    BY <1>4, <2>1, FewerEarned, FewerFresh
  <2>2. CASE ~Fewer(Bridge, p.bridge)
    <3>1. p.bridge.run[seat].final = None
      BY <1>1, <1>2, <1>4, <2>2 DEF Fresh
    <3>2. /\ Upserts(Bridge, p.bridge, seat, s) /\ p.bridge.run[seat].exScore = Half
          /\ finals \subseteq finals
      BY <1>2, <2>2
    <3>3. QED
      BY <1>4, <3>1, <3>2, UpsertsHonest
  <2>3. QED
    BY <2>1, <2>2
<1>6. QED
  BY <1>2, <1>3, <1>4, <1>5, HandledHonest

\* The final score that a seat is done with, sent once or again.
LEMMA FinalHonest ==
  ASSUME Inv, Honest, NEW seat \in Seat, NEW name \in Player, NEW s \in Song,
         NEW score \in Final, NEW p, p = OnFinalScore(Bridge, seat, name, s, score), Handled(p),
         finals \subseteq finals', <<name, s, score>> \in finals',
         Fresh(cabinet', Bridge), Ended(cabinet', finals'), cabinet'[seat].phase # "playing"
  PROVE  Honest'
<1>1. Settled(Bridge) /\ Earned(Bridge, finals)
  BY DEF Inv, Honest
<1>2. /\ Moves(Bridge, p.bridge) /\ Plain(p.screens)
      /\ \/ Fewer(Bridge, p.bridge)
         \/ /\ Upserts(Bridge, p.bridge, seat, s)
            /\ p.bridge.run[seat].player = name
            /\ p.bridge.run[seat].exScore = score
            /\ p.bridge.run[seat].final = score
  BY <1>1, OnFinalScoreMoves
<1>3. Earned(p.bridge, finals') /\ Fresh(cabinet', p.bridge)
  <2>1. CASE Fewer(Bridge, p.bridge)
    BY <1>1, <2>1, FewerEarned, FewerFresh
  <2>2. CASE ~Fewer(Bridge, p.bridge)
    <3>1. score # None
      BY BridgeAssumption
    <3>2. /\ Upserts(Bridge, p.bridge, seat, s)
          /\ p.bridge.run[seat].final # None
          /\ p.bridge.run[seat].exScore = p.bridge.run[seat].final
          /\ <<p.bridge.run[seat].player, s, p.bridge.run[seat].final>> \in finals'
      BY <1>2, <2>2, <3>1
    <3>3. QED
      BY <1>1, <3>2, UpsertsHonest
  <2>3. QED
    BY <2>1, <2>2
<1>4. QED
  BY <1>2, <1>3, HandledHonest


LEMMA FinalScoreHonest ==
  ASSUME Inv, Honest, NEW seat \in Seat, NEW score \in Final, FinalScore(seat, score)
  PROVE  Honest'
<1> DEFINE name == cabinet[seat].player
           s == cabinet[seat].song
           p == OnFinalScore(Bridge, seat, name, s, score)
<1>1. name \in Player /\ s \in Song /\ Cabinets(cabinet) /\ cabinet[seat].phase = "playing"
  BY PlayerAt DEF Inv, FinalScore, Finish
<1>2. /\ finals' = finals \cup {<<name, s, score>>}
      /\ Broadcast(p)
  BY DEF FinalScore
<1>3. /\ cabinet'[seat].phase = "done" /\ cabinet'[seat].player = name
      /\ cabinet'[seat].song = s /\ cabinet'[seat].final = score
      /\ \A t \in Seat \ {seat} : cabinet'[t] = cabinet[t]
  <2> DEFINE r == [cabinet[seat] EXCEPT !.phase = "done", !.final = score]
  <2>1. cabinet \in [Seat -> CabinetRecord] /\ cabinet[seat] \in CabinetRecord
    BY <1>1 DEF Cabinets
  <2>2. /\ r.phase = "done" /\ r.player = name /\ r.song = s /\ r.final = score
    BY <2>1 DEF CabinetRecord
  <2>3. cabinet' = [cabinet EXCEPT ![seat] = r]
    BY <2>1 DEF FinalScore, Finish
  <2> HIDE DEF r
  <2>4. QED
    BY <2>1, <2>2, <2>3
<1> HIDE DEF p, name, s
<1>4. Fresh(cabinet', Bridge) /\ Ended(cabinet', finals')
  BY <1>2, <1>3 DEF Honest, Fresh, Ended
<1>5. CASE Handled(p)
  BY <1>1, <1>2, <1>3, <1>4, <1>5, FinalHonest DEF p, name, s
<1>6. CASE Lost
  <2>1. UNCHANGED <<current, read>> /\ Bridge' = Bridge
    BY <1>6 DEF Lost, bridgeVars, readerVars, Bridge
  <2>2. Earned(Bridge, finals')
    BY <1>2 DEF Honest, Earned
  <2>3. \A x, scores : AreFinals(x, scores, finals) => AreFinals(x, scores, finals')
    BY <1>2 DEF AreFinals
  <2>4. QED
    BY <1>4, <2>1, <2>2, <2>3 DEF Honest
<1>7. QED
  BY <1>2, <1>5, <1>6 DEF Broadcast

LEMMA RepeatHonest ==
  ASSUME Inv, Honest, NEW seat \in Seat, RepeatFinal(seat)
  PROVE  Honest'
<1> DEFINE name == cabinet[seat].player
           s == cabinet[seat].song
           score == cabinet[seat].final
           p == OnFinalScore(Bridge, seat, name, s, score)
<1>1. /\ name \in Player /\ s \in Song /\ score \in Final /\ Cabinets(cabinet)
      /\ cabinet[seat].phase = "done"
  BY PlayerAt DEF Inv, RepeatFinal, Cabinets, CabinetRecord
<1>2. finals' = finals /\ Handled(p)
  BY DEF RepeatFinal
<1>3. <<name, s, score>> \in finals
  BY <1>1 DEF Honest, Ended
<1>4. cabinet'[seat].phase = "repeated" /\ \A t \in Seat \ {seat} : cabinet'[t] = cabinet[t]
  <2>1. cabinet \in [Seat -> CabinetRecord] /\ cabinet[seat] \in CabinetRecord
    BY <1>1 DEF Cabinets
  <2>2. cabinet' = [cabinet EXCEPT ![seat] = [cabinet[seat] EXCEPT !.phase = "repeated"]]
    BY <2>1 DEF RepeatFinal
  <2>3. QED
    BY <2>1, <2>2 DEF CabinetRecord
<1> HIDE DEF p, name, s, score
<1>5. Fresh(cabinet', Bridge) /\ Ended(cabinet', finals')
  BY <1>2, <1>4 DEF Honest, Fresh, Ended
<1>6. QED
  BY <1>1, <1>2, <1>3, <1>4, <1>5, FinalHonest DEF p

LEMMA SkipHonest ==
  ASSUME Inv, Honest, NEW seat \in Seat, SkipSong(seat)
  PROVE  Honest'
<1> DEFINE p == OnSkipped(Bridge, seat, cabinet[seat].song)
<1>1. Settled(Bridge) /\ Cabinets(cabinet)
  BY DEF Inv
<1>2. Broadcast(p) /\ finals' = finals
  BY DEF SkipSong
<1>3. \A t \in Seat : cabinet'[t] = cabinet[t] \/ cabinet'[t].phase = "menu"
  BY <1>1 DEF SkipSong, Skip, Cabinets, CabinetRecord
<1>4. Moves(Bridge, p.bridge) /\ Fewer(Bridge, p.bridge) /\ Plain(p.screens)
  BY <1>1, OnSkippedMoves
<1> HIDE DEF p
<1>5. Fresh(cabinet', Bridge) /\ Ended(cabinet', finals)
  BY <1>3 DEF Honest, Fresh, Ended
<1>6. QED
  BY <1>2, <1>4, <1>5, BroadcastHonest

LEMMA FlushHonest ==
  ASSUME Inv, Honest, Flush
  PROVE  Honest'
<1> DEFINE p == Flushed(Bridge)
<1>1. Settled(Bridge) /\ Handled(p) /\ UNCHANGED <<finals, cabinet>>
  BY DEF Flush, Inv, cabinetVars
<1>2. \/ Moves(Bridge, p.bridge) /\ Fewer(Bridge, p.bridge) /\ Plain(p.screens)
      \/ Flushes(Bridge, p.bridge) /\ p.screens = <<"ScreenGameplay", "ScreenEvaluation">>
  BY <1>1, FlushedMoves
<1> HIDE DEF p
<1>3. CASE Moves(Bridge, p.bridge) /\ Fewer(Bridge, p.bridge) /\ Plain(p.screens)
  <2>1. Earned(p.bridge, finals') /\ Fresh(cabinet', p.bridge) /\ Ended(cabinet', finals')
    BY <1>1, <1>3, FewerEarned, FewerFresh DEF Honest
  <2>2. QED
    BY <1>1, <1>3, <2>1, HandledHonest
<1>4. CASE Flushes(Bridge, p.bridge) /\ p.screens = <<"ScreenGameplay", "ScreenEvaluation">>
  <2>1. Concludes(p.bridge)
    BY <1>1, <1>4, HandledConcludes DEF Flushes, Inv
  <2>2. QED
    BY <1>1, <1>4, <2>1, ConcludesHonest
<1>5. QED
  BY <1>2, <1>3, <1>4

LEMMA EvictHonest ==
  ASSUME Inv, Honest, NEW quiet, EvictIdleMachines(quiet)
  PROVE  Honest'
<1> DEFINE p == Evicted(Bridge, quiet)
<1>1. Settled(Bridge) /\ Handled(p) /\ UNCHANGED <<finals, cabinet>>
  BY DEF EvictIdleMachines, Inv, cabinetVars
<1>2. Moves(Bridge, p.bridge) /\ Fewer(Bridge, p.bridge) /\ Plain(p.screens)
  BY <1>1, EvictedMoves
<1> HIDE DEF p
<1>3. Earned(p.bridge, finals') /\ Fresh(cabinet', p.bridge) /\ Ended(cabinet', finals')
  BY <1>1, <1>2, FewerEarned, FewerFresh DEF Honest
<1>4. QED
  BY <1>1, <1>2, <1>3, HandledHonest

LEMMA HonestKeeps ==
  ASSUME ~Hasty, Inv, Honest, Next
  PROVE  Honest'
<1>1. CASE \/ Disconnect \/ SyncStartRestarts \/ Post \/ PostIsLost
           \/ Ingest \/ ApiRestarts \/ Operate
  BY <1>1, StillHonest DEF Disconnect, SyncStartRestarts, Post, PostIsLost, Ingest, ApiRestarts,
     Operate, cabinetVars, readerVars
<1>2. CASE ~(\/ Disconnect \/ SyncStartRestarts \/ Post \/ PostIsLost
             \/ Ingest \/ ApiRestarts \/ Operate)
  BY <1>2, SelectHonest, BeginHonest, LiveHonest, RepeatHonest, SkipHonest, FinalScoreHonest,
     EvictHonest, FlushHonest, ReconnectHonest DEF Next
<1>3. QED
  BY <1>1, <1>2

-----------------------------------------------------------------------------
(***************************************************************************)
(* The API.                                                                *)
(***************************************************************************)

\* Nothing that the API does: there are only more finals.
LEMMA StillWritten ==
  ASSUME Written, UNCHANGED <<job, recorded, standing>>, finals \subseteq finals'
  PROVE  Written'
  BY DEF Written, StandingsAreFinals, Standings

LEMMA StandingsStay ==
  ASSUME StandingsAreFinals, recorded \subseteq recorded', finals' = finals,
         \A m \in Match, p \in Player :
           \/ standing'[m][p] = standing[m][p] \/ standing'[m][p] \in {None, Typed}
           \/ <<p, RoundSong[m], standing'[m][p]>> \in finals \cap recorded
  PROVE  StandingsAreFinals'
<1> SUFFICES ASSUME NEW s \in Match \X Player, standing'[s[1]][s[2]] \notin {None, Typed}
             PROVE  <<s[2], RoundSong[s[1]], standing'[s[1]][s[2]]>> \in finals' \cap recorded'
  BY DEF StandingsAreFinals, Standings
<1>1. s[1] \in Match /\ s[2] \in Player
  OBVIOUS
<1>2. CASE standing'[s[1]][s[2]] = standing[s[1]][s[2]]
  BY <1>2 DEF StandingsAreFinals, Standings
<1>3. CASE standing'[s[1]][s[2]] # standing[s[1]][s[2]]
  BY <1>1, <1>3
<1>4. QED
  BY <1>2, <1>3

LEMMA RecordRunsWritten ==
  ASSUME Inv, Truth, API!RecordRuns, UNCHANGED Behind
  PROVE  Written'
<1> DEFINE c == job.completion
           runs == API!Resolved(c)
           S == {x[2] : x \in read}
<1>1. /\ job.at = "record"
      /\ recorded' = recorded \cup {<<r[1], c.song, r[2]>> : r \in runs}
      /\ job' = [job EXCEPT !.at = "targets", !.runs = runs]
      /\ standing' = standing /\ finals' = finals
  BY DEF API!RecordRuns, Behind
<1>2. /\ job \in [ completion : S \cup {None}, at : {"idle", "record", "targets", "apply"},
                   runs : SUBSET (Player \X Result),
                   targets : SUBSET (Match \X Player \X Result) ]
      /\ c \in S /\ job.targets = {}
  BY <1>1 DEF Inv, Submissions
<1>3. c.song \in Song /\ c.scores \in Scores /\ AreFinals(c.song, c.scores, finals)
  BY <1>2 DEF Inv, Reads, Truth, Honest
<1>4. \A r \in runs : <<r[1], c.song, r[2]>> \in finals
  <2> SUFFICES ASSUME NEW r \in runs
               PROVE  <<r[1], c.song, r[2]>> \in finals
    OBVIOUS
  <2>1. PICK seat \in Seat :
          c.scores[seat] # None /\ r = <<c.scores[seat].player, c.scores[seat].exScore>>
    BY <1>3, ResolvedIs
  <2>2. QED
    BY <1>3, <2>1 DEF AreFinals
<1> HIDE DEF runs, c
<1>5. job'.runs = runs /\ job'.targets = {} /\ job'.completion = c
  BY <1>1, <1>2 DEF c
<1>6. StandingsAreFinals'
  BY <1>1, StandingsStay DEF Truth, Written
<1>7. QED
  BY <1>1, <1>4, <1>5, <1>6 DEF Written

LEMMA FindTargetsWritten ==
  ASSUME Inv, Truth, API!FindTargets, UNCHANGED Behind
  PROVE  Written'
<1> DEFINE s == job.completion.song
           runs == job.runs
           waiting == {x \in runs : API!Waiting(x[1], s) # {}}
           targets == {<<API!Oldest(API!Waiting(r[1], s)), r[1], r[2]>> : r \in waiting}
<1>1. /\ job' = [job EXCEPT !.at = "apply", !.targets = targets]
      /\ UNCHANGED <<recorded, standing, finals>>
  BY DEF API!FindTargets, Behind
<1>2. \A r \in waiting : RoundSong[API!Oldest(API!Waiting(r[1], s))] = s
  <2> SUFFICES ASSUME NEW r \in waiting
               PROVE  RoundSong[API!Oldest(API!Waiting(r[1], s))] = s
    OBVIOUS
  <2>1. API!Oldest(API!Waiting(r[1], s)) \in API!Waiting(r[1], s)
    BY OldestWaits DEF Inv
  <2>2. QED
    BY <2>1 DEF API!Waiting
<1>3. \A r \in runs : <<r[1], s, r[2]>> \in finals
  BY DEF Truth, Written
<1>4. \A t \in targets : <<t[2], RoundSong[t[1]], t[3]>> \in finals
  <2> SUFFICES ASSUME NEW r \in waiting
               PROVE  LET t == <<API!Oldest(API!Waiting(r[1], s)), r[1], r[2]>>
                      IN  <<t[2], RoundSong[t[1]], t[3]>> \in finals
    OBVIOUS
  <2>1. QED
    BY <1>2, <1>3
<1> HIDE DEF targets
<1>5. job'.runs = runs /\ job'.targets = targets /\ job'.completion = job.completion
  BY <1>1 DEF Inv, Submissions
<1>6. StandingsAreFinals'
  BY <1>1, StandingsStay DEF Truth, Written
<1>7. QED
  BY <1>1, <1>3, <1>4, <1>5, <1>6 DEF Written

\* What a round takes is in the table and a final score.
LEMMA ApplyToWritten ==
  ASSUME Inv, Truth, NEW m \in Match, API!ApplyTo(m), UNCHANGED Behind
  PROVE  Written'
<1> DEFINE rest == {t \in job.targets : t[1] # m}
<1>1. /\ job' = [job EXCEPT !.targets = rest]
      /\ recorded' = recorded /\ finals' = finals
  BY DEF API!ApplyTo, Behind
<1>2. rest \subseteq job.targets
  OBVIOUS
<1> HIDE DEF rest
<1>3. job'.runs = job.runs /\ job'.targets = rest /\ job'.completion = job.completion
  BY <1>1 DEF Inv, Submissions
<1>4. \A n \in Match, p \in Player :
        \/ standing'[n][p] = standing[n][p]
        \/ \E t \in job.targets : t[1] = n /\ t[2] = p /\ standing'[n][p] = t[3]
  BY AppliedIs
<1>5. \A t \in job.targets : <<t[2], RoundSong[t[1]], t[3]>> \in finals \cap recorded
  BY DEF Inv, Submissions, Truth, Written
<1>6. \A n \in Match, p \in Player :
        \/ standing'[n][p] = standing[n][p]
        \/ <<p, RoundSong[n], standing'[n][p]>> \in finals \cap recorded
  BY <1>4, <1>5
<1>7. StandingsAreFinals'
  BY <1>1, <1>6, StandingsStay DEF Truth, Written
<1>8. QED
  BY <1>1, <1>2, <1>3, <1>7 DEF Truth, Written

LEMMA OperateWritten ==
  ASSUME Inv, Truth, Operate
  PROVE  Written'
<1>1. UNCHANGED <<job, recorded, finals>>
  BY DEF Operate, API!TypeStanding, API!RemoveStanding, API!Deactivate
<1>2. \A m \in Match, p \in Player :
        standing'[m][p] = standing[m][p] \/ standing'[m][p] \in {None, Typed}
  <2>1. standing \in [Match -> [Player -> Result \cup {None, Typed}]]
    BY DEF Inv, Submissions
  <2>2. CASE \E m \in Match, p \in Player : API!TypeStanding(m, p) \/ API!RemoveStanding(m, p)
    <3>1. PICK m \in Match, p \in Player, x \in {None, Typed} :
            standing' = [standing EXCEPT ![m][p] = x]
      BY <2>2 DEF API!TypeStanding, API!RemoveStanding
    <3>2. QED
      BY <2>1, <3>1
  <2>3. CASE \E m \in Match : API!Deactivate(m)
    BY <2>3 DEF API!Deactivate
  <2>4. QED
    BY <2>2, <2>3 DEF Operate
<1>3. StandingsAreFinals'
  BY <1>1, <1>2, StandingsStay DEF Truth, Written
<1>4. QED
  BY <1>1, <1>3 DEF Truth, Written

\* A submission begins with no runs, and leaves none.
LEMMA SubmissionWritten ==
  ASSUME Inv, Truth, Post \/ API!Remember \/ API!ApiCrash, UNCHANGED finals
  PROVE  Written'
<1>1. UNCHANGED <<recorded, standing, finals>>
  BY DEF Post, API!Submit, API!Remember, API!ApiCrash
<1>2. job' = job \/ (job'.runs = {} /\ job'.targets = {})
  BY DEF Post, API!Submit, API!Remember, API!ApiCrash, API!Idle
<1>3. StandingsAreFinals'
  BY <1>1, StandingsStay DEF Truth, Written
<1>4. QED
  BY <1>1, <1>2, <1>3 DEF Truth, Written

LEMMA WrittenKeeps ==
  ASSUME Inv, Truth, Next
  PROVE  Written'
<1>1. CASE Ingest
  <2>1. UNCHANGED Behind /\ finals' = finals
    BY <1>1 DEF Ingest, Behind
  <2>2. QED
    BY <1>1, <2>1, RecordRunsWritten, FindTargetsWritten, ApplyToWritten, SubmissionWritten
    DEF Ingest
<1>2. CASE Post \/ ApiRestarts
  BY <1>2, SubmissionWritten DEF Post, ApiRestarts
<1>3. CASE Operate
  BY <1>3, OperateWritten
<1>4. CASE ~(Ingest \/ Post \/ ApiRestarts \/ Operate)
  <2>1. UNCHANGED apiVars /\ finals \subseteq finals'
    BY <1>4 DEF Next, SelectSong, BeginSong, LiveScore, FinalScore, RepeatFinal, SkipSong, Flush,
       EvictIdleMachines, Disconnect, Reconnect, SyncStartRestarts, PostIsLost
  <2>2. UNCHANGED <<job, recorded, standing>>
    BY <2>1 DEF apiVars
  <2>3. QED
    BY <2>1, <2>2, StillWritten DEF Truth
<1>5. QED
  BY <1>1, <1>2, <1>3, <1>4

LEMMA TruthHolds == Init => Truth
<1> SUFFICES ASSUME Init
             PROVE  Truth
  OBVIOUS
<1>1. /\ cabinet = [seat \in Seat |-> [song |-> None, player |-> None, phase |-> "menu", final |-> None]]
      /\ run = [seat \in Seat |-> None] /\ current.screen = "none"
      /\ job.runs = {} /\ job.targets = {} /\ read = {}
      /\ standing = [m \in Match |-> [p \in Player |-> None]]
  BY DEF Init, BridgeInit, Nobody, API!IngestionInit, API!Idle
<1>2. Honest
  BY <1>1, BridgeFields DEF Honest, Earned, Fresh, Ended
<1>3. Written
  BY <1>1 DEF Written, StandingsAreFinals, Standings
<1>4. QED
  BY <1>2, <1>3 DEF Truth

LEMMA TruthKeeps == ~Hasty /\ Inv /\ Truth /\ [Next]_vars => Truth'
<1> SUFFICES ASSUME ~Hasty, Inv, Truth, [Next]_vars
             PROVE  Truth'
  OBVIOUS
<1>1. CASE Next
  BY <1>1, HonestKeeps, WrittenKeeps DEF Truth
<1>2. CASE UNCHANGED vars
  <2>1. /\ UNCHANGED <<bridgeVars, cabinet, finals, read>>
        /\ UNCHANGED <<job, recorded, standing>>
    BY <1>2 DEF vars, cabinetVars, readerVars, apiVars
  <2>2. QED
    BY <2>1, StillHonest, StillWritten DEF Truth
<1>3. QED
  BY <1>1, <1>2

-----------------------------------------------------------------------------

\* Where no cabinet plays on while its last run waits, a standing that no
\* operator typed is a final score of its player on the song of its round, with
\* its run in the score table: whatever datagrams, posts and processes are lost,
\* and however matches end and standings are removed between.
THEOREM StandingsAreAlwaysFinals == ~Hasty => (Spec => []StandingsAreFinals)
<1> SUFFICES ASSUME ~Hasty
             PROVE  Spec => []StandingsAreFinals
  OBVIOUS
<1>1. Inv /\ Truth /\ [Next]_vars => Truth'
  BY TruthKeeps
<1>2. Truth => StandingsAreFinals
  BY DEF Truth, Written
<1>3. QED
  BY <1>1, <1>2, TruthHolds, Invariant, PTL DEF Spec

=============================================================================
