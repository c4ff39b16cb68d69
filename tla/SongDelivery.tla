----------------------------- MODULE SongDelivery -----------------------------
(***************************************************************************)
(* The way of a final score from a legacy cabinet to the standing of the   *)
(* round that waits for it: the bridge publishes snapshots of its lobby,   *)
(* the SyncStart service that follows the lobby reads completed songs out  *)
(* of them and posts each to the API, one after another, once.             *)
(***************************************************************************)
EXTENDS LegacyBridge

CONSTANTS
  Match, RoundSong, Entrants, Roster, Pool, Typed,
  MaxUpsets,   \* bound: losses, restarts, and edits by an operator
  MaxPosts     \* bound: completions that wait to be posted

ASSUME IngestionAssumption ==
  /\ Match \subseteq Nat
  /\ RoundSong \in [Match -> Song] /\ Entrants \in [Match -> SUBSET Player]
  /\ Roster \subseteq Player /\ Pool \subseteq Song
  /\ Typed \notin Final \cup {Half, None}

VARIABLES
  job, completions, recorded, active, standing,  \* SongIngestion
  link,     \* SyncStart is attached to the bridge's lobby
  reader,   \* its LobbyStateInterpreter
  posts,    \* completions read and not posted yet
  session,  \* ghost: sessions the bridge began
  told,     \* ghost: the session of the last snapshot published
  read,     \* ghost: <<session, completion>> the reader completed
  finals,   \* ghost: <<player, song, score>> the cabinets finished with
  upsets

API == INSTANCE SongIngestion
Reader == INSTANCE LobbyReader

apiVars == <<job, completions, recorded, active, standing>>
readerVars == <<link, reader, posts, read>>
sessionVars == <<session, told>>
vars == <<bridgeVars, cabinetVars, apiVars, readerVars, sessionVars, finals, upsets>>

Init ==
  /\ BridgeInit
  /\ API!IngestionInit
  /\ link = "up"
  /\ reader = Reader!NewReader
  /\ posts = <<>>
  /\ session = 0 /\ told = 0
  /\ read = {}
  /\ finals = {}
  /\ upsets = 0

-----------------------------------------------------------------------------
(* What the reader does with snapshots that reach it.                      *)

InOrder(s, t) == s[1] < t[1] \/ (s[1] = t[1] /\ s[2] < t[2])

\* The id that the submitter gives a completion: sides and scores in order.
CompletionId(state) ==
  LET seats == SetToSortSeq(Reader!Present(state), InOrder)
  IN  <<state.song, [i \in DOMAIN seats |-> <<seats[i][2], state.players[seats[i]].exScore>>]>>

Completion(state) ==
  [song |-> state.song, scores |-> state.players, id |-> CompletionId(state)]

\* A reader and the completions it has found, after one more snapshot.
ReadOne(found, state) ==
  [ reader |-> Reader!Interpret(found.reader, state),
    completions |-> IF Reader!Completes(found.reader, state)
                    THEN Append(found.completions, Completion(state)) ELSE found.completions ]

\* The snapshots that were sent are read in order.
ReadAll(snapshots) ==
  LET found[i \in 0..Len(snapshots)] ==
        IF i = 0 THEN [reader |-> reader, completions |-> <<>>]
        ELSE ReadOne(found[i - 1], snapshots[i])
  IN  found[Len(snapshots)]

ReaderTakes(snapshots) ==
  \E found \in {ReadAll(snapshots)} :
      /\ reader' = found.reader
      /\ posts' = posts \o found.completions
      /\ read' = read \cup {<<told', c>> : c \in ToSet(found.completions)}

-----------------------------------------------------------------------------
(* The bridge takes a datagram or a timer in, or the datagram is lost.     *)

Handled(outcome) ==
  \E p \in {outcome} : \E sent \in {Sent(p)} :
    /\ Takes(p)
    /\ session' = IF song' # None /\ (song' # song \/ (isCompleted /\ ~isCompleted'))
                  THEN session + 1 ELSE session
    /\ told' = IF sent = <<>> THEN told ELSE session'
    /\ IF link = "up" THEN ReaderTakes(sent) ELSE UNCHANGED <<reader, posts, read>>
    /\ UNCHANGED link

Lost ==
  /\ upsets < MaxUpsets
  /\ upsets' = upsets + 1
  /\ UNCHANGED <<bridgeVars, readerVars, sessionVars>>

Broadcast(p) == (Handled(p) /\ UNCHANGED upsets) \/ Lost

Room == Len(posts) < MaxPosts

\* Who stands at the cabinets is up to the room; names are never shared.
SelectSong(a, s, names) ==
  /\ Room /\ Select(a, s, names)
  /\ Broadcast(OnSong(Bridge, a, s))
  /\ UNCHANGED <<apiVars, finals>>

BeginSong(a) ==
  /\ Room /\ Begin(a)
  /\ \E seat \in SeatsOf(a) : Broadcast(OnStart(Bridge, a, cabinet[seat].song))
  /\ UNCHANGED <<apiVars, finals>>

LiveScore(seat) ==
  /\ Room /\ cabinet[seat].phase = "playing"
  /\ Handled(OnScore(Bridge, seat, cabinet[seat].player, cabinet[seat].song))
  /\ UNCHANGED <<apiVars, cabinetVars, finals, upsets>>

FinalScore(seat, score) ==
  /\ Room /\ Finish(seat, score)
  /\ finals' = finals \cup {<<cabinet[seat].player, cabinet[seat].song, score>>}
  /\ Broadcast(OnFinalScore(Bridge, seat, cabinet[seat].player, cabinet[seat].song, score))
  /\ UNCHANGED <<apiVars>>

\* A cabinet repeats a final score; once is the bound here.
RepeatFinal(seat) ==
  /\ Room /\ cabinet[seat].phase = "done"
  /\ cabinet' = [cabinet EXCEPT ![seat].phase = "repeated"]
  /\ Handled(OnFinalScore(Bridge, seat, cabinet[seat].player, cabinet[seat].song, cabinet[seat].final))
  /\ UNCHANGED <<apiVars, plays, finals, upsets>>

SkipSong(seat) ==
  /\ Room /\ Skip(seat)
  /\ Broadcast(OnSkipped(Bridge, seat, cabinet[seat].song))
  /\ UNCHANGED <<apiVars, finals>>

Flush ==
  /\ Room /\ flushTimer # "none"
  /\ \E b \in {Bridge} : Handled(Flushed(b))
  /\ UNCHANGED <<apiVars, cabinetVars, finals, upsets>>

\* Machines go quiet for longer than machineIdleMs.
EvictIdleMachines(quiet) ==
  /\ Room /\ upsets < MaxUpsets
  /\ quiet \subseteq machines /\ quiet # {}
  /\ Handled(Evicted(Bridge, quiet))
  /\ upsets' = upsets + 1
  /\ UNCHANGED <<apiVars, cabinetVars, finals>>

-----------------------------------------------------------------------------
(* The connection to the lobby, and the SyncStart service.                 *)

Disconnect ==
  /\ upsets < MaxUpsets /\ link = "up"
  /\ link' = "down"
  /\ upsets' = upsets + 1
  /\ UNCHANGED <<bridgeVars, cabinetVars, apiVars, reader, posts, read, sessionVars, finals>>

\* The session reconnects, keeps its interpreter, and is sent the state.
Reconnect ==
  /\ Room /\ link = "down"
  /\ link' = "up"
  /\ UNCHANGED sessionVars
  /\ ReaderTakes(<<current>>)
  /\ UNCHANGED <<bridgeVars, cabinetVars, apiVars, finals, upsets>>

\* A new process has a new interpreter and nothing to post.
SyncStartRestarts ==
  /\ upsets < MaxUpsets
  /\ upsets' = upsets + 1
  /\ link' = "down"
  /\ reader' = Reader!NewReader
  /\ posts' = <<>>
  /\ UNCHANGED <<bridgeVars, cabinetVars, apiVars, read, sessionVars, finals>>

\* OnSongCompleted: one post, which is not retried.
Post ==
  /\ posts # <<>>
  /\ API!Submit(Head(posts))
  /\ posts' = Tail(posts)
  /\ UNCHANGED <<bridgeVars, cabinetVars, link, reader, read, sessionVars, finals, upsets>>

PostIsLost ==
  /\ posts # <<>> /\ upsets < MaxUpsets
  /\ posts' = Tail(posts)
  /\ upsets' = upsets + 1
  /\ UNCHANGED <<bridgeVars, cabinetVars, apiVars, link, reader, read, sessionVars, finals>>

-----------------------------------------------------------------------------
(* The API.                                                                *)

Ingest ==
  /\ API!RecordRuns \/ API!FindTargets \/ (\E m \in Match : API!ApplyTo(m)) \/ API!Remember
  /\ UNCHANGED <<bridgeVars, cabinetVars, readerVars, sessionVars, finals, upsets>>

ApiRestarts ==
  /\ upsets < MaxUpsets
  /\ upsets' = upsets + 1
  /\ API!ApiCrash
  /\ UNCHANGED <<bridgeVars, cabinetVars, readerVars, sessionVars, finals>>

Operate ==
  /\ upsets < MaxUpsets
  /\ upsets' = upsets + 1
  /\ \/ \E m \in Match, p \in Player : API!TypeStanding(m, p) \/ API!RemoveStanding(m, p)
     \/ \E m \in Match : API!Deactivate(m)
  /\ UNCHANGED <<bridgeVars, cabinetVars, readerVars, sessionVars, finals>>

\* Somebody stands at each seat of a cabinet, and nobody at two.
Line(a) ==
  {names \in [SeatsOf(a) -> Player] :
     /\ \A s, t \in SeatsOf(a) : s # t => names[s] # names[t]
     /\ \A s \in SeatsOf(a), t \in Seat \ SeatsOf(a) : names[s] # cabinet[t].player}

Next ==
  \/ \E a \in Address, s \in Song : \E names \in Line(a) : SelectSong(a, s, names)
  \/ \E a \in Address : BeginSong(a)
  \/ \E seat \in Seat : LiveScore(seat) \/ RepeatFinal(seat) \/ SkipSong(seat)
  \/ \E seat \in Seat, score \in Final : FinalScore(seat, score)
  \/ \E quiet \in SUBSET machines : EvictIdleMachines(quiet)
  \/ Flush \/ Disconnect \/ Reconnect \/ SyncStartRestarts
  \/ Post \/ PostIsLost \/ Ingest \/ ApiRestarts \/ Operate

Spec == Init /\ [][Next]_vars

-----------------------------------------------------------------------------
(* Properties.                                                             *)

Result == Final \cup {Half}
Standings == {s \in Match \X Player : standing[s[1]][s[2]] \notin {None, Typed}}

TypeOK ==
  /\ cabinet \in [Seat -> [song : Song \cup {None}, player : Player \cup {None},
                           phase : {"menu", "playing", "done", "repeated"}, final : Final \cup {None}]]
  /\ machines \subseteq Address
  /\ machineSong \in [Address -> Song \cup {None}]
  /\ run \in [Seat -> Run \cup {None}]
  /\ \A a \in Address \ machines : machineSong[a] = None /\ \A seat \in SeatsOf(a) : run[seat] = None
  /\ song \in Song \cup {None} /\ isCompleted \in BOOLEAN
  /\ flushTimer \in {"none", "grace", "timeout"}
  /\ current.screen \in Screen
  /\ link \in {"up", "down"}
  /\ recorded \subseteq Player \X Song \X Result
  /\ active \subseteq Match
  /\ standing \in [Match -> [Player -> Result \cup {None, Typed}]]

\* A standing that a lobby wrote is the final score of that player, on the song
\* of that round, and has its run in the score table: never a run that was not
\* over, of another song or of another player of the same side, and never one
\* nobody recorded, whatever was lost, repeated or restarted between.
StandingsAreFinals ==
  \A s \in Standings : <<s[2], RoundSong[s[1]], standing[s[1]][s[2]]>> \in finals \cap recorded

\* A session of the bridge is read as completed at most once: a lobby of
\* several cabinets completes once, when the last of them has finished.
CompletesOnce == \A c, d \in read : c[1] = d[1] => c = d

\* While a final score stands in the lobby's song, that song is completed or a
\* timer is set that completes it: after a skip, a quiet machine, a machine that
\* left and came back, and scores that arrive while the timer runs.
FinalsWaitForFlush ==
  \A seat \in SessionPlayers(Bridge) :
    run[seat].final # None => isCompleted \/ flushTimer # "none"

Found(p, s, v) ==
  {c \in read : c[2].song = s /\ \E seat \in Seat : c[2].scores[seat] = [player |-> p, exScore |-> v]}

\* Once nothing is under way, what the reader found is in the score table, each
\* player of the roster of every completion: unless a fault came between, or two
\* completions had the same id.
NothingIsDropped ==
  posts = <<>> /\ job.at = "idle" /\ upsets = 0 =>
    \A p \in Roster, s \in Pool, v \in Final :
      Found(p, s, v) = {} \/ <<p, s, v>> \in recorded
      \/ \E c \in Found(p, s, v), d \in read : c # d /\ c[2].id = d[2].id
=============================================================================
