----------------------------- MODULE LegacyBridge -----------------------------
(***************************************************************************)
(* LegacyBridgeLobby: the one virtual lobby a room of legacy cabinets is   *)
(* seen through, and the cabinets that broadcast to it.  A datagram is     *)
(* handled in one event; it may be lost, and a cabinet repeats its final   *)
(* score.  A snapshot is published when it says something new.             *)
(* A definition under a comment "Slip:" is not the code: it is the one that *)
(* follows it with a plausible mistake in it.                              *)
(***************************************************************************)
EXTENDS Integers, FiniteSets, Sequences, SequencesExt

CONSTANTS
  Address,     \* sources of datagrams, numbered in the order of their names
  Seat,        \* <<address, side>> of the players
  Player,      \* profile names
  Song,
  Half,        \* what a live score carries: a run that is not over
  Final,       \* what a final score carries
  None,        \* no song, no player, no snapshot
  MaxMachines, \* MAX_MACHINES
  Hasty,       \* whether a cabinet plays on while its last run waits for a flush
  MaxPlays     \* bound: songs the cabinets select, and play again

VARIABLES
  cabinet,    \* [Seat -> what is played there, and by whom]
  machines,   \* the addresses of LegacyBridgeLobby.machines
  machineSong,\* [Address -> Machine.song]
  run,        \* [Seat -> Machine.players]
  song,       \* LegacyBridgeLobby.song
  isCompleted,
  flushTimer, \* none, grace or timeout: the delay it was set with
  current,    \* the last snapshot published
  plays       \* songs selected and played again so far

bridgeVars == <<machines, machineSong, run, song, isCompleted, flushTimer, current>>
cabinetVars == <<cabinet, plays>>

Score == Final \cup {Half}

Run == [player : Player, exScore : Score, final : Final \cup {None}]

\* A snapshot without players names no screen.
Screen == {"ScreenSelectMusic", "ScreenGameplay", "ScreenEvaluation", "none"}

ASSUME BridgeAssumption ==
  /\ Seat \subseteq Address \X {1, 2}
  /\ Half \notin Final
  /\ None \notin Song \cup Player \cup Final \cup {Half}
  /\ None \notin Screen /\ None \notin Run \cup [player : Player, exScore : Score]
  /\ Hasty \in BOOLEAN
  /\ MaxMachines \in Nat /\ MaxPlays \in Nat

Nobody == [seat \in Seat |-> None]

BridgeInit ==
  /\ cabinet = [seat \in Seat |-> [song |-> None, player |-> None, phase |-> "menu", final |-> None]]
  /\ machines = {}
  /\ machineSong = [a \in Address |-> None]
  /\ run = Nobody
  /\ song = None
  /\ isCompleted = FALSE
  /\ flushTimer = "none"
  /\ current = [screen |-> "none", song |-> None, players |-> Nobody]
  /\ plays = 0

-----------------------------------------------------------------------------
(* The lobby's view.  A state of the bridge is a record b of its fields.   *)

Bridge ==
  [ machines |-> machines, machineSong |-> machineSong, run |-> run, song |-> song,
    isCompleted |-> isCompleted, flushTimer |-> flushTimer ]

BridgeIs(b) ==
  /\ machines' = b.machines
  /\ machineSong' = b.machineSong
  /\ run' = b.run
  /\ song' = b.song
  /\ isCompleted' = b.isCompleted
  /\ flushTimer' = b.flushTimer

InSession(b, a) == a \in b.machines /\ b.machineSong[a] # None /\ b.machineSong[a] = b.song

\* The players of the machines on the lobby's song.
SessionPlayers(b) ==
  {seat \in Seat : InSession(b, seat[1]) /\ b.run[seat] # None}

Unfinished(b) == {seat \in SessionPlayers(b) : b.run[seat].final = None}

Cleared(b, a) == [seat \in Seat |-> IF seat[1] = a THEN None ELSE b.run[seat]]

Snapshot(b, screen) ==
  [ screen |-> IF SessionPlayers(b) = {} THEN "none" ELSE screen,
    song |-> b.song,
    players |-> [seat \in Seat |->
       IF seat \notin SessionPlayers(b) THEN None
       ELSE [player |-> b.run[seat].player, exScore |-> b.run[seat].exScore]] ]

\* machineFor: a machine joins by being heard from, unless the lobby is full.
Heard(b, a) == a \in b.machines \/ Cardinality(b.machines) < MaxMachines

Joined(b, a) ==
  IF a \in b.machines THEN b
  ELSE [b EXCEPT !.machines = @ \cup {a}, !.machineSong[a] = None, !.run = Cleared(b, a)]

EveryMachineMovedOn(b) == \A a \in b.machines : b.machineSong[a] # b.song

BeginSession(b, s) ==
  [b EXCEPT !.run = Nobody, !.song = s, !.isCompleted = FALSE, !.flushTimer = "none",
     !.machineSong = [a \in Address |-> IF b.machineSong[a] = s THEN s ELSE None]]

MoveTo(b, a, s) ==
  LET m == IF b.machineSong[a] = s THEN b
           ELSE [b EXCEPT !.machineSong[a] = s, !.run = Cleared(b, a)]
      over == m.song = None \/ m.isCompleted \/ EveryMachineMovedOn(m)
  IN  IF (m.song = s /\ ~m.isCompleted) \/ ~over THEN m ELSE BeginSession(m, s)

Scheduled(b) == [b EXCEPT !.flushTimer = IF Unfinished(b) = {} THEN "grace" ELSE "timeout"]

Upsert(b, seat, name, score, final) ==
  [b EXCEPT !.run[seat] =
     [ player |-> name, exScore |-> score,
       final |-> IF final # None \/ b.run[seat] = None THEN final ELSE b.run[seat].final ]]

-----------------------------------------------------------------------------
(* What the bridge makes of a datagram: the bridge after it, and the       *)
(* screens it publishes in order (Nothing: the datagram changed no more).  *)

Nothing(b) == [bridge |-> b, screens |-> <<>>]
Publishing(b, screens) == [bridge |-> b, screens |-> screens]

\* handleSong
OnSong(b, a, s) ==
  LET m == MoveTo(Joined(b, a), a, s)
  IN  IF ~Heard(b, a) THEN Nothing(b)
      ELSE IF InSession(m, a) THEN Publishing(m, <<"ScreenSelectMusic">>) ELSE Nothing(m)

\* handleStart: nothing new when the lobby already plays that song.
OnStart(b, a, s) ==
  LET j == Joined(b, a)
  IN  IF Heard(b, a) /\ j.machineSong[a] = s /\ j.song = s /\ ~j.isCompleted
      THEN Nothing(j) ELSE OnSong(b, a, s)

\* handleScore
OnScore(b, seat, name, s) ==
  LET m == MoveTo(Joined(b, seat[1]), seat[1], s)
  IN  IF ~Heard(b, seat[1]) THEN Nothing(b)
      ELSE IF ~InSession(m, seat[1]) THEN Nothing(m)
      ELSE Publishing(Upsert(m, seat, name, Half, None), <<"ScreenGameplay">>)

\* Slip: each final score completes the song, for nobody is waited for.
OnFinalScoreAtOnce(b, seat, name, s, score) ==
  LET j == Joined(b, seat[1])
      m == MoveTo(j, seat[1], s)
      repeated == j.machineSong[seat[1]] = s /\ j.run[seat] # None /\ j.run[seat].final = score
  IN  IF ~Heard(b, seat[1]) THEN Nothing(b)
      ELSE IF repeated THEN Nothing(j)
      ELSE IF ~InSession(m, seat[1]) THEN Nothing(m)
      ELSE Publishing(Scheduled(Upsert(m, seat, name, score, score)), <<"ScreenGameplay", "ScreenEvaluation">>)

\* handleFinalScore: a repeated final of the machine's song is ignored.
OnFinalScore(b, seat, name, s, score) ==
  LET j == Joined(b, seat[1])
      m == MoveTo(j, seat[1], s)
      repeated == j.machineSong[seat[1]] = s /\ j.run[seat] # None /\ j.run[seat].final = score
  IN  IF ~Heard(b, seat[1]) THEN Nothing(b)
      ELSE IF repeated THEN Nothing(j)
      ELSE IF ~InSession(m, seat[1]) THEN Nothing(m)
      ELSE Nothing(Scheduled(Upsert(m, seat, name, score, score)))

\* Slip: a skip cancels the completion that is pending.
OnSkippedCancels(b, seat, s) ==
  LET j == Joined(b, seat[1])
      left == [j EXCEPT !.run[seat] = None]
  IN  IF ~Heard(b, seat[1]) THEN Nothing(b)
      ELSE IF ~(InSession(j, seat[1]) /\ j.machineSong[seat[1]] = s /\ j.run[seat] # None)
      THEN Nothing(j)
      ELSE Publishing([left EXCEPT !.flushTimer = "none"], <<"ScreenGameplay">>)

\* discardEphemeral: a skipped song takes its player out of the session.
OnSkipped(b, seat, s) ==
  LET j == Joined(b, seat[1])
      left == [j EXCEPT !.run[seat] = None]
  IN  IF ~Heard(b, seat[1]) THEN Nothing(b)
      ELSE IF ~(InSession(j, seat[1]) /\ j.machineSong[seat[1]] = s /\ j.run[seat] # None)
      THEN Nothing(j)
      ELSE Publishing(IF j.flushTimer = "none" THEN left ELSE Scheduled(left),
                      <<"ScreenGameplay">>)

\* Slip: a run that is not over is completed with the others.
FlushedWhole(b) ==
  LET f == [b EXCEPT !.flushTimer = "none"]
  IN  IF SessionPlayers(f) = {} THEN Nothing(f)
      ELSE Publishing([f EXCEPT !.isCompleted = TRUE], <<"ScreenGameplay", "ScreenEvaluation">>)

\* flush: who never finished is left out, and the rest is the song's result.
Flushed(b) ==
  LET f == [b EXCEPT !.flushTimer = "none",
              !.run = [seat \in Seat |-> IF seat \in Unfinished(b) THEN None ELSE @[seat]]]
  IN  IF SessionPlayers(f) = {} THEN Nothing(f)
      ELSE Publishing([f EXCEPT !.isCompleted = TRUE], <<"ScreenGameplay", "ScreenEvaluation">>)

\* hasFinished
HasFinished(b, a) ==
  LET seats == {seat \in Seat : seat[1] = a /\ b.run[seat] # None}
  IN  seats # {} /\ \A seat \in seats : b.run[seat].final # None

\* Slip: the players of a quiet machine stay.
EvictedInPart(b, quiet) ==
  LET gone == {a \in quiet \cap b.machines : ~(b.flushTimer # "none" /\ HasFinished(b, a))}
  IN  Nothing([b EXCEPT !.machines = @ \ gone])

\* evictIdleMachines: the quiet machines go, but for one that has finished
\* while a completion is pending; a completed song is left alone.
Evicted(b, quiet) ==
  LET gone == {a \in quiet \cap b.machines : ~(b.flushTimer # "none" /\ HasFinished(b, a))}
      e == [b EXCEPT !.machines = @ \ gone,
              !.run = [seat \in Seat |-> IF seat[1] \in gone THEN None ELSE @[seat]],
              !.machineSong = [a \in Address |-> IF a \in gone THEN None ELSE @[a]]]
  IN  IF gone = {} \/ b.isCompleted THEN Nothing(e)
      ELSE Publishing(IF b.flushTimer = "none" THEN e ELSE Scheduled(e), <<"ScreenGameplay">>)

-----------------------------------------------------------------------------
(* publish: a snapshot that repeats the last one is not sent.  The two of  *)
(* a completion differ, so only the first can be a repetition.             *)

Sent(p) ==
  LET snapshots == [i \in DOMAIN p.screens |-> Snapshot(p.bridge, p.screens[i])]
  IN  IF snapshots # <<>> /\ Head(snapshots) = current THEN Tail(snapshots) ELSE snapshots

\* The bridge takes a datagram or a timer in, and its state is the last snapshot.
Takes(p) ==
  /\ BridgeIs(p.bridge)
  /\ current' = IF Sent(p) = <<>> THEN current ELSE Last(Sent(p))

-----------------------------------------------------------------------------
(* The cabinets, which the bridge knows by their broadcasts only.          *)

SeatsOf(a) == {seat \in Seat : seat[1] = a}

\* Nobody on the cabinet is playing: it selects a song, for who stands there.
Select(a, s, names) ==
  /\ plays < MaxPlays
  /\ \A seat \in SeatsOf(a) : cabinet[seat].phase # "playing"
  /\ plays' = plays + 1
  /\ cabinet' = [seat \in Seat |->
       IF seat \in SeatsOf(a) THEN [song |-> s, player |-> names[seat], phase |-> "menu", final |-> None]
       ELSE cabinet[seat]]

\* Gameplay starts on the sides that joined; what was finished is played again.
Begin(a) ==
  /\ Hasty \/ flushTimer = "none" \/ \A seat \in SeatsOf(a) : run[seat] = None
  /\ \A seat \in SeatsOf(a) : cabinet[seat].song # None /\ cabinet[seat].phase # "playing"
  /\ LET again == \E seat \in SeatsOf(a) : cabinet[seat].final # None
     IN  /\ again => plays < MaxPlays
         /\ plays' = IF again THEN plays + 1 ELSE plays
  /\ cabinet' = [seat \in Seat |->
       IF seat \in SeatsOf(a) THEN [cabinet[seat] EXCEPT !.phase = "playing", !.final = None]
       ELSE cabinet[seat]]

Finish(seat, score) ==
  /\ cabinet[seat].phase = "playing"
  /\ cabinet' = [cabinet EXCEPT ![seat].phase = "done", ![seat].final = score]
  /\ UNCHANGED plays

Skip(seat) ==
  /\ cabinet[seat].phase = "playing"
  /\ cabinet' = [cabinet EXCEPT ![seat].phase = "menu"]
  /\ UNCHANGED plays
=============================================================================
