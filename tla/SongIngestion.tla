----------------------------- MODULE SongIngestion -----------------------------
(***************************************************************************)
(* CompletedSongService: a completion that was posted to the API becomes   *)
(* recorded runs, and standings of the rounds that were waiting for them.  *)
(* The handler awaits between its statements; a crash of the API leaves    *)
(* what it saved and forgets the completions it knew.                      *)
(* No match here has a tiebreak to play: an open one of the song would be  *)
(* looked for before any round (match.queries.ts:433).                     *)
(***************************************************************************)
EXTENDS Integers, FiniteSets, Sequences

CONSTANTS
  Seat, Player, Song, Final, Half, None,
  Match,     \* matches of one song round each, numbered by age
  RoundSong, \* [Match -> Song]
  Entrants,  \* [Match -> SUBSET Player]
  Roster,    \* the names the tournament knows
  Pool,      \* the songs of its pool
  Typed      \* a standing that an operator typed

VARIABLES
  job,         \* the submit() under way: its completion and progress, or Idle
  completions, \* CompletedSongService.completions
  recorded,    \* rows of the score table: <<player, song, score>>
  active,      \* matches that are being played
  standing     \* [Match -> [Player -> the score of its standing]]

apiVars == <<job, completions, recorded, active, standing>>

Idle == [completion |-> None, at |-> "idle", runs |-> {}, targets |-> {}]

IngestionInit ==
  /\ job = Idle
  /\ completions = {}
  /\ recorded = {}
  /\ active = Match
  /\ standing = [m \in Match |-> [p \in Player |-> None]]

\* Slip: a song is recorded once.
SeenSong(c) == \E id \in completions : id[1] = c.song

\* submit returns at once for a completion that it has seen.
Seen(c) == c.id \in completions

Submit(c) ==
  /\ job.at = "idle"
  /\ job' = IF Seen(c) THEN job
            ELSE [completion |-> c, at |-> "record", runs |-> {}, targets |-> {}]
  /\ UNCHANGED <<completions, recorded, active, standing>>

\* resolve: who is known, on a song of the pool; the others are warned about.
Resolved(c) ==
  IF c.song \notin Pool THEN {}
  ELSE {<<c.scores[seat].player, c.scores[seat].exScore>> :
          seat \in {s \in Seat : c.scores[s] # None /\ c.scores[s].player \in Roster}}

\* The runs are recorded whether or not a round waits for them.
RecordRuns ==
  /\ job.at = "record"
  /\ LET runs == Resolved(job.completion)
     IN  /\ recorded' = recorded \cup {<<r[1], job.completion.song, r[2]>> : r \in runs}
         /\ job' = [job EXCEPT !.at = "targets", !.runs = runs]
  /\ UNCHANGED <<completions, active, standing>>

\* liveTargetsForSong: for each player the oldest active match that holds a
\* round of the song and no standing of theirs in it; of rounds only.
Waiting(p, song) ==
  {m \in active : RoundSong[m] = song /\ p \in Entrants[m] /\ standing[m][p] = None}

Oldest(ms) == CHOOSE m \in ms : \A n \in ms : m <= n

FindTargets ==
  /\ job.at = "targets"
  /\ job' = [job EXCEPT !.at = "apply",
               !.targets = {<<Oldest(Waiting(r[1], job.completion.song)), r[1], r[2]>> :
                  r \in {x \in job.runs : Waiting(x[1], job.completion.song) # {}}}]
  /\ UNCHANGED <<completions, recorded, active, standing>>

\* applyCompletedSong: every run of a match at once, one match after another.
ApplyTo(m) ==
  /\ job.at = "apply"
  /\ \E t \in job.targets : t[1] = m
  /\ standing' = [standing EXCEPT ![m] = [p \in Player |->
       IF \E t \in job.targets : t[1] = m /\ t[2] = p
       THEN (CHOOSE t \in job.targets : t[1] = m /\ t[2] = p)[3]
       ELSE @[p]]]
  /\ job' = [job EXCEPT !.targets = {t \in @ : t[1] # m}]
  /\ UNCHANGED <<completions, recorded, active>>

\* The completion is remembered once all of it is written.
Remember ==
  /\ job.at = "apply" /\ job.targets = {}
  /\ completions' = completions \cup {job.completion.id}
  /\ job' = Idle
  /\ UNCHANGED <<recorded, active, standing>>

\* The API restarts: a submission under way is cut off where it is.
ApiCrash ==
  /\ job' = Idle
  /\ completions' = {}
  /\ UNCHANGED <<recorded, active, standing>>

\* An operator types a standing, removes one, or ends the playing of a match.
TypeStanding(m, p) ==
  /\ m \in active /\ p \in Entrants[m]
  /\ standing' = [standing EXCEPT ![m][p] = Typed]
  /\ UNCHANGED <<job, completions, recorded, active>>

RemoveStanding(m, p) ==
  /\ m \in active /\ standing[m][p] # None
  /\ standing' = [standing EXCEPT ![m][p] = None]
  /\ UNCHANGED <<job, completions, recorded, active>>

Deactivate(m) ==
  /\ m \in active
  /\ active' = active \ {m}
  /\ UNCHANGED <<job, completions, recorded, standing>>
=============================================================================
