------------------------------ MODULE LobbyReader ------------------------------
(***************************************************************************)
(* LobbyStateInterpreter: what the tournament reads out of the snapshots   *)
(* of a lobby.  A reader is what it remembers of the snapshots so far; it  *)
(* knows a player by side and name, and of the transitions only a selected *)
(* song and a completed song change anything but a display.                *)
(***************************************************************************)
EXTENDS Integers

CONSTANTS Seat, Player, Song, None

\* playerKey
Keys == {1, 2} \X Player

NewReader ==
  [ screens |-> [key \in Keys |-> None],  \* screenByPlayerKey
    song |-> None,                         \* previousSongKey
    signature |-> None ]                   \* lastCompletedSignature

Present(state) == {seat \in Seat : state.players[seat] # None}

KeyOf(state, seat) == <<seat[2], state.players[seat].player>>

Signature(state) ==
  <<state.song, {<<KeyOf(state, seat), state.players[seat].exScore>> : seat \in Present(state)}>>

\* A new song forgets the last completion.
SongRead(reader, state) ==
  IF state.song \in {None, reader.song} THEN reader
  ELSE [reader EXCEPT !.song = state.song, !.signature = None]

\* A song is over when somebody last seen playing is on the evaluation.
IsOver(reader, state) ==
  /\ state.song # None
  /\ state.screen = "ScreenEvaluation"
  /\ \E seat \in Present(state) : reader.screens[KeyOf(state, seat)] = "ScreenGameplay"

Completes(reader, state) ==
  IsOver(reader, state) /\ SongRead(reader, state).signature # Signature(state)

Interpret(reader, state) ==
  [ SongRead(reader, state) EXCEPT
      !.signature = IF Completes(reader, state) THEN Signature(state) ELSE @,
      !.screens = [key \in Keys |->
         IF \E seat \in Present(state) : KeyOf(state, seat) = key THEN state.screen ELSE @[key]] ]
=============================================================================
