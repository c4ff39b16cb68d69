---------------------- MODULE LiveProjectionProperties ----------------------
(***************************************************************************)
(* What a page may rely on.                                                *)
(***************************************************************************)
EXTENDS LiveProjection

Event   == {Stages[i] : i \in DOMAIN Stages}
Message == [event: Event, song: Song \cup {None}]
Version == 0..MaxWrites

\* Everything is of its kind; what a socket has seen is no later than what the
\* service has sent as long as the service stays up, a snapshot comes first on
\* a connection, and the frames behind it follow one another without a gap.
TypeOK ==
  /\ version \in Version /\ unsaid \in BOOLEAN /\ lost \in BOOLEAN
  /\ server.live \in Message \cup {None} /\ view \in Message \cup {None}
  /\ Len(server.cache) <= Len(Stages) /\ \A i \in DOMAIN server.cache : server.cache[i] \in Message
  /\ page.shown \in Version \cup {None} /\ page.fetch \in Version \cup {Asked, None}
  /\ \A path \in Path : LET s == socket[path]  q == s.queue IN
       /\ q # <<>> => s.open /\ Last(q).sequence = server.sequence
       /\ s.open /\ q = <<>> => s.last = server.sequence
       /\ \A i \in DOMAIN q : q[i].ready => i = 1
       /\ \A i \in 2..Len(q) : q[i].sequence = q[i - 1].sequence + 1

\* Whatever broke on the way, the page ends up showing what the database holds,
\* unless a change was published to nobody and no other came after it.  (A page
\* that is not yet up, and a service that comes back counting from zero, are
\* what Early and lost stand for.)
PageCatchesUp == <>[](lost \/ (page.shown = version /\ ~unsaid))

\* "Connecting is itself the snapshot" (useRealtimeSocket.ts): once nothing is
\* on its way to it, a connected socket shows the lobby as the service last
\* heard of it, or the last message of a snapshot taken since.  The two differ
\* when a lobby goes on to its next song: the Map of the snapshot keeps an
\* event in the place it first had, so that an older one may come last.
ViewIsLatest ==
  server.live # None /\ socket["live"].open /\ socket["live"].queue = <<>> =>
    view \in {server.live, Last(server.cache)}
=============================================================================
