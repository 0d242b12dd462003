------------------------------ MODULE CastLog ------------------------------
(***************************************************************************)
(* The log of a cast on its way to the server: src/assets/js/app.js        *)
(* castLogKeep and castLogFlush, the timer, the beacon of a page that      *)
(* leaves, and the append of src/api/castlog.js.                           *)
(*                                                                         *)
(* A line is a number; "Film chosen", which always goes with a line, is    *)
(* left out, and so is the server's sweep of old rows.  Bounds: MaxLines   *)
(* lines, QueueCap of them in a queue or a batch (400), PreCap waiting for *)
(* a film (200), MaxFaults requests that fail, MaxTurns changes of film,   *)
(* of person or of page.                                                   *)
(***************************************************************************)
EXTENDS Naturals, FiniteSets, SequencesExt

CONSTANTS Films, People, None, MaxLines, QueueCap, PreCap, MaxFaults, MaxTurns

VARIABLES
  me,       \* who is signed in, or None
  current,  \* the film the page is about, or None
  session,  \* castLogSession: its number and its film, number 0 before the first
  queue,    \* castLogQueue
  pre,      \* castLogPre
  timer,    \* castLogTimer is set
  posts,    \* requests in flight
  logs,     \* history: logs[i] the film of session i, each under an id of its own
  said,     \* history: said[n]: the film and the person of line n
  stored,   \* stored[i]: the lines under session i on the server, with whose they are
  lost,     \* history: <<line, why>> of the lines that were let go
  faults, turns

vars == <<me, current, session, queue, pre, timer, posts, logs, said, stored, lost, faults, turns>>

NoSession == [id |-> 0, film |-> None]
Lines     == 1..Len(said)

Newest(s, n)  == SubSeq(s, IF Len(s) > n THEN Len(s) - n + 1 ELSE 1, Len(s))
Cut(s, n)     == ToSet(s) \ ToSet(Newest(s, n))
LostFor(why, S) == lost' = lost \cup (S \X {why})

Init ==
  /\ me \in People \cup {None} /\ current = None
  /\ session = NoSession /\ queue = <<>> /\ pre = <<>> /\ timer = FALSE
  /\ posts = {} /\ logs = <<>> /\ said = <<>> /\ stored = <<>>
  /\ lost = {} /\ faults = 0 /\ turns = 0

\* castLogFlush: the queue goes out under the session that is on.  A beacon is
\* not heard of again.
Batch(how) == [id |-> session.id, who |-> me, lines |-> queue, how |-> how, landed |-> FALSE]
Sendable   == session # NoSession /\ queue # <<>> /\ me # None

Flush(how) ==
  /\ timer' = FALSE
  /\ IF Sendable
     THEN posts' = posts \cup {Batch(how)} /\ queue' = <<>>
     ELSE UNCHANGED <<posts, queue>>

\* Bug to catch: what waits is never cut.
WaitUncut(n) ==
  /\ pre' = Append(pre, n)
  /\ UNCHANGED <<session, queue, timer, posts, logs, stored, lost>>

\* Line n waits for a film, or for somebody to sign in.
Wait(n) ==
  /\ pre' = Newest(Append(pre, n), PreCap)
  /\ LostFor("early", Cut(Append(pre, n), PreCap))
  /\ UNCHANGED <<session, queue, timer, posts, logs, stored>>

\* Bug to catch: the new session begins before the old one's lines are out.
NewFilmFirst(n) ==
  LET fresh == [id |-> Len(logs) + 1, film |-> current] IN
  /\ posts' = IF Sendable THEN posts \cup {[Batch("fetch") EXCEPT !.id = fresh.id]} ELSE posts
  /\ session' = fresh
  /\ logs' = Append(logs, current) /\ stored' = Append(stored, <<>>)
  /\ queue' = Append(pre, n) /\ pre' = <<>> /\ timer' = TRUE
  /\ UNCHANGED lost

\* A line of another film: the old film's lines go out under its own id, then
\* the new log begins with what waited for it.
NewFilm(n) ==
  /\ posts' = IF Sendable THEN posts \cup {Batch("fetch")} ELSE posts
  /\ session' = [id |-> Len(logs) + 1, film |-> current]
  /\ logs' = Append(logs, current) /\ stored' = Append(stored, <<>>)
  /\ queue' = Append(pre, n) /\ pre' = <<>> /\ timer' = TRUE
  /\ UNCHANGED lost

\* logCast, through castLogKeep.
Keep ==
  LET n == Len(said) + 1 IN
  /\ n <= MaxLines
  /\ said' = Append(said, [film |-> current, who |-> me])
  /\ \/ (me = None \/ current = None) /\ Wait(n)
     \/ me # None /\ current # None /\ session.film # current /\ NewFilm(n)
     \/ /\ me # None /\ current # None /\ session.film = current
        /\ queue' = Append(queue, n) /\ timer' = TRUE
        /\ UNCHANGED <<session, pre, posts, logs, stored, lost>>
  /\ UNCHANGED <<me, current, faults, turns>>

Turn == turns < MaxTurns /\ turns' = turns + 1 /\ UNCHANGED <<logs, said, stored, faults>>

\* Another film is loaded, or none is; no line is lost by that.
Choose(f) ==
  /\ Turn /\ current # f /\ current' = f
  /\ UNCHANGED <<me, session, queue, pre, timer, posts, lost>>

\* Sign in, sign out, or a session that lapses.
Sign(p) ==
  /\ Turn /\ me # p /\ (me = None \/ p = None) /\ me' = p
  /\ UNCHANGED <<current, session, queue, pre, timer, posts, lost>>

TimerFires == timer /\ Flush("fetch")
              /\ UNCHANGED <<me, current, session, pre, logs, said, stored, lost, faults, turns>>

\* The page is hidden: a beacon, or a request if the browser takes no beacon.
Hide == queue # <<>> /\ \E how \in {"beacon", "fetch"} : Flush(how)
        /\ UNCHANGED <<me, current, session, pre, logs, said, stored, lost, faults, turns>>

\* The page goes, and another is loaded: what could not be sent goes with it,
\* and nobody hears the answers that are on their way.
Leave ==
  /\ Turn /\ said # <<>>
  /\ posts' = {[p EXCEPT !.how = "beacon"] : p \in posts} \cup (IF Sendable THEN {Batch("beacon")} ELSE {})
  /\ LostFor("left", ToSet(pre) \cup (IF Sendable THEN {} ELSE ToSet(queue)))
  /\ session' = NoSession /\ queue' = <<>> /\ pre' = <<>> /\ timer' = FALSE /\ current' = None
  /\ UNCHANGED me

\* The append: one statement, the newest QueueCap lines of the batch.
Land(p) ==
  /\ ~p.landed
  /\ stored' = [stored EXCEPT ![p.id] =
                  @ \o [i \in 1..Len(Newest(p.lines, QueueCap)) |-> <<Newest(p.lines, QueueCap)[i], p.who>>]]
  /\ LostFor("batch", Cut(p.lines, QueueCap))
  /\ posts' = (posts \ {p}) \cup {[p EXCEPT !.landed = TRUE]}
  /\ UNCHANGED <<me, current, session, queue, pre, timer, logs, said, faults, turns>>

Heard(p) ==
  /\ p.landed
  /\ posts' = posts \ {p}
  /\ UNCHANGED <<me, current, session, queue, pre, timer, logs, said, stored, lost, faults, turns>>

\* Bug to catch: the lines that came since are written over.
PutBackOver(p) ==
  /\ queue' = Newest(p.lines, QueueCap) /\ timer' = TRUE
  /\ LostFor("full", Cut(p.lines, QueueCap))

\* Bug to catch: the lines are put back and nothing sends them.
PutBackIdle(p) ==
  /\ queue' = Newest(p.lines \o queue, QueueCap) /\ UNCHANGED timer
  /\ LostFor("full", Cut(p.lines \o queue, QueueCap))

\* Back in front of the lines that came since.
PutBack(p) ==
  /\ queue' = Newest(p.lines \o queue, QueueCap) /\ timer' = TRUE
  /\ LostFor("full", Cut(p.lines \o queue, QueueCap))

Unstored(p) == IF p.landed THEN {} ELSE ToSet(p.lines)

\* A dropped connection, before or after the append, or a 5xx: back in the
\* queue if its film is still on.
Fail(p) ==
  /\ faults < MaxFaults /\ faults' = faults + 1
  /\ posts' = posts \ {p}
  /\ \/ p.how = "fetch" /\ p.id = session.id /\ PutBack(p)
     \/ p.how = "fetch" /\ p.id # session.id /\ LostFor("film", Unstored(p)) /\ UNCHANGED <<queue, timer>>
     \/ p.how = "beacon" /\ LostFor("beacon", Unstored(p)) /\ UNCHANGED <<queue, timer>>
  /\ UNCHANGED <<me, current, session, pre, logs, said, stored, turns>>

\* A 4xx: the lines are let go.
Refuse(p) ==
  /\ faults < MaxFaults /\ faults' = faults + 1
  /\ ~p.landed
  /\ posts' = posts \ {p} /\ LostFor("refused", ToSet(p.lines))
  /\ UNCHANGED <<me, current, session, queue, pre, timer, logs, said, stored, turns>>

Next ==
  \/ Keep \/ TimerFires \/ Hide \/ Leave
  \/ \E f \in Films \cup {None} : Choose(f)
  \/ \E p \in People \cup {None} : Sign(p)
  \/ \E p \in posts : Land(p) \/ Heard(p) \/ Fail(p) \/ Refuse(p)

\* Timers fire and requests end; faults are few.
LandAny == \E p \in posts : Land(p)
Spec == Init /\ [][Next]_vars
FairSpec == Spec /\ WF_vars(TimerFires) /\ WF_vars(LandAny)

Stored == {line[1] : line \in UNION {ToSet(log) : log \in ToSet(stored)}}
OnTheWay == UNION {ToSet(p.lines) : p \in posts}
Lost == {l[1] : l \in lost}

\* Types: the queue, the posts on their way and the stored logs.
TypeOK ==
  /\ me \in People \cup {None} /\ current \in Films \cup {None}
  /\ session.id \in 0..Len(logs) /\ (session # NoSession => session.film = logs[session.id])
  /\ queue \in Seq(Lines) /\ pre \in Seq(Lines) /\ Len(pre) <= PreCap /\ timer \in BOOLEAN
  /\ \A p \in posts : /\ p.id \in 1..Len(logs) /\ p.who \in People
                      /\ p.lines \in Seq(Lines) /\ p.how \in {"fetch", "beacon"} /\ p.landed \in BOOLEAN
  /\ logs \in Seq(Films) /\ Len(stored) = Len(logs)
  /\ lost \subseteq Lines \X {"early", "left", "batch", "full", "film", "beacon", "refused"}
  /\ faults \in 0..MaxFaults /\ turns \in 0..MaxTurns

\* Every line is somewhere: waiting, queued, on its way, stored, or let go for
\* one of the reasons above (app.js castLogKeep, castLogFlush).
EveryLineAccounted ==
  \A n \in Lines : n \in ToSet(pre) \cup ToSet(queue) \cup OnTheWay \cup Stored \cup Lost

\* A log holds lines of its own film, and those that waited for a film or for
\* somebody to sign in (app.js castLogKeep).
LogIsOfItsFilm ==
  \A i \in 1..Len(stored) : \A j \in 1..Len(stored[i]) :
    LET line == said[stored[i][j][1]]
    IN  line.film = logs[i] \/ line.film = None \/ line.who = None

\* A line that a timer is set for is stored or let go, or nobody is signed in.
LineGoesUp ==
  \A n \in 1..MaxLines :
    (n \in ToSet(queue) /\ timer) ~> (n \in Stored \cup Lost \/ me = None)

\* Claimed by app.js castLogFlush: a dropped connection puts the lines back.
FailurePutsBack == \A n \in Lines : <<n, "film">> \notin lost

\* Claimed by db/007: one log a film and person, in the order things happened.
StoredOnce == \A i \in 1..Len(stored) : IsInjective(stored[i])

\* Claimed by api/castlog.js: scoped to whoever is asking.
OwnLines ==
  \A i \in 1..Len(stored) : \A j \in 1..Len(stored[i]) :
    said[stored[i][j][1]].who \in {stored[i][j][2], None}
=============================================================================
