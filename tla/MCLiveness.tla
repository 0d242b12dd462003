----------------------------- MODULE MCLiveness -----------------------------
(***************************************************************************)
(* The parts of the app that have to come to something, on small           *)
(* instances, one at a time, as in MCSafety: TV mode's room, the stream    *)
(* host's shelf, the film on the phone, Bilibili's sign-in.                *)
(***************************************************************************)
EXTENDS TvRoom

CONSTANTS None, Files, Hands, Timer,
          Hours, Crashes, Turns    \* bounds: of the shelf's clock and its crashes, of acts

ASSUME LivenessBounds ==
  /\ Timer \notin Hands
  /\ {Hours, Crashes, Turns} \subseteq Nat

\* Bilibili's cookies as a person pastes them: both, the one, or without a name.
Cookie(site, of, id) == [site |-> site, sess |-> [of |-> of, id |-> id]]
Pasted == {{Cookie("com", "com", 91), Cookie("tv", "tv", 92)}, {Cookie("tv", "tv", 92)},
           {Cookie(None, "tv", 92)}}

\* Two films: one with an HLS address, a file and a DASH one; one with a file.
Sets   == {<<"a1", "a2", "d1">>, <<"b1">>}
Addrs  == {"a1", "a2", "d1", "b1"}
Kinded == [a \in Addrs |-> CASE a = "a1" -> "hls" [] a = "d1" -> "dash" [] OTHER -> "file"]

-----------------------------------------------------------------------------

VARIABLES
  part,                    \* which part goes
  fileParts, media, metas, expires, mtime, up, job, now, swept, crashes, promise, touched,   \* FileShelf
  apple, current, sources, place, tried, autoUsed, proxied, elem, dash, opening, library,
  seeks, pos, saved, switching, stirs, status, where, filmTv, opens, filmTurns,   \* PhonePlayer
  appSession, gate, jar, ended, keys, open, panel, code, biliPoll, ticking, shown, unsaid, net,
  biliTurns   \* BiliSignIn

shelves == <<fileParts, media, metas, expires, mtime, up, job, now, swept, crashes,
             promise, touched>>
play    == <<apple, current, sources, place, tried, autoUsed, proxied, elem, dash, opening,
             library, seeks, pos, saved, switching, stirs, status, where, filmTv, opens,
             filmTurns>>
signin  == <<appSession, gate, jar, ended, keys, open, panel, code, biliPoll, ticking, shown, unsaid,
             net, biliTurns>>

S == INSTANCE FileShelf WITH
  Keeps <- {0, 1}, FILE_TTL <- 2, TMP_TTL <- 1, MaxNow <- Hours, MaxCrashes <- Crashes,
  parts <- fileParts
P == INSTANCE PhonePlayer WITH
  Films <- Sets, Kind <- Kinded, AutoMax <- 2, MaxOpens <- 2, MaxTurns <- 1, tv <- filmTv,
  turns <- filmTurns
B == INSTANCE BiliSignIn WITH
  Pastes <- Pasted, Replacements <- 1, MaxKeys <- 2, MaxNet <- 2, MaxTurns <- Turns + 1,
  session <- appSession, poll <- biliPoll, turns <- biliTurns

\* A part that does not go has one initial state.
PartsInit ==
  /\ part \in {"room", "race", "shelves", "play", "signin"}
  /\ Init /\ S!Init /\ P!Init /\ (part # "play" => apple /\ where = "phone" /\ saved = [a \in Addrs |-> None])
  /\ B!Init

\* The part that goes, and the others, which stay.
Rest(p) ==
  /\ part = p /\ UNCHANGED part
  /\ (p \notin {"room", "race"} => UNCHANGED vars) /\ (p # "shelves" => UNCHANGED shelves)
  /\ (p # "play" => UNCHANGED play)          /\ (p # "signin" => UNCHANGED signin)

\* The room twice: a queue that is outrun, by one phone with one request at a time; and
\* phones and requests that race, over two commands and no reload.
RoomGoes     == Rest("room") /\ Next /\ Cardinality(made') <= 1 /\ Cardinality(reqs') <= 1
RaceGoes     == Rest("race") /\ Next /\ seq' <= 2 /\ reloads' = 0 /\ \A r \in reqs' : r.kind # "other"
ShelvesGoes  == Rest("shelves") /\ S!Next
PlayGoes     == Rest("play") /\ P!Next
SigninGoes   == Rest("signin") /\ B!Next

PartsNext ==
  \/ RoomGoes \/ RaceGoes \/ ShelvesGoes \/ PlayGoes \/ SigninGoes

parts == <<part, vars, shelves, play, signin>>

LivenessSpec ==
  /\ PartsInit /\ [][PartsNext]_parts
  \* storage.js: the event loop runs what it was handed, and the timer fires.
  /\ WF_parts(Rest("shelves") /\ S!Sweep(Timer))
  /\ \A j \in Hands \cup {Timer} : WF_parts(Rest("shelves") /\ S!Serve(j))
  /\ \A f \in Files : WF_parts(Rest("shelves") /\ (S!Rename(f) \/ S!OpenMeta(f) \/ S!WriteMeta(f)))
  \* A browser settles what it was given to play, and what it asked for.
  /\ WF_parts(Rest("play") /\ P!Stirs) /\ WF_parts(Rest("play") /\ P!ShakaSays)
  /\ WF_parts(Rest("play") /\ (P!Metadata \/ P!HlsFails \/ P!ElementFails))
  /\ WF_parts(Rest("signin") /\ B!Settling)

-----------------------------------------------------------------------------
\* The types of the part that goes.
TypesOK ==
  CASE part \in {"room", "race"} -> TypeOK [] part = "shelves" -> S!TypeOK
    [] part = "play" -> P!TypeOK    [] part = "signin" -> B!TypeOK

\* A file past its time does not stay (FileShelf: storage.js sweep).
OverdueLeaves == S!OverdueLeaves

\* A film's addresses are not tried for ever (PhonePlayer: app.js playSource, fail).
FailureIsSaid == P!FailureIsSaid

\* The sign-in panel comes to say something, unless a lapse of the app's own session left it
\* unsaid (BiliSignIn: app.js startBiliLogin, refreshBili).
PanelSettles == B!PanelSettles
=============================================================================
