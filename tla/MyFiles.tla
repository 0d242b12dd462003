------------------------------- MODULE MyFiles -------------------------------
(***************************************************************************)
(* A phone's own files in src/assets/js/app.js: the gate and who is signed *)
(* in, the file that was picked and its upload to the stream host, and the *)
(* Library, the list of what the account has there.  Two people use the    *)
(* phone one after the other.  A request is made, reaches its host, and is *)
(* answered, each at its own time; the host's files are module FileShelf's.*)
(***************************************************************************)
EXTENDS Naturals, FiniteSets

CONSTANTS
  People, Files,
  None,
  MaxTurns    \* bound: what people do

VARIABLES
  cookie,     \* the account the browser's cookie names; none when it has ended
  me,         \* the account the page believes in; none behind the gate
  form,       \* the gate's form and the sign-out button: still, sent, leaving
  pick,       \* the file that was picked, and whose address the host gave for it
  panel,      \* what the panel below it shows: none, send, sending, done, error
  unsaid,     \* history: the session lapsed under the upload the panel shows
  xhr,        \* uploadXhr: the upload that Stop would stop
  ups,        \* the uploads under way: which send, their file, whose, and where they are
  shelf,      \* the files on the stream host, with their owners
  list,       \* libraryFiles: whose it is, and the files
  stale,      \* libraryStale
  asks,       \* the requests about the library: for a list, or to delete a file
  gone,       \* history: files whose deletion was confirmed on this phone
  turns

session == <<cookie, me, form>>
upload == <<pick, panel, unsaid, xhr, ups>>
library == <<list, stale, asks, gone>>
vars == <<session, upload, shelf, library, turns>>

NoList == [who |-> None, files |-> {}]
Up == [no : 1..MaxTurns, file : Files, who : People \cup {None}, at : {"ticket", "answer", "sending", "kept", "refused"}]
\* live: the answer that the run token lets in; who: the account of the ticket.
Ask == [file : Files \cup {None}, who : People \cup {None}, live : BOOLEAN,
        at : {"ticket", "answer", "call", "said"}, said : SUBSET Files]

\* Types: the page's account and panel, the uploads, and the host's shelf.
TypeOK ==
  /\ cookie \in People \cup {None} /\ me \in People \cup {None} /\ form \in {"still", "sent", "leaving"}
  /\ pick \in [file : Files \cup {None}, remote : Files \cup {None}]
  /\ panel \in {"none", "send", "sending", "done", "error"}
  /\ xhr \in 1..MaxTurns \cup {None} /\ ups \subseteq Up
  /\ shelf \subseteq [file : Files, who : People] /\ list \in [who : People \cup {None}, files : SUBSET Files]
  /\ stale \in BOOLEAN /\ unsaid \in BOOLEAN /\ asks \subseteq Ask
  /\ gone \subseteq [file : Files, who : People] /\ turns \in 0..MaxTurns

Init ==
  /\ cookie = None /\ me = None /\ form = "still"
  /\ pick = [file |-> None, remote |-> None] /\ panel = "none" /\ unsaid = FALSE /\ xhr = None /\ ups = {}
  /\ shelf = {} /\ list = NoList /\ stale = TRUE /\ asks = {} /\ gone = {} /\ turns = 0

Turn == turns < MaxTurns /\ turns' = turns + 1

-----------------------------------------------------------------------------
(* The gate. *)

\* handleAuthLapse: the door is put back, and the list is one account's own.
Lapse == me' = None /\ list' = NoList /\ stale' = TRUE

Submit ==
  /\ me = None /\ form = "still" /\ Turn /\ form' = "sent"
  /\ UNCHANGED <<cookie, me, upload, shelf, library>>

\* One of the people, or no connection.
Answered ==
  /\ form = "sent" /\ form' = "still"
  /\ \/ \E p \in People : cookie' = p /\ me' = p
     \/ UNCHANGED <<cookie, me>>
  /\ UNCHANGED <<upload, shelf, library, turns>>

Leave ==
  /\ me # None /\ form = "still" /\ Turn /\ form' = "leaving"
  /\ UNCHANGED <<cookie, me, upload, shelf, library>>

\* Whether or not the request arrived, the gate comes back.
Left ==
  /\ form = "leaving" /\ form' = "still" /\ cookie' \in {None, cookie} /\ Lapse
  /\ UNCHANGED <<upload, shelf, asks, gone, turns>>

\* The session ends at the server, unknown to the page.
Expires ==
  /\ cookie # None /\ Turn /\ cookie' = None
  /\ UNCHANGED <<me, form, upload, shelf, library>>

-----------------------------------------------------------------------------
(* The file on the phone. *)
Pick(f) ==
  /\ me # None /\ Turn /\ pick' = [file |-> f, remote |-> None] /\ panel' = "send"
  /\ unsaid' = FALSE
  /\ UNCHANGED <<session, xhr, ups, shelf, library>>

\* Only uploadXhr holds it back: while a ticket is out, a file can be picked again and sent again.
Send ==
  /\ me # None /\ panel \in {"send", "error"} /\ xhr = None /\ Turn
  /\ ups' = ups \cup {[no |-> turns', file |-> pick.file, who |-> None, at |-> "ticket"]} /\ panel' = "sending"
  /\ unsaid' = FALSE /\ UNCHANGED <<session, pick, xhr, shelf, library>>

Moves(u, at) == ups' = (ups \ {u}) \cup {[u EXCEPT !.at = at]}

\* /api/ticket answers by the cookie of that moment.
TicketLands(u) ==
  /\ u.at = "ticket" /\ ups' = (ups \ {u}) \cup {[u EXCEPT !.at = "answer", !.who = cookie]}
  /\ UNCHANGED <<session, pick, panel, unsaid, xhr, shelf, library, turns>>

\* A 401 is a lapse, and nothing is drawn.
TicketHeard(u) ==
  /\ u.at = "answer"
  /\ IF u.who # None
     THEN Moves(u, "sending") /\ xhr' = u.no /\ UNCHANGED <<me, list, stale, unsaid>>
     ELSE ups' = ups \ {u} /\ xhr' = None /\ Lapse /\ unsaid' = TRUE
  /\ UNCHANGED <<cookie, form, pick, panel, shelf, asks, gone, turns>>

TicketLost(u) ==
  /\ u.at \in {"ticket", "answer"} /\ ups' = ups \ {u} /\ xhr' = None
  /\ panel' = IF pick.file = None THEN panel ELSE IF pick.remote = None THEN "error" ELSE "done"
  /\ UNCHANGED <<session, pick, unsaid, shelf, library, turns>>

\* Bytes go up, and the panel is drawn again.
Progress(u) ==
  /\ u.at = "sending" /\ panel # "sending" /\ pick.remote = None /\ panel' = "sending"
  /\ UNCHANGED <<session, pick, unsaid, xhr, ups, shelf, library, turns>>

\* The host has it all, and answers; or refuses.
HostDecides(u) ==
  /\ u.at = "sending"
  /\ \/ shelf' = shelf \cup {[file |-> u.file, who |-> u.who]} /\ Moves(u, "kept")
        /\ gone' = gone \ {[file |-> u.file, who |-> u.who]}
     \/ Moves(u, "refused") /\ UNCHANGED <<shelf, gone>>
  /\ UNCHANGED <<session, pick, panel, unsaid, xhr, list, stale, asks, turns>>

\* load: the address is given to whatever is picked now.
Sent(u) ==
  /\ u.at = "kept" /\ ups' = ups \ {u} /\ xhr' = None
  /\ pick' = [pick EXCEPT !.remote = u.file] /\ panel' = "done" /\ stale' = TRUE
  /\ UNCHANGED <<session, unsaid, shelf, list, asks, gone, turns>>

\* Refused, or not reached, or the answer is lost.
SendFails(u) ==
  /\ u.at \in {"sending", "kept", "refused"} /\ ups' = ups \ {u} /\ xhr' = None
  /\ panel' = IF pick.remote = None THEN "error" ELSE "done"
  /\ UNCHANGED <<session, pick, unsaid, shelf, library, turns>>

\* A mutant's stop, without the abort event's redraw.
StopUndrawn ==
  /\ panel = "sending" /\ xhr # None
  /\ \E u \in ups : u.no = xhr /\ u.at \notin {"ticket", "answer"} /\ ups' = ups \ {u}
  /\ xhr' = None
  /\ UNCHANGED <<session, pick, panel, unsaid, shelf, library, turns>>

\* Stop sending: abort, and the panel says that nothing was left on the host.
Stop ==
  /\ panel = "sending" /\ xhr # None
  /\ \E u \in ups : u.no = xhr /\ u.at \notin {"ticket", "answer"} /\ ups' = ups \ {u}
  /\ xhr' = None /\ panel' = "error"
  /\ UNCHANGED <<session, pick, unsaid, shelf, library, turns>>

-----------------------------------------------------------------------------
(* The Library. *)
New(f) == [file |-> f, who |-> None, live |-> f = None, at |-> "ticket", said |-> {}]
Outrun == {[a EXCEPT !.live = FALSE] : a \in asks}

\* renderLibrary: every call is a newer run; what is not stale is drawn again.
Open(force) ==
  /\ me # None /\ Turn
  /\ asks' = IF stale \/ force THEN Outrun \cup {New(None)} ELSE Outrun
  /\ UNCHANGED <<session, upload, shelf, list, stale, gone>>

Delete(f) ==
  /\ me # None /\ f \in list.files /\ Turn
  /\ ~\E a \in asks : a.file = f
  /\ asks' = asks \cup {New(f)}
  /\ UNCHANGED <<session, upload, shelf, list, stale, gone>>

AskLands(a) ==
  /\ a.at = "ticket" /\ asks' = (asks \ {a}) \cup {[a EXCEPT !.at = "answer", !.who = cookie]}
  /\ UNCHANGED <<session, upload, shelf, list, stale, gone, turns>>

AskHeard(a) ==
  /\ a.at = "answer"
  /\ IF a.who # None
     THEN asks' = (asks \ {a}) \cup {[a EXCEPT !.at = "call"]} /\ UNCHANGED <<me, list, stale>>
     ELSE asks' = asks \ {a} /\ Lapse
  /\ UNCHANGED <<cookie, form, upload, shelf, gone, turns>>

\* The host answers about the account in the ticket, and removes only its own.
HostSays(a) ==
  LET own == {s.file : s \in {s \in shelf : s.who = a.who}} IN
  /\ a.at = "call"
  /\ asks' = (asks \ {a}) \cup {[a EXCEPT !.at = "said", !.said = own]}
  /\ shelf' = {s \in shelf : s.file # a.file \/ s.who # a.who}
  /\ UNCHANGED <<session, upload, list, stale, gone, turns>>

\* A mutant's answer, before there were runs.
ListSaidAnyRun(a) ==
  /\ a.at = "said" /\ a.file = None /\ asks' = asks \ {a}
  /\ list' = [who |-> a.who, files |-> a.said] /\ stale' = FALSE
  /\ UNCHANGED <<session, upload, shelf, gone, turns>>

\* The newest run's answer is the list.
ListSaid(a) ==
  /\ a.at = "said" /\ a.file = None /\ asks' = asks \ {a}
  /\ IF a.live THEN list' = [who |-> a.who, files |-> a.said] /\ stale' = FALSE
     ELSE UNCHANGED <<list, stale>>
  /\ UNCHANGED <<session, upload, shelf, gone, turns>>

\* Deleted: the list is stale, and asked for again.
DeleteSaid(a) ==
  /\ a.at = "said" /\ a.file # None /\ gone' = (gone \cup {[file |-> a.file, who |-> a.who]}) \ shelf
  /\ asks' = {[b EXCEPT !.live = FALSE] : b \in asks \ {a}} \cup {New(None)} /\ stale' = TRUE
  /\ UNCHANGED <<session, upload, shelf, list, turns>>

AskLost(a) ==
  /\ asks' = asks \ {a}
  /\ UNCHANGED <<session, upload, shelf, list, stale, gone, turns>>

-----------------------------------------------------------------------------
UpStep(u) == TicketLands(u) \/ TicketHeard(u) \/ TicketLost(u) \/ Progress(u) \/ HostDecides(u) \/ Sent(u) \/ SendFails(u)
AskStep(a) == AskLands(a) \/ AskHeard(a) \/ HostSays(a) \/ ListSaid(a) \/ DeleteSaid(a) \/ AskLost(a)
Next ==
  \/ Submit \/ Answered \/ Leave \/ Left \/ Expires \/ Send \/ Stop
  \/ \E f \in Files : Pick(f) \/ Delete(f)
  \/ \E force \in BOOLEAN : Open(force)
  \/ \E u \in ups : UpStep(u)
  \/ \E a \in asks : AskStep(a)
Spec == Init /\ [][Next]_vars

-----------------------------------------------------------------------------
Quiet == ~\E a \in asks : a.live \/ a.file # None

\* A file whose deletion was confirmed does not come back on screen with an answer
\* that was read before it: the newest run decides.
DeletedStaysGone == Quiet /\ ~stale => \A f \in list.files : [file |-> f, who |-> list.who] \notin gone

\* "Sending" is shown while something is sent: every end of an upload draws the panel
\* again, but for the one whose ticket was refused because the session had lapsed.
SendingIsSent == panel = "sending" /\ ups = {} => unsaid

-----------------------------------------------------------------------------
(* Stated by the code and not kept by it. *)

\* "The next person to sign in on this phone would open it and see the last person's
\* list" (app.js:8191): an answer that is heard after the lapse fills it again.
LibraryIsMine == me # None /\ list.who # None => list.who = me

\* "It is on the stream host and playing from there": the address is that of the file
\* that was sent, not of the one that was picked since.
RemoteIsItsFile == pick.remote \in {None, pick.file}

\* "The cookie is gone either way" (app.js:5317): a sign-out that did not arrive leaves it.
SignedOutIsOut == [][form = "leaving" /\ form' = "still" => cookie' = None]_vars

\* What was sent is in the Library from then on (app.js:8589): an answer read before the
\* upload ended makes the list fresh again.
SentIsListed ==
  Quiet /\ ~stale /\ panel = "done" => \A s \in shelf : s.file = pick.remote /\ s.who = list.who => s.file \in list.files

\* "Stopped. Nothing was left on the host."
StoppedLeavesNothing == [][xhr # None /\ xhr' = None /\ panel' = "error" /\ ups' # ups
                           => \A u \in ups \ ups' : u.at # "kept"]_vars
=============================================================================
