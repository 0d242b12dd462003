----------------------------- MODULE FileShelf -----------------------------
(* The stream host's one folder, server/storage.js: an upload arriving,      *)
(* being named and getting its meta; a file re-dated, deleted by hand,       *)
(* cleared with everything else, or swept on the timer; the process dying    *)
(* at any await and coming back. Every await is a step of its own, so every  *)
(* request and the timer interleave.                                         *)
(*                                                                           *)
(* The clock ticks once an hour. An operation on the disk finishes in the    *)
(* hour it starts in, the process lives long enough for the fifteen-minute   *)
(* timer to finish one sweep in every hour, and an upload may stall for as   *)
(* long as it likes (the server sets no timeout on a request).               *)
EXTENDS Integers

CONSTANTS Files,      \* the ids handed out; one upload each
          Hands,      \* requests served at once, beside the timer
          Timer,      \* the sweep timer
          Keeps,      \* keep choices in hours; 0 keeps until deleted by hand
          FILE_TTL, TMP_TTL,
          MaxNow,     \* bound: hours that pass
          MaxCrashes  \* bound: times the process dies

VARIABLES
  parts,     \* tmp/<id>.part
  media,     \* files/<id>.<ext>
  metas,     \* files/<id>.meta.json: none, torn (it does not parse) or whole
  expires,   \* what a whole meta says; Forever for null
  mtime,     \* of the part, and of the file it is renamed to
  up,        \* receive(), per id: where it stands and what it is to write
  job,       \* a request or the timer: what it is doing, and its locals
  now, swept, crashes,
  promise,   \* the expiry last answered to a person, until a person removes it
  touched    \* ids somebody has tried to re-date

disk  == <<parts, media, metas, expires, mtime>>
told  == <<promise, touched>>
clock == <<now, swept, crashes>>
vars  == <<disk, up, job, clock, told>>

Jobs    == Hands \cup {Timer}
Forever == 0
Nobody  == -1    \* nothing has been answered yet
Removed == -2    \* a person removed it, and no later answer counts
Idle    == [op |-> "idle", pc |-> "idle", names |-> {}, known |-> {},
            exp |-> 0, live |-> FALSE, id |-> {}]

InFiles == ({"media"} \X media) \cup ({"meta"} \X {f \in Files : metas[f] # "none"})
InTmp   == {"part"} \X parts
ExpiryFrom(keep) == IF keep = 0 THEN Forever ELSE now + keep
DueAfter(f) == expires[f] # Forever /\ expires[f] < now
Due(f)  == expires[f] # Forever /\ expires[f] <= now

Init ==
  /\ parts = {} /\ media = {} /\ metas = [f \in Files |-> "none"]
  /\ expires = [f \in Files |-> Forever] /\ mtime = [f \in Files |-> 0]
  /\ up = [f \in Files |-> [pc |-> "new", exp |-> 0, keep |-> 0, live |-> FALSE]]
  /\ job = [j \in Jobs |-> Idle]
  /\ now = 0 /\ swept = FALSE /\ crashes = 0
  /\ promise = [f \in Files |-> Nobody] /\ touched = {}

----------------------------------------------------------------------------
(* The disk. A name that is unlinked takes with it the inode an open        *)
(* writer holds: what it writes later reaches no name.                      *)

Cut(f, p) == IF p.id = {f} THEN [p EXCEPT !.live = FALSE] ELSE p

\* unlink() of one name of files/ or tmp/ by job j, which then stands at p.
\* A person's own removal ends the promise; the sweep's does not.
Unlink(j, n, p) ==
  LET f == n[2] IN
  /\ parts' = IF n[1] = "part" THEN parts \ {f} ELSE parts
  /\ media' = IF n[1] = "media" THEN media \ {f} ELSE media
  /\ metas' = IF n[1] = "meta" THEN [metas EXCEPT ![f] = "none"] ELSE metas
  /\ job' = [k \in Jobs |-> IF k = j THEN p
                            ELSE IF n[1] = "meta" THEN Cut(f, job[k]) ELSE job[k]]
  /\ up' = IF n[1] = "meta" THEN [up EXCEPT ![f].live = FALSE] ELSE up
  /\ promise' = IF n[1] # "part" /\ job[j].op \in {"remove", "clear"}
                THEN [promise EXCEPT ![f] = Removed] ELSE promise
  /\ UNCHANGED <<expires, mtime, touched, clock>>

\* writeFile() opens with "w": the meta is empty, and made if it was not there.
Truncate(f) == metas' = [metas EXCEPT ![f] = "torn"]

\* The text then lands at the start of the file. Over another writer's longer
\* text (a date is longer than null) it leaves that text's tail behind.
Land(f, exp, live) ==
  LET tail == metas[f] = "whole" /\ exp = Forever /\ expires[f] # Forever IN
  IF ~live THEN UNCHANGED <<metas, expires>>
  ELSE /\ metas' = [metas EXCEPT ![f] = IF tail THEN "torn" ELSE "whole"]
       /\ expires' = [expires EXCEPT ![f] = exp]

\* What a person is told, and so what the folder owes them.
Answer(f, exp) == promise' = IF promise[f] = Removed THEN promise
                             ELSE [promise EXCEPT ![f] = exp]

----------------------------------------------------------------------------
(* receive(): one upload *)

Begin(f, keep) ==
  /\ up[f].pc = "new"
  /\ up' = [up EXCEPT ![f].pc = "sending", ![f].keep = keep]
  /\ parts' = parts \cup {f} /\ mtime' = [mtime EXCEPT ![f] = now]
  /\ UNCHANGED <<media, metas, expires, job, clock, told>>

Chunk(f) ==
  /\ up[f].pc = "sending" /\ mtime[f] # now
  /\ mtime' = [mtime EXCEPT ![f] = now]
  /\ UNCHANGED <<parts, media, metas, expires, up, job, clock, told>>

\* the sender stops, sends too much, or sends nothing
Fail(f) ==
  /\ up[f].pc = "sending"
  /\ up' = [up EXCEPT ![f].pc = "failed"] /\ parts' = parts \ {f}
  /\ UNCHANGED <<media, metas, expires, mtime, job, clock, told>>

Finish(f) ==
  /\ up[f].pc = "sending"
  /\ up' = [up EXCEPT ![f].pc = "whole"]
  /\ UNCHANGED <<disk, job, clock, told>>

Rename(f) ==
  /\ up[f].pc = "whole"
  /\ up' = [up EXCEPT ![f].pc = IF f \in parts THEN "named" ELSE "unstored"]
  /\ parts' = parts \ {f}
  /\ media' = IF f \in parts THEN media \cup {f} ELSE media
  /\ UNCHANGED <<metas, expires, mtime, job, clock, told>>

OpenMeta(f) ==
  /\ up[f].pc = "named"
  /\ up' = [up EXCEPT ![f].pc = "writing", ![f].exp = ExpiryFrom(up[f].keep), ![f].live = TRUE]
  /\ Truncate(f)
  /\ UNCHANGED <<parts, media, expires, mtime, job, clock, told>>

WriteMeta(f) ==
  /\ up[f].pc = "writing"
  /\ up' = [up EXCEPT ![f].pc = "answered"]
  /\ Land(f, up[f].exp, up[f].live)
  /\ Answer(f, up[f].exp)
  /\ UNCHANGED <<parts, media, mtime, job, clock, touched>>

\* The meta cannot be written (a full disk). Only the part is unlinked, and
\* it was renamed long ago: the file stays, without a meta that parses.
MetaFails(f) ==
  /\ up[f].pc \in {"named", "writing"}
  /\ up' = [up EXCEPT ![f].pc = "refused"]
  /\ UNCHANGED <<disk, job, clock, told>>

Receive(f) ==
  \/ \E keep \in Keeps : Begin(f, keep)
  \/ Chunk(f) \/ Fail(f) \/ Finish(f) \/ Rename(f)
  \/ OpenMeta(f) \/ WriteMeta(f) \/ MetaFails(f)

----------------------------------------------------------------------------
(* setExpiry() and removeOne(): both begin by reading the meta. *)

Goes(j, p) == job' = [job EXCEPT ![j] = p]
At(j, op, pc) == job[j].op = op /\ job[j].pc = pc

\* A meta that does not read answers null, and nothing is done.
Redate(j, f, keep) ==
  /\ job[j] = Idle /\ metas[f] = "whole"
  /\ Goes(j, [Idle EXCEPT !.op = "redate", !.pc = "open", !.id = {f}, !.exp = ExpiryFrom(keep)])
  /\ touched' = touched \cup {f}
  /\ UNCHANGED <<disk, up, clock, promise>>

RedateOpen(j) ==
  /\ At(j, "redate", "open")
  /\ Goes(j, [job[j] EXCEPT !.pc = "write", !.live = TRUE])
  /\ \E f \in job[j].id : Truncate(f)
  /\ UNCHANGED <<parts, media, expires, mtime, up, clock, told>>

RedateWrite(j) ==
  /\ At(j, "redate", "write")
  /\ Goes(j, Idle)
  /\ \E f \in job[j].id : /\ Land(f, job[j].exp, job[j].live)
                          /\ Answer(f, job[j].exp)
  /\ UNCHANGED <<parts, media, mtime, up, clock, touched>>

\* The write fails (a full disk), and the meta it was to replace is gone.
RedateFails(j) ==
  /\ At(j, "redate", "write")
  /\ Goes(j, Idle)
  /\ UNCHANGED <<disk, up, clock, told>>

Remove(j, f) ==
  /\ job[j] = Idle /\ metas[f] = "whole"
  /\ Goes(j, [Idle EXCEPT !.op = "remove", !.pc = "media", !.id = {f}])
  /\ UNCHANGED <<disk, up, clock, told>>

\* removeOne's two unlinks; the sweep's own copy of them goes back to its list.
RemoveMedia(j) ==
  /\ job[j].pc = "media"
  /\ \E f \in job[j].id : Unlink(j, <<"media", f>>, [job[j] EXCEPT !.pc = "meta"])

RemoveMetaStale(j) ==
  /\ job[j].pc = "meta"
  /\ LET back == IF job[j].op = "sweep" THEN [job[j] EXCEPT !.pc = "metas"] ELSE Idle
     IN \E f \in job[j].id : Unlink(j, <<"meta", f>>, back)

RemoveMeta(j) ==
  /\ job[j].pc = "meta"
  /\ LET back == IF job[j].op = "sweep" THEN [job[j] EXCEPT !.pc = "metas", !.id = {}] ELSE Idle
     IN \E f \in job[j].id : Unlink(j, <<"meta", f>>, back)

----------------------------------------------------------------------------
(* clear(): tmp, files or all. clearDir reads the folder once, and then      *)
(* unlinks what it read, name by name.                                       *)

Clear(j) ==
  /\ job[j] = Idle
  /\ \E pc \in {"tmp", "files", "all"} :
       Goes(j, [Idle EXCEPT !.op = "clear", !.pc = pc,
                            !.names = IF pc = "tmp" THEN InTmp ELSE InFiles])
  /\ UNCHANGED <<disk, up, clock, told>>

ClearOne(j) ==
  /\ job[j].op = "clear"
  /\ \E n \in job[j].names : Unlink(j, n, [job[j] EXCEPT !.names = @ \ {n}])

ClearEnds(j) ==
  /\ job[j].op = "clear" /\ job[j].names = {}
  /\ Goes(j, IF job[j].pc = "all" THEN [job[j] EXCEPT !.pc = "tmp", !.names = InTmp] ELSE Idle)
  /\ UNCHANGED <<disk, up, clock, told>>

----------------------------------------------------------------------------
(* clear('expired'), which is the sweep: the metas, then the files no meta   *)
(* accounts for, by age, then the parts, by age.                             *)

Sweep(j) ==
  /\ job[j] = Idle
  /\ Goes(j, [Idle EXCEPT !.op = "sweep", !.pc = "metas", !.names = InFiles])
  /\ UNCHANGED <<disk, up, clock, told>>

Drop(p, n) == [p EXCEPT !.names = @ \ {n}]
Known(p, f) == [p EXCEPT !.names = @ \ {<<"meta", f>>}, !.known = @ \cup {f}]

SweepMetaDueOnly(j) ==
  /\ At(j, "sweep", "metas")
  /\ \E f \in Files :
       /\ <<"meta", f>> \in job[j].names
       /\ Goes(j, IF metas[f] # "whole" \/ ~Due(f) THEN Drop(job[j], <<"meta", f>>)
                  ELSE [Known(job[j], f) EXCEPT !.pc = "again", !.id = {f}])
  /\ UNCHANGED <<disk, up, clock, told>>

\* One meta read. One that does not parse is passed over, and so its file is
\* not known.
SweepMeta(j) ==
  /\ At(j, "sweep", "metas")
  /\ \E f \in Files :
       /\ <<"meta", f>> \in job[j].names
       /\ Goes(j, IF metas[f] # "whole" THEN Drop(job[j], <<"meta", f>>)
                  ELSE IF ~Due(f) THEN Known(job[j], f)
                  ELSE [Known(job[j], f) EXCEPT !.pc = "again", !.id = {f}])
  /\ UNCHANGED <<disk, up, clock, told>>

\* removeOne() reads the meta again, and asks only that it parses.
SweepAgain(j) ==
  /\ At(j, "sweep", "again")
  /\ \E f \in job[j].id :
       Goes(j, IF metas[f] = "whole" THEN [job[j] EXCEPT !.pc = "media"]
               ELSE [job[j] EXCEPT !.pc = "metas", !.id = {}])
  /\ UNCHANGED <<disk, up, clock, told>>

SweepNoOrphans(j) ==
  /\ At(j, "sweep", "metas") /\ \A n \in job[j].names : n[1] # "meta"
  /\ Goes(j, [job[j] EXCEPT !.pc = "orphans", !.names = {}])
  /\ UNCHANGED <<disk, up, clock, told>>

SweepOrphans(j) ==
  /\ At(j, "sweep", "metas") /\ \A n \in job[j].names : n[1] # "meta"
  /\ Goes(j, [job[j] EXCEPT !.pc = "orphans", !.names = {n \in @ : n[2] \notin job[j].known}])
  /\ UNCHANGED <<disk, up, clock, told>>

SweepParts(j) ==
  /\ At(j, "sweep", "orphans") /\ job[j].names = {}
  /\ Goes(j, [job[j] EXCEPT !.pc = "parts", !.names = InTmp, !.known = {}])
  /\ UNCHANGED <<disk, up, clock, told>>

\* stat(), and unlink() if it is old enough
SweepAged(j, pc, ttl) ==
  /\ At(j, "sweep", pc)
  /\ \E n \in job[j].names :
       IF mtime[n[2]] <= now - ttl THEN Unlink(j, n, Drop(job[j], n))
       ELSE Goes(j, Drop(job[j], n)) /\ UNCHANGED <<disk, up, clock, told>>

SweepEnds(j) ==
  /\ At(j, "sweep", "parts") /\ job[j].names = {}
  /\ Goes(j, Idle)
  /\ swept' = (swept \/ j = Timer)
  /\ UNCHANGED <<disk, up, now, crashes, told>>

Serve(j) ==
  \/ RedateOpen(j) \/ RedateWrite(j) \/ RedateFails(j)
  \/ RemoveMedia(j) \/ RemoveMeta(j)
  \/ ClearOne(j) \/ ClearEnds(j)
  \/ SweepMeta(j) \/ SweepAgain(j) \/ SweepOrphans(j) \/ SweepParts(j)
  \/ SweepAged(j, "orphans", FILE_TTL) \/ SweepAged(j, "parts", TMP_TTL) \/ SweepEnds(j)

Request(j) ==
  \/ \E f \in Files : Remove(j, f) \/ \E keep \in Keeps : Redate(j, f, keep)
  \/ Clear(j) \/ Sweep(j)

----------------------------------------------------------------------------
Quiet == /\ \A j \in Jobs : job[j] = Idle
         /\ \A f \in Files : up[f].pc \notin {"whole", "named", "writing"}

Tick ==
  /\ now < MaxNow /\ Quiet /\ swept
  /\ now' = now + 1 /\ swept' = FALSE
  /\ UNCHANGED <<disk, up, job, crashes, told>>

\* Everything in memory goes: requests end unanswered, and the disk stays.
Crash ==
  /\ crashes < MaxCrashes
  /\ crashes' = crashes + 1
  /\ job' = [j \in Jobs |-> Idle]
  /\ up' = [f \in Files |-> IF up[f].pc \in {"sending", "whole", "named", "writing"}
                            THEN [up[f] EXCEPT !.pc = "failed", !.live = FALSE] ELSE up[f]]
  /\ UNCHANGED <<disk, now, swept, told>>

Next ==
  \/ \E f \in Files : Receive(f)
  \/ \E j \in Hands : Request(j)
  \/ Sweep(Timer)
  \/ \E j \in Jobs : Serve(j)
  \/ Tick \/ Crash

Spec == Init /\ [][Next]_vars

(* The event loop runs what it was handed, and the timer fires. Nobody has  *)
(* to send, to ask, or to crash, and time need not pass.                    *)
FairSpec ==
  /\ Spec
  /\ WF_vars(Sweep(Timer))
  /\ \A j \in Jobs : WF_vars(Serve(j))
  /\ \A f \in Files : WF_vars(Rename(f) \/ OpenMeta(f) \/ WriteMeta(f))

----------------------------------------------------------------------------
Names == {"part", "media", "meta"} \X Files
UpPcs == {"new", "sending", "whole", "named", "writing", "answered", "failed", "unstored", "refused"}
JobPcs == {"idle", "open", "write", "media", "meta", "tmp", "files", "all",
           "metas", "again", "orphans", "parts"}

(* The type of every variable; a job at work on one id holds exactly that one. *)
TypeOK ==
  /\ parts \subseteq Files /\ media \subseteq Files /\ touched \subseteq Files
  /\ metas \in [Files -> {"none", "torn", "whole"}]
  /\ expires \in [Files -> Nat] /\ mtime \in [Files -> 0..now]
  /\ \A f \in Files : /\ up[f].pc \in UpPcs /\ up[f].exp \in Nat
                       /\ up[f].keep \in Keeps \cup {0} /\ up[f].live \in BOOLEAN
  /\ \A j \in Jobs :
       /\ job[j].op \in {"idle", "redate", "remove", "clear", "sweep"}
       /\ job[j].pc \in JobPcs /\ job[j].exp \in Nat /\ job[j].live \in BOOLEAN
       /\ job[j].names \subseteq Names /\ job[j].known \subseteq Files
       /\ IF job[j].pc \in {"open", "write", "media", "meta", "again"}
          THEN \E f \in Files : job[j].id = {f} ELSE job[j].id = {}
  /\ now \in 0..MaxNow /\ swept \in BOOLEAN /\ crashes \in 0..MaxCrashes
  /\ promise \in [Files -> Nat \cup {Nobody, Removed}]

Owed(f) == promise[f] = Forever \/ promise[f] > now

(* A file nobody tried to re-date and nobody removed is there, with the       *)
(* expiry the upload was answered with, until that hour: whatever sweeps,     *)
(* clears of other things, refusals and crashes came between, and although    *)
(* it lay in files/ without a meta while it was being stored.                 *)
(* storage.js:412-413 "the meta is the authority and the media file follows it".  *)
KeptUntilItsTime ==
  \A f \in Files : Owed(f) /\ f \notin touched =>
    f \in media /\ metas[f] = "whole" /\ expires[f] = promise[f]

(* Nothing outstays its time by as much as an hour: a file whose meta reads   *)
(* is gone once an hour has passed since its expiry, and a part no byte       *)
(* arrived for is gone an hour after TMP_TTL. stream-server.js:411 "The disk  *)
(* gets back to zero on its own."                                             *)
NoneOutstays ==
  \A f \in Files :
    /\ f \in media /\ metas[f] = "whole" /\ expires[f] # Forever => expires[f] >= now
    /\ f \in parts => mtime[f] >= now - TMP_TTL

Overdue(f) == f \in media /\ IF metas[f] = "whole" THEN Due(f) ELSE mtime[f] <= now - FILE_TTL

(* A file past its expiry, or one whose meta was lost to a crash, a full disk *)
(* or two writers and that is a day old, does not stay: it is swept, or       *)
(* re-dated first. storage.js:415-417 on orphans, 474-476 on the timer.       *)
OverdueLeaves == \A f \in Files : []<>~Overdue(f)

----------------------------------------------------------------------------
(* What the comments, the messages and the README say, and the code does not do. *)

(* The same for a file that was re-dated: what the person was last told holds. *)
(* README.md:306-307 "the sweeper reads that meta rather than mtime".          *)
KeptAsPromised == \A f \in Files : Owed(f) => f \in media

(* An upload that arrived whole is not refused because its part went missing. *)
(* storage.js:405 "tmp - half-finished uploads only. Always safe."            *)
WholeUploadStored == \A f \in Files : up[f].pc # "unstored"

(* /f/<id> finds no meta, and says "That file is not here any more"           *)
(* (stream-server.js:598), only of a file that is not there.                  *)
NotHereIsTrue == \A f \in Files : Owed(f) /\ f \in media => metas[f] = "whole"

(* A re-date that is answered with the new meta was of a file that is there.  *)
(* storage.js:312-313 "Returns the new meta, or null if it is not there".         *)
RedateIsTrue == [][\A j \in Hands : RedateWrite(j) => job[j].id \subseteq media]_vars

(* Two hours after the expiry a person was last told, nothing of the file is  *)
(* left: not the film and not its meta. stream-server.js:411 "The disk gets   *)
(* back to zero on its own."                                                  *)
ReturnsToZero ==
  \A f \in Files : promise[f] > Forever /\ promise[f] + 1 < now /\ up[f].pc = "answered"
    /\ Quiet => f \notin media /\ metas[f] = "none"
=============================================================================
