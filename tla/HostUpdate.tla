----------------------------- MODULE HostUpdate -----------------------------
(***************************************************************************)
(* How the stream host comes to run the newest commit: the updater that    *)
(* cron starts every five minutes (src/scripts/self-update.sh), the two    *)
(* buttons on the phone (src/server/control.js and its routes in           *)
(* stream-server.js), and the server they restart while televisions read   *)
(* films from it.  The updater takes a lock, the buttons do not.           *)
(***************************************************************************)
EXTENDS Naturals

CONSTANTS
  MaxPush,    \* bound: commits pushed to origin/main after the first
  NewDeps,    \* the commits whose package-lock.json differs from the one before
  MaxTurns    \* bound: films, edits and presses of a button

VARIABLES
  origin, known,  \* origin/main, and what the checkout last fetched of it
  head, edited,   \* the checkout: its commit, and whether it holds local work
  packages,       \* the commit node_modules was installed for; none while npm ci is at it
  running,        \* the server: the commit it was started from
  film, recent,   \* a television: off, reading, between reads; the server's twenty minutes
  cron, button,   \* where each of the two updaters is, and what it knows
  restart,        \* scheduleRestart: a detached restart is due
  beat,           \* the heartbeat of the last tick
  turns

vars == <<origin, known, head, edited, packages, running, film, recent, cron, button, restart, beat, turns>>

None == MaxPush + 1
Commits == 0..MaxPush
\* The commit whose packages a commit needs.
DepsOf(c) == CHOOSE d \in {0} \cup NewDeps : d <= c /\ \A e \in NewDeps : e <= c => e <= d

Off == [at |-> "off", deps |-> 0, quiet |-> FALSE]

\* Types: the checkout, the packages, the server and its two updaters.
TypeOK ==
  /\ origin \in Commits /\ known \in Commits /\ head \in Commits /\ edited \in BOOLEAN
  /\ packages \in Commits \cup {None} /\ running \in Commits
  /\ film \in {"off", "reading", "between"} /\ recent \in BOOLEAN
  /\ cron.at \in {"off", "fetch", "check", "health", "pull", "deps", "restart"}
  /\ button.at \in {"off", "update", "check", "deps"}
  /\ restart \in BOOLEAN /\ turns \in 0..MaxTurns
  /\ beat \in {"none", "held", "fetch_failed", "up_to_date", "blocked", "deferred", "pull_failed", "updated"}

Init ==
  /\ origin = 0 /\ known = 0 /\ head = 0 /\ edited = FALSE /\ packages = 0 /\ running = 0
  /\ film = "off" /\ recent = FALSE /\ cron = Off /\ button = Off
  /\ restart = FALSE /\ beat = "none" /\ turns = 0

repo == <<known, head, packages>>
tv   == <<film, recent>>

\* The process is new: it has seen no stream, and a film that is being read is cut off.
Started ==
  /\ running' = head /\ recent' = FALSE
  /\ film' = IF film = "reading" THEN "between" ELSE film

-----------------------------------------------------------------------------
(* The updater.  It ends with a heartbeat, mostly. *)
Ends(state) == cron' = Off /\ beat' = state

\* A tick: held by a tick that still runs.
Tick ==
  /\ IF cron.at # "off" THEN UNCHANGED cron /\ beat' = "held"
     ELSE cron' = [Off EXCEPT !.at = "fetch"] /\ UNCHANGED beat
  /\ UNCHANGED <<origin, repo, edited, running, tv, button, restart, turns>>

Fetch ==
  /\ cron.at = "fetch"
  /\ \/ known' = origin /\ cron' = [cron EXCEPT !.at = "check"] /\ UNCHANGED beat
     \/ Ends("fetch_failed") /\ UNCHANGED known
  /\ UNCHANGED <<origin, head, packages, edited, running, tv, button, restart, turns>>

\* Behind, and nothing of the box's own to lose.
Check ==
  /\ cron.at = "check"
  /\ IF head = known THEN Ends("up_to_date")
     ELSE IF edited THEN Ends("blocked")
     ELSE cron' = [cron EXCEPT !.at = "health"] /\ UNCHANGED beat
  /\ UNCHANGED <<origin, repo, edited, running, tv, button, restart, turns>>

Quiet == film # "reading" /\ ~recent

\* A mutant's health, of the version that asked only what is in flight.
HealthInFlight ==
  /\ cron.at = "health"
  /\ IF film = "reading" THEN Ends("deferred")
     ELSE cron' = [cron EXCEPT !.at = "pull", !.quiet = Quiet] /\ UNCHANGED beat
  /\ UNCHANGED <<origin, repo, edited, running, tv, button, restart, turns>>

\* Nothing in flight, and twenty minutes since the last stream; a server that does
\* not answer has nothing to interrupt.
Health ==
  /\ cron.at = "health"
  /\ \E heard \in BOOLEAN :
       IF heard /\ ~Quiet THEN Ends("deferred")
       ELSE cron' = [cron EXCEPT !.at = "pull", !.quiet = heard => Quiet] /\ UNCHANGED beat
  /\ UNCHANGED <<origin, repo, edited, running, tv, button, restart, turns>>

\* The lock file before and after decides about npm ci.
Pull ==
  /\ cron.at = "pull"
  /\ \/ /\ ~edited /\ known' = origin /\ head' = origin /\ UNCHANGED beat
        /\ IF DepsOf(head) = DepsOf(origin)
           THEN cron' = [cron EXCEPT !.at = "restart"] /\ UNCHANGED packages
           ELSE cron' = [cron EXCEPT !.at = "deps", !.deps = DepsOf(origin)] /\ packages' = None
     \/ Ends("pull_failed") /\ UNCHANGED repo
  /\ UNCHANGED <<origin, edited, running, tv, button, restart, turns>>

\* npm ci; when it fails the tick ends without a heartbeat.
Deps ==
  /\ cron.at = "deps"
  /\ \/ packages' = cron.deps /\ cron' = [cron EXCEPT !.at = "restart"]
     \/ packages' = None /\ cron' = Off
  /\ UNCHANGED <<origin, known, head, edited, running, tv, button, restart, beat, turns>>

Restart ==
  /\ cron.at = "restart" /\ Ends("updated") /\ Started
  /\ UNCHANGED <<origin, repo, edited, button, restart, turns>>

-----------------------------------------------------------------------------
(* The buttons. *)
Turn == turns < MaxTurns /\ turns' = turns + 1

\* A press is answered 409 while something streams, and the phone may force it.
Press(route) ==
  /\ Turn /\ button.at = "off"
  /\ \/ route = "restart" /\ restart' = TRUE /\ UNCHANGED button
     \/ route = "update" /\ button' = [Off EXCEPT !.at = "update"] /\ UNCHANGED restart
  /\ UNCHANGED <<origin, repo, edited, running, tv, cron, beat>>

\* update: fetched, and compared; up to date, blocked or unreachable ends it.
UpdateFetch ==
  /\ button.at = "update"
  /\ \/ /\ known' = origin
        /\ button' = IF head = origin \/ edited THEN Off ELSE [button EXCEPT !.at = "check"]
     \/ button' = Off /\ UNCHANGED known
  /\ UNCHANGED <<origin, head, packages, edited, running, tv, cron, restart, beat, turns>>

\* A mutant's pull, which restarts only for new packages.
UpdatePullOnly ==
  /\ button.at = "check"
  /\ \/ /\ ~edited /\ known' = origin /\ head' = origin
        /\ IF DepsOf(head) = DepsOf(origin)
           THEN button' = Off /\ UNCHANGED packages
           ELSE button' = [button EXCEPT !.at = "deps", !.deps = DepsOf(origin)] /\ packages' = None
     \/ button' = Off /\ UNCHANGED repo
  /\ UNCHANGED <<origin, edited, running, tv, cron, beat, turns, restart>>

\* pull --ff-only; the same lock file means no npm ci.
UpdatePull ==
  /\ button.at = "check"
  /\ \/ /\ ~edited /\ known' = origin /\ head' = origin
        /\ IF DepsOf(head) = DepsOf(origin)
           THEN button' = Off /\ restart' = TRUE /\ UNCHANGED packages
           ELSE button' = [button EXCEPT !.at = "deps", !.deps = DepsOf(origin)] /\ packages' = None
                /\ UNCHANGED restart
     \/ button' = Off /\ UNCHANGED <<repo, restart>>
  /\ UNCHANGED <<origin, edited, running, tv, cron, beat, turns>>

UpdateDeps ==
  /\ button.at = "deps" /\ button' = Off
  /\ \/ packages' = button.deps /\ restart' = TRUE
     \/ packages' = None /\ UNCHANGED restart
  /\ UNCHANGED <<origin, known, head, edited, running, tv, cron, beat, turns>>

\* A second later, detached, after the answer.
RestartDue ==
  /\ restart /\ restart' = FALSE /\ Started
  /\ UNCHANGED <<origin, repo, edited, cron, button, beat, turns>>

-----------------------------------------------------------------------------
(* The world. *)
Push ==
  /\ origin < MaxPush /\ origin' = origin + 1
  /\ UNCHANGED <<repo, edited, running, tv, cron, button, restart, beat, turns>>

\* Someone works on the box, and is done.
Edit ==
  /\ edited \/ turns < MaxTurns
  /\ turns' = (IF edited THEN turns ELSE turns + 1) /\ edited' = ~edited
  /\ UNCHANGED <<origin, repo, running, tv, cron, button, restart, beat>>

FilmStarts ==
  /\ film = "off" /\ Turn /\ film' = "reading" /\ recent' = TRUE
  /\ UNCHANGED <<origin, repo, edited, running, cron, button, restart, beat>>

\* A television reads in windows, and is quiet for minutes between two of them.
FilmGoesOn ==
  /\ \/ film = "reading" /\ film' \in {"between", "off"} /\ recent' = TRUE
     \/ film = "between" /\ film' = "reading" /\ recent' = TRUE
     \/ film = "between" /\ film' = "off" /\ UNCHANGED recent
  /\ UNCHANGED <<origin, repo, edited, running, cron, button, restart, beat, turns>>

\* Twenty minutes are longer than a film's silence.
QuietFalls ==
  /\ film = "off" /\ recent /\ recent' = FALSE
  /\ UNCHANGED <<origin, repo, edited, running, film, cron, button, restart, beat, turns>>

CronStep == Fetch \/ Check \/ Health \/ Pull \/ Deps \/ Restart
ButtonStep == UpdateFetch \/ UpdatePull \/ UpdateDeps
Next == Tick \/ CronStep \/ ButtonStep \/ RestartDue \/ (\E b \in {"restart", "update"} : Press(b))
        \/ Push \/ Edit \/ FilmStarts \/ FilmGoesOn \/ QuietFalls

\* Cron ticks for ever, commands end, films end, work on the box ends; a fetch
\* or a pull that is tried for ever works once.
Spec ==
  /\ Init /\ [][Next]_vars
  /\ WF_vars(Tick) /\ WF_vars(CronStep) /\ WF_vars(ButtonStep) /\ WF_vars(RestartDue)
  /\ SF_vars(Fetch /\ cron'.at = "check") /\ SF_vars(Pull /\ cron'.at # "off")
  /\ WF_vars(edited /\ Edit) /\ SF_vars(FilmGoesOn /\ film' = "off") /\ WF_vars(QuietFalls)

-----------------------------------------------------------------------------
\* The updater pulls for a restart only if the host had been quiet when it asked:
\* a television between two reads is not a host that is idle.
PullsWhenQuiet == cron.at \in {"pull", "deps", "restart"} => cron.quiet

\* What is pulled is run in the end, unless npm ci left the packages of another commit.
CatchesUpOrMissing == <>[](running = origin \/ packages # DepsOf(head))

\* The VPS half comes to the commit of the Vercel half (self-update.sh:2).
CatchesUp == <>[](running = origin)

\* A process that is started finds its packages (control.js: not restarting onto
\* missing packages).
StartsWithItsPackages == [][running' # running => packages = DepsOf(head)]_vars
=============================================================================
