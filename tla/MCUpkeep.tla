------------------------------ MODULE MCUpkeep ------------------------------
(***************************************************************************)
(* What looks after itself, on small instances, one at a time, as in       *)
(* MCSafety: the television's wait for a phone, the stream host's updates, *)
(* its watch, and the accounts.                                            *)
(***************************************************************************)
EXTENDS HostUpdate

CONSTANTS Codes, NoCode, Faults, Names, Owner, Scopes, Limit

ASSUME UpkeepBounds ==
  /\ MaxPush \in Nat /\ NewDeps \subseteq 1..MaxPush /\ MaxTurns \in Nat /\ Limit \in Nat \ {0}
  /\ NoCode \notin Codes /\ Owner \in Names /\ "ok" \notin Faults

-----------------------------------------------------------------------------

VARIABLES
  part,                    \* which part goes
  table, room, stored, private, chain, answer, paired, freeing, net, refused,   \* TvLife
  host, bridge, issues, run, heard, watchTurns,   \* Watchdog
  rows, made, env, cookie, fails, req, tickets, userTurns   \* Accounts

screen  == <<table, room, stored, private, chain, answer, paired, freeing, net, refused>>
watch   == <<host, bridge, issues, run, heard, watchTurns>>
people  == <<rows, made, env, cookie, fails, req, tickets, userTurns>>

L == INSTANCE TvLife WITH
  None <- NoCode
W == INSTANCE Watchdog WITH
  MaxTurns <- MaxTurns + 2, turns <- watchTurns
A == INSTANCE Accounts WITH
  turns <- userTurns

\* A part that does not go has one initial state.
PartsInit ==
  /\ part \in {"update", "screen", "watch", "people"}
  /\ Init /\ L!Init /\ (part # "screen" => ~private)
  /\ W!Init /\ A!Init

\* The part that goes, and the others, which stay.
Rest(p) ==
  /\ part = p /\ UNCHANGED part
  /\ (p # "update" => UNCHANGED vars)        /\ (p # "screen" => UNCHANGED screen)
  /\ (p # "watch" => UNCHANGED watch)        /\ (p # "people" => UNCHANGED people)

UpdateGoes   == Rest("update") /\ Next
ScreenGoes   == Rest("screen") /\ L!Next
WatchGoes    == Rest("watch") /\ W!Next
PeopleGoes   == Rest("people") /\ A!Next

PartsNext ==
  \/ UpdateGoes \/ ScreenGoes \/ WatchGoes \/ PeopleGoes

parts == <<part, vars, screen, watch, people>>

UpkeepSpec ==
  /\ PartsInit /\ [][PartsNext]_parts
  \* tv.js: the page's timers.
  /\ WF_parts(Rest("screen") /\ L!Step)
  \* cron, and a restart that was scheduled; a person who edits is done some time.
  /\ WF_parts(Rest("update") /\ Tick) /\ WF_parts(Rest("update") /\ CronStep)
  /\ WF_parts(Rest("update") /\ ButtonStep) /\ WF_parts(Rest("update") /\ RestartDue)
  /\ WF_parts(Rest("update") /\ edited /\ Edit) /\ WF_parts(Rest("update") /\ QuietFalls)
  /\ WF_parts(Rest("watch") /\ W!RunStep)
  \* The functions answer, windows end and tickets run out.
  /\ \A n \in Names : WF_parts(Rest("people") /\ A!Steps(n)) /\ WF_parts(Rest("people") /\ A!WindowOver(n))
  /\ \A i \in 1..(MaxTurns + 1), s \in Scopes :
       WF_parts(Rest("people") /\ A!RunsOut([id |-> i, scope |-> s]))
  \* What may fail and is asked again does not fail every time.  A behaviour is
  \* one part's, so that a formula below is about that part's disjunct alone.
  /\ SF_parts(\/ Rest("screen") /\ L!Create
              \/ Rest("update") /\ Fetch /\ cron'.at = "check"
              \/ Rest("watch") /\ W!List
              \/ Rest("people") /\ ~A!Session(Owner) /\ A!Submit(Owner))
  /\ SF_parts(\/ Rest("screen") /\ L!GotRoom
              \/ Rest("update") /\ Pull /\ cron'.at # "off"
              \/ Rest("watch") /\ W!CloseOne
              \/ Rest("people") /\ A!Seed(Owner) /\ req'[Owner].at = "fix")
  /\ SF_parts(\/ Rest("update") /\ FilmGoesOn /\ film' = "off"
              \/ Rest("watch") /\ W!MarkTold
              \/ Rest("people") /\ A!Fix(Owner) /\ rows' # rows)
  /\ SF_parts(\/ Rest("watch") /\ W!File
              \/ Rest("people") /\ A!Check(Owner) /\ cookie' # cookie)
  /\ SF_parts(Rest("watch") /\ W!TellLate /\ run'.at = "mark")

-----------------------------------------------------------------------------
\* The types of the part that goes.
TypesOK ==
  CASE part = "update" -> TypeOK   [] part = "screen" -> L!TypeOK
    [] part = "watch" -> W!TypeOK  [] part = "people" -> A!TypeOK

\* The television that may ask shows a code again (TvLife: tv.js tick, newRoom).
ShowsACode ==
  <>[](part = "screen" /\ ~refused /\ net /\ L!FreeCode) => []<>(room # NoCode \/ chain = "away")

\* A fault that lasts was told, and one that is over leaves no complaint (Watchdog).
ComplaintsSettle == W!ComplaintsSettle

\* The owner the environment names gets in again (Accounts: lib/users.js seed).
OwnerGetsIn == []<>(part = "people" => A!Session(Owner))
=============================================================================
