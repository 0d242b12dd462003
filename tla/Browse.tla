-------------------------------- MODULE Browse --------------------------------
(***************************************************************************)
(* The Browse screen of src/assets/js/app.js: the scan of a page, the deep *)
(* scan behind it, the crawl for its episodes, and the shelf of series     *)
(* that were opened before, with api/series.js behind it.  One panel shows *)
(* what the last of them to be heard said.  What a crawl finds on a page   *)
(* is module Crawl's.                                                      *)
(***************************************************************************)
EXTENDS Integers, FiniteSets, Sequences, SequencesExt, Places

CONSTANTS
  Pages, People,
  None,
  MaxTurns    \* bound: what people do

VARIABLES
  me,         \* who is signed in
  box,        \* pageUrl: the address in the field
  mode,       \* browseMode
  panel,      \* browseResult: what it shows, of which page
  err,        \* the field's error
  reading,    \* scanInFlight: the scan or deep scan that is out
  crawling,   \* crawlInFlight: the crawl that is out, loud or quiet
  clock,      \* scanStop: the progress clock that the next end stops
  running,    \* the progress clocks that tick
  items,      \* seriesItems
  loaded,     \* seriesLoaded
  asks,       \* the shelf's requests, and their answers
  rows,       \* the series table: each account's rows, the newest first
  undo,       \* the rows an Undo on screen would bring back
  lapsed,     \* history: an answer was a lapsed session's
  turns

screen == <<box, mode, panel, err>>
jobs == <<reading, crawling, clock, running>>
shelf == <<items, loaded, asks, rows, undo>>
vars == <<me, screen, jobs, shelf, lapsed, turns>>

Item == [of : Pages, eps : BOOLEAN]
NoPanel == [what |-> "none", of |-> None]
Shows(what, of) == panel' = [what |-> what, of |-> of]

\* Types: what the page shows and has out, and the shelf here and on the server.
TypeOK ==
  /\ me \in People /\ box \in Pages \cup {None} /\ mode \in {"page", "episodes"} /\ err \in BOOLEAN
  /\ panel \in [what : {"none", "progress", "offer", "found", "wall", "list", "cached", "empty"}, of : Pages \cup {None}]
  /\ reading \in [job : {"scan", "deep"}, of : Pages] \cup {None}
  /\ crawling \in [job : {"crawl", "quiet"}, of : Pages] \cup {None}
  /\ clock \in {"scan", "deep", "crawl", None} /\ running \subseteq {"scan", "deep", "crawl"}
  /\ ToSet(items) \subseteq Item /\ \A p \in People : ToSet(rows[p]) \subseteq Item
  /\ ToSet(undo) \subseteq Item /\ loaded \in BOOLEAN /\ lapsed \in BOOLEAN

Init ==
  /\ me \in People /\ box = None /\ mode = "page" /\ panel = NoPanel /\ err = FALSE
  /\ reading = None /\ crawling = None /\ clock = None /\ running = {}
  /\ items = <<>> /\ loaded = FALSE /\ asks = {} /\ rows = [p \in People |-> <<>>] /\ undo = <<>>
  /\ lapsed = FALSE /\ turns = 0

Turn == turns < MaxTurns /\ turns' = turns + 1

-----------------------------------------------------------------------------
(* The clock of a read that is shown. *)
StartClock(job) == clock' = job /\ running' = running \cup {job}
EndClock == clock' = None /\ running' = running \ {clock}

-----------------------------------------------------------------------------
(* The scan: from the form, an error's Try again, an empty list's offer, or *)
(* the in-app browser.                                                      *)
Scan(u) ==
  /\ reading = None /\ Turn
  /\ reading' = [job |-> "scan", of |-> u] /\ box' = u /\ Shows("progress", u) /\ err' = FALSE /\ StartClock("scan")
  /\ UNCHANGED <<me, mode, crawling, shelf, lapsed>>

\* From the offer that a scan which found nothing leaves.
Deep ==
  /\ panel.what = "offer" /\ reading = None /\ Turn
  /\ reading' = [job |-> "deep", of |-> panel.of] /\ Shows("progress", panel.of) /\ StartClock("deep")
  /\ UNCHANGED <<me, box, mode, err, crawling, shelf, lapsed>>

\* Found, an offer to look deeper, a wall, an error, or a lapsed session, which draws nothing.
ScanEnds ==
  /\ reading # None /\ reading' = None /\ EndClock
  /\ \/ Shows("found", reading.of) /\ box' = reading.of /\ UNCHANGED <<err, lapsed>>
     \/ reading.job = "scan" /\ Shows("offer", reading.of) /\ err' = FALSE /\ UNCHANGED <<box, lapsed>>
     \/ Shows("wall", reading.of) /\ err' = FALSE /\ UNCHANGED <<box, lapsed>>
     \/ panel' = NoPanel /\ err' = TRUE /\ UNCHANGED <<box, lapsed>>
     \/ lapsed' = TRUE /\ UNCHANGED <<box, panel, err>>
  /\ UNCHANGED <<me, mode, crawling, shelf, turns>>

-----------------------------------------------------------------------------
(* The crawl. *)
Free == reading = None /\ crawling = None

\* A crawl that is asked for while a page is being read is not made.
Starts(job, u) ==
  IF ~Free THEN UNCHANGED <<err, jobs>>
  ELSE /\ crawling' = [job |-> job, of |-> u] /\ err' = FALSE /\ UNCHANGED reading
       /\ IF job = "quiet" THEN UNCHANGED <<clock, running>> ELSE StartClock("crawl")

\* The form, a season's row, or a page of the history, which turns to the episodes even when a
\* page is being read.
Crawls(u) ==
  /\ Turn /\ box' = u /\ Starts("crawl", u)
  /\ mode' \in {"episodes"} \cup (IF Free THEN {} ELSE {mode})
  /\ IF Free THEN Shows("progress", u) ELSE UNCHANGED panel
  /\ UNCHANGED <<me, shelf, lapsed>>

New(do, it) == [do |-> do, it |-> it, at |-> "going", said |-> <<>>]
Asks(do, it) == asks' = asks \cup {New(do, it)}

CrawlOver ==
  /\ crawling # None /\ crawling' = None /\ mode' = "episodes" /\ UNCHANGED <<me, box, reading, turns>>
  /\ IF crawling.job = "quiet" THEN UNCHANGED <<clock, running>> ELSE EndClock

\* Episodes, seasons alone, or nothing to open, which is not remembered.
CrawlSays ==
  /\ CrawlOver /\ err' = FALSE /\ UNCHANGED <<items, loaded, rows, undo, lapsed>>
  /\ \/ \E eps \in BOOLEAN : Shows("list", crawling.of) /\ Asks("remember", [of |-> crawling.of, eps |-> eps])
     \/ Shows("empty", crawling.of) /\ UNCHANGED asks

CrawlWalled == CrawlOver /\ Shows("wall", crawling.of) /\ err' = FALSE /\ UNCHANGED <<shelf, lapsed>>

\* A remembered list stays through a failed look behind it.
CrawlFails ==
  /\ CrawlOver /\ UNCHANGED <<shelf, lapsed>>
  /\ IF crawling.job = "quiet" THEN UNCHANGED <<panel, err>> ELSE panel' = NoPanel /\ err' = TRUE

CrawlLapses == CrawlOver /\ lapsed' = TRUE /\ UNCHANGED <<panel, err, shelf>>

-----------------------------------------------------------------------------
(* The shelf. *)

\* A remembered list is painted, and read again behind it.
OpenSeries(it) ==
  /\ Turn /\ box' = it.of /\ mode' = "episodes"
  /\ IF it.eps THEN Shows("cached", it.of) /\ Starts("quiet", it.of)
     ELSE /\ Starts("crawl", it.of)
          /\ IF Free THEN Shows("progress", it.of) ELSE UNCHANGED panel
  /\ UNCHANGED <<me, shelf, lapsed>>

\* showTab("browse"): asked for once.
Refresh ==
  /\ ~loaded /\ Turn /\ loaded' = TRUE /\ Asks("list", None)
  /\ UNCHANGED <<me, screen, jobs, items, rows, undo, lapsed>>

ForgetSeries(it) ==
  /\ Turn /\ Asks("forget", it) /\ UNCHANGED <<me, screen, jobs, items, loaded, rows, undo, lapsed>>

Clear ==
  /\ items # <<>> /\ Turn /\ asks' = asks \cup {[New("clear", None) EXCEPT !.said = items]}
  /\ UNCHANGED <<me, screen, jobs, items, loaded, rows, undo, lapsed>>

Undo ==
  /\ undo # <<>> /\ Turn /\ undo' = <<>> /\ asks' = asks \cup {New("remember", it) : it \in ToSet(undo)}
  /\ UNCHANGED <<me, screen, jobs, items, loaded, rows, lapsed>>

Without(seq, it) == Kept(seq, {i \in DOMAIN seq : seq[i].of # it.of})
UpsertAgain(seq, it) == <<it>> \o seq
Upsert(seq, it) == <<it>> \o Without(seq, it)

\* api/series.js, about the account of the cookie.
Lands(a) ==
  /\ a.at = "going"
  /\ rows' = [rows EXCEPT ![me] = CASE a.do = "remember" -> Upsert(@, a.it)
                                    [] a.do = "forget" -> Without(@, a.it)
                                    [] a.do = "clear" -> <<>>
                                    [] OTHER -> @]
  /\ asks' = (asks \ {a}) \cup {[a EXCEPT !.at = "back", !.said = IF a.do = "list" THEN rows[me] ELSE a.said]}
  /\ UNCHANGED <<me, screen, jobs, items, loaded, undo, lapsed, turns>>

RememberAgain(a) == items' = <<a.it>> \o items /\ UNCHANGED undo
Remembered(a) == items' = Upsert(items, a.it) /\ UNCHANGED undo

Hears(a) ==
  /\ a.at = "back" /\ asks' = asks \ {a}
  /\ \/ a.do = "remember" /\ Remembered(a)
     \/ a.do = "list" /\ items' = a.said /\ UNCHANGED undo
     \/ a.do = "forget" /\ items' = Without(items, a.it) /\ undo' = <<a.it>>
     \/ a.do = "clear" /\ items' = <<>> /\ undo' = a.said
  /\ UNCHANGED <<me, screen, jobs, loaded, rows, lapsed, turns>>

\* Lost on the way, or refused.
Lost(a) == asks' = asks \ {a} /\ UNCHANGED <<me, screen, jobs, items, loaded, rows, undo, lapsed, turns>>

\* The session ends, and somebody signs in; what the screen holds is left in place.
Another ==
  /\ Turn /\ me' \in People \ {me} /\ UNCHANGED <<screen, jobs, shelf, lapsed>>

Next ==
  \/ Deep \/ ScanEnds \/ CrawlSays \/ CrawlWalled \/ CrawlFails \/ CrawlLapses \/ Refresh \/ Clear \/ Undo \/ Another
  \/ \E u \in Pages : Scan(u) \/ Crawls(u)
  \/ \E it \in ToSet(items) : OpenSeries(it) \/ ForgetSeries(it)
  \/ \E a \in asks : Lands(a) \/ Hears(a) \/ Lost(a)
Spec == Init /\ [][Next]_vars

-----------------------------------------------------------------------------
\* A season that is looked at again is the same row: on the shelf once, and in the table.
SeriesOnceEach ==
  \A s \in {items, rows[me]} : \A i, j \in DOMAIN s : s[i].of = s[j].of => i = j

\* Progress is shown while something is read: whichever of a scan and a crawl ends
\* first, the panel is not left counting for a read that is over.
ProgressIsRead == panel.what = "progress" => reading # None \/ crawling # None \/ lapsed

-----------------------------------------------------------------------------
(* Stated by the code and not kept by it. *)

\* "The remembered list stays; it is still the best answer" (app.js:7244): a wall or a
\* page without a list, heard behind it, takes its place.
ListStands == [][panel.what = "cached" /\ crawling # None /\ crawling.job = "quiet" /\ crawling' = None
                 => panel'.what \in {"cached", "list"}]_vars

\* The list on screen is of the address in the field: a second series that is opened
\* while the first is read again is painted over by the first one's answer.
ListIsOfTheBox == panel.what \in {"cached", "list"} /\ Free => panel.of = box

\* A read shows its clock (app.js:4920): of two that overlap, the first to end stops the
\* other's clock, and its own is never stopped.
ClockTicks == (Free => running = {}) /\ (reading # None => reading.job \in running)

\* What is on the shelf is of the account that is signed in.
ShelfIsMine == \A it \in ToSet(items) : \E r \in ToSet(rows[me]) : r.of = it.of

\* Once it is quiet, the shelf on screen is the one in the table.
ShelfIsRemembered == asks = {} /\ loaded => {it.of : it \in ToSet(items)} = {r.of : r \in ToSet(rows[me])}
=============================================================================
