# Cast Bridge, verified

TLA+ models of Cast Bridge, TLC runs that check them on small instances, and
TLAPS proofs of what matters most about them. Line numbers are those of the
repository beside this directory. `PROJECT.json` lists every run, every mapped
definition, every hazard and every theorem.

    tlc -workers 2 -config ShadeTap.cfg MCShadeTap.tla
    tlapm ShadeTapProofs.tla

## The system and its parts

Cast Bridge is a web app (a page and its service worker) that puts a film on a
television, a set of serverless functions with a database behind them, and one
long-running stream host. Nothing in it shares memory except the windows of one
browser through the worker's caches and local storage; everything else is
messages, rows and files, and every `await` is a place where somebody else runs.

| part | state it keeps | operations | hard because |
|---|---|---|---|
| Shade taps: courier (`sw.js` 120-420, `app.js` 640-770) | a slot in the Cache API, the windows, each page's set of performed ids, replays in flight | deliver, acknowledge, write down, ask for, put back, expire, update | the worker and every page interleave; a page freezes, dies, is replaced; an acknowledgement is late |
| Shade taps: log (`sw.js` 215-260) | a list in the Cache API | trace, traceResult | read, change, put with awaits between |
| Shade taps: work (`castaction.js`, `app.js` 3970-4080) | waiters, session, media, player, upload | stop, cancel, toggle, cast now | waits for a television that changes meanwhile |
| Shade painting (`sw.js`, `app.js`) | what is on the lock screen | paint, alerted, swiped, clear | swipes race with paints |
| TV mode: room (`api/tv.js`, `lib/tv.js`) | a row: commands, seq, phone | create, pair, send, poll, unpair | optimistic writes; several phones; polls lost |
| TV mode: television (`tv.js`) | the room it shows, its place in the queue, a player | tick, run, release, restore, newRoom | reloads, other sites, a room that is gone |
| TV mode: remote (`tvmode.js`) | a pairing, the last status | connect, command, poll, unpair | answers of an old room or an old command |
| Casting (`app.js` 2600-3680) | session, current film, retries, stall budgets | load, refusal, stall, renew, stop | answers of an old load, timers, reconnects |
| Resume, now playing (`resume.js`, `api/now-playing.js`, `lib/nowplaying.js`) | one row a user, the banner | beat, clear, read, resume | beats and deletes race; two devices |
| Stream host: files (`server/storage.js`) | parts, films, metas on disk | receive, setExpiry, removeOne, clear, sweep | many requests and a timer on one folder; crashes; full disk |
| Stream host: proxy (`server/stream-server.js`, `api/stream.js`, `lib/reissue.js`) | requests in flight, what pages said, one browser, pages remembered | ask with and without a referer, read the page again, answer, stream | a dozen refusals at once; disguised files; players that leave |
| Stream host: restart, self-update (`control.js`, `self-update.sh`), the watch (`watch-stream.mjs`) | the checkout, its packages, a lock, a heartbeat; one open issue | busy, update, restart; complain, tell late, close | two updaters; npm ci fails; the bridge that tells is on the box that is down |
| Push (`app.js` 829-960, `sw.js` 451-478, `api/push.js`, `lib/push.js`) | the browser's subscription, a row an endpoint | sync, subscribe, replace, send, prune | syncs overlap; endpoints die or are replaced; keys change |
| Cast log (`app.js` 1794-1884, `api/castlog.js`, `db/007`) | a queue in the page, a log a film and person | keep, flush, beacon, requeue, append | batches fail after the film has changed |
| History (`app.js` 114-325, 7627-7755, 7933-8015, `api/history.js`) | a list and tombstones a device, rows of an account | play, delete, clear, undo, merge | requests overtake each other; several devices; offline |
| Accounts, tickets (`lib/users.js`, `api/auth.js`, `api/users.js`, `lib/ticket.js`) | rows, cookies, tickets, wrong tries | seed the owner, sign in, create, switch off, delete, mint | two owners at once; a store that fails between two writes |
| The film on the phone (`app.js` 1900-2420) | the element, hls.js or Shaka, the source set, places | open, seek, fail, go through the bridge, try another | errors of one engine while another is loading; late libraries |
| Uploads and My files (`app.js` 8180-9110) | the picked file, the upload, the list | ticket, send, stop, list, delete, sign out | two people on one phone; answers after sign-out |
| Browse and series (`app.js` 5360-5570, 7080-7300, `api/series.js`) | one panel, its clock, the shelf | scan, deep scan, crawl, remember, forget, undo | three jobs draw one panel |
| Scan, probe, crawl (`api/extract.js`, `scan.js`, `probe.js`, `lib/media.js`, `lib/crawl.js`) | none that outlives a request | fetch, unpack, look, poke, measure, follow | pages that boot late, sell their first click, or answer short |
| Bilibili, Bstar (`lib/bilibili.js`, `lib/bstar.js`, `api/bilibili.js`, `api/bstar.js`) | two cookies, a code, links with an expiry | sign in, paste, resolve, manifest, renew | intervals and answers after the panel closed; links that run out in a film |
| Subtitles (`app.js` 4094-4470, `lib/opensubs.js`, `api/subs.js`) | the track, kept files with a date | paste, upload, search, pick, attach | a conversion that ends after the film changed; two doors |
| Shade painting, artwork, offline shell, screens, QR, embed, deployment | little | paint, draw, install | little |

How they meet: a notification is tapped -> the worker's courier -> a page ->
tap work -> the Cast session; or TV mode, where the phone's remote writes a
command into the room and the television polls it out. A film of one's own goes
page -> ticket -> stream host -> television. A page that is browsed is scanned, its
streams are probed, and the one that is chosen plays on the phone, or goes through
the stream proxy to a television. A beat of the page goes to the now playing row, which the
resume banner of another page reads.

What makes each part correct is stated as properties in its module, and what
can go wrong that a test hardly reaches is listed in `PROJECT.json` under
`hazards`, each at its line, with a note where a property reaches only part of it.

## Modules

| module | models | checked by |
|---|---|---|
| `Courier` | what a courier of taps promises: a tap sent is run in a page at most once by each page, or its copies are lost | refined by `ShadeTap` |
| `ShadeTap`, `MCShadeTap` | the worker's delivery, slot and replay, and the pages | `ShadeTap*` runs |
| `ShadeTapProofs` | theorems about `ShadeTap`, that it implements `Courier` among them | TLAPS |
| `ShadeLog` | the tap log | `Safety` |
| `ShadeLogProofs` | theorems about `ShadeLog` | TLAPS |
| `TapWork` | what a page does with a tap | `Parts` |
| `History` | the watch history of several devices and its tombstones | `Parts` |
| `CastLog` | the log of a cast on its way to the server | `Parts` |
| `Push` | one browser's registration for push | `Parts` |
| `MCParts` | small instances of the four above, one at a time | `Parts` |
| `Room` | what TV mode's room promises: what was accepted grows, the box is its end, the television goes through it in order | refined by `TvRoom` |
| `TvRoom` | the room's row, its phones and its television's place in the queue | `Liveness`, `TvRoomStops` |
| `TvLife` | the life of a television's room: asking, expiry, gone, release, reloads | `Upkeep` |
| `TvPlayer` | the television's player: element, Shaka, the one retry, subtitles | `Safety` |
| `TvKeys` | the bar over the film, its timer and the keys | `Safety` |
| `TvRemote` | the phone's remote: pairing, commands, status | `Safety` |
| `FileShelf` | the stream host's folder | `Liveness`, `FileShelfKept` |
| `StreamProxy` | a film's request through the proxy, and the repair of an address that was refused | `Safety` |
| `StreamBody` | the body of the answer: ranges, windows, disguises, a player that leaves | `Safety` |
| `HostUpdate` | the checkout of the stream host, its two updaters and its restart | `Upkeep` |
| `Watchdog` | the watch outside the host: one complaint, told late if need be | `Upkeep` |
| `Accounts` | the account store, sessions and tickets | `Upkeep` |
| `MyFiles` | a phone's own files: the gate, uploads, the list | `Safety` |
| `Places` | filter and sort, in a form that can be proved about | `Safety`, against the library's |
| `Crawl` | sorting a page's links, and following its seasons | `Safety` |
| `Browse` | the Browse screen and the shelf of series | `Safety` |
| `MediaGate`, `Extract` | what an address is held to be; the quick scan | `Safety` |
| `DeepScan` | the scan in a browser | `Safety` |
| `Probe` | the table of streams and what it says of each | `Safety` |
| `PhonePlayer` | the film on the phone, its engines and sources | `Liveness` |
| `BiliSignIn` | signing in to Bilibili, by code and by paste | `Liveness` |
| `Bstar` | a film of Bilibili TV: links, tokens, renewal | `Safety`, `BstarHd` |
| `Subs` | the three ways a subtitle comes, kept files, the television's track | `Safety`, `SubsHistory` |
| `CastLoad` | getting a film to play on a Cast receiver: loads, refusals, stalls, bridges | `CastLoad` |
| `CastResume` | which film a Cast session is about: session events, the resume banner, the now playing row | `Safety`, `CastResumePick` |
| `TvRoomProofs` | theorems about `TvRoom` | TLAPS |
| `TvPageProofs` | theorems about `TvKeys`, `TvPlayer`, `TvLife` and `TvRemote` | TLAPS |
| `StreamProofs` | theorems about `StreamBody`, `StreamProxy` and `FileShelf` | TLAPS |
| `CastProofs` | theorems about `CastLoad`, `CastResume` and `CastLog` | TLAPS |
| `TapWorkProofs` | theorems about `TapWork`, `PhonePlayer` and `Push` | TLAPS |
| `CatalogueProofs` | theorems about `MyFiles`, `DeepScan`, `Probe`, `Browse` and `Crawl` | TLAPS |
| `MCSafety`, `MCLiveness`, `MCUpkeep` | small instances of the parts above, one at a time | the runs of those names |

Correspondence: each await of the JavaScript is the end of a step. A request or
a handler is a record with a `pc` and the locals that live across awaits;
synchronous code between two awaits is one action with every assignment in it.
`map` in `PROJECT.json` gives the lines of every definition.

### ShadeTap
A tap is a model number with a state of its own: where `deliverAction` stands,
which windows were posted to and which acknowledged. A page is an instance
(a reload is a new one) with a queue of messages, the set of ids it performed,
and whether it is shown, frozen or gone. The slot is one record or empty, and
`takePending` and `clearPending` are split at their awaits. History variables
say where a tap was destroyed (`Conservation`) and what was acknowledged in time.

### ShadeLog
The list in the cache, cut to its length, with tracers and reporters that each
hold the copy they read.

### TapWork
Taps that wait on `castaction.wait`'s interval, side by side, over a world in
which session, media and player change between any two ticks. `Stop` has the
three ends `stopCasting` has: ended, kept, and kept with the film unloaded.

### TvRoom
The row (`commands`, `seq`, `phone`), phones with requests in flight that hold
what they read, and a television with its `since`, the answers on their way to
it, and what it plays. Reloads restore `since` from storage; a page kind of
command takes the television to another site and back.

### FileShelf
Names on a disk: parts, films and metas (absent, torn, whole). `fs.writeFile`
is a truncation and a write; an unlinked name takes its inode with it, so a
writer that still holds it writes to nothing; a shorter text over a longer one
leaves a tail. Requests and the sweep are jobs that hold the listing they read.
Extensions, names, uploader ids, byte counts and the free-space refusals are
left out: none of them changes what is on the disk afterwards.

### CastLoad
A loadMedia call is a record with the film, the road and how far it got: sent,
being tried, accepted, refused; the page has yet to hear of the last two. The
receiver and the `remotePlayer` that lags behind it are two variables, because
the stall watch and `syncRemote` decide on the second. Arming, the one window
more that a buffering TV gets, both retries through the bridge and the move to
the other bridge are the disjuncts of `Refused` and `WatchFires`. `Connect` and
`Rejoin` are what a session event leaves for this module; which film it is
about is `CastResume`'s matter. Positions, tracks, titles and Bilibili's renewal
timer are left out.

### CastResume
The SDK changes the session and calls both listeners in one task; `Connected` is
the two of them, in either order. A position is named by the film it was reached
in, so "resumed in the wrong place" is visible without a clock. The row lives on
the server, with beats and clears on their way to it that may be lost or
reordered; a page has two lives, and the TV plays on between them. What is sent
is on the TV at once: how it gets there is `CastLoad`'s.

### History
Each device has its list and its tombstones; the server has the account's rows.
A request is a record in a bag, so two alike may be on their way, and any may
overtake any; `pc` says how far the server has got with it. A play is `Dedupe` and
`Insert`, two statements with an await between; a merge is one task, a fold over
the rows of the answer. The two Undos are actions of their own, because they
come after whatever has happened since.

### CastLog
A line is a number; `said` remembers which film and which person it was about,
so that a log can be asked whether it holds its own lines. Where a line was let
go, `lost` says why. The page's timer is a Boolean: set, or not.

### Push
`sub` is the browser's subscription, a number that is never minted twice. Every
call of `pushSync`, and the worker's handler, is a record in `run` with the
locals it holds over its awaits: what `getSubscription` answered, the key, what
`subscribe` gave it. `table` is the server's. A fan-out is one step for one dead
row: an endpoint that answers 404 or 410 does so for ever, so what happens
between its answer and the deletion changes neither.

### TvLife
A behaviour is one television page; `chain` names the place it has come to in
its chain of promises and timers (asking for a room, having one, polling, away,
or nothing at all). `table` holds which code is whose, so expiry, a sweep by
somebody else's `create`, a release and another television taking the code are
steps of their own. A browser that keeps nothing (`private`) is an initial state.

### TvPlayer, TvKeys
`TvPlayer` has the element's source, the attached Shaka player, and the attaches
that wait for the script or for an answer; a call that answers after the film
was left is kept (`opening`) because nothing cancels it. `TvKeys` is the one
handler of key presses with its order of cases, over the focus, the bar and the
events of the element that have not been handled.

### TvRemote
A pairing is a number, so a room paired again is told from itself. Polls, sends
and the unpair that nobody waits for are sets in flight; `awaitSeq` and the six
seconds of `settling` decide whether a status is drawn.

### StreamProxy, StreamBody
A request is a record with the handler's place and its locals; what it shares
with others (the notes of pages, the browser in flight, the pages remembered) is
state of the module. A host is its labels, so "same site" is computed, not
assumed. In `StreamBody` bytes are units; a disguised file begins with some of an
image; the player holds pairs of its own offset and the file's, so a
seam is two pairs that are shifted differently.

### HostUpdate, Watchdog
A commit is its number. `packages` is the commit `npm ci` last finished for.
Both updaters are state machines with the commands of the scripts as steps; the
cron job takes the lock and the buttons do not. The watchdog keeps nothing but
the issues it left open, so a run reads them, and each of its requests may fail.

### Accounts, MyFiles
An account is a row with an id; a cookie is an id, looked up at each request. A
handler's reads and writes of the store are steps, and each may fail. `MyFiles`
has one phone and two people: requests carry the account they were made under,
and answers come when they come.

### Crawl, Browse
A link is what the rules read in it. `PreferKin`, `Shaped` and the others are
the functions of `lib/crawl.js`; following the seasons is the only part with
steps. `Browse` has the one panel that scans, crawls and the shelf draw on.

### Extract, MediaGate, DeepScan, Probe
The net is a constant and reachability is open at each fetch; what patterns find
in text is data of the page. `DeepScan`'s page is an environment that moves
while it is looked at. `Probe` shows numbers with a mark that says whether they
were measured.

### PhonePlayer, BiliSignIn, Bstar, Subs
`PhonePlayer` follows `load()` and the error handlers of the three engines; an
opening of Shaka is a record that outlives the film it was for. `BiliSignIn` has the
intervals that run, which may be more than the one the page names, and the app's own
session with its gate: a status, a start or a paste that is answered 401 raises the gate and
leaves the panel as it was (a poll says an error), and signing in at the gate does not draw
it again. `Bstar` counts
in quarters of an hour: a token lives one, a manifest's addresses eight (three in the run). `Subs`
has requests that hold the film they were asked for, while their answers attach
to the film that is open.

### The MC modules
`MCParts`, `MCSafety`, `MCLiveness` and `MCUpkeep` each bring in modules that share no
state, with INSTANCE, and take them one at a time: `part` says which one goes, and the others
stay in an initial state. `PartsInit` pins the initial state of a part that does not go.
The fairness of each part is said again, over the part's own steps.

## Runs

| run | bounds | shows |
|---|---|---|
| `ShadeTap` | 2 taps, one window open at a time, pages that replace it | types; every tap is accounted for; once per page; an acknowledged tap is not written down; refinement of `Courier` |
| `ShadeTapLive` | 1 tap, fair | every road back asks for what waits; delivery ends |
| `Parts`, `TapWork` | 2 taps, fair | a tap acts or gives up and never both; every tap is answered |
| `Parts`, `History` | 2 films, 2 devices, lists of 2, 3 acts of which one may be a loss, 2 requests under way when one is begun, fair | what the server lists reaches every device that has not buried it |
| `Parts`, `CastLog` | 2 lines, 2 films, queues of 1, 3 changes of film, person or page and a fault | a log is of its film |
| `Parts`, `Push` | 2 runs at once, 2 acts or faults, fair | off comes to mean off |
| `CastLoad` | 2 films, one of them HLS, 3 acts of a person, fair | retries never bring back a film that was left; a watched load plays or the page says that it does not |
| `Safety`, `ShadeLog` | 3 taps, a log of 2 | one line a tap, with its own answer |
| `Safety`, `CastResume` | 2 films, 5 acts, 2 lives of the page | no banner over a live session; a film picked back up keeps its place |
| `Safety`, `TvPlayer` | 3 films: bridged, DASH, both; subtitles for two | the bridge is tried before an error is said |
| `Safety`, `TvKeys` | a paired phone or none, full screen or not | no press reaches a hidden control |
| `Safety`, `TvRemote` | 2 rooms, 2 pairings, 1 command, 2 requests of a kind | a room that is left is told to stop |
| `Safety`, `StreamProxy` | 2 requests, a page with one frame, a stranger's address and a fresh one | one browser a page |
| `Safety`, `StreamBody` | a file of 5 units, windows of 3, heads of 2, disguises of 0 to 2, 2 seeks | no seam |
| `Safety`, `MyFiles` | 2 people, 2 files, 6 acts | "Sending" only while something is sent |
| `Safety`, `Crawl` | pages of any of 8 links, 5 seasons behind them | one show an answer |
| `Safety`, `Browse` | 2 pages, 2 people, 3 acts | a series once on the shelf and in the table |
| `Safety`, `Extract` | 10 pastes over a net of pages, frames, packed scripts, redirects | types |
| `Safety`, `DeepScan` | pages with a player, with one in a frame, behind a lock, with a lure | pieces of a stream are left out |
| `Safety`, `Probe` | 6 rows, 2 asked about at a time, 7 hosts | an unmarked size was measured |
| `Safety`, `Bstar`, `Subs` | 3 titles, 6 quarters of an hour; 2 films, 1 day, 2 kept files | types |
| `Liveness`, `TvRoom` | 1 request at a time, 4 commands, a queue of 2, a reload, another site, lost polls | a television that is caught up plays what was last chosen; refinement of `Room` |
| `Liveness`, `TvRoom` again | 2 phones, 2 requests at once, 2 commands | no send overwrites another: refinement of `Room` |
| `Liveness`, `FileShelf` | 1 name, 1 request at a time and the timer, 2 hours, 1 crash | what is overdue, or orphaned, leaves |
| `Liveness`, `PhonePlayer` | 2 films, one with an HLS address, a file and a DASH one; 2 openings | a failure leads to another road or is said |
| `Liveness`, `BiliSignIn` | 2 codes, 2 requests at once, 3 kinds of paste, 3 acts of which one may be a lapse of the app's session | the panel does not stay at "Checking", unless a lapse answered what it had asked and nothing has drawn it since (`unsaid`) |
| `Upkeep`, `TvLife` | 2 codes | a television that was not refused comes to show a code |
| `Upkeep`, `HostUpdate` | 2 pushes, one with new packages, 2 acts | what is pulled is run in the end, unless npm ci left the wrong packages |
| `Upkeep`, `Watchdog` | 2 faults, 4 changes | a fault that lasts is told; a host that is well ends up with no complaint |
| `Upkeep`, `Accounts` | the owner and one more, a limit of 1, 2 acts | the owner gets in again |

Every run of a composed module also checks the types of the part that goes.

Five runs refute what a comment, a test, a note on the page or the README of the
repository says; each checks that one statement, and its finding in `PROJECT.json`
quotes the line.

| run | the code does |
|---|---|
| `CastResumePick` | adopts the stored row in the handler that is about to send the chosen film, and sends the row's |
| `TvRoomStops` | unpairs with the row it read, so that a command which landed since keeps playing |
| `FileShelfKept` | deletes a kept film, because a sweep reads its meta while it is being rewritten |
| `BstarHd` | resolves the manifest that a television asks for without the session that unlocked HD |
| `SubsHistory` | opens a film from History without the subtitle it has kept for it |

### Stated and not kept

These are defined in the modules, most with the words they take from the
repository, and are false of the code: TLC finds a short counterexample when the
module is checked with one of them as INVARIANT (or PROPERTY, for those that say
`[][...]` or `<>`), under its `Spec` and the constants of the configuration named.
For a part of a composed run those are the substitutions of the MC module. They are
no runs of their own because most are the same kind of race as one of
the five above, in another place.

| property | constants of | the code does |
|---|---|---|
| `NoIdRunsTwice` | `ShadeTap.cfg` | performs one tap in a page and again in the page that replaces it, or in two windows at once (`MaxOpen = 2`) |
| `HandedOnce`, `AckLeavesOthers` | `ShadeTap.cfg` | takes from and puts back to the slot in several awaits: one tap handed to two, another deleted or overwritten |
| `OutcomeLogged`, `FirstAnswerWins`, `LineKept` | `Safety.cfg` | loses an outcome that comes early, a first answer, a line |
| `StopIsTrue`, `CancelIsTrue` | `Parts.cfg` | answers a kept session as stopped, and a cancelled upload as nothing to do |
| `GapPlaysLastChosen`, `SeqNeverBack` | `Liveness.cfg`, the second with `MaxRequests = 2` | answers a gap without a load by its last command only; unpairs over a newer sequence number |
| `WholeUploadStored`, `NotHereIsTrue`, `RedateIsTrue`, `ReturnsToZero` | `FileShelfKept.cfg` with `Keeps = {0, 1}`, `MaxNow = 3`, `MaxCrashes = 1` | clears the part of an upload that is arriving; denies a file that is there; re-dates one that is gone; never removes what is left of a torn meta |
| `BackupTried`, `OldAnswerSendsNothing` | `CastLoad.cfg` | gives up on an HLS film that the first bridge was refused for, the second untried; sends a film that was left again, on its late refusal |
| `AskedAdoptsNothing`, `PlaceIsItsFilms`, `RowGoesWithSession` | `CastResumePick.cfg` with `MaxActs = 6`, `Lives = 2` | names the stored row as what is on, in a session that was asked for with nothing loaded; starts a film where the one before it on the TV had got to, or where a resume that came to nothing would have begun; loses a clear, or lets a beat overtake it |

For the modules that `MCParts` brings in, each is checked on the module itself, as
INVARIANT or PROPERTY of its `Spec` (`PlayGoesUp`: `FairSpec`), with the
constants of `Parts.cfg` but `MaxLines = 3`, `QueueCap = 2` and `People = {a, b}`:

| property | module | the code does |
|---|---|---|
| `MergeKeepsOrder` | `History` | folds rows that come newest first into the list one by one, each to the front: a new device shows them oldest first |
| `PlayGoesUp` | `History` | posts a play once; one made offline stays on the device |
| `MergeIsCurrent` | `History` | adds a row that was deleted elsewhere after the answer was written |
| `OneRowEach` | `History` | files two plays that overlap as two rows, and puts back a row that was played again before its Undo |
| `MergeShowsAll` (3 films) | `History` | cuts the list at its end after each row it adds, so an old row of the server pushes out one the device had |
| `FailurePutsBack`, `StoredOnce` | `CastLog` | lets the lines of a film go that was left before its flush failed; appends a batch again whose answer was lost |
| `OwnLines` | `CastLog` | sends what waited under one person as the next one to sign in |
| `OffNow`, `RowIsOfWho` | `Push` | subscribes in a run that began before the switch was turned off; keeps the row with the account that signed out |

The newer modules, with the substitutions of `MCSafety`, `MCLiveness` and `MCUpkeep`:

| property | module | the code does |
|---|---|---|
| `GoneAsksAgain` | `TvLife` | asks once after gone; if that is refused, `room` is null and `tick` asks nothing any more |
| `ScreenShowsChoice` | `TvPlayer` | attaches a film whose Shaka answered after it was left |
| `OwnRoomKept` | `TvRemote` | takes "gone" of a room that was left for the one that was joined since |
| `SegmentsCarryTheirDocument`, `NoteOnlyIfAsked` | `StreamProxy` | sends the segments of a re-issued playlist with the old referer; says the page was asked again when it was not |
| `CatchesUp`, `StartsWithItsPackages` | `HostUpdate` | ends a tick for ever after a failed `npm ci`, with the commit already pulled; a restart by hand then runs on the wrong packages |
| `LastWordIsTheFault`, `FaultIsNamed` | `Watchdog` | says "back" before it closes the complaint, which silences the next fault; keeps the first fault's name |
| `AnOwnerIsOn` | `Accounts` | lets two owners switch each other off |
| `LibraryIsMine`, `RemoteIsItsFile`, `SignedOutIsOut`, `SentIsListed`, `StoppedLeavesNothing` | `MyFiles` | lists the last person's files after a lapse; gives a picked file the address of the one before; stays signed in when the sign-out is lost; shows an old list as fresh; says nothing was left of an upload that had arrived |
| `SeasonsAreOpened` | `Crawl` | lists three numbered seasons as episodes |
| `ListStands`, `ListIsOfTheBox`, `ClockTicks`, `ShelfIsMine`, `ShelfIsRemembered` | `Browse` | paints a quiet crawl's failure, or another page's list, over the list on screen; stops the wrong clock; shows answers asked for under another account |
| `ProvenIsOffered`, `NoPieceIsOffered` | `Extract` | drops a stream it had read because of its name; passes a fragment whose type the gate is not told |
| `PokedAfterCounted` | `DeepScan` | pokes a frame that booted after the count |
| `UnmarkedIsTheFilm`, `AboutTheSize` | `Probe` | shows the size of a manifest as the film's; counts a byte-range playlist's one file once a piece |
| `TvKeepsItsSource`, `PlaceIsItsOwn`, `PlaceIsKept`, `GuardIsReleased`, `NoFalseAlarm` | `PhonePlayer` | sends the television another source when the phone's copy fails; seeks a left film's place in the next; overwrites a place that was not sought yet; keeps the guard after an opening that came to nothing; says a film failed because its own first opening was torn down |
| `SettlesAfterGate`, `OnePoll` (4 acts), `CancelStands`, `JarStays` | `BiliSignIn` | leaves the panel at "Checking" after the person has signed in again at the gate, until the view is left and entered (app.js:10444, 10520 and 5291); starts a second interval that nothing stops; draws a cancelled code again; drops a session given a moment ago |
| `PlaceSurvivesReading`, `BestOfWhatIsOpen` | `Bstar` | files a renewed address as another film; prefers a lower avc to a better hevc |
| `SubsAreTheFilms`, `TvHasTheTrack` | `Subs` | attaches a track to the film that is open when its answer comes; leaves the television without it |

### Also stated

These hold, on the module alone with the constants of its run, and have no place
in a run only because each run's properties are kept few: `DeliveryEnds`
(`ShadeTapLive.cfg`), `RouteIsTrue` (`ShadeLog`), `FailureIsTrue`, `EveryLineAccounted`,
`SettlesByItself`, `LineGoesUp`, `LiveRowKept`, `OnReaches` (`Parts.cfg`),
`RetriesEnd` and `TypeOK` (`CastLoad.cfg`), `RejoinNotResent` (`CastResume`),
`NothingOverwritten`, `NewestPhoneOnly`, `EveryCommandReached` (`TvRoom`), `KeptUntilItsTime`,
`NoneOutstays` (`FileShelf`), `ScreenIsTheFilms` (`TvPlayer`), `StillBarStays`
(`TvKeys`), `NeverOffSite`, `FirstRefusalSaid` (`StreamProxy`), `SourceReleased`
(`StreamBody`), `PullsWhenQuiet` (`HostUpdate`), `OffIsOut` (`Accounts`),
`DeletedStaysGone` (`MyFiles`), `FollowedInOrder` (`Crawl`), `ProgressIsRead`
(`Browse`), `ReportedOnItsBody` (`Extract`), `ToldWhatItSaw` (`DeepScan`),
`EveryRowSettles` (`Probe`), `EngineIsTheFilms` (`PhonePlayer`),
`NeitherStandsIn` (`BiliSignIn`), `NeverStarvesUntried` (`Bstar`), `DateIsKept`
(`Subs`).

### Bounds
Every bound is a CONSTANT named in its module, or the size of a set. Races here
need two actors at one cell (two windows, two requests, a timer and a request)
and one thing they fight over; a third adds orders but no new conflict, since
every action reads and writes the cells of one tap, one room or one id. Queues
are cut to lengths at which they overflow within the run. `ShadeTap` opens one
window at a time in its run because the proofs cover any number. `FileShelf` has
one request at a time beside the timer and the crash in its run; with two,
`KeptUntilItsTime` and `NoneOutstays` were found to hold as well (4.8 million states).
Its clock ticks once an hour; its two-hour orphan age and one-hour part age keep
the order the real ones have (24 h and 1 h), which is what the argument needs.
`Push` was also run with two people, `CastLog` with three lines and queues of two,
and `History` with a loss besides its three acts, with the same results. Constants
that stand for data (links, nets, titles, rows) are chosen so that each rule of the code
has an input that it decides, alone and together with the rule beside it. `MCSafety`
has 2.2 million states, `MCLiveness` 1.2 and `MCUpkeep` 0.1; a part that does not go
adds none.

### Fairness
Weak fairness on the steps of an event loop that has something to run (worker,
page, stream host), because they do run; on timers, because they fire. Strong
fairness on the arrival of a poll's answer, because a television polls for as
long as it lives and losing every answer is an outage. In `CastLoad` the receiver
takes and answers what it is sent (loadMedia settles), but is not obliged to
play. In `History` and `Push` the app is opened again and again on every device
(the refresh and the sync are each asked for fairly): "settles by itself" is meant
of somebody who comes back. No fairness on people:
taps, phones, uploads, re-dates, crashes and the hours that pass are never
obliged to happen, and a frozen page is not obliged to thaw.

`MCLiveness` adds: a browser settles what it was given to play and what it asked
for, and the panel's requests are answered or lost. `MCUpkeep` adds: the
television's timers fire; cron fires, its commands end, a scheduled restart is
carried out, and a person who edits the checkout is done some time; a run of the
watchdog goes on; functions answer, windows of wrong tries end and tickets run out.
Strong fairness there is for what is asked again and again and fails now and then: a
`create` that is answered, a `fetch` and a `pull` that work, a film that ends, GitHub's
and the bridge's answers, the owner's tries and the store's writes. An outage that
lasts for ever is not covered, and each property says so in its premise where it
matters (`<>[]`). Because a behaviour of a composed module is one part's for ever, one
strong fairness over a disjunction of several parts' steps says the same as one for each,
and keeps the formula small enough for TLC.

## Proofs

`ShadeTapProofs` proves, for any number of taps, pages and windows:

* `TypeCorrect`, `RunsOncePerPage`, `NoneDroppedSilently`, `AcknowledgedNotWritten`:
  `Spec => []` of `TypeOK`, `OncePerPage`, `Conservation`, `AckedNotWritten`.
* The inductive invariant is `Inv`: types, `OncePerPage`, `AckWasPerformed` (an
  acknowledgement comes from a page that has the id among the performed),
  `WrittenUnanswered` (a tap in the slot, in a put-back or a replay was not
  acknowledged in time) and `Conservation`. The last two need the middle one:
  what an acknowledgement says about the page is used long after it was sent.
* One lemma per action, each split by conjunct; `Invariance` puts them together.

It also proves `CourierImplemented`: under the mapping of
`ImplementsCourier` every step is a step of `Courier` or a stutter. It needs one
more invariant, `QueuedWasTapped`.

`ShadeLogProofs` proves, for any number of taps, pages, outcomes and rows:

* `TypeCorrect`, `OneLineEach`, `AnswersBelong`, `RoutesAreTrue`: `Spec => []` of
  `TypeOK`, `OneLinePerTap`, `AnswerBelongsToTap`, `RouteIsTrue`.
* The three properties speak of the list in the cache, and the list is what some
  handler read a while ago, so none of them is inductive. `Inv` says of every copy,
  those in the handlers' hands too, that it is true (`TrueLines`): its rows are of taps
  already traced, none twice, each with an outcome that was reported and a route that
  was taken. A copy stays true while others write (`LinesStay`), because no step takes a
  trace, a report or an acknowledgement back. That every row is of a traced tap is what
  keeps `trace()` from putting a second line in front of an old copy.
* `ReportsSaySomething` and `RoutesWereTaken` say that what is about to be put is true.

`TvRoomProofs` proves, for any number of phones, requests, keys and commands:

* `TypeCorrect`, `RowKeepsEverything`, `LastChoiceIsPlayed`: `Spec => []` of `TypeOK`,
  `NothingOverwritten`, `PlaysLastChosen`; and `OnlyTheNewestPhone`, the action property
  `NewestPhoneOnly`.
* The row, what a request has read of it, the answer on its way and the television all
  stand on one list, the commands accepted so far. `Faithful`: the row is the end of that
  list and its `seq` the list's length, and a request that read this very `seq` holds this
  very queue, which is what makes a compare that succeeds harmless. `TvInStep`: what is on
  is what the list up to the television's place comes to. `PollInStep`: an answer is a
  stretch of the list that begins where the television is, or at a load. Only the first is
  a property; the other two carry it to the screen. The step that needs most is `pending`,
  where a gap collapses to the last load (`Pending` is shown to be one stretch of the row).
* Both properties say "unless", and so does `Inv`, with the same two flags: `Faithful`
  until an `unpair` wrote over a command (`clobbered`, the finding of `TvRoomStops`),
  `TvInStep` and `PollInStep` until a gap was answered that holds no load either (`lossy`,
  where the code gives the newest command alone). Types, order and `NewestPhoneOnly` hold
  throughout.
* `RoomImplemented`: `Spec => ImplementsRoom`. `Room` knows no request, poll or `seq`; every
  step of the protocol is one of its steps or a stutter, with what was accepted for its
  list and the two flags for how far it promises. `Room` says what is on by looking at the
  list (`Shows`), `TvRoom` by folding the commands one by one; `PlayingShows` is that the
  two agree. A reload goes back to a page command or to the beginning, and that it never
  goes forward needs one more part of the invariant: what is kept in storage is not ahead of
  `since`.

`StreamProofs` proves of the body, for every size of file, window, front and buffer and
any number of requests (`Sizes`: of one unit or more, the buffer of none or more):

* `TypeCorrect` and `WithoutASeam`: `Spec => []` of `TypeOK` and `NoSeam`. The invariant
  names the number (`Shift`) by which the player's offsets and the file's differ, and says
  of everything that is held back, sent or read that it is the file's, shifted by it. The
  part that does the work is `Uncut`: as long as a film behind an image can still be asked
  for by range, nothing of its body was read; a cut answer that takes the ranges away
  comes before the first byte.

and of the repair, for any number of requests, whatever pages, frames and browsers say:

* `OneBrowser`, `StaysOnSite`, `SaysTheFirstRefusal`: `Spec => []` of
  `OneBrowserPerPage`, `NeverOffSite`, `FirstRefusalSaid`. `RepairInv` ties the number of
  browsers to the flight that is shared, and says of each request (`Repaired`) that it is
  about the address that was asked for until it is answered, that what it was handed
  instead is of the same site and another, and that the answer it carries under a repair
  that failed is the opening that began it. What a page or a browser answers is not
  assumed to be anything: `choose` alone keeps a stranger's address out
  (`ChosenIsSited`).

and of the folder, for any films, requests, sweeps and crashes (`FilmsOutliveParts`: a part
may be as old as an hour or more, a film without a meta older; `CAST_FILE_TTL_HOURS` is a
day unless set):

* `KeptUntilThen`, `Spec => []KeptUntilItsTime`: a film that nobody re-dates or removes is
  there until the hour it was answered with. `Unlink` may come any time after the walk that
  found the name, so the invariant speaks of lists: a sweep's list holds a film only with
  its meta, or the sweep met the meta already, or the film is `Young`, or `Lost`, which is
  to say owed to nobody any more. `FileShelfKept`, the finding, is the case this leaves
  out: a re-date that is being written while a sweep reads.
* `NothingOutstays`, `Spec => []NoneOutstays`: what is late is in the list of the sweep that
  is on, and once the hour's sweep is through nothing is late (`InTime`, `Taken`,
  `Listing`);
* `FolderTypeCorrect`, of the same invariant.

`CastProofs` proves:

* of `CastLoad`, for any films and acts: `TypeCorrect`, and `ShowsTheChoice`, `Spec =>
  []TvShowsTheChoice`.
  Not inductive as it stands: a load that is on its way decides what the receiver has
  next. `LoadInv` adds that without a session nothing is on its way (`Quiet`) and that,
  unless a film was chosen over an older load, all that is on its way and all that is
  watched is the page's film (`Chosen`).
* of `CastResume`, for any number of session lives but none (`Lives`): `BannerIsDown`
  (`NoBannerOverLive`), `ResumedInPlace` (the action property `ResumeKeepsPlace`) and
  `NotSentAgain` (`RejoinNotResent`, which no run checks).
* of `CastLog`, for any films, lines and caps: `LinesOfTheFilm`, `Spec => []` of
  `LogIsOfItsFilm`. `LogInv` says it of every queue, of every batch on its way and of
  every stored log at once: a flush that fails puts its batch back in front of a queue
  that may have changed films meanwhile.

`TapWorkProofs` proves, for any number of taps and any patience but none (`Live`,
`Rejoin`): `TypeCorrect`, `ActedOnOrGivenUp` and `FailuresAreTrue` (`FailureIsTrue`). A
tap's own timer is the only one that acts for it or gives it up, and the step that does
stops it: `WorkInv` says what each state of a tap allows its counters, its command and its
report to be, and that only the cast's buttons wait. And beside the tap, two more parts of
the page:

* of `PhonePlayer`, whatever the constants: `PhonePlaysTheChoice` (`EngineIsTheFilms`). A
  library that comes late finds openings of films that were left; `OnePlayer` says that
  there is one player at most, the one that is attached, and that a new film made an error
  of what the old one was opening;
* of `Push`, for any people, runs and acts (`Counted`): `WakeTypeCorrect`, and
  `LiveRowsStay`, the action property `LiveRowKept`. Not the action alone can say why a row
  that is deleted is a dead one: a run chose its endpoint steps before. `Harmless` says of
  every run that what it is about to have deleted, or a worker's replaced endpoint, is not
  the browser's subscription; it stays true because a subscription that was dropped is
  never minted again.

`TvPageProofs` proves:

* of `TvKeys`: `PressesAreSeen` (`FocusIsSeen`) and `StillFilmKeepsItsBar`
  (`StillBarStays`), given only that `None` is no control and no event;
* of `TvPlayer`, for any films: `PlayerTypeCorrect`, `TriedBeforeItFails`
  (`BridgeBeforeError`) and `PictureIsTheFilms` (`ScreenIsTheFilms`), whatever answer of
  Shaka comes after its film was left;
* of `TvLife`, for any codes, `None` not among them: `SilenceIsRefusal`, a television with nothing
  asked and no timer was refused the room it asked for when its own was gone (the one way
  to fall silent that `GoneAsksAgain` above names), and `LeavesOnlyTheGone`, which speaks
  of answers that come long after they were given: the invariant says what an answer on
  its way still knows of the table;
* of `TvRemote`: `LeftRoomsStop`, the action property `LeftIsStopped`.

`CatalogueProofs` proves:

* of `MyFiles`, for any people, files and acts: `FilesTypeCorrect`; `ShownIsSent`
  (`SendingIsSent`): a "Sending" on screen is an upload under way, which needs that the
  panel and the uploads are about one picked file; and `DeletionsStay` (`DeletedStaysGone`),
  where `GoneInv` says it of the host, of the list on screen and of the answers on their
  way at once: one read before a deletion is marked old when it is outrun;
* of `DeepScan`: `NoPartIsOffered` (`PartsLeftOut`), if every list says that it is one
  (`ListsAreTold`), and `ToldAsSeen` (`ToldWhatItSaw`), without a condition: what the
  samples found is kept while the page changes under them;
* of `Probe`, for any rows, hosts and width, `None` not among the words for a size's
  origin (`Tellable`): `ExactIsMeasured` (`UnmarkedIsExact`). What is on screen was computed
  from an answer that two requests fill in one after the other; `RowTrue` says of that
  answer, from "asked" on, that what it holds as measured was measured, and that the row of
  a live list is shown before anything measures it;
* of `Browse`, with no hypothesis: `OneRowEach` (`SeriesOnceEach`), of the shelf on screen,
  the table of the server and every answer that is on its way;
* of `Crawl`, for any links whose numbers are numbers (`Numbered`): `ChildrenOfOneShow`
  (`OneShow`), through the shape rule, the narrowing to the page's kin and both orders.

The last two rest on lemmas about `Places`: in an order, the ranks of n places are 1 to n
(`RanksReachAll`, by induction on the set), so a list that is filtered or sorted has what
the places had (`RankedIs`) and, filtered, in the order it had (`KeptIs`).

The assumptions are those of the modules' constants; where a module is instantiated its
assumptions are hypotheses of the theorem, under the name the module or the proof gives
them, and `MCSafety` evaluates `Sizes` on its instance. Every property that is proved was
model-checked first.

Some modules were changed to be reasoned about. What `After` looks for is an operator of
its own, `Later`, with the same lines. `Crawl` and `Browse` filter and sort with `Places`,
because the library's are recursive; `PlacesAreRight` in `MCSafety` compares the two on
every list of up to four. And the head of an answer (`Answer` of
`StreamProxy`) was a CASE whose guards overlapped: TLC takes the first that holds, the
logic any of them, and the repair's last theorem could not be proved until it said which.

Only model-checked: liveness (temporal fairness and ENABLED are beyond the
prover); the types that `TypesOK` gathers, of the parts of which no theorem says them; and
what is said of `BiliSignIn`, `HostUpdate`, `Watchdog`,
`Accounts`, `History`, `Bstar`, `Subs` and `Extract`. No module proved about uses a RECURSIVE operator.

## Not modelled

Painting of the shade (the phone's notification centre decides most of it), the
encryption of push, artwork and covers (functions of a name), the offline shell's
cache, rendering, the QR drawing, the embed button, the database client,
deployment. Within the parts that are modelled: what patterns find in a page's
text, the text of playlists, manifests and subtitle files, the wording of what is
shown, signatures and hashes, quotas of the stream host, the ageing of tombstones
(ninety days, five hundred of them), the clock between two statuses, the audio
tracks. None of these decides which step comes next in what is modelled, and
where a result of theirs does, it is an input chosen by the environment.

`Bstar`, `Subs` and `Extract` have types and, the first two, a refuted statement in the
runs; their other properties are stated in the modules. `DeepScan` ends with its filter: that
masters are then opened into their rungs and the list is cut at `MAX_RESULTS` is left out.

## Plan

1. Done: every module above; the proofs above.
2. Left: safety of `HostUpdate`, `Watchdog` and `BiliSignIn` for every value of their
   constants, as `PullsWhenQuiet` and `NeitherStandsIn` state it; `TypeOK` of the modules
   that have theorems without it (`CastResume`, `CastLog`, `TvKeys`, `TvLife`, `TvRemote`,
   `StreamProxy`, `Crawl`, `Browse`, `DeepScan`, `Probe`).
