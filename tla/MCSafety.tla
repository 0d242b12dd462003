------------------------------ MODULE MCSafety ------------------------------
(***************************************************************************)
(* The parts of the app whose safety is asked, on small instances, one at  *)
(* a time: a behaviour is about the one that part names, and the others    *)
(* stay in an initial state.  None reads what another writes: the taps'    *)
(* log, the resume banner, TV mode's page, keys and remote, the stream     *)
(* host's proxy, the person's files, and the readers of pages.             *)
(***************************************************************************)
EXTENDS ShadeLog, TLC

CONSTANTS Films, NoFilm, None, Rooms, Requests, Conns,
          Acts, Turns, Days    \* bounds: acts in the banner, on the shelf and with files, days

ASSUME SafetyBounds ==
  /\ NoFilm \notin Films /\ None \notin Films \cup Rooms
  /\ {Acts, Turns, Days} \subseteq Nat \ {0}

-----------------------------------------------------------------------------
(* The world a part meets, where it is more than a set. *)

\* A series page and the links it may carry: seasons out of order, a season of
\* another show and of another site, episodes with and without their season.
Link(u, w, nm, n, s, shape) ==
  [url |-> u, site |-> "x", opens |-> TRUE, words |-> w, names |-> nm, num |-> n, season |-> s,
   shape |-> shape, dir |-> shape, digit |-> TRUE]
Season(i)     == Link(<<"s", i>>, {"season path"}, {"show"}, None, i, "season")
Episode(i, j) == Link(<<"e", i, j>>, {"episode path"}, {"show"}, j, None, "episode")
SeriesPage == [url |-> "series", site |-> "x", dir |-> "series", names |-> {"show"}]
Catalogue  == <<Season(2), Season(1), Season(3), [Season(4) EXCEPT !.names = {"other"}],
                [Episode(9, 1) EXCEPT !.names = {"other"}], [Episode(1, 1) EXCEPT !.season = 1],
                [Episode(8, 2) EXCEPT !.words = {}], [Season(5) EXCEPT !.site = "y"]>>
Within == [u \in {<<"s", i>> : i \in 1..5} |->
             [url |-> u, site |-> "x", dir |-> "season", names |-> {"show"},
              links |-> IF u[2] = 3 THEN <<Season(1)>>
                        ELSE <<Episode(u[2], 2), Episode(u[2], 1), Episode(1, 1), Season(3)>>]]

\* The web a paste may lead to: a page that names files outright, one whose
\* frames do, one whose config does, files that do not say what they are, a
\* redirect, and an address of the local network.
Addr(n, suffix) == [n |-> n, suffix |-> suffix, private |-> FALSE, advert |-> FALSE]
Bare(n) == Addr(n, "none")
Master  == Addr("m", "m3u8")
Clip    == Addr("d", "mp4")
Advert  == [Bare("ad") EXCEPT !.advert = TRUE]
Lan     == [Bare("lan") EXCEPT !.private = TRUE]
Answer  == [status |-> "ok", moved |-> None, type |-> "html", body |-> "page", layers |-> <<<<>>>>,
            frames |-> <<>>, config |-> <<>>, variants |-> <<>>]
Body(type, body) == [Answer EXCEPT !.type = type, !.body = body]
Frame(a, hint, dead) == [to |-> a, dead |-> dead, hint |-> hint]
Net ==
  (Bare("p1") :> [Answer EXCEPT !.layers = <<<<Clip, Addr("sg", "ts"), Addr("j", "js")>>, <<Master>>>>]) @@
  (Bare("p2") :> [Answer EXCEPT !.config = <<Addr("g", "php"), Bare("o")>>,
                    !.frames = <<Frame(Bare("f1"), FALSE, FALSE), Frame(Bare("f3"), TRUE, TRUE),
                                 Frame(Advert, TRUE, FALSE), Frame(Bare("f2"), TRUE, FALSE)>>]) @@
  (Bare("p3") :> [Answer EXCEPT !.config = <<Addr("g", "php"), Bare("s"), Bare("o"), Addr("j", "js"),
                                            Addr("sg", "ts"), Bare("fn")>>]) @@
  (Bare("p4") :> Body("octet", "container")) @@
  (Bare("p5") :> [Body("text", "master") EXCEPT !.variants = <<Bare("v1")>>]) @@
  (Master :> [Body("mpegurl", "master") EXCEPT !.variants = <<Bare("v1")>>]) @@
  (Bare("v1") :> Body("text", "playlist")) @@
  (Bare("f1") :> [Answer EXCEPT !.config = <<Bare("fn")>>]) @@
  (Bare("f2") :> [Answer EXCEPT !.layers = <<<<>>, <<Master, Clip>>>>]) @@
  (Bare("f3") :> Answer) @@ (Addr("g", "php") :> Body("mp4", "container")) @@
  (Bare("s") :> Body("mp2t", "other")) @@ (Bare("o") :> Body("octet", "other")) @@
  (Clip :> Body("mp4", "container")) @@ (Addr("j", "js") :> Body("text", "page")) @@
  (Addr("sg", "ts") :> Body("octet", "page")) @@ (Advert :> Answer) @@ (Lan :> Answer) @@
  (Bare("fn") :> Body("octet", "container")) @@ (Bare("r1") :> [Answer EXCEPT !.moved = Bare("p3")])

\* Pages a browser opens: with a player, with one in a frame behind a lock,
\* with one that comes late, and with none.
Arrival(player, embed, lazy, locked) ==
  [player |-> player, embed |-> embed, lazy |-> lazy, wall |-> FALSE, locked |-> locked]
Arrivals == {Arrival(TRUE, FALSE, FALSE, FALSE), Arrival(FALSE, TRUE, FALSE, TRUE),
             Arrival(FALSE, FALSE, TRUE, FALSE), Arrival(FALSE, FALSE, FALSE, FALSE)}
Film1 == Addr("s1", "mp4")
TypeOf == (Master :> "text") @@ (Bare("v") :> "mpegurl") @@ (Film1 :> "mp4")

\* A page's files as they were asked for, and as the page or a frame of it hands
\* them out again: itself, a stranger's, and one of the frame's own.
Of(host, file, sig) == [host |-> host, file |-> file, sig |-> sig]
Edge(n)   == <<n, "cdn", "net">>
Blog      == [host |-> <<"blog", "com">>]
Offer(host, file, sig, label, from) == [url |-> Of(host, file, sig), label |-> label, from |-> from]
Self      == Offer(Edge("p1"), "v", "t", "720", Blog)
Fresh     == Offer(Edge("p2"), "v", "o", "other", [host |-> <<"embed", "com">>])
Stranger  == Offer(<<"x", "org">>, "v", "o", "720", [host |-> <<"embed", "com">>])

\* Titles of Bilibili TV, as its host here and the one abroad answer for them.
Cut(q, codec, open) == [q |-> q, codec |-> codec, open |-> open]
Upstream == [t \in {"series", "upload", "gone"} |->
  CASE t = "series" -> [here |-> "ok", there |-> "region",
                        rends |-> {Cut(80, "avc", FALSE), Cut(32, "avc", TRUE), Cut(32, "hevc", TRUE)}]
    [] t = "upload" -> [here |-> "region", there |-> "ok",
                        rends |-> {Cut(32, "hevc", TRUE), Cut(16, "avc", TRUE)}]
    [] OTHER        -> [here |-> "delisted", there |-> "ok", rends |-> {}]]
To(site, title) == [site |-> site, title |-> title]

\* Rows of the list of addresses, and the hosts that are asked their size.
Listing(named, body, live, length, pieces, rate, size, head) ==
  [named |-> named, body |-> body, live |-> live, length |-> length, pieces |-> pieces,
   rate |-> rate, size |-> size, head |-> head]
Streams == <<Listing("HLS", "master", FALSE, 4, <<"a", "b", "c", "d">>, 2, "m", FALSE),
             Listing("MP4", "file", FALSE, 5, <<>>, None, "f", TRUE),
             Listing("HLS", "playlist", TRUE, 4, <<"a">>, None, "m", FALSE),
             Listing("VIDEO", "mpd", FALSE, 4, <<>>, None, "v", FALSE),
             Listing("HLS", "playlist", FALSE, 4, <<"f", "f">>, None, "m", FALSE),
             Listing("DASH", "mpd", FALSE, 4, <<>>, None, "v", FALSE)>>
Says(answers, total) == [answers |-> answers, total |-> total]
HostOf == ("a" :> Says("range", 3)) @@ ("b" :> Says("whole", 4)) @@ ("c" :> Says("refused", 3)) @@
          ("d" :> Says("bare range", 3)) @@ ("f" :> Says("range", 9)) @@ ("v" :> Says("whole", 2)) @@
          ("m" :> Says("whole", 2))

\* Kept and Ranked of module Places are filter and sort, on small lists.
L == INSTANCE Places
Numbers == UNION {[1..n -> 1..3] : n \in 0..4}
ASSUME PlacesAreRight ==
  \A s \in Numbers :
    LET D == DOMAIN s IN
    /\ \A X \in SUBSET (1..3) : L!Kept(s, {i \in D : s[i] \in X}) = SelectSeq(s, LAMBDA x : x \in X)
    /\ L!Ranked(s, D, {p \in D \X D : s[p[1]] < s[p[2]] \/ (s[p[1]] = s[p[2]] /\ p[1] <= p[2])})
       = SortSeq(s, <)

-----------------------------------------------------------------------------

VARIABLES
  part,                    \* which part goes
  current, bannerPhone, bannerAsked, picking, pendingAt, restored, bannerReading, sess,
  bannerTv, row, wire, bannerCarry, over, acts, life,   \* CastResume
  tvLoaded, source, dash, due, opening, shaka, tvTried, failed, motion, fetching, tracks,
  late,   \* TvPlayer
  keyFilm, keyPlaying, blocked, keyPhone, bar, hiding, focus, full, unseen,   \* TvKeys
  remote, remoteShown, awaitSeq, settling, polls, sends, leaving, sent, pairs, rowKey,
  remoteQueue, remoteSaid, ran,   \* TvRemote
  req, cache, flight, browsers, memory, expiries,   \* StreamProxy
  wrap, byRange, conn, bodyAt, held, ranges, seeks,   \* StreamBody
  cookie, fileMe, form, pick, filePanel, unsaid, xhr, ups, shelf, list, stale, fileAsks,
  gone, fileTurns,   \* MyFiles
  links, crawlAt, crawlLeft, crawlFound,   \* Crawl
  browseMe, box, mode, browsePanel, err, browseReading, crawling, clock, running, items,
  browseLoaded, browseAsks, browseRows, undo, lapsed, browseTurns,   \* Browse
  page, scanAt, waiting, scanSaid, media, masters, scanAnswer,   \* Extract
  arrival, top, frames, deepPlaying, deepAsked, served, deepFound, deepHanded, pending,
  segments, lost, evidence, saw, pokes, todo, deepAt, looks, deepAnswer,   \* DeepScan
  probeAt, out, probeLeft, got, next, probeShown,   \* Probe
  now, signed, bstarFilm, bstarRows, bstarReading, connected, bstarHanded, bstarTv, timer,
  bstarTried, told, bstarTurns,   \* Bstar
  subsFilm, subs, subsCarry, subsTv, subsAsks, listed, subsRows, day, subsRead   \* Subs

resume  == <<current, bannerPhone, bannerAsked, picking, pendingAt, restored,
             bannerReading, sess, bannerTv, row, wire, bannerCarry, over, acts, life>>
player  == <<tvLoaded, source, dash, due, opening, shaka, tvTried, failed, motion,
             fetching, tracks, late>>
press   == <<keyFilm, keyPlaying, blocked, keyPhone, bar, hiding, focus, full, unseen>>
control == <<remote, remoteShown, awaitSeq, settling, polls, sends, leaving, sent, pairs,
             rowKey, remoteQueue, remoteSaid, ran>>
proxy   == <<req, cache, flight, browsers, memory, expiries>>
body    == <<wrap, byRange, conn, bodyAt, held, ranges, seeks>>
files   == <<cookie, fileMe, form, pick, filePanel, unsaid, xhr, ups, shelf, list, stale,
             fileAsks, gone, fileTurns>>
crawl   == <<links, crawlAt, crawlLeft, crawlFound>>
browse  == <<browseMe, box, mode, browsePanel, err, browseReading, crawling, clock,
             running, items, browseLoaded, browseAsks, browseRows, undo, lapsed,
             browseTurns>>
scan    == <<page, scanAt, waiting, scanSaid, media, masters, scanAnswer>>
deep    == <<arrival, top, frames, deepPlaying, deepAsked, served, deepFound, deepHanded,
             pending, segments, lost, evidence, saw, pokes, todo, deepAt, looks, deepAnswer>>
probe   == <<probeAt, out, probeLeft, got, next, probeShown>>
bstar   == <<now, signed, bstarFilm, bstarRows, bstarReading, connected, bstarHanded,
             bstarTv, timer, bstarTried, told, bstarTurns>>
captions == <<subsFilm, subs, subsCarry, subsTv, subsAsks, listed, subsRows, day, subsRead>>

R == INSTANCE CastResume WITH
  MaxActs <- Acts, Lives <- 2, phone <- bannerPhone, asked <- bannerAsked,
  reading <- bannerReading, tv <- bannerTv, carry <- bannerCarry
P == INSTANCE TvPlayer WITH
  Films <- 1..3, Bridged <- {1, 2}, Dash <- {1, 3}, Subbed <- {1, 2}, loaded <- tvLoaded,
  tried <- tvTried
K == INSTANCE TvKeys WITH
  film <- keyFilm, playing <- keyPlaying, phone <- keyPhone
N == INSTANCE TvRemote WITH
  MaxPairs <- 2, MaxSeq <- 1, MaxAsks <- 2, Sends <- {1}, shown <- remoteShown,
  queue <- remoteQueue, said <- remoteSaid
S == INSTANCE StreamProxy WITH
  Asked <- {Of(Edge("p1"), "v", "t"), Of(Blog.host, "v", "t")}, Page <- Blog,
  Label <- "720", Offers <- {<<>>, <<Self>>, <<Stranger>>, <<Stranger, Fresh>>},
  Frames <- {<<>>, <<Fresh>>}, MaxFrames <- 1, MemCap <- 1, MaxExpiries <- 1,
  CacheCap <- 2, Registry <- {"co"}
Y == INSTANCE StreamBody WITH
  Size <- 5, Window <- 3, Peek <- 2, Buffer <- 1, MaxSeeks <- 2, at <- bodyAt
F == INSTANCE MyFiles WITH
  People <- {"ann", "bob"}, Files <- {"f1", "f2"}, MaxTurns <- Turns + 3, me <- fileMe,
  panel <- filePanel, asks <- fileAsks, turns <- fileTurns
C == INSTANCE Crawl WITH
  Page <- SeriesPage, FollowMax <- 3, at <- crawlAt, left <- crawlLeft, found <- crawlFound
B == INSTANCE Browse WITH
  Pages <- {"p", "q"}, People <- {"ann", "bob"}, MaxTurns <- Turns, me <- browseMe,
  panel <- browsePanel, reading <- browseReading, loaded <- browseLoaded,
  asks <- browseAsks, rows <- browseRows, turns <- browseTurns
E == INSTANCE Extract WITH
  Starts <- {Bare(p) : p \in {"p1", "p2", "p3", "p4", "p5", "r1", "s", "f3"}} \cup {Lan, Master},
  Walled <- {Bare("f3")}, MaxHops <- 2, MaxRounds <- 3, MaxFrames <- 3, MaxCandidates <- 8,
  MaxProbes <- 5, at <- scanAt, said <- scanSaid, answer <- scanAnswer
D == INSTANCE DeepScan WITH
  Pages <- Arrivals, Frames <- {"host", "away"}, AdFrames <- {}, Film <- {Master},
  Lists <- (Master :> {Bare("v")}) @@ (Bare("v") :> {Film1}), Masters <- {Master},
  MaxLooks <- 3, MaxFound <- 3, playing <- deepPlaying, asked <- deepAsked,
  found <- deepFound, handed <- deepHanded, at <- deepAt, answer <- deepAnswer
Q == INSTANCE Probe WITH
  Width <- 2, Samples <- 3, at <- probeAt, left <- probeLeft, shown <- probeShown
T == INSTANCE Bstar WITH
  Titles <- DOMAIN Upstream,
  Links <- {To("tv", "series"), [site |-> "bili.im", to |-> To("tv", "upload")],
         [site |-> "b23.tv", to |-> To("tv", "gone")], [site |-> "bili.im", to |-> To("com", "x")]},
  Ttl <- 1, CdnLife <- 3, RenewAfter <- 2, MaxClock <- 6, MaxTurns <- 3, film <- bstarFilm,
  rows <- bstarRows, reading <- bstarReading, handed <- bstarHanded, tv <- bstarTv,
  tried <- bstarTried, turns <- bstarTurns
U == INSTANCE Subs WITH
  Keyed <- TRUE, MaxDay <- Days, MaxKept <- 2, MaxBusy <- 1, film <- subsFilm,
  carry <- subsCarry, tv <- subsTv, asks <- subsAsks, rows <- subsRows, read <- subsRead

\* The sizes of a body are what the proofs about it take them to be.
ASSUME BodySizes == Y!Sizes

\* A part that does not go has one initial state.
PartsInit ==
  /\ part \in {"log", "resume", "player", "press", "control", "proxy", "body",
               "files", "crawl", "browse", "scan", "deep", "probe", "bstar", "captions"}
  /\ Init /\ R!Init /\ (part # "resume" => row = NoFilm)
  /\ P!Init /\ K!Init /\ (part # "press" => ~keyPhone /\ ~full)
  /\ N!Init /\ S!Init /\ Y!Init /\ (part # "body" => wrap = 0 /\ byRange)
  /\ F!Init /\ C!Init /\ (part # "crawl" => links = <<>>)
  /\ B!Init /\ (part # "browse" => browseMe = "ann")
  /\ E!Init /\ (part # "scan" => page = Master)
  /\ D!Init /\ (part # "deep" => arrival = CHOOSE a \in Arrivals : TRUE)
  /\ Q!Init /\ T!Init /\ (part # "bstar" => ~signed /\ ~connected)
  /\ U!Init

\* The part that goes, and the others, which stay.
Rest(p) ==
  /\ part = p /\ UNCHANGED part
  /\ (p # "log" => UNCHANGED vars)           /\ (p # "resume" => UNCHANGED resume)
  /\ (p # "player" => UNCHANGED player)
  /\ (p # "press" => UNCHANGED press)        /\ (p # "control" => UNCHANGED control)
  /\ (p # "proxy" => UNCHANGED proxy)        /\ (p # "body" => UNCHANGED body)
  /\ (p # "files" => UNCHANGED files)        /\ (p # "crawl" => UNCHANGED crawl)
  /\ (p # "browse" => UNCHANGED browse)      /\ (p # "scan" => UNCHANGED scan)
  /\ (p # "deep" => UNCHANGED deep)          /\ (p # "probe" => UNCHANGED probe)
  /\ (p # "bstar" => UNCHANGED bstar)        /\ (p # "captions" => UNCHANGED captions)

LogGoes      == Rest("log") /\ Next
ResumeGoes   == Rest("resume") /\ R!Next
PlayerGoes   == Rest("player") /\ P!Next
PressGoes    == Rest("press") /\ K!Next
ControlGoes  == Rest("control") /\ N!Next
ProxyGoes    == Rest("proxy") /\ S!Next
BodyGoes     == Rest("body") /\ Y!Next
FilesGoes    == Rest("files") /\ F!Next
CrawlGoes    == Rest("crawl") /\ C!Next
BrowseGoes   == Rest("browse") /\ B!Next
ScanGoes     == Rest("scan") /\ E!Next
DeepGoes     == Rest("deep") /\ D!Next
ProbeGoes    == Rest("probe") /\ Q!Next
BstarGoes    == Rest("bstar") /\ T!Next
CaptionsGoes == Rest("captions") /\ U!Next

PartsNext ==
  \/ LogGoes \/ ResumeGoes \/ PlayerGoes \/ PressGoes \/ ControlGoes
  \/ ProxyGoes \/ BodyGoes \/ FilesGoes \/ CrawlGoes \/ BrowseGoes \/ ScanGoes \/ DeepGoes
  \/ ProbeGoes \/ BstarGoes \/ CaptionsGoes

parts == <<part, vars, resume, player, press, control, proxy, body, files, crawl,
           browse, scan, deep, probe, bstar, captions>>

SafetySpec == PartsInit /\ [][PartsNext]_parts

-----------------------------------------------------------------------------
\* The types of the part that goes.
TypesOK ==
  CASE part = "log" -> TypeOK         [] part = "resume" -> R!TypeOK
    [] part = "player" -> P!TypeOK    [] part = "press" -> K!TypeOK   [] part = "control" -> N!TypeOK
    [] part = "proxy" -> S!TypeOK     [] part = "body" -> Y!TypeOK    [] part = "files" -> F!TypeOK
    [] part = "crawl" -> C!TypeOK     [] part = "browse" -> B!TypeOK  [] part = "scan" -> E!TypeOK
    [] part = "deep" -> D!TypeOK      [] part = "probe" -> Q!TypeOK   [] part = "bstar" -> T!TypeOK
    [] part = "captions" -> U!TypeOK

\* No banner offers to resume over a live session (CastResume: app.js drawNowPlaying).
NoBannerOverLive == R!NoBannerOverLive

\* A film that is picked back up goes on where it was (CastResume: app.js resumeCast).
ResumeKeepsPlace == R!ResumeKeepsPlace

\* The television tries the other way before it says it failed (TvPlayer: tv.js fail).
BridgeBeforeError == P!BridgeBeforeError

\* No press reaches a control that is not to be seen (TvKeys: tv.js hideHud, keydown).
FocusIsSeen == K!FocusIsSeen

\* A room whose phone has left it was told to stop (TvRemote: tvmode.js unpair).
LeftIsStopped == N!LeftIsStopped

\* One browser asks a page, however many segments were refused (StreamProxy: stream.js).
OneBrowserPerPage == part = "proxy" => S!OneBrowserPerPage

\* Across windows, seeks and disguises the player's bytes are the file's (StreamBody).
NoSeam == part = "body" => Y!NoSeam

\* An upload that is shown is one that is sent (MyFiles: app.js upload).
SendingIsSent == part = "files" => F!SendingIsSent

\* The list of episodes is of one show (Crawl: crawl.js preferKin).
OneShow == part = "crawl" => C!OneShow

\* A season that is looked at again is the same row (Browse: app.js rememberSeries).
SeriesOnceEach == part = "browse" => B!SeriesOnceEach

\* The pieces of a stream are not offered as films (DeepScan: scan.js).
PartsLeftOut == part = "deep" => D!PartsLeftOut

\* A size that is not marked as an estimate was measured (Probe: probe.js).
UnmarkedIsExact == part = "probe" => Q!UnmarkedIsExact

\* A kept file is not read after its date (Subs: api/subs.js serveKept).
DateIsKept == part = "captions" => U!DateIsKept

\* A cast of Bilibili TV goes out at the rendition the session unlocks (Bstar:
\* app.js renderBstarSection says so); api/bstar.js asks without the session.
HdIsServed == T!HdIsServed
=============================================================================
