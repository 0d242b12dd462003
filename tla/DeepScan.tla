-------------------------------- MODULE DeepScan --------------------------------
(***************************************************************************)
(* The deep scan: api/scan.js.  A page is opened in a browser and watched  *)
(* while it plays: what it asks for, what it is answered, what stands on   *)
(* its media elements, what its scripts were handed.  The scan looks, then *)
(* pokes the page and its frames, and looks again, until something that    *)
(* can be played turns up or its time is over.                             *)
(*                                                                         *)
(* The page is the environment: its frames boot late, a click may start    *)
(* its player, lead the frame away or bring up a refusal, and its player,  *)
(* once started, asks for a playlist and then for what the playlist lists. *)
(***************************************************************************)
EXTENDS MediaGate

CONSTANTS
  None,
  Pages,       \* what a page may hold on arrival
  Frames,      \* the frames it may boot, and where a click may lead them
  AdFrames,    \* the frames that are never a player
  Film,        \* the playlist, or the file, its player asks for first
  TypeOf,      \* address -> what the server calls it
  Lists,       \* playlist -> the addresses it names
  Masters,     \* the playlists that are masters
  MaxLooks,    \* WATCH_MS / WATCH_STEP_MS
  MaxFound     \* the cap on what is noted

VARIABLES
  arrival,     \* the page as it came
  top,         \* its document: player, embed, lazy, wall, locked
  frames,      \* the frames that are there: whether each holds a player, and a refusal
  playing,     \* the player has started
  asked,       \* requests on the wire
  served,      \* addresses that were answered
  found,       \* address -> the type that is known of it
  handed,      \* what the hooks saw and the scan has not drained
  pending,     \* playlist bodies still being read
  segments,    \* what the playlists that were read name
  lost,        \* a body never came, or came too late
  evidence,    \* players, embeds, wall: the most that was ever seen
  saw,         \* what any sample saw: for the properties only
  pokes,       \* by document
  todo,        \* the documents this round of pokes has still to come to
  at, looks, answer

wire == <<asked, served, found, handed, pending, segments, lost>>
world == <<arrival, top, frames, playing>>
vars == <<world, wire, evidence, saw, pokes, todo, at, looks, answer>>

Alive == at \notin {"launching", "answered"}
Docs == Frames \cup {"top"}

Init ==
  /\ arrival \in Pages /\ top = arrival /\ frames = <<>> /\ playing = FALSE
  /\ asked = {} /\ served = {} /\ found = <<>> /\ handed = {} /\ pending = {} /\ segments = {} /\ lost = FALSE
  /\ evidence = [player |-> FALSE, embed |-> FALSE, wall |-> FALSE]
  /\ saw = {} /\ pokes = [d \in Docs |-> 0] /\ todo = {} /\ at = "launching" /\ looks = 0 /\ answer = None

-----------------------------------------------------------------------------
(* The page. *)
Boots(f) ==
  /\ Alive /\ f \notin DOMAIN frames /\ top.embed /\ f # "away"
  /\ \E player \in BOOLEAN : frames' = (f :> [player |-> player, wall |-> FALSE]) @@ frames
  /\ UNCHANGED <<arrival, top, playing, wire, evidence, saw, pokes, todo, at, looks, answer>>

\* What the page's player may ask for: the film, and what a playlist it read names.
Wanted == Film \cup UNION {Lists[p] : p \in served \cap DOMAIN Lists}

Noted(a, type) ==
  IF a \in DOMAIN found THEN (IF found[a] = "" THEN [found EXCEPT ![a] = type] ELSE found)
  ELSE IF Cardinality(DOMAIN found) >= MaxFound THEN found ELSE (a :> type) @@ found

\* Several are noted in some order, as far as the cap goes.
NotedAll(as) ==
  LET new == as \ DOMAIN found
      room == {s \in SUBSET new : Cardinality(s) = Cardinality(new) \/ Cardinality(s) + Cardinality(DOMAIN found) = MaxFound}
  IN {[a \in DOMAIN found \cup s |-> IF a \in DOMAIN found THEN found[a] ELSE ""] :
        s \in {r \in room : Cardinality(r) + Cardinality(DOMAIN found) <= MaxFound}}

\* What the hooks can read: an address set on a media element, and a name that ends like a
\* file in any text the page parses.
Hooked(a) == a \in Film \/ a.suffix \in MediaExt

\* The request: a name that ends like a file is noted a round trip before its type is known.
AsksFor(a) ==
  /\ Alive /\ playing /\ a \in Wanted \ (asked \cup served)
  /\ asked' = asked \cup {a}
  /\ found' = IF a.suffix \in MediaExt THEN Noted(a, "") ELSE found
  /\ handed' \in {handed, handed \cup {b \in {a} : Hooked(b)}}
  /\ UNCHANGED <<world, served, pending, segments, lost, evidence, saw, pokes, todo, at, looks, answer>>

\* The response: its type is recorded, and a playlist's body is read for what it lists.
Answers(a) ==
  /\ Alive /\ a \in asked
  /\ asked' = asked \ {a} /\ served' = served \cup {a}
  /\ found' = IF a.suffix \in MediaExt \/ TypeOf[a] \in MediaType \/ a \in DOMAIN found
              THEN Noted(a, TypeOf[a]) ELSE found
  /\ pending' = pending \cup {p \in {a} : a.suffix = "m3u8" \/ TypeOf[a] = "mpegurl"}
  /\ UNCHANGED <<world, handed, segments, lost, evidence, saw, pokes, todo, at, looks, answer>>

\* A master's lines are playlists; any other playlist's are parts.
BodyLands(a) ==
  /\ Alive /\ a \in pending
  /\ pending' = pending \ {a}
  /\ segments' = segments \cup (IF a \in Masters THEN {} ELSE Lists[a])
  /\ UNCHANGED <<world, asked, served, found, handed, lost, evidence, saw, pokes, todo, at, looks, answer>>

BodyLost(a) ==
  /\ Alive /\ a \in pending
  /\ pending' = pending \ {a} /\ lost' = TRUE
  /\ UNCHANGED <<world, asked, served, found, handed, segments, evidence, saw, pokes, todo, at, looks, answer>>

-----------------------------------------------------------------------------
(* The scan. *)

\* The page is loaded; a frame kept empty until someone scrolls is given its address.
Opens ==
  /\ at = "launching" /\ at' = "sample"
  /\ top' = [top EXCEPT !.embed = @ \/ top.lazy]
  /\ UNCHANGED <<arrival, frames, playing, wire, evidence, saw, pokes, todo, looks, answer>>

\* No browser, no page, or the hard budget closed it: whatever was found is gone with it.
Dies ==
  /\ at # "answered" /\ at' = "answered"
  /\ answer' = [media |-> {}, why |-> "unfinished"]
  /\ UNCHANGED <<world, wire, evidence, saw, pokes, todo, looks>>

\* Only a frame that is not an advert's counts, and a document that cannot be read does not.
Seen(what) ==
  \/ ~top.locked /\ top[what]
  \/ what # "embed" /\ \E f \in DOMAIN frames \ AdFrames : frames[f][what]

\* A mutant's sample, a reading and not a mark.
SampleAfresh ==
  /\ at \in {"sample", "last sample"}
  /\ evidence' = [what \in DOMAIN evidence |-> Seen(what)]
  /\ saw' = saw \cup {what \in DOMAIN evidence : Seen(what)}
  /\ at' = IF at = "sample" THEN "read" ELSE "last read"
  /\ UNCHANGED <<world, wire, pokes, todo, looks, answer>>

\* The counts only rise, and the first refusal stays.
Sample ==
  /\ at \in {"sample", "last sample"}
  /\ evidence' = [what \in DOMAIN evidence |-> evidence[what] \/ Seen(what)]
  /\ saw' = saw \cup {what \in DOMAIN evidence : Seen(what)}
  /\ at' = IF at = "sample" THEN "read" ELSE "last read"
  /\ UNCHANGED <<world, wire, pokes, todo, looks, answer>>

Documents == DOMAIN frames \cup {"top"}

\* The elements and the hooks of every frame; something to play ends the watch.
Reads ==
  /\ at \in {"read", "last read"}
  /\ found' \in NotedAll(handed)
  /\ handed' = {}
  /\ at' = IF at = "last read" THEN "awaiting"
           ELSE IF \E a \in DOMAIN found' : ~a.advert /\ Offerable(a, found'[a], segments) THEN "last sample" ELSE "poke"
  /\ todo' = Documents
  /\ UNCHANGED <<world, asked, served, pending, segments, lost, evidence, saw, pokes, looks, answer>>

\* A poke passes over what leaves the page, and starts a player that is there.
Starts(d) == IF d = "top" THEN top.player ELSE frames[d].player

\* One document is poked, twice at the most.  In a frame, where the mouse is a real one, a
\* click may start the player, lead the frame away, or make the site refuse.
Pokes(d) ==
  /\ at = "poke" /\ d \in todo \cap Documents /\ pokes[d] < 2
  /\ pokes' = [pokes EXCEPT ![d] = @ + 1] /\ todo' = todo \ {d}
  /\ \/ playing' = (playing \/ Starts(d)) /\ UNCHANGED <<top, frames>>
     \/ /\ d # "top" /\ d # "away"
        /\ frames' = [f \in (DOMAIN frames \ {d}) \cup {"away"} |-> [player |-> f # "away" /\ frames[f].player, wall |-> FALSE]]
        /\ UNCHANGED <<top, playing>>
     \/ /\ d # "top" /\ frames' = [frames EXCEPT ![d] = [player |-> FALSE, wall |-> TRUE]]
        /\ UNCHANGED <<top, playing>>
  /\ UNCHANGED <<arrival, wire, evidence, saw, at, looks, answer>>

\* Poked enough, or gone since.
Skips(d) ==
  /\ at = "poke" /\ d \in todo /\ (pokes[d] >= 2 \/ d \notin Documents)
  /\ todo' = todo \ {d}
  /\ UNCHANGED <<world, wire, evidence, saw, pokes, at, looks, answer>>

\* Every document was come to; the pause; and another look while there is time.
Rests ==
  /\ at = "poke" /\ todo = {}
  /\ looks' = looks + 1
  /\ \/ looks' < MaxLooks /\ at' = "sample"
     \/ at' = "last sample"
  /\ UNCHANGED <<world, wire, evidence, saw, pokes, todo, answer>>

Verdict ==
  IF evidence.wall THEN "walled"
  ELSE IF ~evidence.player /\ ~evidence.embed THEN "nothing"
  ELSE IF ~evidence.player THEN "elsewhere" ELSE "quiet"

\* A mutant's answer, which does not wait for the playlists.
SaysAtOnce ==
  /\ at = "awaiting" /\ at' = "answered"
  /\ LET kept == {a \in DOMAIN found : Offerable(a, found[a], segments)}
     IN answer' = [media |-> kept, why |-> IF kept = {} THEN Verdict ELSE "found"]
  /\ UNCHANGED <<world, wire, evidence, saw, pokes, todo, looks>>

\* The bodies that have not come get a moment, and the list is filtered after it.  Masters are
\* then opened into their rungs and the list is cut at MAX_RESULTS, which is left out.
Says ==
  /\ at = "awaiting" /\ at' = "answered"
  /\ lost' = (lost \/ pending # {})
  /\ LET kept == {a \in DOMAIN found : Offerable(a, found[a], segments)}
     IN answer' = [media |-> kept, why |-> IF kept = {} THEN Verdict ELSE "found"]
  /\ UNCHANGED <<world, asked, served, found, handed, pending, segments, evidence, saw, pokes, todo, looks>>

Next ==
  \/ Opens \/ Dies \/ Sample \/ Reads \/ Rests \/ Says
  \/ \E f \in Frames : Boots(f)
  \/ \E d \in todo : Pokes(d) \/ Skips(d)
  \/ \E a \in Wanted : AsksFor(a)
  \/ \E a \in asked : Answers(a)
  \/ \E a \in pending : BodyLands(a) \/ BodyLost(a)
Spec == Init /\ [][Next]_vars

-----------------------------------------------------------------------------
\* Types: the page and its frames, what was seen of them, and the answer.
TypeOK ==
  /\ at \in {"launching", "sample", "read", "poke", "last sample", "last read", "awaiting", "answered"}
  /\ todo \subseteq Docs /\ DOMAIN frames \subseteq Frames /\ \A d \in Docs : pokes[d] \in 0..2
  /\ Cardinality(DOMAIN found) <= MaxFound
  /\ pending \subseteq served /\ (answer # None) <=> (at = "answered")

\* When every playlist body came, nothing a playlist lists is offered, however early it
\* was captured and whatever its name.
PartsLeftOut ==
  answer # None /\ ~lost =>
    \A p \in (served \cap DOMAIN Lists) \ Masters : answer.media \cap Lists[p] = {}

\* What a sample saw is not unsaid by what the pokes did to the page: a refusal is told
\* as one, and a player that was there is not told as an embed, or as nothing.
ToldWhatItSaw ==
  answer # None /\ answer.why \in {"walled", "nothing", "elsewhere", "quiet"} =>
    /\ "wall" \in saw <=> answer.why = "walled"
    /\ answer.why = "nothing" => saw = {}
    /\ answer.why = "elsewhere" => "player" \notin saw

(* Stated by the code and not kept by it. *)

\* "Sample first, poke second": a frame that boots between the two is poked uncounted.
PokedAfterCounted ==
  [][\A f \in DOMAIN frames \ AdFrames : pokes'[f] > pokes[f] /\ frames[f].player => evidence.player]_vars
=============================================================================
