-------------------------------- MODULE Extract --------------------------------
(***************************************************************************)
(* The quick scan: the handler of api/extract.js with the fetches and      *)
(* parsers of lib/media.js.  It fetches a page; hands the address back     *)
(* when it is the media itself; else reads the links the page writes out,  *)
(* its packed scripts unpacked; and when there are none asks its frames,   *)
(* then the addresses of its player's settings, what they are.             *)
(*                                                                         *)
(* The net is a constant: what each address answers, and, for a page, what *)
(* its text names.  Whether an address can be reached is open at each      *)
(* fetch.  Bilibili's resolvers, which come before the page, are not here. *)
(***************************************************************************)
EXTENDS MediaGate

CONSTANTS
  None,
  Net,          \* address -> [status, moved, type, body, layers, frames, config, variants]
  Starts,       \* what a person pastes
  Walled,       \* the services no scan can serve
  MaxHops,      \* MAX_REDIRECTS
  MaxRounds,    \* MAX_UNPACK_ROUNDS
  MaxFrames,    \* MAX_FRAMES
  MaxCandidates,\* MAX_CANDIDATES
  MaxProbes     \* MAX_PROBES

VARIABLES
  page,         \* the address being scanned, then where it led
  at,           \* the step of the handler
  waiting,      \* the fetches of this step that are still out
  said,         \* what has come back, by address
  media,        \* parsed.media
  masters,      \* the masters still to be expanded
  answer        \* None, or what the person is told

vars == <<page, at, waiting, said, media, masters, answer>>

Row(a, kind) == [url |-> a, kind |-> kind]

-----------------------------------------------------------------------------
(* One fetch: every hop is checked, and a chain of hops has an end. *)
Hops(a) ==
  LET Walk[n \in 0..(MaxHops + 1)] ==
        IF n = 0 THEN a
        ELSE LET b == Walk[n - 1] IN
             IF ~b.private /\ Net[b].moved # None THEN Net[b].moved ELSE b
  IN Walk

Arrives(a) ==
  LET end == Hops(a)[MaxHops] IN
  IF end.private \/ Net[end].moved # None THEN None ELSE end

-----------------------------------------------------------------------------
(* What a text names: the page, and each round of its packed scripts. *)
Text(p) == FlattenSeq(Firsts(Net[p].layers, 1 + MaxRounds))

\* Only a name that ends like a file is a link; the best kinds first.
Links(p) ==
  LET named == SelectSeq(Once(Text(p)), LAMBDA a : a.suffix \in MediaExt)
  IN Ranked([i \in DOMAIN named |-> Row(named[i], KindOf(named[i]))])

\* The live frames, those that look like a player before the others.
Frames(p) ==
  LET Worth(f) == ~f.dead /\ f.to # p /\ ~f.to.advert /\ f.to.suffix \notin NotMediaExt
      worth == SelectSeq(Net[p].frames, Worth)
      hinted == SelectSeq(worth, LAMBDA f : f.hint) \o SelectSeq(worth, LAMBDA f : ~f.hint)
  IN Firsts(Once([i \in DOMAIN hinted |-> hinted[i].to]), MaxFrames)

\* What a player's settings name without a name that says anything.
Candidates(p) ==
  LET Worth(a) == a # p /\ ~a.advert /\ a.suffix \notin NotMediaExt \cup MediaExt
  IN Firsts(Once(SelectSeq(Net[p].config, Worth)), MaxCandidates)

\* A mutant's reading, which takes a declared octet-stream for media.
ProbeTakesOctet(a) ==
  LET b == Arrives(a) IN
  IF b = None \/ Net[b].status # "ok" \/ Net[b].type = "html" THEN None
  ELSE IF Net[b].type \in MediaType \cup {"octet"} THEN Row(b, TypeToKind(Net[b].type))
  ELSE IF BodyKind(Net[b].body) # "" THEN Row(b, BodyKind(Net[b].body)) ELSE None

\* What an address turns out to be: its declared type, or else its first bytes.
Probe(a) ==
  LET b == Arrives(a) IN
  IF b = None \/ Net[b].status # "ok" \/ Net[b].type = "html" THEN None
  ELSE IF Net[b].type \in MediaType THEN Row(b, TypeToKind(Net[b].type))
  ELSE IF BodyKind(Net[b].body) # "" THEN Row(b, BodyKind(Net[b].body)) ELSE None

Variants(a) ==
  LET b == Arrives(a) IN
  IF b = None \/ Net[b].status # "ok" \/ Net[b].body # "master" THEN <<>>
  ELSE [i \in DOMAIN Net[b].variants |-> Row(Net[b].variants[i], "HLS")]

-----------------------------------------------------------------------------
Init ==
  /\ page \in Starts /\ at = "asked"
  /\ waiting = {} /\ said = <<>> /\ media = <<>> /\ masters = <<>> /\ answer = None

Tells(what) == at' = "answered" /\ answer' = what
Told(ok, why) == [ok |-> ok, why |-> why, media |-> IF ok THEN media ELSE <<>>]

\* Answered before a fetch is spent on it.
Wall == at = "asked" /\ page \in Walled /\ Tells(Told(FALSE, "walled")) /\ UNCHANGED <<page, waiting, said, media, masters>>

\* No answer, or a refusal: the browser may still get one.
Refused ==
  /\ at = "asked" /\ page \notin Walled
  /\ Tells(Told(FALSE, "unread"))
  /\ UNCHANGED <<page, waiting, said, media, masters>>

Direct(a, kind) ==
  /\ media' = <<Row(a, kind)>>
  /\ at' = "expanding" /\ masters' = IF kind = "HLS" THEN <<a>> ELSE <<>>
  /\ page' = a /\ UNCHANGED <<waiting, said, answer>>

\* The page comes.  Media by its type or its name is the answer; a body that is not text is
\* asked; a manifest served as text is the answer; the rest is read.
Comes ==
  /\ at = "asked" /\ page \notin Walled
  /\ LET a == Arrives(page) IN
     /\ a # None /\ Net[a].status = "ok"
     /\ IF Net[a].type \in MediaType \/ (Net[a].type # "html" /\ a.suffix \in MediaExt)
        THEN Direct(a, KindOf(a))
        ELSE IF Net[a].type \notin {"html", "text"}
        THEN at' = "doubted" /\ page' = a /\ UNCHANGED <<waiting, said, media, masters, answer>>
        ELSE IF Net[a].body \in {"master", "playlist", "mpd"}
        THEN Direct(a, BodyKind(Net[a].body))
        ELSE /\ media' = Links(a) /\ page' = a
             /\ IF Links(a) # <<>> THEN at' = "gate" /\ UNCHANGED waiting
                ELSE at' = "framing" /\ waiting' = ToSet(Frames(a))
             /\ UNCHANGED <<said, masters, answer>>

\* Neither a page nor a type that names itself: the bytes decide.
Doubt ==
  /\ at = "doubted"
  /\ \/ Probe(page) # None /\ Direct(Probe(page).url, Probe(page).kind)
     \/ Tells(Told(FALSE, "not a page")) /\ UNCHANGED <<page, waiting, said, media, masters>>

Back(a, what) == said' = (a :> what) @@ said /\ waiting' = waiting \ {a}

\* One frame is read the way the page was, one hop deep; or it is not.
FrameLands(f) ==
  /\ at = "framing" /\ f \in waiting
  /\ LET a == Arrives(f)
         opens == a # None /\ Net[a].status = "ok" /\ Net[a].type \in {"html", "text"}
     IN \/ opens /\ Back(f, [media |-> Links(a), candidates |-> Candidates(a)])
        \/ Back(f, [media |-> <<>>, candidates |-> <<>>])
  /\ UNCHANGED <<page, at, media, masters, answer>>

\* All of them back: their links as the frames stood on the page, or else what to ask about.
FramesRead ==
  /\ at = "framing" /\ waiting = {}
  /\ LET fs == Frames(page)
         links == FlattenSeq([i \in DOMAIN fs |-> said[fs[i]].media])
         settings == Candidates(page) \o FlattenSeq([i \in DOMAIN fs |-> said[fs[i]].candidates])
     IN IF links # <<>> THEN at' = "gate" /\ media' = links /\ UNCHANGED <<waiting, masters>>
        ELSE /\ at' = "probing" /\ masters' = Firsts(settings, MaxProbes)
             /\ waiting' = ToSet(masters') /\ UNCHANGED media
  /\ said' = <<>> /\ UNCHANGED <<page, answer>>

ProbeLands(c) ==
  /\ at = "probing" /\ c \in waiting
  /\ \E hit \in {Probe(c), None} : Back(c, hit)
  /\ UNCHANGED <<page, at, media, masters, answer>>

\* Those that came back, through the gate, each once.
Probed ==
  /\ at = "probing" /\ waiting = {}
  /\ LET hits == SelectSeq([i \in DOMAIN masters |-> said[masters[i]]], LAMBDA h : h # None)
     IN media' = AddNew(<<>>, SelectSeq(hits, LAMBDA h : Offerable(h.url, KindToType(h.kind), {})))
  /\ at' = "gate" /\ masters' = <<>> /\ UNCHANGED <<page, waiting, said, answer>>

\* A piece of a stream is not a stream: the names, once more; then the first two masters.
Gate ==
  /\ at = "gate"
  /\ media' = SelectSeq(media, LAMBDA m : Offerable(m.url, "", {}))
  /\ LET hls == SelectSeq(media', LAMBDA m : m.kind = "HLS")
     IN masters' = [i \in 1..Len(Firsts(hls, 2)) |-> hls[i].url]
  /\ at' = "expanding" /\ UNCHANGED <<page, waiting, said, answer>>

Expand ==
  /\ at = "expanding" /\ masters # <<>>
  /\ \E more \in {Variants(Head(masters)), <<>>} : media' = AddNew(media, more)
  /\ masters' = Tail(masters) /\ UNCHANGED <<page, at, waiting, said, answer>>

\* An empty list is not a success.
Say ==
  /\ at = "expanding" /\ masters = <<>>
  /\ Tells(IF media = <<>> THEN Told(FALSE, "nothing written") ELSE Told(TRUE, "found"))
  /\ UNCHANGED <<page, waiting, said, media, masters>>

Next ==
  \/ Wall \/ Refused \/ Comes \/ Doubt \/ FramesRead \/ Probed \/ Gate \/ Expand \/ Say
  \/ \E a \in waiting : FrameLands(a) \/ ProbeLands(a)
Spec == Init /\ [][Next]_vars

-----------------------------------------------------------------------------
\* Types: the handler's step, what came back, and the answer.
TypeOK ==
  /\ at \in {"asked", "doubted", "framing", "probing", "gate", "expanding", "answered"}
  /\ waiting \subseteq DOMAIN Net /\ DOMAIN said \subseteq DOMAIN Net
  /\ \A i \in DOMAIN media : media[i].kind \in Kinds
  /\ (answer # None) <=> (at = "answered")

\* Nothing is offered on a guess: what has no name that says so was found to be media by
\* its type or its bytes, or is named by a master that was read.
ReportedOnItsBody ==
  answer # None => \A i \in DOMAIN answer.media :
    LET a == answer.media[i].url IN
    \/ a.suffix \in MediaExt
    \/ Net[a].type \in MediaType \/ BodyKind(Net[a].body) # ""
    \/ \E m \in DOMAIN Net : Net[m].body = "master" /\ a \in ToSet(Net[m].variants)

(* Stated by the code and not kept by it. *)

\* "A stream we had already proved by reading it" is refused all the same: the last look at
\* the names asks for no type, and get_file.php is dropped.
ProvenIsOffered == at = "expanding" => \A c \in DOMAIN said :
  said[c] # None /\ KindToType(said[c].kind) \in ContainerType /\ Net[said[c].url].type # "mp2t"
    => said[c].url \in {media[i].url : i \in DOMAIN media}

\* "A rule that only guards one of the two doors": a fragment that the player's settings name
\* and the server calls video/mp2t is passed as an mp4, because the gate is told the kind.
NoPieceIsOffered == answer # None => \A i \in DOMAIN answer.media :
  answer.media[i].url # page => Net[answer.media[i].url].type \notin SegmentType
=============================================================================
