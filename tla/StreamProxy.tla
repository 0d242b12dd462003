---------------------------- MODULE StreamProxy ----------------------------
(***************************************************************************)
(* A film's request through the proxy (src/api/stream.js), from its        *)
(* arrival to the head of its answer, with the repair it may take: the     *)
(* host is asked with a referer, then without; the page the film was found *)
(* on is read again, then opened in a browser (src/lib/reissue.js).  Many  *)
(* requests of one film are under way at once, and share what a page said, *)
(* the browser that is asking it, and the page that was named for a film.  *)
(* A host is the sequence of its labels; an address adds the file and the  *)
(* part that is signed.                                                    *)
(***************************************************************************)
EXTENDS Naturals, Sequences, SequencesExt, FiniteSets

CONSTANTS None, Registry,    \* labels that are a registry and nobody's site
          CacheCap,          \* bound: answers remembered (fifty in the code)
          Requests, Asked,   \* addresses the phone asks for
          Page,              \* the page films are found on: a document with a host
          Label, Offers, Frames,   \* the quality that is wanted; what a page and a frame of it may hold: [url, label, from]
          MaxFrames,         \* bound: documents a page frames (six in the code)
          MemCap,            \* bound: pages remembered (five hundred in the code)
          MaxExpiries        \* bound: how often five minutes pass for an answer

VARIABLES
  req,       \* each request: where it is, and what it holds
  cache,     \* reissue: what pages said
  flight,    \* deepInFlight: a browser is asking the page
  browsers,  \* how many browsers are
  memory,    \* pageMemory: [key, page], the oldest first
  expiries

vars == <<req, cache, flight, browsers, memory, expiries>>
shared == <<cache, flight, browsers, memory, expiries>>

-----------------------------------------------------------------------------
(* What takes no time: what lib/reissue.js remembers, and which of the      *)
(* addresses a page offers is the one that was refused.                     *)

\* A cache is a sequence of [key, media], the oldest insertion first.
Hit(notes, k) == \E i \in DOMAIN notes : notes[i].key = k
Got(notes, k) == notes[CHOOSE i \in DOMAIN notes : notes[i].key = k].media

\* A full cache lets its oldest go, also for a key it has; a key it still has keeps its place.
CacheSet(notes, k, media) ==
  LET room == IF Len(notes) >= CacheCap THEN Tail(notes) ELSE notes IN
  IF Hit(room, k)
  THEN [i \in DOMAIN room |-> IF room[i].key = k THEN [key |-> k, media |-> media] ELSE room[i]]
  ELSE Append(room, [key |-> k, media |-> media])

\* The same host, or one that differs in its first label only, with a name behind it.
SameSite(a, b) ==
  \/ a.host = b.host
  \/ /\ Len(a.host) >= 3 /\ Len(b.host) >= 3
     /\ Tail(a.host) = Tail(b.host)
     /\ ~(Len(a.host) = 3 /\ a.host[2] \in Registry)

\* Two addresses of one rendition: they differ in what was signed, or in the edge.
SameShape(a, b) == SameSite(a, b) /\ a.file = b.file

\* A mutant's choose, which trusts the label.
ChooseAnywhere(media, failed, label) ==
  LET Labelled(x) == label # None /\ x.label = label
      Shaped(x)   == SameShape(x.url, failed)
      picks == SelectSeq(media, Labelled) \o SelectSeq(media, Shaped)
  IN IF picks = <<>> \/ picks[1].url = failed THEN None ELSE picks[1]

\* choose: by label, else by shape, else by site; and never off the site that
\* refused, nor the address that was refused.
Choose(media, failed, label) ==
  LET Labelled(x) == label # None /\ x.label = label
      Shaped(x)   == SameShape(x.url, failed)
      Sited(x)    == SameSite(x.url, failed)
      picks == SelectSeq(media, Labelled) \o SelectSeq(media, Shaped) \o SelectSeq(media, Sited)
  IN IF picks = <<>> \/ ~SameSite(picks[1].url, failed) \/ picks[1].url = failed
     THEN None ELSE picks[1]

\* A walk stops at the first document with an address of the site that is wanted.
Found(media, want) == \E i \in DOMAIN media : SameSite(media[i].url, want)

-----------------------------------------------------------------------------
(* The requests. *)

Key(a) == <<a.host, a.file>>    \* mediaKey: without what is signed
Own(a) == [host |-> a.host]     \* the address's own origin, as a referer

\* An answer of a host; a refusal may say why.
Replies == {"down", "works", "403", "403-why", "html-why"}
Refused(o) == o \notin {"down", "works"}
Works(o)   == o = "works"
Why(o)     == o \in {"403-why", "html-why"}

New == [pc |-> "new", asked |-> None, target |-> None, page |-> None, referer |-> None, label |-> None,
        opened |-> None, first |-> None, fresh |-> None, media |-> <<>>, frames |-> 0,
        step |-> "none", failed |-> FALSE, read |-> FALSE, answer |-> None]

\* Types: the requests, and what is remembered between them.
TypeOK ==
  /\ \A r \in Requests : req[r].pc \in {"new", "open", "bare", "ask", "reading", "framing", "waiting",
                                        "retry", "answer", "done"}
  /\ Len(cache) <= CacheCap /\ Len(memory) <= MemCap
  /\ flight \in BOOLEAN /\ browsers \in Nat /\ expiries \in 0..MaxExpiries

Init ==
  /\ req = [r \in Requests |-> New]
  /\ cache = <<>> /\ flight = FALSE /\ browsers = 0 /\ memory = <<>> /\ expiries = 0

Set(r, f) == req' = [req EXCEPT ![r] = [k \in DOMAIN @ |-> IF k \in DOMAIN f THEN f[k] ELSE @[k]]]

-----------------------------------------------------------------------------
(* Arrival, and the first two openings. *)

\* rememberPage: the newest last, the oldest let go.
Remember(a) ==
  LET kept == SelectSeq(memory, LAMBDA x : x # Key(a)) IN
  memory' = IF Len(kept) = MemCap THEN Append(Tail(kept), Key(a)) ELSE Append(kept, Key(a))

\* A page that is named is remembered; one that is not is looked up.
Arrive(r) ==
  /\ req[r].pc = "new"
  /\ \E a \in Asked, named \in BOOLEAN, label \in {Label, None} :
       /\ IF named THEN Remember(a) ELSE UNCHANGED memory
       /\ LET known == named \/ \E i \in DOMAIN memory : memory[i] = Key(a) IN
          Set(r, [pc |-> "open", asked |-> a, target |-> a, label |-> label,
                  page |-> IF known THEN Page ELSE None,
                  referer |-> IF known THEN [host |-> Page.host] ELSE Own(a)])
  /\ UNCHANGED <<cache, flight, browsers, expiries>>

\* Refused or unreachable, with a page to ask: the repair begins.
AfterOpening(r, o) ==
  IF ~Works(o) /\ req[r].page # None
  THEN [pc |-> "ask", step |-> "reread", opened |-> None, first |-> o, failed |-> TRUE]
  ELSE [pc |-> "answer", opened |-> o]

Opened(r) ==
  /\ req[r].pc = "open"
  /\ \E o \in Replies : Set(r, IF Refused(o) THEN [pc |-> "bare", opened |-> o] ELSE AfterOpening(r, o))
  /\ UNCHANGED shared

\* One more try without a referer: kept if it works, or if it says why it does not.
BareOpened(r) ==
  /\ req[r].pc = "bare"
  /\ \E o \in Replies :
       Set(r, AfterOpening(r, IF Works(o) \/ Why(o) THEN o ELSE req[r].opened))
  /\ UNCHANGED shared

-----------------------------------------------------------------------------
(* The repair: two ways to be handed an address of one's own. *)

\* A mutant's last step, which reports what the replacement said.
NoneLeftHere(r) == [pc |-> "answer", opened |-> "down"]

\* What follows a step that gave nothing: the other step, or the first refusal again.
NoneLeft(r) == [pc |-> "answer", opened |-> req[r].first]
NextStep(r) ==
  IF req[r].step = "reread" THEN [pc |-> "ask", step |-> "browser", media |-> <<>>, frames |-> 0]
  ELSE NoneLeft(r)

\* The media of a page are looked through for the address that was refused.
Pick(r, media) ==
  LET got == Choose(media, req[r].target, req[r].label) IN
     IF got = None THEN NextStep(r)
     ELSE [pc |-> "retry", fresh |-> got, media |-> <<>>, frames |-> 0]

SkipsPage(r) == Page.host = req[r].target.host

\* reissue: the page is not read for an address on its own host.
AskPage(r) ==
  /\ req[r].pc = "ask" /\ req[r].step = "reread"
  /\ LET k == <<"page", req[r].target.host>> IN
     Set(r, IF SkipsPage(r) THEN NextStep(r)
            ELSE IF Hit(cache, k) THEN Pick(r, Got(cache, k))
            ELSE [pc |-> "reading", read |-> TRUE])
  /\ UNCHANGED shared

\* rescan: the walk ends when the site that is wanted is found, or nothing is left.
Walked(r, media, left) ==
  IF Found(media, req[r].target) \/ left = 0
  THEN /\ cache' = CacheSet(cache, <<"page", req[r].target.host>>, media)
       /\ Set(r, Pick(r, media))
  ELSE /\ Set(r, [pc |-> "framing", media |-> media, frames |-> left])
       /\ UNCHANGED cache

\* The page is read: it may be down, or no page, and hold nothing.
PageRead(r) ==
  /\ req[r].pc = "reading"
  /\ \E media \in Offers, frames \in 0..MaxFrames : Walked(r, media, frames)
  /\ UNCHANGED <<flight, browsers, memory, expiries>>

\* A frame is read: one that will not open adds nothing.
FrameRead(r) ==
  /\ req[r].pc = "framing"
  /\ \E more \in Frames :
       Walked(r, req[r].media \o more, req[r].frames - 1)
  /\ UNCHANGED <<flight, browsers, memory, expiries>>

Deep == <<"deep">>

\* A mutant's deepRescan, which shares only answers.
AskBrowserEach(r) ==
  /\ req[r].pc = "ask" /\ req[r].step = "browser"
  /\ IF SkipsPage(r) \/ Hit(cache, Deep)
     THEN /\ Set(r, IF SkipsPage(r) THEN NextStep(r) ELSE Pick(r, Got(cache, Deep)))
          /\ UNCHANGED <<flight, browsers>>
     ELSE /\ Set(r, [pc |-> "waiting", read |-> TRUE])
          /\ flight' = TRUE /\ browsers' = browsers + 1
  /\ UNCHANGED <<cache, memory, expiries>>

\* deepRescan: what was said, else the browser that is asking, else a browser.
AskBrowser(r) ==
  /\ req[r].pc = "ask" /\ req[r].step = "browser"
  /\ IF SkipsPage(r) \/ Hit(cache, Deep)
     THEN /\ Set(r, IF SkipsPage(r) THEN NextStep(r) ELSE Pick(r, Got(cache, Deep)))
          /\ UNCHANGED <<flight, browsers>>
     ELSE /\ Set(r, [pc |-> "waiting", read |-> TRUE])
          /\ flight' = TRUE
          /\ browsers' = IF flight THEN browsers ELSE browsers + 1
  /\ UNCHANGED <<cache, memory, expiries>>

\* The browser ends, in time or at its budget, and is closed; its answer, an
\* empty one too, is remembered, and every request that waits has it.
BrowserEnds ==
  /\ flight /\ flight' = FALSE /\ browsers' = browsers - 1
  /\ \E media \in Offers :
       /\ cache' = CacheSet(cache, Deep, media)
       /\ req' = [r \in Requests |->
            IF req[r].pc # "waiting" THEN req[r]
            ELSE LET f == Pick(r, media) IN
                 [k \in DOMAIN req[r] |-> IF k \in DOMAIN f THEN f[k] ELSE req[r][k]]]
  /\ UNCHANGED <<memory, expiries>>

\* The fresh address is opened with its own document as the referer.
Retried(r) ==
  /\ req[r].pc = "retry"
  /\ \E o \in Replies :
       IF Works(o)
       THEN /\ Set(r, [pc |-> "answer", opened |-> o, first |-> None, failed |-> FALSE,
                       target |-> req[r].fresh.url])
            /\ Remember(req[r].fresh.url)
       ELSE Set(r, NextStep(r)) /\ UNCHANGED memory
  /\ UNCHANGED <<cache, flight, browsers, expiries>>

-----------------------------------------------------------------------------
\* The head of the answer.  A playlist names, for each address in it, the referer
\* the request came with.
Answer(r) ==
  /\ req[r].pc = "answer"
  /\ LET o == req[r].opened IN
     \E list \in BOOLEAN :
       Set(r, [pc |-> "done", opened |-> None, media |-> <<>>, frames |-> 0, step |-> "none", answer |->
         IF ~Works(o)
         THEN [is |-> IF o = "html-why" THEN "415" ELSE "502", note |-> Refused(o) /\ req[r].failed]
         ELSE IF list THEN [is |-> "list", referer |-> req[r].referer] ELSE [is |-> "film"]])
  /\ UNCHANGED shared

\* Five minutes are over for an answer: cacheGet lets it go.
Expire ==
  /\ expiries < MaxExpiries /\ expiries' = expiries + 1
  /\ \E i \in DOMAIN cache : cache' = RemoveAt(cache, i)
  /\ UNCHANGED <<req, flight, browsers, memory>>

Step(r) == Opened(r) \/ BareOpened(r) \/ AskPage(r) \/ PageRead(r) \/ FrameRead(r)
           \/ AskBrowser(r) \/ Retried(r) \/ Answer(r)
Next == BrowserEnds \/ Expire \/ \E r \in Requests : Arrive(r) \/ Step(r)

Spec == Init /\ [][Next]_vars

-----------------------------------------------------------------------------
Ends(r) == req[r].pc = "done"

\* However many requests of a film are refused at once, one browser asks its page.
OneBrowserPerPage == browsers <= 1

\* A page moves a television to no other site, and repairs nothing with the
\* address that was refused.
NeverOffSite == \A r \in Requests :
  /\ req[r].target # None => SameSite(req[r].target, req[r].asked)
  /\ req[r].fresh # None => req[r].fresh.url # req[r].asked

\* A repair that fails puts the refusal back that began it: 502 or 415 is said of
\* the address that was asked for.
FirstRefusalSaid == \A r \in Requests :
  Ends(r) /\ req[r].answer.is \in {"502", "415"} /\ req[r].first # None
    => req[r].answer.is = (IF req[r].first = "html-why" THEN "415" ELSE "502")

\* A re-issued address belongs to the document that handed it over (stream.js
\* openOnce): so do the addresses in its playlist.
SegmentsCarryTheirDocument == \A r \in Requests :
  Ends(r) /\ req[r].answer.is = "list" /\ req[r].target # req[r].asked
    => req[r].answer.referer.host = req[r].fresh.from.host

\* The note is said only when the page was asked again (stream.js REISSUE_NOTE).
NoteOnlyIfAsked == \A r \in Requests :
  Ends(r) /\ req[r].answer.is \in {"502", "415"} /\ req[r].answer.note => req[r].read \/ cache # <<>>
=============================================================================
