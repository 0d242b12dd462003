------------------------------ MODULE PhonePlayer ------------------------------
(***************************************************************************)
(* The player of the page: load() and the handlers of the video element,   *)
(* of hls.js and of Shaka in app.js, and the set of sources one scan found *)
(* (sources.js).  A film is opened, its resume point sought, and when an   *)
(* address will not play the bridge is tried, then another of its sources. *)
(*                                                                         *)
(* An address has a kind, which says what plays it.  A position is None,   *)
(* the beginning, or the address whose place it is, so that a place can be *)
(* told from another film's.                                               *)
(***************************************************************************)
EXTENDS Naturals, Sequences, FiniteSets

CONSTANTS
  None,
  Films,      \* the source sets of the films, as sequences of addresses
  Kind,       \* address -> file, hls or dash
  AutoMax,    \* the automatic hops one set is given
  MaxOpens,   \* bound: films opened
  MaxTurns    \* bound: other acts of the person

VARIABLES
  apple,      \* this browser plays HLS itself
  current, sources, place, tried, autoUsed,
  proxied,    \* the one retry through the bridge is spent
  elem,       \* the element: src (an address or None), via, state
  dash,       \* the Shaka player that is attached, by the number of its opening
  opening,    \* the calls of playDash that have not ended: number -> [src, at]
  library,    \* Shaka: absent, coming, here
  seeks,      \* the last resume point that waits for metadata: each load adds a listener
  pos, saved, \* where the element stands; what the history row remembers
  switching, stirs,
  status,     \* what was said since the film was opened: nothing, that another is tried, or that it failed
  where, tv, opens, turns

film == <<current, sources, place, tried, autoUsed, proxied, seeks>>
player == <<elem, dash, opening, pos, switching, stirs>>
rest == <<apple, library, saved, where, opens, turns>>
vars == <<film, player, status, tv, rest>>

Addresses == DOMAIN Kind
Empty == [src |-> None, via |-> "direct", state |-> "empty"]
Calls == 1..(MaxOpens + MaxTurns + 4)

Init ==
  /\ apple \in BOOLEAN
  /\ current = None /\ sources = <<>> /\ place = 0 /\ tried = {} /\ autoUsed = 0 /\ proxied = FALSE
  /\ elem = Empty /\ dash = None /\ opening = <<>> /\ library = "absent"
  /\ seeks = None /\ pos = None /\ saved \in {[a \in Addresses |-> None], [a \in Addresses |-> IF Kind[a] = "file" THEN a ELSE None]}
  /\ switching = FALSE /\ stirs = FALSE /\ status = "" /\ where \in {"phone", "tv", "cast"} /\ tv = None
  /\ opens = 0 /\ turns = 0

-----------------------------------------------------------------------------
(* The set of sources. *)

\* The same set arriving again is a hop within it, and keeps what was tried.
Set(list, i, used) ==
  /\ sources' = list /\ place' = i
  /\ tried' = (IF list = sources THEN tried ELSE {}) \cup {list[i]}
  /\ autoUsed' = IF list = sources THEN used ELSE 0

After(n) == ((place - 1 + n) % Len(sources)) + 1

\* The next address nobody has tried, while the budget lasts; 0 when there is none.
TakeAuto ==
  LET fresh == {n \in 1..Len(sources) : sources[After(n)] \notin tried}
  IN IF Len(sources) < 2 \/ autoUsed >= AutoMax \/ fresh = {} THEN 0
     ELSE After(CHOOSE n \in fresh : \A k \in fresh : n <= k)

-----------------------------------------------------------------------------
(* Loading. *)

\* A player that is destroyed ends its opening in an error.
Broken == [n \in DOMAIN opening |-> IF n = dash THEN [opening[n] EXCEPT !.at = "destroyed"] ELSE opening[n]]

NewCall == CHOOSE n \in Calls : n \notin DOMAIN opening /\ \A k \in Calls \ DOMAIN opening : n <= k
PlayDash(u, calls) == [n \in DOMAIN calls \cup {NewCall} |-> IF n \in DOMAIN calls THEN calls[n] ELSE [src |-> u, at |-> "library"]]

\* What load() attaches: hls.js, the element, the Apple form of a manifest, or Shaka, for
\* which the element is emptied first.
Attach(u) ==
  /\ dash' = None /\ pos' = None
  /\ IF Kind[u] = "dash" /\ ~apple
     THEN /\ elem' = Empty /\ opening' = PlayDash(u, Broken)
          /\ stirs' = (elem.src # None) /\ library' = (IF library = "absent" THEN "coming" ELSE library)
     ELSE /\ elem' = [src |-> u, state |-> "loading",
                      via |-> IF Kind[u] = "dash" THEN "apple" ELSE IF Kind[u] = "hls" /\ ~apple THEN "hls.js" ELSE "direct"]
          /\ opening' = Broken /\ stirs' = TRUE /\ UNCHANGED library

Resume(u) == IF saved[u] = None THEN seeks ELSE saved[u]

\* The whole of load(): the set, the engine, the resume point, and the television when the
\* film is watched there.
Load(list, i) ==
  LET u == list[i] IN
  /\ current' = u /\ proxied' = FALSE /\ Set(list, i, autoUsed) /\ Attach(u)
  /\ seeks' = Resume(u)
  /\ tv' = IF where = "phone" THEN tv ELSE u

Open(f) ==
  /\ opens < MaxOpens /\ opens' = opens + 1
  /\ \E i \in DOMAIN f : Load(f, i)
  /\ status' = "" /\ UNCHANGED <<switching, apple, saved, where, turns>>

\* The picker and its Next: one tap, one switch.
Pick(i) ==
  /\ turns < MaxTurns /\ turns' = turns + 1
  /\ Len(sources) > 1 /\ i \in DOMAIN sources \ {place} /\ ~switching
  /\ switching' = TRUE /\ Load(sources, i)
  /\ UNCHANGED <<status, apple, saved, where, opens>>

-----------------------------------------------------------------------------
(* What the element reports. *)

\* loadstart, or emptied: the guard on the picker is let go.
Stirs ==
  /\ stirs /\ stirs' = FALSE /\ switching' = FALSE
  /\ UNCHANGED <<film, elem, dash, opening, pos, status, tv, rest>>

\* loadedmetadata: every listener that waited seeks, and the last one stands.
Metadata ==
  /\ elem.state = "loading" /\ elem' = [elem EXCEPT !.state = "ready"]
  /\ pos' = IF seeks = None THEN pos ELSE seeks
  /\ seeks' = None /\ switching' = FALSE
  /\ UNCHANGED <<current, sources, place, tried, autoUsed, proxied, dash, opening, stirs, status, tv, rest>>

\* A source that starts gives the budget back; the film runs on from where it stands.
Plays ==
  /\ elem.state = "ready" /\ where = "phone"
  /\ elem' = [elem EXCEPT !.state = "playing"]
  /\ autoUsed' = 0 /\ pos' = IF pos = None THEN current ELSE pos
  /\ UNCHANGED <<current, sources, place, tried, proxied, seeks, dash, opening, switching, stirs, status, tv, rest>>

\* Every five seconds, at a pause, and when the page is left.
Saves ==
  /\ current # None /\ turns < MaxTurns /\ turns' = turns + 1
  /\ saved' = [saved EXCEPT ![current] = pos]
  /\ UNCHANGED <<film, player, status, tv, apple, library, where, opens>>

-----------------------------------------------------------------------------
(* What fails. *)

\* Another source, unless the television is a cast one; else the sentence.  While a switch
\* is under way the hop is spent and not made.
NextOrSay(busy) ==
  IF where # "cast" /\ TakeAuto # 0 /\ ~busy
  THEN /\ current' = sources[TakeAuto] /\ proxied' = FALSE
       /\ Set(sources, TakeAuto, autoUsed + 1) /\ Attach(sources[TakeAuto])
       /\ seeks' = Resume(sources[TakeAuto])
       /\ tv' = IF where = "phone" THEN tv ELSE sources[TakeAuto]
       /\ switching' = TRUE /\ status' = "trying"
  ELSE /\ status' = "bad" /\ elem' = [elem EXCEPT !.state = "failed"] /\ switching' = busy
       /\ autoUsed' = IF where # "cast" /\ TakeAuto # 0 THEN autoUsed + 1 ELSE autoUsed
       /\ UNCHANGED <<current, sources, place, tried, proxied, seeks, dash, opening, pos, stirs, library, tv>>

\* A mutant's retry, which does not remember that it was spent.
ThroughTheBridgeAgain ==
  /\ proxied' = proxied
  /\ elem' = [elem EXCEPT !.via = IF @ = "hls.js" THEN @ ELSE "bridge", !.state = "loading"] /\ pos' = None /\ stirs' = TRUE
  /\ status' = "trying" /\ switching' = FALSE
  /\ UNCHANGED <<current, sources, place, tried, autoUsed, seeks, dash, opening, library, tv>>

\* The same address through our own origin, once per load.
ThroughTheBridge ==
  /\ proxied' = TRUE
  /\ elem' = [elem EXCEPT !.via = IF @ = "hls.js" THEN @ ELSE "bridge", !.state = "loading"] /\ pos' = None /\ stirs' = TRUE
  /\ status' = "trying" /\ switching' = FALSE
  /\ UNCHANGED <<current, sources, place, tried, autoUsed, seeks, dash, opening, library, tv>>

Failing == elem.src # None /\ elem.state \in {"loading", "ready", "playing"} /\ dash = None

\* hls.js gives up: a network error has the bridge to try, any other has not.
HlsFails ==
  /\ Failing /\ elem.via = "hls.js"
  /\ \/ ~proxied /\ ThroughTheBridge
     \/ NextOrSay(switching)
  /\ UNCHANGED <<apple, saved, where, opens, turns>>

\* The element gives up: the Apple form falls back to Shaka, any other to the bridge.
ElementFails ==
  /\ Failing /\ elem.via # "hls.js"
  /\ IF elem.via = "apple"
     THEN /\ elem' = Empty /\ opening' = PlayDash(current, opening) /\ stirs' = TRUE /\ pos' = None /\ switching' = FALSE
          /\ library' = (IF library = "absent" THEN "coming" ELSE library)
          /\ UNCHANGED <<film, dash, status, tv>>
     ELSE IF ~proxied THEN ThroughTheBridge ELSE NextOrSay(FALSE)
  /\ UNCHANGED <<apple, saved, where, opens, turns>>

-----------------------------------------------------------------------------
(* Shaka. *)

\* Downloaded once; a failure lets the next film ask again.
LibraryComes == library = "coming" /\ library' = "here" /\ UNCHANGED <<film, player, status, tv, apple, saved, where, opens, turns>>

Without(n) == [k \in DOMAIN opening \ {n} |-> opening[k]]
Says(n) == status' = IF current = opening[n].src THEN "bad" ELSE status

LibraryFails ==
  /\ library = "coming" /\ library' = "absent"
  /\ opening' = [n \in {k \in DOMAIN opening : opening[k].at # "library"} |-> opening[n]]
  /\ status' = IF \E n \in DOMAIN opening : opening[n].at = "library" /\ opening[n].src = current THEN "bad" ELSE status
  /\ UNCHANGED <<film, elem, dash, pos, switching, stirs, tv, apple, saved, where, opens, turns>>

\* A mutant's opening, which does not look at what is current.
OpensAnyhow(n) ==
  /\ n \in DOMAIN opening /\ opening[n].at = "library" /\ library = "here"
  /\ dash' = n /\ opening' = [Broken EXCEPT ![n].at = "player"]
  /\ elem' = [src |-> opening[n].src, via |-> "shaka", state |-> "loading"] /\ stirs' = TRUE /\ pos' = None
  /\ UNCHANGED <<film, switching, status, tv, rest>>

\* Another film may have been opened while the library was downloading.
Opens(n) ==
  /\ n \in DOMAIN opening /\ opening[n].at = "library" /\ library = "here"
  /\ IF current # opening[n].src
     THEN opening' = Without(n) /\ UNCHANGED <<dash, elem, stirs, pos>>
     ELSE /\ dash' = n /\ opening' = [Broken EXCEPT ![n].at = "player"]
          /\ elem' = [src |-> current, via |-> "shaka", state |-> "loading"] /\ stirs' = TRUE /\ pos' = None
  /\ UNCHANGED <<film, switching, status, tv, rest>>

\* The manifest is read; or the player is refused, or was destroyed meanwhile.
Loaded(n) ==
  /\ n \in DOMAIN opening /\ opening[n].at = "player" /\ n = dash
  /\ opening' = Without(n) /\ status' = ""
  /\ UNCHANGED <<film, elem, dash, pos, switching, stirs, tv, rest>>

Refused(n) ==
  /\ n \in DOMAIN opening /\ opening[n].at \in {"player", "destroyed"}
  /\ opening' = Without(n) /\ Says(n)
  /\ elem' = IF n = dash THEN [elem EXCEPT !.state = "failed"] ELSE elem
  /\ UNCHANGED <<film, dash, pos, switching, stirs, tv, rest>>

-----------------------------------------------------------------------------
Reports == Stirs \/ Metadata \/ Plays \/ HlsFails \/ ElementFails
ShakaSays == LibraryComes \/ LibraryFails \/ \E n \in DOMAIN opening : Opens(n) \/ Loaded(n) \/ Refused(n)

Next == (\E f \in Films : Open(f)) \/ (\E i \in 1..3 : Pick(i)) \/ Saves \/ Reports \/ ShakaSays
Fairness == WF_vars(Stirs) /\ WF_vars(Metadata \/ HlsFails \/ ElementFails) /\ WF_vars(ShakaSays)
Spec == Init /\ [][Next]_vars /\ Fairness

-----------------------------------------------------------------------------
\* Types: the open film, the element, and the engines that feed it.
TypeOK ==
  /\ current \in Addresses \cup {None} /\ tried \subseteq Addresses /\ autoUsed \in 0..AutoMax
  /\ elem.src \in Addresses \cup {None} /\ DOMAIN opening \subseteq Calls
  /\ (current # None => sources[place] = current) /\ saved \in [Addresses -> Addresses \cup {None}]
  /\ status \in {"", "trying", "bad"} /\ library \in {"absent", "coming", "here"}

\* A film whose addresses fail one after the other is not tried for ever: in the end one of
\* them opens, or the person is told.
Settled == current = None \/ elem.state \in {"ready", "playing"} \/ status = "bad" \/ dash # None
FailureIsSaid == []<>Settled

\* What plays, and what Shaka is opening, is the film that was chosen last, although the
\* library may come long after another film was.
EngineIsTheFilms ==
  /\ elem.src \in {current, None}
  /\ \A n \in DOMAIN opening : opening[n].at = "player" => opening[n].src = current

(* Stated by the code and not kept by it. *)

\* "Only while the phone is playing": in TV mode too the phone's own failure sends the
\* television another source.
TvKeepsItsSource == [][HlsFails \/ ElementFails => tv' = tv]_vars

\* "Pick up where they left off": a resume point left waiting is sought by the next film.
PlaceIsItsOwn == pos # None /\ current # None => \E i \in DOMAIN sources : sources[i] = pos

\* And one that has not been sought yet is overwritten with the beginning.
PlaceIsKept == [][\A a \in Addresses : saved[a] # None => saved'[a] # None]_vars

\* "It cannot outlive the load it is guarding".
GuardIsReleased == switching => stirs \/ elem.state # "empty" \/ opening # <<>>

\* A film that opens is not said to have failed by its own first opening.
NoFalseAlarm == [][\A n \in DOMAIN opening : opening[n].at = "destroyed" => status' = status]_vars
=============================================================================
