------------------------------ MODULE TvPlayer ------------------------------
(***************************************************************************)
(* The player of the television's page (src/assets/js/tv.js): attach and   *)
(* teardown, the one retry through the bridge, Shaka, which is downloaded  *)
(* when the first DASH film needs it, the play a browser may refuse, and   *)
(* subtitles fetched on their own.  The commands are those of TvRoom.      *)
(***************************************************************************)
CONSTANTS
  Films, None,
  Bridged, Dash, Subbed   \* films with a fallback, a DASH type, subtitles

VARIABLES
  loaded,    \* the load command now on screen
  source,    \* what the <video> has: a film, direct or through the bridge
  dash,      \* the Shaka player that attach holds
  due,       \* attaches that wait for Shaka's script
  opening,   \* attaches whose player was asked to load and has not answered
  shaka,     \* the script: absent, on its way, here
  tried,     \* triedFallback
  failed,    \* lastError is set
  motion,    \* what play() has come to
  fetching,  \* films whose subtitles are being fetched
  tracks,    \* films whose subtitles are on the screen
  late       \* history: Shaka answered for a film that had been left

vars == <<loaded, source, dash, due, opening, shaka, tried, failed, motion, fetching, tracks, late>>

Attach == [film : Films, bridge : BOOLEAN]
FilmOf(x) == IF x = None THEN None ELSE x.film

\* Types: the element, its engine and its subtitles.
TypeOK ==
  /\ loaded \in Films \cup {None} /\ {source, dash} \subseteq Attach \cup {None}
  /\ {due, opening} \subseteq SUBSET Attach
  /\ shaka \in {"absent", "coming", "here"} /\ {tried, failed, late} \subseteq BOOLEAN
  /\ motion \in {"off", "asked", "on", "blocked", "paused"}
  /\ fetching \subseteq Films /\ tracks \subseteq Films

Init ==
  /\ loaded = None /\ source = None /\ dash = None /\ due = {} /\ opening = {}
  /\ shaka = "absent" /\ tried = FALSE /\ failed = FALSE /\ motion = "off"
  /\ fetching = {} /\ tracks = {} /\ late = FALSE

-----------------------------------------------------------------------------
\* Everything off the screen; a Shaka player that was opening is destroyed,
\* and its load is still to be refused.
Teardown ==
  /\ source' = None /\ dash' = None /\ tracks' = {}

\* attach: a DASH film waits for Shaka, any other goes into the <video> at once.
AttachTo(x) ==
  /\ failed' = FALSE /\ tracks' = {} /\ dash' = None
  /\ IF x.film \in Dash
     THEN /\ source' = None /\ due' = due \cup {x} /\ motion' = "off"
          /\ shaka' = IF shaka = "absent" THEN "coming" ELSE shaka
     ELSE source' = x /\ motion' = "asked" /\ UNCHANGED <<due, shaka>>

\* fail: once through the bridge before calling it.
CanRetry == loaded # None /\ loaded \in Bridged /\ ~tried
Retry == tried' = TRUE /\ AttachTo([film |-> loaded, bridge |-> TRUE])
GiveUp == failed' = TRUE /\ UNCHANGED <<source, dash, due, shaka, tried, motion, tracks>>
Fail == IF CanRetry THEN Retry ELSE GiveUp

Load(f) ==
  /\ loaded' = f /\ tried' = FALSE
  /\ AttachTo([film |-> f, bridge |-> FALSE])
  /\ fetching' = IF f \in Subbed THEN fetching \cup {f} ELSE fetching
  /\ UNCHANGED <<opening, late>>

Stop ==
  /\ loaded' = None /\ Teardown /\ motion' = "off"
  /\ UNCHANGED <<due, opening, shaka, tried, failed, fetching, late>>

\* The television's browser goes to a site, and the page starts anew after it.
Page ==
  /\ loaded' = None /\ Teardown /\ motion' = "off"
  /\ due' = {} /\ opening' = {} /\ shaka' = "absent"
  /\ tried' = FALSE /\ failed' = FALSE /\ fetching' = {} /\ UNCHANGED late

\* play asks the browser, by command, key or the start button; pause does not.
Play ==
  /\ loaded # None /\ source # None /\ motion # "on"
  /\ motion' = "asked"
  /\ UNCHANGED <<loaded, source, dash, due, opening, shaka, tried, failed, fetching, tracks, late>>
Pause ==
  /\ loaded # None /\ motion \in {"on", "asked"}
  /\ motion' = "paused"
  /\ UNCHANGED <<loaded, source, dash, due, opening, shaka, tried, failed, fetching, tracks, late>>

\* The browser plays, or refuses a sound that nobody pressed a button for.
PlayAnswers ==
  /\ motion = "asked" /\ source # None
  /\ motion' \in {"on", "blocked"}
  /\ UNCHANGED <<loaded, source, dash, due, opening, shaka, tried, failed, fetching, tracks, late>>

\* The <video> gives up; a Shaka player reports its own errors.
VideoFails ==
  /\ source # None /\ dash = None
  /\ Fail /\ UNCHANGED <<loaded, opening, fetching, late>>

-----------------------------------------------------------------------------
(* Shaka. *)

Arrives ==
  /\ shaka = "coming" /\ shaka' = "here"
  /\ UNCHANGED <<loaded, source, dash, due, opening, tried, failed, motion, fetching, tracks, late>>

\* The script did not come: every attach that waited for it fails (OpenFails),
\* and the next DASH film asks for the script again.
NotDownloaded ==
  /\ shaka = "coming" /\ shaka' = "absent"
  /\ due' = {} /\ opening' = opening \cup due
  /\ UNCHANGED <<loaded, source, dash, tried, failed, motion, fetching, tracks, late>>

\* The script is here: a player is made and takes the <video>, whatever has
\* been chosen since.
Open(x) ==
  /\ shaka = "here" /\ x \in due
  /\ due' = due \ {x} /\ opening' = opening \cup {x}
  /\ dash' = x /\ source' = x
  /\ late' = (late \/ x.film # loaded)
  /\ UNCHANGED <<loaded, shaka, tried, failed, motion, fetching, tracks>>

\* Its load succeeds, which starts it only while it is the player held.
Opened(x) ==
  /\ x \in opening /\ dash = x
  /\ opening' = opening \ {x} /\ motion' = "asked"
  /\ UNCHANGED <<loaded, source, dash, due, shaka, tried, failed, fetching, tracks, late>>

\* It fails, because the film does or because the player was destroyed: the
\* catch calls fail in either case.
OpenFails(x) ==
  /\ x \in opening
  /\ opening' = opening \ {x} /\ Fail
  /\ late' = (late \/ x.film # loaded)
  /\ UNCHANGED <<loaded, fetching>>

-----------------------------------------------------------------------------
\* A mutant that shows what arrives.
SubsArriveAnyway(f) ==
  /\ f \in fetching /\ fetching' = fetching \ {f}
  /\ tracks' = tracks \cup {f}
  /\ UNCHANGED <<loaded, source, dash, due, opening, shaka, tried, failed, motion, late>>

\* attachSubs, when the file is there: for the film it was fetched for only.
SubsArrive(f) ==
  /\ f \in fetching /\ fetching' = fetching \ {f}
  /\ \/ tracks' = IF loaded = f THEN tracks \cup {f} ELSE tracks
     \/ UNCHANGED tracks
  /\ UNCHANGED <<loaded, source, dash, due, opening, shaka, tried, failed, motion, late>>

Shaka == Arrives \/ NotDownloaded \/ \E x \in Attach : Open(x) \/ Opened(x) \/ OpenFails(x)
Next ==
  \/ \E f \in Films : Load(f) \/ SubsArrive(f)
  \/ Stop \/ Page \/ Play \/ Pause \/ PlayAnswers \/ VideoFails \/ Shaka

Spec == Init /\ [][Next]_vars

-----------------------------------------------------------------------------
\* What a phone is told of the film on the screen (state).
state == IF loaded = None THEN "idle" ELSE IF failed THEN "error"
         ELSE IF motion = "blocked" THEN "blocked" ELSE "other"

\* A film is called unplayable only after its bridge was tried (fail, run).
BridgeBeforeError == state = "error" /\ loaded \in Bridged => tried

\* Picture and subtitles are the chosen film's, and a stopped screen is empty,
\* unless Shaka answered late (attach, teardown, attachSubs).
ScreenIsTheFilms ==
  /\ source # None /\ ~late => FilmOf(source) = loaded
  /\ tracks \subseteq {loaded}

\* "the TV ends up playing what the phone last chose" (src/lib/tv.js:162).
ScreenShowsChoice == source # None => FilmOf(source) = loaded
=============================================================================
