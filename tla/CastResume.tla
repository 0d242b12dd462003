---------------------------- MODULE CastResume ----------------------------
(***************************************************************************)
(* Which film a Cast session is about.  A page is told of sessions it      *)
(* asked for, of sessions somebody started from the browser's menu, and of *)
(* sessions a former life of the page left behind; it has a film of its    *)
(* own, or the row of the server that says what was on (now_playing), or   *)
(* both.  It sends its film to the TV, or it adopts the row to put a name  *)
(* on what is there: src/assets/js/app.js, castaction.js (onSession),      *)
(* resume.js (view), api/now-playing.js.                                   *)
(*                                                                         *)
(* The SDK changes the session and calls both listeners (CAST_STATE and    *)
(* SESSION_STATE) in one task, in an order the code does not rely on:      *)
(* either is possible here.  How a load comes to play is CastLoad's: what  *)
(* is sent is on the TV at once.  A position is named by the film it was   *)
(* reached in.  Subtitles, titles and the age of the row are left out.     *)
(*                                                                         *)
(* Bounds: MaxActs acts of a person and of the SDK, Lives lives of a page. *)
(***************************************************************************)
EXTENDS Integers

CONSTANTS Films, NoFilm, MaxActs, Lives

NotRead == "not read"
Wanted  == "wanted"
Events  == {"STARTED", "RESUMED"}

VARIABLES
  current,    \* the film of the page
  phone,      \* the film in the phone's own video element
  asked,      \* askedForSession
  picking,    \* requestSession has not settled: the picker is open
  pendingAt,  \* pendingResumeAt: the film whose position it is
  restored,   \* the row read at boot, until it is used or cleared
  reading,    \* GET /api/now-playing: not on its way, on its way, its answer
  sess,       \* "none", or how the session of the page came about
  tv,         \* the film on the TV, whose position it began at, loads so far
  row,        \* the now_playing row of the server
  wire,       \* beats and clears on their way to the server
  carry,      \* history: the film that is being picked back up
  over,       \* history: the last session ended in this life of the page
  acts, life

page == <<current, phone, asked, picking, pendingAt, restored>>
net  == <<reading, row, wire>>
vars == <<page, net, sess, tv, carry, over, acts, life>>

Maybe == Films \cup {NoFilm}
Put(f) == [op |-> "put", film |-> f]
Del == [op |-> "del", film |-> NoFilm]

Init ==
  /\ current = NoFilm /\ phone = NoFilm /\ asked = FALSE /\ picking = FALSE
  /\ pendingAt = NoFilm /\ restored = NoFilm
  /\ reading = Wanted
  /\ row \in Maybe /\ wire = {}
  /\ sess = "none"
  /\ \E f \in {row, NoFilm} : tv = [film |-> f, from |-> f, n |-> 0]
  /\ carry = NoFilm /\ over = FALSE /\ acts = 0 /\ life = 1

Act == acts < MaxActs /\ acts' = acts + 1

-----------------------------------------------------------------------------
\* Bug to catch: the place a resume was given is dropped on the way.
SentWithoutPlace(f, at) ==
  [film |-> f, n |-> tv.n + 1, from |-> IF tv.film # NoFilm THEN tv.film ELSE phone]

\* castLoad: without a position of its own the TV's is taken if media is
\* loaded there, else that of the phone's video element.
Sent(f, at) ==
  [film |-> f, n |-> tv.n + 1,
   from |-> IF at # NoFilm THEN at ELSE IF tv.film # NoFilm THEN tv.film ELSE phone]

\* Bug to catch: the rule before castaction.js had it, by the event's name.
SendsByName(ev, wanted, target) == target

\* onSession of castaction.js: send the film, for one the person asked for or
\* for a new session.  (Its other word, adopt, decides nothing: see Connected.)
Sends(ev, wanted, target) == target /\ (wanted \/ ev = "STARTED")

Named(f) == IF restored # NoFilm THEN restored ELSE f

\* The two listeners.  hadTarget is read at the top of the second, so what
\* the first adopted counts; renderResume, which both call, adopts whenever
\* there is a row and a session, and it is called before the film is sent.
Connected(ev, stateFirst) ==
  LET target == (IF stateFirst THEN Named(current) ELSE current) # NoFilm
      send == Sends(ev, asked, target)
  IN
  /\ asked' = FALSE
  /\ current' = Named(current) /\ restored' = NoFilm
  /\ tv' = IF send THEN Sent(Named(current), pendingAt) ELSE tv
  /\ pendingAt' = IF send THEN NoFilm ELSE pendingAt
  /\ carry' = NoFilm /\ over' = FALSE
  /\ UNCHANGED <<phone, net, life>>

\* The device picked answers: a new session, or a join of what it had on.
Picked(stateFirst) ==
  /\ Act
  /\ picking /\ sess = "none" /\ picking' = FALSE
  /\ sess' = "page"
  /\ Connected(IF tv.film = NoFilm THEN "STARTED" ELSE "RESUMED", stateFirst)

\* A session from the browser's own menu.
FromMenu(stateFirst) ==
  /\ Act
  /\ ~picking /\ sess = "none" /\ tv.film = NoFilm
  /\ sess' = "menu"
  /\ Connected("STARTED", stateFirst)
  /\ UNCHANGED picking

\* ORIGIN_SCOPED auto-join of a TV that a former life left playing; which of
\* the two events reports it is the SDK's affair.
Rejoin(ev, stateFirst) ==
  /\ Act
  /\ sess = "none" /\ tv.film # NoFilm
  /\ sess' = "rejoin"
  /\ Connected(ev, stateFirst)
  /\ UNCHANGED picking

\* The network blinks and the SDK resumes the session it had.
Blink(stateFirst) ==
  /\ Act
  /\ sess # "none" /\ ~picking
  /\ Connected("RESUMED", stateFirst)
  /\ UNCHANGED <<sess, picking>>

\* Bug to catch: a dismissed picker leaves askedForSession set.
UnpickedStillAsked ==
  /\ Act
  /\ picking /\ picking' = FALSE
  /\ UNCHANGED <<asked, current, phone, pendingAt, restored, net, sess, tv, carry, over, life>>

\* SESSION_START_FAILED, and a picker that is dismissed.  The place kept for
\* a resume is not cleared.
Unpicked ==
  /\ Act
  /\ picking /\ picking' = FALSE /\ asked' = FALSE
  /\ UNCHANGED <<current, phone, pendingAt, restored, net, sess, tv, carry, over, life>>

\* SESSION_ENDED, by stopCasting or from the other side: sessionClear.
SessionEnds ==
  /\ sess # "none" /\ sess' = "none"
  /\ asked' = FALSE
  /\ tv' = [tv EXCEPT !.film = NoFilm, !.from = NoFilm]
  /\ wire' = wire \cup {Del}
  /\ over' = TRUE
  /\ UNCHANGED <<current, phone, picking, pendingAt, restored, reading, row, carry, acts, life>>

-----------------------------------------------------------------------------
(* The person. *)

\* load().
Choose(f) ==
  /\ Act
  /\ ~picking
  /\ current' = f /\ phone' = f /\ carry' = NoFilm
  /\ tv' = IF sess = "none" THEN tv ELSE Sent(f, NoFilm)
  /\ UNCHANGED <<asked, picking, pendingAt, restored, net, sess, over, life>>

\* The Cast button: the picker, or the film again.
TapCast ==
  /\ Act
  /\ ~picking /\ sess = "none"
  /\ asked' = TRUE /\ picking' = TRUE
  /\ UNCHANGED <<current, phone, pendingAt, restored, net, sess, tv, carry, over, life>>

SendAgain ==
  /\ Act
  /\ sess # "none" /\ current # NoFilm
  /\ tv' = Sent(current, NoFilm)
  /\ UNCHANGED <<page, net, sess, carry, over, life>>

\* resumeSession, where no session is there to adopt.
TapResume ==
  /\ Act
  /\ ~picking /\ sess = "none" /\ restored # NoFilm
  /\ current' = restored /\ restored' = NoFilm /\ pendingAt' = restored
  /\ asked' = TRUE /\ picking' = TRUE
  /\ carry' = restored
  /\ UNCHANGED <<phone, net, sess, tv, over, life>>

\* dismissResume: sessionClear as well.
Dismiss ==
  /\ Act
  /\ ~picking /\ restored # NoFilm
  /\ restored' = NoFilm /\ wire' = wire \cup {Del}
  /\ UNCHANGED <<current, phone, asked, picking, pendingAt, reading, row, sess, tv, carry, over, life>>

\* The page goes (its last beat leaves with it) and comes back.
Reload ==
  /\ life < Lives /\ life' = life + 1
  /\ wire' = IF sess # "none" /\ current # NoFilm THEN wire \cup {Put(current)} ELSE wire
  /\ current' = NoFilm /\ phone' = NoFilm /\ asked' = FALSE /\ picking' = FALSE
  /\ pendingAt' = NoFilm /\ restored' = NoFilm
  /\ reading' = Wanted /\ sess' = "none"
  /\ carry' = NoFilm /\ over' = FALSE
  /\ UNCHANGED <<row, tv, acts>>

-----------------------------------------------------------------------------
(* The row. *)

\* sessionBeat: every fifteen seconds, and when film or state changes.
Beat ==
  /\ sess # "none" /\ current # NoFilm
  /\ wire' = wire \cup {Put(current)}
  /\ UNCHANGED <<page, reading, row, sess, tv, carry, over, acts, life>>

\* A PUT or a DELETE reaches the server, or is lost.
Land(w) ==
  /\ w \in wire /\ wire' = wire \ {w}
  /\ row' \in {w.film, row}
  /\ UNCHANGED <<page, reading, sess, tv, carry, over, acts, life>>

\* restoreSession again: signed in anew, or the list pulled while a film
\* plays on the phone.
Refresh ==
  /\ Act
  /\ reading = NotRead /\ reading' = Wanted
  /\ UNCHANGED <<page, row, wire, sess, tv, carry, over, life>>

Read ==
  /\ reading = Wanted /\ reading' = row
  /\ UNCHANGED <<page, row, wire, sess, tv, carry, over, acts, life>>

\* Bug to catch: the row that comes after the rejoin is not adopted.
RestoreLater ==
  /\ reading \in Maybe /\ reading' = NotRead
  /\ restored' = reading
  /\ carry' = NoFilm
  /\ UNCHANGED <<current, phone, asked, picking, pendingAt, row, wire, sess, tv, over, acts, life>>

\* Bug to catch: an answer that was not asked for is taken for a row.
RestoreUnasked ==
  /\ reading # Wanted /\ reading' = NotRead
  /\ restored' = IF sess = "none" THEN reading ELSE NoFilm
  /\ carry' = NoFilm
  /\ UNCHANGED <<current, phone, asked, picking, pendingAt, row, wire, sess, tv, over, acts, life>>

\* The answer: adoptIfRejoined, whatever the page is about by now.
Restore ==
  /\ reading \in Maybe /\ reading' = NotRead
  /\ \/ /\ reading # NoFilm /\ sess # "none"
        /\ current' = reading /\ restored' = NoFilm
     \/ /\ reading = NoFilm \/ sess = "none"
        /\ restored' = reading /\ UNCHANGED current
  /\ carry' = NoFilm
  /\ UNCHANGED <<phone, asked, picking, pendingAt, row, wire, sess, tv, over, acts, life>>

-----------------------------------------------------------------------------
Next ==
  \/ \E first \in BOOLEAN : Picked(first) \/ FromMenu(first) \/ Blink(first)
  \/ \E ev \in Events, first \in BOOLEAN : Rejoin(ev, first)
  \/ Unpicked \/ SessionEnds
  \/ \E f \in Films : Choose(f)
  \/ TapCast \/ SendAgain \/ TapResume \/ Dismiss \/ Reload
  \/ Beat \/ Refresh \/ Read \/ Restore
  \/ \E w \in wire : Land(w)

Spec == Init /\ [][Next]_vars

-----------------------------------------------------------------------------
\* Types: the session, the row, and the page that resumes.
TypeOK ==
  /\ current \in Maybe /\ phone \in Maybe /\ asked \in BOOLEAN /\ picking \in BOOLEAN
  /\ pendingAt \in Maybe /\ restored \in Maybe
  /\ reading \in Maybe \cup {NotRead, Wanted}
  /\ sess \in {"none", "page", "menu", "rejoin"}
  /\ tv \in [film : Maybe, from : Maybe, n : Nat]
  /\ row \in Maybe /\ wire \subseteq {Put(f) : f \in Films} \cup {Del}
  /\ carry \in Maybe /\ over \in BOOLEAN
  /\ acts \in 0..MaxActs /\ life \in 1..Lives

\* "Shows this but cast still ongoing": the banner that offers to pick a film
\* back up never stands over a live session, whichever of the row and the
\* session comes second.
NoBannerOverLive == sess # "none" => restored = NoFilm

\* A film that is on the TV is not sent again by a session that comes back
\* as RESUMED, unless the person has the picker open.
RejoinNotResent ==
  [][\A first \in BOOLEAN :
       (Rejoin("RESUMED", first) \/ Blink(first)) /\ ~picking => tv'.n = tv.n]_vars

\* A film that is picked back up goes to the TV as that film, and from where
\* it had got to, however often the picker is dismissed or a TV refuses.
ResumeKeepsPlace ==
  [][carry # NoFilm /\ tv'.n # tv.n => tv'.film = carry /\ tv'.from = carry]_vars

-----------------------------------------------------------------------------
(* Claimed by the code's comments and tests, and not kept by the code.     *)

\* test-sessionstart.js: "never both send and adopt (adopt replaces the loaded
\* film with the stored row)": what a new session sends is the film the
\* person had chosen.
PickIsSent ==
  [][sess = "none" /\ sess' = "page" /\ current # NoFilm /\ tv'.n # tv.n
       => tv'.film = current]_vars

\* app.js: "tapping Cast to TV with nothing loaded would adopt the stored row
\* and announce a film it had not sent" without askedForSession.
AskedAdoptsNothing ==
  [][sess = "none" /\ sess' = "page" /\ current = NoFilm => current' = NoFilm]_vars

\* A film is sent from its own place, or from the start: "a cast that began
\* as pick it back up carries the position the film had reached".
PlaceIsItsFilms == tv.from \in {tv.film, NoFilm}

\* app.js: "The session is over for real.  The row has to go, or the next
\* open offers to rejoin a television showing its home screen."
RowGoesWithSession == over /\ wire = {} => row = NoFilm
=============================================================================
