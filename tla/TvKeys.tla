------------------------------- MODULE TvKeys -------------------------------
(***************************************************************************)
(* The bar over the film and the keys that drive it (src/assets/js/tv.js): *)
(* a television's remote has arrows, OK and Back, so what a press does is  *)
(* decided by what has the focus, and the bar hides itself while playing.  *)
(***************************************************************************)
EXTENDS Integers, Sequences, SequencesExt

CONSTANTS None

VARIABLES
  film,      \* a film is loaded
  playing,   \* and moves; a film that is not playing waits or is paused
  blocked,   \* the start button is shown over it
  phone,     \* a phone is paired: the idle screen has its release button
  bar,       \* the bar is shown
  hiding,    \* its five seconds run
  focus,     \* the control with the focus
  full,      \* the page is full screen
  unseen     \* events of the <video> that have not been handled yet

vars == <<film, playing, blocked, phone, bar, hiding, focus, full, unseen>>

KEYS    == <<"kBack", "kPlay", "kFwd", "kMute", "kFull", "kStop">>
InHud   == ToSet(KEYS) \cup {"seek"}
Presses == {"left", "right", "up", "down", "ok", "back", "playpause", "stop"}

\* Types: the film, the bar and its timer, and the focus.
TypeOK ==
  /\ {film, playing, blocked, phone, bar, hiding, full} \subseteq BOOLEAN
  /\ focus \in InHud \cup {"release", None} /\ unseen \in {None, "playing", "pause"}

Init ==
  /\ film = FALSE /\ playing = FALSE /\ blocked = FALSE /\ phone \in BOOLEAN /\ bar = FALSE
  /\ hiding = FALSE /\ full \in BOOLEAN /\ focus = None /\ unseen = None

-----------------------------------------------------------------------------
\* A mutant that counts down whatever the film does.
ShowCounting(toPlay, on) ==
  /\ bar' = TRUE /\ hiding' = TRUE
  /\ focus' = IF toPlay \/ focus \notin InHud THEN "kPlay" ELSE focus

\* showHud: shown, focused unless the focus is in it, and counted down only
\* while the film plays (poke).
Show(toPlay, on) ==
  /\ bar' = TRUE /\ hiding' = on
  /\ focus' = IF toPlay \/ focus \notin InHud THEN "kPlay" ELSE focus

\* A mutant that leaves the focus behind.
HideFocused ==
  /\ bar' = FALSE /\ hiding' = FALSE /\ UNCHANGED focus

\* hideHud takes the focus out of what it hides.
Hide ==
  /\ bar' = FALSE /\ hiding' = FALSE
  /\ focus' = IF focus \in InHud THEN None ELSE focus

\* video.play and video.pause, whose event comes after.
Starts ==
  /\ film /\ playing' \in {playing, TRUE} /\ blocked' = (blocked /\ ~playing')
  /\ unseen' = (IF playing' # playing THEN "playing" ELSE unseen)
Pauses == playing' = FALSE /\ unseen' = (IF playing THEN "pause" ELSE unseen)

\* toggle: the bar is shown at once, as of the state before the event.
Toggle ==
  /\ IF playing THEN Pauses /\ UNCHANGED blocked ELSE Starts
  /\ Show(FALSE, playing') /\ UNCHANGED <<film, phone, full>>

Skip == film /\ Show(FALSE, playing) /\ UNCHANGED <<film, playing, blocked, phone, full, unseen>>

\* run stop: the pairing screen, whose release button takes the focus.
StopHere ==
  /\ film' = FALSE /\ playing' = FALSE /\ blocked' = FALSE /\ full' = FALSE /\ unseen' = None
  /\ bar' = FALSE /\ hiding' = FALSE
  /\ focus' = IF phone THEN "release" ELSE IF focus \in InHud THEN None ELSE focus
  /\ UNCHANGED phone

\* moveFocus among the buttons; from elsewhere to the play button.
MoveFocus(step) ==
  LET at == CHOOSE i \in 0..Len(KEYS) : (i = 0 /\ focus \notin ToSet(KEYS)) \/ (i > 0 /\ KEYS[i] = focus)
      to == IF at = 0 THEN 2
            ELSE IF at + step < 1 THEN 1 ELSE IF at + step > Len(KEYS) THEN Len(KEYS) ELSE at + step IN
  focus' = KEYS[to]

\* A press of the control that has the focus.
Click ==
  CASE focus \in {"kBack", "kFwd", "seek"} -> Skip
    [] focus = "kPlay"  -> Toggle
    [] focus = "kMute"  -> Show(FALSE, playing) /\ UNCHANGED <<film, playing, blocked, phone, full, unseen>>
    [] focus = "kFull"  -> full' = ~full /\ Show(FALSE, playing) /\ UNCHANGED <<film, playing, blocked, phone, unseen>>
    [] focus = "kStop"  -> StopHere
    [] OTHER -> FALSE

-----------------------------------------------------------------------------
(* A key, first by what is on the screen, then by what has the focus. *)

\* The idle screen has one button, release, while a phone is paired.  (The
\* start button of a film gives its focus to the bar at once: PlayRefused.)
OnIdle(k) ==
  /\ ~film /\ phone
  /\ \/ k \in {"left", "right", "up", "down"} /\ focus' = "release" /\ UNCHANGED phone
     \/ k = "ok" /\ focus # "release" /\ focus' = "release" /\ UNCHANGED phone
     \/ k = "ok" /\ focus = "release" /\ phone' = FALSE /\ UNCHANGED focus
  /\ UNCHANGED <<film, playing, blocked, bar, hiding, full, unseen>>

\* The media keys work with the bar shown or not.
OnMedia(k) ==
  /\ film
  /\ \/ k = "playpause" /\ Toggle
     \/ k = "stop" /\ StopHere

\* The bar is hidden: the arrows skip, OK and the others bring it back.
OnHidden(k) ==
  /\ film /\ ~bar
  /\ \/ k \in {"left", "right"} /\ Skip
     \/ /\ k \in {"ok", "up", "down"} /\ Show(TRUE, playing)
        /\ UNCHANGED <<film, playing, blocked, phone, full, unseen>>
     \/ /\ k = "back" /\ full /\ full' = FALSE
        /\ UNCHANGED <<film, playing, blocked, phone, bar, hiding, focus, unseen>>

\* The bar is shown: every press starts its countdown again.
OnShown(k) ==
  /\ film /\ bar
  /\ \/ /\ k = "back" /\ Hide
        /\ UNCHANGED <<film, playing, blocked, phone, full, unseen>>
     \/ /\ k \in {"left", "right"} /\ focus = "seek" /\ Skip
     \/ /\ k \in {"left", "right", "up", "down"} /\ focus \in InHud
        /\ focus = "seek" => k \in {"up", "down"}
        /\ hiding' = playing
        /\ CASE k = "left"  -> MoveFocus(-1)
             [] k = "right" -> MoveFocus(1)
             [] k = "up"    -> focus' = "seek"
             [] k = "down" /\ focus = "seek" -> MoveFocus(0)
             [] OTHER -> UNCHANGED focus
        /\ UNCHANGED <<film, playing, blocked, phone, bar, full, unseen>>
     \/ k = "ok" /\ focus = "seek" /\ Toggle
     \/ k = "ok" /\ focus \in InHud \ {"seek"} /\ Click
     \/ /\ k \in {"left", "right", "up", "down", "ok"} /\ focus \notin InHud /\ Show(TRUE, playing)
        /\ UNCHANGED <<film, playing, blocked, phone, full, unseen>>

Press(k) == OnIdle(k) \/ OnMedia(k) \/ OnHidden(k) \/ OnShown(k)

-----------------------------------------------------------------------------
(* What happens without a key, and with a pointer. *)

\* run load; the film plays, or the browser wants the start button pressed.
Load ==
  /\ film' = TRUE /\ playing' = FALSE /\ blocked' = FALSE /\ unseen' = None
  /\ Show(FALSE, FALSE) /\ UNCHANGED <<phone, full>>
PlayStarts ==
  /\ film /\ ~playing /\ ~blocked
  /\ playing' = TRUE /\ unseen' = "playing"
  /\ UNCHANGED <<film, blocked, phone, bar, hiding, focus, full>>
PlayRefused ==
  /\ film /\ ~playing /\ ~blocked
  /\ blocked' = TRUE /\ Show(TRUE, FALSE)
  /\ UNCHANGED <<film, playing, phone, full, unseen>>
\* The phone pauses it, or it runs dry.
PhonePauses == film /\ playing /\ Pauses /\ UNCHANGED <<film, blocked, phone, bar, hiding, focus, full>>

\* The event of a start or a pause: a film that stands still shows the bar,
\* one that plays starts the bar's countdown.
Handled ==
  /\ unseen # None /\ unseen' = None
  /\ IF ~playing THEN Show(FALSE, FALSE) ELSE hiding' = bar /\ UNCHANGED <<bar, focus>>
  /\ UNCHANGED <<film, playing, blocked, phone, full>>

\* A click on the start button, which is then hidden and loses the focus, and one
\* on the film.
ClickStart ==
  /\ blocked /\ Starts /\ focus' = None
  /\ UNCHANGED <<film, phone, bar, hiding, full>>
ClickFilm ==
  /\ film /\ (IF bar THEN Hide ELSE Show(TRUE, playing))
  /\ UNCHANGED <<film, playing, blocked, phone, full, unseen>>

TimerFires ==
  /\ hiding /\ Hide
  /\ UNCHANGED <<film, playing, blocked, phone, full, unseen>>

\* A poll says whether a phone is paired; on the idle screen its button is focused.
PhoneComes ==
  /\ phone' = ~phone
  /\ focus' = IF ~film /\ phone' THEN "release" ELSE focus
  /\ UNCHANGED <<film, playing, blocked, bar, hiding, full, unseen>>

Next ==
  \/ \E k \in Presses : Press(k)
  \/ Load \/ PlayStarts \/ PlayRefused \/ PhonePauses \/ Handled \/ ClickStart \/ ClickFilm
  \/ TimerFires \/ PhoneComes

Spec == Init /\ [][Next]_vars

-----------------------------------------------------------------------------
\* No press reaches a control that is not to be seen (hideHud, showHud, run).
FocusIsSeen == focus \in InHud => bar /\ film

\* The countdown never takes the bar from a film that stands still, unless the
\* <video> has yet to say so (poke).
StillBarStays == [][TimerFires => playing \/ unseen # None]_vars
=============================================================================
