------------------------------ MODULE TapWork ------------------------------
(***************************************************************************)
(* What a page does with a tap it has accepted: the notify.onAction        *)
(* handler of src/assets/js/app.js, the wait of src/assets/js/castaction.js *)
(* that holds a button until the television is there or gives up, the      *)
(* verified stop of stopCasting, and the outcome that is reported.         *)
(*                                                                         *)
(* Taps wait side by side, each with an interval timer of its own, while   *)
(* the Cast session, the media and the receiver's player change under      *)
(* them.  A timer is stopped by clearInterval and by nothing else.         *)
(*                                                                         *)
(* Bounds: Taps taps, Live and Rejoin steps of patience (10 and 32 steps   *)
(* of 250 ms in the code).                                                 *)
(***************************************************************************)
EXTENDS Integers, FiniteSets

CONSTANTS Taps, Live, Rejoin

ASSUME PatienceAssumption == Live \in Nat \ {0} /\ Rejoin \in Nat \ {0}

Kinds    == {"stop", "toggle", "cancel"}
Outcomes == {"performed", "no-session", "refused", "nothing-to-do"}
NoOutcome == "none"

VARIABLES
  kind,      \* kind[t]: the button (cancel is the upload's, the others the cast's)
  replayed,  \* replayed[t]: the tap came out of the worker's cache
  fresh,     \* castaction.js is loaded (a cached shell may be a build behind)
  session,   \* a Cast session is connected
  loaded,    \* remotePlayer.isMediaLoaded
  player,    \* remotePlayer.playerState
  upload,    \* an upload is running (uploadXhr)
  state,     \* state[t]: "new", then "waiting" while its timer runs, then "over"
  waited,    \* waited[t]: steps its timer has counted
  acts,      \* acts[t]: how often act() was called for it
  gaveUp,    \* gaveUp[t]: how often giveUp() was called for it
  command,   \* command[t]: what the receiver was sent because of it
  outcome,   \* outcome[t]: what was reported for it
  truth      \* history: truth[t]: what had come of it when it was reported

env  == <<kind, replayed, fresh>>
tv   == <<session, loaded, player>>
vars == <<env, tv, upload, state, waited, acts, gaveUp, command, outcome, truth>>

Init ==
  /\ kind \in [Taps -> Kinds]
  /\ replayed \in [Taps -> BOOLEAN]
  /\ fresh \in BOOLEAN
  /\ session \in BOOLEAN /\ loaded = FALSE /\ player = "idle"
  /\ upload \in BOOLEAN
  /\ state = [t \in Taps |-> "new"]
  /\ waited = [t \in Taps |-> 0]
  /\ acts = [t \in Taps |-> 0]
  /\ gaveUp = [t \in Taps |-> 0]
  /\ command = [t \in Taps |-> "none"]
  /\ outcome = [t \in Taps |-> NoOutcome]
  /\ truth = [t \in Taps |-> "nothing"]

castReady      == session /\ loaded
transportReady == loaded /\ player \in {"playing", "paused"}

Say(t, o, what) ==
  /\ outcome' = [outcome EXCEPT ![t] = o]
  /\ truth' = [truth EXCEPT ![t] = what]

\* stopCasting ends the session and asks again, the media's own stop in
\* between; the receiver lets go, or it keeps the session (with the film or
\* without) and stopCasting says so on the screen and returns.  It does not
\* throw, so onAction reports the same outcome either way.
Stop(t) ==
  /\ command' = [command EXCEPT ![t] = "stop"]
  /\ \/ /\ session' = FALSE /\ loaded' = FALSE /\ player' = "idle"
        /\ Say(t, "performed", "let-go")
     \/ /\ loaded' = FALSE /\ player' = "idle" /\ UNCHANGED session
        /\ Say(t, "performed", "kept")
     \/ /\ UNCHANGED tv
        /\ Say(t, "performed", "kept")

\* Bug to catch: the gate is isMediaLoaded, which stays true after the end.
ToggleLoaded(t) ==
  /\ loaded
  /\ player' = IF player = "playing" THEN "paused" ELSE "playing"
  /\ command' = [command EXCEPT ![t] = IF player = "idle" THEN "play-into-idle" ELSE "toggle"]
  /\ Say(t, "performed", "toggled")
  /\ UNCHANGED <<session, loaded>>

\* playOrPause, if something is there to pause; it may throw.
Toggle(t) ==
  \/ /\ transportReady
     /\ player' = IF player = "playing" THEN "paused" ELSE "playing"
     /\ command' = [command EXCEPT ![t] = "toggle"]
     /\ Say(t, "performed", "toggled")
     /\ UNCHANGED <<session, loaded>>
  \/ transportReady /\ Say(t, "refused", "nothing") /\ UNCHANGED <<tv, command>>
  \/ ~transportReady /\ Say(t, "nothing-to-do", "nothing") /\ UNCHANGED <<tv, command>>

Act(t) ==
  /\ acts' = [acts EXCEPT ![t] = @ + 1]
  /\ IF kind[t] = "stop" THEN Stop(t) ELSE Toggle(t)

\* The handler is called with a cast tap: act at once, or start the timer.
\* Without castaction.js there is no waiting, and no giving up either.
HandleCast(t) ==
  /\ state[t] = "new" /\ kind[t] # "cancel"
  /\ \/ /\ castReady
        /\ Act(t)
        /\ state' = [state EXCEPT ![t] = "over"]
     \/ /\ ~castReady
        /\ state' = [state EXCEPT ![t] = IF fresh THEN "waiting" ELSE "over"]
        /\ UNCHANGED <<tv, acts, command, outcome, truth>>
  /\ UNCHANGED <<env, upload, waited, gaveUp>>

\* The handler is called with the upload's Cancel.  abort() fires the abort
\* event before it returns, and that handler has set uploadXhr to null by the
\* time the outcome is chosen.
HandleCancel(t) ==
  /\ state[t] = "new" /\ kind[t] = "cancel"
  /\ upload' = FALSE
  /\ Say(t, "nothing-to-do", IF upload THEN "cancelled" ELSE "nothing")
  /\ state' = [state EXCEPT ![t] = "over"]
  /\ UNCHANGED <<env, tv, waited, acts, gaveUp, command>>

Budget(t) == IF replayed[t] THEN Rejoin ELSE Live

\* Bug to catch: the timer is not stopped when the wait gives up.
GiveUpRunning(t) ==
  /\ gaveUp' = [gaveUp EXCEPT ![t] = @ + 1]
  /\ Say(t, "no-session", "nothing")
  /\ UNCHANGED state

\* Bug to catch: a tap that cannot be performed is dropped in silence.
GiveUpSilently(t) ==
  /\ gaveUp' = [gaveUp EXCEPT ![t] = @ + 1]
  /\ state' = [state EXCEPT ![t] = "over"]
  /\ UNCHANGED <<outcome, truth>>

\* clearInterval, then giveUp(): the failure is reported and shown.
GiveUp(t) ==
  /\ gaveUp' = [gaveUp EXCEPT ![t] = @ + 1]
  /\ Say(t, "no-session", "nothing")
  /\ state' = [state EXCEPT ![t] = "over"]

\* Bug to catch: one step of patience too many.
TickLate(t) ==
  /\ state[t] = "waiting"
  /\ \/ /\ ~castReady /\ waited[t] < Budget(t)
        /\ waited' = [waited EXCEPT ![t] = @ + 1]
        /\ UNCHANGED <<tv, state, acts, gaveUp, command, outcome, truth>>
     \/ /\ ~castReady /\ waited[t] >= Budget(t)
        /\ GiveUp(t)
        /\ UNCHANGED <<tv, waited, acts, command>>
  /\ UNCHANGED <<env, upload>>

\* One tick of the interval timer.
Tick(t) ==
  /\ state[t] = "waiting"
  /\ \/ /\ castReady
        /\ Act(t)
        /\ state' = [state EXCEPT ![t] = "over"]
        /\ UNCHANGED <<waited, gaveUp>>
     \/ /\ ~castReady /\ waited[t] + 1 < Budget(t)
        /\ waited' = [waited EXCEPT ![t] = @ + 1]
        /\ UNCHANGED <<tv, state, acts, gaveUp, command, outcome, truth>>
     \/ /\ ~castReady /\ waited[t] + 1 >= Budget(t)
        /\ GiveUp(t)
        /\ UNCHANGED <<tv, waited, acts, command>>
  /\ UNCHANGED <<env, upload>>

\* The receiver and the SDK: sessions come and go, media is loaded, plays,
\* pauses and ends (isMediaLoaded stays true then); uploads start and finish.
World ==
  /\ \/ ~session /\ session' = TRUE /\ UNCHANGED <<loaded, player>>
     \/ session /\ session' = FALSE /\ loaded' = FALSE /\ player' = "idle"
     \/ session /\ ~loaded /\ loaded' = TRUE /\ player' = "playing" /\ UNCHANGED session
     \/ loaded /\ player' \in {"idle", "playing", "paused"} /\ UNCHANGED <<session, loaded>>
  /\ UNCHANGED <<env, upload, state, waited, acts, gaveUp, command, outcome, truth>>

Upload ==
  /\ upload' = ~upload
  /\ UNCHANGED <<env, tv, state, waited, acts, gaveUp, command, outcome, truth>>

Next ==
  \/ \E t \in Taps : HandleCast(t) \/ HandleCancel(t) \/ Tick(t)
  \/ World \/ Upload

\* Timers run, and a listener that was called runs to its end.
Spec == Init /\ [][Next]_vars
        /\ \A t \in Taps : WF_vars(HandleCast(t)) /\ WF_vars(HandleCancel(t)) /\ WF_vars(Tick(t))

\* Types: the taps that wait, and the world they look at.
TypeOK ==
  /\ kind \in [Taps -> Kinds] /\ replayed \in [Taps -> BOOLEAN] /\ fresh \in BOOLEAN
  /\ session \in BOOLEAN /\ loaded \in BOOLEAN /\ player \in {"idle", "playing", "paused"}
  /\ upload \in BOOLEAN
  /\ state \in [Taps -> {"new", "waiting", "over"}]
  /\ \A t \in Taps : waited[t] \in 0..(Budget(t) - 1)
  /\ acts \in [Taps -> Nat] /\ gaveUp \in [Taps -> Nat]
  /\ command \in [Taps -> {"none", "stop", "toggle", "play-into-idle"}]
  /\ outcome \in [Taps -> Outcomes \cup {NoOutcome}]
  /\ truth \in [Taps -> {"nothing", "toggled", "let-go", "kept", "cancelled"}]

\* act runs at most once, giveUp at most once, and never both (castaction.js).
ActXorGiveUp == \A t \in Taps : acts[t] + gaveUp[t] <= 1

\* A button reported as failed left the receiver alone, and a Pause reported as
\* done was sent to a film that plays or is paused: an idle receiver would end the
\* cast (app.js castActionFailed, transportReady, notify.result).
FailureIsTrue ==
  \A t \in Taps :
    /\ outcome[t] \in {"no-session", "refused"} => command[t] = "none"
    /\ kind[t] = "toggle" /\ outcome[t] = "performed" => command[t] = "toggle"

\* Every tap on the cast's or the upload's buttons is answered, also when the
\* television never comes back: not unbounded patience (castaction.js).
EveryTapAnswered == \A t \in Taps : fresh ~> (outcome[t] # NoOutcome)

\* Claimed by app.js stopCasting: the app does not report a stop it did not make.
StopIsTrue == \A t \in Taps : truth[t] = "kept" => outcome[t] # "performed"

\* Claimed by app.js notify.result: what the page managed to do with a tap is
\* told to the worker.  A cancel that ended an upload is not "nothing to do".
CancelIsTrue == \A t \in Taps : truth[t] = "cancelled" => outcome[t] = "performed"
=============================================================================
