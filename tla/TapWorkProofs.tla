---------------------------- MODULE TapWorkProofs ----------------------------
(***************************************************************************)
(* What a page does with a tap, for any number of taps and any patience:   *)
(* it is acted on once, or given up once, and what is reported is true.    *)
(*                                                                         *)
(* A tap's own timer is the only one that acts for it or gives it up, and  *)
(* the step that does stops it: so what has come of a tap follows from     *)
(* whether it is over.                                                     *)
(*                                                                         *)
(* After it, two more parts of the page: the phone's player plays the film *)
(* that was chosen last (PhonePlayer), and an endpoint that can still wake *)
(* the phone keeps its row (Push).                                         *)
(***************************************************************************)
EXTENDS TapWork, Sequences, SequenceTheorems, TLAPS

\* A tap that is not over had nothing come of it; one that is was acted on or given up,
\* and was answered with what came of it.
TapIsTrue(t) ==
  /\ state[t] # "over" =>
       acts[t] = 0 /\ gaveUp[t] = 0 /\ command[t] = "none" /\ outcome[t] = NoOutcome
  /\ acts[t] + gaveUp[t] <= 1
  /\ outcome[t] \in {"no-session", "refused"} => command[t] = "none"
  /\ kind[t] = "toggle" /\ outcome[t] = "performed" => command[t] = "toggle"

\* Only the cast's buttons wait.
CastWaits == \A t \in Taps : state[t] = "waiting" => kind[t] # "cancel"

WorkInv ==
  /\ TypeOK /\ waited \in [Taps -> Nat]
  /\ CastWaits
  /\ \A t \in Taps : TapIsTrue(t)

\* The receiver is asked for what the button says.
LEMMA ActDoes ==
  ASSUME WorkInv, NEW t \in Taps, state[t] # "over", kind[t] # "cancel", Act(t)
  PROVE  /\ acts' = [acts EXCEPT ![t] = 1]
         /\ session' \in BOOLEAN /\ loaded' \in BOOLEAN /\ player' \in {"idle", "playing", "paused"}
         /\ \E c \in {"none", "stop", "toggle"}, o \in Outcomes,
               w \in {"nothing", "toggled", "let-go", "kept"} :
              /\ command' = [command EXCEPT ![t] = c] /\ outcome' = [outcome EXCEPT ![t] = o]
              /\ truth' = [truth EXCEPT ![t] = w]
              /\ o \in {"no-session", "refused"} => c = "none"
              /\ kind[t] = "toggle" /\ o = "performed" => c = "toggle"
<1>1. /\ acts \in [Taps -> Nat] /\ acts[t] = 0 /\ command[t] = "none"
      /\ command \in [Taps -> {"none", "stop", "toggle", "play-into-idle"}]
      /\ session \in BOOLEAN /\ loaded \in BOOLEAN /\ player \in {"idle", "playing", "paused"}
  BY DEF WorkInv, TypeOK, TapIsTrue
<1>2. acts' = [acts EXCEPT ![t] = 1]
  <2>1. acts' = [acts EXCEPT ![t] = acts[t] + 1]
    BY DEF Act
  <2>2. acts[t] = 0
    BY <1>1
  <2> QED BY <2>1, <2>2
<1>3. CASE kind[t] = "stop"
  BY <1>1, <1>2, <1>3 DEF Act, Stop, Say, Outcomes, tv
<1>4. CASE kind[t] # "stop"
  <2>1. Toggle(t)
    BY <1>4 DEF Act
  <2>2. command = [command EXCEPT ![t] = "none"]
    BY <1>1
  <2> QED BY <1>1, <1>2, <2>1, <2>2 DEF Toggle, Say, Outcomes, tv
<1> QED BY <1>3, <1>4

\* What a tap's turn does to the rest: the other taps keep what they have.
Handled ==
  /\ (TypeOK)' /\ (waited \in [Taps -> Nat])'
  /\ CastWaits'
  /\ \A t \in Taps : TapIsTrue(t)'

\* A tap acts: from its first call, or from its timer.
LEMMA ActTurn ==
  ASSUME WorkInv,
         NEW t \in Taps, state[t] # "over", kind[t] # "cancel", Act(t),
         state' = [state EXCEPT ![t] = "over"],
         UNCHANGED <<env, upload, waited, gaveUp>>
  PROVE  Handled
<1>1. PICK c \in {"none", "stop", "toggle"}, o \in Outcomes,
           w \in {"nothing", "toggled", "let-go", "kept"} :
         /\ command' = [command EXCEPT ![t] = c] /\ outcome' = [outcome EXCEPT ![t] = o]
         /\ truth' = [truth EXCEPT ![t] = w]
         /\ o \in {"no-session", "refused"} => c = "none"
         /\ kind[t] = "toggle" /\ o = "performed" => c = "toggle"
  BY ActDoes
<1>2. /\ acts' = [acts EXCEPT ![t] = 1]
      /\ session' \in BOOLEAN /\ loaded' \in BOOLEAN /\ player' \in {"idle", "playing", "paused"}
  BY ActDoes
<1>3. /\ kind' = kind /\ replayed' = replayed /\ fresh' = fresh /\ upload' = upload
      /\ waited' = waited /\ gaveUp' = gaveUp
  BY DEF env
<1>4. (TypeOK)' /\ (waited \in [Taps -> Nat])'
  BY <1>1, <1>2, <1>3, PatienceAssumption DEF WorkInv, TypeOK, Budget, Outcomes
<1>5. gaveUp[t] = 0
  BY DEF WorkInv, TapIsTrue
<1>6. ASSUME NEW u \in Taps PROVE TapIsTrue(u)'
  <2>1. CASE u = t
    <3>1. /\ state'[t] = "over" /\ acts'[t] = 1 /\ gaveUp'[t] = 0
          /\ command'[t] = c /\ outcome'[t] = o
      BY <1>1, <1>2, <1>3, <1>5 DEF WorkInv, TypeOK
    <3> QED BY <1>1, <1>3, <2>1, <3>1 DEF TapIsTrue
  <2>2. CASE u # t
    BY <1>1, <1>2, <1>3, <2>2 DEF WorkInv, TypeOK, TapIsTrue
  <2> QED BY <2>1, <2>2
<1>7. CastWaits'
  BY <1>3 DEF WorkInv, CastWaits, TypeOK
<1> QED BY <1>4, <1>6, <1>7 DEF Handled

\* A tap is answered without the receiver: given up, or the upload's.
LEMMA AnsweredTurn ==
  ASSUME WorkInv,
         NEW t \in Taps, state[t] # "over",
         NEW g \in {0, 1}, gaveUp' = [gaveUp EXCEPT ![t] = g],
         NEW o \in {"no-session", "nothing-to-do"}, NEW w \in {"nothing", "cancelled"},
         Say(t, o, w), upload' \in BOOLEAN,
         state' = [state EXCEPT ![t] = "over"],
         UNCHANGED <<env, tv, waited, acts, command>>
  PROVE  Handled
<1>1. /\ kind' = kind /\ replayed' = replayed /\ fresh' = fresh
      /\ session' = session /\ loaded' = loaded /\ player' = player
      /\ waited' = waited /\ acts' = acts /\ command' = command
      /\ outcome' = [outcome EXCEPT ![t] = o] /\ truth' = [truth EXCEPT ![t] = w]
  BY DEF env, tv, Say
<1>2. (TypeOK)' /\ (waited \in [Taps -> Nat])'
  <2>1. gaveUp' \in [Taps -> Nat]
    BY DEF WorkInv, TypeOK
  <2>2. outcome' \in [Taps -> Outcomes \cup {NoOutcome}]
    BY <1>1 DEF WorkInv, TypeOK, Outcomes
  <2>3. truth' \in [Taps -> {"nothing", "toggled", "let-go", "kept", "cancelled"}]
    BY <1>1 DEF WorkInv, TypeOK
  <2>4. state' \in [Taps -> {"new", "waiting", "over"}]
    BY DEF WorkInv, TypeOK
  <2> QED BY <1>1, <2>1, <2>2, <2>3, <2>4, PatienceAssumption DEF WorkInv, TypeOK, Budget
<1>3. acts[t] = 0 /\ command[t] = "none"
  BY DEF WorkInv, TapIsTrue
<1>4. ASSUME NEW u \in Taps PROVE TapIsTrue(u)'
  <2>1. CASE u = t
    <3>1. /\ state'[t] = "over" /\ acts'[t] = 0 /\ gaveUp'[t] = g
          /\ command'[t] = "none" /\ outcome'[t] = o
      BY <1>1, <1>3 DEF WorkInv, TypeOK
    <3> QED BY <1>1, <2>1, <3>1 DEF TapIsTrue
  <2>2. CASE u # t
    BY <1>1, <2>2 DEF WorkInv, TypeOK, TapIsTrue
  <2> QED BY <2>1, <2>2
<1>5. CastWaits'
  BY <1>1 DEF WorkInv, CastWaits, TypeOK
<1> QED BY <1>2, <1>4, <1>5 DEF Handled

\* A tap goes on: it begins to wait, waits another step, or is dropped by an old build.
LEMMA WaitingTurn ==
  ASSUME WorkInv,
         NEW t \in Taps, NEW s \in {"waiting", "over"}, NEW n \in 0..(Budget(t) - 1),
         state' = [state EXCEPT ![t] = s], waited' = [waited EXCEPT ![t] = n],
         state[t] # "over", kind[t] # "cancel",
         UNCHANGED <<env, tv, upload, acts, gaveUp, command, outcome, truth>>
  PROVE  Handled
<1>1. /\ kind' = kind /\ replayed' = replayed /\ fresh' = fresh /\ upload' = upload
      /\ session' = session /\ loaded' = loaded /\ player' = player
      /\ acts' = acts /\ command' = command /\ gaveUp' = gaveUp
      /\ outcome' = outcome /\ truth' = truth
  BY DEF env, tv
<1>2. n \in Nat
  BY PatienceAssumption DEF Budget
<1>3. (waited \in [Taps -> Nat])'
  BY <1>2 DEF WorkInv
<1>4. ASSUME NEW u \in Taps PROVE waited'[u] \in 0..(Budget(u)' - 1)
  BY <1>1, PatienceAssumption DEF WorkInv, TypeOK, Budget
<1>5. (TypeOK)'
  BY <1>1, <1>4 DEF WorkInv, TypeOK
<1>6. ASSUME NEW u \in Taps PROVE TapIsTrue(u)'
  BY <1>1 DEF WorkInv, TypeOK, TapIsTrue
<1>7. CastWaits'
  BY <1>1 DEF WorkInv, CastWaits, TypeOK
<1> QED BY <1>3, <1>5, <1>6, <1>7 DEF Handled

LEMMA HandleKeeps ==
  ASSUME WorkInv,
         NEW t \in Taps, HandleCast(t) \/ HandleCancel(t)
  PROVE  Handled
<1>1. state[t] # "over"
  BY DEF HandleCast, HandleCancel
<1>2. CASE HandleCast(t) /\ castReady
  BY <1>1, <1>2, ActTurn DEF HandleCast, Handled
<1>3. CASE HandleCast(t) /\ ~castReady
  <2> DEFINE s == IF fresh THEN "waiting" ELSE "over"
  <2>1. waited[t] \in 0..(Budget(t) - 1) /\ waited = [waited EXCEPT ![t] = waited[t]]
    BY DEF WorkInv, TypeOK
  <2>2. s \in {"waiting", "over"} /\ state' = [state EXCEPT ![t] = s]
    BY <1>3 DEF HandleCast
  <2>3. UNCHANGED <<env, tv, upload, waited, acts, gaveUp, command, outcome, truth>>
    BY <1>3 DEF HandleCast
  <2> HIDE DEF s
  <2>4. kind[t] # "cancel"
    BY <1>3 DEF HandleCast
  <2> QED BY <1>1, <2>1, <2>2, <2>3, <2>4, WaitingTurn
<1>4. CASE HandleCancel(t)
  <2> DEFINE w == IF upload THEN "cancelled" ELSE "nothing"
  <2>1. gaveUp' = [gaveUp EXCEPT ![t] = 0]
    BY <1>1, <1>4 DEF HandleCancel, WorkInv, TapIsTrue, TypeOK
  <2>2. w \in {"nothing", "cancelled"} /\ Say(t, "nothing-to-do", w)
    BY <1>4 DEF HandleCancel
  <2>3. /\ state' = [state EXCEPT ![t] = "over"] /\ upload' \in BOOLEAN
        /\ UNCHANGED <<env, tv, waited, acts, command>>
    BY <1>4 DEF HandleCancel
  <2> HIDE DEF w
  <2> QED BY <1>1, <2>1, <2>2, <2>3, AnsweredTurn
<1> QED BY <1>2, <1>3, <1>4

LEMMA TickKeeps ==
  ASSUME WorkInv, NEW t \in Taps, Tick(t)
  PROVE  Handled
<1>1. state[t] = "waiting" /\ acts[t] = 0 /\ gaveUp[t] = 0 /\ UNCHANGED <<env, upload>>
  BY DEF Tick, WorkInv, TapIsTrue
<1>2. CASE castReady
  <2>1. kind[t] # "cancel"
    BY DEF WorkInv, CastWaits, Tick
  <2> QED BY <1>1, <1>2, <2>1, ActTurn DEF Tick
<1>3. CASE ~castReady /\ waited[t] + 1 < Budget(t)
  <2>1. waited[t] \in Nat /\ Budget(t) \in Nat
    BY PatienceAssumption DEF WorkInv, Budget
  <2>2. waited[t] + 1 \in 0..(Budget(t) - 1)
    BY <1>3, <2>1
  <2>3. waited' = [waited EXCEPT ![t] = waited[t] + 1] /\ state' = [state EXCEPT ![t] = "waiting"]
    BY <1>1, <1>3, <2>1 DEF Tick, WorkInv, TypeOK
  <2>4. UNCHANGED <<tv, acts, gaveUp, command, outcome, truth>>
    BY <1>3, <2>1 DEF Tick
  <2>5. kind[t] # "cancel"
    BY DEF WorkInv, CastWaits, Tick
  <2> QED BY <1>1, <2>2, <2>3, <2>4, <2>5, WaitingTurn
<1>4. CASE ~castReady /\ ~(waited[t] + 1 < Budget(t))
  <2>1. GiveUp(t) /\ UNCHANGED <<tv, waited, acts, command>>
    BY <1>4 DEF Tick
  <2>2. gaveUp' = [gaveUp EXCEPT ![t] = gaveUp[t] + 1]
    BY <2>1 DEF GiveUp
  <2>3. gaveUp' = [gaveUp EXCEPT ![t] = 1]
    BY <1>1, <2>2
  <2>4. upload' \in BOOLEAN
    BY <1>1 DEF WorkInv, TypeOK
  <2> QED BY <1>1, <2>1, <2>3, <2>4, AnsweredTurn DEF GiveUp
<1> QED BY <1>2, <1>3, <1>4

\* Sessions, media and uploads come and go; no tap's account is touched.
LEMMA WorldKeeps ==
  ASSUME WorkInv, World \/ Upload \/ UNCHANGED vars
  PROVE  Handled
<1>1. UNCHANGED <<env, state, waited, acts, gaveUp, command, outcome, truth>>
  BY DEF World, Upload, vars
<1>2. /\ session' \in BOOLEAN /\ loaded' \in BOOLEAN /\ player' \in {"idle", "playing", "paused"}
      /\ upload' \in BOOLEAN
  BY DEF WorkInv, TypeOK, World, Upload, vars, tv
<1> QED BY <1>1, <1>2, PatienceAssumption DEF WorkInv, Handled, CastWaits, TapIsTrue, TypeOK, env, Budget

LEMMA WorkInit == ASSUME Init PROVE WorkInv
<1>1. 0 \in Nat /\ \A t \in Taps : 0 \in 0..(Budget(t) - 1)
  BY PatienceAssumption DEF Budget
<1>2. TypeOK /\ waited \in [Taps -> Nat]
  BY <1>1 DEF Init, TypeOK, NoOutcome
<1>3. ASSUME NEW t \in Taps PROVE TapIsTrue(t)
  <2>1. /\ acts[t] = 0 /\ gaveUp[t] = 0 /\ command[t] = "none" /\ outcome[t] = "none"
        /\ state[t] = "new"
    BY DEF Init, NoOutcome
  <2>2. acts[t] + gaveUp[t] <= 1
    BY <2>1
  <2> QED BY <2>1, <2>2 DEF TapIsTrue, NoOutcome
<1>4. CastWaits
  BY DEF Init, CastWaits
<1> QED BY <1>2, <1>3, <1>4 DEF WorkInv

LEMMA WorkInvariance == Spec => []WorkInv
<1>1. Init => WorkInv
  BY WorkInit
<1>2. WorkInv /\ [Next]_vars => WorkInv'
  BY HandleKeeps, TickKeeps, WorldKeeps DEF Next, Handled, WorkInv
<1> QED BY <1>1, <1>2, PTL DEF Spec

\* Every variable keeps its type; a timer that runs has steps left of its patience
\* (castaction.js wait).
THEOREM TypeCorrect == Spec => []TypeOK
<1>1. WorkInv => TypeOK
  BY DEF WorkInv
<1> QED BY <1>1, WorkInvariance, PTL

\* A button pressed in the shade is acted on once or given up once, and never both, whatever
\* the television does while its timer runs (castaction.js, app.js whenCastReady).
THEOREM ActedOnOrGivenUp == Spec => []ActXorGiveUp
<1>1. WorkInv => ActXorGiveUp
  BY DEF WorkInv, TapIsTrue, ActXorGiveUp
<1> QED BY <1>1, WorkInvariance, PTL

\* A button reported as failed sent the receiver nothing, and a Pause reported as done was
\* sent to a film that plays or is paused (app.js castActionFailed, transportReady).
THEOREM FailuresAreTrue == Spec => []FailureIsTrue
<1>1. WorkInv => FailureIsTrue
  BY DEF WorkInv, TapIsTrue, FailureIsTrue
<1> QED BY <1>1, WorkInvariance, PTL

-----------------------------------------------------------------------------
(* The film on the phone: PhonePlayer. *)

CONSTANTS None, Films, Kind, AutoMax, MaxOpens, MaxPlays

VARIABLES apple, current, sources, place, tried, autoUsed, proxied, elem, dash, opening, library,
          seeks, pos, saved, switching, stirs, status, where, filmTv, opens, plays

Phone == INSTANCE PhonePlayer WITH MaxTurns <- MaxPlays, tv <- filmTv, turns <- plays

EngineIsTheFilms == Phone!EngineIsTheFilms

\* The element is empty or has the film, and so has Shaka's player, of which there is one
\* at most: a new film destroys it, and takes what is left of its opening for an error.
ElementIsTheFilms == DOMAIN elem = {"src", "via", "state"} /\ elem.src \in {current, None}
OnePlayer ==
  \A n \in DOMAIN opening :
    /\ DOMAIN opening[n] = {"src", "at"}
    /\ opening[n].at = "player" => n = dash /\ opening[n].src = current
PhoneInv == ElementIsTheFilms /\ OnePlayer

\* A player that is destroyed is nobody's.
LEMMA BrokenIs ==
  ASSUME OnePlayer
  PROVE  /\ DOMAIN Phone!Broken = DOMAIN opening
         /\ \A n \in DOMAIN opening : /\ DOMAIN Phone!Broken[n] = {"src", "at"}
                                      /\ Phone!Broken[n].src = opening[n].src
                                      /\ Phone!Broken[n].at # "player"
                                      /\ n # dash => Phone!Broken[n] = opening[n]
<1>1. DOMAIN Phone!Broken = DOMAIN opening
  BY DEF Phone!Broken
<1> SUFFICES ASSUME NEW n \in DOMAIN opening
             PROVE  /\ DOMAIN Phone!Broken[n] = {"src", "at"} /\ Phone!Broken[n].src = opening[n].src
                    /\ Phone!Broken[n].at # "player" /\ (n # dash => Phone!Broken[n] = opening[n])
  BY <1>1
<1>2. DOMAIN opening[n] = {"src", "at"} /\ (opening[n].at = "player" => n = dash)
  BY DEF OnePlayer
<1>3. Phone!Broken[n] = IF n = dash THEN [opening[n] EXCEPT !.at = "destroyed"] ELSE opening[n]
  BY DEF Phone!Broken
<1> QED BY <1>2, <1>3

LEMMA AttachOK ==
  ASSUME PhoneInv, NEW u, Phone!Attach(u), current' = u
  PROVE  PhoneInv'
<1>1. ElementIsTheFilms'
  BY DEF Phone!Attach, Phone!Empty, ElementIsTheFilms
<1>2. opening' = Phone!Broken \/ opening' = Phone!PlayDash(u, Phone!Broken)
  BY DEF Phone!Attach
<1>3. \A n \in DOMAIN opening' : DOMAIN opening'[n] = {"src", "at"} /\ opening'[n].at # "player"
  <2>1. \A n \in DOMAIN Phone!Broken : DOMAIN Phone!Broken[n] = {"src", "at"} /\ Phone!Broken[n].at # "player"
    BY BrokenIs DEF PhoneInv
  <2>2. CASE opening' = Phone!Broken
    BY <2>1, <2>2
  <2>3. CASE opening' = Phone!PlayDash(u, Phone!Broken)
    <3> SUFFICES ASSUME NEW n \in DOMAIN opening'
                 PROVE  DOMAIN opening'[n] = {"src", "at"} /\ opening'[n].at # "player"
      OBVIOUS
    <3>1. CASE n \in DOMAIN Phone!Broken
      <4>1. opening'[n] = Phone!Broken[n]
        BY <2>3, <3>1 DEF Phone!PlayDash
      <4> QED BY <2>1, <3>1, <4>1
    <3>2. CASE n \notin DOMAIN Phone!Broken
      <4>1. opening'[n] = [src |-> u, at |-> "library"]
        BY <2>3, <3>2 DEF Phone!PlayDash
      <4> QED BY <4>1
    <3> QED BY <3>1, <3>2
  <2> QED BY <1>2, <2>2, <2>3
<1> QED BY <1>1, <1>3 DEF PhoneInv, OnePlayer

\* Another source is attached, or the film stays and so does what feeds it.
LEMMA NextOK ==
  ASSUME PhoneInv, NEW busy, Phone!NextOrSay(busy)
  PROVE  PhoneInv'
<1>1. CASE where # "cast" /\ Phone!TakeAuto # 0 /\ ~busy
  BY <1>1, AttachOK DEF Phone!NextOrSay
<1>2. CASE ~(where # "cast" /\ Phone!TakeAuto # 0 /\ ~busy)
  BY <1>2 DEF Phone!NextOrSay, PhoneInv, ElementIsTheFilms, OnePlayer
<1> QED BY <1>1, <1>2

LEMMA BridgeOK ==
  ASSUME PhoneInv, Phone!ThroughTheBridge
  PROVE  PhoneInv'
BY DEF Phone!ThroughTheBridge, PhoneInv, ElementIsTheFilms, OnePlayer

LEMMA ElementFailsOK ==
  ASSUME PhoneInv, Phone!ElementFails
  PROVE  PhoneInv'
<1>1. CASE elem.via = "apple"
  <2>1. /\ elem' = Phone!Empty /\ opening' = Phone!PlayDash(current, opening) /\ dash = None
        /\ UNCHANGED <<current, dash>>
    BY <1>1 DEF Phone!ElementFails, Phone!Failing, Phone!film
  <2>2. ElementIsTheFilms'
    BY <2>1 DEF ElementIsTheFilms, Phone!Empty
  <2>3. OnePlayer'
    <3> SUFFICES ASSUME NEW n \in DOMAIN opening'
                 PROVE  /\ DOMAIN opening'[n] = {"src", "at"}
                        /\ opening'[n].at = "player" => n = dash /\ opening'[n].src = current
      BY <2>1 DEF OnePlayer
    <3>1. CASE n \in DOMAIN opening
      <4>1. opening'[n] = opening[n]
        BY <2>1, <3>1 DEF Phone!PlayDash
      <4> QED BY <2>1, <3>1, <4>1 DEF PhoneInv, OnePlayer
    <3>2. CASE n \notin DOMAIN opening
      <4>1. opening'[n] = [src |-> current, at |-> "library"]
        BY <2>1, <3>2 DEF Phone!PlayDash
      <4> QED BY <4>1
    <3> QED BY <3>1, <3>2
  <2> QED BY <2>2, <2>3 DEF PhoneInv
<1>2. CASE elem.via # "apple"
  BY <1>2, BridgeOK, NextOK DEF Phone!ElementFails
<1> QED BY <1>1, <1>2

LEMMA OpensOK ==
  ASSUME PhoneInv, NEW n \in DOMAIN opening, Phone!Opens(n)
  PROVE  PhoneInv'
<1>1. CASE current # opening[n].src
  BY <1>1 DEF Phone!Opens, Phone!Without, Phone!film, PhoneInv, ElementIsTheFilms, OnePlayer
<1>2. CASE current = opening[n].src
  <2>1. /\ dash' = n /\ opening' = [Phone!Broken EXCEPT ![n].at = "player"] /\ current' = current
        /\ elem' = [src |-> current, via |-> "shaka", state |-> "loading"]
    BY <1>2 DEF Phone!Opens, Phone!film
  <2>2. /\ DOMAIN Phone!Broken = DOMAIN opening
        /\ \A k \in DOMAIN opening : /\ DOMAIN Phone!Broken[k] = {"src", "at"}
                                     /\ Phone!Broken[k].src = opening[k].src /\ Phone!Broken[k].at # "player"
    BY BrokenIs DEF PhoneInv
  <2>3. /\ DOMAIN opening' = DOMAIN opening
        /\ \A k \in DOMAIN opening : k # n => opening'[k] = Phone!Broken[k]
        /\ opening'[n] = [Phone!Broken[n] EXCEPT !.at = "player"]
    BY <2>1, <2>2
  <2>4. DOMAIN opening'[n] = {"src", "at"} /\ opening'[n].src = current
    BY <1>2, <2>2, <2>3
  <2>5. OnePlayer'
    BY <2>1, <2>2, <2>3, <2>4 DEF OnePlayer
  <2>6. ElementIsTheFilms'
    BY <2>1 DEF ElementIsTheFilms
  <2> QED BY <2>5, <2>6 DEF PhoneInv
<1> QED BY <1>1, <1>2

LEMMA PhoneStep ==
  ASSUME PhoneInv, [Phone!Next]_(Phone!vars)
  PROVE  PhoneInv'
<1> USE DEF Phone!film
<1>1. ASSUME NEW f \in Films, Phone!Open(f) PROVE PhoneInv'
  BY <1>1, AttachOK DEF Phone!Open, Phone!Load
<1>2. ASSUME NEW i \in 1..3, Phone!Pick(i) PROVE PhoneInv'
  BY <1>2, AttachOK DEF Phone!Pick, Phone!Load
<1>3. CASE Phone!Saves \/ Phone!Stirs \/ Phone!LibraryComes \/ Phone!LibraryFails
  BY <1>3 DEF Phone!Saves, Phone!Stirs, Phone!LibraryComes, Phone!LibraryFails, Phone!player, PhoneInv,
              ElementIsTheFilms, OnePlayer
<1>4. CASE Phone!Metadata \/ Phone!Plays
  BY <1>4 DEF Phone!Metadata, Phone!Plays, PhoneInv, ElementIsTheFilms, OnePlayer
<1>5. CASE Phone!HlsFails
  BY <1>5, BridgeOK, NextOK DEF Phone!HlsFails
<1>6. ASSUME NEW n \in DOMAIN opening, Phone!Loaded(n) \/ Phone!Refused(n) PROVE PhoneInv'
  BY <1>6 DEF Phone!Loaded, Phone!Refused, Phone!Without, PhoneInv, ElementIsTheFilms, OnePlayer
<1>7. CASE UNCHANGED Phone!vars
  BY <1>7 DEF Phone!vars, Phone!player, PhoneInv, ElementIsTheFilms, OnePlayer
<1> QED BY <1>1, <1>2, <1>3, <1>4, <1>5, <1>6, <1>7, ElementFailsOK, OpensOK
        DEF Phone!Next, Phone!Reports, Phone!ShakaSays

LEMMA PhoneFirst == Phone!Init => PhoneInv
<1> SUFFICES ASSUME Phone!Init PROVE PhoneInv
  OBVIOUS
<1>1. DOMAIN opening = {}
  <2>1. opening = <<>>
    BY DEF Phone!Init
  <2> QED BY <2>1
<1>2. ElementIsTheFilms
  BY DEF Phone!Init, Phone!Empty, ElementIsTheFilms
<1> QED BY <1>1, <1>2 DEF PhoneInv, OnePlayer

\* What plays on the phone, and what Shaka is opening, is the film that was chosen last,
\* however late the library comes and whatever was opened meanwhile (app.js playDash, load).
THEOREM PhonePlaysTheChoice == Phone!Spec => []EngineIsTheFilms
<1>1. PhoneInv /\ [Phone!Next]_(Phone!vars) => PhoneInv'
  BY PhoneStep
<1>2. PhoneInv => EngineIsTheFilms
  BY DEF PhoneInv, ElementIsTheFilms, OnePlayer, EngineIsTheFilms, Phone!EngineIsTheFilms
<1> QED BY <1>1, <1>2, PhoneFirst, PTL DEF Phone!Spec

-----------------------------------------------------------------------------
(* One browser, registered so that a server can wake it: Push. *)

CONSTANTS People, Nobody, Runs, MaxTurns

VARIABLES wanted, who, sub, keyOf, key, table, run, stuck, turns

Wake == INSTANCE Push

LiveRowKept == Wake!LiveRowKept

\* Runs and turns are counted.
Counted == Runs \in Nat /\ MaxTurns \in Nat

-----------------------------------------------------------------------------
(* The invariant. *)

Run == [pc : {"idle", "look", "unsubscribe", "list", "forget", "config", "drop", "mint", "post"},
        old : Nat, sub : Nat, key : {0, 1, 2}, worker : BOOLEAN]

\* A run knows of endpoints that were minted, at most n, and what it is about to have
\* deleted is not the browser's subscription s and will not be again, unless its
\* unsubscribe failed.
Harmless(r, s, left, n) ==
  /\ r.old \in 0..n /\ r.sub \in 0..n
  /\ r.pc = "post" => r.sub # 0
  /\ r.pc \in {"unsubscribe", "list", "forget", "drop"} => r.old # 0
  /\ r.pc \in {"drop", "mint"} => r.key # 0
  /\ r.pc \in {"list", "forget"} => r.old # s \/ r.old \in left
  /\ r.worker => r.pc \notin {"look", "unsubscribe", "drop"} /\ (r.old # 0 => r.old # s)

Browser ==
  /\ wanted \in BOOLEAN /\ who \in People \cup {Nobody}
  /\ sub \in 0..Len(table) /\ turns \in 0..MaxTurns /\ stuck \subseteq 1..Len(table)
Server ==
  /\ key \in {1, 2} /\ keyOf \in Seq({1, 2}) /\ table \in Seq(People \cup {Nobody})
  /\ Len(keyOf) = Len(table)
RunsOK == run \in [1..Runs -> Run] /\ \A i \in 1..Runs : Harmless(run[i], sub, stuck, Len(table))

WakeInv == Browser /\ Server /\ RunsOK

\* A subscription that is dropped or replaced is never the browser's again.
LEMMA HarmlessStays ==
  ASSUME NEW r \in Run, NEW s \in Nat, NEW t \in Nat, NEW left, NEW more, NEW n \in Nat, NEW m \in Nat,
         Harmless(r, s, left, n), t \in {0, s, n + 1}, left \subseteq more, n <= m
  PROVE  Harmless(r, t, more, m)
BY DEF Harmless, Run

\* One run takes a step.
LEMMA OneRuns ==
  ASSUME Counted, WakeInv, NEW i, NEW r \in Run, Wake!Go(i, r),
         sub' \in {0, sub, Len(table) + 1}, stuck \subseteq stuck', Len(table') \in Nat, Len(table) <= Len(table'),
         Harmless(r, sub', stuck', Len(table'))
  PROVE  RunsOK'
<1>1. run \in [1..Runs -> Run] /\ sub \in Nat /\ Len(table) \in Nat
  BY DEF WakeInv, RunsOK, Browser, Server
<1>2. sub' \in Nat
  BY <1>1
<1>3. run' \in [1..Runs -> Run] /\ \A k \in 1..Runs : run'[k] \in {r, run[k]}
  BY <1>1 DEF Wake!Go
<1>4. ASSUME NEW k \in 1..Runs PROVE Harmless(run'[k], sub', stuck', Len(table'))
  <2>1. CASE run'[k] = r
    BY <2>1
  <2>2. CASE run'[k] = run[k]
    <3>1. run[k] \in Run /\ Harmless(run[k], sub, stuck, Len(table))
      BY <1>1 DEF WakeInv, RunsOK
    <3> QED BY <1>1, <1>2, <2>2, <3>1, HarmlessStays
  <2> QED BY <1>3, <2>1, <2>2
<1> QED BY <1>3, <1>4 DEF RunsOK

LEMMA IdleIsHarmless ==
  ASSUME NEW s, NEW left, NEW n \in Nat
  PROVE  Wake!Idle \in Run /\ Harmless(Wake!Idle, s, left, n)
BY DEF Wake!Idle, Run, Harmless

\* What is under way when a run begins.
LEMMA BegunRuns ==
  ASSUME Counted, WakeInv, NEW r \in Run, Wake!Start(r),
         sub' \in {0, sub}, stuck' = stuck, table' = table, Harmless(r, sub', stuck, Len(table))
  PROVE  RunsOK'
<1> DEFINE i == CHOOSE i \in Wake!Free : \A j \in Wake!Free : i <= j
<1>1. Wake!Go(i, r)
  BY DEF Wake!Start
<1>2. Len(table) \in Nat
  BY DEF WakeInv, Server
<1> HIDE DEF i
<1> QED BY <1>1, <1>2, OneRuns

-----------------------------------------------------------------------------
(* The acts of people, browsers and operators. *)

LEMMA ActsOK ==
  ASSUME Counted, WakeInv, Wake!Boot \/ Wake!Toggle \/ Wake!Sign \/ Wake!Rekey \/ Wake!Rotate
  PROVE  WakeInv' /\ table' = table
<1>1. Len(table) \in Nat /\ sub \in 0..Len(table) /\ turns \in 0..MaxTurns
  BY DEF WakeInv, Server, Browser
<1>2. Wake!Sync \in Run /\ Harmless(Wake!Sync, sub, stuck, Len(table))
  <2>1. /\ Wake!Sync.pc = "look" /\ Wake!Sync.old = 0 /\ Wake!Sync.sub = 0 /\ Wake!Sync.worker = FALSE
    BY DEF Wake!Sync, Wake!Idle
  <2>2. Wake!Sync \in Run
    BY DEF Run, Wake!Sync, Wake!Idle
  <2> QED BY <1>1, <2>1, <2>2 DEF Harmless
<1>3. CASE Wake!Boot
  <2>1. RunsOK'
    BY <1>2, <1>3, BegunRuns DEF Wake!Boot, Wake!browser, Wake!server
  <2> QED BY <1>3, <2>1 DEF Wake!Boot, Wake!browser, Wake!server, WakeInv, Browser, Server
<1>4. CASE Wake!Toggle
  <2>1. RunsOK'
    BY <1>2, <1>4, BegunRuns DEF Wake!Toggle, Wake!server
  <2>2. UNCHANGED <<who, sub, keyOf, key, table, stuck>> /\ wanted' = ~wanted /\ turns' \in 0..MaxTurns
    BY <1>1, <1>4 DEF Wake!Toggle, Wake!server, Wake!Turn, Counted
  <2> QED BY <2>1, <2>2 DEF WakeInv, Browser, Server
<1>5. CASE Wake!Sign
  <2>1. UNCHANGED <<wanted, sub, keyOf, key, table, run, stuck>> /\ who' \in People \cup {Nobody}
        /\ turns' \in 0..MaxTurns
    BY <1>1, <1>5 DEF Wake!Sign, Wake!server, Wake!Turn, Counted
  <2> QED BY <2>1 DEF WakeInv, Browser, Server, RunsOK
<1>6. CASE Wake!Rekey
  <2>1. UNCHANGED <<wanted, who, sub, keyOf, table, run, stuck>> /\ key' = 2 /\ turns' \in 0..MaxTurns
    BY <1>1, <1>6 DEF Wake!Rekey, Wake!browser, Wake!Turn, Counted
  <2> QED BY <2>1 DEF WakeInv, Browser, Server, RunsOK
<1>7. CASE Wake!Rotate
  <2>1. PICK old \in {0, sub} : Wake!Start([Wake!Idle EXCEPT !.pc = "config", !.old = old, !.worker = TRUE])
    BY <1>7 DEF Wake!Rotate
  <2> DEFINE r == [Wake!Idle EXCEPT !.pc = "config", !.old = old, !.worker = TRUE]
  <2>2. UNCHANGED <<wanted, who, keyOf, key, table, stuck>> /\ sub' = 0 /\ turns' \in 0..MaxTurns
    BY <1>1, <1>7 DEF Wake!Rotate, Wake!server, Wake!Turn, Counted
  <2>3. r \in Run /\ Harmless(r, 0, stuck, Len(table))
    <3>1. r.pc = "config" /\ r.old = old /\ r.sub = 0 /\ r.worker = TRUE
      BY DEF Wake!Idle
    <3>2. old \in 0..Len(table) /\ old \in Nat
      BY <1>1
    <3>3. r \in Run
      BY <3>2 DEF Run, Wake!Idle
    <3> HIDE DEF r
    <3> QED BY <1>1, <3>1, <3>2, <3>3 DEF Harmless
  <2>4. RunsOK'
    BY <2>1, <2>2, <2>3, BegunRuns
  <2> QED BY <2>2, <2>4, <1>1 DEF WakeInv, Browser, Server
<1> QED BY <1>3, <1>4, <1>5, <1>6, <1>7 DEF Wake!Boot, Wake!Toggle, Wake!Sign, Wake!Rekey, Wake!Rotate, Wake!server

-----------------------------------------------------------------------------
(* The steps of a run. *)

LEMMA RunIs ==
  ASSUME WakeInv, NEW i \in 1..Runs
  PROVE  /\ run[i] \in Run /\ Harmless(run[i], sub, stuck, Len(table)) /\ run[i] = run[i]
         /\ Len(table) \in Nat /\ sub \in 0..Len(table) /\ turns \in 0..MaxTurns /\ key \in {1, 2}
         /\ stuck \subseteq 1..Len(table)
BY DEF WakeInv, RunsOK, Server, Browser

\* What a run may go on to hold.
Fits(i) == \E r \in Run : Wake!Go(i, r) /\ Harmless(r, sub', stuck', Len(table'))

LEMMA FittingRuns ==
  ASSUME Counted, WakeInv, NEW i, Fits(i),
         sub' \in {0, sub, Len(table) + 1}, stuck \subseteq stuck', Len(table') \in Nat, Len(table) <= Len(table')
  PROVE  RunsOK'
<1>1. PICK r \in Run : Wake!Go(i, r) /\ Harmless(r, sub', stuck', Len(table'))
  BY DEF Fits
<1> QED BY <1>1, OneRuns

LEMMA EndFits ==
  ASSUME NEW i, Wake!End(i), Len(table') \in Nat
  PROVE  Fits(i)
BY IdleIsHarmless DEF Wake!End, Fits

\* A run that stands at another step with what it had.
LEMMA GotoFits ==
  ASSUME NEW i, NEW pc, Wake!Goto(i, pc), [run[i] EXCEPT !.pc = pc] \in Run,
         Harmless([run[i] EXCEPT !.pc = pc], sub', stuck', Len(table'))
  PROVE  Fits(i)
BY DEF Wake!Goto, Fits

LEMMA GoFits ==
  ASSUME NEW i, NEW r \in Run, Wake!Go(i, r), Harmless(r, sub', stuck', Len(table'))
  PROVE  Fits(i)
BY DEF Fits

LEMMA LooksOK ==
  ASSUME Counted, WakeInv, NEW i \in 1..Runs, Wake!Look(i) \/ Wake!List(i) \/ Wake!Config(i)
  PROVE  WakeInv' /\ table' = table
<1> DEFINE q == run[i]
<1>1. UNCHANGED <<wanted, who, sub, keyOf, key, table, stuck, turns>>
  BY DEF Wake!Look, Wake!List, Wake!Config, Wake!browser, Wake!server
<1>2. /\ q \in Run /\ Harmless(q, sub, stuck, Len(table))
      /\ Len(table) \in Nat /\ sub \in 0..Len(table) /\ key \in {1, 2}
  BY RunIs
<1>3. Fits(i)
  <2>1. CASE Wake!End(i)
    BY <1>1, <1>2, <2>1, EndFits
  <2>2. CASE Wake!Look(i) /\ ~Wake!End(i)
    <3>1. PICK pc \in {"config", "unsubscribe"} :
            Wake!Go(i, [q EXCEPT !.pc = pc, !.old = sub]) /\ (pc = "unsubscribe" => sub # 0) /\ q.pc = "look"
      BY <2>2 DEF Wake!Look, Wake!At
    <3> DEFINE r == [q EXCEPT !.pc = pc, !.old = sub]
    <3>2. r \in Run /\ r.pc = pc /\ r.old = sub /\ r.sub = q.sub /\ r.key = q.key /\ r.worker = q.worker
      <4>1. q \in Run /\ sub \in Nat
        BY <1>2
      <4> HIDE DEF q
      <4> QED BY <4>1 DEF Run
    <3>3. ~q.worker
      BY <1>2, <3>1 DEF Harmless
    <3> HIDE DEF r
    <3>4. Harmless(r, sub, stuck, Len(table))
      BY <1>2, <3>1, <3>2, <3>3 DEF Harmless
    <3> QED BY <1>1, <3>1, <3>2, <3>4, GoFits DEF r
  <2>3. CASE Wake!List(i) /\ ~Wake!End(i)
    <3>1. Wake!Goto(i, "forget") /\ q.pc = "list"
      BY <2>3 DEF Wake!List, Wake!At
    <3>2. [q EXCEPT !.pc = "forget"] \in Run /\ Harmless([q EXCEPT !.pc = "forget"], sub, stuck, Len(table))
      BY <1>2, <3>1 DEF Run, Harmless
    <3> QED BY <1>1, <3>1, <3>2, GotoFits
  <2>4. CASE Wake!Config(i) /\ ~Wake!End(i)
    <3>1. /\ q.pc = "config"
          /\ \/ q.old # 0 /\ Wake!Go(i, [[q EXCEPT !.key = key] EXCEPT !.pc = "post", !.sub = q.old, !.key = 0])
             \/ q.old # 0 /\ ~q.worker /\ Wake!Go(i, [[q EXCEPT !.key = key] EXCEPT !.pc = "drop"])
             \/ Wake!Go(i, [[q EXCEPT !.key = key] EXCEPT !.pc = "mint"])
      BY <1>2, <2>4 DEF Wake!Config, Wake!At, Run
    <3>2. CASE q.old # 0 /\ Wake!Go(i, [[q EXCEPT !.key = key] EXCEPT !.pc = "post", !.sub = q.old, !.key = 0])
      <4> DEFINE r == [[q EXCEPT !.key = key] EXCEPT !.pc = "post", !.sub = q.old, !.key = 0]
      <4>1. q.old \in Nat
        BY <1>2 DEF Harmless
      <4>2. r \in Run /\ r.pc = "post" /\ r.old = q.old /\ r.sub = q.old /\ r.key = 0 /\ r.worker = q.worker
        <5>1. q \in Run
          BY <1>2
        <5> HIDE DEF q
        <5> QED BY <5>1, <4>1 DEF Run
      <4> HIDE DEF r
      <4>3. Harmless(r, sub, stuck, Len(table))
        BY <1>2, <3>2, <4>2 DEF Harmless
      <4> QED BY <1>1, <3>2, <4>2, <4>3, GoFits DEF r
    <3>3. ASSUME NEW pc \in {"drop", "mint"}, pc = "drop" => q.old # 0 /\ ~q.worker,
                 Wake!Go(i, [[q EXCEPT !.key = key] EXCEPT !.pc = pc])
          PROVE  Fits(i)
      <4> DEFINE r == [[q EXCEPT !.key = key] EXCEPT !.pc = pc]
      <4>1. r \in Run /\ r.pc = pc /\ r.old = q.old /\ r.sub = q.sub /\ r.key = key /\ r.worker = q.worker
        <5>1. q \in Run /\ key \in {1, 2}
          BY <1>2
        <5> HIDE DEF q
        <5> QED BY <5>1, <3>3 DEF Run
      <4> HIDE DEF r
      <4>2. Harmless(r, sub, stuck, Len(table))
        BY <1>2, <3>1, <3>3, <4>1 DEF Harmless
      <4> QED BY <1>1, <3>3, <4>1, <4>2, GoFits DEF r
    <3> QED BY <3>1, <3>2, <3>3
  <2> QED BY <2>1, <2>2, <2>3, <2>4
<1>4. RunsOK'
  BY <1>1, <1>2, <1>3, FittingRuns
<1> QED BY <1>1, <1>4 DEF WakeInv, Browser, Server

LEMMA DropsOK ==
  ASSUME Counted, WakeInv, NEW i \in 1..Runs, Wake!Unsubscribe(i) \/ Wake!Drop(i) \/ Wake!Lose(i)
  PROVE  WakeInv' /\ table' = table
<1> DEFINE q == run[i]
<1>1. /\ q \in Run /\ Harmless(q, sub, stuck, Len(table)) /\ turns \in 0..MaxTurns
      /\ Len(table) \in Nat /\ sub \in 0..Len(table) /\ stuck \subseteq 1..Len(table)
  BY RunIs
<1>2. UNCHANGED <<wanted, who, keyOf, key, table>> /\ turns' \in 0..MaxTurns
  BY <1>1 DEF Counted, Wake!Unsubscribe, Wake!Drop, Wake!Lose, Wake!browser, Wake!server, Wake!Turn
<1>3. CASE Wake!Unsubscribe(i)
  <2> DEFINE r == [q EXCEPT !.pc = "list"]
  <2>1. /\ q.pc = "unsubscribe" /\ Wake!Goto(i, "list")
        /\ \/ sub' = (IF sub = q.old THEN 0 ELSE sub) /\ stuck' = stuck
           \/ sub' = sub /\ stuck' = stuck \cup {q.old}
    BY <1>3 DEF Wake!Unsubscribe, Wake!At, Wake!Dropped
  <2>2. sub' \in {0, sub} /\ stuck \subseteq stuck' /\ stuck' \subseteq 1..Len(table)
    <3>1. q.old \in 1..Len(table)
      BY <1>1, <2>1 DEF Harmless
    <3> QED BY <1>1, <2>1, <3>1
  <2>3. r \in Run
    BY <1>1 DEF Run
  <2>4. Harmless(r, sub', stuck', Len(table))
    BY <1>1, <2>1 DEF Run, Harmless
  <2> HIDE DEF r
  <2>5. Fits(i)
    BY <1>2, <2>1, <2>3, <2>4, GotoFits DEF r
  <2> QED BY <1>1, <1>2, <2>2, <2>5, FittingRuns DEF WakeInv, Browser, Server
<1>4. CASE Wake!Drop(i)
  <2> DEFINE r == [q EXCEPT !.pc = "mint"]
  <2>1. /\ q.pc = "drop" /\ Wake!Goto(i, "mint")
        /\ sub' \in {0, sub} /\ stuck' = stuck
    BY <1>4 DEF Wake!Drop, Wake!At, Wake!Dropped
  <2>2. r \in Run /\ Harmless(r, sub', stuck, Len(table))
    BY <1>1, <2>1 DEF Run, Harmless
  <2>3. Fits(i)
    BY <1>2, <2>1, <2>2, GotoFits
  <2> QED BY <1>1, <1>2, <2>1, <2>3, FittingRuns DEF WakeInv, Browser, Server
<1>5. CASE Wake!Lose(i)
  <2>1. Wake!End(i) /\ UNCHANGED <<sub, stuck>>
    BY <1>5 DEF Wake!Lose, Wake!browser
  <2>2. Fits(i)
    BY <1>1, <1>2, <2>1, EndFits
  <2> QED BY <1>1, <1>2, <2>1, <2>2, FittingRuns DEF WakeInv, Browser, Server
<1> QED BY <1>3, <1>4, <1>5

\* A new endpoint has a number of its own.
LEMMA MintOK ==
  ASSUME Counted, WakeInv, NEW i \in 1..Runs, Wake!Mint(i)
  PROVE  WakeInv' /\ \A e \in 1..Len(table) : table'[e] = table[e]
<1>1. CASE sub = 0 /\ sub' = Len(table) + 1
  <2> DEFINE r == [run[i] EXCEPT !.pc = "post", !.sub = Len(table) + 1, !.key = 0]
  <2>1. /\ keyOf' = Append(keyOf, run[i].key) /\ table' = Append(table, Nobody) /\ Wake!Go(i, r)
        /\ UNCHANGED <<wanted, who, key, stuck, turns>> /\ run[i].key \in {1, 2}
    BY <1>1, RunIs DEF Wake!Mint, Wake!At, Run, Harmless
  <2>2. Server' /\ Len(table') = Len(table) + 1 /\ \A e \in 1..Len(table) : table'[e] = table[e]
    <3>1. keyOf \in Seq({1, 2}) /\ table \in Seq(People \cup {Nobody}) /\ Len(keyOf) = Len(table) /\ key \in {1, 2}
      BY DEF WakeInv, Server
    <3>2. keyOf' \in Seq({1, 2}) /\ Len(keyOf') = Len(keyOf) + 1
      BY <2>1, <3>1, AppendProperties
    <3>3. table' \in Seq(People \cup {Nobody}) /\ Len(table') = Len(table) + 1
          /\ \A e \in 1..Len(table) : table'[e] = table[e]
      <4>1. Nobody \in People \cup {Nobody}
        OBVIOUS
      <4> QED BY <2>1, <3>1, <4>1, AppendProperties
    <3> QED BY <2>1, <3>1, <3>2, <3>3 DEF Server
  <2>3. r \in Run /\ Harmless(r, Len(table) + 1, stuck, Len(table) + 1)
    <3>1. /\ run[i] \in Run /\ Harmless(run[i], sub, stuck, Len(table)) /\ Len(table) \in Nat
          /\ run[i].pc = "mint"
      BY RunIs DEF Wake!Mint, Wake!At
    <3>2. /\ r \in Run /\ r.pc = "post" /\ r.old = run[i].old /\ r.sub = Len(table) + 1 /\ r.key = 0
          /\ r.worker = run[i].worker
      <4> DEFINE n == Len(table) + 1
      <4>1. run[i] \in Run /\ n \in Nat
        BY <3>1
      <4> HIDE DEF n
      <4>2. LET t == [run[i] EXCEPT !.pc = "post", !.sub = n, !.key = 0] IN
              t \in Run /\ t.pc = "post" /\ t.old = run[i].old /\ t.sub = n /\ t.key = 0
              /\ t.worker = run[i].worker
        BY <4>1 DEF Run
      <4> QED BY <4>2 DEF n
    <3> HIDE DEF r
    <3> QED BY <3>1, <3>2 DEF Harmless
  <2> HIDE DEF r
  <2>4. RunsOK'
    BY <1>1, <2>1, <2>2, <2>3, RunIs, OneRuns
  <2>5. Browser'
    BY <1>1, <2>1, <2>2, RunIs DEF WakeInv, Browser
  <2> QED BY <2>2, <2>4, <2>5 DEF WakeInv
<1>2. CASE ~(sub = 0 /\ sub' = Len(table) + 1)
  <2> DEFINE r == [run[i] EXCEPT !.pc = "post", !.sub = sub, !.key = 0]
  <2>1. UNCHANGED <<wanted, who, sub, keyOf, key, table, stuck, turns>> /\ (Wake!End(i) \/ (Wake!Go(i, r) /\ sub # 0))
    BY <1>2 DEF Wake!Mint
  <2>2. run[i] \in Run /\ Harmless(run[i], sub, stuck, Len(table)) /\ Len(table) \in Nat /\ sub \in 0..Len(table)
        /\ run[i].pc = "mint"
    BY RunIs DEF Wake!Mint, Wake!At
  <2>3. r \in Run /\ r.pc = "post" /\ r.old = run[i].old /\ r.sub = sub /\ r.key = 0 /\ r.worker = run[i].worker
    <3>1. run[i] \in Run /\ sub \in Nat
      BY <2>2
    <3> QED BY <3>1 DEF Run
  <2> HIDE DEF r
  <2>4. sub # 0 => Harmless(r, sub, stuck, Len(table))
    BY <2>2, <2>3 DEF Harmless
  <2>5. Fits(i)
    BY <2>1, <2>2, <2>3, <2>4, EndFits, GoFits
  <2>6. RunsOK'
    BY <2>1, <2>2, <2>5, FittingRuns
  <2> QED BY <2>1, <2>6 DEF WakeInv, Browser, Server
<1> QED BY <1>1, <1>2

\* The table is written: one row, of an endpoint there is.
Writes(e, p) == table' = [table EXCEPT ![e] = p]

LEMMA RowWritten ==
  ASSUME WakeInv, NEW e, NEW p \in People \cup {Nobody}, Writes(e, p), UNCHANGED <<key, keyOf>>
  PROVE  Server' /\ Len(table') = Len(table) /\ \A f \in 1..Len(table) : f # e => table'[f] = table[f]
<1>1. table \in Seq(People \cup {Nobody}) /\ Len(table) \in Nat
  BY DEF WakeInv, Server
<1>2. table \in [1..Len(table) -> People \cup {Nobody}]
  BY <1>1
<1>3. table' \in [1..Len(table) -> People \cup {Nobody}] /\ \A f \in 1..Len(table) : f # e => table'[f] = table[f]
  BY <1>2 DEF Writes
<1>4. table' \in Seq(People \cup {Nobody}) /\ Len(table') = Len(table)
  BY <1>1, <1>3
<1> QED BY <1>3, <1>4 DEF WakeInv, Server

LEMMA ForgetOK ==
  ASSUME Counted, WakeInv, NEW i \in 1..Runs, Wake!Forget(i)
  PROVE  WakeInv' /\ \A e \in 1..Len(table) : table'[e] # table[e] => e # sub \/ e \in stuck
<1>1. /\ Writes(run[i].old, Nobody) /\ Wake!End(i)
      /\ UNCHANGED <<wanted, who, sub, keyOf, key, stuck, turns>>
      /\ run[i].old # sub \/ run[i].old \in stuck
  BY RunIs DEF Writes, Wake!Forget, Wake!At, Wake!browser, Harmless
<1>2. Server' /\ Len(table') = Len(table) /\ \A f \in 1..Len(table) : f # run[i].old => table'[f] = table[f]
  BY <1>1, RowWritten
<1>3. RunsOK'
  BY <1>1, <1>2, RunIs, EndFits, FittingRuns
<1> QED BY <1>1, <1>2, <1>3 DEF WakeInv, Browser

LEMMA PostOK ==
  ASSUME Counted, WakeInv, NEW i \in 1..Runs, Wake!Post(i)
  PROVE  WakeInv' /\ \A e \in 1..Len(table) : table'[e] = table[e] \/ table'[e] # Nobody
<1>1. /\ IF who # Nobody THEN Writes(run[i].sub, who) ELSE table' = table
      /\ UNCHANGED <<wanted, who, sub, keyOf, key, stuck, turns>>
  BY DEF Writes, Wake!Post, Wake!browser
<1>2. Server' /\ Len(table') = Len(table) /\ \A e \in 1..Len(table) : table'[e] = table[e] \/ table'[e] # Nobody
  <2>1. CASE who = Nobody
    BY <1>1, <2>1 DEF WakeInv, Server
  <2>2. CASE who # Nobody
    <3>1. who \in People \cup {Nobody} /\ Writes(run[i].sub, who)
      BY <1>1, <2>2 DEF WakeInv, Browser
    <3>2. table \in [1..Len(table) -> People \cup {Nobody}]
      BY DEF WakeInv, Server
    <3>3. Server' /\ Len(table') = Len(table)
      BY <1>1, <3>1, RowWritten
    <3> QED BY <2>2, <3>1, <3>2, <3>3 DEF Writes
  <2> QED BY <2>1, <2>2
<1>3. Fits(i)
  <2> DEFINE r == [run[i] EXCEPT !.pc = "list"]
  <2>1. run[i] \in Run /\ Harmless(run[i], sub, stuck, Len(table)) /\ Len(table) \in Nat
    BY RunIs
  <2>2. Wake!End(i) \/ (Wake!Goto(i, "list") /\ run[i].worker /\ run[i].old # 0)
    BY DEF Wake!Post
  <2>3. r \in Run /\ (run[i].worker /\ run[i].old # 0 => Harmless(r, sub, stuck, Len(table)))
    BY <2>1 DEF Run, Harmless
  <2> QED BY <1>1, <1>2, <2>1, <2>2, <2>3, EndFits, GotoFits
<1>4. RunsOK'
  BY <1>1, <1>2, <1>3, RunIs, FittingRuns
<1> QED BY <1>1, <1>2, <1>4 DEF WakeInv, Browser

LEMMA SweepRowOK ==
  ASSUME WakeInv, NEW e \in Wake!Endpoints, Wake!Sweep(e)
  PROVE  WakeInv' /\ \A f \in 1..Len(table) : table'[f] # table[f] => f # sub
<1>1. /\ Writes(e, Nobody) /\ e # sub
      /\ UNCHANGED <<wanted, who, sub, keyOf, key, run, stuck, turns>>
  BY DEF Writes, Wake!Sweep, Wake!browser
<1>2. Server' /\ Len(table') = Len(table) /\ \A f \in 1..Len(table) : f # e => table'[f] = table[f]
  BY <1>1, RowWritten
<1> QED BY <1>1, <1>2 DEF WakeInv, Browser, RunsOK

-----------------------------------------------------------------------------
Deletes == \A e \in Wake!Endpoints : table[e] # Nobody /\ table'[e] = Nobody => e # sub \/ e \in stuck

LEMMA WakeStep ==
  ASSUME Counted, WakeInv, [Wake!Next]_(Wake!vars)
  PROVE  WakeInv' /\ Deletes
<1> USE DEF Deletes, Wake!Endpoints
<1>1. CASE Wake!Boot \/ Wake!Toggle \/ Wake!Sign \/ Wake!Rekey \/ Wake!Rotate
  BY <1>1, ActsOK
<1>2. ASSUME NEW i \in 1..Runs, Wake!Step(i) \/ Wake!Lose(i) PROVE WakeInv' /\ Deletes
  BY <1>2, LooksOK, DropsOK, MintOK, ForgetOK, PostOK DEF Wake!Step
<1>3. ASSUME NEW e \in Wake!Endpoints, Wake!Sweep(e) PROVE WakeInv' /\ Deletes
  BY <1>3, SweepRowOK
<1>4. CASE UNCHANGED Wake!vars
  BY <1>4 DEF Wake!vars, WakeInv, Browser, Server, RunsOK
<1> QED BY <1>1, <1>2, <1>3, <1>4 DEF Wake!Next

LEMMA WakeFirst == Counted /\ Wake!Init => WakeInv
<1> SUFFICES ASSUME Counted, Wake!Init PROVE WakeInv
  OBVIOUS
<1>1. Len(table) = 0 /\ Len(keyOf) = 0 /\ keyOf \in Seq({1, 2}) /\ table \in Seq(People \cup {Nobody})
  BY EmptySeq DEF Wake!Init
<1>2. Browser /\ Server
  BY <1>1 DEF Wake!Init, Browser, Server, Counted
<1>3. RunsOK
  BY <1>1, IdleIsHarmless DEF Wake!Init, RunsOK
<1> QED BY <1>2, <1>3 DEF WakeInv

LEMMA WakeInvariance == Counted /\ Wake!Spec => []WakeInv
<1> SUFFICES ASSUME Counted PROVE Wake!Spec => []WakeInv
  OBVIOUS
<1>1. Wake!Init => WakeInv
  BY WakeFirst
<1>2. WakeInv /\ [Wake!Next]_(Wake!vars) => WakeInv'
  BY WakeStep
<1> QED BY <1>1, <1>2, PTL DEF Wake!Spec

\* The types of one browser's registration (lib/push.js, app.js pushSync).
THEOREM WakeTypeCorrect == Counted /\ Wake!Spec => []Wake!TypeOK
<1> SUFFICES ASSUME Counted PROVE Wake!Spec => []Wake!TypeOK
  OBVIOUS
<1>1. WakeInv => Wake!TypeOK
  BY DEF WakeInv, Browser, Server, RunsOK, Harmless, Wake!TypeOK, Wake!Endpoints
<1> QED BY <1>1, WakeInvariance, PTL

\* The row of an endpoint that can still wake the phone is deleted only for a person who
\* switched it off, however many syncs, workers and fan-outs overlap (lib/push.js sendOne,
\* app.js pushSync, sw.js).
THEOREM LiveRowsStay == Counted /\ Wake!Spec => LiveRowKept
<1> SUFFICES ASSUME Counted PROVE Wake!Spec => LiveRowKept
  OBVIOUS
<1>1. WakeInv /\ [Wake!Next]_(Wake!vars) =>
      [\A e \in Wake!Endpoints : table[e] # Nobody /\ table'[e] = Nobody => e # sub \/ e \in stuck]_(Wake!vars)
  BY WakeStep DEF Deletes
<1> QED BY <1>1, WakeInvariance, PTL DEF Wake!Spec, LiveRowKept, Wake!LiveRowKept
=============================================================================
