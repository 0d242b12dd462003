---------------------------- MODULE TvPageProofs ----------------------------
(***************************************************************************)
(* The page of the television and the remote on the phone, for any number  *)
(* of films, rooms and codes: the bar and its keys (TvKeys), the player    *)
(* (TvPlayer), the life of the room (TvLife) and the remote (TvRemote).    *)
(* Each theorem is about one of them.                                      *)
(***************************************************************************)
EXTENDS Integers, Sequences, SequenceTheorems, TLAPS

CONSTANT None

-----------------------------------------------------------------------------
(* The bar and the keys: TvKeys. *)

VARIABLES film, playing, blocked, phone, bar, hiding, focus, full, unseen

Keys == INSTANCE TvKeys

FocusIsSeen  == Keys!FocusIsSeen
StillBarStays == Keys!StillBarStays

\* None is no control and no event.
Marker == None \notin Keys!InHud /\ None \notin {"playing", "pause"}

\* The focus is in a bar that is shown over a film; the countdown runs only over a film
\* that plays, or whose <video> has yet to say that it does not.
KeysInv ==
  /\ film \in BOOLEAN /\ playing \in BOOLEAN /\ bar \in BOOLEAN /\ hiding \in BOOLEAN
  /\ FocusIsSeen
  /\ hiding => playing \/ unseen # None
  /\ unseen # None => film

LEMMA ReleaseIsOutside == "release" \notin Keys!InHud /\ "kPlay" \in Keys!InHud
<1>1. (\A i \in DOMAIN Keys!KEYS : Keys!KEYS[i] # "release") /\ 2 \in DOMAIN Keys!KEYS /\ Keys!KEYS[2] = "kPlay"
  BY DEF Keys!KEYS
<1> QED BY <1>1 DEF Keys!InHud, Keys!ToSet

\* The bar is shown over a film, counted down if the film plays; or it is hidden, or is
\* left alone.
LEMMA ShowOver ==
  ASSUME Marker, KeysInv, film, NEW toPlay \in BOOLEAN,
         Keys!Show(toPlay, playing), UNCHANGED <<film, playing, unseen>>
  PROVE  KeysInv'
BY DEF Marker, KeysInv, FocusIsSeen, Keys!FocusIsSeen, Keys!Show

LEMMA HideKeeps ==
  ASSUME Marker, KeysInv, Keys!Hide, UNCHANGED <<film, playing, unseen>>
  PROVE  KeysInv'
BY DEF Marker, KeysInv, FocusIsSeen, Keys!FocusIsSeen, Keys!Hide

LEMMA StillKeeps ==
  ASSUME KeysInv, UNCHANGED <<film, playing, bar, hiding, focus, unseen>>
  PROVE  KeysInv'
BY DEF KeysInv, FocusIsSeen, Keys!FocusIsSeen

\* Toggle, Skip and Stop, from whichever key.
LEMMA ControlKeeps ==
  ASSUME Marker, KeysInv, film, Keys!Toggle \/ Keys!Skip \/ Keys!StopHere
  PROVE  KeysInv'
<1>1. CASE Keys!Toggle
  <2>1. /\ film' = film /\ playing' \in BOOLEAN /\ hiding' = playing' /\ bar' = TRUE
        /\ unseen' \in {unseen, "playing", "pause"}
    BY <1>1 DEF Keys!Toggle, Keys!Starts, Keys!Pauses, Keys!Show, KeysInv
  <2> QED BY <2>1 DEF KeysInv, FocusIsSeen, Keys!FocusIsSeen
<1>2. CASE Keys!Skip
  BY <1>2, ShowOver DEF Keys!Skip
<1>3. CASE Keys!StopHere
  BY <1>3, ReleaseIsOutside DEF Marker, Keys!StopHere, KeysInv, FocusIsSeen, Keys!FocusIsSeen
<1> QED BY <1>1, <1>2, <1>3

\* A key, whatever is on the screen.
LEMMA PressKeeps ==
  ASSUME Marker, KeysInv, NEW k \in Keys!Presses, Keys!Press(k)
  PROVE  KeysInv'
<1>1. CASE Keys!OnIdle(k)
  <2>1. UNCHANGED <<film, playing, bar, hiding, unseen>> /\ focus' \in {focus, "release"}
    BY <1>1 DEF Keys!OnIdle
  <2> QED BY <2>1, ReleaseIsOutside DEF KeysInv, FocusIsSeen, Keys!FocusIsSeen
<1>2. CASE Keys!OnMedia(k)
  BY <1>2, ControlKeeps DEF Keys!OnMedia
<1>3. CASE Keys!OnHidden(k)
  <2>1. film
    BY <1>3 DEF Keys!OnHidden
  <2>2. CASE Keys!Skip
    BY <2>1, <2>2, ControlKeeps
  <2>3. CASE Keys!Show(TRUE, playing) /\ UNCHANGED <<film, playing, unseen>>
    BY <2>1, <2>3, ShowOver
  <2>4. CASE UNCHANGED <<film, playing, bar, hiding, focus, unseen>>
    BY <2>4, StillKeeps
  <2> QED BY <1>3, <2>2, <2>3, <2>4 DEF Keys!OnHidden
<1>4. CASE Keys!OnShown(k)
  <2>1. film /\ bar
    BY <1>4 DEF Keys!OnShown
  <2>2. CASE Keys!Skip \/ Keys!Toggle
    BY <2>1, <2>2, ControlKeeps
  <2>3. CASE Keys!Click
    <3>1. CASE Keys!Skip \/ Keys!Toggle \/ Keys!StopHere
      BY <2>1, <3>1, ControlKeeps
    <3>2. CASE Keys!Show(FALSE, playing) /\ UNCHANGED <<film, playing, unseen>>
      BY <2>1, <3>2, ShowOver
    <3> QED BY <2>3, <3>1, <3>2 DEF Keys!Click
  <2>4. CASE Keys!Show(TRUE, playing) /\ UNCHANGED <<film, playing, unseen>>
    BY <2>1, <2>4, ShowOver
  <2>5. CASE Keys!Hide /\ UNCHANGED <<film, playing, unseen>>
    BY <2>5, HideKeeps
  <2>6. CASE hiding' = playing /\ UNCHANGED <<film, playing, bar, unseen>>
    BY <2>1, <2>6 DEF KeysInv, FocusIsSeen, Keys!FocusIsSeen
  <2> QED BY <1>4, <2>2, <2>3, <2>4, <2>5, <2>6 DEF Keys!OnShown
<1> QED BY <1>1, <1>2, <1>3, <1>4 DEF Keys!Press

\* What happens without a key.
LEMMA FilmKeeps ==
  ASSUME Marker, KeysInv,
         \/ Keys!Load \/ Keys!PlayStarts \/ Keys!PlayRefused \/ Keys!PhonePauses \/ Keys!Handled
  PROVE  KeysInv'
<1>1. CASE Keys!Load
  BY <1>1 DEF Keys!Load, Keys!Show, KeysInv, FocusIsSeen, Keys!FocusIsSeen
<1>2. CASE Keys!PlayStarts
  BY <1>2 DEF Marker, Keys!PlayStarts, KeysInv, FocusIsSeen, Keys!FocusIsSeen
<1>3. CASE Keys!PlayRefused
  BY <1>3 DEF Keys!PlayRefused, Keys!Show, KeysInv, FocusIsSeen, Keys!FocusIsSeen
<1>4. CASE Keys!PhonePauses
  BY <1>4 DEF Marker, Keys!PhonePauses, Keys!Pauses, KeysInv, FocusIsSeen, Keys!FocusIsSeen
<1>5. CASE Keys!Handled
  <2>1. UNCHANGED <<film, playing>> /\ film /\ unseen' = None
    BY <1>5 DEF Keys!Handled, KeysInv
  <2>2. CASE ~playing
    <3>1. bar' = TRUE /\ hiding' = FALSE
      BY <1>5, <2>2 DEF Keys!Handled, Keys!Show
    <3> QED BY <2>1, <3>1 DEF KeysInv, FocusIsSeen, Keys!FocusIsSeen
  <2>3. CASE playing
    BY <1>5, <2>1, <2>3 DEF Keys!Handled, KeysInv, FocusIsSeen, Keys!FocusIsSeen
  <2> QED BY <2>2, <2>3
<1> QED BY <1>1, <1>2, <1>3, <1>4, <1>5

LEMMA PointerKeeps ==
  ASSUME Marker, KeysInv,
         \/ Keys!ClickStart \/ Keys!ClickFilm \/ Keys!TimerFires \/ Keys!PhoneComes
         \/ UNCHANGED Keys!vars
  PROVE  KeysInv'
<1>1. CASE Keys!ClickStart
  <2>1. film' = film /\ film /\ focus' = None /\ UNCHANGED <<bar, hiding>> /\ playing' \in {playing, TRUE}
        /\ unseen' = IF playing' # playing THEN "playing" ELSE unseen
    BY <1>1 DEF Keys!ClickStart, Keys!Starts
  <2> QED BY <2>1 DEF Marker, KeysInv, FocusIsSeen, Keys!FocusIsSeen
<1>2. CASE Keys!ClickFilm
  <2>1. film /\ (Keys!Hide \/ Keys!Show(TRUE, playing)) /\ UNCHANGED <<film, playing, unseen>>
    BY <1>2 DEF Keys!ClickFilm
  <2> QED BY <2>1, HideKeeps, ShowOver
<1>3. CASE Keys!TimerFires
  BY <1>3, HideKeeps DEF Keys!TimerFires
<1>4. CASE Keys!PhoneComes
  <2>1. UNCHANGED <<film, playing, bar, hiding, unseen>> /\ focus' \in {focus, "release"}
    BY <1>4 DEF Keys!PhoneComes
  <2> QED BY <2>1, ReleaseIsOutside DEF KeysInv, FocusIsSeen, Keys!FocusIsSeen
<1>5. CASE UNCHANGED Keys!vars
  BY <1>5, StillKeeps DEF Keys!vars
<1> QED BY <1>1, <1>2, <1>3, <1>4, <1>5

LEMMA KeysInvariance == ASSUME Marker PROVE Keys!Spec => []KeysInv
<1>1. Keys!Init => KeysInv
  BY DEF Marker, Keys!Init, KeysInv, FocusIsSeen, Keys!FocusIsSeen
<1>2. KeysInv /\ [Keys!Next]_(Keys!vars) => KeysInv'
  BY PressKeeps, FilmKeeps, PointerKeeps DEF Keys!Next
<1> QED BY <1>1, <1>2, PTL DEF Keys!Spec

\* No press of the television's remote reaches a control that is not to be seen, whatever
\* hid the bar since: the countdown, Stop, a click, or a film that ended (tv.js hideHud).
THEOREM PressesAreSeen == ASSUME Marker PROVE Keys!Spec => []FocusIsSeen
<1>1. KeysInv => FocusIsSeen
  BY DEF KeysInv
<1> QED BY <1>1, KeysInvariance, PTL

\* The bar's countdown never takes it from a film that stands still, unless the <video>
\* has yet to say that it does (tv.js poke).
THEOREM StillFilmKeepsItsBar == ASSUME Marker PROVE Keys!Spec => StillBarStays
<1>1. KeysInv /\ [Keys!Next]_(Keys!vars) => [Keys!TimerFires => playing \/ unseen # None]_(Keys!vars)
  BY DEF KeysInv, Keys!TimerFires
<1> QED BY <1>1, KeysInvariance, PTL DEF Keys!Spec, StillBarStays, Keys!StillBarStays

-----------------------------------------------------------------------------
(* The player: TvPlayer. *)

CONSTANTS Films, Bridged, Dash, Subbed

VARIABLES loaded, source, dash, due, opening, shaka, tried, failed, motion, fetching,
          tracks, late

Player == INSTANCE TvPlayer

BridgeBeforeError == Player!BridgeBeforeError
ScreenIsTheFilms  == Player!ScreenIsTheFilms

\* A film with a bridge that failed has been tried through it; what is on the screen is
\* of the film that is loaded, or Shaka answered late.
Tried   == loaded # None /\ failed /\ loaded \in Bridged => tried
Picture == source # None /\ ~late => Player!FilmOf(source) = loaded
Captions == tracks \subseteq {loaded}

PlayerInv ==
  /\ tried \in BOOLEAN /\ failed \in BOOLEAN /\ late \in BOOLEAN
  /\ Tried /\ Picture /\ Captions

\* fail goes through the bridge once, with the film that is loaded, and says so after.
LEMMA FailKeeps ==
  ASSUME PlayerInv, Player!Fail, loaded' = loaded, late' \in BOOLEAN, late => late'
  PROVE  PlayerInv'
<1>1. CASE Player!CanRetry
  <2>1. tried' = TRUE /\ failed' = FALSE /\ tracks' = {}
    BY <1>1 DEF Player!Fail, Player!Retry, Player!AttachTo
  <2>2. source' \in {None, [film |-> loaded, bridge |-> TRUE]}
    BY <1>1 DEF Player!Fail, Player!Retry, Player!AttachTo
  <2>3. Picture'
    BY <2>2 DEF Picture, Player!FilmOf
  <2> QED BY <2>1, <2>3 DEF PlayerInv, Tried, Captions
<1>2. CASE ~Player!CanRetry
  <2>1. failed' = TRUE /\ UNCHANGED <<source, tried, tracks>>
    BY <1>2 DEF Player!Fail, Player!GiveUp
  <2>2. Tried'
    BY <1>2, <2>1 DEF Tried, Player!CanRetry
  <2>3. Picture'
    BY <2>1 DEF PlayerInv, Picture, Player!FilmOf
  <2> QED BY <2>1, <2>2, <2>3 DEF PlayerInv, Captions
<1> QED BY <1>1, <1>2

\* Nothing on the screen changes.
LEMMA ScreenKeeps ==
  ASSUME PlayerInv, UNCHANGED <<loaded, source, tried, failed, tracks, late>>
  PROVE  PlayerInv'
BY DEF PlayerInv, Tried, Picture, Captions, Player!FilmOf

LEMMA PlayerNext == ASSUME PlayerInv, [Player!Next]_(Player!vars) PROVE PlayerInv'
<1>1. ASSUME NEW f \in Films, Player!Load(f) PROVE PlayerInv'
  <2>1. loaded' = f /\ failed' = FALSE /\ tracks' = {} /\ tried' = FALSE /\ late' = late
    BY <1>1 DEF Player!Load, Player!AttachTo
  <2>2. source' \in {None, [film |-> f, bridge |-> FALSE]}
    BY <1>1 DEF Player!Load, Player!AttachTo
  <2>3. Picture'
    BY <2>1, <2>2 DEF Picture, Player!FilmOf
  <2> QED BY <2>1, <2>3 DEF PlayerInv, Tried, Captions
<1>2. CASE Player!Stop \/ Player!Page
  <2>1. /\ loaded' = None /\ source' = None /\ tracks' = {} /\ late' = late
        /\ tried' \in {tried, FALSE} /\ failed' \in {failed, FALSE}
    BY <1>2 DEF Player!Stop, Player!Page, Player!Teardown
  <2> QED BY <2>1 DEF PlayerInv, Tried, Picture, Captions
<1>3. CASE Player!Play \/ Player!Pause \/ Player!PlayAnswers \/ Player!Arrives \/ Player!NotDownloaded
           \/ UNCHANGED Player!vars \/ \E x \in Player!Attach : Player!Opened(x)
  BY <1>3, ScreenKeeps DEF Player!Play, Player!Pause, Player!PlayAnswers, Player!Arrives,
    Player!NotDownloaded, Player!Opened, Player!vars
<1>4. CASE Player!VideoFails
  BY <1>4, FailKeeps DEF Player!VideoFails, PlayerInv
<1>5. ASSUME NEW x \in Player!Attach, Player!OpenFails(x) PROVE PlayerInv'
  <2>1. Player!Fail /\ loaded' = loaded /\ late' = (late \/ x.film # loaded)
    BY <1>5 DEF Player!OpenFails
  <2> QED BY <2>1, FailKeeps DEF PlayerInv
<1>6. ASSUME NEW x \in Player!Attach, Player!Open(x) PROVE PlayerInv'
  <2>1. /\ source' = x /\ late' = (late \/ x.film # loaded)
        /\ UNCHANGED <<loaded, tried, failed, tracks>>
    BY <1>6 DEF Player!Open
  <2>2. Picture'
    BY <2>1 DEF PlayerInv, Picture, Player!FilmOf
  <2> QED BY <2>1, <2>2 DEF PlayerInv, Tried, Captions
<1>7. ASSUME NEW f \in Films, Player!SubsArrive(f) PROVE PlayerInv'
  <2>1. UNCHANGED <<loaded, source, tried, failed, late>>
    BY <1>7 DEF Player!SubsArrive
  <2>2. Captions'
    BY <1>7, <2>1 DEF Player!SubsArrive, PlayerInv, Captions
  <2> QED BY <2>1, <2>2 DEF PlayerInv, Tried, Picture, Player!FilmOf
<1> QED BY <1>1, <1>2, <1>3, <1>4, <1>5, <1>6, <1>7 DEF Player!Next, Player!Shaka

LEMMA PlayerInvariance == Player!Spec => []PlayerInv
<1>1. Player!Init => PlayerInv
  BY DEF Player!Init, PlayerInv, Tried, Picture, Captions
<1>2. PlayerInv /\ [Player!Next]_(Player!vars) => PlayerInv'
  BY PlayerNext
<1> QED BY <1>1, <1>2, PTL DEF Player!Spec

\* A film is called unplayable only after the bridge it has was tried, whatever fails and
\* whichever answer of Shaka comes late (tv.js fail).
THEOREM TriedBeforeItFails == Player!Spec => []BridgeBeforeError
<1>1. PlayerInv => BridgeBeforeError
  BY DEF PlayerInv, Tried, BridgeBeforeError, Player!BridgeBeforeError, Player!state
<1> QED BY <1>1, PlayerInvariance, PTL

\* Picture and subtitles are the chosen film's unless Shaka answered for one that had been
\* left (tv.js attach, attachSubs).
THEOREM PictureIsTheFilms == Player!Spec => []ScreenIsTheFilms
<1>1. PlayerInv => ScreenIsTheFilms
  BY DEF PlayerInv, Picture, Captions, ScreenIsTheFilms, Player!ScreenIsTheFilms
<1> QED BY <1>1, PlayerInvariance, PTL

\* The element, its engine and its subtitles, by the kind of what they hold.
Engine ==
  /\ loaded \in Films \cup {None} /\ source \in Player!Attach \cup {None} /\ dash \in Player!Attach \cup {None}
  /\ due \subseteq Player!Attach /\ opening \subseteq Player!Attach /\ fetching \subseteq Films /\ tracks \subseteq Films
Manner == shaka \in {"absent", "coming", "here"} /\ motion \in {"off", "asked", "on", "blocked", "paused"}
Marks  == tried \in BOOLEAN /\ failed \in BOOLEAN /\ late \in BOOLEAN

LEMMA AttachTypes ==
  ASSUME Engine, Manner, NEW x \in Player!Attach, Player!AttachTo(x)
  PROVE  /\ source' \in Player!Attach \cup {None} /\ dash' \in Player!Attach \cup {None}
         /\ due' \subseteq Player!Attach /\ tracks' \subseteq Films /\ Manner' /\ failed' \in BOOLEAN
BY DEF Engine, Manner, Player!AttachTo

LEMMA FailTypes ==
  ASSUME Engine, Manner, Marks, Player!Fail
  PROVE  /\ source' \in Player!Attach \cup {None} /\ dash' \in Player!Attach \cup {None}
         /\ due' \subseteq Player!Attach /\ tracks' \subseteq Films /\ Manner' /\ failed' \in BOOLEAN /\ tried' \in BOOLEAN
<1>1. CASE Player!CanRetry
  <2> DEFINE x == [film |-> loaded, bridge |-> TRUE]
  <2>1. tried' = TRUE /\ Player!AttachTo(x)
    BY <1>1 DEF Player!Fail, Player!Retry
  <2>2. x \in Player!Attach
    BY <1>1 DEF Player!CanRetry, Engine, Player!Attach
  <2> HIDE DEF x
  <2> QED BY <2>1, <2>2, AttachTypes
<1>2. CASE ~Player!CanRetry
  BY <1>2 DEF Player!Fail, Player!GiveUp, Engine, Manner, Marks
<1> QED BY <1>1, <1>2

LEMMA PlayerTypes ==
  ASSUME Engine, Manner, Marks, [Player!Next]_(Player!vars)
  PROVE  Engine' /\ Manner' /\ Marks'
<1>1. ASSUME NEW f \in Films, Player!Load(f) PROVE Engine' /\ Manner' /\ Marks'
  <2> DEFINE x == [film |-> f, bridge |-> FALSE]
  <2>1. /\ Player!AttachTo(x) /\ loaded' = f /\ tried' = FALSE /\ UNCHANGED <<opening, late>>
        /\ fetching' = IF f \in Subbed THEN fetching \cup {f} ELSE fetching
    BY <1>1 DEF Player!Load
  <2>2. x \in Player!Attach
    BY DEF Player!Attach
  <2> HIDE DEF x
  <2>3. /\ source' \in Player!Attach \cup {None} /\ dash' \in Player!Attach \cup {None}
        /\ due' \subseteq Player!Attach /\ tracks' \subseteq Films /\ Manner' /\ failed' \in BOOLEAN
    BY <2>1, <2>2, AttachTypes
  <2> QED BY <2>1, <2>3 DEF Engine, Marks
<1>2. CASE Player!Stop \/ Player!Page
  BY <1>2 DEF Player!Stop, Player!Page, Player!Teardown, Engine, Manner, Marks
<1>3. CASE Player!Play \/ Player!Pause \/ Player!PlayAnswers \/ Player!Arrives \/ UNCHANGED Player!vars
  BY <1>3 DEF Player!Play, Player!Pause, Player!PlayAnswers, Player!Arrives, Player!vars, Engine, Manner, Marks
<1>4. CASE Player!NotDownloaded
  BY <1>4 DEF Player!NotDownloaded, Engine, Manner, Marks
<1>5. CASE Player!VideoFails
  BY <1>5, FailTypes DEF Player!VideoFails, Engine, Marks
<1>6. ASSUME NEW x \in Player!Attach, Player!Open(x) \/ Player!Opened(x) PROVE Engine' /\ Manner' /\ Marks'
  <2>1. Engine' /\ Manner'
    BY <1>6 DEF Player!Open, Player!Opened, Engine, Manner
  <2>2. UNCHANGED <<tried, failed>> /\ (late' = late \/ late' = (late \/ x.film # loaded))
    BY <1>6 DEF Player!Open, Player!Opened
  <2> QED BY <2>1, <2>2 DEF Marks
<1>7. ASSUME NEW x \in Player!Attach, Player!OpenFails(x) PROVE Engine' /\ Manner' /\ Marks'
  <2>1. /\ Player!Fail /\ opening' = opening \ {x} /\ UNCHANGED <<loaded, fetching>>
        /\ late' = (late \/ x.film # loaded)
    BY <1>7 DEF Player!OpenFails
  <2> QED BY <2>1, FailTypes DEF Engine, Marks
<1>8. ASSUME NEW f \in Films, Player!SubsArrive(f) PROVE Engine' /\ Manner' /\ Marks'
  BY <1>8 DEF Player!SubsArrive, Engine, Manner, Marks
<1> QED BY <1>1, <1>2, <1>3, <1>4, <1>5, <1>6, <1>7, <1>8 DEF Player!Next, Player!Shaka

\* The types of the television's player (tv.js).
THEOREM PlayerTypeCorrect == Player!Spec => []Player!TypeOK
<1>1. Player!Init => Engine /\ Manner /\ Marks
  BY DEF Player!Init, Engine, Manner, Marks
<1>2. Engine /\ Manner /\ Marks /\ [Player!Next]_(Player!vars) => (Engine /\ Manner /\ Marks)'
  BY PlayerTypes
<1>3. Engine /\ Manner /\ Marks => Player!TypeOK
  BY DEF Engine, Manner, Marks, Player!TypeOK
<1> QED BY <1>1, <1>2, <1>3, PTL DEF Player!Spec

-----------------------------------------------------------------------------
(* The life of the room: TvLife. *)

CONSTANT Codes

VARIABLES table, room, stored, private, chain, answer, paired, freeing, net, refused

Life == INSTANCE TvLife

\* The page has nothing scheduled only after a room of its was gone and it was refused
\* the next one: the one hole in tick (tv.js newRoom, tick).
SilentIfRefused == chain = "ended" => refused

\* A page forgets only a room the server does not keep under its key (api/tv.js poll).
OnlyAGoneRoomIsLeft == [][Life!Gone => ~Life!Mine(room)]_(Life!vars)

\* A page that polls has a room, one whose timer runs without a room was refused one, and
\* one that is told gone has no row of its key.
LifeInv ==
  /\ table \in [Codes -> Life!Row \cup {None}]
  /\ {room, stored} \subseteq Codes \cup {None} /\ refused \in BOOLEAN
  /\ answer.is = "room" => answer.code \in Codes
  /\ chain = "poll" => room # None
  /\ chain = "timer" /\ room = None => refused
  /\ SilentIfRefused
  /\ answer.is = "gone" => chain = "poll" /\ ~Life!Mine(room)

\* Rows go, and come under other keys: none becomes the page's.
NoneComes ==
  /\ table' \in [Codes -> Life!Row \cup {None}]
  /\ \A c \in Codes : ~Life!Mine(c) => ~Life!Mine(c)'

LEMMA RowsKeep ==
  ASSUME LifeInv, None \notin Codes, NoneComes,
         UNCHANGED <<room, stored, chain, answer, refused>>
  PROVE  LifeInv'
<1>1. answer.is = "gone" => room \in Codes /\ ~Life!Mine(room)'
  BY DEF LifeInv, NoneComes
<1>2. answer.is = "gone" => ~(Life!Mine(room))'
  BY <1>1 DEF Life!Mine
<1> QED BY <1>2 DEF LifeInv, SilentIfRefused, NoneComes

LEMMA SweptRows ==
  ASSUME LifeInv, NEW t \in {table, Life!Swept(table)}
  PROVE  t \in [Codes -> Life!Row \cup {None}] /\ \A c \in Codes : t[c] \in {table[c], None}
BY DEF LifeInv, Life!Swept

\* One row changes what it says of its phone or of its age, and stays whose it is.
LEMMA RowChanges ==
  ASSUME LifeInv, NEW c \in Codes, table[c] # None,
         NEW ph \in BOOLEAN, NEW sn \in {"fresh", "stale", "old"},
         table' = [table EXCEPT ![c] = [mine |-> table[c].mine, phone |-> ph, seen |-> sn]]
  PROVE  NoneComes
<1>1. table[c] \in Life!Row
  BY DEF LifeInv
<1>2. [mine |-> table[c].mine, phone |-> ph, seen |-> sn] \in Life!Row
  BY <1>1 DEF Life!Row
<1> QED BY <1>2 DEF LifeInv, NoneComes, Life!Mine

LEMMA PhoneChanges ==
  ASSUME LifeInv, NEW c \in Codes, table[c] # None, NEW ph \in BOOLEAN,
         table' = [table EXCEPT ![c].phone = ph]
  PROVE  NoneComes
<1>1. table[c] \in Life!Row
  BY DEF LifeInv
<1>2. [table[c] EXCEPT !.phone = ph] = [mine |-> table[c].mine, phone |-> ph, seen |-> table[c].seen]
  BY <1>1 DEF Life!Row
<1>3. table' = [table EXCEPT ![c] = [table[c] EXCEPT !.phone = ph]] /\ table[c].seen \in {"fresh", "stale", "old"}
  BY <1>1 DEF Life!Row
<1>4. table' = [table EXCEPT ![c] = [mine |-> table[c].mine, phone |-> ph, seen |-> table[c].seen]]
  BY <1>2, <1>3, Zenon
<1> QED BY <1>3, <1>4, RowChanges

LEMMA SeenChanges ==
  ASSUME LifeInv, NEW c \in Codes, table[c] # None, NEW sn \in {"fresh", "stale", "old"},
         table' = [table EXCEPT ![c].seen = sn]
  PROVE  NoneComes
<1>1. table[c] \in Life!Row
  BY DEF LifeInv
<1>2. [table[c] EXCEPT !.seen = sn] = [mine |-> table[c].mine, phone |-> table[c].phone, seen |-> sn]
  BY <1>1 DEF Life!Row
<1>3. table' = [table EXCEPT ![c] = [table[c] EXCEPT !.seen = sn]] /\ table[c].phone \in BOOLEAN
  BY <1>1 DEF Life!Row
<1>4. table' = [table EXCEPT ![c] = [mine |-> table[c].mine, phone |-> table[c].phone, seen |-> sn]]
  BY <1>2, <1>3, Zenon
<1> QED BY <1>3, <1>4, RowChanges

LEMMA RowsStay == ASSUME LifeInv, UNCHANGED table PROVE NoneComes
BY DEF LifeInv, NoneComes, Life!Mine

\* What the server, other televisions and phones do.
LEMMA LifeServer ==
  ASSUME LifeInv, None \notin Codes,
         \/ Life!OtherCreate \/ Life!Outage \/ Life!Release \/ Life!Released
         \/ \E c \in Codes : Life!Pair(c) \/ Life!Unpair(c) \/ Life!Age(c)
         \/ UNCHANGED Life!vars
  PROVE  LifeInv'
<1>1. UNCHANGED <<room, stored, chain, answer, refused>>
  BY DEF Life!OtherCreate, Life!Outage, Life!Release, Life!Released, Life!Pair, Life!Unpair, Life!Age,
    Life!vars
<1>2. CASE Life!OtherCreate
  <2>1. PICK t \in {table, Life!Swept(table)}, c \in Codes :
          table' = [t EXCEPT ![c] = [mine |-> FALSE, phone |-> FALSE, seen |-> "fresh"]]
    BY <1>2 DEF Life!OtherCreate
  <2>2. t \in [Codes -> Life!Row \cup {None}] /\ \A d \in Codes : t[d] \in {table[d], None}
    BY SweptRows
  <2>3. table' \in [Codes -> Life!Row \cup {None}]
    BY <2>1, <2>2 DEF Life!Row
  <2>4. ASSUME NEW d \in Codes, ~Life!Mine(d) PROVE ~Life!Mine(d)'
    BY <2>1, <2>2, <2>4 DEF Life!Mine
  <2>5. NoneComes
    BY <2>3, <2>4 DEF NoneComes
  <2> QED BY <1>1, <2>5, RowsKeep
<1>3. CASE Life!Outage \/ Life!Release \/ UNCHANGED Life!vars
  BY <1>1, <1>3, RowsStay, RowsKeep DEF Life!Outage, Life!Release, Life!vars
<1>4. CASE Life!Released
  <2>1. CASE UNCHANGED table
    BY <1>1, <2>1, RowsStay, RowsKeep
  <2>2. CASE Life!Mine(room) /\ table' = [table EXCEPT ![room].phone = FALSE]
    <3>1. room \in Codes /\ table[room] # None
      BY <2>2 DEF Life!Mine, LifeInv
    <3> QED BY <1>1, <2>2, <3>1, PhoneChanges, RowsKeep
  <2> QED BY <1>4, <2>1, <2>2 DEF Life!Released, Life!Freed
<1>5. ASSUME NEW c \in Codes, Life!Pair(c) \/ Life!Unpair(c) PROVE LifeInv'
  BY <1>1, <1>5, PhoneChanges, RowsKeep DEF Life!Pair, Life!Unpair
<1>6. ASSUME NEW c \in Codes, Life!Age(c) PROVE LifeInv'
  <2>1. PICK sn \in {"fresh", "stale", "old"} : table' = [table EXCEPT ![c].seen = sn]
    BY <1>6 DEF Life!Age
  <2> QED BY <1>1, <1>6, <2>1, SeenChanges, RowsKeep DEF Life!Age
<1> QED BY <1>2, <1>3, <1>4, <1>5, <1>6

\* The page asks for a room or polls, and is answered.
LEMMA LifePage ==
  ASSUME LifeInv, None \notin Codes,
         \/ Life!Create \/ Life!Poll \/ Life!GotRoom \/ Life!Gone \/ Life!Polled \/ Life!Tick
         \/ Life!Fails \/ Life!Loaded
  PROVE  LifeInv'
<1>1. CASE Life!Create
  <2>1. PICK t \in {table, Life!Swept(table)}, c \in Codes :
          /\ table' = [d \in Codes |->
               IF d = c THEN [mine |-> TRUE, phone |-> FALSE, seen |-> "fresh"]
               ELSE IF t[d] = None THEN None ELSE [t[d] EXCEPT !.mine = FALSE]]
          /\ answer' = [is |-> "room", code |-> c]
    BY <1>1 DEF Life!Create
  <2>2. \A d \in Codes : t[d] \in Life!Row \cup {None}
    BY SweptRows
  <2>3. \A d \in Codes : t[d] # None => [t[d] EXCEPT !.mine = FALSE] \in Life!Row
    BY <2>2 DEF Life!Row
  <2>4. [mine |-> TRUE, phone |-> FALSE, seen |-> "fresh"] \in Life!Row
    BY DEF Life!Row
  <2>5. table' \in [Codes -> Life!Row \cup {None}]
    BY <2>1, <2>3, <2>4
  <2>6. UNCHANGED <<room, stored, chain, refused>> /\ chain \in {"boot", "again"}
    BY <1>1 DEF Life!Create
  <2>7. answer'.is = "room" /\ answer'.code \in Codes
    BY <2>1
  <2> QED BY <2>5, <2>6, <2>7 DEF LifeInv, SilentIfRefused
<1>2. CASE Life!Poll
  <2>1. chain = "poll" /\ UNCHANGED <<room, stored, chain, refused>>
    BY <1>2 DEF Life!Poll
  <2>2. CASE Life!Mine(room)
    <3>1. room \in Codes /\ table[room] # None /\ table' = [table EXCEPT ![room].seen = "fresh"]
      BY <1>2, <2>2 DEF Life!Mine, LifeInv, Life!Poll
    <3>2. NoneComes
      BY <3>1, SeenChanges
    <3>3. answer'.is = "row"
      BY <1>2, <2>2 DEF Life!Poll
    <3> QED BY <2>1, <3>2, <3>3 DEF LifeInv, SilentIfRefused, NoneComes
  <2>3. CASE ~Life!Mine(room)
    <3>1. answer' = [is |-> "gone"] /\ table' = table
      BY <1>2, <2>3 DEF Life!Poll
    <3>2. ~(Life!Mine(room))'
      BY <2>1, <2>3, <3>1 DEF Life!Mine
    <3> QED BY <2>1, <3>1, <3>2 DEF LifeInv, SilentIfRefused
  <2> QED BY <2>2, <2>3
<1>3. Life!NoAnswer.is = "none"
  BY DEF Life!NoAnswer
<1>4. CASE Life!GotRoom
  BY <1>3, <1>4 DEF Life!GotRoom, LifeInv, SilentIfRefused
<1>5. CASE Life!Gone
  BY <1>3, <1>5 DEF Life!Gone, LifeInv, SilentIfRefused
<1>6. CASE Life!Polled
  BY <1>3, <1>6 DEF Life!Polled, LifeInv, SilentIfRefused
<1>7. CASE Life!Tick
  BY <1>7 DEF Life!Tick, LifeInv, SilentIfRefused
<1>8. CASE Life!Fails
  BY <1>3, <1>8 DEF Life!Fails, Life!Asking, LifeInv, SilentIfRefused
<1>9. CASE Life!Loaded
  BY <1>3, <1>9 DEF Life!Loaded, Life!Boot, LifeInv, SilentIfRefused
<1> QED BY <1>1, <1>2, <1>4, <1>5, <1>6, <1>7, <1>8, <1>9

LEMMA LifeInvariance == ASSUME None \notin Codes PROVE Life!Spec => []LifeInv
<1>1. Life!Init => LifeInv
  <2> SUFFICES ASSUME Life!Init PROVE LifeInv
    OBVIOUS
  <2>1. table \in [Codes -> Life!Row \cup {None}] /\ {room, stored} \subseteq Codes \cup {None}
    BY DEF Life!Init
  <2>2. answer.is = "none" /\ chain = "boot" /\ refused = FALSE
    BY DEF Life!Init, Life!NoAnswer
  <2> QED BY <2>1, <2>2 DEF LifeInv, SilentIfRefused
<1>2. LifeInv /\ [Life!Next]_(Life!vars) => LifeInv'
  BY LifeServer, LifePage DEF Life!Next, Life!Step, Life!Server, Life!Reload, Life!Back, Life!ByHand
<1> QED BY <1>1, <1>2, PTL DEF Life!Spec

\* A television goes silent, with nothing asked and no timer set, only after it was refused
\* the room it asked for when its own was gone (tv.js tick, newRoom).
THEOREM SilenceIsRefusal == ASSUME None \notin Codes PROVE Life!Spec => []SilentIfRefused
<1>1. LifeInv => SilentIfRefused
  BY DEF LifeInv
<1> QED BY <1>1, LifeInvariance, PTL

\* A page that is told its room is gone has no row under its key, however late it hears it
\* and whatever expired, was freed or was made anew meanwhile (api/tv.js poll).
THEOREM LeavesOnlyTheGone == ASSUME None \notin Codes PROVE Life!Spec => OnlyAGoneRoomIsLeft
<1>1. LifeInv /\ [Life!Next]_(Life!vars) => [Life!Gone => ~Life!Mine(room)]_(Life!vars)
  BY DEF LifeInv, Life!Gone
<1> QED BY <1>1, LifeInvariance, PTL DEF Life!Spec, OnlyAGoneRoomIsLeft

-----------------------------------------------------------------------------
(* The remote on the phone: TvRemote. *)

CONSTANTS Rooms, MaxPairs, MaxSeq, MaxAsks, Sends

VARIABLES remote, shown, awaitSeq, settling, polls, sends, leaving, sent, pairs, rowKey,
          queue, said, ran

Remote == INSTANCE TvRemote

LeftIsStopped == Remote!LeftIsStopped

Commands == {"load", "stop"}

\* The phone, the rows it left, and the rows themselves are of rooms; a command on its way
\* is one of the two.
RemoteInv ==
  /\ pairs \in Nat /\ rowKey \in [Rooms -> Nat] /\ queue \in [Rooms -> Seq(Commands)]
  /\ \A l \in leaving : l.room \in Rooms
  /\ remote # None => remote.room \in Rooms /\ remote \in [room : Rooms, key : Nat, onTv : BOOLEAN]
  /\ \A i \in Sends : sends[i].is = "asked" => sends[i].c \in Commands /\ sends[i].room \in Rooms
  /\ sends = [i \in Sends |-> sends[i]]

\* A room is left by its phone with a stop, and no other step but the television's own
\* release leaves it.
Stops ==
  \A r \in Rooms : rowKey[r] # 0 /\ rowKey'[r] = 0 /\ ~Remote!Release(r)
                     => queue'[r] # <<>> /\ Remote!Last(queue'[r]) = "stop"

LEMMA PersonKeeps ==
  ASSUME RemoteInv, Remote!Person PROVE RemoteInv' /\ Stops
<1>1. ASSUME NEW c \in Commands, remote # None, Remote!Send(c)
      PROVE  /\ \A i \in Sends : sends'[i].is = "asked" => sends'[i].c \in Commands /\ sends'[i].room \in Rooms
             /\ sends' = [i \in Sends |-> sends'[i]]
  <2>1. PICK i \in Sends : sends' = [sends EXCEPT ![i] =
          [is |-> "asked", room |-> remote.room, key |-> remote.key, c |-> c]]
    BY <1>1 DEF Remote!Send
  <2>2. remote.room \in Rooms /\ sends = [j \in Sends |-> sends[j]]
    BY <1>1 DEF RemoteInv
  <2>3. sends'[i].c = c /\ sends'[i].room = remote.room
    BY <2>1, <2>2
  <2>4. \A j \in Sends : j # i => sends'[j] = sends[j]
    BY <2>1, <2>2
  <2>5. ASSUME NEW j \in Sends, sends'[j].is = "asked"
        PROVE  sends'[j].c \in Commands /\ sends'[j].room \in Rooms
    <3>1. CASE j = i
      BY <2>2, <2>3, <3>1
    <3>2. CASE j # i
      BY <2>4, <2>5, <3>2 DEF RemoteInv
    <3> QED BY <3>1, <3>2
  <2>6. sends' = [j \in Sends |-> sends'[j]]
    BY <2>1, <2>2
  <2> QED BY <2>5, <2>6
<1>2. CASE Remote!Disconnect \/ Remote!ChooseTv
  <2>1. UNCHANGED <<sends, pairs, rowKey, queue>>
    BY <1>2 DEF Remote!Disconnect, Remote!ChooseTv, Remote!server
  <2>2. (\A l \in leaving : l.room \in Rooms)'
    BY <1>2 DEF Remote!Disconnect, Remote!ChooseTv, Remote!Forget, RemoteInv
  <2>3. remote' = None \/ (remote # None /\ remote' = [remote EXCEPT !.onTv = TRUE])
    BY <1>2 DEF Remote!Disconnect, Remote!ChooseTv, Remote!Forget
  <2>4. remote' # None => remote'.room \in Rooms /\ remote' \in [room : Rooms, key : Nat, onTv : BOOLEAN]
    BY <2>3 DEF RemoteInv
  <2> QED BY <2>1, <2>2, <2>4 DEF RemoteInv, Stops
<1>3. CASE Remote!PlayOnTv
  BY <1>1, <1>3 DEF Remote!PlayOnTv, Remote!server, RemoteInv, Stops, Commands
<1>4. CASE Remote!StopOnTv
  BY <1>1, <1>4 DEF Remote!StopOnTv, Remote!server, RemoteInv, Stops, Commands
<1>5. ASSUME NEW r \in Rooms, Remote!Pair(r) PROVE RemoteInv' /\ Stops
  <2>1. /\ pairs' = pairs + 1 /\ rowKey' = [rowKey EXCEPT ![r] = pairs']
        /\ remote' = [room |-> r, key |-> pairs', onTv |-> TRUE]
        /\ UNCHANGED <<sends, queue>>
    BY <1>5 DEF Remote!Pair
  <2>2. \A l \in leaving' : l.room \in Rooms
    BY <1>5 DEF Remote!Pair, RemoteInv
  <2>3. pairs' \in Nat /\ pairs' # 0
    BY <2>1 DEF RemoteInv
  <2> QED BY <2>1, <2>2, <2>3 DEF RemoteInv, Stops
<1> QED BY <1>2, <1>3, <1>4, <1>5 DEF Remote!Person

\* The server hears of a phone that left, in whatever order: the stop is in the queue by the
\* write that forgets the phone.
LEMMA ServerKeeps ==
  ASSUME RemoteInv,
         \/ \E l \in leaving : Remote!LandUnpair(l)
         \/ \E i \in Sends : Remote!LandSend(i)
         \/ \E r \in Rooms : Remote!TvPolls(r) \/ Remote!Release(r)
         \/ \E q \in polls : Remote!LandPoll(q)
  PROVE  RemoteInv' /\ Stops
<1>1. ASSUME NEW l \in leaving, Remote!LandUnpair(l) PROVE RemoteInv' /\ Stops
  <2>1. leaving' \subseteq leaving /\ UNCHANGED <<remote, sends, pairs>> /\ l.room \in Rooms
    BY <1>1 DEF Remote!LandUnpair, RemoteInv
  <2>2. CASE rowKey[l.room] = l.key
    <3>1. /\ rowKey' = [rowKey EXCEPT ![l.room] = 0]
          /\ queue' = [queue EXCEPT ![l.room] = Append(queue[l.room], "stop")]
      BY <1>1, <2>2 DEF Remote!LandUnpair
    <3>2. queue[l.room] \in Seq(Commands) /\ "stop" \in Commands
      BY <2>1 DEF RemoteInv, Commands
    <3>3. /\ Append(queue[l.room], "stop") \in Seq(Commands)
          /\ Append(queue[l.room], "stop") # <<>>
          /\ Remote!Last(Append(queue[l.room], "stop")) = "stop"
      BY <3>2, AppendProperties DEF Remote!Last
    <3> QED BY <2>1, <3>1, <3>3 DEF RemoteInv, Stops
  <2>3. CASE rowKey[l.room] # l.key
    BY <1>1, <2>1, <2>3 DEF Remote!LandUnpair, RemoteInv, Stops
  <2> QED BY <2>2, <2>3
<1>2. ASSUME NEW i \in Sends, Remote!LandSend(i) PROVE RemoteInv' /\ Stops
  <2>1. /\ UNCHANGED <<remote, leaving, pairs, rowKey>> /\ sends[i].is = "asked"
        /\ \E x : x.is # "asked" /\ sends' = [sends EXCEPT ![i] = x]
    BY <1>2 DEF Remote!LandSend
  <2>2. sends[i].c \in Commands /\ sends[i].room \in Rooms
    BY <2>1 DEF RemoteInv
  <2>3. queue' \in [Rooms -> Seq(Commands)]
    <3>1. \/ queue' = queue
          \/ queue' = [queue EXCEPT ![sends[i].room] = Append(queue[sends[i].room], sends[i].c)]
      BY <1>2 DEF Remote!LandSend
    <3>2. Append(queue[sends[i].room], sends[i].c) \in Seq(Commands)
      BY <2>2, AppendProperties DEF RemoteInv
    <3> QED BY <3>1, <3>2 DEF RemoteInv
  <2> QED BY <2>1, <2>3 DEF RemoteInv, Stops
<1>3. ASSUME NEW r \in Rooms, Remote!TvPolls(r) PROVE RemoteInv' /\ Stops
  BY <1>3 DEF Remote!TvPolls, RemoteInv, Stops
<1>4. ASSUME NEW r \in Rooms, Remote!Release(r) PROVE RemoteInv' /\ Stops
  BY <1>4 DEF Remote!Release, RemoteInv, Stops
<1>5. ASSUME NEW q \in polls, Remote!LandPoll(q) PROVE RemoteInv' /\ Stops
  BY <1>5 DEF Remote!LandPoll, Remote!server, RemoteInv, Stops
<1> QED BY <1>1, <1>2, <1>3, <1>4, <1>5

\* Answers, lost requests, and the time between them.
LEMMA AnswersKeep ==
  ASSUME RemoteInv,
         \/ \E i \in Sends : Remote!HearSend(i) \/ Remote!LoseSend(i)
         \/ \E q \in polls : Remote!HearPoll(q) \/ Remote!LosePoll(q)
         \/ Remote!LoseUnpair \/ Remote!PollAgain \/ Remote!Settles \/ UNCHANGED Remote!vars
  PROVE  RemoteInv' /\ Stops
<1>1. UNCHANGED <<pairs, rowKey, queue>>
  BY DEF Remote!HearSend, Remote!LoseSend, Remote!HearPoll, Remote!LosePoll, Remote!LoseUnpair,
    Remote!PollAgain, Remote!Settles, Remote!vars, Remote!server
<1>2. (\A l \in leaving : l.room \in Rooms)'
  BY DEF Remote!HearSend, Remote!LoseSend, Remote!HearPoll, Remote!LosePoll, Remote!LoseUnpair,
    Remote!PollAgain, Remote!Settles, Remote!vars, Remote!server, Remote!Forget, RemoteInv
<1>3. remote' \in {remote, None}
  BY DEF Remote!HearSend, Remote!LoseSend, Remote!HearPoll, Remote!LosePoll, Remote!LoseUnpair,
    Remote!PollAgain, Remote!Settles, Remote!vars, Remote!server, Remote!Forget
<1>4. sends' = sends \/ \E i \in Sends : sends' = [sends EXCEPT ![i] = Remote!Unset]
  BY DEF Remote!HearSend, Remote!LoseSend, Remote!HearPoll, Remote!LosePoll, Remote!LoseUnpair,
    Remote!PollAgain, Remote!Settles, Remote!vars, Remote!server
<1>5. Remote!Unset.is # "asked"
  BY DEF Remote!Unset
<1>6. /\ (\A i \in Sends : sends[i].is = "asked" => sends[i].c \in Commands /\ sends[i].room \in Rooms)'
      /\ sends' = [i \in Sends |-> sends'[i]]
  BY <1>4, <1>5 DEF RemoteInv
<1> QED BY <1>1, <1>2, <1>3, <1>6 DEF RemoteInv, Stops

LEMMA RemoteNext ==
  ASSUME RemoteInv, [Remote!Next]_(Remote!vars) PROVE RemoteInv' /\ Stops
BY PersonKeeps, ServerKeeps, AnswersKeep DEF Remote!Next, Remote!OnTheirWay

\* A room whose phone has left it was told to stop, whatever was on its way to it: the
\* film does not play on in a room nobody holds (tvmode.js unpair, api/tv.js unpair).
THEOREM LeftRoomsStop == Remote!Spec => LeftIsStopped
<1>1. Remote!Init => RemoteInv
  <2>1. Remote!Unset.is # "asked" /\ <<>> \in Seq(Commands)
    BY EmptySeq DEF Remote!Unset
  <2> QED BY <2>1 DEF Remote!Init, RemoteInv
<1>2. RemoteInv /\ [Remote!Next]_(Remote!vars) => RemoteInv' /\ [Stops]_(Remote!vars)
  BY RemoteNext
<1> QED BY <1>1, <1>2, PTL DEF Remote!Spec, LeftIsStopped, Remote!LeftIsStopped, Stops
=============================================================================
