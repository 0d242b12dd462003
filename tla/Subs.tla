-------------------------------- MODULE Subs --------------------------------
(***************************************************************************)
(* Subtitles (src/assets/js/app.js, src/api/subs.js, src/lib/opensubs.js): *)
(* a pasted address, a file off the phone and a pick from the search, each *)
(* attached to the film that is open when its answer comes; the two doors  *)
(* of OpenSubtitles behind the search and the pick; the kept files, which  *)
(* have a date and are read by a television with no session.               *)
(*                                                                         *)
(* Abstracted: the text of a file and its conversion (a body is subtitles  *)
(* or it is not), languages and titles.                                    *)
(***************************************************************************)
EXTENDS Naturals, FiniteSets, Sequences

CONSTANTS Films,      \* films the person opens
          None,
          Keyed,      \* OPENSUBTITLES_API_KEY is set on the server
          MaxDay,     \* bound: days counted
          MaxKept,    \* bound: files kept in all
          MaxBusy     \* bound: requests without an answer at a time

KeepUpload == 3       \* thirty days, of the database's default
KeepPick   == 1       \* PICKED_KEEP_MS
MaxHops    == 3       \* addresses a download may go through

VARIABLES film,    \* current: the film open on the phone
          subs,    \* subsProxy: the file, and the film it was asked for
          carry,   \* subsCarry: the track a renewed link keeps
          tv,      \* the track the television was last sent, and whether it is up
          asks,    \* requests without an answer, by button
          listed,  \* the door the shown results came from
          rows,    \* the kept files: what each was asked for, and its last day
          day,
          read     \* what the television's last read of a kept file was

vars == <<film, subs, carry, tv, asks, listed, rows, day, read>>

Buttons == {"paste", "file", "find", "pick"}
Doors   == {"keyless", "keyed", "own"}
Track   == [id : 0..MaxKept, of : Films]

Ask(door) == [of |-> film, door |-> door, tries |-> 0, hops |-> 1]

\* Types: the track here, the television's, the requests and the kept files.
TypeOK ==
  /\ film \in Films \cup {None} /\ subs \in Track \cup {None} /\ carry \in Track \cup {None}
  /\ tv \in [subs : Track \cup {None}, up : BOOLEAN] \cup {None}
  /\ \A b \in Buttons : asks[b] = None \/ /\ asks[b].of \in Films \cup {None}
                                          /\ asks[b].door \in Doors
                                          /\ asks[b].tries \in 0..1 /\ asks[b].hops \in 1..MaxHops
  /\ listed \in {None, "keyless", "keyed"}
  /\ \A i \in DOMAIN rows : rows[i] \in [of : Films, until : 0..MaxDay + KeepUpload] \cup {None}
  /\ day \in 0..MaxDay /\ read \in {None, "served", "refused", "outlived"}

Init ==
  /\ film = None /\ subs = None /\ carry = None /\ tv = None
  /\ asks = [b \in Buttons |-> None] /\ listed = None
  /\ rows = << >> /\ day = 0 /\ read = None

-----------------------------------------------------------------------------
(* The phone. *)

\* castLoad: the film goes up with the track that is on, and a television
\* with something on already keeps saying so meanwhile.
Sent(track) == IF tv = None THEN None ELSE [tv EXCEPT !.subs = track]

\* Attaching and taking off reload a television only when it is up.
Resent(track) == IF tv # None /\ tv.up THEN Sent(track) ELSE tv

\* load(): the last film's track is cleared, unless one is carried.
Load(f) ==
  /\ film' = f /\ subs' = carry /\ carry' = None /\ tv' = Sent(carry)
  /\ UNCHANGED <<asks, listed, rows, day, read>>

\* The television is chosen under "Watch on".
Connect ==
  /\ film # None /\ tv = None
  /\ tv' = [subs |-> subs, up |-> FALSE]
  /\ UNCHANGED <<film, subs, carry, asks, listed, rows, day, read>>

\* Its media is loaded.
Up ==
  /\ tv # None /\ ~tv.up
  /\ tv' = [tv EXCEPT !.up = TRUE]
  /\ UNCHANGED <<film, subs, carry, asks, listed, rows, day, read>>

\* A signed link is about to run out: the track is put by, and the page is
\* read again; the film is loaded when that comes back, if it does.
Renew ==
  /\ tv # None /\ tv.up
  /\ carry' = subs
  /\ UNCHANGED <<film, subs, tv, asks, listed, rows, day, read>>

MayAsk(b) == asks[b] = None /\ Cardinality({c \in Buttons : asks[c] # None}) < MaxBusy

\* The three ways to a track need a film, and a button that is not busy.
Send(b) ==
  /\ b \in {"paste", "file", "pick"} /\ film # None /\ MayAsk(b)
  /\ b = "pick" => listed # None
  /\ asks' = [asks EXCEPT ![b] = Ask(IF b = "pick" THEN listed ELSE "own")]
  /\ UNCHANGED <<film, subs, carry, tv, listed, rows, day, read>>

\* The search needs a name, not a film, and empties the list.
Find ==
  /\ MayAsk("find")
  /\ asks' = [asks EXCEPT !["find"] = Ask("keyless")]
  /\ listed' = None
  /\ UNCHANGED <<film, subs, carry, tv, rows, day, read>>

\* attachLocalTrack, and castLoad when the television has something on: of
\* whatever is current by now.
Attach(track) == subs' = track /\ tv' = Resent(track)

\* An address is read and converted on the way, and not kept.
PasteAnswers ==
  /\ asks["paste"] # None
  /\ Attach([id |-> 0, of |-> asks["paste"].of])
  /\ asks' = [asks EXCEPT !["paste"] = None]
  /\ UNCHANGED <<film, carry, listed, rows, day, read>>

\* "Subtitles off".
Off ==
  /\ subs # None
  /\ subs' = None /\ tv' = Resent(None)
  /\ UNCHANGED <<film, carry, asks, listed, rows, day, read>>

-----------------------------------------------------------------------------
(* The server: keeping a file, and the doors. *)

\* Taken out on the way past; a failure of it never loses the file.
Past(i) == rows[i] # None /\ rows[i].until < day
Kept(b) == day + (IF b = "pick" THEN KeepPick ELSE KeepUpload)

Keep(b) ==
  LET n == Len(rows) + 1 IN
  /\ asks[b] # None /\ n <= MaxKept
  /\ \E swept \in {{}, {i \in DOMAIN rows : Past(i)}} :
       rows' = Append([i \in DOMAIN rows |-> IF i \in swept THEN None ELSE rows[i]],
                       [of |-> asks[b].of, until |-> Kept(b)])
  /\ Attach([id |-> n, of |-> asks[b].of])
  /\ asks' = [asks EXCEPT ![b] = None]
  /\ UNCHANGED <<film, carry, listed, day, read>>

\* Refused: a bad body, a lapsed session, an error, no answer at all.
Refused(b) ==
  /\ asks[b] # None
  /\ asks' = [asks EXCEPT ![b] = None]
  /\ UNCHANGED <<film, subs, carry, tv, listed, rows, day, read>>

AtKeyless(b) == asks[b] # None /\ asks[b].door = "keyless"

\* timedRetry: busy, or a dropped connection, is tried once more.
Busy(b) ==
  /\ AtKeyless(b) /\ asks[b].tries = 0
  /\ asks' = [asks EXCEPT ![b].tries = 1]
  /\ UNCHANGED <<film, subs, carry, tv, listed, rows, day, read>>

\* The keyless door has failed: the search goes to the keyed one, if there
\* is a key; a pick has no other door than the one it was listed by.
Fails(b) ==
  /\ AtKeyless(b)
  /\ \E said \in {"busy", "timeout", "refused"} :
       /\ said = "busy" => asks[b].tries = 1
       /\ asks' = [asks EXCEPT ![b] = IF b = "find" /\ Keyed
                                      THEN [@ EXCEPT !.door = "keyed", !.tries = 0]
                                      ELSE None]
  /\ UNCHANGED <<film, subs, carry, tv, listed, rows, day, read>>

\* A download redirected within opensubtitles.org, followed by hand; each
\* address has its own two tries.
Hop ==
  /\ AtKeyless("pick") /\ asks["pick"].hops < MaxHops
  /\ asks' = [asks EXCEPT !["pick"].hops = @ + 1, !["pick"].tries = 0]
  /\ UNCHANGED <<film, subs, carry, tv, listed, rows, day, read>>

\* The results are listed, with the door each came by in its reference.
Found ==
  /\ asks["find"] # None
  /\ listed' \in {asks["find"].door, None}
  /\ asks' = [asks EXCEPT !["find"] = None]
  /\ UNCHANGED <<film, subs, carry, tv, rows, day, read>>

\* As a bug would have it: the sweep is trusted.
ServesUnswept(i) == rows[i] # None

\* GET /api/subs?id=: expiry is enforced on read as well as swept on write.
Serves(i) == rows[i] # None /\ rows[i].until > day

TvReads ==
  /\ tv # None /\ tv.subs # None /\ tv.subs.id # 0
  /\ read' = IF ~Serves(tv.subs.id) THEN "refused"
             ELSE IF rows[tv.subs.id].until <= day THEN "outlived" ELSE "served"
  /\ UNCHANGED <<film, subs, carry, tv, asks, listed, rows, day>>

Tomorrow ==
  /\ day < MaxDay
  /\ day' = day + 1
  /\ UNCHANGED <<film, subs, carry, tv, asks, listed, rows, read>>

-----------------------------------------------------------------------------
Next ==
  \/ \E f \in Films : Load(f)
  \/ Connect \/ Up \/ Renew \/ Find \/ Off
  \/ \E b \in Buttons : Send(b) \/ Refused(b) \/ Busy(b) \/ Fails(b)
  \/ PasteAnswers \/ Keep("file") \/ Keep("pick")
  \/ Hop \/ Found \/ TvReads \/ Tomorrow

Spec == Init /\ [][Next]_vars

-----------------------------------------------------------------------------
(* A file nobody has swept is not read after its date: the sweep runs only *)
(* when the same person adds another (src/api/subs.js, serveKept).         *)
DateIsKept == read # "outlived"

(* Claimed, and not kept: a different film is a different subtitle file.   *)
(* A track belongs to the film it was asked for (src/assets/js/app.js,     *)
(* load and the three routes).                                             *)
SubsAreTheFilms == subs # None => subs.of = film

(* Claimed, and not kept: with the television up and its film open, what   *)
(* the page calls on is on there (the toast "Subtitles on").               *)
TvHasTheTrack == tv # None /\ tv.up => tv.subs = subs

(* Claimed, and not kept: a kept file comes back with its film from        *)
(* History (the note the pick leaves on the page).                         *)
KeptComesBack ==
  [][\A i \in DOMAIN rows : Serves(i) /\ film # rows[i].of /\ film' = rows[i].of => subs' # None]_vars
=============================================================================
