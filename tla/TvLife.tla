------------------------------- MODULE TvLife -------------------------------
(***************************************************************************)
(* The life of a television's room (src/assets/js/tv.js, src/api/tv.js):   *)
(* the page gets a code and a key, polls with them once a second, is told  *)
(* when the row is gone and asks for another.  What it does next is one    *)
(* chain of promises and timers, which chain names the place of; a chain   *)
(* that ends with nothing scheduled leaves a television nobody reaches.    *)
(* What a poll brings is in TvRoom, what a command does in TvPlayer.       *)
(***************************************************************************)
EXTENDS Naturals

CONSTANTS Codes, None

VARIABLES
  table,     \* tv_rooms: the row of each code; mine: its key is the one this page holds
  room,      \* the code of the page's room
  stored,    \* and of the one in localStorage
  private,   \* localStorage refuses to keep it
  chain,     \* where the page's chain of requests and timers is
  answer,    \* the answer on its way to it
  paired,    \* what the page shows: a phone is connected
  freeing,   \* a release is asked: with the key the page now holds, or an older one
  net,       \* requests get through
  refused    \* history: a room was gone and the request for the next one failed

vars == <<table, room, stored, private, chain, answer, paired, freeing, net, refused>>

Row    == [mine : BOOLEAN, phone : BOOLEAN, seen : {"fresh", "stale", "old"}]
NoAnswer == [is |-> "none"]
Asking == {"boot", "again", "poll"}
Mine(c) == c # None /\ table[c] # None /\ table[c].mine

\* boot, again: create is asked for at a page's start and after gone; poll:
\* poll is; timer, reload: one is set; ended: nothing is asked and nothing set.
TypeOK ==
  /\ table \in [Codes -> Row \cup {None}]
  /\ {room, stored} \subseteq Codes \cup {None}
  /\ freeing \in {"no", "mine", "other"}
  /\ {private, paired, net, refused} \subseteq BOOLEAN
  /\ chain \in Asking \cup {"timer", "reload", "ended", "away"}
  /\ answer \in [is : {"none", "gone"}] \cup [is : {"room"}, code : Codes]
                \cup [is : {"row"}, phone : BOOLEAN, page : BOOLEAN]

\* A page with nothing stored asks for a room, one with a room polls.
Boot(s) ==
  /\ room' = s /\ paired' = FALSE /\ answer' = NoAnswer /\ freeing' = "no"
  /\ chain' = IF s = None THEN "boot" ELSE "poll"

Init ==
  /\ table = [c \in Codes |-> None] /\ stored = None /\ room = None
  /\ private \in BOOLEAN /\ paired = FALSE /\ chain = "boot"
  /\ answer = NoAnswer /\ freeing = "no" /\ net = TRUE /\ refused = FALSE

-----------------------------------------------------------------------------
(* The server. *)

\* The sweep on the way in, which nobody waits for and may fail.
Swept(t) == [c \in Codes |-> IF t[c] # None /\ t[c].seen = "old" THEN None ELSE t[c]]

\* Six codes are drawn, and one that another television holds is passed over.
\* A second room makes the page's key another one: the old row is not its own.
Create ==
  /\ net /\ chain \in {"boot", "again"} /\ answer = NoAnswer
  /\ \E t \in {table, Swept(table)}, c \in Codes :
       /\ t[c] = None
       /\ table' = [d \in Codes |->
            IF d = c THEN [mine |-> TRUE, phone |-> FALSE, seen |-> "fresh"]
            ELSE IF t[d] = None THEN None ELSE [t[d] EXCEPT !.mine = FALSE]]
       /\ answer' = [is |-> "room", code |-> c]
  /\ freeing' = IF freeing = "mine" THEN "other" ELSE freeing
  /\ UNCHANGED <<room, stored, private, chain, paired, net, refused>>

\* The key is in the filter: a row of another key is no row.
Poll ==
  /\ net /\ chain = "poll" /\ answer = NoAnswer
  /\ IF Mine(room)
     THEN /\ table' = [table EXCEPT ![room].seen = "fresh"]
          /\ \E page \in BOOLEAN :
               answer' = [is |-> "row", phone |-> table[room].phone, page |-> page]
     ELSE answer' = [is |-> "gone"] /\ UNCHANGED table
  /\ UNCHANGED <<room, stored, private, chain, paired, freeing, net, refused>>

\* release forgets the phone of a row whose key matches.
Freed == IF freeing = "mine" /\ Mine(room) THEN [table EXCEPT ![room].phone = FALSE] ELSE table

\* Another television asks for a room, and a phone joins or leaves one.
OtherCreate ==
  /\ \E t \in {table, Swept(table)}, c \in Codes :
       /\ t[c] = None
       /\ table' = [t EXCEPT ![c] = [mine |-> FALSE, phone |-> FALSE, seen |-> "fresh"]]
  /\ UNCHANGED <<room, stored, private, chain, answer, paired, freeing, net, refused>>

\* A code nobody is showing is refused.
Pair(c) ==
  /\ table[c] # None /\ table[c].seen = "fresh"
  /\ table' = [table EXCEPT ![c].phone = TRUE]
  /\ UNCHANGED <<room, stored, private, chain, answer, paired, freeing, net, refused>>

Unpair(c) ==
  /\ table[c] # None /\ table[c].phone
  /\ table' = [table EXCEPT ![c].phone = FALSE]
  /\ UNCHANGED <<room, stored, private, chain, answer, paired, freeing, net, refused>>

\* Twenty seconds, and two days, without a poll.
Age(c) ==
  /\ table[c] # None /\ table[c].seen # "old"
  /\ table' = [table EXCEPT ![c].seen = IF @ = "fresh" THEN "stale" ELSE "old"]
  /\ UNCHANGED <<room, stored, private, chain, answer, paired, freeing, net, refused>>

-----------------------------------------------------------------------------
(* The page. *)

\* newRoom's answer; a page that was told gone goes on from a timer.
GotRoom ==
  /\ chain \in {"boot", "again"} /\ answer.is = "room"
  /\ room' = answer.code /\ answer' = NoAnswer
  /\ stored' = IF private THEN stored ELSE answer.code
  /\ chain' = IF chain = "boot" THEN "poll" ELSE "timer"
  /\ UNCHANGED <<table, private, paired, freeing, net, refused>>

\* The row is gone: the page forgets the room and asks for another.
Gone ==
  /\ chain = "poll" /\ answer.is = "gone"
  /\ room' = None /\ stored' = None /\ paired' = FALSE
  /\ answer' = NoAnswer /\ chain' = "again"
  /\ UNCHANGED <<table, private, freeing, net, refused>>

\* A page command takes the browser to a site; what is stored takes it back.
Polled ==
  /\ chain = "poll" /\ answer.is = "row"
  /\ paired' = answer.phone /\ answer' = NoAnswer
  /\ IF answer.page
     THEN chain' = "away" /\ stored' = IF private THEN stored ELSE room
     ELSE chain' = "timer" /\ UNCHANGED stored
  /\ UNCHANGED <<table, room, private, freeing, net, refused>>

\* As a bug would have it: a page that opens without a network does not reload.
FailsWithoutReload ==
  /\ chain \in Asking
  /\ net => chain # "poll" /\ answer = NoAnswer /\ \E c \in Codes : table[c] # None
  /\ chain' = "timer"
  /\ refused' = (refused \/ chain = "again")
  /\ answer' = NoAnswer
  /\ UNCHANGED <<table, room, stored, private, paired, freeing, net>>

\* A request fails, for want of a network or of a free code: at the start the
\* page is loaded again, later the chain goes on from its timer.
Fails ==
  /\ chain \in Asking
  /\ net => chain # "poll" /\ answer = NoAnswer /\ \E c \in Codes : table[c] # None
  /\ chain' = IF chain = "boot" THEN "reload" ELSE "timer"
  /\ refused' = (refused \/ chain = "again")
  /\ answer' = NoAnswer
  /\ UNCHANGED <<table, room, stored, private, paired, freeing, net>>

\* tick: a page without a room asks for nothing, and sets no timer.
Tick ==
  /\ chain = "timer"
  /\ chain' = IF room = None THEN "ended" ELSE "poll"
  /\ UNCHANGED <<table, room, stored, private, answer, paired, freeing, net, refused>>

\* The page is loaded: by its own timer, from the site by Back, or by a person.
Loaded ==
  /\ Boot(IF private THEN None ELSE stored)
  /\ UNCHANGED <<table, stored, private, net, refused>>
Reload    == chain = "reload" /\ Loaded
Back      == chain = "away" /\ Loaded
ByHand    == chain \notin {"away", "reload"} /\ Loaded

\* Disconnect phone, pressed on the television.
Release ==
  /\ room # None /\ freeing = "no" /\ chain # "away"
  /\ freeing' = "mine"
  /\ UNCHANGED <<table, room, stored, private, chain, answer, paired, net, refused>>
Released ==
  /\ freeing # "no"
  /\ \/ net /\ table' = Freed /\ paired' = FALSE
     \/ ~net /\ UNCHANGED <<table, paired>>
  /\ freeing' = "no"
  /\ UNCHANGED <<room, stored, private, chain, answer, net, refused>>

Outage ==
  /\ net' = ~net
  /\ UNCHANGED <<table, room, stored, private, chain, answer, paired, freeing, refused>>

Server == \/ OtherCreate \/ Outage
          \/ \E c \in Codes : Pair(c) \/ Unpair(c) \/ Age(c)
Step   == Create \/ Poll \/ GotRoom \/ Gone \/ Polled \/ Tick \/ Reload \/ Fails
Next   == Step \/ Server \/ Back \/ ByHand \/ Release \/ Released

\* Requests end and timers fire; nobody has to press a key.  Strong for the
\* code: six random draws do not miss every free one for ever, and a page is
\* not loaded anew each time before its code arrives.
Fairness == WF_vars(Step) /\ SF_vars(Create) /\ SF_vars(GotRoom)
Spec == Init /\ [][Next]_vars /\ Fairness

-----------------------------------------------------------------------------
\* A television that was not refused a room after its own was gone never stops
\* asking: once the network and a free code stay, it shows a code, whatever failed, expired or was taken before (tv.js tick, newRoom).
FreeCode == \E c \in Codes : table[c] = None
ShowsACode ==
  <>[](~refused /\ net /\ FreeCode) => []<>(room # None \/ chain = "away")

\* Gone is answered by asking for a new code, until there is one
\* (src/api/tv.js:47: "the TV's reaction to it is to ask for a new code").
GoneAsksAgain ==
  <>[](net /\ FreeCode) => ((chain = "again") ~> (room # None \/ chain \in {"boot", "away"}))
=============================================================================
