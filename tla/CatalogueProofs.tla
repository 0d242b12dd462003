--------------------------- MODULE CatalogueProofs ---------------------------
(***************************************************************************)
(* What a person finds and keeps: their own files on the stream host       *)
(* (MyFiles), what a scan in a browser offers of a page (DeepScan), what   *)
(* is said of each address (Probe), the shelf of series (Browse) and the   *)
(* children of a page (Crawl); for any people, files, pages, hosts and     *)
(* links.  Each theorem is about one of them.                              *)
(***************************************************************************)
EXTENDS Integers, Sequences, FiniteSets, SequenceTheorems, FiniteSetTheorems, WellFoundedInduction,
        TLAPS, Places

CONSTANT None

-----------------------------------------------------------------------------
(* The person's files: MyFiles. *)

CONSTANTS People, Files, MaxTurns

VARIABLES cookie, me, form, pick, panel, unsaid, xhr, ups, shelf, list, stale, asks, gone, turns

Mine == INSTANCE MyFiles

SendingIsSent   == Mine!SendingIsSent
DeletedStaysGone == Mine!DeletedStaysGone

\* None is nobody and no file, and turns are counted.
Nobody == None \notin People /\ None \notin Files /\ MaxTurns \in Nat

\* The types, by the shape of what is typed.
Scalars ==
  /\ cookie \in People \cup {None} /\ me \in People \cup {None} /\ form \in {"still", "sent", "leaving"}
  /\ panel \in {"none", "send", "sending", "done", "error"} /\ xhr \in 1..MaxTurns \cup {None}
  /\ turns \in 0..MaxTurns
Flags == stale \in BOOLEAN /\ unsaid \in BOOLEAN
Holdings == [file : Files, who : People]
Records ==
  /\ pick \in [file : Files \cup {None}, remote : Files \cup {None}]
  /\ list \in [who : People \cup {None}, files : SUBSET Files]
  /\ shelf \subseteq Holdings /\ gone \subseteq Holdings
Uploads == ups \subseteq Mine!Up
Asks == asks \subseteq Mine!Ask

LEMMA TypesAre == Mine!TypeOK <=> Scalars /\ Flags /\ Records /\ Uploads /\ Asks
BY DEF Mine!TypeOK, Scalars, Flags, Records, Holdings, Uploads, Asks

\* A panel is drawn for a file that was picked, and an upload past its ticket is somebody's.
Picked   == panel # "none" \/ ups # {} => pick.file # None
Ticketed == \A u \in ups : u.at \notin {"ticket", "answer"} => u.who # None
Admitted == \A a \in asks : a.at \in {"call", "said"} => a.who # None

SendInv == Scalars /\ Flags /\ Records /\ Uploads /\ Asks /\ Picked /\ Ticketed /\ Admitted /\ SendingIsSent

\* A file that is gone is not on the host, nor in the newest list that was heard, nor in
\* the answer that is about to be: one read before the deletion is no longer the newest.
NotOnShelf == gone \cap shelf = {}
NotInAnswer ==
  \A a \in asks : a.at = "said" /\ a.file = None /\ a.live =>
    \A f \in a.said : [file |-> f, who |-> a.who] \notin gone
NotInList == ~stale => \A f \in list.files : [file |-> f, who |-> list.who] \notin gone

GoneInv == SendInv /\ NotOnShelf /\ NotInAnswer /\ NotInList

\* What an upload or a request is when one thing about it has changed.
LEMMA UpMoved ==
  ASSUME NEW u \in Mine!Up, NEW at \in {"ticket", "answer", "sending", "kept", "refused"}, NEW who \in People \cup {None}
  PROVE  /\ [u EXCEPT !.at = at] \in Mine!Up /\ [u EXCEPT !.at = at, !.who = who] \in Mine!Up
         /\ [u EXCEPT !.at = at].at = at /\ [u EXCEPT !.at = at].who = u.who
         /\ [u EXCEPT !.at = at, !.who = who].at = at
BY DEF Mine!Up

LEMMA SendFirst == Nobody /\ Mine!Init => SendInv
<1> SUFFICES ASSUME Nobody, Mine!Init PROVE SendInv
  OBVIOUS
<1>1. Scalars
  BY DEF Nobody, Mine!Init, Scalars
<1>f. Flags
  BY DEF Mine!Init, Flags
<1>2. Records
  BY DEF Mine!Init, Mine!NoList, Records
<1> QED BY <1>1, <1>f, <1>2 DEF Mine!Init, SendInv, Uploads, Asks, Picked, Ticketed, Admitted, SendingIsSent, Mine!SendingIsSent

\* What leaves the uploads, the panel and the requests alone keeps what is said of them.
Same == UNCHANGED <<ups, panel, unsaid, asks>> /\ pick' = pick
LEMMA SameSends ==
  ASSUME SendInv, Same, Scalars', Flags', Records'
  PROVE  SendInv'
BY DEF Same, SendInv, Uploads, Asks, Picked, Ticketed, Admitted, SendingIsSent, Mine!SendingIsSent

\* The gate, and what a person does with a file.
LEMMA GateSends ==
  ASSUME Nobody, SendInv,
         Mine!Submit \/ Mine!Answered \/ Mine!Leave \/ Mine!Left \/ Mine!Expires
  PROVE  SendInv'
<1> USE DEF Mine!Submit, Mine!Answered, Mine!Leave, Mine!Left, Mine!Expires, Mine!Lapse, Mine!Turn,
       Mine!session, Mine!upload, Mine!library
<1>1. Same
  BY DEF Same
<1>2. Scalars'
  BY DEF Nobody, SendInv, Scalars
<1>f. Flags'
  BY DEF SendInv, Flags
<1>3. Records'
  <2>1. list' \in {list, Mine!NoList} /\ pick' = pick /\ shelf' = shelf /\ gone' = gone
    OBVIOUS
  <2> QED BY <2>1 DEF SendInv, Records, Mine!NoList
<1> QED BY <1>1, <1>f, <1>2, <1>3, SameSends

LEMMA PickSends ==
  ASSUME Nobody, SendInv, NEW f \in Files, Mine!Pick(f)
  PROVE  SendInv'
<1> USE DEF Mine!Pick, Mine!Turn, Mine!session, Mine!library
<1>1. Scalars'
  BY DEF Nobody, SendInv, Scalars
<1>f. Flags'
  BY DEF SendInv, Flags
<1>2. Records'
  BY DEF SendInv, Records
<1>3. Picked' /\ SendingIsSent'
  BY DEF Nobody, SendInv, Records, Picked, SendingIsSent, Mine!SendingIsSent
<1> QED BY <1>1, <1>f, <1>2, <1>3 DEF SendInv, Uploads, Asks, Ticketed, Admitted

LEMMA SendSends ==
  ASSUME Nobody, SendInv, Mine!Send
  PROVE  SendInv'
<1> USE DEF Mine!Send, Mine!Turn, Mine!session, Mine!library
<1>1. Scalars'
  BY DEF Nobody, SendInv, Scalars
<1>f. Flags'
  BY DEF SendInv, Flags
<1>2. Records'
  BY DEF SendInv, Records
<1> DEFINE new == [no |-> turns', file |-> pick.file, who |-> None, at |-> "ticket"]
<1>n. turns' \in 1..MaxTurns
  BY DEF Nobody, SendInv, Scalars
<1>3. new \in Mine!Up /\ ups' = ups \cup {new} /\ new.at = "ticket"
  BY <1>n DEF SendInv, Records, Picked, Mine!Up
<1> HIDE DEF new
<1>4. Uploads' /\ Ticketed'
  BY <1>3 DEF SendInv, Uploads, Ticketed
<1>5. SendingIsSent'
  BY <1>3 DEF SendingIsSent, Mine!SendingIsSent
<1>6. Picked' /\ Asks' /\ Admitted'
  BY DEF SendInv, Picked, Asks, Admitted
<1> QED BY <1>1, <1>f, <1>2, <1>4, <1>5, <1>6 DEF SendInv

LEMMA StopSends ==
  ASSUME Nobody, SendInv, Mine!Stop
  PROVE  SendInv'
<1> USE DEF Mine!Stop, Mine!session, Mine!library
<1>1. Scalars'
  BY DEF Nobody, SendInv, Scalars
<1>f. Flags'
  BY DEF SendInv, Flags
<1>2. Records'
  BY DEF SendInv, Records
<1>3. Uploads' /\ Ticketed'
  BY DEF SendInv, Uploads, Ticketed
<1>4. Picked' /\ Asks' /\ Admitted' /\ SendingIsSent'
  BY DEF SendInv, Picked, Asks, Admitted, SendingIsSent, Mine!SendingIsSent
<1> QED BY <1>1, <1>f, <1>2, <1>3, <1>4 DEF SendInv

\* An upload on its way: it moves, with or without an account, or it is over.
LEMMA UploadsSend ==
  ASSUME Nobody, SendInv, NEW u \in ups, Mine!UpStep(u)
  PROVE  SendInv'
<1>u. u \in Mine!Up /\ u.file \in Files /\ u.who \in People \cup {None} /\ u.no \in 1..MaxTurns
  BY DEF SendInv, Uploads, Mine!Up
<1>a. UNCHANGED <<cookie, form, asks, turns>>
  BY DEF Mine!UpStep, Mine!TicketLands, Mine!TicketHeard, Mine!TicketLost, Mine!Progress, Mine!HostDecides, Mine!Sent,
         Mine!SendFails, Mine!session, Mine!library
<1>b. Asks' /\ Admitted'
  BY <1>a DEF SendInv, Asks, Admitted
<1>1. CASE Mine!TicketLands(u)
  <2> DEFINE v == [u EXCEPT !.at = "answer", !.who = cookie]
  <2>1. v \in Mine!Up /\ v.at = "answer"
    BY <1>u DEF SendInv, Scalars, Mine!Up
  <2>2. ups' = (ups \ {u}) \cup {v}
    BY <1>1 DEF Mine!TicketLands
  <2> HIDE DEF v
  <2>3. UNCHANGED <<cookie, me, form, pick, panel, unsaid, xhr, shelf, list, stale, gone, turns>>
    BY <1>1 DEF Mine!TicketLands, Mine!session, Mine!library
  <2>4. Uploads' /\ Ticketed'
    BY <2>1, <2>2 DEF SendInv, Uploads, Ticketed
  <2>5. Scalars' /\ Flags' /\ Records' /\ Picked'
    BY <2>3 DEF SendInv, Scalars, Flags, Records, Picked
  <2>6. SendingIsSent'
    BY <2>2 DEF SendingIsSent, Mine!SendingIsSent
  <2> QED BY <1>b, <2>4, <2>5, <2>6 DEF SendInv
<1>2. CASE Mine!TicketHeard(u) /\ u.who # None
  <2> DEFINE v == [u EXCEPT !.at = "sending"]
  <2>1. v \in Mine!Up /\ v.who = u.who
    BY <1>u, UpMoved
  <2>2. ups' = (ups \ {u}) \cup {v}
    BY <1>2 DEF Mine!TicketHeard, Mine!Moves
  <2> HIDE DEF v
  <2>3. UNCHANGED <<cookie, me, form, pick, panel, unsaid, shelf, list, stale, gone, turns>> /\ xhr' = u.no
    BY <1>2 DEF Mine!TicketHeard
  <2>4. Uploads' /\ Ticketed'
    BY <1>2, <2>1, <2>2 DEF SendInv, Uploads, Ticketed
  <2>5. Scalars' /\ Flags' /\ Records' /\ Picked'
    BY <1>u, <2>3 DEF SendInv, Scalars, Flags, Records, Picked
  <2>6. SendingIsSent'
    BY <2>2 DEF SendingIsSent, Mine!SendingIsSent
  <2> QED BY <1>b, <2>4, <2>5, <2>6 DEF SendInv
<1>3. CASE Mine!TicketHeard(u) /\ u.who = None
  <2>1. /\ ups' = ups \ {u} /\ unsaid' = TRUE /\ xhr' = None /\ me' = None /\ stale' = TRUE /\ list' = Mine!NoList
        /\ UNCHANGED <<cookie, form, pick, panel, shelf, gone, turns>>
    BY <1>3 DEF Mine!TicketHeard, Mine!Lapse
  <2>2. Uploads' /\ Ticketed'
    BY <2>1 DEF SendInv, Uploads, Ticketed
  <2>3. Scalars' /\ Picked' /\ SendingIsSent'
    BY <2>1 DEF SendInv, Scalars, Picked, SendingIsSent, Mine!SendingIsSent
  <2>f. Flags'
    BY <2>1 DEF SendInv, Flags
  <2>4. Records'
    BY <2>1 DEF SendInv, Records, Mine!NoList
  <2> QED BY <1>b, <2>2, <2>3, <2>f, <2>4 DEF SendInv
<1>4. CASE Mine!TicketLost(u) \/ Mine!SendFails(u)
  <2>1. ups' = ups \ {u} /\ xhr' = None /\ UNCHANGED <<cookie, me, form, pick, unsaid, shelf, list, stale, gone, turns>>
    BY <1>4 DEF Mine!TicketLost, Mine!SendFails, Mine!session, Mine!library
  <2>0. pick.file # None
    BY DEF SendInv, Picked
  <2>p. panel' \in {"error", "done"}
    BY <1>4, <2>0 DEF Mine!TicketLost, Mine!SendFails
  <2>2. Uploads' /\ Ticketed'
    BY <2>1 DEF SendInv, Uploads, Ticketed
  <2>3. Scalars' /\ Flags' /\ Records'
    BY <2>1, <2>p DEF SendInv, Scalars, Flags, Records
  <2>4. Picked' /\ SendingIsSent'
    BY <2>0, <2>1, <2>p DEF Picked, SendingIsSent, Mine!SendingIsSent
  <2> QED BY <1>b, <2>2, <2>3, <2>4 DEF SendInv
<1>5. CASE Mine!Progress(u)
  <2>1. UNCHANGED <<cookie, me, form, pick, unsaid, xhr, ups, shelf, list, stale, gone, turns>> /\ panel' = "sending"
    BY <1>5 DEF Mine!Progress, Mine!session, Mine!library
  <2>2. Scalars' /\ Flags' /\ Records' /\ Uploads' /\ Ticketed'
    BY <2>1 DEF SendInv, Scalars, Flags, Records, Uploads, Ticketed
  <2>3. pick.file # None
    BY DEF SendInv, Picked
  <2>4. Picked' /\ SendingIsSent'
    BY <2>1, <2>3 DEF Picked, SendingIsSent, Mine!SendingIsSent
  <2> QED BY <1>b, <2>2, <2>4 DEF SendInv
<1>6. CASE Mine!HostDecides(u)
  <2>1. PICK at \in {"kept", "refused"} : ups' = (ups \ {u}) \cup {[u EXCEPT !.at = at]}
    BY <1>6 DEF Mine!HostDecides, Mine!Moves
  <2> DEFINE v == [u EXCEPT !.at = at]
  <2>2. v \in Mine!Up /\ v.who = u.who /\ u.who # None
    BY <1>u, <1>6 DEF Mine!HostDecides, SendInv, Ticketed, Mine!Up
  <2>3. ups' = (ups \ {u}) \cup {v}
    BY <2>1
  <2> HIDE DEF v
  <2>4. /\ UNCHANGED <<cookie, me, form, pick, panel, unsaid, xhr, list, stale, turns>>
        /\ shelf' \subseteq shelf \cup {[file |-> u.file, who |-> u.who]} /\ gone' \subseteq gone
    BY <1>6 DEF Mine!HostDecides, Mine!session
  <2>5. Uploads' /\ Ticketed'
    BY <2>2, <2>3 DEF SendInv, Uploads, Ticketed
  <2>6. Scalars' /\ Flags'
    BY <2>4 DEF SendInv, Scalars, Flags
  <2>7. Records'
    BY <1>u, <2>2, <2>4 DEF SendInv, Records, Holdings
  <2>8. Picked' /\ SendingIsSent'
    BY <2>3, <2>4 DEF SendInv, Picked, SendingIsSent, Mine!SendingIsSent
  <2> QED BY <1>b, <2>5, <2>6, <2>7, <2>8 DEF SendInv
<1>7. CASE Mine!Sent(u)
  <2>1. /\ ups' = ups \ {u} /\ xhr' = None /\ panel' = "done" /\ stale' = TRUE
        /\ pick' = [pick EXCEPT !.remote = u.file]
        /\ UNCHANGED <<cookie, me, form, unsaid, shelf, list, gone, turns>>
    BY <1>7 DEF Mine!Sent, Mine!session
  <2>2. Uploads' /\ Ticketed'
    BY <2>1 DEF SendInv, Uploads, Ticketed
  <2>3. Records' /\ pick'.file = pick.file
    BY <1>u, <2>1 DEF SendInv, Records
  <2>4. Scalars' /\ Flags'
    BY <2>1 DEF SendInv, Scalars, Flags
  <2>5. Picked' /\ SendingIsSent'
    BY <1>7, <2>1, <2>3 DEF SendInv, Picked, SendingIsSent, Mine!SendingIsSent
  <2> QED BY <1>b, <2>2, <2>3, <2>4, <2>5 DEF SendInv
<1> QED BY <1>1, <1>2, <1>3, <1>4, <1>5, <1>6, <1>7 DEF Mine!UpStep

\* The Library: a request is made, lands, is heard and is answered.
LEMMA AskSends ==
  ASSUME SendInv, UNCHANGED <<ups, panel, unsaid>>, pick' = pick, Scalars', Flags', Records', Asks', Admitted'
  PROVE  SendInv'
BY DEF SendInv, Uploads, Picked, Ticketed, SendingIsSent, Mine!SendingIsSent

\* A request that is new, that has moved, and that is no longer the newest.
LEMMA NewAsk ==
  ASSUME NEW f \in Files \cup {None}
  PROVE  Mine!New(f) \in Mine!Ask /\ Mine!New(f).at = "ticket"
BY DEF Mine!New, Mine!Ask

LEMMA Outrunning ==
  ASSUME NEW b \in Mine!Ask
  PROVE  /\ [b EXCEPT !.live = FALSE] \in Mine!Ask /\ [b EXCEPT !.live = FALSE].live = FALSE
         /\ [b EXCEPT !.live = FALSE].at = b.at /\ [b EXCEPT !.live = FALSE].who = b.who
<1> DEFINE c == [b EXCEPT !.live = FALSE]
<1>1. c.at = b.at /\ c.who = b.who
  BY DEF Mine!Ask
<1>2. c \in Mine!Ask
  BY DEF Mine!Ask
<1>3. "live" \in DOMAIN b
  BY DEF Mine!Ask
<1>4. c.live = FALSE
  BY <1>3, Zenon
<1> QED BY <1>1, <1>2, <1>4

\* The runs before the newest, and maybe one that is new.
LEMMA RunsKeep ==
  ASSUME SendInv, NEW older \in SUBSET asks,
         asks' \subseteq {[b EXCEPT !.live = FALSE] : b \in older} \cup {Mine!New(None)}
  PROVE  Asks' /\ Admitted' /\ \A b \in asks' : b.live = FALSE \/ b.at = "ticket"
<1>1. ASSUME NEW c \in asks'
      PROVE  /\ c \in Mine!Ask /\ (c.at \in {"call", "said"} => c.who # None)
             /\ c.live = FALSE \/ c.at = "ticket"
  <2>1. CASE c = Mine!New(None)
    BY <2>1, NewAsk
  <2>2. CASE c # Mine!New(None)
    <3>1. PICK b \in older : c = [b EXCEPT !.live = FALSE]
      BY <2>2
    <3>2. b \in Mine!Ask /\ (b.at \in {"call", "said"} => b.who # None)
      BY DEF SendInv, Asks, Admitted
    <3> QED BY <3>1, <3>2, Outrunning
  <2> QED BY <2>1, <2>2
<1> QED BY <1>1 DEF Asks, Admitted

LEMMA AskedSends ==
  ASSUME Nobody, SendInv,
         (\E force \in BOOLEAN : Mine!Open(force)) \/ (\E f \in Files : Mine!Delete(f))
  PROVE  SendInv'
<1>1. CASE \E force \in BOOLEAN : Mine!Open(force)
  <2>1. /\ UNCHANGED <<cookie, me, form, pick, panel, unsaid, xhr, ups, shelf, list, stale, gone>>
        /\ turns < MaxTurns /\ turns' = turns + 1
    BY <1>1 DEF Mine!Open, Mine!Turn, Mine!session, Mine!upload
  <2>2. asks' \subseteq {[b EXCEPT !.live = FALSE] : b \in asks} \cup {Mine!New(None)}
    BY <1>1 DEF Mine!Open, Mine!Outrun
  <2>3. Asks' /\ Admitted'
    BY <2>2, RunsKeep
  <2>4. Scalars' /\ Flags' /\ Records'
    BY <2>1 DEF Nobody, SendInv, Scalars, Flags, Records
  <2> QED BY <2>1, <2>3, <2>4, AskSends
<1>2. CASE \E f \in Files : Mine!Delete(f)
  <2>1. /\ UNCHANGED <<cookie, me, form, pick, panel, unsaid, xhr, ups, shelf, list, stale, gone>>
        /\ turns < MaxTurns /\ turns' = turns + 1
    BY <1>2 DEF Mine!Delete, Mine!Turn, Mine!session, Mine!upload
  <2>2. PICK f \in Files : asks' = asks \cup {Mine!New(f)}
    BY <1>2 DEF Mine!Delete
  <2>3. Mine!New(f) \in Mine!Ask /\ Mine!New(f).at = "ticket"
    BY NewAsk
  <2>4. Asks' /\ Admitted'
    BY <2>2, <2>3 DEF SendInv, Asks, Admitted
  <2>5. Scalars' /\ Flags' /\ Records'
    BY <2>1 DEF Nobody, SendInv, Scalars, Flags, Records
  <2> QED BY <2>1, <2>4, <2>5, AskSends
<1> QED BY <1>1, <1>2

LEMMA AsksSend ==
  ASSUME Nobody, SendInv, NEW a \in asks, Mine!AskStep(a)
  PROVE  SendInv'
<1>a. /\ a \in Mine!Ask /\ a.file \in Files \cup {None} /\ a.who \in People \cup {None} /\ a.said \subseteq Files
      /\ (a.at \in {"call", "said"} => a.who # None)
  BY DEF SendInv, Asks, Admitted, Mine!Ask
<1>s. UNCHANGED <<cookie, form, pick, panel, unsaid, xhr, ups, turns>>
  BY DEF Mine!AskStep, Mine!AskLands, Mine!AskHeard, Mine!HostSays, Mine!ListSaid, Mine!DeleteSaid, Mine!AskLost,
         Mine!session, Mine!upload
<1>1. CASE Mine!AskLands(a)
  <2> DEFINE b == [a EXCEPT !.at = "answer", !.who = cookie]
  <2>1. b \in Mine!Ask /\ b.at = "answer"
    BY <1>a DEF SendInv, Scalars, Mine!Ask
  <2>2. asks' = (asks \ {a}) \cup {b}
    BY <1>1 DEF Mine!AskLands
  <2> HIDE DEF b
  <2>3. Asks' /\ Admitted'
    BY <2>1, <2>2 DEF SendInv, Asks, Admitted
  <2>4. Scalars' /\ Flags' /\ Records'
    BY <1>1 DEF Mine!AskLands, Mine!session, Mine!upload, SendInv, Scalars, Flags, Records
  <2> QED BY <1>s, <2>3, <2>4, AskSends
<1>2. CASE Mine!AskHeard(a) /\ a.who # None
  <2> DEFINE b == [a EXCEPT !.at = "call"]
  <2>1. b \in Mine!Ask /\ b.who = a.who
    BY <1>a DEF Mine!Ask
  <2>2. asks' = (asks \ {a}) \cup {b}
    BY <1>2 DEF Mine!AskHeard
  <2> HIDE DEF b
  <2>3. Asks' /\ Admitted'
    BY <1>2, <2>1, <2>2 DEF SendInv, Asks, Admitted
  <2>4. Scalars' /\ Flags' /\ Records'
    BY <1>2 DEF Mine!AskHeard, Mine!upload, SendInv, Scalars, Flags, Records
  <2> QED BY <1>s, <2>3, <2>4, AskSends
<1>3. CASE Mine!AskHeard(a) /\ a.who = None
  <2>1. /\ asks' = asks \ {a} /\ me' = None /\ stale' = TRUE /\ list' = Mine!NoList
        /\ shelf' = shelf /\ gone' = gone
    BY <1>3 DEF Mine!AskHeard, Mine!Lapse
  <2>2. Asks' /\ Admitted'
    BY <2>1 DEF SendInv, Asks, Admitted
  <2>3. Scalars' /\ Records'
    BY <1>s, <2>1 DEF SendInv, Scalars, Records, Mine!NoList
  <2>4. Flags'
    BY <1>s, <2>1 DEF SendInv, Flags
  <2> QED BY <1>s, <2>2, <2>3, <2>4, AskSends
<1>4. CASE Mine!HostSays(a)
  <2> DEFINE own == {s.file : s \in {s \in shelf : s.who = a.who}}
             b == [a EXCEPT !.at = "said", !.said = own]
  <2>1. own \subseteq Files
    BY DEF SendInv, Records, Holdings
  <2>2. b \in Mine!Ask /\ b.who = a.who /\ a.who # None
    BY <1>a, <1>4, <2>1 DEF Mine!Ask, Mine!HostSays
  <2>3. asks' = (asks \ {a}) \cup {b} /\ shelf' \subseteq shelf /\ UNCHANGED <<cookie, me, form, list, stale, gone, turns>>
    BY <1>4 DEF Mine!HostSays, Mine!session
  <2> HIDE DEF b
  <2>4. Asks' /\ Admitted'
    BY <2>2, <2>3 DEF SendInv, Asks, Admitted
  <2>5. Scalars' /\ Flags' /\ Records'
    BY <1>s, <2>3 DEF SendInv, Scalars, Flags, Records
  <2> QED BY <1>s, <2>4, <2>5, AskSends
<1>5. CASE Mine!ListSaid(a)
  <2>1. /\ asks' = asks \ {a} /\ UNCHANGED <<me, shelf, gone>> /\ list' \in {list, [who |-> a.who, files |-> a.said]}
    BY <1>5 DEF Mine!ListSaid, Mine!session
  <2>2. Asks' /\ Admitted'
    BY <2>1 DEF SendInv, Asks, Admitted
  <2>3. Scalars' /\ Records'
    BY <1>a, <1>s, <2>1 DEF SendInv, Scalars, Records
  <2>4. stale' = FALSE \/ stale' = stale
    BY <1>5, Zenon DEF Mine!ListSaid
  <2>5. Flags'
    BY <1>s, <2>4 DEF SendInv, Flags
  <2> QED BY <1>s, <2>2, <2>3, <2>5, AskSends
<1>6. CASE Mine!DeleteSaid(a)
  <2>1. /\ asks' = {[b EXCEPT !.live = FALSE] : b \in asks \ {a}} \cup {Mine!New(None)}
        /\ stale' = TRUE /\ gone' \subseteq gone \cup {[file |-> a.file, who |-> a.who]}
        /\ UNCHANGED <<me, shelf, list>>
    BY <1>6 DEF Mine!DeleteSaid, Mine!session
  <2>2. Asks' /\ Admitted'
    BY <2>1, RunsKeep
  <2>3. [file |-> a.file, who |-> a.who] \in Holdings
    BY <1>a, <1>6 DEF Mine!DeleteSaid, Holdings
  <2>4. Scalars' /\ Records'
    BY <1>s, <2>1, <2>3 DEF SendInv, Scalars, Records
  <2>5. Flags'
    BY <1>s, <2>1 DEF SendInv, Flags
  <2> QED BY <1>s, <2>2, <2>4, <2>5, AskSends
<1>7. CASE Mine!AskLost(a)
  <2>1. Asks' /\ Admitted'
    BY <1>7 DEF Mine!AskLost, SendInv, Asks, Admitted
  <2>2. Scalars' /\ Flags' /\ Records'
    BY <1>s, <1>7 DEF Mine!AskLost, Mine!session, SendInv, Scalars, Flags, Records
  <2> QED BY <1>s, <2>1, <2>2, AskSends
<1> QED BY <1>1, <1>2, <1>3, <1>4, <1>5, <1>6, <1>7 DEF Mine!AskStep

LEMMA SendStep == Nobody /\ SendInv /\ [Mine!Next]_(Mine!vars) => SendInv'
<1> SUFFICES ASSUME Nobody, SendInv, [Mine!Next]_(Mine!vars) PROVE SendInv'
  OBVIOUS
<1>1. CASE UNCHANGED Mine!vars
  BY <1>1 DEF Mine!vars, Mine!session, Mine!upload, Mine!library, SendInv, Scalars, Flags, Records, Uploads, Asks,
       Picked, Ticketed, Admitted, SendingIsSent, Mine!SendingIsSent
<1>2. CASE Mine!Next
  BY <1>2, GateSends, PickSends, SendSends, StopSends, UploadsSend, AskedSends, AsksSend DEF Mine!Next
<1> QED BY <1>1, <1>2

\* What is gone only shrinks, and the list is left, or stale.
LEMMA GoneSame ==
  ASSUME GoneInv, gone' \subseteq gone, NotOnShelf',
         stale' = TRUE \/ (list' = list /\ stale' = stale),
         \A b \in asks' : b \in asks \/ b.live = FALSE \/ b.at # "said"
  PROVE  NotOnShelf' /\ NotInAnswer' /\ NotInList'
<1>1. NotInAnswer'
  BY DEF GoneInv, NotInAnswer
<1>2. NotInList'
  BY DEF GoneInv, NotInList
<1> QED BY <1>1, <1>2

LEMMA GoneStays ==
  ASSUME GoneInv, gone' = gone, shelf' \subseteq shelf
  PROVE  NotOnShelf'
BY DEF GoneInv, NotOnShelf

LEMMA UploadsGone ==
  ASSUME Nobody, GoneInv, NEW u \in ups, Mine!UpStep(u)
  PROVE  NotOnShelf' /\ NotInAnswer' /\ NotInList'
<1>a. asks' = asks
  BY DEF Mine!UpStep, Mine!TicketLands, Mine!TicketHeard, Mine!TicketLost, Mine!Progress, Mine!HostDecides, Mine!Sent,
         Mine!SendFails, Mine!session, Mine!library
<1>1. CASE Mine!HostDecides(u)
  <2>1. /\ list' = list /\ stale' = stale
        /\ \/ /\ shelf' = shelf \cup {[file |-> u.file, who |-> u.who]}
              /\ gone' = gone \ {[file |-> u.file, who |-> u.who]}
           \/ shelf' = shelf /\ gone' = gone
    BY <1>1 DEF Mine!HostDecides
  <2>2. gone' \subseteq gone /\ NotOnShelf'
    BY <2>1 DEF GoneInv, NotOnShelf
  <2> QED BY <1>a, <2>1, <2>2, GoneSame
<1>2. CASE Mine!TicketHeard(u)
  <2>1. gone' = gone /\ shelf' = shelf /\ (stale' = TRUE \/ (list' = list /\ stale' = stale))
    BY <1>2 DEF Mine!TicketHeard, Mine!Lapse
  <2> QED BY <1>a, <2>1, GoneSame, GoneStays
<1>3. CASE ~Mine!HostDecides(u) /\ ~Mine!TicketHeard(u)
  <2>1. gone' = gone /\ shelf' = shelf /\ list' = list /\ (stale' = TRUE \/ stale' = stale)
    BY <1>3 DEF Mine!UpStep, Mine!TicketLands, Mine!TicketLost, Mine!Progress, Mine!Sent, Mine!SendFails, Mine!library
  <2> QED BY <1>a, <2>1, GoneSame, GoneStays
<1> QED BY <1>1, <1>2, <1>3

LEMMA AsksGone ==
  ASSUME Nobody, GoneInv, NEW a \in asks, Mine!AskStep(a)
  PROVE  NotOnShelf' /\ NotInAnswer' /\ NotInList'
<1>a. a \in Mine!Ask /\ shelf \subseteq Holdings
  BY DEF GoneInv, SendInv, Asks, Records
<1>1. CASE Mine!AskLands(a) \/ Mine!AskLost(a) \/ (Mine!AskHeard(a) /\ a.who # None)
  <2>1. [a EXCEPT !.at = "answer", !.who = cookie].at # "said" /\ [a EXCEPT !.at = "call"].at # "said"
    BY <1>a DEF Mine!Ask
  <2>2. \A b \in asks' : b \in asks \/ b.at # "said"
    BY <1>1, <2>1 DEF Mine!AskLands, Mine!AskLost, Mine!AskHeard
  <2>3. gone' = gone /\ shelf' = shelf /\ list' = list /\ stale' = stale
    BY <1>1 DEF Mine!AskLands, Mine!AskLost, Mine!AskHeard
  <2> QED BY <2>2, <2>3, GoneSame, GoneStays
<1>2. CASE Mine!AskHeard(a) /\ a.who = None
  <2>1. asks' \subseteq asks /\ gone' = gone /\ shelf' = shelf /\ stale' = TRUE
    BY <1>2 DEF Mine!AskHeard, Mine!Lapse
  <2> QED BY <2>1, GoneSame, GoneStays
<1>3. CASE Mine!HostSays(a)
  <2> DEFINE own == {s.file : s \in {s \in shelf : s.who = a.who}}
             b == [a EXCEPT !.at = "said", !.said = own]
  <2>1. asks' = (asks \ {a}) \cup {b} /\ gone' = gone /\ list' = list /\ stale' = stale /\ shelf' \subseteq shelf
    BY <1>3 DEF Mine!HostSays
  <2>2. b.said = own /\ b.who = a.who
    BY <1>a DEF Mine!Ask
  <2>3. ASSUME NEW f \in own PROVE [file |-> f, who |-> a.who] \notin gone
    <3>1. PICK s \in shelf : s.who = a.who /\ s.file = f
      OBVIOUS
    <3>2. s = [file |-> f, who |-> a.who]
      BY <1>a, <3>1 DEF Holdings
    <3> QED BY <3>2 DEF GoneInv, NotOnShelf
  <2> HIDE DEF b, own
  <2>4. NotInAnswer'
    BY <2>1, <2>2, <2>3 DEF GoneInv, NotInAnswer
  <2>5. NotInList'
    BY <2>1 DEF GoneInv, NotInList
  <2> QED BY <2>1, <2>4, <2>5, GoneStays
<1>4. CASE Mine!ListSaid(a) /\ a.live
  <2>1. asks' \subseteq asks /\ gone' = gone /\ shelf' = shelf /\ list' = [who |-> a.who, files |-> a.said]
    BY <1>4 DEF Mine!ListSaid
  <2>2. NotInAnswer'
    BY <2>1 DEF GoneInv, NotInAnswer
  <2>3. \A f \in a.said : [file |-> f, who |-> a.who] \notin gone
    BY <1>4 DEF Mine!ListSaid, GoneInv, NotInAnswer
  <2>4. NotInList'
    BY <2>1, <2>3 DEF NotInList
  <2> QED BY <2>1, <2>2, <2>4, GoneStays
<1>5. CASE Mine!ListSaid(a) /\ ~a.live
  <2>1. asks' \subseteq asks /\ gone' = gone /\ shelf' = shelf /\ list' = list /\ stale' = stale
    BY <1>5 DEF Mine!ListSaid
  <2> QED BY <2>1, GoneSame, GoneStays
<1>6. CASE Mine!DeleteSaid(a)
  <2>1. /\ asks' \subseteq {[b EXCEPT !.live = FALSE] : b \in asks \ {a}} \cup {Mine!New(None)}
        /\ stale' = TRUE /\ shelf' = shelf /\ gone' \cap shelf = {}
    BY <1>6 DEF Mine!DeleteSaid
  <2>2. \A b \in asks' : b.live = FALSE \/ b.at = "ticket"
    BY <2>1, RunsKeep DEF GoneInv
  <2>3. NotInAnswer'
    BY <2>2 DEF NotInAnswer
  <2>4. NotOnShelf' /\ NotInList'
    BY <2>1 DEF NotOnShelf, NotInList
  <2> QED BY <2>3, <2>4
<1> QED BY <1>1, <1>2, <1>3, <1>4, <1>5, <1>6 DEF Mine!AskStep

LEMMA GoneStep == Nobody /\ GoneInv /\ [Mine!Next]_(Mine!vars) => GoneInv'
<1> SUFFICES ASSUME Nobody, GoneInv, [Mine!Next]_(Mine!vars) PROVE GoneInv'
  OBVIOUS
<1>s. SendInv'
  BY SendStep DEF GoneInv
<1>1. CASE UNCHANGED Mine!vars
  BY <1>1, <1>s, GoneSame, GoneStays DEF Mine!vars, Mine!session, Mine!upload, Mine!library, GoneInv
<1>2. CASE Mine!Submit \/ Mine!Answered \/ Mine!Leave \/ Mine!Left \/ Mine!Expires
  <2>1. /\ asks' = asks /\ gone' = gone /\ shelf' = shelf
        /\ stale' = TRUE \/ (list' = list /\ stale' = stale)
    BY <1>2 DEF Mine!Submit, Mine!Answered, Mine!Leave, Mine!Left, Mine!Expires, Mine!Lapse, Mine!library
  <2> QED BY <1>s, <2>1, GoneSame, GoneStays DEF GoneInv
<1>3. CASE Mine!Send \/ Mine!Stop \/ \E f \in Files : Mine!Pick(f)
  <2>1. asks' = asks /\ gone' = gone /\ shelf' = shelf /\ list' = list /\ stale' = stale
    BY <1>3 DEF Mine!Send, Mine!Stop, Mine!Pick, Mine!library
  <2> QED BY <1>s, <2>1, GoneSame, GoneStays DEF GoneInv
<1>4. CASE \E f \in Files : Mine!Delete(f)
  <2>1. gone' = gone /\ shelf' = shelf /\ list' = list /\ stale' = stale
    BY <1>4 DEF Mine!Delete
  <2>2. \A b \in asks' : b \in asks \/ b.at # "said"
    BY <1>4, NewAsk DEF Mine!Delete
  <2> QED BY <1>s, <2>1, <2>2, GoneSame, GoneStays DEF GoneInv
<1>5. CASE \E force \in BOOLEAN : Mine!Open(force)
  <2>1. gone' = gone /\ shelf' = shelf /\ list' = list /\ stale' = stale
    BY <1>5 DEF Mine!Open
  <2>2. asks' \subseteq {[b EXCEPT !.live = FALSE] : b \in asks} \cup {Mine!New(None)}
    BY <1>5 DEF Mine!Open, Mine!Outrun
  <2>3. \A b \in asks' : b.live = FALSE \/ b.at = "ticket"
    BY <2>2, RunsKeep DEF GoneInv
  <2> QED BY <1>s, <2>1, <2>3, GoneSame, GoneStays DEF GoneInv
<1>6. CASE \E u \in ups : Mine!UpStep(u)
  BY <1>6, <1>s, UploadsGone DEF GoneInv
<1>7. CASE \E a \in asks : Mine!AskStep(a)
  BY <1>7, <1>s, AsksGone DEF GoneInv
<1> QED BY <1>1, <1>2, <1>3, <1>4, <1>5, <1>6, <1>7 DEF Mine!Next

LEMMA FilesInvariance == Nobody /\ Mine!Spec => []GoneInv
<1> SUFFICES ASSUME Nobody PROVE Mine!Spec => []GoneInv
  OBVIOUS
<1>1. Mine!Init => GoneInv
  BY SendFirst DEF GoneInv, Mine!Init, NotOnShelf, NotInAnswer, NotInList
<1>2. GoneInv /\ [Mine!Next]_(Mine!vars) => GoneInv'
  BY GoneStep
<1> QED BY <1>1, <1>2, PTL DEF Mine!Spec

\* The variables of the person's files keep their types.
THEOREM FilesTypeCorrect == Nobody /\ Mine!Spec => []Mine!TypeOK
<1>1. GoneInv => Mine!TypeOK
  BY TypesAre DEF GoneInv, SendInv
<1> QED BY <1>1, FilesInvariance, PTL

\* "Sending" is shown while something is sent, however tickets, answers, refusals and
\* Stop fall between each other: every end of an upload draws the panel again, but for
\* the one that finds the session lapsed (app.js upload).
THEOREM ShownIsSent == Nobody /\ Mine!Spec => []SendingIsSent
<1>1. GoneInv => SendingIsSent
  BY DEF GoneInv, SendInv
<1> QED BY <1>1, FilesInvariance, PTL

\* A list that was read before a deletion never brings the file back on screen: the
\* deletion outruns every list that is on its way (app.js renderLibrary's run token).
THEOREM DeletionsStay == Nobody /\ Mine!Spec => []DeletedStaysGone
<1>1. GoneInv => DeletedStaysGone
  BY DEF GoneInv, NotInList, DeletedStaysGone, Mine!DeletedStaysGone
<1> QED BY <1>1, FilesInvariance, PTL

-----------------------------------------------------------------------------
(* What a scan in a browser offers: DeepScan. *)

CONSTANTS Pages, Frames, AdFrames, Film, TypeOf, Lists, Masters, MaxLooks, MaxFound

VARIABLES arrival, top, frames, playing, asked, served, found, handed, pending, segments, lost, evidence, saw, pokes,
          todo, at, looks, answer

Deep == INSTANCE DeepScan

PartsLeftOut  == Deep!PartsLeftOut
ToldWhatItSaw == Deep!ToldWhatItSaw

\* A playlist says that it is one, by its name or by the type its server declares.
ListsAreTold == \A p \in DOMAIN Lists : p.suffix = "m3u8" \/ TypeOf[p] = "mpegurl"

\* There is no answer before the end.
Unanswered == at # "answered" => answer = None

\* What a playlist that was answered lists is known, unless its body is still to come or
\* never came.
ListsAreRead ==
  \A p \in (served \cap DOMAIN Lists) \ Masters : lost \/ p \in pending \/ Lists[p] \subseteq segments

PartsInv == Unanswered /\ ListsAreRead /\ PartsLeftOut

\* Nothing that bears on the answer moves: it is looked at, or poked.
LEMMA PartsSame ==
  ASSUME PartsInv, at # "answered", at' # "answered", UNCHANGED <<served, pending, segments, lost, answer>>
  PROVE  PartsInv'
BY DEF PartsInv, Unanswered, ListsAreRead, PartsLeftOut, Deep!PartsLeftOut

LEMMA PartsStep == ListsAreTold /\ PartsInv /\ [Deep!Next]_(Deep!vars) => PartsInv'
<1> SUFFICES ASSUME ListsAreTold, PartsInv, [Deep!Next]_(Deep!vars) PROVE PartsInv'
  OBVIOUS
<1>1. CASE UNCHANGED Deep!vars
  BY <1>1 DEF Deep!vars, Deep!wire, PartsInv, Unanswered, ListsAreRead, PartsLeftOut, Deep!PartsLeftOut
<1>2. CASE Deep!Opens \/ Deep!Sample \/ Deep!Reads \/ Deep!Rests
  <2>1. at # "answered" /\ at' # "answered" /\ UNCHANGED <<served, pending, segments, lost, answer>>
    BY <1>2 DEF Deep!Opens, Deep!Sample, Deep!Reads, Deep!Rests, Deep!wire
  <2> QED BY <2>1, PartsSame
<1>3. CASE (\E f \in Frames : Deep!Boots(f)) \/ (\E d \in todo : Deep!Pokes(d) \/ Deep!Skips(d)) \/ (\E a \in Deep!Wanted : Deep!AsksFor(a))
  <2>1. at # "answered" /\ at' = at /\ UNCHANGED <<served, pending, segments, lost, answer>>
    BY <1>3 DEF Deep!Boots, Deep!Pokes, Deep!Skips, Deep!AsksFor, Deep!wire, Deep!Alive
  <2> QED BY <2>1, PartsSame
<1>4. ASSUME NEW a \in asked, Deep!Answers(a) PROVE PartsInv'
  <2>1. /\ at # "answered" /\ at' = at /\ served' = served \cup {a} /\ UNCHANGED <<segments, lost, answer>>
        /\ pending' = pending \cup {p \in {a} : a.suffix = "m3u8" \/ TypeOf[a] = "mpegurl"}
    BY <1>4 DEF Deep!Answers, Deep!Alive
  <2>2. ListsAreRead'
    BY <2>1 DEF PartsInv, ListsAreTold, ListsAreRead
  <2> QED BY <2>1, <2>2 DEF PartsInv, Unanswered, PartsLeftOut, Deep!PartsLeftOut
<1>5. ASSUME NEW a \in pending, Deep!BodyLands(a) PROVE PartsInv'
  <2>1. /\ at # "answered" /\ at' = at /\ UNCHANGED <<served, lost, answer>> /\ pending' = pending \ {a}
        /\ segments' = segments \cup (IF a \in Masters THEN {} ELSE Lists[a])
    BY <1>5 DEF Deep!BodyLands, Deep!Alive
  <2>2. ListsAreRead'
    BY <2>1 DEF PartsInv, ListsAreRead
  <2> QED BY <2>1, <2>2 DEF PartsInv, Unanswered, PartsLeftOut, Deep!PartsLeftOut
<1>6. ASSUME NEW a \in pending, Deep!BodyLost(a) PROVE PartsInv'
  <2>1. at # "answered" /\ at' = at /\ lost' = TRUE /\ answer' = answer
    BY <1>6 DEF Deep!BodyLost, Deep!Alive
  <2> QED BY <2>1 DEF PartsInv, Unanswered, ListsAreRead, PartsLeftOut, Deep!PartsLeftOut
<1>7. CASE Deep!Dies
  <2>1. /\ at' = "answered" /\ answer'.media = {} /\ UNCHANGED <<served, pending, segments, lost>>
    BY <1>7 DEF Deep!Dies, Deep!wire
  <2> QED BY <2>1 DEF PartsInv, Unanswered, ListsAreRead, PartsLeftOut, Deep!PartsLeftOut
<1>8. CASE Deep!Says
  <2> DEFINE kept == {a \in DOMAIN found : Deep!Offerable(a, found[a], segments)}
  <2>1. /\ at' = "answered" /\ lost' = (lost \/ pending # {}) /\ answer'.media = kept
        /\ UNCHANGED <<served, pending, segments>>
    BY <1>8 DEF Deep!Says
  <2>2. kept \cap segments = {}
    BY DEF Deep!Offerable
  <2> HIDE DEF kept
  <2>3. ListsAreRead'
    BY <2>1 DEF PartsInv, ListsAreRead
  <2>4. PartsLeftOut'
    BY <2>1, <2>2 DEF PartsInv, ListsAreRead, PartsLeftOut, Deep!PartsLeftOut
  <2> QED BY <2>1, <2>3, <2>4 DEF PartsInv, Unanswered
<1> QED BY <1>1, <1>2, <1>3, <1>4, <1>5, <1>6, <1>7, <1>8 DEF Deep!Next

\* When every playlist's body came, nothing a playlist lists is offered as a film, however
\* early it was captured and whatever its name (api/scan.js, the filter after the wait).
THEOREM NoPartIsOffered == ListsAreTold /\ Deep!Spec => []PartsLeftOut
<1> SUFFICES ASSUME ListsAreTold PROVE Deep!Spec => []PartsLeftOut
  OBVIOUS
<1>1. Deep!Init => PartsInv
  BY DEF Deep!Init, PartsInv, Unanswered, ListsAreRead, PartsLeftOut, Deep!PartsLeftOut
<1>2. PartsInv /\ [Deep!Next]_(Deep!vars) => PartsInv'
  BY PartsStep
<1>3. PartsInv => PartsLeftOut
  BY DEF PartsInv
<1> QED BY <1>1, <1>2, <1>3, PTL DEF Deep!Spec

\* What is held for seen is what some sample saw, and never less.
Evidence == {"player", "embed", "wall"}
HeldIsSeen ==
  /\ DOMAIN evidence = Evidence /\ saw \subseteq Evidence
  /\ \A what \in Evidence : evidence[what] <=> what \in saw

SeenInv == Unanswered /\ HeldIsSeen /\ ToldWhatItSaw

LEMMA SeenStep == SeenInv /\ [Deep!Next]_(Deep!vars) => SeenInv'
<1> SUFFICES ASSUME SeenInv, [Deep!Next]_(Deep!vars) PROVE SeenInv'
  OBVIOUS
<1>1. CASE UNCHANGED Deep!vars
  BY <1>1 DEF Deep!vars, SeenInv, Unanswered, HeldIsSeen, ToldWhatItSaw, Deep!ToldWhatItSaw
<1>2. CASE Deep!Sample
  <2>1. /\ at # "answered" /\ at' # "answered" /\ answer' = answer
        /\ evidence' = [what \in DOMAIN evidence |-> evidence[what] \/ Deep!Seen(what)]
        /\ saw' = saw \cup {what \in DOMAIN evidence : Deep!Seen(what)}
    BY <1>2 DEF Deep!Sample
  <2>2. HeldIsSeen'
    BY <2>1 DEF SeenInv, HeldIsSeen
  <2> QED BY <2>1, <2>2 DEF SeenInv, Unanswered, ToldWhatItSaw, Deep!ToldWhatItSaw
<1>3. CASE Deep!Dies
  <2>1. at' = "answered" /\ answer'.why = "unfinished" /\ UNCHANGED <<evidence, saw>>
    BY <1>3 DEF Deep!Dies
  <2> QED BY <2>1 DEF SeenInv, Unanswered, HeldIsSeen, ToldWhatItSaw, Deep!ToldWhatItSaw
<1>4. CASE Deep!Says
  <2>1. at' = "answered" /\ answer'.why \in {"found", Deep!Verdict} /\ UNCHANGED <<evidence, saw>>
    BY <1>4 DEF Deep!Says
  <2>2. /\ "wall" \in saw => Deep!Verdict = "walled"
        /\ "wall" \notin saw => Deep!Verdict \in {"nothing", "elsewhere", "quiet"}
        /\ Deep!Verdict = "nothing" => saw = {}
        /\ Deep!Verdict = "elsewhere" => "player" \notin saw
    BY DEF SeenInv, HeldIsSeen, Deep!Verdict, Evidence
  <2>3. ToldWhatItSaw'
    BY <2>1, <2>2 DEF ToldWhatItSaw, Deep!ToldWhatItSaw
  <2> QED BY <2>1, <2>3 DEF SeenInv, Unanswered, HeldIsSeen
<1>5. CASE Deep!Next /\ ~Deep!Sample /\ ~Deep!Dies /\ ~Deep!Says
  <2>1. at # "answered" /\ at' # "answered" /\ UNCHANGED <<evidence, saw, answer>>
    BY <1>5 DEF Deep!Next, Deep!Opens, Deep!Reads, Deep!Rests, Deep!Boots, Deep!Pokes, Deep!Skips, Deep!AsksFor,
         Deep!Answers, Deep!BodyLands, Deep!BodyLost, Deep!Alive
  <2> QED BY <2>1 DEF SeenInv, Unanswered, HeldIsSeen, ToldWhatItSaw, Deep!ToldWhatItSaw
<1> QED BY <1>1, <1>2, <1>3, <1>4, <1>5

\* Whatever the pokes did to the page since, a refusal that a sample saw is told as one, and
\* a player that was there is not told as an embed or as nothing (api/scan.js: the counts
\* only rise, and the first refusal stays).
THEOREM ToldAsSeen == Deep!Spec => []ToldWhatItSaw
<1>1. Deep!Init => SeenInv
  BY DEF Deep!Init, SeenInv, Unanswered, HeldIsSeen, Evidence, ToldWhatItSaw, Deep!ToldWhatItSaw
<1>2. SeenInv => ToldWhatItSaw
  BY DEF SeenInv
<1> QED BY <1>1, <1>2, SeenStep, PTL DEF Deep!Spec

-----------------------------------------------------------------------------
(* What is said of each address: Probe. *)

CONSTANTS Streams, HostOf, Width, Samples

VARIABLES out, left, got, next, shown

Table == INSTANCE Probe
Rows  == 1..Len(Streams)

UnmarkedIsExact == Table!UnmarkedIsExact

\* None is not said of where a size comes from, nor shown as a mark; a stream is live or not.
Tellable ==
  /\ None \notin {"measured", "exact"}
  /\ \A i \in Rows : Streams[i].live \in BOOLEAN

Fields == {"length", "live", "bytes", "basis", "failed"}

\* What is said of a size that was measured, and what is not said before a list is read.
Measured(o, i) == o.basis = "measured" => o.bytes = HostOf[Streams[i].size].total
Listed(i) == Streams[i].live /\ Streams[i].named \in {"HLS", "DASH"}

\* What is shown of an answer is exact as the property says it is.
Exact(r, i) == r # None =>
  /\ r.size # None /\ r.mark = "exact" => r.size = HostOf[Streams[i].size].total
  /\ Listed(i) => r.size = None /\ r.length = None

RowTrue(i) ==
  /\ DOMAIN out[i] = Fields /\ Measured(out[i], i)
  /\ at[i] \in {"waiting", "asked", "playlist"} => out[i] = Table!Blank
  /\ Listed(i) => at[i] \in {"waiting", "asked", "playlist", "shown"}
  /\ Exact(shown[i], i)

\* Rows are asked about in their order.
Queue == next \in Nat /\ \A j \in Rows : at[j] = "waiting" <=> j >= next

ProbeInv ==
  /\ DOMAIN at = Rows /\ DOMAIN out = Rows /\ DOMAIN shown = Rows
  /\ Queue
  /\ \A i \in Rows : RowTrue(i)

\* Blank says nothing, and a failure is shown as nothing.
LEMMA BlankIs ==
  ASSUME Tellable
  PROVE  /\ DOMAIN Table!Blank = Fields /\ Table!Blank.bytes = None /\ Table!Blank.length = None /\ Table!Blank.basis = None
BY DEF Table!Blank, Fields

\* A row that is filled in shows what is exact, if the answer was true and says that a list
\* is live which is.
LEMMA ShownExact ==
  ASSUME Tellable, NEW i \in Rows, NEW o, DOMAIN o = Fields, Measured(o, i),
         Listed(i) => o.failed \/ o.live \/ (o.bytes = None /\ o.length = None)
  PROVE  Exact(Table!Shows(o), i)
<1>1. CASE o.failed \/ o.live
  <2>1. Table!Shows(o) = [length |-> None, live |-> o.live, size |-> None, mark |-> None]
    BY <1>1 DEF Table!Shows
  <2>2. Table!Shows(o).size = None /\ Table!Shows(o).length = None
    BY <2>1
  <2> QED BY <2>2 DEF Exact
<1>2. CASE ~(o.failed \/ o.live)
  <2>1. Table!Shows(o) = [length |-> o.length, live |-> FALSE, size |-> o.bytes, mark |-> IF o.basis = "measured" THEN "exact" ELSE "about"]
    BY <1>2 DEF Table!Shows
  <2>2. /\ Table!Shows(o).size = o.bytes /\ Table!Shows(o).length = o.length
        /\ Table!Shows(o).mark = "exact" => o.basis = "measured"
    BY <2>1
  <2> QED BY <1>2, <2>2 DEF Exact, Measured
<1> QED BY <1>1, <1>2

\* One row's answer is new, and the others' are not.
Answered(i, q) ==
  DOMAIN out' = Rows /\ out'[i] = q /\ \A j \in Rows \ {i} : out'[j] = out[j]

LEMMA OneAnswer ==
  ASSUME ProbeInv, NEW i \in Rows, NEW q, out' = [out EXCEPT ![i] = q]
  PROVE  Answered(i, q)
BY DEF ProbeInv, Answered

\* The row is filled in; another may be asked about.
LEMMA SettlesTrue ==
  ASSUME Tellable, ProbeInv, NEW i \in Rows, NEW o, Table!Settles(i, o), at[i] # "waiting", Exact(Table!Shows(o), i),
         NEW q, DOMAIN q = Fields, Measured(q, i), Answered(i, q)
  PROVE  ProbeInv'
<1>0. next \in Nat /\ i \in Nat /\ i < next
  BY DEF ProbeInv, Queue, Rows
<1>1. DOMAIN at' = Rows /\ DOMAIN out' = Rows /\ DOMAIN shown' = Rows
  BY DEF ProbeInv, Answered, Table!Settles
<1>2. /\ at'[i] = "shown" /\ out'[i] = q /\ shown'[i] = Table!Shows(o)
      /\ \A j \in Rows \ {i} :
           /\ out'[j] = out[j] /\ shown'[j] = shown[j]
           /\ at'[j] = at[j] \/ (at[j] = "waiting" /\ at'[j] = "asked")
  BY <1>0 DEF ProbeInv, Queue, Answered, Table!Settles, Table!Rows, Rows
<1>3. Queue'
  <2>1. CASE next \in Rows
    <3>1. next' = next + 1 /\ \A j \in Rows : at'[j] = IF j = next THEN "asked" ELSE IF j = i THEN "shown" ELSE at[j]
      BY <2>1, <1>0 DEF Table!Settles, Table!Rows, Rows, ProbeInv
    <3> QED BY <1>0, <3>1 DEF ProbeInv, Queue, Rows
  <2>2. CASE next \notin Rows
    <3>1. next' = next /\ \A j \in Rows : at'[j] = IF j = i THEN "shown" ELSE at[j]
      BY <2>2, <1>0 DEF Table!Settles, Table!Rows, Rows, ProbeInv
    <3> QED BY <1>0, <3>1 DEF ProbeInv, Queue, Rows
  <2> QED BY <2>1, <2>2
<1>4. RowTrue(i)'
  BY <1>2 DEF RowTrue, Measured, Exact, Listed
<1>5. ASSUME NEW j \in Rows, j # i PROVE RowTrue(j)'
  <2>1. RowTrue(j)
    BY DEF ProbeInv
  <2> QED BY <1>2, <1>5, <2>1 DEF RowTrue, Measured, Exact, Listed
<1> QED BY <1>1, <1>3, <1>4, <1>5 DEF ProbeInv

\* One row goes on to its next question.
LEMMA GoesTrue ==
  ASSUME Tellable, ProbeInv, NEW i \in Rows, at[i] # "waiting", NEW where, where # "waiting",
         NEW q, DOMAIN q = Fields, Measured(q, i), Table!Goes(i, where, q),
         where \in {"asked", "playlist"} => q = Table!Blank,
         Listed(i) => where \in {"asked", "playlist", "shown"}
  PROVE  ProbeInv'
<1>1. DOMAIN at' = Rows /\ DOMAIN out' = Rows /\ DOMAIN shown' = Rows /\ next' = next
  BY DEF ProbeInv, Table!Goes
<1>2. /\ at'[i] = where /\ out'[i] = q /\ shown'[i] = shown[i]
      /\ \A j \in Rows \ {i} : out'[j] = out[j] /\ shown'[j] = shown[j] /\ at'[j] = at[j]
  BY DEF ProbeInv, Table!Goes
<1>3. Queue'
  BY <1>1, <1>2 DEF ProbeInv, Queue
<1>4. RowTrue(i)'
  BY <1>2 DEF ProbeInv, RowTrue, Measured, Exact, Listed
<1>5. ASSUME NEW j \in Rows, j # i PROVE RowTrue(j)'
  <2>1. RowTrue(j)
    BY DEF ProbeInv
  <2> QED BY <1>2, <1>5, <2>1 DEF RowTrue, Measured, Exact, Listed
<1> QED BY <1>1, <1>3, <1>4, <1>5 DEF ProbeInv

\* An answer of which one or two things were said anew.
LEMMA Said ==
  ASSUME NEW o, DOMAIN o = Fields, NEW l, NEW v, NEW b, NEW s
  PROVE  /\ DOMAIN [o EXCEPT !.length = l, !.live = v] = Fields
         /\ [o EXCEPT !.length = l, !.live = v].length = l /\ [o EXCEPT !.length = l, !.live = v].live = v
         /\ [o EXCEPT !.length = l, !.live = v].bytes = o.bytes /\ [o EXCEPT !.length = l, !.live = v].basis = o.basis
         /\ DOMAIN [o EXCEPT !.bytes = b, !.basis = s] = Fields
         /\ [o EXCEPT !.bytes = b, !.basis = s].bytes = b /\ [o EXCEPT !.bytes = b, !.basis = s].basis = s
         /\ DOMAIN [o EXCEPT !.length = l] = Fields
         /\ [o EXCEPT !.length = l].bytes = o.bytes /\ [o EXCEPT !.length = l].basis = o.basis
BY DEF Fields

\* What is unchanged in a row that settles with what it had.
LEMMA SameAnswer ==
  ASSUME ProbeInv, NEW i \in Rows, out' = out
  PROVE  DOMAIN out[i] = Fields /\ Measured(out[i], i) /\ Answered(i, out[i])
BY DEF ProbeInv, RowTrue, Answered

LEMMA TotalIs == \A u : Table!Total(u) # None => Table!Total(u) = HostOf[u].total
<1> SUFFICES ASSUME NEW u, Table!Total(u) # None PROVE Table!Total(u) = HostOf[u].total
  OBVIOUS
<1>1. CASE HostOf[u].answers = "range"
  BY <1>1 DEF Table!Total
<1>2. CASE HostOf[u].answers = "whole"
  BY <1>2 DEF Table!Total
<1>3. CASE HostOf[u].answers # "range" /\ HostOf[u].answers # "whole"
  <2>1. Table!Total(u) = None
    BY <1>3 DEF Table!Total
  <2> QED BY <2>1
<1> QED BY <1>1, <1>2, <1>3

\* The list, by its name.
LEMMA ListKeeps ==
  ASSUME Tellable, ProbeInv, NEW i \in Rows,
         Table!Fails(i) \/ Table!Reads(i) \/ Table!Playlist(i) \/ Table!Dash(i)
  PROVE  ProbeInv'
<1>r. RowTrue(i)
  BY DEF ProbeInv
<1>1. CASE Table!Fails(i)
  <2>1. at[i] # "waiting" /\ out' = out
    BY <1>1 DEF Table!Fails
  <2>2. PICK o : /\ o = [Table!Blank EXCEPT !.failed = TRUE] \/ (o = out[i] /\ at[i] = "playlist")
                 /\ Table!Settles(i, o)
    BY <1>1 DEF Table!Fails
  <2>3. Exact(Table!Shows(o), i)
    <3>1. CASE o = out[i] /\ at[i] = "playlist"
      BY <3>1, <1>r, BlankIs, ShownExact DEF RowTrue
    <3>2. CASE o = [Table!Blank EXCEPT !.failed = TRUE]
      <4>1. DOMAIN o = Fields /\ o.failed /\ o.basis = None
        BY <3>2, BlankIs DEF Fields
      <4>2. Measured(o, i)
        BY <4>1 DEF Measured, Tellable
      <4> QED BY <4>1, <4>2, ShownExact
    <3> QED BY <2>2, <3>1, <3>2
  <2> QED BY <2>1, <2>2, <2>3, SettlesTrue, SameAnswer
<1>2. CASE Table!Reads(i)
  <2>1. at[i] # "waiting" /\ out[i] = Table!Blank /\ Table!Goes(i, "playlist", out[i])
    BY <1>2, <1>r DEF Table!Reads, RowTrue
  <2> QED BY <2>1, <1>r, GoesTrue DEF RowTrue
<1>3. CASE Table!Playlist(i)
  <2> DEFINE o == [out[i] EXCEPT !.length = Streams[i].length, !.live = Streams[i].live]
  <2>1. at[i] # "waiting" /\ out[i] = Table!Blank
    BY <1>3, <1>r DEF Table!Playlist, RowTrue
  <2>2. /\ DOMAIN o = Fields /\ o.live = Streams[i].live /\ o.length = Streams[i].length
        /\ o.bytes = None /\ o.basis = None
    BY <2>1, BlankIs, Said
  <2>3. Measured(o, i)
    BY <2>2 DEF Measured, Tellable
  <2>4. \/ Table!Settles(i, o) /\ out' = [out EXCEPT ![i] = o]
        \/ Table!Goes(i, "sampling", o) /\ ~o.live
    BY <1>3 DEF Table!Playlist
  <2> HIDE DEF o
  <2>5. CASE Table!Settles(i, o) /\ out' = [out EXCEPT ![i] = o]
    <3>1. Listed(i) => o.live
      BY <2>2 DEF Listed
    <3>2. Exact(Table!Shows(o), i)
      BY <2>2, <2>3, <3>1, ShownExact
    <3> QED BY <2>1, <2>2, <2>3, <2>5, <3>2, SettlesTrue, OneAnswer
  <2>6. CASE Table!Goes(i, "sampling", o) /\ ~o.live
    <3>1. ~Listed(i)
      BY <2>2, <2>6 DEF Listed
    <3> QED BY <2>1, <2>2, <2>3, <2>6, <3>1, GoesTrue
  <2> QED BY <2>4, <2>5, <2>6
<1>4. CASE Table!Dash(i)
  <2> DEFINE o == [out[i] EXCEPT !.length = Streams[i].length, !.live = Streams[i].live]
  <2>1. at[i] # "waiting" /\ out[i] = Table!Blank /\ Table!Settles(i, o) /\ out' = [out EXCEPT ![i] = o]
    BY <1>4, <1>r DEF Table!Dash, RowTrue
  <2>2. DOMAIN o = Fields /\ o.live = Streams[i].live /\ o.basis = None
    BY <2>1, BlankIs, Said
  <2> HIDE DEF o
  <2>3. Measured(o, i)
    BY <2>2 DEF Measured, Tellable
  <2>4. Exact(Table!Shows(o), i)
    BY <2>2, <2>3, ShownExact DEF Listed
  <2> QED BY <2>1, <2>2, <2>3, <2>4, SettlesTrue, OneAnswer
<1> QED BY <1>1, <1>2, <1>3, <1>4

\* The samples, and the file.
LEMMA SizeKeeps ==
  ASSUME Tellable, ProbeInv, NEW i \in Rows,
         Table!Sampled(i) \/ Table!Adds(i) \/ Table!File(i) \/ Table!FromHead(i) \/ Table!FromTail(i)
  PROVE  ProbeInv'
<1>r. RowTrue(i) /\ DOMAIN out[i] = Fields /\ Measured(out[i], i)
  BY DEF ProbeInv, RowTrue
<1>1. CASE Table!Sampled(i)
  BY <1>1 DEF Table!Sampled, ProbeInv, Queue, RowTrue, Measured, Exact, Listed
<1>2. CASE Table!Adds(i)
  <2>1. at[i] # "waiting" /\ ~Listed(i)
    BY <1>2, <1>r DEF Table!Adds, RowTrue
  <2>2. PICK o : /\ Table!Settles(i, o) /\ out' = [out EXCEPT ![i] = o]
                 /\ o = out[i] \/ \E b, s : s \in {"sampled", "bitrate"} /\ o = [out[i] EXCEPT !.bytes = b, !.basis = s]
    <3>1. CASE got[i] # <<>>
      BY <1>2, <3>1 DEF Table!Adds
    <3>2. CASE got[i] = <<>> /\ Streams[i].rate # None
      BY <1>2, <3>2 DEF Table!Adds
    <3>3. CASE got[i] = <<>> /\ Streams[i].rate = None
      BY <1>2, <3>3 DEF Table!Adds
    <3> QED BY <3>1, <3>2, <3>3
  <2>3. DOMAIN o = Fields /\ Measured(o, i)
    <3>1. CASE o = out[i]
      BY <1>r, <3>1
    <3>2. CASE o # out[i]
      <4>1. PICK b, s : s \in {"sampled", "bitrate"} /\ o = [out[i] EXCEPT !.bytes = b, !.basis = s]
        BY <2>2, <3>2
      <4>2. DOMAIN o = Fields /\ o.basis = s
        BY <1>r, <4>1, Said
      <4> QED BY <4>1, <4>2 DEF Measured
    <3> QED BY <3>1, <3>2
  <2>4. Exact(Table!Shows(o), i)
    BY <2>1, <2>3, ShownExact
  <2> QED BY <2>1, <2>2, <2>3, <2>4, SettlesTrue, OneAnswer
<1>3. CASE Table!File(i)
  <2>1. at[i] # "waiting" /\ ~Listed(i)
    BY <1>3 DEF Table!File, Listed
  <2>2. PICK n \in {Table!Total(Streams[i].size), None} :
          LET o == [out[i] EXCEPT !.bytes = n, !.basis = IF n = None THEN None ELSE "measured"]
          IN \/ Table!Goes(i, "head", o)
             \/ Table!Settles(i, o) /\ out' = [out EXCEPT ![i] = o]
    BY <1>3 DEF Table!File
  <2> DEFINE s == IF n = None THEN None ELSE "measured"
             o == [out[i] EXCEPT !.bytes = n, !.basis = s]
  <2>3. Table!Goes(i, "head", o) \/ (Table!Settles(i, o) /\ out' = [out EXCEPT ![i] = o])
    BY <2>2
  <2>4. DOMAIN o = Fields /\ o.bytes = n /\ o.basis = s
    BY <1>r, Said
  <2>5. s = "measured" => n = HostOf[Streams[i].size].total
    BY TotalIs DEF Tellable
  <2> HIDE DEF o, s
  <2>6. Measured(o, i)
    BY <2>4, <2>5 DEF Measured
  <2>7. Exact(Table!Shows(o), i)
    BY <2>1, <2>4, <2>6, ShownExact
  <2>8. CASE Table!Goes(i, "head", o)
    BY <2>1, <2>4, <2>6, <2>8, GoesTrue
  <2>9. CASE Table!Settles(i, o) /\ out' = [out EXCEPT ![i] = o]
    BY <2>1, <2>4, <2>6, <2>7, <2>9, SettlesTrue, OneAnswer
  <2> QED BY <2>3, <2>8, <2>9
<1>4. CASE Table!FromHead(i) \/ Table!FromTail(i)
  <2>1. at[i] # "waiting" /\ ~Listed(i)
    BY <1>4, <1>r DEF Table!FromHead, Table!FromTail, RowTrue
  <2>2. \/ Table!Goes(i, "tail", out[i])
        \/ \E o : /\ o = out[i] \/ o = [out[i] EXCEPT !.length = Streams[i].length]
                  /\ Table!Settles(i, o) /\ (out' = out \/ out' = [out EXCEPT ![i] = o])
    BY <1>4 DEF Table!FromHead, Table!FromTail
  <2>3. CASE Table!Goes(i, "tail", out[i])
    BY <1>r, <2>1, <2>3, GoesTrue
  <2>4. CASE \E o : /\ o = out[i] \/ o = [out[i] EXCEPT !.length = Streams[i].length]
                    /\ Table!Settles(i, o) /\ (out' = out \/ out' = [out EXCEPT ![i] = o])
    <3>1. PICK o : /\ o = out[i] \/ o = [out[i] EXCEPT !.length = Streams[i].length]
                   /\ Table!Settles(i, o) /\ (out' = out \/ out' = [out EXCEPT ![i] = o])
      BY <2>4
    <3>2. DOMAIN o = Fields /\ o.bytes = out[i].bytes /\ o.basis = out[i].basis
      <4>1. CASE o = out[i]
        BY <1>r, <4>1
      <4>2. CASE o = [out[i] EXCEPT !.length = Streams[i].length]
        BY <1>r, <4>2, Said
      <4> QED BY <3>1, <4>1, <4>2
    <3>3. Measured(o, i)
      BY <1>r, <3>2 DEF Measured
    <3>4. Exact(Table!Shows(o), i)
      BY <2>1, <3>2, <3>3, ShownExact
    <3>5. CASE out' = out
      BY <2>1, <3>1, <3>4, <3>5, SettlesTrue, SameAnswer
    <3>6. CASE out' = [out EXCEPT ![i] = o]
      BY <2>1, <3>1, <3>2, <3>3, <3>4, <3>6, SettlesTrue, OneAnswer
    <3> QED BY <3>1, <3>5, <3>6
  <2> QED BY <2>2, <2>3, <2>4
<1> QED BY <1>1, <1>2, <1>3, <1>4

\* A number without a mark was measured, of the file at the row's own address; a live list
\* is shown neither length nor size, whatever came first (api/probe.js, app.js probeRow).
THEOREM ExactIsMeasured == Tellable /\ Width \in Nat /\ Table!Spec => []UnmarkedIsExact
<1> SUFFICES ASSUME Tellable, Width \in Nat PROVE Table!Spec => []UnmarkedIsExact
  OBVIOUS
<1>1. Table!Init => ProbeInv
  <2> SUFFICES ASSUME Table!Init PROVE ProbeInv
    OBVIOUS
  <2>1. Queue
    BY DEF Table!Init, Queue, Rows, Table!Rows
  <2>2. ASSUME NEW i \in Rows PROVE RowTrue(i)
    <3>1. out[i] = Table!Blank /\ shown[i] = None /\ at[i] \in {"asked", "waiting"}
      BY DEF Table!Init, Rows, Table!Rows
    <3>2. Measured(out[i], i)
      BY <3>1, BlankIs DEF Measured, Tellable
    <3> QED BY <3>1, <3>2, BlankIs DEF RowTrue, Exact
  <2> QED BY <2>1, <2>2 DEF ProbeInv, Table!Init, Rows, Table!Rows
<1>2. ProbeInv /\ [Table!Next]_(Table!vars) => ProbeInv'
  <2> SUFFICES ASSUME ProbeInv, [Table!Next]_(Table!vars) PROVE ProbeInv'
    OBVIOUS
  <2>1. CASE UNCHANGED Table!vars
    BY <2>1 DEF Table!vars, ProbeInv, Queue, RowTrue, Measured, Exact, Listed
  <2>2. CASE Table!Next
    <3>1. PICK i \in Rows : Table!RowStep(i)
      BY <2>2 DEF Table!Next, Table!Rows, Rows
    <3> QED BY <3>1, ListKeeps, SizeKeeps DEF Table!RowStep
  <2> QED BY <2>1, <2>2
<1>3. ProbeInv => UnmarkedIsExact
  <2> SUFFICES ASSUME ProbeInv, NEW i \in Rows, shown[i] # None
               PROVE  /\ shown[i].size # None /\ shown[i].mark = "exact" => shown[i].size = HostOf[Streams[i].size].total
                      /\ Listed(i) => shown[i].size = None /\ shown[i].length = None
    BY DEF UnmarkedIsExact, Table!UnmarkedIsExact, Table!Rows, Rows, Listed
  <2> QED BY DEF ProbeInv, RowTrue, Exact
<1> QED BY <1>1, <1>2, <1>3, PTL DEF Table!Spec

-----------------------------------------------------------------------------
(* Places of a list. *)

\* Some of a linear order's places: each rank from 1 on is the rank of one of them.
LEMMA RanksReachAll ==
  ASSUME NEW D, IsFiniteSet(D), NEW R, Orders(R, D)
  PROVE  /\ Cardinality(D) \in Nat
         /\ \A k \in 1..Cardinality(D) : \E i \in D : Rank(i, D, R) = k
<1> DEFINE n == Cardinality(D)
           Below(i) == {j \in D : <<j, i>> \in R}
           f == [i \in D |-> Rank(i, D, R)]
<1>1. n \in Nat
  BY FS_CardinalityType
<1>2. ASSUME NEW i \in D
      PROVE  /\ IsFiniteSet(Below(i)) /\ Cardinality(Below(i)) \in 1..n
             /\ Rank(i, D, R) = Cardinality(Below(i))
  <2>1. Below(i) \in SUBSET D /\ i \in Below(i)
    BY <1>2 DEF Orders
  <2>2. IsFiniteSet(Below(i)) /\ Cardinality(Below(i)) <= n
    BY <2>1, FS_Subset
  <2>3. Cardinality(Below(i)) \in Nat /\ Cardinality(Below(i)) # 0
    <3> HIDE DEF Below
    <3> QED BY <2>1, <2>2, FS_CardinalityType, FS_EmptySet
  <2>4. Rank(i, D, R) = Cardinality(Below(i))
    BY DEF Rank
  <2> HIDE DEF Below
  <2> QED BY <1>1, <2>2, <2>3, <2>4
<1>3. ASSUME NEW i \in D, NEW j \in D, i # j, <<i, j>> \in R
      PROVE  Rank(i, D, R) # Rank(j, D, R)
  <2>1. Below(i) \subseteq Below(j)
    BY <1>3 DEF Orders
  <2>2. j \in Below(j) /\ j \notin Below(i)
    BY <1>3 DEF Orders
  <2>3. IsFiniteSet(Below(j)) /\ Rank(i, D, R) = Cardinality(Below(i)) /\ Rank(j, D, R) = Cardinality(Below(j))
    BY <1>2, <1>3
  <2> HIDE DEF Below
  <2>4. Cardinality(Below(i)) # Cardinality(Below(j))
    BY <2>1, <2>2, <2>3, FS_Subset
  <2> QED BY <2>3, <2>4
<1> HIDE DEF n
<1>4. f \in [D -> 1..n]
  BY <1>2
<1>5. \A i, j \in D : f[i] = f[j] => i = j
  BY <1>3 DEF Orders
<1> HIDE DEF f
<1>6. f \in Injection(D, 1..n)
  BY <1>4, <1>5 DEF Injection, IsInjective
<1>7. IsFiniteSet(1..n) /\ Cardinality(1..n) = n
  BY <1>1, FS_Interval
<1>8. f \in Surjection(D, 1..n)
  BY <1>6, <1>7, FS_Injection DEF n
<1>9. \A k \in 1..n : \E i \in D : f[i] = k
  BY <1>8 DEF Surjection
<1> QED BY <1>1, <1>9 DEF f, n

\* A list of some places of another has those places' elements, each place once.
LEMMA RankedIs ==
  ASSUME NEW S, NEW s \in Seq(S), NEW D \in SUBSET DOMAIN s, NEW R, Orders(R, D)
  PROVE  /\ Ranked(s, D, R) \in Seq(S)
         /\ DOMAIN Ranked(s, D, R) = 1..Cardinality(D) /\ Cardinality(D) \in Nat
         /\ \A k \in 1..Cardinality(D) : \E i \in D : Ranked(s, D, R)[k] = s[i] /\ Rank(i, D, R) = k
         /\ Ranked(s, D, R) = <<>> => D = {}
         /\ Len(Ranked(s, D, R)) <= Len(s)
<1> DEFINE n == Cardinality(D)
           t == Ranked(s, D, R)
           At(k) == CHOOSE i \in D : Rank(i, D, R) = k
<1>1. DOMAIN s = 1..Len(s) /\ Len(s) \in Nat
  BY LenProperties
<1>2. IsFiniteSet(D) /\ n <= Len(s)
  <2> DEFINE All == 1..Len(s)
  <2>1. D \in SUBSET All /\ IsFiniteSet(All) /\ Cardinality(All) = Len(s)
    <3>1. IsFiniteSet(1..Len(s)) /\ Cardinality(1..Len(s)) = IF 1 > Len(s) THEN 0 ELSE Len(s) - 1 + 1
      BY <1>1, FS_Interval
    <3> QED BY <1>1, <3>1
  <2> HIDE DEF All
  <2> QED BY <2>1, FS_Subset
<1>3. n \in Nat /\ \A k \in 1..n : At(k) \in D /\ Rank(At(k), D, R) = k
  BY <1>2, RanksReachAll
<1>4. t = [k \in 1..n |-> s[At(k)]]
  BY DEF Ranked
<1>5. n = 0 => D = {}
  BY <1>2, FS_EmptySet
<1> HIDE DEF n, t, At
<1>6. \A k \in 1..n : s[At(k)] \in S
  BY <1>1, <1>3, ElementOfSeq
<1>7. t \in [1..n -> S]
  BY <1>4, <1>6
<1>8. t \in Seq(S) /\ DOMAIN t = 1..n /\ Len(t) = n
  BY <1>3, <1>7, SeqDef, LenProperties
<1>9. \A k \in 1..n : t[k] = s[At(k)]
  BY <1>4
<1>10. t = <<>> => n = 0
  BY <1>3, <1>8, EmptySeq
<1> QED BY <1>2, <1>3, <1>5, <1>8, <1>9, <1>10 DEF n, t

LEMMA AscendingOrders ==
  ASSUME NEW D \in SUBSET Nat
  PROVE  Orders(Ascending(D), D)
<1>1. \A i, j \in D : <<i, j>> \in Ascending(D) <=> i <= j
  BY DEF Ascending
<1>2. \A i \in D : i \in Nat
  OBVIOUS
<1> HIDE DEF Ascending
<1> QED BY <1>1, <1>2 DEF Orders

LEMMA KeptIs ==
  ASSUME NEW S, NEW s \in Seq(S), NEW D \in SUBSET DOMAIN s
  PROVE  /\ Kept(s, D) \in Seq(S)
         /\ \A k \in DOMAIN Kept(s, D) : \E i \in D : Kept(s, D)[k] = s[i] /\ Rank(i, D, Ascending(D)) = k
         /\ Kept(s, D) = <<>> => D = {}
         /\ Len(Kept(s, D)) <= Len(s)
<1>1. D \in SUBSET Nat
  BY LenProperties
<1>2. Orders(Ascending(D), D)
  BY <1>1, AscendingOrders
<1> DEFINE R == Ascending(D)
<1>3. Kept(s, D) = Ranked(s, D, R) /\ Orders(R, D)
  BY <1>2 DEF Kept
<1> HIDE DEF R
<1>4. /\ Ranked(s, D, R) \in Seq(S) /\ DOMAIN Ranked(s, D, R) = 1..Cardinality(D)
      /\ \A k \in 1..Cardinality(D) : \E i \in D : Ranked(s, D, R)[k] = s[i] /\ Rank(i, D, R) = k
      /\ Ranked(s, D, R) = <<>> => D = {}
      /\ Len(Ranked(s, D, R)) <= Len(s)
  BY <1>3, RankedIs
<1> QED BY <1>3, <1>4 DEF R

-----------------------------------------------------------------------------
(* The shelf of series: Browse. *)

VARIABLES box, mode, err, reading, crawling, clock, running, items, loaded, rows, undo, lapsed

Screen == INSTANCE Browse
SeriesOnceEach == Screen!SeriesOnceEach
Item == Screen!Item

\* No two rows are of one page.
OnceEach(s) == \A i, j \in DOMAIN s : s[i].of = s[j].of => i = j
Shelves == {s \in Seq(Item) : OnceEach(s)}

\* The requests: what is remembered or forgotten is a series, and what an answer carries
\* is a shelf.
Notes == {a \in [do : {"list", "remember", "forget", "clear"}, it : Item \cup {None}, at : {"going", "back"},
                 said : Shelves] : a.do \in {"remember", "forget"} => a.it \in Item}

ShelfInv ==
  /\ me \in People
  /\ crawling \in [job : {"crawl", "quiet"}, of : Pages] \cup {None}
  /\ items \in Shelves /\ rows \in [People -> Shelves] /\ undo \in Seq(Item)
  /\ asks \subseteq Notes

LEMMA EmptyShelf == <<>> \in Shelves
BY EmptySeq DEF Shelves, OnceEach

LEMMA SameSize == ASSUME NEW S PROVE Screen!Cardinality(S) = Cardinality(S)
BY DEF Screen!Cardinality, Cardinality

LEMMA SameFilter ==
  ASSUME NEW s, NEW D
  PROVE  Screen!Kept(s, D) = Kept(s, D)
<1>1. Screen!Ascending(D) = Ascending(D)
  BY DEF Screen!Ascending, Ascending
<1>2. ASSUME NEW R PROVE Screen!Ranked(s, D, R) = Ranked(s, D, R)
  BY Zenon DEF Screen!Ranked, Screen!Rank, Screen!Cardinality, Ranked, Rank, Cardinality
<1> QED BY <1>1, <1>2 DEF Screen!Kept, Kept

LEMMA WithoutIsShelf ==
  ASSUME NEW s \in Shelves, NEW it \in Item
  PROVE  /\ Screen!Without(s, it) \in Shelves
         /\ \A k \in DOMAIN Screen!Without(s, it) : Screen!Without(s, it)[k].of # it.of
<1> DEFINE D == {i \in DOMAIN s : s[i].of # it.of}
           t == Kept(s, D)
<1>1. Screen!Without(s, it) = t
  BY SameFilter DEF Screen!Without
<1>2. s \in Seq(Item) /\ OnceEach(s) /\ D \in SUBSET DOMAIN s /\ \A i \in D : s[i].of # it.of
  BY DEF Shelves
<1>3. t \in Seq(Item) /\ \A k \in DOMAIN t : \E i \in D : t[k] = s[i] /\ Rank(i, D, Ascending(D)) = k
  <2> HIDE DEF D
  <2> QED BY <1>2, KeptIs
<1> HIDE DEF D, t
<1>4. OnceEach(t)
  <2> SUFFICES ASSUME NEW k \in DOMAIN t, NEW l \in DOMAIN t, t[k].of = t[l].of PROVE k = l
    BY DEF OnceEach
  <2>1. PICK i \in D : t[k] = s[i] /\ Rank(i, D, Ascending(D)) = k
    BY <1>3
  <2>2. PICK j \in D : t[l] = s[j] /\ Rank(j, D, Ascending(D)) = l
    BY <1>3
  <2>3. i = j
    BY <1>2, <2>1, <2>2 DEF OnceEach
  <2> QED BY <2>1, <2>2, <2>3
<1>5. \A k \in DOMAIN t : t[k].of # it.of
  BY <1>2, <1>3
<1> QED BY <1>1, <1>3, <1>4, <1>5 DEF Shelves

LEMMA UpsertIsShelf ==
  ASSUME NEW s \in Shelves, NEW it \in Item
  PROVE  Screen!Upsert(s, it) \in Shelves
<1> DEFINE t == Screen!Without(s, it)
           u == <<it>> \o t
<1>1. t \in Seq(Item) /\ OnceEach(t) /\ \A k \in DOMAIN t : t[k].of # it.of
  BY WithoutIsShelf DEF Shelves
<1>2. <<it>> \in Seq(Item) /\ Len(<<it>>) = 1 /\ <<it>>[1] = it
  OBVIOUS
<1> HIDE DEF t
<1>3. /\ u \in Seq(Item) /\ Len(u) = 1 + Len(t) /\ Len(t) \in Nat
      /\ DOMAIN t = 1..Len(t) /\ DOMAIN u = 1..Len(u)
      /\ \A i \in 1..(1 + Len(t)) : u[i] = IF i <= 1 THEN <<it>>[i] ELSE t[i - 1]
  BY <1>1, <1>2, ConcatProperties, LenProperties
<1> HIDE DEF u
<1>4. u[1] = it /\ \A i \in DOMAIN u : i # 1 => i - 1 \in DOMAIN t /\ u[i] = t[i - 1]
  BY <1>2, <1>3
<1>5. OnceEach(u)
  <2> SUFFICES ASSUME NEW i \in DOMAIN u, NEW j \in DOMAIN u, u[i].of = u[j].of PROVE i = j
    BY DEF OnceEach
  <2>1. i \in Int /\ j \in Int
    BY <1>3
  <2>2. CASE i = 1 /\ j = 1
    BY <2>2
  <2>3. CASE i = 1 /\ j # 1
    BY <1>1, <1>4, <2>3
  <2>4. CASE i # 1 /\ j = 1
    BY <1>1, <1>4, <2>4
  <2>5. CASE i # 1 /\ j # 1
    <3>1. i - 1 = j - 1
      BY <1>1, <1>4, <2>5 DEF OnceEach
    <3> QED BY <2>1, <3>1
  <2> QED BY <2>2, <2>3, <2>4, <2>5
<1> QED BY <1>3, <1>5 DEF Shelves, u, t, Screen!Upsert

\* A request that is made is one of these.
LEMMA NewNote ==
  ASSUME NEW do \in {"list", "remember", "forget", "clear"}, NEW it \in Item \cup {None},
         do \in {"remember", "forget"} => it \in Item
  PROVE  Screen!New(do, it) \in Notes
BY EmptyShelf DEF Screen!New, Notes

LEMMA ShelfStays ==
  ASSUME ShelfInv, UNCHANGED <<items, rows, undo, asks>>, me' \in People,
         crawling' \in [job : {"crawl", "quiet"}, of : Pages] \cup {None}
  PROVE  ShelfInv'
BY DEF ShelfInv

LEMMA CrawlStarts ==
  ASSUME ShelfInv, NEW u \in Pages, NEW job \in {"crawl", "quiet"}, Screen!Starts(job, u)
  PROVE  crawling' \in [job : {"crawl", "quiet"}, of : Pages] \cup {None}
<1>1. CASE Screen!Free
  BY <1>1 DEF Screen!Starts
<1>2. CASE ~Screen!Free
  BY <1>2 DEF Screen!Starts, Screen!jobs, ShelfInv
<1> QED BY <1>1, <1>2

LEMMA ItemsAre ==
  ASSUME ShelfInv, NEW s \in Seq(Item), NEW it \in Screen!ToSet(s)
  PROVE  it \in Item /\ it.of \in Pages
<1>1. it \in Item
  BY ElementOfSeq, LenProperties DEF Screen!ToSet
<1> QED BY <1>1 DEF Item, Screen!Item

\* The shelf's own actions.
LEMMA ShelfActs ==
  ASSUME ShelfInv,
         \/ Screen!Refresh \/ Screen!Clear \/ Screen!Undo
         \/ \E it \in Screen!ToSet(items) : Screen!ForgetSeries(it)
         \/ Screen!CrawlSays
  PROVE  ShelfInv'
<1>1. items \in Shelves /\ items \in Seq(Item) /\ undo \in Seq(Item) /\ asks \subseteq Notes
  BY DEF ShelfInv, Shelves
<1>2. CASE Screen!Refresh
  <2>1. Screen!New("list", None) \in Notes
    BY NewNote
  <2> QED BY <1>2, <2>1 DEF Screen!Refresh, Screen!Asks, ShelfInv, Screen!jobs
<1>3. CASE Screen!Clear
  <2> DEFINE a == Screen!New("clear", None)
             b == [a EXCEPT !.said = items]
  <2>1. a \in Notes /\ a.do = "clear"
    BY NewNote DEF Screen!New
  <2>2. b \in Notes
    BY <1>1, <2>1 DEF Notes
  <2> HIDE DEF a
  <2>3. asks' = asks \cup {b}
    BY <1>3 DEF Screen!Clear, a
  <2> HIDE DEF b
  <2> QED BY <1>3, <2>2, <2>3 DEF Screen!Clear, ShelfInv, Screen!jobs
<1>4. CASE Screen!Undo
  <2>1. \A it \in Screen!ToSet(undo) : Screen!New("remember", it) \in Notes
    BY <1>1, ItemsAre, NewNote
  <2>2. <<>> \in Seq(Item)
    BY EmptySeq
  <2> QED BY <1>4, <2>1, <2>2 DEF Screen!Undo, ShelfInv, Screen!jobs
<1>5. ASSUME NEW it \in Screen!ToSet(items), Screen!ForgetSeries(it) PROVE ShelfInv'
  <2>1. Screen!New("forget", it) \in Notes
    BY <1>1, ItemsAre, NewNote
  <2> QED BY <1>5, <2>1 DEF Screen!ForgetSeries, Screen!Asks, ShelfInv, Screen!jobs
<1>6. CASE Screen!CrawlSays
  <2>1. crawling # None /\ crawling' = None /\ UNCHANGED <<me, items, rows, undo>>
    BY <1>6 DEF Screen!CrawlSays, Screen!CrawlOver
  <2>2. CASE UNCHANGED asks
    BY <2>1, <2>2, ShelfStays DEF ShelfInv
  <2>3. ASSUME NEW eps \in BOOLEAN, Screen!Asks("remember", [of |-> crawling.of, eps |-> eps]) PROVE ShelfInv'
    <3> DEFINE it == [of |-> crawling.of, eps |-> eps]
    <3>1. it \in Item
      BY <2>1 DEF ShelfInv, Item, Screen!Item
    <3> HIDE DEF it
    <3>2. Screen!New("remember", it) \in Notes
      BY <3>1, NewNote
    <3>3. asks' = asks \cup {Screen!New("remember", it)}
      BY <2>3 DEF Screen!Asks, it
    <3> QED BY <2>1, <3>2, <3>3 DEF ShelfInv
  <2> QED BY <1>6, <2>2, <2>3 DEF Screen!CrawlSays
<1> QED BY <1>2, <1>3, <1>4, <1>5, <1>6

\* The requests on their way.
LEMMA ShelfAsks ==
  ASSUME ShelfInv, NEW a \in asks, Screen!Lands(a) \/ Screen!Hears(a) \/ Screen!Lost(a)
  PROVE  ShelfInv'
<1>1. /\ a \in Notes /\ a.said \in Shelves /\ (a.do \in {"remember", "forget"} => a.it \in Item)
      /\ a.do \in {"list", "remember", "forget", "clear"}
      /\ me \in People /\ items \in Shelves /\ rows \in [People -> Shelves] /\ rows[me] \in Shelves
  BY DEF ShelfInv, Notes
<1>2. CASE Screen!Lands(a)
  <2> DEFINE said == IF a.do = "list" THEN rows[me] ELSE a.said
             b == [a EXCEPT !.at = "back", !.said = said]
             mine == CASE a.do = "remember" -> Screen!Upsert(rows[me], a.it)
                       [] a.do = "forget" -> Screen!Without(rows[me], a.it)
                       [] a.do = "clear" -> <<>>
                       [] OTHER -> rows[me]
  <2>1. said \in Shelves
    BY <1>1
  <2> HIDE DEF said
  <2>2. b \in Notes
    BY <1>1, <2>1 DEF Notes
  <2>3. mine \in Shelves
    <3>1. CASE a.do = "remember"
      BY <1>1, <3>1, UpsertIsShelf
    <3>2. CASE a.do = "forget"
      BY <1>1, <3>2, WithoutIsShelf
    <3>3. CASE a.do = "clear"
      BY <3>3, EmptyShelf
    <3>4. CASE a.do = "list"
      BY <1>1, <3>4
    <3> QED BY <1>1, <3>1, <3>2, <3>3, <3>4
  <2>4. /\ rows' = [rows EXCEPT ![me] = mine] /\ asks' = (asks \ {a}) \cup {b}
        /\ UNCHANGED <<me, items, undo, crawling>>
    BY <1>2 DEF Screen!Lands, said, Screen!jobs
  <2> HIDE DEF b, mine
  <2> QED BY <1>1, <2>2, <2>3, <2>4 DEF ShelfInv
<1>3. CASE Screen!Hears(a)
  <2>1. asks' \subseteq asks /\ UNCHANGED <<me, rows, crawling>>
    BY <1>3 DEF Screen!Hears, Screen!jobs
  <2>2. items' \in Shelves /\ undo' \in Seq(Item)
    <3>1. CASE a.do = "remember" /\ Screen!Remembered(a)
      BY <1>1, <3>1, UpsertIsShelf DEF Screen!Remembered, ShelfInv
    <3>2. CASE a.do = "list" /\ items' = a.said /\ UNCHANGED undo
      BY <1>1, <3>2 DEF ShelfInv
    <3>3. CASE a.do = "forget" /\ items' = Screen!Without(items, a.it) /\ undo' = <<a.it>>
      <4>1. <<a.it>> \in Seq(Item)
        BY <1>1, <3>3
      <4> QED BY <1>1, <3>3, <4>1, WithoutIsShelf
    <3>4. CASE a.do = "clear" /\ items' = <<>> /\ undo' = a.said
      BY <1>1, <3>4, EmptyShelf DEF Shelves
    <3> QED BY <1>3, <3>1, <3>2, <3>3, <3>4 DEF Screen!Hears
  <2> QED BY <2>1, <2>2 DEF ShelfInv
<1>4. CASE Screen!Lost(a)
  BY <1>4 DEF Screen!Lost, ShelfInv, Screen!jobs
<1> QED BY <1>2, <1>3, <1>4

LEMMA ShelfStep == ShelfInv /\ [Screen!Next]_(Screen!vars) => ShelfInv'
<1> SUFFICES ASSUME ShelfInv, [Screen!Next]_(Screen!vars) PROVE ShelfInv'
  OBVIOUS
<1>1. me \in People /\ crawling \in [job : {"crawl", "quiet"}, of : Pages] \cup {None} /\ items \in Seq(Item)
  BY DEF ShelfInv, Shelves
<1>2. CASE Screen!Deep \/ Screen!ScanEnds \/ Screen!CrawlWalled \/ Screen!CrawlFails \/ Screen!CrawlLapses
  BY <1>1, <1>2, ShelfStays
     DEF Screen!Deep, Screen!ScanEnds, Screen!CrawlWalled, Screen!CrawlFails, Screen!CrawlLapses,
         Screen!CrawlOver, Screen!shelf
<1>3. CASE Screen!Another
  BY <1>1, <1>3, ShelfStays DEF Screen!Another, Screen!shelf, Screen!jobs
<1>4. ASSUME NEW u \in Pages, Screen!Scan(u) PROVE ShelfInv'
  BY <1>1, <1>4, ShelfStays DEF Screen!Scan, Screen!shelf
<1>5. ASSUME NEW u \in Pages, Screen!Crawls(u) PROVE ShelfInv'
  <2>1. crawling' \in [job : {"crawl", "quiet"}, of : Pages] \cup {None}
    BY <1>5, CrawlStarts DEF Screen!Crawls
  <2> QED BY <1>1, <1>5, <2>1, ShelfStays DEF Screen!Crawls, Screen!shelf
<1>6. ASSUME NEW it \in Screen!ToSet(items), Screen!OpenSeries(it) PROVE ShelfInv'
  <2>1. it.of \in Pages
    BY <1>1, ItemsAre
  <2>2. crawling' \in [job : {"crawl", "quiet"}, of : Pages] \cup {None}
    BY <1>6, <2>1, CrawlStarts DEF Screen!OpenSeries
  <2> QED BY <1>1, <1>6, <2>2, ShelfStays DEF Screen!OpenSeries, Screen!shelf
<1>7. CASE UNCHANGED Screen!vars
  BY <1>1, <1>7, ShelfStays DEF Screen!vars, Screen!shelf, Screen!jobs
<1> QED BY <1>2, <1>3, <1>4, <1>5, <1>6, <1>7, ShelfActs, ShelfAsks DEF Screen!Next

\* A season that is looked at again is the same row, on the shelf and in the table of
\* whoever is signed in, however late the answers come and whose they are (app.js
\* rememberSeries, api/series.js).
THEOREM OneRowEach == Screen!Spec => []SeriesOnceEach
<1>1. Screen!Init => ShelfInv
  BY EmptyShelf, EmptySeq DEF Screen!Init, ShelfInv
<1>2. ShelfInv => SeriesOnceEach
  <2> SUFFICES ASSUME ShelfInv PROVE SeriesOnceEach
    OBVIOUS
  <2>1. OnceEach(items) /\ OnceEach(rows[me])
    BY DEF ShelfInv, Shelves
  <2> QED BY <2>1 DEF SeriesOnceEach, Screen!SeriesOnceEach, OnceEach
<1>3. ShelfInv /\ [Screen!Next]_(Screen!vars) => ShelfInv'
  BY ShelfStep
<1> QED BY <1>1, <1>2, <1>3, PTL DEF Screen!Spec

-----------------------------------------------------------------------------
(* The children of a page: Crawl. *)

CONSTANTS Page, Catalogue, Within, FollowMax

VARIABLE links

Reader == INSTANCE Crawl

OneShow == Reader!OneShow

\* The links a page may carry, and what is read of each: a number, or none.
Links == Reader!ToSet(Catalogue)
Numbered ==
  /\ Catalogue \in Seq(Links)
  /\ \A l \in Links : l.season \in Nat \cup {None} /\ l.num \in Nat \cup {None}

\* The least and the greatest of numbers.
LEMMA LeastOf ==
  ASSUME NEW P \in SUBSET Nat, P # {}
  PROVE  \E m \in P : \A k \in P : m <= k
<1>1. IsWellFoundedOn(OpToRel(<, Nat), Nat)
  BY NatLessThanWellFounded
<1>2. PICK m \in P : \A k \in P : ~(<<k, m>> \in OpToRel(<, Nat))
  BY <1>1, WFMin
<1>3. \A k \in P : ~(k < m)
  BY <1>2 DEF OpToRel
<1> QED BY <1>3

LEMMA GreatestOf ==
  ASSUME NEW P \in SUBSET Nat, P # {}, NEW b \in Nat, \A k \in P : k <= b
  PROVE  \E m \in P : \A k \in P : k <= m
<1> DEFINE Q == {b - k : k \in P}
<1>1. Q \in SUBSET Nat /\ Q # {}
  <2>1. \A k \in P : k \in Nat /\ k <= b /\ b - k \in Nat
    OBVIOUS
  <2> QED BY <2>1
<1>2. PICK q \in Q : \A k \in Q : q <= k
  <2> HIDE DEF Q
  <2> QED BY <1>1, LeastOf
<1>3. PICK m \in P : q = b - m
  OBVIOUS
<1>4. ASSUME NEW k \in P PROVE k <= m
  <2>1. b - m <= b - k
    BY <1>2, <1>3
  <2> QED BY <2>1
<1> QED BY <1>4

LEMMA SameReading ==
  /\ \A s, D, R : Reader!Ranked(s, D, R) = Ranked(s, D, R)
  /\ \A s, D : Reader!Kept(s, D) = Kept(s, D)
<1>1. ASSUME NEW s, NEW D, NEW R PROVE Reader!Ranked(s, D, R) = Ranked(s, D, R)
  BY Zenon DEF Reader!Ranked, Reader!Rank, Reader!Cardinality, Ranked, Rank, Cardinality
<1>2. ASSUME NEW D PROVE Reader!Ascending(D) = Ascending(D)
  BY DEF Reader!Ascending, Ascending
<1> QED BY <1>1, <1>2 DEF Reader!Kept, Kept

\* A filtered list has what passed, and all of it is gone only if nothing did.
LEMMA FilteredIs ==
  ASSUME NEW s \in Seq(Links), NEW D \in SUBSET DOMAIN s
  PROVE  /\ Reader!Kept(s, D) \in Seq(Links) /\ Len(Reader!Kept(s, D)) <= Len(s)
         /\ \A r \in Reader!ToSet(Reader!Kept(s, D)) : \E i \in D : r = s[i]
         /\ Reader!Kept(s, D) = <<>> => D = {}
<1> DEFINE t == Kept(s, D)
<1>1. /\ t \in Seq(Links) /\ Len(t) <= Len(s) /\ (t = <<>> => D = {})
      /\ \A k \in DOMAIN t : \E i \in D : t[k] = s[i] /\ Rank(i, D, Ascending(D)) = k
  BY KeptIs
<1>2. Reader!Kept(s, D) = t
  BY SameReading
<1> HIDE DEF t
<1> QED BY <1>1, <1>2 DEF Reader!ToSet

\* What has a number comes before what has a greater one, and before what has none.
LEMMA BeforeIs ==
  ASSUME NEW l \in Nat \cup {None}, NEW m \in Nat \cup {None}, NEW n \in Nat \cup {None}
  PROVE  /\ ~Reader!Before(m, m)
         /\ Reader!Before(m, n) \/ Reader!Before(n, m) \/ m = n
         /\ ~(Reader!Before(m, n) /\ Reader!Before(n, m))
         /\ Reader!Before(l, m) /\ Reader!Before(m, n) => Reader!Before(l, n)
BY DEF Reader!Before

LEMMA OrderIs ==
  ASSUME Numbered, NEW kids \in Seq(Links)
  PROVE  /\ Reader!Order(kids) \in Seq(Links)
         /\ Reader!ToSet(Reader!Order(kids)) \subseteq Reader!ToSet(kids)
<1> DEFINE D == DOMAIN kids
           R == {p \in D \X D : Reader!NoLater(kids, p[1], p[2])}
           S(i) == kids[i].season
           N(i) == kids[i].num
           B(m, n) == Reader!Before(m, n)
           Earlier(i, j) == B(S(i), S(j)) \/ (S(i) = S(j) /\ (B(N(i), N(j)) \/ (N(i) = N(j) /\ i <= j)))
<1>0. D \in SUBSET DOMAIN kids
  OBVIOUS
<1>1. D \subseteq Nat /\ \A i \in D : kids[i] \in Links
  BY LenProperties, ElementOfSeq
<1>2. \A i \in D : S(i) \in Nat \cup {None} /\ N(i) \in Nat \cup {None}
  BY <1>1 DEF Numbered
<1>b. /\ \A m \in Nat \cup {None} : ~B(m, m)
      /\ \A m, n \in Nat \cup {None} : (B(m, n) \/ B(n, m) \/ m = n) /\ ~(B(m, n) /\ B(n, m))
      /\ \A l, m, n \in Nat \cup {None} : B(l, m) /\ B(m, n) => B(l, n)
  BY BeforeIs
<1>3. \A i, j \in D : <<i, j>> \in R <=> Earlier(i, j)
  <2> SUFFICES ASSUME NEW i \in D, NEW j \in D
               PROVE  <<i, j>> \in R <=> Earlier(i, j)
    OBVIOUS
  <2>1. <<i, j>> \in R <=> Reader!NoLater(kids, i, j)
    OBVIOUS
  <2>2. Reader!NoLater(kids, i, j) <=>
          /\ B(S(i), S(j)) \/ (S(i) = S(j) /\ ~B(N(j), N(i)))
          /\ (B(S(j), S(i)) \/ (S(j) = S(i) /\ ~B(N(i), N(j)))) => i <= j
    BY DEF Reader!NoLater, Reader!InOrder
  <2>3. /\ S(i) \in Nat \cup {None} /\ S(j) \in Nat \cup {None}
        /\ N(i) \in Nat \cup {None} /\ N(j) \in Nat \cup {None}
    BY <1>2
  <2> HIDE DEF R, S, N, B
  <2> QED BY <1>b, <2>1, <2>2, <2>3 DEF Earlier
<1>4. Reader!Order(kids) = Ranked(kids, D, R)
  BY SameReading DEF Reader!Order
<1> HIDE DEF R, S, N, D, B
<1>5. Orders(R, D)
  <2>1. \A i \in D : i \in Nat /\ S(i) \in Nat \cup {None} /\ N(i) \in Nat \cup {None}
    BY <1>1, <1>2
  <2>2. ASSUME NEW i \in D, NEW j \in D
        PROVE  /\ <<i, j>> \in R \/ <<j, i>> \in R
               /\ <<i, j>> \in R /\ <<j, i>> \in R => i = j
    <3>1. i \in Nat /\ j \in Nat
      BY <2>1
    <3>2. (i <= j \/ j <= i) /\ (i <= j /\ j <= i => i = j)
      BY <3>1
    <3>3. Earlier(i, j) \/ Earlier(j, i)
      BY <1>b, <2>1, <3>2, Zenon DEF Earlier
    <3>4. Earlier(i, j) /\ Earlier(j, i) => i = j
      BY <1>b, <2>1, <3>2, Zenon DEF Earlier
    <3> QED BY <1>3, <3>3, <3>4
  <2>4. \A i, j, k \in D : <<i, j>> \in R /\ <<j, k>> \in R => <<i, k>> \in R
    <3> SUFFICES ASSUME NEW i \in D, NEW j \in D, NEW k \in D, <<i, j>> \in R, <<j, k>> \in R
                 PROVE  <<i, k>> \in R
      OBVIOUS
    <3>1. i <= j /\ j <= k => i <= k
      BY <2>1
    <3>2. Earlier(i, j) /\ Earlier(j, k)
      BY <1>3
    <3>3. Earlier(i, k)
      BY <1>b, <2>1, <3>1, <3>2 DEF Earlier
    <3> QED BY <1>3, <3>3
  <2>5. \A i \in D : <<i, i>> \in R
    BY <2>2
  <2> HIDE DEF R
  <2> QED BY <2>2, <2>4, <2>5 DEF Orders
<1>6. /\ Ranked(kids, D, R) \in Seq(Links)
      /\ DOMAIN Ranked(kids, D, R) = 1..Cardinality(D)
      /\ \A k \in 1..Cardinality(D) : \E i \in D : Ranked(kids, D, R)[k] = kids[i] /\ Rank(i, D, R) = k
  BY <1>0, <1>5, RankedIs
<1>7. \A r \in Reader!ToSet(Reader!Order(kids)) : \E i \in D : r = kids[i]
  BY <1>4, <1>6 DEF Reader!ToSet
<1>8. \A i \in D : kids[i] \in Reader!ToSet(kids)
  BY <1>0 DEF Reader!ToSet
<1>9. Reader!ToSet(Reader!Order(kids)) \subseteq Reader!ToSet(kids)
  BY <1>7, <1>8
<1> QED BY <1>4, <1>6, <1>9

\* The shape rule takes one of the groups, if there is one.
LEMMA ShapeIs ==
  ASSUME NEW ls \in Seq(Links), NEW p
  PROVE  Reader!ByShape(ls, p) \in Seq(Links)
<1> DEFINE Groups == {Reader!Group(ls, p, l.shape) : l \in Reader!ToSet(ls)}
           big == {g \in Groups : Len(g) >= 3}
           Where(g) == CHOOSE i \in DOMAIN ls : ls[i] = Head(g)
           W(g) == Reader!Weight(g, p)
           Beats(g, h) == W(g) > W(h) \/ (W(g) = W(h) /\ Where(g) <= Where(h))
<1>1. ASSUME NEW g \in big
      PROVE  /\ g \in Seq(Links) /\ W(g) \in 0..(Len(ls) + 5) /\ Where(g) \in DOMAIN ls
  <2>1. PICK l \in Reader!ToSet(ls) : g = Reader!Group(ls, p, l.shape)
    OBVIOUS
  <2> DEFINE D == {i \in DOMAIN ls : Reader!Considered(ls[i], p) /\ ls[i].digit /\ ls[i].shape = l.shape}
  <2>2. g = Reader!Kept(ls, D) /\ D \in SUBSET DOMAIN ls
    BY <2>1 DEF Reader!Group
  <2> HIDE DEF D
  <2>3. /\ g \in Seq(Links) /\ Len(g) <= Len(ls) /\ Len(ls) \in Nat
        /\ \A r \in Reader!ToSet(g) : \E i \in D : r = ls[i]
    BY <2>2, FilteredIs, LenProperties
  <2>4. Len(g) \in Nat /\ Len(g) >= 3
    BY <2>3, LenProperties
  <2>5. Head(g) \in Reader!ToSet(g)
    BY <2>3, <2>4 DEF Reader!ToSet
  <2>6. \E i \in DOMAIN ls : ls[i] = Head(g)
    BY <2>2, <2>3, <2>5
  <2>7. W(g) \in 0..(Len(ls) + 5)
    BY <2>3, <2>4 DEF Reader!Weight
  <2> QED BY <2>3, <2>6, <2>7
<1>2. Reader!ByShape(ls, p) = IF big = {} THEN <<>> ELSE CHOOSE g \in big : \A h \in big : Beats(g, h)
  BY DEF Reader!ByShape
<1>3. Len(ls) \in Nat /\ DOMAIN ls \subseteq Nat
  BY LenProperties
<1> HIDE DEF big, Where, W
<1>4. ASSUME big # {} PROVE \E g \in big : \A h \in big : Beats(g, h)
  <2> DEFINE Weights == {W(g) : g \in big}
  <2>1. Weights \in SUBSET Nat /\ Weights # {} /\ \A k \in Weights : k <= Len(ls) + 5
    BY <1>1, <1>3, <1>4
  <2>2. PICK w \in Weights : \A k \in Weights : k <= w
    <3> HIDE DEF Weights
    <3>1. Len(ls) + 5 \in Nat
      BY <1>3
    <3> QED BY <2>1, <3>1, GreatestOf
  <2> DEFINE Best == {g \in big : W(g) = w}
             Firsts == {Where(g) : g \in Best}
  <2>3. Firsts \in SUBSET Nat /\ Firsts # {}
    BY <1>1, <1>3
  <2>4. PICK f \in Firsts : \A k \in Firsts : f <= k
    <3> HIDE DEF Firsts
    <3> QED BY <2>3, LeastOf
  <2>5. PICK g \in Best : f = Where(g)
    OBVIOUS
  <2>6. ASSUME NEW h \in big PROVE Beats(g, h)
    <3>1. W(h) \in Nat /\ W(g) \in Nat /\ W(g) = w /\ W(h) <= w
      BY <1>1, <1>3, <2>2
    <3>2. CASE W(h) = w
      <4>1. Where(g) <= Where(h)
        BY <2>4, <2>5, <3>2
      <4> QED BY <3>1, <3>2, <4>1
    <3>3. CASE W(h) # w
      BY <3>1, <3>3
    <3> QED BY <3>2, <3>3
  <2> QED BY <2>6
<1>5. big # {} => Reader!ByShape(ls, p) \in big
  BY <1>2, <1>4
<1>6. <<>> \in Seq(Links)
  BY EmptySeq
<1> QED BY <1>1, <1>2, <1>5, <1>6

\* What is left of two lists is all named after the page, or none of it is.
LEMMA KinIs ==
  ASSUME NEW a \in Seq(Links), NEW b \in Seq(Links), NEW p
  PROVE  LET kept == Reader!PreferKin(<<a, b>>, p) IN
         /\ kept[1] \in Seq(Links) /\ kept[2] \in Seq(Links)
         /\ \A r, s \in Reader!ToSet(kept[1]) \cup Reader!ToSet(kept[2]) : Reader!Kin(r, p) <=> Reader!Kin(s, p)
<1> DEFINE kept == Reader!PreferKin(<<a, b>>, p)
           Only(s) == Reader!OnlyKin(s, p)
<1>1. ASSUME NEW s \in Seq(Links)
      PROVE  /\ Only(s) \in Seq(Links)
             /\ \A r \in Reader!ToSet(Only(s)) : Reader!Kin(r, p)
             /\ Only(s) = <<>> => \A r \in Reader!ToSet(s) : ~Reader!Kin(r, p)
  <2> DEFINE D == {i \in DOMAIN s : Reader!Kin(s[i], p)}
  <2>1. Only(s) = Reader!Kept(s, D) /\ D \in SUBSET DOMAIN s /\ \A i \in D : Reader!Kin(s[i], p)
    BY DEF Reader!OnlyKin
  <2>2. D = {} => \A r \in Reader!ToSet(s) : ~Reader!Kin(r, p)
    BY DEF Reader!ToSet
  <2> HIDE DEF D, Only
  <2>3. /\ Reader!Kept(s, D) \in Seq(Links) /\ (Reader!Kept(s, D) = <<>> => D = {})
        /\ \A r \in Reader!ToSet(Reader!Kept(s, D)) : \E i \in D : r = s[i]
    BY <2>1, FilteredIs
  <2> QED BY <2>1, <2>2, <2>3
<1>2. DOMAIN <<a, b>> = 1..2 /\ <<a, b>>[1] = a /\ <<a, b>>[2] = b /\ 1 \in 1..2 /\ 2 \in 1..2
  OBVIOUS
<1>3. CASE Only(a) = <<>> /\ Only(b) = <<>>
  <2>1. \A k \in DOMAIN <<a, b>> : Reader!OnlyKin(<<a, b>>[k], p) = <<>>
    BY <1>3
  <2>2. kept = <<a, b>>
    BY <2>1 DEF Reader!PreferKin
  <2> HIDE DEF kept, Only
  <2>3. kept[1] = a /\ kept[2] = b
    BY <2>2
  <2>4. \A r \in Reader!ToSet(a) \cup Reader!ToSet(b) : ~Reader!Kin(r, p)
    BY <1>1, <1>3
  <2> QED BY <2>3, <2>4 DEF kept
<1>4. CASE ~(Only(a) = <<>> /\ Only(b) = <<>>)
  <2>1. ~\A k \in DOMAIN <<a, b>> : Reader!OnlyKin(<<a, b>>[k], p) = <<>>
    BY <1>2, <1>4
  <2>2. kept = [k \in DOMAIN <<a, b>> |-> Reader!OnlyKin(<<a, b>>[k], p)]
    BY <2>1 DEF Reader!PreferKin
  <2>3. kept[1] = Only(a) /\ kept[2] = Only(b)
    BY <1>2, <2>2
  <2> HIDE DEF kept, Only
  <2>4. \A r \in Reader!ToSet(Only(a)) \cup Reader!ToSet(Only(b)) : Reader!Kin(r, p)
    BY <1>1
  <2> QED BY <1>1, <2>3, <2>4 DEF kept
<1> QED BY <1>3, <1>4

\* A page's children are all named after it, or none is.
LEMMA ChildrenAre ==
  ASSUME Numbered, NEW ls \in Seq(Links), NEW p
  PROVE  LET c == Reader!FindChildren(ls, p) IN
         /\ "via" \in DOMAIN c
         /\ \A r, s \in Reader!ToSet(c.episodes) \cup Reader!ToSet(c.seasons) : Reader!Kin(r, p) <=> Reader!Kin(s, p)
<1> DEFINE named == Reader!Judged(ls, p, "episode")
           first == IF named = <<>> THEN Reader!ByShape(ls, p) ELSE named
           second == Reader!Judged(ls, p, "season")
           kept == Reader!PreferKin(<<first, second>>, p)
           rest == Reader!NotAmong(kept[2], {r.url : r \in Reader!ToSet(kept[1])})
           c == Reader!FindChildren(ls, p)
<1>1. ASSUME NEW kind PROVE Reader!Judged(ls, p, kind) \in Seq(Links)
  BY FilteredIs DEF Reader!Judged
<1>2. named \in Seq(Links) /\ second \in Seq(Links)
  BY <1>1
<1>3. first \in Seq(Links)
  BY <1>2, ShapeIs
<1>4. /\ c.episodes = Reader!Order(kept[1]) /\ c.seasons = Reader!Order(rest) /\ "via" \in DOMAIN c
  BY DEF Reader!FindChildren
<1> HIDE DEF named, first, second, c
<1>5. /\ kept[1] \in Seq(Links) /\ kept[2] \in Seq(Links)
      /\ \A r, s \in Reader!ToSet(kept[1]) \cup Reader!ToSet(kept[2]) : Reader!Kin(r, p) <=> Reader!Kin(s, p)
  BY <1>2, <1>3, KinIs
<1> HIDE DEF kept
<1>6. rest \in Seq(Links) /\ Reader!ToSet(rest) \subseteq Reader!ToSet(kept[2])
  <2> DEFINE D == {i \in DOMAIN kept[2] : kept[2][i].url \notin {r.url : r \in Reader!ToSet(kept[1])}}
  <2>1. rest = Reader!Kept(kept[2], D) /\ D \in SUBSET DOMAIN kept[2]
    BY DEF Reader!NotAmong
  <2> HIDE DEF D, rest
  <2>2. rest \in Seq(Links) /\ \A r \in Reader!ToSet(rest) : \E i \in D : r = kept[2][i]
    BY <1>5, <2>1, FilteredIs
  <2> QED BY <2>1, <2>2 DEF Reader!ToSet
<1> HIDE DEF rest
<1>7. /\ Reader!ToSet(c.episodes) \subseteq Reader!ToSet(kept[1])
      /\ Reader!ToSet(c.seasons) \subseteq Reader!ToSet(kept[2])
  BY <1>4, <1>5, <1>6, OrderIs
<1> QED BY <1>4, <1>5, <1>7 DEF c

ShowInv == links \in Seq(Links) /\ "via" \in DOMAIN found /\ OneShow

LEMMA ShowStep == Numbered /\ ShowInv /\ [Reader!Next]_(Reader!vars) => ShowInv'
<1> SUFFICES ASSUME Numbered, ShowInv, [Reader!Next]_(Reader!vars) PROVE ShowInv'
  OBVIOUS
<1>1. ASSUME UNCHANGED <<links, found>> PROVE ShowInv'
  BY <1>1 DEF ShowInv, OneShow, Reader!OneShow
<1>2. CASE Reader!ReadFirst
  <2> DEFINE c == Reader!FindChildren(links, Page)
  <2>1. found' = c /\ links' = links
    BY <1>2 DEF Reader!ReadFirst
  <2>2. /\ "via" \in DOMAIN c
        /\ \A r, s \in Reader!ToSet(c.episodes) \cup Reader!ToSet(c.seasons) :
             Reader!Kin(r, Page) <=> Reader!Kin(s, Page)
    BY ChildrenAre DEF ShowInv
  <2> HIDE DEF c
  <2> QED BY <2>1, <2>2 DEF ShowInv, OneShow, Reader!OneShow
<1>3. CASE Reader!Follow
  <2>1. CASE found' = found
    BY <1>1, <1>3, <2>1 DEF Reader!Follow
  <2>2. CASE found' # found
    <3>1. PICK e : found' = [found EXCEPT !.episodes = e, !.via = "followed"]
      BY <1>3, <2>2 DEF Reader!Follow
    <3>2. "via" \in DOMAIN found' /\ found'.via = "followed"
      BY <3>1 DEF ShowInv
    <3>3. links' = links
      BY <1>3 DEF Reader!Follow
    <3> QED BY <3>2, <3>3 DEF ShowInv, OneShow, Reader!OneShow
  <2> QED BY <2>1, <2>2
<1>4. CASE Reader!Refused \/ Reader!Unreadable \/ Reader!Answer \/ UNCHANGED Reader!vars
  BY <1>1, <1>4 DEF Reader!Refused, Reader!Unreadable, Reader!Answer, Reader!vars
<1> QED BY <1>2, <1>3, <1>4 DEF Reader!Next

\* An answer made from one page is of one show: if anything in either list is named after
\* the page, everything in both is, for any links in any order (lib/crawl.js preferKin
\* and findChildren).
THEOREM ChildrenOfOneShow == Numbered /\ Reader!Spec => []OneShow
<1> SUFFICES ASSUME Numbered PROVE Reader!Spec => []OneShow
  OBVIOUS
<1>1. Reader!Init => ShowInv
  <2> SUFFICES ASSUME Reader!Init PROVE ShowInv
    OBVIOUS
  <2>1. PICK D \in SUBSET DOMAIN Catalogue : links = Reader!Kept(Catalogue, D)
    BY DEF Reader!Init
  <2>2. links \in Seq(Links)
    BY <2>1, FilteredIs DEF Numbered
  <2>3. found = [episodes |-> <<>>, seasons |-> <<>>, via |-> "none"]
    BY DEF Reader!Init, Reader!Nothing
  <2>4. Reader!ToSet(<<>>) = {}
    BY DEF Reader!ToSet
  <2> QED BY <2>2, <2>3, <2>4 DEF ShowInv, OneShow, Reader!OneShow
<1>2. ShowInv /\ [Reader!Next]_(Reader!vars) => ShowInv'
  BY ShowStep
<1>3. ShowInv => OneShow
  BY DEF ShowInv
<1> QED BY <1>1, <1>2, <1>3, PTL DEF Reader!Spec
=============================================================================
