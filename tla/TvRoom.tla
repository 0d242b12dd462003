------------------------------- MODULE TvRoom -------------------------------
(***************************************************************************)
(* TV mode: one room of castbridge.tv_rooms, the mailbox between a phone   *)
(* and a browser on the television.  src/api/tv.js (sendCommand, unpair,   *)
(* pair, release, poll), src/lib/tv.js (append, pending) and the TV page   *)
(* src/assets/js/tv.js (tick, run, restore).                               *)
(*                                                                         *)
(* Each request of a phone is a serverless function that reads the row and *)
(* then writes it, so requests overlap between the two.  The TV has one    *)
(* poll in flight; its answer may be lost; its page may be reloaded, and a *)
(* `page` command takes it away to another site until Back.                *)
(*                                                                         *)
(* A command is its kind and its seq; a film is the seq of the load that   *)
(* put it on.  Kinds that change what is playing are "load", "stop" and    *)
(* "page"; play, pause, seek, skip and mute are "other".                   *)
(*                                                                         *)
(* Bounds: Keys (one per pairing), MaxSeq commands, MaxRequests requests   *)
(* in flight, MaxReloads reloads of the TV page; QueueMax and Tries are 20 *)
(* and 4 in the code.                                                      *)
(***************************************************************************)
EXTENDS Integers, Sequences, FiniteSets

CONSTANTS Keys, NoKey, Kinds, QueueMax, Tries, MaxSeq, MaxRequests, MaxReloads

ASSUME NoKeyAssumption == NoKey \notin Keys
ASSUME KindsAssumption == Kinds \subseteq {"load", "stop", "page", "other"}
ASSUME BoundsAssumption ==
  /\ QueueMax \in Nat \ {0} /\ Tries \in Nat \ {0}
  /\ MaxSeq \in Nat /\ MaxRequests \in Nat /\ MaxReloads \in Nat

NothingOn == 0

VARIABLES
  phone,     \* the row's phone_hash: the key it was paired with, or NoKey
  queue,     \* the row's commands: the last QueueMax, oldest first
  seq,       \* the row's seq
  made,      \* keys handed out so far
  reqs,      \* send and unpair requests in flight
  since,     \* TV: the last seq it ran
  kept,      \* TV: the seq stored beside the room by a page command, or 0
  film,      \* TV: the film that is on, or NothingOn
  away,      \* TV: its tab is on another site
  poll,      \* TV: the poll in flight
  reloads,   \* TV: reloads so far
  accepted,  \* history: every command the row took, in order
  unpaired,  \* history: the last phone was let go by its own Disconnect
  clobbered, \* history: an unpair wrote over a command it had not read
  lossy      \* history: a gap was answered without any load in it

row  == <<phone, queue, seq>>
tv   == <<since, kept, film, away, reloads>>
past == <<accepted, unpaired, clobbered, lossy>>
vars == <<row, made, reqs, tv, poll, past>>

Commands == [kind : Kinds \cup {"stop"}, seq : Nat]
IdlePoll == [pc |-> "idle", since |-> 0, seq |-> 0, todo |-> <<>>]

Init ==
  /\ phone = NoKey /\ queue = <<>> /\ seq = 0
  /\ made = {} /\ reqs = {}
  /\ since = 0 /\ kept = 0 /\ film = NothingOn /\ away = FALSE /\ reloads = 0
  /\ poll = IdlePoll
  /\ accepted = <<>> /\ unpaired = FALSE /\ clobbered = FALSE /\ lossy = FALSE

(***************************************************************************)
(* lib/tv.js.                                                              *)
(***************************************************************************)

Last(s, n) == SubSeq(s, IF Len(s) > n THEN Len(s) - n + 1 ELSE 1, Len(s))

\* Bug to catch: the queue is not cut.
AppendedUncut(list, kind, n) == Append(list, [kind |-> kind, seq |-> n])

\* append: stamp a command with the next seq and keep the tail of the queue.
Appended(list, kind, n) == Last(Append(list, [kind |-> kind, seq |-> n]), QueueMax)

\* The commands after seq `n`.  A list is in the order of its seqs, so those are its tail.
Later(list, n) == {i \in 1..Len(list) : list[i].seq > n}
After(list, n) ==
  IF Later(list, n) = {} THEN <<>>
  ELSE SubSeq(list, CHOOSE i \in Later(list, n) : \A j \in Later(list, n) : i <= j, Len(list))

\* A gap: the oldest command still there is not the one after `n`.
Gap(list, n) == After(list, n) # <<>> /\ After(list, n)[1].seq > n + 1

Loads(list) == {i \in 1..Len(list) : list[i].kind = "load"}

\* Bug to catch: a gap is answered with the newest command, load or not.
PendingNewest(list, n) ==
  IF Gap(list, n) THEN Last(After(list, n), 1) ELSE After(list, n)

\* pending: what the TV still owes; a gap collapses to the last load and what
\* came after it, or to the last command if there is no load.
Pending(list, n) ==
  LET after == After(list, n) IN
  IF ~Gap(list, n) THEN after
  ELSE IF Loads(after) = {} THEN Last(after, 1)
  ELSE SubSeq(after, CHOOSE i \in Loads(after) : \A j \in Loads(after) : j <= i, Len(after))

(***************************************************************************)
(* Phones.                                                                 *)
(***************************************************************************)

\* pair: the code on the screen is typed into a signed-in phone.  The newest
\* phone is the remote.  Whether the TV has polled lately, which pair asks
\* first, is left open.
Pair(k) ==
  /\ k \notin made
  /\ made' = made \cup {k}
  /\ phone' = k
  /\ unpaired' = FALSE
  /\ UNCHANGED <<queue, seq, reqs, tv, poll, accepted, clobbered, lossy>>

\* A request is made by a phone that holds a key, paired still or not.
Request(k, op, kind) ==
  /\ k \in made
  /\ Cardinality(reqs) < MaxRequests
  /\ reqs' = reqs \cup {[key |-> k, op |-> op, kind |-> kind, pc |-> "read",
                         seq |-> 0, queue |-> <<>>, tries |-> Tries]}
  /\ UNCHANGED <<row, made, tv, poll, past>>

Send(k) == \E kind \in Kinds : Request(k, "send", kind)

Unpair(k) == Request(k, "unpair", "stop")

\* The select of sendCommand and of unpair, filtered by code and phone_hash.
\* No row: the phone is told that the TV is gone.
Read(r) ==
  /\ r \in reqs /\ r.pc = "read"
  /\ reqs' = (reqs \ {r}) \cup
       (IF phone = r.key THEN {[r EXCEPT !.pc = "write", !.seq = seq, !.queue = queue]} ELSE {})
  /\ UNCHANGED <<row, made, tv, poll, past>>

Take(kind, list, n) ==
  /\ queue' = Appended(list, kind, n)
  /\ seq' = n
  /\ accepted' = Append(accepted, [kind |-> kind, seq |-> n])

\* Bugs to catch: the update is not conditional on the seq that was read, or
\* not on the phone.
WriteSendBlind(r) ==
  /\ r \in reqs /\ r.pc = "write" /\ r.op = "send" /\ r.seq < MaxSeq
  /\ IF phone = r.key
     THEN Take(r.kind, r.queue, r.seq + 1)
     ELSE UNCHANGED <<queue, seq, accepted>>
  /\ reqs' = reqs \ {r}
  /\ UNCHANGED <<phone, made, tv, poll, unpaired, clobbered, lossy>>

WriteSendAnyPhone(r) ==
  /\ r \in reqs /\ r.pc = "write" /\ r.op = "send" /\ r.seq < MaxSeq
  /\ IF seq = r.seq
     THEN Take(r.kind, r.queue, r.seq + 1)
     ELSE UNCHANGED <<queue, seq, accepted>>
  /\ reqs' = reqs \ {r}
  /\ UNCHANGED <<phone, made, tv, poll, unpaired, clobbered, lossy>>

\* The optimistic update of sendCommand: it lands only on the seq and the
\* phone it was read under; otherwise the loop reads again, Tries times, and
\* then answers that the TV was busy.
WriteSend(r) ==
  /\ r \in reqs /\ r.pc = "write" /\ r.op = "send" /\ r.seq < MaxSeq
  /\ \/ /\ phone = r.key /\ seq = r.seq
        /\ Take(r.kind, r.queue, r.seq + 1)
        /\ reqs' = reqs \ {r}
     \/ /\ ~(phone = r.key /\ seq = r.seq)
        /\ reqs' = (reqs \ {r}) \cup
             (IF r.tries > 1 THEN {[r EXCEPT !.pc = "read", !.tries = @ - 1]} ELSE {})
        /\ UNCHANGED <<queue, seq, accepted>>
  /\ UNCHANGED <<phone, made, tv, poll, unpaired, clobbered, lossy>>

\* The update of unpair: a stop is queued in the write that forgets the phone.
\* It is filtered by the phone only, not by the seq that was read.
WriteUnpair(r) ==
  /\ r \in reqs /\ r.pc = "write" /\ r.op = "unpair" /\ r.seq < MaxSeq
  /\ IF phone = r.key
     THEN /\ Take("stop", r.queue, r.seq + 1)
          /\ phone' = NoKey
          /\ unpaired' = TRUE
          /\ clobbered' = (clobbered \/ seq # r.seq)
     ELSE UNCHANGED <<phone, queue, seq, accepted, unpaired, clobbered>>
  /\ reqs' = reqs \ {r}
  /\ UNCHANGED <<made, tv, poll, lossy>>

(***************************************************************************)
(* The television.                                                         *)
(***************************************************************************)

\* "Disconnect phone", on the TV's own idle screen.
Release ==
  /\ ~away /\ film = NothingOn /\ phone # NoKey
  /\ phone' = NoKey
  /\ unpaired' = FALSE
  /\ UNCHANGED <<queue, seq, made, reqs, tv, poll, accepted, clobbered, lossy>>

\* tick: a poll leaves with the seq the TV has run up to.
Ask ==
  /\ ~away /\ poll.pc = "idle"
  /\ poll' = [IdlePoll EXCEPT !.pc = "asked", !.since = since]
  /\ UNCHANGED <<row, made, reqs, tv, past>>

\* The function answers it in one update of the row.
Answer ==
  /\ poll.pc = "asked"
  /\ poll' = [poll EXCEPT !.pc = "answered", !.seq = seq,
                          !.todo = Pending(queue, poll.since)]
  /\ lossy' = (lossy \/ (Gap(queue, poll.since) /\ Loads(After(queue, poll.since)) = {}))
  /\ UNCHANGED <<row, made, reqs, tv, accepted, unpaired, clobbered>>

Lose ==
  /\ poll.pc # "idle"
  /\ poll' = IdlePoll
  /\ UNCHANGED <<row, made, reqs, tv, past>>

Decisive(list) == {i \in 1..Len(list) : list[i].kind # "other"}

\* What is on after a list of commands, if `was` was on before.
Playing(list, was) ==
  IF Decisive(list) = {} THEN was
  ELSE LET i == CHOOSE i \in Decisive(list) : \A j \in Decisive(list) : j <= i
       IN IF list[i].kind = "load" THEN list[i].seq ELSE NothingOn

PageSeqs(list) == {list[i].seq : i \in {j \in 1..Len(list) : list[j].kind = "page"}}

\* Bug to catch: commands are run, but not remembered as run.
RunForgetful ==
  /\ poll.pc = "answered"
  /\ film' = Playing(poll.todo, film)
  /\ away' = (PageSeqs(poll.todo) # {})
  /\ poll' = IdlePoll
  /\ UNCHANGED <<row, made, reqs, since, kept, reloads, past>>

\* The answer arrives and all its commands are run in one turn.  A seq that
\* went backwards starts the TV from 0 again.  A page command stores where
\* the TV had got to and the tab leaves when the turn is over.
Run ==
  /\ poll.pc = "answered"
  /\ LET from == IF poll.seq < since THEN 0 ELSE since
         todo == After(poll.todo, from)
     IN /\ since' = IF todo = <<>> THEN from ELSE todo[Len(todo)].seq
        /\ film' = Playing(todo, film)
        /\ away' = (PageSeqs(todo) # {})
        /\ kept' = IF PageSeqs(todo) = {} THEN kept
                   ELSE CHOOSE n \in PageSeqs(todo) : \A m \in PageSeqs(todo) : m <= n
  /\ poll' = IdlePoll
  /\ UNCHANGED <<row, made, reqs, reloads, past>>

\* The page is loaded anew: by Back from the site a page command opened, or
\* by a reload.  restore() polls on from what the last page command stored.
Restore ==
  /\ \/ away /\ UNCHANGED reloads
     \/ ~away /\ reloads < MaxReloads /\ reloads' = reloads + 1
  /\ away' = FALSE
  /\ film' = NothingOn
  /\ since' = kept
  /\ poll' = IdlePoll
  /\ UNCHANGED <<row, made, reqs, kept, past>>

PhoneStep == \E k \in Keys : Pair(k) \/ Send(k) \/ Unpair(k)
ServerStep == (\E r \in reqs : Read(r) \/ WriteSend(r) \/ WriteUnpair(r)) \/ Answer
TvStep == Release \/ Ask \/ Lose \/ Run \/ Restore

Next == PhoneStep \/ ServerStep \/ TvStep

Spec == Init /\ [][Next]_vars

\* The TV's timer and the functions run; a poll, or its answer, is lost now
\* and then but not every time.
FairSpec == Spec /\ WF_vars(Ask) /\ SF_vars(Answer) /\ SF_vars(Run)
                 /\ WF_vars(\E r \in reqs : Read(r) \/ WriteSend(r) \/ WriteUnpair(r))

(***************************************************************************)
(* Properties.                                                             *)
(***************************************************************************)

RequestRecords == [key : Keys, op : {"send", "unpair"}, kind : Kinds \cup {"stop"}, pc : {"read", "write"},
             seq : Nat, queue : Seq(Commands), tries : 1..Tries]

\* The types of the variables; the queue never outgrows QueueMax.
TypeOK ==
  /\ phone \in Keys \cup {NoKey}
  /\ queue \in Seq(Commands) /\ Len(queue) <= QueueMax
  /\ seq \in Nat
  /\ made \subseteq Keys
  /\ reqs \subseteq RequestRecords
  /\ since \in Nat /\ kept \in Nat /\ film \in Nat
  /\ away \in BOOLEAN
  /\ poll \in [pc : {"idle", "asked", "answered"}, since : Nat, seq : Nat, todo : Seq(Commands)]
  /\ reloads \in 0..MaxReloads
  /\ accepted \in Seq(Commands)
  /\ unpaired \in BOOLEAN /\ clobbered \in BOOLEAN /\ lossy \in BOOLEAN

CaughtUp == since = seq /\ poll.pc = "idle" /\ ~away

\* Two taps racing each other retry rather than one overwriting the other: the
\* row's seq counts the commands it took, and the queue is their tail (api/tv.js
\* sendCommand), as long as no unpair wrote over one.
NothingOverwritten ==
  ~clobbered => /\ seq = Len(accepted)
                /\ queue = Last(accepted, QueueMax)

\* What all of this comes to: the row, the phones' requests and the television's polls
\* implement the room of module Room.
Abstract == INSTANCE Room WITH
  Kinds <- Kinds \cup {"stop"}, BoxMax <- QueueMax,
  taken <- accepted, box <- queue, upto <- since, on <- film,
  whole <- ~clobbered, followed <- ~clobbered /\ ~lossy

\* The protocol implements the room: commands are taken in order from the paired phone
\* only, none is overwritten, the queue is their end, and the television goes along the
\* list, or back to a page command it has run, and shows what it has come to (api/tv.js
\* sendCommand and unpair, lib/tv.js append and pending, tv.js run and restore).
ImplementsRoom == Abstract!Spec

\* A TV that has caught up plays what the phones last chose, through lost
\* answers, reloads, trips to other sites and falling behind the queue
\* (lib/tv.js pending, tv.js run and restore).
PlaysLastChosen ==
  CaughtUp /\ ~clobbered /\ ~lossy => film = Playing(accepted, NothingOn)

\* The newest phone is the remote, and the old one's commands are refused: a
\* command lands only while its own phone is paired (db/005, api/tv.js).
NewestPhoneOnly ==
  [][\A r \in reqs \ reqs' :
       accepted' # accepted /\ r.pc = "write" /\ r.op = "send" => phone = r.key]_vars

\* Every command the row took is reached by a TV that stays on its page.
EveryCommandReached ==
  \A n \in 1..MaxSeq : (seq >= n) ~> (since >= n \/ seq < n \/ away)

\* Claimed by api/tv.js: disconnecting stops the TV too.
DisconnectStops == unpaired /\ CaughtUp => film = NothingOn

\* Claimed by lib/tv.js: after a gap the TV ends up playing what the phone
\* last chose.
GapPlaysLastChosen ==
  CaughtUp /\ ~clobbered => film = Playing(accepted, NothingOn)

\* Claimed by tv.js: a seq that went backwards means the room was made again.
SeqNeverBack == [][seq' >= seq]_vars
=============================================================================
