------------------------------ MODULE TvRemote ------------------------------
(***************************************************************************)
(* The phone's remote (src/assets/js/tvmode.js): it pairs with a room,     *)
(* sends commands, and draws what the television last said of itself.      *)
(* Status requests overlap, commands and their answers cross them, and an  *)
(* answer may be about a room that was left.  The queue and its delivery   *)
(* are TvRoom's: here a poll of the television runs all there is.          *)
(***************************************************************************)
EXTENDS Naturals, FiniteSets, Sequences, SequencesExt

CONSTANTS Rooms, None,
  MaxPairs, MaxSeq, MaxAsks, Sends   \* bounds: pairings, commands, requests of a kind at once

VARIABLES
  remote,    \* the paired room, the key of the pairing, whether films go to it
  shown,     \* status: what the remote draws
  awaitSeq, settling,   \* the command the TV has not run yet, and its six seconds
  polls, sends, leaving,\* status requests, commands and unpairs on their way
  sent,      \* commands so far
  pairs,     \* pairings so far: a key is the number of its own
  rowKey, queue, said,  \* tv_rooms: the phone's key, the commands, the status row
  ran        \* how many commands the television has run

vars == <<remote, shown, awaitSeq, settling, polls, sends, leaving,
          sent, pairs, rowKey, queue, said, ran>>
server == <<rowKey, queue, said, ran>>

Idle  == [film |-> FALSE, seq |-> 0]
Unset == [is |-> "none"]
Is(film, n) == [film |-> film, seq |-> n]
\* What a television that has run n commands of a room is doing.
Doing(r, n) == Is(n > 0 /\ queue[r][n] = "load", n)
Now(r) == Doing(r, ran[r])

MaxSeqs == MaxSeq + MaxPairs   \* each pairing may end with a stop

\* Types: the pairing and what it shows, the requests, and the room's row.
TypeOK ==
  /\ remote = None \/ remote \in [room : Rooms, key : 1..MaxPairs, onTv : BOOLEAN]
  /\ shown \in [film : BOOLEAN, seq : 0..MaxSeqs] /\ awaitSeq \in 0..MaxSeqs
  /\ settling \in BOOLEAN /\ pairs \in 0..MaxPairs
  /\ rowKey \in [Rooms -> 0..MaxPairs] /\ queue \in [Rooms -> BoundedSeq({"load", "stop"}, MaxSeqs)]
  /\ said \in [Rooms -> [film : BOOLEAN, seq : 0..MaxSeqs]] /\ ran \in [Rooms -> 0..MaxSeqs]
  /\ Cardinality(polls) <= MaxAsks /\ DOMAIN sends = Sends
  /\ leaving \subseteq [room : Rooms, key : 1..MaxPairs]

Init ==
  /\ remote = None /\ shown = Idle /\ awaitSeq = 0 /\ settling = FALSE
  /\ polls = {} /\ sends = [i \in Sends |-> Unset] /\ leaving = {}
  /\ sent = 0 /\ pairs = 0 /\ rowKey = [r \in Rooms |-> 0] /\ queue = [r \in Rooms |-> <<>>]
  /\ said = [r \in Rooms |-> Idle] /\ ran = [r \in Rooms |-> 0]

-----------------------------------------------------------------------------
\* poll: asked with the room and the key of now; the timer is set by its answer.
Poll ==
  /\ remote # None
  /\ Cardinality(polls) < MaxAsks
  /\ polls' = polls \cup {[is |-> "asked", room |-> remote.room, key |-> remote.key]}

\* unpair: forgotten at once; the server hears of it, if it does, later.
Forget ==
  /\ remote' = None /\ shown' = Idle
  /\ leaving' = leaving \cup {[room |-> remote.room, key |-> remote.key]}

\* command: sent with the room and the key of now.
Send(c) ==
  \E i \in Sends :
    /\ sends[i].is = "none" /\ sent < MaxSeq /\ sent' = sent + 1
    /\ sends' = [sends EXCEPT ![i] = [is |-> "asked", room |-> remote.room, key |-> remote.key, c |-> c]]

\* The code is typed, or scanned: a scanned one leaves the old room first.  The
\* answer of pair chooses the television and asks for its status.
Pair(r) ==
  /\ pairs < MaxPairs /\ ~(remote # None /\ remote.room = r)
  /\ pairs' = pairs + 1 /\ rowKey' = [rowKey EXCEPT ![r] = pairs']
  /\ remote' = [room |-> r, key |-> pairs', onTv |-> TRUE] /\ shown' = Idle
  /\ leaving' = IF remote = None THEN leaving
                ELSE leaving \cup {[room |-> remote.room, key |-> remote.key]}
  /\ Cardinality(polls) < MaxAsks
  /\ polls' = polls \cup {[is |-> "asked", room |-> r, key |-> pairs']}
  /\ UNCHANGED <<sent, awaitSeq, settling, sends, queue, said, ran>>

Disconnect ==
  /\ remote # None /\ Forget
  /\ UNCHANGED <<sent, awaitSeq, settling, polls, sends, pairs, server>>

\* sendCurrent: shown as loading before anything is heard.
PlayOnTv ==
  /\ remote # None /\ remote.onTv /\ Send("load")
  /\ shown' = Is(TRUE, 0)
  /\ UNCHANGED <<remote, awaitSeq, settling, polls, leaving, pairs, server>>

\* stopOnTv: films go back to the phone, and the remote says idle.
StopOnTv ==
  /\ remote # None /\ remote.onTv /\ Send("stop")
  /\ remote' = [remote EXCEPT !.onTv = FALSE] /\ shown' = Idle
  /\ UNCHANGED <<awaitSeq, settling, polls, leaving, pairs, server>>

\* chooseTv: films go to the television again, and its status is asked for.
ChooseTv ==
  /\ remote # None /\ ~remote.onTv /\ Poll
  /\ remote' = [remote EXCEPT !.onTv = TRUE]
  /\ UNCHANGED <<sent, shown, awaitSeq, settling, sends, leaving, pairs, server>>

-----------------------------------------------------------------------------
(* The server and the television. *)

LandPoll(q) ==
  /\ q.is = "asked"
  /\ polls' = (polls \ {q}) \cup
       {IF rowKey[q.room] = q.key THEN [is |-> "said", s |-> said[q.room]] ELSE [is |-> "gone"]}
  /\ UNCHANGED <<sent, remote, shown, awaitSeq, settling, sends, leaving, pairs, server>>

LandSend(i) ==
  /\ sends[i].is = "asked"
  /\ LET r == sends[i].room IN
     IF rowKey[r] = sends[i].key
     THEN /\ queue' = [queue EXCEPT ![r] = Append(@, sends[i].c)]
          /\ sends' = [sends EXCEPT ![i] = [is |-> "said", n |-> Len(queue[r]) + 1]]
     ELSE sends' = [sends EXCEPT ![i] = [is |-> "gone"]] /\ UNCHANGED queue
  /\ UNCHANGED <<sent, remote, shown, awaitSeq, settling, polls, leaving, pairs, rowKey, said, ran>>

\* A mutant's unpair, which forgets the phone and lets the film play on.
LandUnpairOnly(l) ==
  /\ l \in leaving /\ leaving' = leaving \ {l}
  /\ rowKey' = IF rowKey[l.room] = l.key THEN [rowKey EXCEPT ![l.room] = 0] ELSE rowKey
  /\ UNCHANGED <<sent, remote, shown, awaitSeq, settling, polls, sends, pairs, said, ran, queue>>

\* unpair: the stop goes into the queue with the write that forgets the phone.
LandUnpair(l) ==
  /\ l \in leaving /\ leaving' = leaving \ {l}
  /\ IF rowKey[l.room] = l.key
     THEN /\ rowKey' = [rowKey EXCEPT ![l.room] = 0]
          /\ queue' = [queue EXCEPT ![l.room] = Append(@, "stop")]
     ELSE UNCHANGED <<rowKey, queue>>
  /\ UNCHANGED <<sent, remote, shown, awaitSeq, settling, polls, sends, pairs, said, ran>>

\* The television disconnects its phone, or another phone takes it.
Release(r) ==
  /\ rowKey[r] # 0 /\ rowKey' = [rowKey EXCEPT ![r] = 0]
  /\ queue' = queue
  /\ UNCHANGED <<sent, remote, shown, awaitSeq, settling, polls, sends, leaving, pairs, said, ran>>

\* A poll of the television says what it does, and takes what there is to run.
TvPolls(r) ==
  /\ said' = [said EXCEPT ![r] = Now(r)] /\ ran' = [ran EXCEPT ![r] = Len(queue[r])]
  /\ UNCHANGED <<sent, remote, shown, awaitSeq, settling, polls, sends, leaving, pairs, rowKey, queue>>

-----------------------------------------------------------------------------
(* Answers. *)

\* A row that is gone forgets the remote, whichever room it is of by now.
HearSend(i) ==
  /\ sends[i].is \in {"said", "gone"} /\ sends' = [sends EXCEPT ![i] = Unset]
  /\ IF sends[i].is = "gone"
     THEN /\ IF remote = None THEN UNCHANGED <<remote, shown, leaving>> ELSE Forget
          /\ UNCHANGED <<awaitSeq, settling>>
     ELSE /\ awaitSeq' = sends[i].n /\ settling' = TRUE
          /\ UNCHANGED <<remote, shown, leaving>>
  /\ UNCHANGED <<sent, polls, pairs, server>>

\* A send fails: a film that was to play is drawn as idle.
LoseSend(i) ==
  /\ sends[i].is # "none" /\ sends' = [sends EXCEPT ![i] = Unset]
  /\ shown' = Idle
  /\ UNCHANGED <<sent, remote, awaitSeq, settling, polls, leaving, pairs, server>>

\* The status is drawn unless it is older than the command that is awaited.
Drawn(s) ==
  IF awaitSeq # 0 /\ s.seq < awaitSeq /\ settling
  THEN UNCHANGED <<shown, awaitSeq>>
  ELSE shown' = s /\ awaitSeq' = 0

HearPoll(q) ==
  /\ q.is \in {"said", "gone"} /\ polls' = polls \ {q}
  /\ IF remote = None THEN UNCHANGED <<remote, shown, awaitSeq, leaving>>
     ELSE IF q.is = "gone" THEN Forget /\ UNCHANGED awaitSeq
     ELSE Drawn(q.s) /\ UNCHANGED <<remote, leaving>>
  /\ UNCHANGED <<sent, settling, sends, pairs, server>>

LosePoll(q) ==
  /\ polls' = polls \ {q}
  /\ UNCHANGED <<sent, remote, shown, awaitSeq, settling, sends, leaving, pairs, server>>

LoseUnpair == \E l \in leaving :
  /\ leaving' = leaving \ {l}
  /\ UNCHANGED <<sent, remote, shown, awaitSeq, settling, polls, sends, pairs, server>>

\* The time between polls, and after a command, is any; so are the six seconds.
PollAgain ==
  /\ Poll
  /\ UNCHANGED <<sent, remote, shown, awaitSeq, settling, sends, leaving, pairs, server>>
Settles ==
  /\ settling /\ settling' = FALSE
  /\ UNCHANGED <<sent, remote, shown, awaitSeq, polls, sends, leaving, pairs, server>>

Person   == Disconnect \/ PlayOnTv \/ StopOnTv \/ ChooseTv \/ \E r \in Rooms : Pair(r)
OnTheirWay == LoseUnpair \/ (\E l \in leaving : LandUnpair(l))
            \/ (\E q \in polls : LandPoll(q) \/ HearPoll(q) \/ LosePoll(q))
            \/ (\E i \in Sends : LandSend(i) \/ HearSend(i) \/ LoseSend(i))
Next     == Person \/ OnTheirWay \/ PollAgain \/ Settles \/ \E r \in Rooms : TvPolls(r) \/ Release(r)

Spec == Init /\ [][Next]_vars

-----------------------------------------------------------------------------
\* A room whose phone has left it was told to stop, whatever was on its way to
\* it, unless the television let the phone go itself (api/tv.js unpair).
LeftIsStopped == [][\A r \in Rooms :
  rowKey[r] # 0 /\ rowKey'[r] = 0 /\ ~Release(r) => queue'[r] # <<>> /\ Last(queue'[r]) = "stop"]_vars

\* Gone is said of the room that is gone (src/api/tv.js:47: "the phone's is to
\* say the TV is no longer there"): the phone keeps a room that is its own.
OwnRoomKept == [][((\E q \in polls : HearPoll(q)) \/ \E i \in Sends : HearSend(i)) /\ remote # None /\ remote' = None
                  => rowKey[remote.room] # remote.key]_vars
=============================================================================
