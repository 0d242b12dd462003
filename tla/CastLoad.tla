----------------------------- MODULE CastLoad -----------------------------
(***************************************************************************)
(* Getting a film to play on a Cast receiver: castLoad of                  *)
(* src/assets/js/app.js with its two ways of noticing a failure (the       *)
(* receiver refuses the load, or takes it and never starts) and its three  *)
(* ways of trying again (through the bridge after a refusal, through the   *)
(* bridge after a stall, through the other bridge), and what a person does *)
(* meanwhile.                                                              *)
(*                                                                         *)
(* A load is a record that outlives the call: loadMedia answers when the   *)
(* receiver does, whatever the page has gone on to.  The receiver takes    *)
(* loads in the order they were sent; one that is overtaken by the next is *)
(* answered either way.  The page sees the receiver through remotePlayer,  *)
(* which lags.  The positions and the choice of film that a session event  *)
(* makes are CastResume's; Bilibili's link renewal is left out.            *)
(*                                                                         *)
(* Bounds: MaxActs acts of a person in a run; nothing else is bounded.     *)
(***************************************************************************)
EXTENDS Integers, Sequences, FiniteSets

CONSTANTS
  Films, NoFilm,
  Ours,      \* addresses under /api/ of this origin, never sent by a bridge
  Adaptive,  \* HLS: through a bridge from the start
  Locked,    \* loaded with meta.proxy: the host wants its own referer
  MaxActs

ASSUME FilmsAssumption ==
  /\ NoFilm \notin Films /\ Ours \subseteq Films
  /\ Adaptive \subseteq Films \ Ours /\ Locked \subseteq Films \ Ours
ASSUME ActsAssumption == MaxActs \in Nat

LastHost == 1    \* STREAM_HOSTS has two entries
States   == {"idle", "buffering", "playing"}
NoWatch  == [film |-> NoFilm, viaProxy |-> FALSE, extended |-> FALSE]

VARIABLES
  current,       \* the film the page is about
  sess,          \* castSession() answers one; castState is CONNECTED
  stallRetried,
  host,          \* streamHostIndex
  watch,         \* the load the armed stall timer is about, or NoWatch
  loads,         \* loadMedia calls the page has not seen answered, oldest first
  tv,            \* the receiver: the film it holds and its player state
  seen,          \* remotePlayer: what the page was last told of tv
  last,          \* lastPlayerState
  told,          \* the page has said that the latest load is not playing
  acts,          \* acts of a person so far
  clean          \* history: nobody chose a film over an unanswered load

page == <<current, stallRetried, host>>
vars == <<page, sess, watch, loads, tv, seen, last, told, acts, clean>>

Load == [film : Films, viaProxy : BOOLEAN,
         ph : {"sent", "trying", "accepted", "refused"}]

Init ==
  /\ current = NoFilm /\ sess = FALSE
  /\ stallRetried = FALSE /\ host = 0
  /\ watch = NoWatch /\ loads = <<>>
  /\ tv = [film |-> NoFilm, st |-> "idle"]
  /\ seen = [loaded |-> FALSE, st |-> "idle"] /\ last = "none"
  /\ told = FALSE /\ acts = 0 /\ clean = TRUE

-----------------------------------------------------------------------------
(* castLoad. *)

\* The address handed over is the film's own.
Direct(u, viaProxy) == u \in Ours \/ ~(u \in Adaptive \/ viaProxy)

\* Bug to catch: arming forgets to disarm, so the older timer goes on.
SendOverWatch(u, viaProxy, pending) ==
  /\ loads' = Append(pending, [film |-> u, viaProxy |-> viaProxy, ph |-> "sent"])
  /\ watch' = IF watch # NoWatch THEN watch
              ELSE [film |-> u, viaProxy |-> viaProxy, extended |-> FALSE]
  /\ told' = FALSE

Send(u, viaProxy, pending) ==
  /\ loads' = Append(pending, [film |-> u, viaProxy |-> viaProxy, ph |-> "sent"])
  /\ watch' = [film |-> u, viaProxy |-> viaProxy, extended |-> FALSE]
  /\ told' = FALSE

\* Without a session castLoad returns; no timer is armed then (SESSION_ENDED
\* and stopCasting both disarm).
CastLoad(u, viaProxy, pending) ==
  \/ sess /\ Send(u, viaProxy, pending)
  \/ ~sess /\ loads' = pending /\ watch' = NoWatch /\ UNCHANGED told

\* Bug to catch: the index wraps instead of running out.
NextHostWraps == host' = (host + 1) % (LastHost + 1)

\* Bug to catch: one host too many.
NextHostLate == host <= LastHost /\ host' = host + 1

\* nextStreamHost, when it answers true.
NextHost == host < LastHost /\ host' = host + 1

-----------------------------------------------------------------------------
(* A person. *)

Act == acts < MaxActs /\ acts' = acts + 1

Untouched == \A i \in 1..Len(loads) : loads[i].film = current'

\* load(): a film is chosen; connected, it goes to the TV at once.
Choose(u) ==
  /\ Act
  /\ current' = u
  /\ clean' = (clean /\ Untouched)
  /\ stallRetried' = IF sess THEN FALSE ELSE stallRetried
  /\ CastLoad(u, u \in Locked, loads)
  /\ UNCHANGED <<host, sess, tv, seen, last>>

\* "Send to <TV>", and the fault panel's "retry through bridge".
SendAgain(viaProxy) ==
  /\ Act
  /\ sess /\ current # NoFilm
  /\ viaProxy => told
  /\ stallRetried' = IF viaProxy THEN stallRetried ELSE FALSE
  /\ CastLoad(current, viaProxy \/ current \in Locked, loads)
  /\ UNCHANGED <<current, host, sess, tv, seen, last, clean>>

\* Subtitles on or off: the same film again, with no word of the proxy.
Recaption ==
  /\ Act
  /\ sess /\ seen.loaded /\ current # NoFilm
  /\ CastLoad(current, FALSE, loads)
  /\ UNCHANGED <<page, sess, tv, seen, last, clean>>

\* A session begins and the film of the page is sent (plan.send).
Connect ==
  /\ Act
  /\ ~sess /\ sess' = TRUE
  /\ current # NoFilm
  /\ stallRetried' = FALSE
  /\ Send(current, current \in Locked, loads)
  /\ UNCHANGED <<current, host, tv, seen, last, clean>>

\* A session is rejoined, something on it, and perhaps given its name.
Rejoin(u) ==
  /\ Act
  /\ ~sess /\ sess' = TRUE
  /\ tv' = [film |-> u, st |-> "playing"]
  /\ current' \in {current, u}
  /\ clean' = FALSE
  /\ UNCHANGED <<stallRetried, host, watch, loads, seen, last, told>>

\* The session is gone: what it still owed an answer for is refused.
Ended ==
  /\ sess' = FALSE
  /\ loads' = [i \in 1..Len(loads) |-> [loads[i] EXCEPT !.ph =
                 IF @ = "accepted" THEN @ ELSE "refused"]]
  /\ tv' = [film |-> NoFilm, st |-> "idle"]
  /\ watch' = NoWatch /\ last' = "none"

\* stopCasting: the television lets go, or keeps the session, its film
\* stopped or not, and the page says so.
Stop ==
  /\ Act
  /\ sess
  /\ \/ Ended /\ told' = FALSE
     \/ /\ tv' \in {tv, [tv EXCEPT !.st = "idle"]}
        /\ watch' = NoWatch /\ last' = "none" /\ told' = TRUE
        /\ UNCHANGED <<sess, loads>>
  /\ UNCHANGED <<page, seen, clean>>

\* SESSION_ENDED from the other side.
SessionEnds == sess /\ Ended /\ UNCHANGED <<page, seen, told, acts, clean>>

-----------------------------------------------------------------------------
(* The receiver. *)

TvTake(i) ==
  /\ i \in 1..Len(loads) /\ loads[i].ph = "sent"
  /\ \A j \in 1..(i - 1) : loads[j].ph # "sent"
  /\ \E ph \in {"accepted", "refused"} :
       loads' = [j \in 1..Len(loads) |-> [loads[j] EXCEPT !.ph =
                   IF j = i THEN "trying" ELSE IF @ = "trying" THEN ph ELSE @]]
  /\ tv' = [film |-> loads[i].film, st |-> "buffering"]
  /\ UNCHANGED <<page, sess, watch, seen, last, told, acts, clean>>

TvAnswer(i) ==
  /\ i \in 1..Len(loads) /\ loads[i].ph = "trying"
  /\ \/ loads' = [loads EXCEPT ![i].ph = "accepted"] /\ UNCHANGED tv
     \/ /\ loads' = [loads EXCEPT ![i].ph = "refused"]
        /\ tv' = [film |-> NoFilm, st |-> "idle"]
  /\ UNCHANGED <<page, sess, watch, seen, last, told, acts, clean>>

\* It starts, buffers again, gives up or reaches the end.
TvMoves ==
  /\ tv.film # NoFilm /\ tv.st # "idle"
  /\ \A i \in 1..Len(loads) : loads[i].ph # "trying"
  /\ tv' \in {[tv EXCEPT !.st = s] : s \in States \ {tv.st}}
  /\ UNCHANGED <<page, sess, watch, loads, seen, last, told, acts, clean>>

\* ANY_CHANGE: syncRemote.
Observe ==
  /\ seen # [loaded |-> tv.film # NoFilm, st |-> tv.st] \/ last # tv.st
  /\ seen' = [loaded |-> tv.film # NoFilm, st |-> tv.st]
  /\ last' = tv.st
  /\ watch' = IF tv.st = "playing" /\ last # tv.st THEN NoWatch ELSE watch
  /\ UNCHANGED <<page, sess, loads, tv, told, acts, clean>>

-----------------------------------------------------------------------------
(* The answers of loadMedia and the stall timer. *)

Others(i) == [j \in 1..(Len(loads) - 1) |-> IF j < i THEN loads[j] ELSE loads[j + 1]]

Accepted(i) ==
  /\ i \in 1..Len(loads) /\ loads[i].ph = "accepted"
  /\ loads' = Others(i)
  /\ UNCHANGED <<page, sess, watch, tv, seen, last, told, acts, clean>>

\* Bug to catch: nothing is said when both bridges are used up.
GiveUpSilently == watch' = NoWatch /\ UNCHANGED told

GiveUp == told' = TRUE /\ watch' = NoWatch

\* Its watch, or whatever watch is armed, is disarmed in every branch.
Refused(i) ==
  LET l == loads[i]
      direct == ~l.viaProxy /\ Direct(l.film, l.viaProxy)
      other == l.viaProxy /\ l.film \notin Ours
  IN
  /\ i \in 1..Len(loads) /\ l.ph = "refused"
  /\ \/ direct /\ CastLoad(l.film, TRUE, Others(i)) /\ UNCHANGED host
     \/ other /\ NextHost /\ CastLoad(l.film, TRUE, Others(i))
     \/ /\ ~direct /\ ~(other /\ host < LastHost)
        /\ GiveUp /\ loads' = Others(i) /\ UNCHANGED host
  /\ UNCHANGED <<current, stallRetried, sess, tv, seen, last, acts, clean>>

\* A TV that buffers gets one more window: the timer of the extension only
\* arms the watch again, so the two are one more firing.
WatchFires ==
  LET bridge == ~watch.viaProxy /\ ~stallRetried
      other == watch.viaProxy /\ watch.film \notin Ours
  IN
  /\ watch # NoWatch
  /\ \/ seen.st = "playing" /\ watch' = NoWatch /\ UNCHANGED <<stallRetried, host, loads, told>>
     \/ /\ seen.st = "buffering" /\ ~watch.extended
        /\ watch' = [watch EXCEPT !.extended = TRUE]
        /\ UNCHANGED <<stallRetried, host, loads, told>>
     \/ /\ seen.st = "idle" \/ (seen.st = "buffering" /\ watch.extended)
        /\ \/ /\ bridge /\ stallRetried' = TRUE
              /\ CastLoad(watch.film, TRUE, loads) /\ UNCHANGED host
           \/ /\ ~bridge /\ other /\ NextHost
              /\ CastLoad(watch.film, TRUE, loads) /\ UNCHANGED stallRetried
           \/ /\ ~bridge /\ ~(other /\ host < LastHost)
              /\ GiveUp /\ UNCHANGED <<stallRetried, host, loads>>
  /\ UNCHANGED <<current, sess, tv, seen, last, acts, clean>>

-----------------------------------------------------------------------------
Take     == \E i \in 1..Len(loads) : TvTake(i)
Answer   == \E i \in 1..Len(loads) : TvAnswer(i)
Answered == \E i \in 1..Len(loads) : Accepted(i) \/ Refused(i)

Next ==
  \/ \E u \in Films : Choose(u) \/ Rejoin(u)
  \/ \E viaProxy \in BOOLEAN : SendAgain(viaProxy)
  \/ Recaption \/ Connect \/ Stop \/ SessionEnds
  \/ Take \/ Answer \/ TvMoves \/ Observe
  \/ Answered \/ WatchFires

Spec == Init /\ [][Next]_vars

\* The receiver takes and answers what it is sent, remotePlayer catches up,
\* promises settle and timers fire.  Nobody is obliged to play or to act.
FairSpec ==
  Spec /\ WF_vars(Take) /\ WF_vars(Answer) /\ WF_vars(Observe)
       /\ WF_vars(Answered) /\ WF_vars(WatchFires)

-----------------------------------------------------------------------------
\* Types: the loads in flight, the receiver, and the watch over it.
TypeOK ==
  /\ current \in Films \cup {NoFilm}
  /\ sess \in BOOLEAN /\ stallRetried \in BOOLEAN /\ host \in 0..LastHost
  /\ watch \in [film : Films \cup {NoFilm}, viaProxy : BOOLEAN, extended : BOOLEAN]
  /\ loads \in Seq(Load)
  /\ tv \in [film : Films \cup {NoFilm}, st : States]
  /\ seen \in [loaded : BOOLEAN, st : States]
  /\ last \in States \cup {"none"}
  /\ told \in BOOLEAN /\ acts \in 0..MaxActs /\ clean \in BOOLEAN

\* Retries of the page never bring back a film the person has left: once
\* every load is answered, the TV holds the film of the page, if it holds
\* one, unless a film was chosen while an older load was still unanswered.
TvShowsTheChoice ==
  clean /\ sess /\ loads = <<>> /\ tv.film # NoFilm => tv.film = current

\* The retries come to an end: refusals, stalls and two bridges cannot keep
\* the page sending one film for ever.
RetriesEnd == <>[](loads = <<>> /\ watch = NoWatch)

\* A film sent to an idle TV, no other load about and the watch still armed
\* (an older film that is seen to play disarms it), comes to play, or the
\* page says that it does not, or the session ends.  Said of the last act of
\* the person, which may be any of them.
Alone ==
  /\ acts = MaxActs /\ sess /\ ~told /\ watch # NoWatch
  /\ Len(loads) = 1 /\ loads[1].ph = "sent"
  /\ tv.st = "idle" /\ seen.st = "idle" /\ last # "playing"
LoadAnswered == Alone ~> (told \/ seen.st = "playing" \/ ~sess)

-----------------------------------------------------------------------------
(* Expected of the code, and not kept by it.                               *)

\* app.js: "A stream that stalls or is refused on the first host is retried
\* on the second before anyone is told it cannot be played."
BackupTried ==
  [][\A i \in 1..Len(loads) :
       Refused(i) /\ sess /\ ~told /\ told' /\ loads[i].film \notin Ours
         => host = LastHost]_vars

\* The refusal of a film the person has left does not send it again.
OldAnswerSendsNothing ==
  [][\A i \in 1..Len(loads) :
       Refused(i) /\ loads[i].film # current => Len(loads') < Len(loads)]_vars
=============================================================================
