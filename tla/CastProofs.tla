----------------------------- MODULE CastProofs -----------------------------
(***************************************************************************)
(* Casting, for any number of films and of acts of a person: the film on   *)
(* the receiver (CastLoad), the film a session is about (CastResume), and  *)
(* the log of a cast on its way to the server (CastLog).                   *)
(*                                                                         *)
(* The three say different things of variables that have the same names;   *)
(* every theorem is about one of them, and the others are not its concern. *)
(***************************************************************************)
EXTENDS CastLoad, SequenceTheorems, TLAPS

-----------------------------------------------------------------------------
(* The film on the receiver: CastLoad. *)

Phases == {"sent", "trying", "accepted", "refused"}

\* Without a session the receiver has no film, and nothing is on its way to it.
Quiet ==
  ~sess => tv.film = NoFilm /\ \A i \in 1..Len(loads) : loads[i].ph \in {"accepted", "refused"}

\* Unless a film was chosen over an older load: all that is on its way, and all that
\* is watched, is the film of the page; so is what the receiver has, or will be when
\* it takes what was sent.
Chosen ==
  clean =>
    /\ \A i \in 1..Len(loads) : loads[i].film = current
    /\ watch # NoWatch => watch.film = current
    /\ tv.film \in {NoFilm, current} \/ \E i \in 1..Len(loads) : loads[i].ph = "sent"

\* A watch is over a film.
Watched == watch # NoWatch => watch.film \in Films

LoadInv == TypeOK /\ Quiet /\ Chosen /\ Watched

\* One more load at the end.
LEMMA OneMoreLoad ==
  ASSUME loads \in Seq(Load), NEW x \in Load
  PROVE  /\ Append(loads, x) \in Seq(Load) /\ Len(Append(loads, x)) = Len(loads) + 1
         /\ \A i \in 1..Len(loads) : Append(loads, x)[i] = loads[i]
         /\ Append(loads, x)[Len(loads) + 1] = x
BY AppendProperties

\* What is left when a load was answered.
LEMMA OthersAre ==
  ASSUME loads \in Seq(Load), NEW k \in 1..Len(loads)
  PROVE  /\ Others(k) \in Seq(Load) /\ Len(Others(k)) = Len(loads) - 1
         /\ \A i \in 1..Len(Others(k)) : \E j \in 1..Len(loads) : j # k /\ Others(k)[i] = loads[j]
         /\ \A j \in 1..Len(loads) : j # k => \E i \in 1..Len(Others(k)) : Others(k)[i] = loads[j]
<1>1. Len(loads) \in Nat \ {0} /\ Len(loads) - 1 \in Nat
  BY DEF Load
<1>2. \A i \in 1..(Len(loads) - 1) : Others(k)[i] = IF i < k THEN loads[i] ELSE loads[i + 1]
  BY DEF Others
<1>3. \A i \in 1..(Len(loads) - 1) : Others(k)[i] \in Load
  BY <1>1, <1>2
<1>4. Others(k) \in Seq(Load) /\ Len(Others(k)) = Len(loads) - 1
  BY <1>1, <1>3 DEF Others
<1>5. ASSUME NEW i \in 1..(Len(loads) - 1)
      PROVE  \E j \in 1..Len(loads) : j # k /\ Others(k)[i] = loads[j]
  <2>1. CASE i < k
    BY <1>1, <1>2, <2>1
  <2>2. CASE ~(i < k)
    <3>1. i + 1 \in 1..Len(loads) /\ i + 1 # k
      BY <1>1, <2>2
    <3> QED BY <1>2, <2>2, <3>1
  <2> QED BY <2>1, <2>2
<1>6. ASSUME NEW j \in 1..Len(loads), j # k
      PROVE  \E i \in 1..(Len(loads) - 1) : Others(k)[i] = loads[j]
  <2>1. CASE j < k
    <3>1. j \in 1..(Len(loads) - 1)
      BY <1>1, <2>1
    <3> QED BY <1>2, <2>1, <3>1
  <2>2. CASE ~(j < k)
    <3>1. j - 1 \in 1..(Len(loads) - 1) /\ ~(j - 1 < k) /\ (j - 1) + 1 = j
      BY <1>1, <1>6, <2>2
    <3> QED BY <1>2, <3>1
  <2> QED BY <2>1, <2>2
<1> QED BY <1>4, <1>5, <1>6

\* castLoad, of a film the page is about: with a session it is sent, without one it
\* is not.
LEMMA CastLoadKeeps ==
  ASSUME NEW u \in Films, NEW viaProxy \in BOOLEAN, NEW pending \in Seq(Load),
         CastLoad(u, viaProxy, pending), sess \in BOOLEAN, told \in BOOLEAN,
         ~sess => \A i \in 1..Len(pending) : pending[i].ph \in {"accepted", "refused"}
  PROVE  /\ loads' \in Seq(Load)
         /\ watch' \in [film : Films \cup {NoFilm}, viaProxy : BOOLEAN, extended : BOOLEAN]
         /\ watch' # NoWatch => watch'.film = u
         /\ told' \in BOOLEAN
         /\ ~sess => \A i \in 1..Len(loads') : loads'[i].ph \in {"accepted", "refused"}
         /\ sess => \E i \in 1..Len(loads') : loads'[i].ph = "sent"
         /\ \A f : f = u /\ (\A i \in 1..Len(pending) : pending[i].film = f)
              => \A i \in 1..Len(loads') : loads'[i].film = f
         /\ (\E i \in 1..Len(pending) : pending[i].ph = "sent")
              => \E i \in 1..Len(loads') : loads'[i].ph = "sent"
<1>1. CASE ~sess
  <2>1. loads' = pending /\ watch' = NoWatch /\ told' = told
    BY <1>1 DEF CastLoad
  <2>2. NoWatch \in [film : Films \cup {NoFilm}, viaProxy : BOOLEAN, extended : BOOLEAN]
    BY DEF NoWatch
  <2> QED BY <1>1, <2>1, <2>2
<1>2. CASE sess
  <2> DEFINE x == [film |-> u, viaProxy |-> viaProxy, ph |-> "sent"]
  <2>1. /\ loads' = Append(pending, x)
        /\ watch' = [film |-> u, viaProxy |-> viaProxy, extended |-> FALSE] /\ told' = FALSE
    BY <1>2 DEF CastLoad, Send
  <2>2. x \in Load /\ x.film = u /\ x.ph = "sent"
    BY DEF Load
  <2> HIDE DEF x
  <2>3. /\ loads' \in Seq(Load) /\ Len(loads') = Len(pending) + 1 /\ Len(pending) \in Nat
        /\ \A i \in 1..Len(pending) : loads'[i] = pending[i]
        /\ loads'[Len(pending) + 1] = x
    BY <2>1, <2>2, AppendProperties
  <2>4. loads'[Len(loads')].ph = "sent" /\ Len(loads') \in 1..Len(loads')
    BY <2>2, <2>3
  <2>5. \A i \in 1..Len(loads') : i \in 1..Len(pending) \/ i = Len(pending) + 1
    BY <2>3
  <2>6. /\ watch' \in [film : Films \cup {NoFilm}, viaProxy : BOOLEAN, extended : BOOLEAN]
        /\ watch'.film = u /\ told' \in BOOLEAN
    BY <2>1
  <2>7. \A f : f = u /\ (\A i \in 1..Len(pending) : pending[i].film = f)
          => \A i \in 1..Len(loads') : loads'[i].film = f
    BY <2>2, <2>3, <2>5
  <2> QED BY <1>2, <2>3, <2>4, <2>6, <2>7
<1> QED BY <1>1, <1>2

\* The film of the page is sent once more, with what is left on its way.
LEMMA SentOn ==
  ASSUME LoadInv, NEW u \in Films, NEW viaProxy \in BOOLEAN, NEW pending \in Seq(Load),
         CastLoad(u, viaProxy, pending),
         \A i \in 1..Len(pending) : \E j \in 1..Len(loads) : pending[i] = loads[j],
         UNCHANGED <<sess, tv, seen, last>>, current' \in Films \cup {NoFilm}, clean' \in BOOLEAN,
         stallRetried' \in BOOLEAN, host' \in 0..LastHost, acts' \in 0..MaxActs,
         clean' => u = current' /\ \A i \in 1..Len(loads) : loads[i].film = current'
  PROVE  LoadInv'
<1>1. sess \in BOOLEAN /\ told \in BOOLEAN
  BY DEF LoadInv, TypeOK
<1>2. ~sess => \A i \in 1..Len(pending) : pending[i].ph \in {"accepted", "refused"}
  BY DEF LoadInv, Quiet
<1>3. /\ loads' \in Seq(Load)
      /\ watch' \in [film : Films \cup {NoFilm}, viaProxy : BOOLEAN, extended : BOOLEAN]
      /\ watch' # NoWatch => watch'.film = u
      /\ told' \in BOOLEAN
      /\ ~sess => \A i \in 1..Len(loads') : loads'[i].ph \in {"accepted", "refused"}
      /\ sess => \E i \in 1..Len(loads') : loads'[i].ph = "sent"
      /\ \A f : f = u /\ (\A i \in 1..Len(pending) : pending[i].film = f)
           => \A i \in 1..Len(loads') : loads'[i].film = f
  BY <1>1, <1>2, CastLoadKeeps
<1>4. TypeOK'
  BY <1>3 DEF LoadInv, TypeOK
<1>5. Quiet'
  BY <1>3 DEF LoadInv, Quiet
<1>6. Chosen'
  <2>1. SUFFICES ASSUME clean' PROVE Chosen'
    BY DEF Chosen
  <2>2. \A i \in 1..Len(loads') : loads'[i].film = current'
    BY <1>3, <2>1
  <2>3. tv'.film \in {NoFilm, current'} \/ \E i \in 1..Len(loads') : loads'[i].ph = "sent"
    BY <1>1, <1>3 DEF LoadInv, Quiet
  <2> QED BY <1>3, <2>1, <2>2, <2>3 DEF Chosen
<1>7. Watched'
  BY <1>3 DEF Watched, NoWatch
<1> QED BY <1>4, <1>5, <1>6, <1>7 DEF LoadInv

LEMMA ChooseStep == ASSUME LoadInv, NEW u \in Films, Choose(u) PROVE LoadInv'
<1>1. /\ CastLoad(u, u \in Locked, loads) /\ current' = u /\ clean' = (clean /\ Untouched)
      /\ acts < MaxActs /\ acts' = acts + 1 /\ UNCHANGED <<host, sess, tv, seen, last>>
      /\ stallRetried' = IF sess THEN FALSE ELSE stallRetried
  BY DEF Choose, Act
<1>2. /\ loads \in Seq(Load) /\ acts' \in 0..MaxActs /\ stallRetried' \in BOOLEAN /\ clean' \in BOOLEAN
      /\ host' \in 0..LastHost
  <2>1. loads \in Seq(Load) /\ acts \in 0..MaxActs /\ stallRetried \in BOOLEAN /\ host \in 0..LastHost
    BY DEF LoadInv, TypeOK
  <2>2. acts' \in 0..MaxActs
    BY <1>1, <2>1, ActsAssumption
  <2>3. stallRetried' \in BOOLEAN /\ clean' \in BOOLEAN
    BY <1>1, <2>1
  <2> QED BY <1>1, <2>1, <2>2, <2>3
<1>3. (u \in Locked) \in BOOLEAN
  OBVIOUS
<1>4. clean' => u = current' /\ \A i \in 1..Len(loads) : loads[i].film = current'
  BY <1>1 DEF Untouched
<1> QED BY <1>1, <1>2, <1>3, <1>4, SentOn

LEMMA AgainStep ==
  ASSUME LoadInv, Recaption \/ \E viaProxy \in BOOLEAN : SendAgain(viaProxy)
  PROVE  LoadInv'
<1>1. PICK v \in BOOLEAN : CastLoad(current, v, loads)
  <2>1. ASSUME NEW viaProxy \in BOOLEAN, SendAgain(viaProxy)
        PROVE  \E v \in BOOLEAN : CastLoad(current, v, loads)
    <3>1. (viaProxy \/ current \in Locked) \in BOOLEAN
      OBVIOUS
    <3> QED BY <2>1, <3>1 DEF SendAgain
  <2> QED BY <2>1 DEF Recaption
<1>2. /\ current \in Films /\ acts < MaxActs /\ acts' = acts + 1
      /\ UNCHANGED <<current, host, sess, tv, seen, last, clean>>
      /\ stallRetried' \in {stallRetried, FALSE}
  BY DEF SendAgain, Recaption, Act, LoadInv, TypeOK, page
<1>3. /\ loads \in Seq(Load) /\ acts' \in 0..MaxActs /\ stallRetried' \in BOOLEAN /\ clean' \in BOOLEAN
      /\ host' \in 0..LastHost
  <2>1. /\ loads \in Seq(Load) /\ acts \in 0..MaxActs /\ stallRetried \in BOOLEAN /\ host \in 0..LastHost
        /\ clean \in BOOLEAN
    BY DEF LoadInv, TypeOK
  <2>2. acts' \in 0..MaxActs
    BY <1>2, <2>1, ActsAssumption
  <2>3. stallRetried' \in BOOLEAN /\ clean' \in BOOLEAN
    BY <1>2, <2>1
  <2> QED BY <1>2, <2>1, <2>2, <2>3
<1>4. clean' => current = current' /\ \A i \in 1..Len(loads) : loads[i].film = current'
  BY <1>2 DEF LoadInv, Chosen
<1> QED BY <1>1, <1>2, <1>3, <1>4, SentOn

\* Loads go from phase to phase, and are about the film they were about.
LEMMA PhasesMove ==
  ASSUME loads \in Seq(Load), NEW ph \in [1..Len(loads) -> Phases],
         loads' = [i \in 1..Len(loads) |-> [loads[i] EXCEPT !.ph = ph[i]]]
  PROVE  /\ loads' \in Seq(Load) /\ Len(loads') = Len(loads)
         /\ \A i \in 1..Len(loads) : loads'[i].film = loads[i].film /\ loads'[i].ph = ph[i]
<1>1. Len(loads) \in Nat /\ \A i \in 1..Len(loads) : loads[i] \in Load
  BY ElementOfSeq
<1>2. ASSUME NEW i \in 1..Len(loads)
      PROVE  loads'[i] \in Load /\ loads'[i].film = loads[i].film /\ loads'[i].ph = ph[i]
  BY <1>1, <1>2 DEF Load, Phases
<1>3. loads' \in Seq(Load) /\ Len(loads') = Len(loads)
  BY <1>1, <1>2
<1> QED BY <1>2, <1>3

LEMMA ConnectStep == ASSUME LoadInv, Connect PROVE LoadInv'
<1>1. /\ ~sess /\ sess' = TRUE /\ current # NoFilm /\ stallRetried' = FALSE
      /\ acts < MaxActs /\ acts' = acts + 1 /\ Send(current, current \in Locked, loads)
      /\ UNCHANGED <<current, host, tv, seen, last, clean>>
  BY DEF Connect, Act
<1> DEFINE x == [film |-> current, viaProxy |-> current \in Locked, ph |-> "sent"]
<1>2. loads \in Seq(Load) /\ acts \in 0..MaxActs /\ current \in Films
  BY <1>1 DEF LoadInv, TypeOK
<1>3. /\ loads' = Append(loads, x) /\ told' = FALSE
      /\ watch' = [film |-> current, viaProxy |-> current \in Locked, extended |-> FALSE]
  BY <1>1 DEF Send
<1>4. x \in Load /\ x.film = current
  BY <1>2 DEF Load
<1> HIDE DEF x
<1>5. /\ loads' \in Seq(Load) /\ Len(loads') = Len(loads) + 1 /\ Len(loads) \in Nat
      /\ \A i \in 1..Len(loads) : loads'[i] = loads[i]
      /\ loads'[Len(loads) + 1] = x
  BY <1>2, <1>3, <1>4, OneMoreLoad
<1>6. /\ watch' \in [film : Films \cup {NoFilm}, viaProxy : BOOLEAN, extended : BOOLEAN]
      /\ watch'.film = current
  BY <1>2, <1>3
<1>7. acts' \in 0..MaxActs
  BY <1>1, <1>2, ActsAssumption
<1>8. TypeOK'
  BY <1>1, <1>3, <1>5, <1>6, <1>7 DEF LoadInv, TypeOK
<1>9. Chosen'
  <2>1. SUFFICES ASSUME clean' PROVE Chosen'
    BY DEF Chosen
  <2>2. \A i \in 1..Len(loads) : loads[i].film = current
    BY <1>1, <2>1 DEF LoadInv, Chosen
  <2>3. \A i \in 1..Len(loads') : i \in 1..Len(loads) \/ i = Len(loads) + 1
    BY <1>5
  <2>4. \A i \in 1..Len(loads') : loads'[i].film = current
    BY <1>4, <1>5, <2>2, <2>3
  <2>5. tv.film = NoFilm
    BY <1>1 DEF LoadInv, Quiet
  <2> QED BY <1>1, <1>6, <2>4, <2>5 DEF Chosen
<1> QED BY <1>1, <1>2, <1>6, <1>8, <1>9 DEF LoadInv, Quiet, Watched

LEMMA RejoinStep == ASSUME LoadInv, NEW u \in Films, Rejoin(u) PROVE LoadInv'
<1>1. acts' \in 0..MaxActs
  BY ActsAssumption DEF Rejoin, Act, LoadInv, TypeOK
<1>2. TypeOK'
  BY <1>1 DEF Rejoin, LoadInv, TypeOK, States
<1>3. Quiet' /\ Chosen' /\ Watched'
  BY DEF Rejoin, LoadInv, Quiet, Chosen, Watched
<1> QED BY <1>2, <1>3 DEF LoadInv

\* The session ends: the receiver has nothing, and what it owes is refused.
LEMMA EndedStep ==
  ASSUME LoadInv, Ended, UNCHANGED <<page, seen, clean>>, told' \in BOOLEAN, acts' \in 0..MaxActs
  PROVE  LoadInv'
<1> DEFINE ph == [i \in 1..Len(loads) |-> IF loads[i].ph = "accepted" THEN "accepted" ELSE "refused"]
<1>1. /\ loads \in Seq(Load) /\ loads' = [i \in 1..Len(loads) |-> [loads[i] EXCEPT !.ph = ph[i]]]
      /\ sess' = FALSE /\ tv' = [film |-> NoFilm, st |-> "idle"] /\ watch' = NoWatch /\ last' = "none"
  <2>1. /\ loads \in Seq(Load)
        /\ loads' = [i \in 1..Len(loads) |-> [loads[i] EXCEPT !.ph = IF @ = "accepted" THEN @ ELSE "refused"]]
    BY DEF Ended, LoadInv, TypeOK
  <2>2. \A i \in 1..Len(loads) : loads[i] \in Load
    BY <2>1, ElementOfSeq
  <2> QED BY <2>1, <2>2 DEF Ended, Load
<1>2. /\ loads' \in Seq(Load) /\ Len(loads') = Len(loads)
      /\ \A i \in 1..Len(loads) : loads'[i].film = loads[i].film /\ loads'[i].ph = ph[i]
  <2>1. ph \in [1..Len(loads) -> Phases]
    BY DEF Phases
  <2> HIDE DEF ph
  <2> QED BY <1>1, <2>1, PhasesMove
<1>3. TypeOK'
  BY <1>1, <1>2 DEF LoadInv, TypeOK, page, NoWatch, States
<1>4. Quiet'
  BY <1>1, <1>2 DEF Quiet
<1>5. Chosen' /\ Watched'
  BY <1>1, <1>2 DEF LoadInv, Chosen, Watched, page
<1> QED BY <1>3, <1>4, <1>5 DEF LoadInv

LEMMA StopStep == ASSUME LoadInv, Stop \/ SessionEnds PROVE LoadInv'
<1>1. CASE SessionEnds
  BY <1>1, EndedStep DEF SessionEnds, LoadInv, TypeOK
<1>2. CASE Stop
  <2>1. acts' \in 0..MaxActs /\ UNCHANGED <<page, seen, clean>>
    BY <1>2, ActsAssumption DEF Stop, Act, LoadInv, TypeOK
  <2>2. CASE Ended /\ told' = FALSE
    BY <2>1, <2>2, EndedStep
  <2>3. CASE /\ tv' \in {tv, [tv EXCEPT !.st = "idle"]}
             /\ watch' = NoWatch /\ last' = "none" /\ told' = TRUE
             /\ UNCHANGED <<sess, loads>>
    <3>1. tv' \in [film : Films \cup {NoFilm}, st : States] /\ tv'.film = tv.film
      BY <2>3 DEF LoadInv, TypeOK, States
    <3>2. TypeOK'
      BY <2>1, <2>3, <3>1 DEF LoadInv, TypeOK, page, NoWatch
    <3> QED BY <2>1, <2>3, <3>1, <3>2 DEF LoadInv, Quiet, Chosen, Watched, page
  <2> QED BY <1>2, <2>2, <2>3 DEF Stop
<1> QED BY <1>1, <1>2

LEMMA TakeStep == ASSUME LoadInv, NEW i \in 1..Len(loads), TvTake(i) PROVE LoadInv'
<1>1. PICK end \in {"accepted", "refused"} :
        loads' = [j \in 1..Len(loads) |-> [loads[j] EXCEPT !.ph =
                    IF j = i THEN "trying" ELSE IF @ = "trying" THEN end ELSE @]]
  BY DEF TvTake
<1>2. /\ loads[i].ph = "sent" /\ tv' = [film |-> loads[i].film, st |-> "buffering"]
      /\ UNCHANGED <<page, sess, watch, seen, last, told, acts, clean>>
  BY DEF TvTake
<1>3. loads \in Seq(Load) /\ sess \in BOOLEAN /\ \A j \in 1..Len(loads) : loads[j] \in Load
  BY ElementOfSeq DEF LoadInv, TypeOK
<1> DEFINE ph == [j \in 1..Len(loads) |->
                    IF j = i THEN "trying" ELSE IF loads[j].ph = "trying" THEN end ELSE loads[j].ph]
<1>4. /\ ph \in [1..Len(loads) -> Phases]
      /\ loads' = [j \in 1..Len(loads) |-> [loads[j] EXCEPT !.ph = ph[j]]]
  BY <1>1, <1>3 DEF Load, Phases
<1> HIDE DEF ph
<1>5. /\ loads' \in Seq(Load) /\ Len(loads') = Len(loads)
      /\ \A j \in 1..Len(loads) : loads'[j].film = loads[j].film
  BY <1>3, <1>4, PhasesMove
<1>6. TypeOK'
  <2>1. tv' \in [film : Films \cup {NoFilm}, st : States]
    BY <1>2, <1>3 DEF Load, States
  <2> QED BY <1>2, <1>5, <2>1 DEF LoadInv, TypeOK, page
<1>7. Quiet'
  BY <1>2, <1>3 DEF LoadInv, Quiet
<1>8. Chosen'
  <2>1. SUFFICES ASSUME clean' PROVE Chosen'
    BY DEF Chosen
  <2>2. /\ \A j \in 1..Len(loads) : loads[j].film = current
        /\ watch # NoWatch => watch.film = current
    BY <1>2, <2>1 DEF LoadInv, Chosen
  <2> QED BY <1>2, <1>5, <2>2 DEF Chosen, page
<1> QED BY <1>2, <1>6, <1>7, <1>8 DEF LoadInv, Watched

LEMMA TvAnswerStep == ASSUME LoadInv, NEW i \in 1..Len(loads), TvAnswer(i) PROVE LoadInv'
<1>1. PICK end \in {"accepted", "refused"} :
        /\ loads' = [loads EXCEPT ![i].ph = end]
        /\ end = "accepted" => tv' = tv
        /\ end = "refused" => tv' = [film |-> NoFilm, st |-> "idle"]
  BY DEF TvAnswer
<1>2. loads[i].ph = "trying" /\ UNCHANGED <<page, sess, watch, seen, last, told, acts, clean>>
  BY DEF TvAnswer
<1>3. loads \in Seq(Load) /\ sess \in BOOLEAN /\ \A j \in 1..Len(loads) : loads[j] \in Load
  BY ElementOfSeq DEF LoadInv, TypeOK
<1> DEFINE ph == [j \in 1..Len(loads) |-> IF j = i THEN end ELSE loads[j].ph]
<1>4. /\ ph \in [1..Len(loads) -> Phases]
      /\ loads' = [j \in 1..Len(loads) |-> [loads[j] EXCEPT !.ph = ph[j]]]
  <2>1. ph \in [1..Len(loads) -> Phases]
    BY <1>3 DEF Load, Phases
  <2>2. loads' = [j \in 1..Len(loads) |-> IF j = i THEN [loads[i] EXCEPT !.ph = end] ELSE loads[j]]
    <3>1. DOMAIN loads = 1..Len(loads)
      BY <1>3
    <3> QED BY <1>1, <3>1
  <2>3. \A j \in 1..Len(loads) : loads[j] = [loads[j] EXCEPT !.ph = loads[j].ph]
    BY <1>3 DEF Load
  <2> QED BY <2>1, <2>2, <2>3
<1>5. /\ loads' \in Seq(Load) /\ Len(loads') = Len(loads)
      /\ \A j \in 1..Len(loads) : loads'[j].film = loads[j].film /\ loads'[j].ph = ph[j]
  <2> HIDE DEF ph
  <2> QED BY <1>3, <1>4, PhasesMove
<1>6. \A j \in 1..Len(loads) : loads[j].ph = "sent" => loads'[j].ph = "sent"
  BY <1>2, <1>5
<1> HIDE DEF ph
<1>7. tv' \in [film : Films \cup {NoFilm}, st : States] /\ tv'.film \in {tv.film, NoFilm}
  BY <1>1 DEF LoadInv, TypeOK, States
<1>8. TypeOK'
  BY <1>2, <1>5, <1>7 DEF LoadInv, TypeOK, page
<1>9. Quiet'
  BY <1>2, <1>3 DEF LoadInv, Quiet
<1>10. Chosen'
  <2>1. SUFFICES ASSUME clean' PROVE Chosen'
    BY DEF Chosen
  <2>2. /\ \A j \in 1..Len(loads) : loads[j].film = current
        /\ watch # NoWatch => watch.film = current
        /\ tv.film \in {NoFilm, current} \/ \E j \in 1..Len(loads) : loads[j].ph = "sent"
    BY <1>2, <2>1 DEF LoadInv, Chosen
  <2> QED BY <1>2, <1>5, <1>6, <1>7, <2>2 DEF Chosen, page
<1> QED BY <1>2, <1>8, <1>9, <1>10 DEF LoadInv, Watched

LEMMA SeenStep == ASSUME LoadInv, TvMoves \/ Observe PROVE LoadInv'
<1>1. CASE TvMoves
  <2>1. PICK s \in States : tv' = [tv EXCEPT !.st = s]
    BY <1>1 DEF TvMoves
  <2>2. tv' \in [film : Films \cup {NoFilm}, st : States] /\ tv'.film = tv.film
    BY <2>1 DEF LoadInv, TypeOK
  <2>3. UNCHANGED <<page, sess, watch, loads, seen, last, told, acts, clean>>
    BY <1>1 DEF TvMoves
  <2> QED BY <2>2, <2>3 DEF LoadInv, TypeOK, Quiet, Chosen, Watched, page
<1>2. CASE Observe
  <2>1. /\ UNCHANGED <<page, sess, loads, tv, told, acts, clean>> /\ watch' \in {watch, NoWatch}
        /\ last' \in States \cup {"none"} /\ seen' \in [loaded : BOOLEAN, st : States]
    BY <1>2 DEF Observe, LoadInv, TypeOK
  <2>2. watch' \in [film : Films \cup {NoFilm}, viaProxy : BOOLEAN, extended : BOOLEAN]
    <3>1. NoWatch \in [film : Films \cup {NoFilm}, viaProxy : BOOLEAN, extended : BOOLEAN]
      BY DEF NoWatch
    <3>2. watch \in [film : Films \cup {NoFilm}, viaProxy : BOOLEAN, extended : BOOLEAN]
      BY DEF LoadInv, TypeOK
    <3> QED BY <2>1, <3>1, <3>2
  <2> QED BY <2>1, <2>2 DEF LoadInv, TypeOK, Quiet, Chosen, Watched, page
<1> QED BY <1>1, <1>2

\* A load that was answered is done with, and no other is sent for it.
LEMMA DoneWith ==
  ASSUME LoadInv, NEW i \in 1..Len(loads), loads[i].ph \in {"accepted", "refused"},
         loads' = Others(i), watch' \in {watch, NoWatch}, told' \in BOOLEAN,
         UNCHANGED <<page, sess, tv, seen, last, acts, clean>>
  PROVE  LoadInv'
<1>1. loads \in Seq(Load) /\ \A j \in 1..Len(loads) : loads[j].ph = "sent" => j # i
  BY DEF LoadInv, TypeOK
<1>2. /\ loads' \in Seq(Load)
      /\ \A j \in 1..Len(loads') : \E k \in 1..Len(loads) : loads'[j] = loads[k]
      /\ \A j \in 1..Len(loads) : loads[j].ph = "sent" => \E k \in 1..Len(loads') : loads'[k] = loads[j]
  BY <1>1, OthersAre
<1>3. watch' \in [film : Films \cup {NoFilm}, viaProxy : BOOLEAN, extended : BOOLEAN]
  <2>1. NoWatch \in [film : Films \cup {NoFilm}, viaProxy : BOOLEAN, extended : BOOLEAN]
    BY DEF NoWatch
  <2>2. watch \in [film : Films \cup {NoFilm}, viaProxy : BOOLEAN, extended : BOOLEAN]
    BY DEF LoadInv, TypeOK
  <2> QED BY <2>1, <2>2
<1>4. TypeOK'
  BY <1>2, <1>3 DEF LoadInv, TypeOK, page
<1>5. Quiet'
  BY <1>2 DEF LoadInv, Quiet
<1>6. Chosen'
  <2>1. SUFFICES ASSUME clean' PROVE Chosen'
    BY DEF Chosen
  <2>2. /\ \A j \in 1..Len(loads) : loads[j].film = current
        /\ watch # NoWatch => watch.film = current
        /\ tv.film \in {NoFilm, current} \/ \E j \in 1..Len(loads) : loads[j].ph = "sent"
    BY <2>1 DEF LoadInv, Chosen
  <2>3. (\E j \in 1..Len(loads) : loads[j].ph = "sent") => \E j \in 1..Len(loads') : loads'[j].ph = "sent"
    BY <1>2
  <2>4. \A j \in 1..Len(loads') : loads'[j].film = current
    BY <1>2, <2>2
  <2> QED BY <2>2, <2>3, <2>4 DEF Chosen, page
<1> QED BY <1>4, <1>5, <1>6 DEF LoadInv, Watched

LEMMA AcceptedStep == ASSUME LoadInv, NEW i \in 1..Len(loads), Accepted(i) PROVE LoadInv'
BY DoneWith DEF Accepted, LoadInv, TypeOK

LEMMA RefusedStep == ASSUME LoadInv, NEW i \in 1..Len(loads), Refused(i) PROVE LoadInv'
<1>1. /\ loads[i].ph = "refused" /\ UNCHANGED <<current, stallRetried, sess, tv, seen, last, acts, clean>>
      /\ \/ CastLoad(loads[i].film, TRUE, Others(i)) /\ (NextHost \/ UNCHANGED host)
         \/ GiveUp /\ loads' = Others(i) /\ UNCHANGED host
  BY DEF Refused
<1>2. loads \in Seq(Load) /\ loads[i] \in Load
  BY ElementOfSeq DEF LoadInv, TypeOK
<1>3. CASE CastLoad(loads[i].film, TRUE, Others(i)) /\ (NextHost \/ UNCHANGED host)
  <2>1. loads[i].film \in Films
    BY <1>2 DEF Load
  <2>2. /\ Others(i) \in Seq(Load)
        /\ \A j \in 1..Len(Others(i)) : \E k \in 1..Len(loads) : Others(i)[j] = loads[k]
    BY <1>2, OthersAre
  <2>3. host' \in 0..LastHost
    BY <1>3 DEF NextHost, LastHost, LoadInv, TypeOK
  <2>4. /\ current' \in Films \cup {NoFilm} /\ clean' \in BOOLEAN /\ stallRetried' \in BOOLEAN
        /\ acts' \in 0..MaxActs /\ UNCHANGED <<sess, tv, seen, last>>
    BY <1>1 DEF LoadInv, TypeOK
  <2>5. clean' => loads[i].film = current' /\ \A j \in 1..Len(loads) : loads[j].film = current'
    BY <1>1 DEF LoadInv, Chosen
  <2> QED BY <1>3, <2>1, <2>2, <2>3, <2>4, <2>5, SentOn
<1>4. CASE GiveUp /\ loads' = Others(i) /\ UNCHANGED host
  BY <1>1, <1>4, DoneWith DEF GiveUp, page
<1> QED BY <1>1, <1>3, <1>4

LEMMA WatchStep == ASSUME LoadInv, WatchFires PROVE LoadInv'
<1>1. /\ watch # NoWatch /\ UNCHANGED <<current, sess, tv, seen, last, acts, clean>>
      /\ watch \in [film : Films \cup {NoFilm}, viaProxy : BOOLEAN, extended : BOOLEAN]
  BY DEF WatchFires, LoadInv, TypeOK
<1>2. CASE /\ CastLoad(watch.film, TRUE, loads)
           /\ stallRetried' \in {stallRetried, TRUE} /\ (NextHost \/ UNCHANGED host)
  <2>1. watch.film \in Films /\ loads \in Seq(Load)
    BY <1>1 DEF LoadInv, Watched, TypeOK
  <2>2. host' \in 0..LastHost
    BY <1>2 DEF NextHost, LastHost, LoadInv, TypeOK
  <2>3. /\ current' \in Films \cup {NoFilm} /\ clean' \in BOOLEAN /\ stallRetried' \in BOOLEAN
        /\ acts' \in 0..MaxActs /\ UNCHANGED <<sess, tv, seen, last>>
    BY <1>1, <1>2 DEF LoadInv, TypeOK
  <2>4. clean' => watch.film = current' /\ \A j \in 1..Len(loads) : loads[j].film = current'
    BY <1>1 DEF LoadInv, Chosen
  <2> QED BY <1>2, <2>1, <2>2, <2>3, <2>4, SentOn
<1>3. CASE /\ UNCHANGED <<stallRetried, host, loads>> /\ told' \in BOOLEAN
           /\ watch' \in {NoWatch, [watch EXCEPT !.extended = TRUE]}
  <2>1. /\ watch' \in [film : Films \cup {NoFilm}, viaProxy : BOOLEAN, extended : BOOLEAN]
        /\ watch' # NoWatch => watch'.film = watch.film
    <3>1. NoWatch \in [film : Films \cup {NoFilm}, viaProxy : BOOLEAN, extended : BOOLEAN]
      BY DEF NoWatch
    <3> QED BY <1>1, <1>3, <3>1
  <2> QED BY <1>1, <1>3, <2>1 DEF LoadInv, TypeOK, Quiet, Chosen, Watched
<1>4. \/ /\ CastLoad(watch.film, TRUE, loads)
         /\ stallRetried' \in {stallRetried, TRUE} /\ (NextHost \/ UNCHANGED host)
      \/ /\ UNCHANGED <<stallRetried, host, loads>> /\ told' \in BOOLEAN
         /\ watch' \in {NoWatch, [watch EXCEPT !.extended = TRUE]}
  BY DEF WatchFires, GiveUp, LoadInv, TypeOK
<1> QED BY <1>2, <1>3, <1>4

LEMMA LoadInit == Init => LoadInv
<1>1. SUFFICES ASSUME Init PROVE LoadInv
  OBVIOUS
<1>2. TypeOK
  <2>1. NoWatch \in [film : Films \cup {NoFilm}, viaProxy : BOOLEAN, extended : BOOLEAN]
    BY DEF NoWatch
  <2>2. /\ [film |-> NoFilm, st |-> "idle"] \in [film : Films \cup {NoFilm}, st : States]
        /\ [loaded |-> FALSE, st |-> "idle"] \in [loaded : BOOLEAN, st : States]
    BY DEF States
  <2>3. <<>> \in Seq(Load) /\ 0 \in 0..MaxActs /\ 0 \in 0..LastHost
    BY ActsAssumption DEF LastHost
  <2> QED BY <1>1, <2>1, <2>2, <2>3 DEF Init, TypeOK
<1>3. Quiet /\ Chosen /\ Watched
  BY <1>1 DEF Init, Quiet, Chosen, Watched
<1> QED BY <1>2, <1>3 DEF LoadInv

LEMMA LoadNext == LoadInv /\ [Next]_vars => LoadInv'
<1>1. SUFFICES ASSUME LoadInv, [Next]_vars PROVE LoadInv'
  OBVIOUS
<1>2. CASE UNCHANGED vars
  BY <1>1, <1>2 DEF vars, page, LoadInv, TypeOK, Quiet, Chosen, Watched
<1>3. ASSUME NEW u \in Films, Choose(u) \/ Rejoin(u) PROVE LoadInv'
  BY <1>1, <1>3, ChooseStep, RejoinStep
<1>4. CASE Recaption \/ \E viaProxy \in BOOLEAN : SendAgain(viaProxy)
  BY <1>1, <1>4, AgainStep
<1>5. CASE Connect \/ Stop \/ SessionEnds
  BY <1>1, <1>5, ConnectStep, StopStep
<1>6. CASE Take \/ Answer \/ Answered
  BY <1>1, <1>6, TakeStep, TvAnswerStep, AcceptedStep, RefusedStep DEF Take, Answer, Answered
<1>7. CASE TvMoves \/ Observe
  BY <1>1, <1>7, SeenStep
<1>8. CASE WatchFires
  BY <1>1, <1>8, WatchStep
<1> QED BY <1>1, <1>2, <1>3, <1>4, <1>5, <1>6, <1>7, <1>8 DEF Next

\* Every variable keeps its type, and the page's loads their hosts (app.js castLoad).
THEOREM TypeCorrect == Spec => []TypeOK
<1>1. LoadInv => TypeOK
  BY DEF LoadInv
<1> QED BY <1>1, LoadInit, LoadNext, PTL DEF Spec

\* Retries, through one bridge and the next, never bring back a film the person has
\* left: when nothing is on its way, the television has the film of the page
\* (app.js castLoad, nextStreamHost, armStallWatch).
THEOREM ShowsTheChoice == Spec => []TvShowsTheChoice
<1>1. LoadInv => TvShowsTheChoice
  BY DEF LoadInv, Chosen, TvShowsTheChoice
<1> QED BY <1>1, LoadInit, LoadNext, PTL DEF Spec

-----------------------------------------------------------------------------
(* The film a session is about: CastResume. *)

CONSTANT Lives

VARIABLES phone, asked, picking, pendingAt, restored, reading, row, wire, carry, over, life

Resume == INSTANCE CastResume

\* What this run of the page checks of CastResume, by its name there.
NoBannerOverLive == Resume!NoBannerOverLive
ResumeKeepsPlace == Resume!ResumeKeepsPlace
RejoinNotResent  == Resume!RejoinNotResent

\* While a film is picked back up there is no session yet: it is the film of the page,
\* its place is what is kept, and no row is left to adopt.
CarryKept ==
  carry # NoFilm => sess = "none" /\ current = carry /\ pendingAt = carry /\ restored = NoFilm

\* A session is asked for by the picker, and the wish ends with it.
AskedPicks == asked => picking

ResumeInv == Resume!TypeOK /\ NoBannerOverLive /\ CarryKept /\ AskedPicks

\* What a session that comes, or comes back, makes of page and television.
LEMMA ConnectedKeeps ==
  ASSUME ResumeInv, NEW ev \in Resume!Events, NEW first \in BOOLEAN, Resume!Connected(ev, first)
  PROVE  /\ current' \in Resume!Maybe /\ asked' = FALSE /\ pendingAt' \in Resume!Maybe
         /\ restored' = NoFilm /\ carry' = NoFilm /\ over' = FALSE
         /\ tv' \in [film : Resume!Maybe, from : Resume!Maybe, n : Nat]
         /\ UNCHANGED <<phone, reading, row, wire, life>>
         /\ carry # NoFilm /\ tv'.n # tv.n => tv'.film = carry /\ tv'.from = carry
         /\ ev = "RESUMED" /\ ~asked => tv' = tv
<1> DEFINE send == Resume!Sends(ev, asked, (IF first THEN Resume!Named(current) ELSE current) # NoFilm)
<1>1. /\ current \in Resume!Maybe /\ pendingAt \in Resume!Maybe /\ restored \in Resume!Maybe
      /\ phone \in Resume!Maybe /\ asked \in BOOLEAN
      /\ tv \in [film : Resume!Maybe, from : Resume!Maybe, n : Nat]
  BY DEF ResumeInv, Resume!TypeOK
<1>2. /\ asked' = FALSE /\ current' = Resume!Named(current) /\ restored' = NoFilm
      /\ carry' = NoFilm /\ over' = FALSE /\ UNCHANGED <<phone, reading, row, wire, life>>
      /\ tv' = IF send THEN Resume!Sent(Resume!Named(current), pendingAt) ELSE tv
      /\ pendingAt' = IF send THEN NoFilm ELSE pendingAt
  BY DEF Resume!Connected, Resume!net
<1>3. Resume!Named(current) \in Resume!Maybe /\ NoFilm \in Resume!Maybe
  BY <1>1 DEF Resume!Named, Resume!Maybe
<1>4. Resume!Sent(Resume!Named(current), pendingAt) \in [film : Resume!Maybe, from : Resume!Maybe, n : Nat]
  BY <1>1, <1>3 DEF Resume!Sent
<1>5. ev = "RESUMED" /\ ~asked => ~send
  BY DEF Resume!Sends
<1>6. carry # NoFilm => Resume!Named(current) = carry /\ pendingAt = carry
  BY DEF ResumeInv, CarryKept, Resume!Named
<1>7. carry # NoFilm => /\ Resume!Sent(Resume!Named(current), pendingAt).film = carry
                        /\ Resume!Sent(Resume!Named(current), pendingAt).from = carry
  BY <1>6 DEF Resume!Sent
<1> HIDE DEF send
<1> QED BY <1>1, <1>2, <1>3, <1>4, <1>5, <1>7

\* A step leaves the invariant, and a film that is picked up its place.
Resumes == ResumeInv' /\ (carry # NoFilm /\ tv'.n # tv.n => tv'.film = carry /\ tv'.from = carry)

LEMMA SessionComes ==
  ASSUME ResumeInv, NEW first \in BOOLEAN,
         \/ Resume!Picked(first) \/ Resume!FromMenu(first) \/ Resume!Blink(first)
         \/ \E ev \in Resume!Events : Resume!Rejoin(ev, first)
  PROVE  Resumes
<1>1. PICK ev \in Resume!Events : Resume!Connected(ev, first)
  BY DEF Resume!Picked, Resume!FromMenu, Resume!Blink, Resume!Rejoin, Resume!Events
<1>2. /\ acts < MaxActs /\ acts' = acts + 1 /\ picking' \in {picking, FALSE}
      /\ sess' \in {sess, "page", "menu", "rejoin"}
  BY DEF Resume!Picked, Resume!FromMenu, Resume!Blink, Resume!Rejoin, Resume!Act
<1>3. acts' \in 0..MaxActs /\ picking' \in BOOLEAN /\ sess' \in {"none", "page", "menu", "rejoin"}
  <2>1. acts \in 0..MaxActs /\ picking \in BOOLEAN /\ sess \in {"none", "page", "menu", "rejoin"}
    BY DEF ResumeInv, Resume!TypeOK
  <2>2. acts' \in 0..MaxActs
    BY <1>2, <2>1, ActsAssumption
  <2>3. picking' \in BOOLEAN
    BY <1>2, <2>1
  <2>4. sess' \in {"none", "page", "menu", "rejoin"}
    BY <1>2, <2>1
  <2> QED BY <2>2, <2>3, <2>4
<1>4. /\ current' \in Resume!Maybe /\ asked' = FALSE /\ pendingAt' \in Resume!Maybe
      /\ restored' = NoFilm /\ carry' = NoFilm /\ over' = FALSE
      /\ tv' \in [film : Resume!Maybe, from : Resume!Maybe, n : Nat]
      /\ UNCHANGED <<phone, reading, row, wire, life>>
      /\ carry # NoFilm /\ tv'.n # tv.n => tv'.film = carry /\ tv'.from = carry
  BY <1>1, ConnectedKeeps
<1>5. NoFilm \in Resume!Maybe
  BY DEF Resume!Maybe
<1>6. (Resume!TypeOK)'
  BY <1>3, <1>4, <1>5 DEF ResumeInv, Resume!TypeOK
<1> QED BY <1>4, <1>6 DEF Resumes, ResumeInv, NoBannerOverLive, Resume!NoBannerOverLive, CarryKept, AskedPicks

LEMMA PersonActs ==
  ASSUME ResumeInv,
         \/ Resume!Unpicked \/ Resume!TapCast \/ Resume!TapResume \/ Resume!Dismiss \/ Resume!Refresh
  PROVE  Resumes
<1>1. /\ acts' \in 0..MaxActs /\ UNCHANGED <<phone, row, sess, tv, over, life>>
      /\ NoFilm \in Resume!Maybe
  BY ActsAssumption DEF Resume!Unpicked, Resume!TapCast, Resume!TapResume, Resume!Dismiss, Resume!Refresh,
    Resume!Act, Resume!net, Resume!page, Resume!Maybe, ResumeInv, Resume!TypeOK
<1>2. CASE Resume!Unpicked
  BY <1>1, <1>2 DEF Resume!Unpicked, Resume!net, Resumes, ResumeInv, Resume!TypeOK, NoBannerOverLive,
    Resume!NoBannerOverLive, CarryKept, AskedPicks
<1>3. CASE Resume!TapCast
  BY <1>1, <1>3 DEF Resume!TapCast, Resume!net, Resumes, ResumeInv, Resume!TypeOK, NoBannerOverLive,
    Resume!NoBannerOverLive, CarryKept, AskedPicks
<1>4. CASE Resume!TapResume
  BY <1>1, <1>4 DEF Resume!TapResume, Resume!net, Resumes, ResumeInv, Resume!TypeOK, NoBannerOverLive,
    Resume!NoBannerOverLive, CarryKept, AskedPicks
<1>5. CASE Resume!Dismiss
  BY <1>1, <1>5 DEF Resume!Dismiss, Resumes, ResumeInv, Resume!TypeOK, NoBannerOverLive,
    Resume!NoBannerOverLive, CarryKept, AskedPicks
<1>6. CASE Resume!Refresh
  BY <1>1, <1>6 DEF Resume!Refresh, Resume!page, Resumes, ResumeInv, Resume!TypeOK, NoBannerOverLive,
    Resume!NoBannerOverLive, CarryKept, AskedPicks
<1> QED BY <1>2, <1>3, <1>4, <1>5, <1>6

\* A film is chosen, or sent again: with a session nothing is picked back up.
LEMMA PersonSends ==
  ASSUME ResumeInv, Resume!SendAgain \/ \E f \in Films : Resume!Choose(f)
  PROVE  Resumes
<1>1. acts' \in 0..MaxActs
  BY ActsAssumption DEF Resume!SendAgain, Resume!Choose, Resume!Act, ResumeInv, Resume!TypeOK
<1>2. ASSUME NEW f \in Resume!Maybe
      PROVE  Resume!Sent(f, NoFilm) \in [film : Resume!Maybe, from : Resume!Maybe, n : Nat]
  BY DEF Resume!Sent, ResumeInv, Resume!TypeOK
<1>3. NoFilm \in Resume!Maybe /\ Films \subseteq Resume!Maybe
  BY DEF Resume!Maybe
<1>4. CASE Resume!SendAgain
  <2>1. tv' = Resume!Sent(current, NoFilm) /\ sess # "none"
    BY <1>4 DEF Resume!SendAgain
  <2>2. tv' \in [film : Resume!Maybe, from : Resume!Maybe, n : Nat]
    BY <1>2, <2>1 DEF ResumeInv, Resume!TypeOK
  <2> QED BY <1>1, <1>4, <2>1, <2>2 DEF Resume!SendAgain, Resume!page, Resume!net, Resumes, ResumeInv,
    Resume!TypeOK, NoBannerOverLive, Resume!NoBannerOverLive, CarryKept, AskedPicks
<1>5. ASSUME NEW f \in Films, Resume!Choose(f) PROVE Resumes
  <2>1. tv' = IF sess = "none" THEN tv ELSE Resume!Sent(f, NoFilm)
    BY <1>5 DEF Resume!Choose
  <2>2. tv' \in [film : Resume!Maybe, from : Resume!Maybe, n : Nat]
    BY <1>2, <1>3, <2>1 DEF ResumeInv, Resume!TypeOK
  <2>3. carry # NoFilm => tv' = tv
    BY <2>1 DEF ResumeInv, CarryKept
  <2> QED BY <1>1, <1>3, <1>5, <2>2, <2>3 DEF Resume!Choose, Resume!net, Resumes, ResumeInv,
    Resume!TypeOK, NoBannerOverLive, Resume!NoBannerOverLive, CarryKept, AskedPicks
<1> QED BY <1>4, <1>5

LEMMA SessionGoes ==
  ASSUME ResumeInv, Lives \in Nat \ {0}, Resume!SessionEnds \/ Resume!Reload \/ Resume!Beat
  PROVE  Resumes
<1>1. NoFilm \in Resume!Maybe /\ Resume!Wanted \in Resume!Maybe \cup {Resume!NotRead, Resume!Wanted}
  BY DEF Resume!Maybe
<1>2. Resume!Del \in {Resume!Put(f) : f \in Films} \cup {Resume!Del}
  OBVIOUS
<1>3. current # NoFilm => Resume!Put(current) \in {Resume!Put(f) : f \in Films}
  BY DEF ResumeInv, Resume!TypeOK, Resume!Maybe
<1>4. CASE Resume!SessionEnds
  <2>1. tv' \in [film : Resume!Maybe, from : Resume!Maybe, n : Nat] /\ tv'.n = tv.n
    BY <1>1, <1>4 DEF Resume!SessionEnds, ResumeInv, Resume!TypeOK
  <2> QED BY <1>1, <1>2, <1>4, <2>1 DEF Resume!SessionEnds, Resumes, ResumeInv,
    Resume!TypeOK, NoBannerOverLive, Resume!NoBannerOverLive, CarryKept, AskedPicks
<1>5. CASE Resume!Reload
  <2>1. life' \in 1..Lives
    BY <1>5 DEF Resume!Reload, ResumeInv, Resume!TypeOK
  <2> QED BY <1>1, <1>3, <1>5, <2>1 DEF Resume!Reload, Resumes, ResumeInv,
    Resume!TypeOK, NoBannerOverLive, Resume!NoBannerOverLive, CarryKept, AskedPicks
<1>6. CASE Resume!Beat
  BY <1>3, <1>6 DEF Resume!Beat, Resume!page, Resumes, ResumeInv,
    Resume!TypeOK, NoBannerOverLive, Resume!NoBannerOverLive, CarryKept, AskedPicks
<1> QED BY <1>4, <1>5, <1>6

\* The row: an answer is adopted by a session that is there, and restored where none is.
LEMMA RowComes ==
  ASSUME ResumeInv, Resume!Read \/ Resume!Restore \/ \E w \in wire : Resume!Land(w)
  PROVE  Resumes
<1>1. NoFilm \in Resume!Maybe
  BY DEF Resume!Maybe
<1>2. CASE Resume!Read
  BY <1>2 DEF Resume!Read, Resume!page, Resumes, ResumeInv,
    Resume!TypeOK, NoBannerOverLive, Resume!NoBannerOverLive, CarryKept, AskedPicks
<1>3. CASE Resume!Restore
  BY <1>1, <1>3 DEF Resume!Restore, Resumes, ResumeInv,
    Resume!TypeOK, NoBannerOverLive, Resume!NoBannerOverLive, CarryKept, AskedPicks
<1>4. ASSUME NEW w \in wire, Resume!Land(w) PROVE Resumes
  <2>1. w.film \in Resume!Maybe
    BY DEF ResumeInv, Resume!TypeOK, Resume!Put, Resume!Del, Resume!Maybe
  <2> QED BY <1>4, <2>1 DEF Resume!Land, Resume!page, Resumes, ResumeInv,
    Resume!TypeOK, NoBannerOverLive, Resume!NoBannerOverLive, CarryKept, AskedPicks
<1> QED BY <1>2, <1>3, <1>4

LEMMA ResumeInit == ASSUME Lives \in Nat \ {0}, Resume!Init PROVE ResumeInv
<1>1. NoFilm \in Resume!Maybe /\ Resume!Wanted \in Resume!Maybe \cup {Resume!NotRead, Resume!Wanted}
  BY DEF Resume!Maybe
<1>2. tv \in [film : Resume!Maybe, from : Resume!Maybe, n : Nat]
  BY <1>1 DEF Resume!Init
<1>3. 0 \in 0..MaxActs /\ 1 \in 1..Lives
  BY ActsAssumption
<1>4. Resume!TypeOK
  BY <1>1, <1>2, <1>3 DEF Resume!Init, Resume!TypeOK
<1> QED BY <1>4 DEF Resume!Init, ResumeInv, NoBannerOverLive, Resume!NoBannerOverLive, CarryKept, AskedPicks

LEMMA ResumeNext ==
  ASSUME Lives \in Nat \ {0}, ResumeInv, [Resume!Next]_(Resume!vars)
  PROVE  Resumes
<1>1. CASE UNCHANGED Resume!vars
  BY <1>1 DEF Resume!vars, Resume!page, Resume!net, Resumes, ResumeInv, Resume!TypeOK, NoBannerOverLive,
    Resume!NoBannerOverLive, CarryKept, AskedPicks
<1>2. CASE \/ \E first \in BOOLEAN : Resume!Picked(first) \/ Resume!FromMenu(first) \/ Resume!Blink(first)
           \/ \E ev \in Resume!Events, first \in BOOLEAN : Resume!Rejoin(ev, first)
  BY <1>2, SessionComes
<1>3. CASE \/ Resume!Unpicked \/ Resume!TapCast \/ Resume!TapResume \/ Resume!Dismiss \/ Resume!Refresh
  BY <1>3, PersonActs
<1>4. CASE Resume!SendAgain \/ \E f \in Films : Resume!Choose(f)
  BY <1>4, PersonSends
<1>5. CASE Resume!SessionEnds \/ Resume!Reload \/ Resume!Beat
  BY <1>5, SessionGoes
<1>6. CASE Resume!Read \/ Resume!Restore \/ \E w \in wire : Resume!Land(w)
  BY <1>6, RowComes
<1> QED BY <1>1, <1>2, <1>3, <1>4, <1>5, <1>6 DEF Resume!Next

LEMMA ResumeInvariance == ASSUME Lives \in Nat \ {0} PROVE Resume!Spec => []ResumeInv
<1>1. Resume!Init => ResumeInv
  BY ResumeInit
<1>2. ResumeInv /\ [Resume!Next]_(Resume!vars) => ResumeInv'
  BY ResumeNext DEF Resumes
<1> QED BY <1>1, <1>2, PTL DEF Resume!Spec

\* The banner that offers to pick a film back up never stands over a live session, in
\* whatever order row and session come (app.js drawNowPlaying, adoptIfRejoined).
THEOREM BannerIsDown == ASSUME Lives \in Nat \ {0} PROVE Resume!Spec => []NoBannerOverLive
<1>1. ResumeInv => NoBannerOverLive
  BY DEF ResumeInv
<1> QED BY <1>1, ResumeInvariance, PTL

\* A film that is picked back up goes to the television as that film and from where it
\* had got to, however often the picker is dismissed (app.js resumeSession, castLoad).
THEOREM ResumedInPlace == ASSUME Lives \in Nat \ {0} PROVE Resume!Spec => ResumeKeepsPlace
<1>1. ResumeInv /\ [Resume!Next]_(Resume!vars)
        => [carry # NoFilm /\ tv'.n # tv.n => tv'.film = carry /\ tv'.from = carry]_(Resume!vars)
  BY ResumeNext DEF Resumes
<1> QED BY <1>1, ResumeInvariance, PTL DEF Resume!Spec, ResumeKeepsPlace, Resume!ResumeKeepsPlace

\* A session that comes back as RESUMED sends nothing while no picker is open: what is
\* on the television goes on (castaction.js onSession).
THEOREM NotSentAgain == ASSUME Lives \in Nat \ {0} PROVE Resume!Spec => RejoinNotResent
<1>1. ASSUME ResumeInv
      PROVE  \A first \in BOOLEAN :
               (Resume!Rejoin("RESUMED", first) \/ Resume!Blink(first)) /\ ~picking => tv'.n = tv.n
  <2>1. SUFFICES ASSUME NEW first \in BOOLEAN, Resume!Connected("RESUMED", first), ~picking
                 PROVE  tv'.n = tv.n
    BY DEF Resume!Rejoin, Resume!Blink
  <2>2. ~asked /\ "RESUMED" \in Resume!Events
    BY <1>1, <2>1 DEF ResumeInv, AskedPicks, Resume!Events
  <2> QED BY <1>1, <2>1, <2>2, ConnectedKeeps
<1> QED BY <1>1, ResumeInvariance, PTL DEF Resume!Spec, RejoinNotResent, Resume!RejoinNotResent

-----------------------------------------------------------------------------
(* The log of a cast on its way to the server: CastLog. *)

CONSTANTS People, None, MaxLines, QueueCap, PreCap, MaxFaults, MaxTurns

VARIABLES me, session, queue, pre, timer, posts, logs, said, stored, lost, faults, turns

Log == INSTANCE CastLog

LogIsOfItsFilm == Log!LogIsOfItsFilm

\* The lines said before there was a film or a person, and those a log of film f may hold.
Early == {n \in Log!Lines : said[n].film = None \/ said[n].who = None}
Of(f) == {n \in Log!Lines : said[n].film = f} \cup Early

Someone  == People \cup {None}
Post     == [id : Nat, who : Someone, lines : Seq(Nat), how : {"beacon", "fetch"}, landed : BOOLEAN]
PostOK(p) == p \in Post /\ p.id \in 1..Len(logs) /\ p.lines \in Seq(Of(logs[p.id]))

LogTypes ==
  /\ me \in Someone /\ current \in Films \cup {None}
  /\ said \in Seq([film : Films \cup {None}, who : Someone])
  /\ logs \in Seq(Films)
  /\ stored \in Seq(Seq(Nat \X Someone)) /\ Len(stored) = Len(logs)

\* The number of the session on is its film's; 0 is no film's.
SessionOK ==
  /\ session \in [id : Nat, film : Films \cup {None}] /\ session.id <= Len(logs)
  /\ IF session.id = 0 THEN session = Log!NoSession ELSE session.film = logs[session.id]

\* Wherever a line is, it is of the film of the log it goes to, or was said before there was one.
LogInv ==
  /\ LogTypes /\ SessionOK
  /\ queue \in Seq(Of(session.film)) /\ pre \in Seq(Early)
  /\ \A p \in posts : PostOK(p)
  /\ \A i \in 1..Len(logs) : stored[i] \in Seq(Of(logs[i]) \X Someone)

LEMMA NewestOf ==
  ASSUME NEW S, NEW s \in Seq(S), NEW n \in Nat
  PROVE  Log!Newest(s, n) \in Seq(S)
<1>1. Len(s) \in Nat /\ \A i \in 1..Len(s) : s[i] \in S
  BY ElementOfSeq, LenProperties
<1>2. CASE Len(s) > n
  <2>1. Len(s) - n + 1 \in Int /\ Len(s) \in Int /\ \A i \in (Len(s) - n + 1)..Len(s) : s[i] \in S
    BY <1>1, <1>2
  <2> QED BY <1>2, <2>1, SubSeqProperties DEF Log!Newest
<1>3. CASE ~(Len(s) > n)
  BY <1>1, <1>3, SubSeqProperties DEF Log!Newest
<1> QED BY <1>2, <1>3

\* What is said is added to, never changed: the sets of lines only grow.
LEMMA LinesGrow ==
  ASSUME LogInv, UNCHANGED said \/ \E x \in [film : Films \cup {None}, who : Someone] : said' = Append(said, x)
  PROVE  /\ said' \in Seq([film : Films \cup {None}, who : Someone])
         /\ Early \subseteq Early' /\ \A f : Of(f) \subseteq Of(f)'
<1>1. said \in Seq([film : Films \cup {None}, who : Someone]) /\ Len(said) \in Nat
  BY LenProperties DEF LogInv, LogTypes
<1>2. /\ said' \in Seq([film : Films \cup {None}, who : Someone])
      /\ Len(said') \in Nat /\ Len(said) <= Len(said')
      /\ \A i \in 1..Len(said) : said'[i] = said[i]
  <2>1. CASE UNCHANGED said
    BY <1>1, <2>1
  <2>2. ASSUME NEW x \in [film : Films \cup {None}, who : Someone], said' = Append(said, x)
        PROVE  /\ said' \in Seq([film : Films \cup {None}, who : Someone])
               /\ Len(said') \in Nat /\ Len(said) <= Len(said')
               /\ \A i \in 1..Len(said) : said'[i] = said[i]
    <3>1. /\ said' \in Seq([film : Films \cup {None}, who : Someone])
          /\ Len(said') = Len(said) + 1
          /\ \A i \in 1..Len(said) : said'[i] = said[i]
      BY <1>1, <2>2, AppendProperties
    <3> QED BY <1>1, <3>1
  <2> QED BY <2>1, <2>2
<1>3. Log!Lines \subseteq Log!Lines' /\ \A n \in Log!Lines : said'[n] = said[n]
  BY <1>1, <1>2 DEF Log!Lines
<1>4. Early \subseteq Early'
  BY <1>3 DEF Early
<1>5. ASSUME NEW f PROVE Of(f) \subseteq Of(f)'
  BY <1>3, <1>4 DEF Of
<1> QED BY <1>2, <1>4, <1>5

\* A batch of the queue is of the session that is on.
LEMMA BatchOf ==
  ASSUME LogInv, Log!Sendable, NEW how \in {"beacon", "fetch"}
  PROVE  PostOK(Log!Batch(how))
<1>1. session.id \in Nat /\ session.id <= Len(logs) /\ session.id # 0 /\ session.film = logs[session.id]
  BY DEF LogInv, SessionOK, Log!Sendable
<1>2. session.id \in 1..Len(logs)
  BY <1>1, LenProperties DEF LogInv, LogTypes
<1>3. queue \in Seq(Of(logs[session.id]))
  BY <1>1 DEF LogInv
<1>4. Of(logs[session.id]) \subseteq Nat
  BY DEF Of, Early, Log!Lines
<1>5. queue \in Seq(Nat)
  BY <1>3, <1>4, SeqMonotonic
<1>6. Log!Batch(how) \in Post /\ Log!Batch(how).id = session.id /\ Log!Batch(how).lines = queue
  BY <1>1, <1>5 DEF Log!Batch, Post, LogInv, LogTypes
<1> QED BY <1>2, <1>3, <1>6 DEF PostOK

\* What is on its way, and what is stored, stays right when a line is said or a log begins.
Carried ==
  /\ Early \subseteq Early' /\ \A f : Of(f) \subseteq Of(f)'
  /\ \A p : PostOK(p) => PostOK(p)'
  /\ \A i \in 1..Len(logs) : stored[i] \in Seq(Of(logs[i])' \X Someone)

LEMMA LogsGrow ==
  ASSUME LogInv,
         UNCHANGED said \/ \E x \in [film : Films \cup {None}, who : Someone] : said' = Append(said, x),
         UNCHANGED logs \/ \E f \in Films : logs' = Append(logs, f)
  PROVE  /\ Carried
         /\ logs' \in Seq(Films) /\ Len(logs) \in Nat /\ Len(logs') \in Nat
         /\ Len(logs) <= Len(logs') /\ \A i \in 1..Len(logs) : logs'[i] = logs[i]
<1>1. Early \subseteq Early' /\ \A f : Of(f) \subseteq Of(f)'
  BY LinesGrow
<1>2. logs \in Seq(Films) /\ Len(logs) \in Nat
  BY LenProperties DEF LogInv, LogTypes
<1>3. /\ logs' \in Seq(Films) /\ Len(logs') \in Nat
      /\ Len(logs) <= Len(logs') /\ \A i \in 1..Len(logs) : logs'[i] = logs[i]
  <2>1. CASE UNCHANGED logs
    BY <1>2, <2>1
  <2>2. ASSUME NEW f \in Films, logs' = Append(logs, f)
        PROVE  /\ logs' \in Seq(Films) /\ Len(logs') \in Nat
               /\ Len(logs) <= Len(logs') /\ \A i \in 1..Len(logs) : logs'[i] = logs[i]
    <3>1. /\ logs' \in Seq(Films) /\ Len(logs') = Len(logs) + 1
          /\ \A i \in 1..Len(logs) : logs'[i] = logs[i]
      BY <1>2, <2>2, AppendProperties
    <3> QED BY <1>2, <3>1
  <2> QED BY <2>1, <2>2
<1>4. ASSUME NEW i \in 1..Len(logs) PROVE Of(logs[i]) \subseteq Of(logs[i])'
  <2>1. PICK g : g = logs[i]
    OBVIOUS
  <2>2. Of(g) \subseteq Of(g)'
    BY <1>1
  <2>3. logs'[i] = g
    BY <1>3, <2>1
  <2> QED BY <2>1, <2>2, <2>3 DEF Of
<1>5. ASSUME NEW p, PostOK(p) PROVE PostOK(p)'
  <2>1. p.id \in 1..Len(logs) /\ p.id \in 1..Len(logs')
    BY <1>2, <1>3, <1>5 DEF PostOK
  <2>2. p.lines \in Seq(Of(logs[p.id])) /\ Of(logs[p.id]) \subseteq Of(logs[p.id])'
    BY <1>4, <1>5, <2>1 DEF PostOK
  <2>3. (p.lines \in Seq(Of(logs[p.id])))'
    BY <2>2, SeqMonotonic
  <2> QED BY <1>5, <2>1, <2>3 DEF PostOK
<1>6. ASSUME NEW i \in 1..Len(logs)
      PROVE  stored[i] \in Seq(Of(logs[i])' \X Someone)
  <2>1. Of(logs[i]) \X Someone \subseteq Of(logs[i])' \X Someone
    BY <1>4
  <2>2. stored[i] \in Seq(Of(logs[i]) \X Someone)
    BY DEF LogInv
  <2> QED BY <2>1, <2>2, SeqMonotonic
<1> QED BY <1>1, <1>2, <1>3, <1>5, <1>6 DEF Carried

\* The queue goes out under the session that is on, or stays.
LEMMA FlushKeeps ==
  ASSUME LogInv, NEW how \in {"beacon", "fetch"}, Log!Flush(how)
  PROVE  /\ \A p \in posts' : PostOK(p)
         /\ queue' \in Seq(Of(session.film))
<1>1. CASE Log!Sendable
  <2>1. posts' = posts \cup {Log!Batch(how)} /\ queue' = <<>>
    BY <1>1 DEF Log!Flush
  <2>2. PostOK(Log!Batch(how))
    BY <1>1, BatchOf
  <2> QED BY <2>1, <2>2, EmptySeq DEF LogInv
<1>2. CASE ~Log!Sendable
  BY <1>2 DEF Log!Flush, LogInv
<1> QED BY <1>1, <1>2

\* A line is said: it waits, begins the log of its film, or joins the queue.
LEMMA KeepKeeps ==
  ASSUME LogInv, PreCap \in Nat, Log!Keep
  PROVE  LogInv'
<1> DEFINE n == Len(said) + 1
           line == [film |-> current, who |-> me]
<1>1. /\ line \in [film : Films \cup {None}, who : Someone] /\ said' = Append(said, line)
      /\ UNCHANGED <<me, current>>
  BY DEF Log!Keep, LogInv, LogTypes
<1>2. /\ n \in Log!Lines' /\ said'[n] = line
  <2>1. said \in Seq([film : Films \cup {None}, who : Someone]) /\ Len(said) \in Nat
    BY LenProperties DEF LogInv, LogTypes
  <2>2. Len(said') = Len(said) + 1 /\ said'[Len(said) + 1] = line
    BY <1>1, <2>1, AppendProperties
  <2> QED BY <2>1, <2>2 DEF Log!Lines
<1>3. said' \in Seq([film : Films \cup {None}, who : Someone])
  BY <1>1, LinesGrow
<1> HIDE DEF line
<1>4. pre \in Seq(Early')
  BY <1>1, LinesGrow, SeqMonotonic DEF LogInv
<1>5. CASE (me = None \/ current = None) /\ Log!Wait(n)
  <2>1. n \in Early'
    BY <1>1, <1>2, <1>5 DEF Early, line
  <2>2. Append(pre, n) \in Seq(Early')
    BY <1>4, <2>1, AppendProperties
  <2>3. pre' \in Seq(Early')
    BY <1>5, <2>2, NewestOf DEF Log!Wait
  <2>4. UNCHANGED <<session, queue, posts, logs, stored>>
    BY <1>5 DEF Log!Wait
  <2>5. Carried
    BY <1>1, <2>4, LogsGrow
  <2>6. queue' \in Seq(Of(session.film)')
    BY <2>4, <2>5, SeqMonotonic DEF LogInv, Carried
  <2>7. (\A p \in posts : PostOK(p))'
    BY <2>4, <2>5 DEF LogInv, Carried
  <2>8. (\A i \in 1..Len(logs) : stored[i] \in Seq(Of(logs[i]) \X Someone))'
    BY <2>4, <2>5 DEF LogInv, LogTypes, Carried
  <2> QED BY <1>1, <1>3, <2>3, <2>4, <2>6, <2>7, <2>8 DEF LogInv, LogTypes, SessionOK, Log!NoSession
<1>6. CASE me # None /\ current # None /\ session.film # current /\ Log!NewFilm(n)
  <2>1. current \in Films /\ logs' = Append(logs, current)
    BY <1>6 DEF Log!NewFilm, LogInv, LogTypes
  <2>2. /\ Carried
        /\ logs' \in Seq(Films) /\ Len(logs) \in Nat /\ Len(logs') = Len(logs) + 1
        /\ logs'[Len(logs) + 1] = current /\ \A i \in 1..Len(logs) : logs'[i] = logs[i]
    BY <1>1, <2>1, LogsGrow, AppendProperties DEF LogInv, LogTypes
  <2>3. /\ stored' \in Seq(Seq(Nat \X Someone)) /\ Len(stored') = Len(stored) + 1
        /\ stored'[Len(stored) + 1] = <<>> /\ \A i \in 1..Len(stored) : stored'[i] = stored[i]
        /\ Len(stored) = Len(logs)
    <3>1. stored' = Append(stored, <<>>) /\ <<>> \in Seq(Nat \X Someone)
      BY <1>6, EmptySeq DEF Log!NewFilm
    <3>2. stored \in Seq(Seq(Nat \X Someone)) /\ Len(stored) = Len(logs)
      BY DEF LogInv, LogTypes
    <3> QED BY <3>1, <3>2, AppendProperties
  <2>4. ASSUME NEW i \in 1..Len(logs') PROVE stored'[i] \in Seq(Of(logs[i])' \X Someone)
    <3>1. CASE i \in 1..Len(logs)
      BY <2>2, <2>3, <3>1 DEF Carried
    <3>2. CASE i = Len(logs) + 1
      BY <2>3, <3>2, EmptySeq
    <3> QED BY <2>2, <3>1, <3>2
  <2>5. session' = [id |-> Len(logs) + 1, film |-> current]
    BY <1>6 DEF Log!NewFilm
  <2>6. SessionOK'
    BY <2>1, <2>2, <2>5 DEF SessionOK
  <2>7. queue' \in Seq(Of(current)')
    <3>1. n \in Of(current)'
      BY <1>1, <1>2 DEF Of, line
    <3>2. Early' \subseteq Of(current)'
      BY DEF Of
    <3>3. pre \in Seq(Of(current)')
      BY <1>4, <3>2, SeqMonotonic
    <3> QED BY <1>6, <3>1, <3>3, AppendProperties DEF Log!NewFilm
  <2>8. pre' \in Seq(Early') /\ queue' \in Seq(Of(session.film)')
    <3>1. pre' = <<>> /\ session'.film = current'
      BY <1>1, <1>6, <2>5 DEF Log!NewFilm
    <3>2. Of(session.film)' = Of(current)'
      BY <3>1 DEF Of
    <3> QED BY <2>7, <3>1, <3>2, EmptySeq
  <2>9. (\A p \in posts : PostOK(p))'
    <3>1. posts' = IF Log!Sendable THEN posts \cup {Log!Batch("fetch")} ELSE posts
      BY <1>6 DEF Log!NewFilm
    <3>2. \A p \in posts' : PostOK(p)
      BY <3>1, BatchOf DEF LogInv
    <3> QED BY <2>2, <3>2 DEF Carried
  <2>10. LogTypes'
    BY <1>1, <1>3, <2>2, <2>3 DEF LogTypes, LogInv
  <2> QED BY <2>4, <2>6, <2>8, <2>9, <2>10 DEF LogInv
<1>7. CASE /\ me # None /\ current # None /\ session.film = current
           /\ queue' = Append(queue, n) /\ UNCHANGED <<session, pre, posts, logs, stored>>
  <2>1. n \in Of(current)'
    BY <1>1, <1>2 DEF Of, line
  <2>2. Carried
    BY <1>1, <1>7, LogsGrow
  <2>3. queue \in Seq(Of(session.film)')
    BY <1>7, <2>2, SeqMonotonic DEF LogInv, Carried
  <2>4. queue' \in Seq(Of(session.film)')
    BY <1>1, <1>7, <2>1, <2>3, AppendProperties DEF Of
  <2>5. (\A p \in posts : PostOK(p))'
    BY <1>7, <2>2 DEF LogInv, Carried
  <2>6. (\A i \in 1..Len(logs) : stored[i] \in Seq(Of(logs[i]) \X Someone))'
    BY <1>7, <2>2 DEF LogInv, LogTypes, Carried
  <2> QED BY <1>1, <1>3, <1>4, <1>7, <2>4, <2>5, <2>6 DEF LogInv, LogTypes, SessionOK, Log!NoSession
<1> QED BY <1>5, <1>6, <1>7 DEF Log!Keep

\* Nothing is said and no log begins: what is stored stays, and so do the lines of each film.
LEMMA LogsStay ==
  ASSUME LogInv, UNCHANGED <<said, logs>>
  PROVE  /\ Early' = Early /\ \A p : PostOK(p)' <=> PostOK(p)
         /\ \A f : Of(f)' = Of(f)
         /\ \A i \in 1..Len(logs) : Of(logs[i])' = Of(logs[i])
<1>1. Early' = Early
  BY DEF Early, Log!Lines
<1>2. \A f : Of(f)' = Of(f)
  BY <1>1 DEF Of, Log!Lines
<1>3. \A i : Of(logs[i])' = Of(logs[i])
  BY <1>1 DEF Of, Log!Lines
<1>4. ASSUME NEW p PROVE PostOK(p)' <=> PostOK(p)
  BY <1>3 DEF PostOK
<1> QED BY <1>1, <1>2, <1>3, <1>4

\* The page is about another film or person, a timer fires, or the page is hidden or left.
LEMMA TurnKeeps ==
  ASSUME LogInv,
         \/ \E f \in Films \cup {None} : Log!Choose(f)
         \/ \E p \in Someone : Log!Sign(p)
         \/ Log!TimerFires \/ Log!Hide \/ Log!Leave
         \/ UNCHANGED Log!vars
  PROVE  LogInv'
<1>1. UNCHANGED <<said, logs, stored>>
  BY DEF Log!Choose, Log!Sign, Log!TimerFires, Log!Hide, Log!Leave, Log!Turn, Log!vars
<1>2. /\ Early' = Early /\ \A f : Of(f)' = Of(f)
      /\ \A i \in 1..Len(logs) : Of(logs[i])' = Of(logs[i])
      /\ \A p : PostOK(p)' <=> PostOK(p)
  BY <1>1, LogsStay
<1>3. (\A i \in 1..Len(logs) : stored[i] \in Seq(Of(logs[i]) \X Someone))'
  BY <1>1, <1>2 DEF LogInv
<1>4. me' \in Someone /\ current' \in Films \cup {None}
  BY DEF Log!Choose, Log!Sign, Log!TimerFires, Log!Hide, Log!Leave, Log!vars, LogInv, LogTypes, Someone
<1>5. LogTypes'
  BY <1>1, <1>4 DEF LogInv, LogTypes
<1>6. CASE UNCHANGED <<session, queue, pre, posts>>
  <2>1. Of(session.film)' = Of(session.film)
    <3>1. said' = said /\ session' = session
      BY <1>1, <1>6
    <3> QED BY <3>1 DEF Of, Early, Log!Lines
  <2> QED BY <1>1, <1>2, <1>3, <1>5, <1>6, <2>1 DEF LogInv, SessionOK, Log!NoSession
<1>7. CASE Log!TimerFires \/ Log!Hide
  <2>1. PICK how \in {"beacon", "fetch"} : Log!Flush(how) /\ UNCHANGED <<session, pre>>
    BY <1>7 DEF Log!TimerFires, Log!Hide
  <2>2. (\A p \in posts' : PostOK(p)) /\ queue' \in Seq(Of(session.film))
    BY <2>1, FlushKeeps
  <2>3. Of(session.film)' = Of(session.film)
    <3>1. said' = said /\ session' = session
      BY <1>1, <2>1
    <3> QED BY <3>1 DEF Of, Early, Log!Lines
  <2>4. SessionOK'
    BY <1>1, <2>1 DEF LogInv, SessionOK, Log!NoSession
  <2>5. queue' \in Seq(Of(session.film)') /\ pre' \in Seq(Early')
    BY <1>2, <2>1, <2>2, <2>3 DEF LogInv
  <2>6. \A p \in posts' : PostOK(p)'
    BY <1>2, <2>2
  <2> QED BY <1>3, <1>5, <2>4, <2>5, <2>6 DEF LogInv
<1>8. CASE Log!Leave
  <2>1. ASSUME NEW p \in posts' PROVE PostOK(p)
    <3>1. CASE \E q \in posts : p = [q EXCEPT !.how = "beacon"]
      <4>1. PICK q \in posts : p = [q EXCEPT !.how = "beacon"]
        BY <3>1
      <4>2. PostOK(q)
        BY DEF LogInv
      <4>3. p \in Post /\ p.id = q.id /\ p.lines = q.lines
        BY <4>1, <4>2 DEF PostOK, Post
      <4> QED BY <4>2, <4>3 DEF PostOK
    <3>2. CASE Log!Sendable /\ p = Log!Batch("beacon")
      BY <3>2, BatchOf
    <3> QED BY <1>8, <2>1, <3>1, <3>2 DEF Log!Leave
  <2>2. session' = Log!NoSession /\ queue' = <<>> /\ pre' = <<>>
    BY <1>8 DEF Log!Leave
  <2>3. SessionOK'
    BY <1>1, <2>2, LenProperties DEF SessionOK, LogInv, LogTypes, Log!NoSession
  <2>4. queue' \in Seq(Of(session.film)') /\ pre' \in Seq(Early')
    BY <2>2, EmptySeq
  <2> QED BY <1>2, <1>3, <1>5, <2>1, <2>3, <2>4 DEF LogInv
<1> QED BY <1>6, <1>7, <1>8 DEF Log!Choose, Log!Sign, Log!vars

\* The server appends a batch to the log it names.
LEMMA LandKeeps ==
  ASSUME LogInv, QueueCap \in Nat, NEW p \in posts, Log!Land(p)
  PROVE  LogInv'
<1> DEFINE new == Log!Newest(p.lines, QueueCap)
           add == [i \in 1..Len(new) |-> <<new[i], p.who>>]
<1>1. /\ UNCHANGED <<me, current, session, queue, pre, logs, said>>
      /\ posts' = (posts \ {p}) \cup {[p EXCEPT !.landed = TRUE]}
      /\ stored' = [stored EXCEPT ![p.id] = stored[p.id] \o add]
  BY DEF Log!Land
<1>2. PostOK(p)
  BY DEF LogInv
<1>3. p.id \in 1..Len(logs) /\ p.who \in Someone /\ p.lines \in Seq(Of(logs[p.id]))
  BY <1>2 DEF PostOK, Post
<1>4. new \in Seq(Of(logs[p.id]))
  BY <1>3, NewestOf
<1>5. add \in Seq(Of(logs[p.id]) \X Someone)
  <2> HIDE DEF new
  <2>1. Len(new) \in Nat /\ \A i \in 1..Len(new) : <<new[i], p.who>> \in Of(logs[p.id]) \X Someone
    BY <1>3, <1>4, ElementOfSeq, LenProperties
  <2>2. add \in [1..Len(new) -> Of(logs[p.id]) \X Someone]
    BY <2>1
  <2> QED BY <2>1, <2>2, SeqDef
<1> HIDE DEF new, add
<1>6. stored[p.id] \o add \in Seq(Of(logs[p.id]) \X Someone)
  BY <1>3, <1>5, ConcatProperties DEF LogInv
<1>7. stored[p.id] \o add \in Seq(Nat \X Someone)
  <2>1. Of(logs[p.id]) \X Someone \subseteq Nat \X Someone
    BY DEF Of, Early, Log!Lines
  <2> QED BY <1>6, <2>1, SeqMonotonic
<1>8. /\ stored' \in Seq(Seq(Nat \X Someone)) /\ Len(stored') = Len(logs)
      /\ \A i \in 1..Len(logs) : stored'[i] = IF i = p.id THEN stored[p.id] \o add ELSE stored[i]
  BY <1>1, <1>3, <1>7, ExceptSeq DEF LogInv, LogTypes
<1>9. /\ Early' = Early /\ \A f : Of(f)' = Of(f)
      /\ \A i \in 1..Len(logs) : Of(logs[i])' = Of(logs[i])
      /\ \A q : PostOK(q)' <=> PostOK(q)
  BY <1>1, LogsStay
<1>10. (\A i \in 1..Len(logs) : stored[i] \in Seq(Of(logs[i]) \X Someone))'
  BY <1>1, <1>6, <1>8, <1>9 DEF LogInv
<1>11. PostOK([p EXCEPT !.landed = TRUE])
  BY <1>2 DEF PostOK, Post
<1>12. (\A q \in posts : PostOK(q))'
  BY <1>1, <1>9, <1>11 DEF LogInv
<1>13. LogTypes' /\ SessionOK'
  BY <1>1, <1>8 DEF LogInv, LogTypes, SessionOK, Log!NoSession
<1>14. Of(session.film)' = Of(session.film)
  BY <1>1, <1>9 DEF Of
<1> QED BY <1>1, <1>9, <1>10, <1>12, <1>13, <1>14 DEF LogInv

\* A request is answered, refused, or lost, and its lines go back while their film is on.
LEMMA RequestEnds ==
  ASSUME LogInv, QueueCap \in Nat, NEW p \in posts, Log!Heard(p) \/ Log!Fail(p) \/ Log!Refuse(p)
  PROVE  LogInv'
<1>1. UNCHANGED <<me, current, session, pre, logs, said, stored>> /\ posts' = posts \ {p}
  BY DEF Log!Heard, Log!Fail, Log!Refuse
<1>2. /\ Early' = Early /\ \A f : Of(f)' = Of(f)
      /\ \A i \in 1..Len(logs) : Of(logs[i])' = Of(logs[i])
      /\ \A q : PostOK(q)' <=> PostOK(q)
  BY <1>1, LogsStay
<1>3. queue' \in Seq(Of(session.film))
  <2>1. CASE UNCHANGED queue
    BY <2>1 DEF LogInv
  <2>2. CASE p.id = session.id /\ Log!PutBack(p)
    <3>1. PostOK(p)
      BY DEF LogInv
    <3>2. p.lines \in Seq(Of(session.film))
      BY <2>2, <3>1, LenProperties DEF PostOK, LogInv, SessionOK
    <3>3. p.lines \o queue \in Seq(Of(session.film))
      BY <3>2, ConcatProperties DEF LogInv
    <3> QED BY <2>2, <3>3, NewestOf DEF Log!PutBack
  <2> QED BY <2>1, <2>2 DEF Log!Heard, Log!Fail, Log!Refuse
<1>4. (\A i \in 1..Len(logs) : stored[i] \in Seq(Of(logs[i]) \X Someone))'
  BY <1>1, <1>2 DEF LogInv
<1>5. Of(session.film)' = Of(session.film)
  BY <1>1, <1>2 DEF Of
<1> QED BY <1>1, <1>2, <1>3, <1>4, <1>5 DEF LogInv, LogTypes, SessionOK, Log!NoSession

LEMMA LogInit == ASSUME Log!Init PROVE LogInv
<1>1. /\ me \in Someone /\ current = None /\ said = <<>> /\ logs = <<>> /\ stored = <<>>
      /\ session = Log!NoSession /\ queue = <<>> /\ pre = <<>> /\ posts = {}
  BY DEF Log!Init, Someone
<1>2. Len(logs) = 0 /\ Len(stored) = 0
  BY <1>1
<1>3. LogTypes
  BY <1>1, <1>2, EmptySeq DEF LogTypes
<1>4. SessionOK
  BY <1>1, <1>2 DEF SessionOK, Log!NoSession
<1> QED BY <1>1, <1>2, <1>3, <1>4, EmptySeq DEF LogInv

\* A log of a cast holds lines of its own film, and those said before there was a film or
\* a person to log them for, whatever fails on the way (app.js castLogKeep, castLogFlush).
THEOREM LinesOfTheFilm ==
  ASSUME QueueCap \in Nat, PreCap \in Nat PROVE Log!Spec => []LogIsOfItsFilm
<1>1. Log!Init => LogInv
  BY LogInit
<1>2. LogInv /\ [Log!Next]_(Log!vars) => LogInv'
  BY KeepKeeps, TurnKeeps, LandKeeps, RequestEnds DEF Log!Next, Someone
<1>3. LogInv => LogIsOfItsFilm
  <2> SUFFICES ASSUME LogInv, NEW i \in 1..Len(stored), NEW j \in 1..Len(stored[i])
               PROVE  LET line == said[stored[i][j][1]]
                      IN  line.film = logs[i] \/ line.film = None \/ line.who = None
    BY DEF LogIsOfItsFilm, Log!LogIsOfItsFilm
  <2>1. stored[i] \in Seq(Of(logs[i]) \X Someone)
    BY DEF LogInv, LogTypes
  <2>2. stored[i][j] \in Of(logs[i]) \X Someone
    BY <2>1, ElementOfSeq
  <2>3. stored[i][j][1] \in Of(logs[i])
    BY <2>2
  <2> QED BY <2>3 DEF Of, Early
<1> QED BY <1>1, <1>2, <1>3, PTL DEF Log!Spec
=============================================================================
