--------------------------- MODULE ShadeTapProofs ---------------------------
(***************************************************************************)
(* Theorems about ShadeTap, for any number of taps, pages and open windows. *)
(***************************************************************************)
EXTENDS ShadeTap, TLAPS

\* A page does one thing to `done` and `runs` of one tap, or nothing.
LEMMA PerformType ==
  ASSUME TypeOK, NEW p \in Pages, NEW t \in Taps, Perform(p, t)
  PROVE  /\ done' \in [Pages -> SUBSET Taps]
         /\ runs' \in [Pages -> [Taps -> Nat]]
<1>1. /\ done \in [Pages -> SUBSET Taps]
      /\ runs \in [Pages -> [Taps -> Nat]]
  BY DEF TypeOK
<1>2. CASE t \in done[p]
  BY <1>1, <1>2 DEF Perform
<1>3. CASE t \notin done[p]
  <2>1. [runs[p] EXCEPT ![t] = @ + 1] \in [Taps -> Nat]
    BY <1>1
  <2>2. runs' = [runs EXCEPT ![p] = [runs[p] EXCEPT ![t] = @ + 1]]
    BY <1>3 DEF Perform
  <2> QED
    BY <1>1, <1>3, <2>1, <2>2 DEF Perform
<1> QED
  BY <1>2, <1>3

LEMMA TypeInit == Init => TypeOK
BY NTapsAssumption DEF Init, TypeOK, Taps, NoTap

LEMMA TypeWorker == TypeOK /\ WorkerStep => TypeOK'
<1> SUFFICES ASSUME TypeOK, WorkerStep PROVE TypeOK'
  OBVIOUS
<1>1. ASSUME NEW t \in Taps, AskEnds(t) PROVE TypeOK'
  <2>1. dlv' \in [Taps -> {"idle", "asking", "write", "focus", "page", "written"}]
    BY <1>1 DEF AskEnds, TypeOK
  <2> QED
    BY <1>1, <2>1 DEF AskEnds, TypeOK, courier, clear
<1>2. ASSUME NEW t \in Taps, WritePending(t) PROVE TypeOK'
  BY <1>2 DEF WritePending, Put, TypeOK, courier, clear
<1>3. ASSUME NEW t \in Taps, FocusApp(t) PROVE TypeOK'
  <2>1. dlv' \in [Taps -> {"idle", "asking", "write", "focus", "page", "written"}]
    BY <1>3 DEF FocusApp, TypeOK
  <2> DEFINE Front ==
        /\ page \in [Pages -> {"unborn", "visible", "hidden", "frozen", "dead"}]
        /\ reg \in [Pages -> {"none", "controlled", "registered"}]
        /\ asked \subseteq Pages
        /\ due \in [Pages -> BOOLEAN]
  <2>2. Front'
    <3>1. ASSUME NEW p \in Pages, ComeToFront(p) PROVE Front'
      BY <3>1 DEF ComeToFront, AskPending, TypeOK
    <3>2. ASSUME NEW p \in Pages, OpenWindow(p) PROVE Front'
      BY <3>2 DEF OpenWindow, TypeOK
    <3>3. CASE UNCHANGED <<page, reg, asked, due>>
      BY <3>3 DEF TypeOK
    <3> QED
      BY <1>3, <3>1, <3>2, <3>3 DEF FocusApp
  <2> QED
    BY <1>3, <2>1, <2>2 DEF FocusApp, TypeOK, courier, clear
<1>4. ASSUME NEW t \in Taps, ClearMatch(t) PROVE TypeOK'
  BY <1>4 DEF ClearMatch, TypeOK, courier, clear
<1>5. ASSUME NEW p \in Pages, DrainMatch(p) PROVE TypeOK'
  BY <1>5 DEF DrainMatch, TypeOK, courier, clear
<1>6. ASSUME NEW p \in Pages, NEW t \in Taps, DrainDelete(p, t) PROVE TypeOK'
  BY <1>6 DEF DrainDelete, DeleteSlot, TypeOK, courier, clear
<1>7. ASSUME NEW t \in Taps, NEW s \in Taps, ClearDelete(t, s) PROVE TypeOK'
  BY <1>7 DEF ClearDelete, DeleteSlot, TypeOK, courier, clear
<1>8. ASSUME NEW t \in Taps, NEW s \in Taps, ClearPutBack(t, s) PROVE TypeOK'
  BY <1>8 DEF ClearPutBack, Put, TypeOK, courier, clear
<1> QED
  BY <1>1, <1>2, <1>3, <1>4, <1>5, <1>6, <1>7, <1>8 DEF WorkerStep

LEMMA TypePage == TypeOK /\ PageStep => TypeOK'
<1> SUFFICES ASSUME TypeOK, PageStep PROVE TypeOK'
  OBVIOUS
<1>1. ASSUME NEW p \in Pages, Register(p) PROVE TypeOK'
  BY <1>1 DEF Register, AskPending, TypeOK, courier, clear
<1>2. ASSUME NEW p \in Pages, Receive(p) PROVE TypeOK'
  <2>1. inbox[p] \in Seq(Taps) /\ inbox[p] # <<>>
    BY <1>2 DEF Receive, TypeOK
  <2>2. Head(inbox[p]) \in Taps /\ Tail(inbox[p]) \in Seq(Taps)
    BY <2>1
  <2>3. /\ done' \in [Pages -> SUBSET Taps]
        /\ runs' \in [Pages -> [Taps -> Nat]]
    BY <1>2, <2>2, PerformType DEF Receive
  <2>4. /\ inbox' \in [Pages -> Seq(Taps)]
        /\ answered' \in [Taps -> SUBSET Pages]
        /\ acks' \subseteq Taps
    BY <1>2, <2>2 DEF Receive, TypeOK
  <2> QED
    BY <1>2, <2>3, <2>4 DEF Receive, TypeOK
<1>3. ASSUME NEW p \in Pages, NEW t \in Taps, Replay(p, t) PROVE TypeOK'
  <2>1. /\ done' \in [Pages -> SUBSET Taps]
        /\ runs' \in [Pages -> [Taps -> Nat]]
    BY <1>3, PerformType DEF Replay, TypeOK
  <2> QED
    BY <1>3, <2>1 DEF Replay, TypeOK, courier, clear
<1> QED
  BY <1>1, <1>2, <1>3 DEF PageStep

LEMMA TypePhone == TypeOK /\ PhoneStep => TypeOK'
<1> SUFFICES ASSUME TypeOK, PhoneStep PROVE TypeOK'
  OBVIOUS
<1>1. ASSUME NEW p \in Pages, Boot(p) PROVE TypeOK'
  BY <1>1 DEF Boot, OpenWindow, TypeOK, courier, clear
<1>2. ASSUME NEW p \in Pages, Show(p) PROVE TypeOK'
  BY <1>2 DEF Show, ComeToFront, AskPending, TypeOK, courier, clear
<1>3. ASSUME NEW p \in Pages, PutAway(p) PROVE TypeOK'
  BY <1>3 DEF PutAway, TypeOK, courier, clear
<1>4. ASSUME NEW p \in Pages, Close(p) PROVE TypeOK'
  BY <1>4 DEF Close, Open, TypeOK, courier, clear
<1>5. ASSUME NEW t \in Taps, Tap(t) PROVE TypeOK'
  <2>1. inbox' \in [Pages -> Seq(Taps)]
    BY <1>5 DEF Tap, TypeOK
  <2> QED
    BY <1>5, <2>1 DEF Tap, TypeOK, courier, clear
<1>6. ASSUME NEW t \in Taps, Expire(t) PROVE TypeOK'
  BY <1>6 DEF Expire, TypeOK, courier, clear
<1>7. CASE Activate
  BY <1>7 DEF Activate, TypeOK, courier, clear
<1> QED
  BY <1>1, <1>2, <1>3, <1>4, <1>5, <1>6, <1>7 DEF PhoneStep

LEMMA TypeStep == TypeOK /\ [Next]_vars => TypeOK'
<1>1. TypeOK /\ UNCHANGED vars => TypeOK'
  BY DEF TypeOK, vars, courier, clear
<1> QED
  BY <1>1, TypeWorker, TypePage, TypePhone DEF Next

\* The variables keep their types; no handler past its match ever holds the
\* empty slot (sw.js takePending).
THEOREM TypeCorrect == Spec => []TypeOK
BY TypeInit, TypeStep, PTL DEF Spec

(***************************************************************************)
(* Once per page.                                                          *)
(***************************************************************************)

\* Whatever brings a tap to a page, perform() counts and remembers together.
LEMMA PerformOnce ==
  ASSUME TypeOK, OncePerPage, NEW p \in Pages, NEW t \in Taps, Perform(p, t)
  PROVE  OncePerPage'
<1>1. /\ done \in [Pages -> SUBSET Taps]
      /\ runs \in [Pages -> [Taps -> Nat]]
  BY DEF TypeOK
<1>2. SUFFICES ASSUME NEW q \in Pages, NEW s \in Taps
               PROVE  runs'[q][s] = IF s \in done'[q] THEN 1 ELSE 0
  BY DEF OncePerPage
<1>3. runs[q][s] = IF s \in done[q] THEN 1 ELSE 0
  BY DEF OncePerPage
<1>4. CASE t \in done[p]
  BY <1>3, <1>4 DEF Perform
<1>5. CASE t \notin done[p]
  <2>1. /\ done'[q] = IF q = p THEN done[q] \cup {t} ELSE done[q]
        /\ runs'[q][s] = IF q = p /\ s = t THEN runs[q][s] + 1 ELSE runs[q][s]
    BY <1>1, <1>5 DEF Perform
  <2> QED
    BY <1>3, <1>5, <2>1
<1> QED
  BY <1>4, <1>5

\* Only a page processing a message runs listeners.
LEMMA OthersDoNotRun ==
  ASSUME [Next]_vars,
         \A p \in Pages : ~Receive(p),
         \A p \in Pages, t \in Taps : ~Replay(p, t)
  PROVE  UNCHANGED <<done, runs>>
<1>1. CASE WorkerStep
  BY <1>1 DEF WorkerStep, AskEnds, WritePending, FocusApp, ClearMatch, DrainMatch,
              DrainDelete, ClearDelete, ClearPutBack
<1>2. CASE PageStep
  BY <1>2 DEF PageStep, Register
<1>3. CASE PhoneStep
  BY <1>3 DEF PhoneStep, Boot, Show, PutAway, Close, Tap, Expire, Activate
<1> QED
  BY <1>1, <1>2, <1>3 DEF Next, vars

\* The tap at the head of a page's queue.
LEMMA HeadIsTap ==
  ASSUME TypeOK, NEW p \in Pages, Receive(p)
  PROVE  Head(inbox[p]) \in Taps /\ Perform(p, Head(inbox[p]))
<1>1. inbox[p] \in Seq(Taps) /\ inbox[p] # <<>>
  BY DEF Receive, TypeOK
<1> QED
  BY <1>1 DEF Receive

LEMMA OnceStep == TypeOK /\ OncePerPage /\ [Next]_vars => OncePerPage'
<1> SUFFICES ASSUME TypeOK, OncePerPage, [Next]_vars PROVE OncePerPage'
  OBVIOUS
<1>1. ASSUME NEW p \in Pages, Receive(p) PROVE OncePerPage'
  BY <1>1, HeadIsTap, PerformOnce
<1>2. ASSUME NEW p \in Pages, NEW t \in Taps, Replay(p, t) PROVE OncePerPage'
  <2>1. CASE Perform(p, t)
    BY <2>1, PerformOnce
  <2>2. CASE UNCHANGED <<done, runs>>
    BY <2>2 DEF OncePerPage
  <2> QED
    BY <1>2, <2>1, <2>2 DEF Replay
<1>3. CASE UNCHANGED <<done, runs>>
  BY <1>3 DEF OncePerPage
<1> QED
  BY <1>1, <1>2, <1>3, OthersDoNotRun

\* One page instance never runs its listeners twice for one tap (app.js
\* perform), for any number of taps, pages and windows.
THEOREM RunsOncePerPage == Spec => []OncePerPage
<1>1. Init => OncePerPage
  BY DEF Init, OncePerPage
<1> QED
  BY <1>1, OnceStep, TypeCorrect, PTL DEF Spec

(***************************************************************************)
(* Acknowledged taps.                                                      *)
(***************************************************************************)

LEMMA PerformRemembers ==
  ASSUME TypeOK, NEW p \in Pages, NEW t \in Taps, Perform(p, t)
  PROVE  t \in done'[p]
<1>1. done \in [Pages -> SUBSET Taps]
  BY DEF TypeOK
<1> QED
  BY <1>1 DEF Perform

\* An id once refused is refused for good.
LEMMA DoneGrows ==
  ASSUME TypeOK, [Next]_vars
  PROVE  \A p \in Pages : done[p] \subseteq done'[p]
<1>1. ASSUME NEW q \in Pages, NEW t \in Taps, Perform(q, t)
      PROVE  \A p \in Pages : done[p] \subseteq done'[p]
  <2>1. done \in [Pages -> SUBSET Taps]
    BY DEF TypeOK
  <2>2. CASE t \in done[q]
    BY <1>1, <2>2 DEF Perform
  <2>3. CASE t \notin done[q]
    BY <1>1, <2>1, <2>3 DEF Perform
  <2> QED
    BY <2>2, <2>3
<1>2. ASSUME NEW q \in Pages, Receive(q)
      PROVE  \A p \in Pages : done[p] \subseteq done'[p]
  BY <1>1, <1>2, HeadIsTap
<1>3. ASSUME NEW q \in Pages, NEW t \in Taps, Replay(q, t)
      PROVE  \A p \in Pages : done[p] \subseteq done'[p]
  BY <1>1, <1>3 DEF Replay
<1> QED
  BY <1>2, <1>3, OthersDoNotRun

\* What a page has performed stays performed.
LEMMA PerformedStays ==
  ASSUME TypeOK, [Next]_vars, NEW t \in Taps, Performed(t)
  PROVE  Performed(t)'
BY DoneGrows DEF Performed

\* The part of the invariant about messages on their way to the worker.
LEMMA AckStep ==
  ASSUME TypeOK, AckWasPerformed, [Next]_vars
  PROVE  AckWasPerformed'
<1>0. /\ dlv \in [Taps -> {"idle", "asking", "write", "focus", "page", "written"}]
      /\ answered \in [Taps -> SUBSET Pages]
      /\ acks \subseteq Taps
      /\ clearing \subseteq Taps \X Taps
      /\ putting \subseteq Taps \X Taps
  BY DEF TypeOK
<1>1. \A t \in Taps : Performed(t) => Performed(t)'
  BY PerformedStays
<1>2. ASSUME dlv' = dlv, answered' = answered, acks' \subseteq acks,
             \A t \in Taps, s \in Taps :
               <<t, s>> \in (clearing \cup putting)' =>
                  <<t, s>> \in clearing \cup putting \/ t \in acks
      PROVE  AckWasPerformed'
  BY <1>1, <1>2 DEF AckWasPerformed
<1>3. ASSUME NEW t \in Taps, AskEnds(t) PROVE AckWasPerformed'
  <2>1. /\ \A s \in Taps : s # t => dlv'[s] = dlv[s]
        /\ dlv'[t] = "page" => answered[t] # {}
    BY <1>0, <1>3 DEF AskEnds
  <2>2. UNCHANGED <<answered, acks, clearing, putting>>
    BY <1>3 DEF AskEnds, clear
  <2> QED
    BY <1>1, <2>1, <2>2 DEF AckWasPerformed
<1>4. ASSUME NEW t \in Taps, WritePending(t) \/ FocusApp(t) \/ Tap(t)
      PROVE  AckWasPerformed'
  <2>1. \A s \in Taps : dlv'[s] = "page" => dlv[s] = "page"
    BY <1>0, <1>4 DEF WritePending, FocusApp, Tap
  <2>2. UNCHANGED <<answered, acks, clearing, putting>>
    BY <1>4 DEF WritePending, FocusApp, Tap, clear
  <2> QED
    BY <1>1, <2>1, <2>2 DEF AckWasPerformed
<1>5. ASSUME NEW t \in Taps, ClearMatch(t) PROVE AckWasPerformed'
  BY <1>2, <1>5 DEF ClearMatch, courier
<1>6. ASSUME NEW t \in Taps, NEW s \in Taps, ClearDelete(t, s) \/ ClearPutBack(t, s)
      PROVE  AckWasPerformed'
  BY <1>2, <1>6 DEF ClearDelete, ClearPutBack, courier
<1>7. ASSUME NEW p \in Pages, Receive(p) PROVE AckWasPerformed'
  <2>1. PICK h \in Taps : h = Head(inbox[p]) /\ Perform(p, h)
    BY <1>7, HeadIsTap
  <2>2. Performed(h)'
    BY <2>1, PerformRemembers DEF Performed
  <2>3. /\ dlv' = dlv /\ UNCHANGED <<clearing, putting>>
        /\ \A s \in Taps : s # h => answered'[s] = answered[s]
        /\ answered[h] \subseteq answered'[h]
        /\ acks' \subseteq acks \cup {h}
    BY <1>0, <1>7, <2>1 DEF Receive
  <2>4. \A s \in Taps : dlv'[s] = "page" => answered'[s] # {}
    BY <2>3 DEF AckWasPerformed
  <2>5. \A s \in Taps : answered'[s] # {} \/ s \in acks' => Performed(s)'
    BY <1>1, <2>2, <2>3 DEF AckWasPerformed
  <2> QED
    BY <1>1, <2>3, <2>4, <2>5 DEF AckWasPerformed
<1>8. ASSUME NEW p \in Pages,
             DrainMatch(p) \/ Register(p) \/ Boot(p) \/ Show(p) \/ PutAway(p) \/ Close(p)
      PROVE  AckWasPerformed'
  BY <1>2, <1>8 DEF DrainMatch, Register, Boot, Show, PutAway, Close, courier, clear
<1>9. ASSUME NEW p \in Pages, NEW t \in Taps, DrainDelete(p, t) \/ Replay(p, t)
      PROVE  AckWasPerformed'
  BY <1>2, <1>9 DEF DrainDelete, Replay, courier, clear
<1>10. ASSUME NEW t \in Taps, Expire(t) PROVE AckWasPerformed'
  BY <1>2, <1>10 DEF Expire, clear
<1>11. CASE Activate
  BY <1>2, <1>11 DEF Activate, courier, clear
<1>12. CASE UNCHANGED vars
  BY <1>2, <1>12 DEF vars, courier, clear
<1> QED
  BY <1>3, <1>4, <1>5, <1>6, <1>7, <1>8, <1>9, <1>10, <1>11, <1>12
     DEF Next, WorkerStep, PageStep, PhoneStep

(***************************************************************************)
(* How one step moves one tap.                                             *)
(***************************************************************************)

Copy(t) == slot = t \/ Held(t)

\* deliverAction's progress with a tap, and what is heard meanwhile.
Advance(t) ==
  \/ dlv'[t] = dlv[t] /\ (answered'[t] = answered[t] \/ dlv[t] = "asking")
  \/ /\ answered'[t] = answered[t]
     /\ \/ dlv[t] = "idle" /\ dlv'[t] \in {"asking", "write"}
        \/ dlv[t] = "asking" /\ dlv'[t] = IF answered[t] # {} THEN "page" ELSE "write"
        \/ dlv[t] = "write" /\ dlv'[t] = "focus" /\ WritePending(t)
        \/ dlv[t] = "focus" /\ dlv'[t] = "written"

LEMMA AdvanceStep ==
  ASSUME TypeOK, [Next]_vars, NEW t \in Taps
  PROVE  Advance(t)
<1>0. dlv \in [Taps -> {"idle", "asking", "write", "focus", "page", "written"}]
      /\ answered \in [Taps -> SUBSET Pages]
  BY DEF TypeOK
<1>1. CASE UNCHANGED <<dlv, answered>>
  BY <1>1 DEF Advance
<1>2. ASSUME NEW s \in Taps, AskEnds(s) PROVE Advance(t)
  BY <1>0, <1>2 DEF AskEnds, Advance
<1>3. ASSUME NEW s \in Taps, WritePending(s) PROVE Advance(t)
  <2>1. CASE s = t
    BY <1>0, <1>3, <2>1 DEF WritePending, Advance
  <2>2. CASE s # t
    BY <1>0, <1>3, <2>2 DEF WritePending, Advance
  <2> QED
    BY <2>1, <2>2
<1>4. ASSUME NEW s \in Taps, FocusApp(s) PROVE Advance(t)
  BY <1>0, <1>4 DEF FocusApp, Advance
<1>5. ASSUME NEW s \in Taps, Tap(s) PROVE Advance(t)
  BY <1>0, <1>5 DEF Tap, Advance
<1>6. ASSUME NEW p \in Pages, Receive(p) PROVE Advance(t)
  <2>1. PICK h \in Taps : h = Head(inbox[p])
    BY <1>6, HeadIsTap
  <2>2. /\ dlv' = dlv
        /\ answered' = IF dlv[h] = "asking"
                       THEN [answered EXCEPT ![h] = @ \cup {p}] ELSE answered
    BY <1>6, <2>1 DEF Receive
  <2> QED
    BY <1>0, <2>2 DEF Advance
<1>7. ASSUME ~UNCHANGED <<dlv, answered>>, Next
      PROVE  \/ \E s \in Taps : AskEnds(s) \/ WritePending(s) \/ FocusApp(s) \/ Tap(s)
             \/ \E p \in Pages : Receive(p)
  <2>1. CASE WorkerStep
    BY <1>7, <2>1 DEF WorkerStep, ClearMatch, DrainMatch, DrainDelete, ClearDelete,
                      ClearPutBack, courier
  <2>2. CASE PageStep
    BY <1>7, <2>2 DEF PageStep, Register, Replay, courier
  <2>3. CASE PhoneStep
    BY <1>7, <2>3 DEF PhoneStep, Boot, Show, PutAway, Close, Expire, Activate, courier
  <2> QED
    BY <1>7, <2>1, <2>2, <2>3 DEF Next
<1> QED
  BY <1>1, <1>2, <1>3, <1>4, <1>5, <1>6, <1>7 DEF vars, courier

\* A written-down copy comes from another one, or is written by deliverAction.
LEMMA CopiesComeFrom ==
  ASSUME TypeOK, [Next]_vars, NEW t \in Taps, Copy(t)'
  PROVE  Copy(t) \/ WritePending(t)
<1>0. t # NoTap
  BY NTapsAssumption DEF Taps, NoTap
<1>1. CASE UNCHANGED <<slot, taking, replies, clearing, putting>>
  BY <1>1 DEF Copy, Held
<1>2. ASSUME NEW s \in Taps, WritePending(s) PROVE Copy(t) \/ WritePending(t)
  <2>1. Held(t)' = Held(t)
    BY <1>2 DEF WritePending, Held, clear
  <2>2. slot' = slot \/ slot' = s
    BY <1>2 DEF WritePending, Put
  <2> QED
    BY <1>2, <2>1, <2>2 DEF Copy
<1>3. ASSUME NEW s \in Taps, ClearMatch(s) PROVE Copy(t)
  BY <1>3 DEF ClearMatch, Copy, Held
<1>4. ASSUME NEW p \in Pages, DrainMatch(p) PROVE Copy(t)
  BY <1>4 DEF DrainMatch, Copy, Held, clear
<1>5. ASSUME NEW p \in Pages, NEW s \in Taps, DrainDelete(p, s) PROVE Copy(t)
  BY <1>0, <1>5 DEF DrainDelete, DeleteSlot, Copy, Held, clear
<1>6. ASSUME NEW u \in Taps, NEW s \in Taps, ClearDelete(u, s) PROVE Copy(t)
  BY <1>0, <1>6 DEF ClearDelete, DeleteSlot, Copy, Held
<1>7. ASSUME NEW u \in Taps, NEW s \in Taps, ClearPutBack(u, s) PROVE Copy(t)
  BY <1>7 DEF ClearPutBack, Put, Copy, Held
<1>8. ASSUME NEW p \in Pages, NEW s \in Taps, Replay(p, s) PROVE Copy(t)
  BY <1>8 DEF Replay, Copy, Held, clear
<1>9. CASE Activate
  BY <1>0, <1>9 DEF Activate, Copy, Held, clear
<1>10. ASSUME ~UNCHANGED <<slot, taking, replies, clearing, putting>>, Next
       PROVE  \/ \E s \in Taps : WritePending(s) \/ ClearMatch(s)
              \/ \E p \in Pages : DrainMatch(p)
              \/ \E p \in Pages, s \in Taps : DrainDelete(p, s) \/ Replay(p, s)
              \/ \E u \in Taps, s \in Taps : ClearDelete(u, s) \/ ClearPutBack(u, s)
              \/ Activate
  <2>1. CASE WorkerStep
    BY <1>10, <2>1 DEF WorkerStep, AskEnds, FocusApp, clear
  <2>2. CASE PageStep
    BY <1>10, <2>2 DEF PageStep, Register, Receive, clear
  <2>3. CASE PhoneStep
    BY <1>10, <2>3 DEF PhoneStep, Boot, Show, PutAway, Close, Tap, Expire, clear
  <2> QED
    BY <1>10, <2>1, <2>2, <2>3 DEF Next
<1> QED
  BY <1>1, <1>2, <1>3, <1>4, <1>5, <1>6, <1>7, <1>8, <1>9, <1>10 DEF vars, clear

LEMMA WrittenStep ==
  ASSUME TypeOK, WrittenUnanswered, [Next]_vars
  PROVE  WrittenUnanswered'
<1> SUFFICES ASSUME NEW t \in Taps
    PROVE  /\ Copy(t)' => dlv'[t] \in {"focus", "written"}
           /\ dlv'[t] \in {"idle", "write", "focus", "written"} => answered'[t] = {}
  BY DEF WrittenUnanswered, Copy, Held
<1>1. Advance(t)
  BY AdvanceStep
<1>2. /\ Copy(t) => dlv[t] \in {"focus", "written"}
      /\ dlv[t] \in {"idle", "write", "focus", "written"} => answered[t] = {}
  BY DEF WrittenUnanswered, Copy
<1>3. Copy(t)' => dlv'[t] \in {"focus", "written"}
  <2>1. ASSUME WritePending(t) PROVE dlv'[t] = "focus"
    BY <2>1 DEF WritePending, TypeOK
  <2> QED
    BY <1>1, <1>2, <2>1, CopiesComeFrom DEF Advance
<1> QED
  BY <1>1, <1>2, <1>3 DEF Advance

(***************************************************************************)
(* Nothing is dropped silently.                                            *)
(***************************************************************************)

\* A tap that is accounted for stays so: each handler hands its copy on, or
\* the history says that it destroyed it.
LEMMA AccountedStays ==
  ASSUME TypeOK, AckWasPerformed, [Next]_vars, NEW t \in Taps, Accounted(t)
  PROVE  Accounted(t)'
<1>0. t # NoTap
  BY NTapsAssumption DEF Taps, NoTap
<1>1. Performed(t) => Performed(t)'
  BY PerformedStays
<1>2. CASE UNCHANGED <<slot, taking, replies, clearing, putting, lost>>
  BY <1>1, <1>2 DEF Accounted, Held
<1>3. ASSUME NEW s \in Taps, WritePending(s) PROVE Accounted(t)'
  <2>1. Held(t)' = Held(t)
    BY <1>3 DEF WritePending, Held, clear
  <2>2. /\ t \in lost => t \in lost'
        /\ slot = t => slot' = t \/ t \in lost'
    BY <1>0, <1>3 DEF WritePending, Put
  <2> QED
    BY <1>1, <2>1, <2>2 DEF Accounted
<1>4. ASSUME NEW s \in Taps, ClearMatch(s) PROVE Accounted(t)'
  <2>1. Held(t) => Held(t)'
    BY <1>4 DEF ClearMatch, Held
  <2> QED
    BY <1>1, <1>4, <2>1 DEF ClearMatch, Accounted
<1>5. ASSUME NEW p \in Pages, DrainMatch(p) PROVE Accounted(t)'
  <2>1. Held(t) => Held(t)'
    BY <1>5 DEF DrainMatch, Held, clear
  <2> QED
    BY <1>1, <1>5, <2>1 DEF DrainMatch, Accounted
<1>6. ASSUME NEW p \in Pages, NEW s \in Taps, DrainDelete(p, s) PROVE Accounted(t)'
  <2>1. Held(t) => Held(t)' \/ t \in lost'
    BY <1>6 DEF DrainDelete, DeleteSlot, Held, clear
  <2>2. /\ t \in lost => t \in lost'
        /\ slot = t => t \in lost' \/ Held(t)'
    BY <1>0, <1>6 DEF DrainDelete, DeleteSlot, Held
  <2> QED
    BY <1>1, <2>1, <2>2 DEF Accounted
<1>7. ASSUME NEW u \in Taps, NEW s \in Taps, ClearDelete(u, s) PROVE Accounted(t)'
  <2>1. Performed(u)
    BY <1>7 DEF ClearDelete, AckWasPerformed
  <2>2. Held(t) => Held(t)' \/ t \in lost' \/ t = u
    BY <1>7 DEF ClearDelete, DeleteSlot, Held
  <2>3. /\ t \in lost => t \in lost'
        /\ slot = t => t \in lost' \/ Held(t)' \/ t = u
    BY <1>0, <1>7 DEF ClearDelete, DeleteSlot, Held
  <2> QED
    BY <1>1, <2>1, <2>2, <2>3 DEF Accounted
<1>8. ASSUME NEW u \in Taps, NEW s \in Taps, ClearPutBack(u, s) PROVE Accounted(t)'
  <2>1. Held(t) => Held(t)' \/ slot' = t
    BY <1>8 DEF ClearPutBack, Put, Held
  <2>2. /\ t \in lost => t \in lost'
        /\ slot = t => slot' = t \/ t \in lost'
    BY <1>0, <1>8 DEF ClearPutBack, Put
  <2> QED
    BY <1>1, <2>1, <2>2 DEF Accounted
<1>9. ASSUME NEW p \in Pages, NEW s \in Taps, Replay(p, s) PROVE Accounted(t)'
  <2>1. Perform(p, s) => Performed(s)'
    BY PerformRemembers DEF Performed
  <2>2. /\ slot' = slot /\ lost \subseteq lost'
        /\ Held(t) => Held(t)' \/ t = s
        /\ Perform(p, s) \/ s \in lost'
    BY <1>9 DEF Replay, Held, clear
  <2> QED
    BY <1>1, <2>1, <2>2 DEF Accounted
<1>10. CASE Activate
  BY <1>0, <1>1, <1>10 DEF Activate, Accounted, Held, clear
<1>11. ASSUME ~UNCHANGED <<slot, taking, replies, clearing, putting, lost>>, Next
       PROVE  \/ \E s \in Taps : WritePending(s) \/ ClearMatch(s)
              \/ \E p \in Pages : DrainMatch(p)
              \/ \E p \in Pages, s \in Taps : DrainDelete(p, s) \/ Replay(p, s)
              \/ \E u \in Taps, s \in Taps : ClearDelete(u, s) \/ ClearPutBack(u, s)
              \/ Activate
  <2>1. CASE WorkerStep
    BY <1>11, <2>1 DEF WorkerStep, AskEnds, FocusApp, clear
  <2>2. CASE PageStep
    BY <1>11, <2>2 DEF PageStep, Register, Receive, clear
  <2>3. CASE PhoneStep
    BY <1>11, <2>3 DEF PhoneStep, Boot, Show, PutAway, Close, Tap, Expire, clear
  <2> QED
    BY <1>11, <2>1, <2>2, <2>3 DEF Next
<1> QED
  BY <1>2, <1>3, <1>4, <1>5, <1>6, <1>7, <1>8, <1>9, <1>10, <1>11 DEF vars, clear

LEMMA ConservationStep ==
  ASSUME TypeOK, AckWasPerformed, Conservation, [Next]_vars
  PROVE  Conservation'
<1> SUFFICES ASSUME NEW t \in Taps, dlv'[t] \in {"page", "focus", "written"}
             PROVE  Accounted(t)'
  BY DEF Conservation
<1>1. Advance(t)
  BY AdvanceStep
<1>2. CASE dlv[t] \in {"page", "focus", "written"}
  BY <1>2, AccountedStays DEF Conservation
<1>3. CASE dlv[t] = "asking" /\ answered[t] # {}
  BY <1>3, AccountedStays DEF AckWasPerformed, Accounted
<1>4. CASE WritePending(t)
  BY <1>4 DEF WritePending, Put, Accounted
<1> QED
  BY <1>1, <1>2, <1>3, <1>4 DEF Advance

(***************************************************************************)
(* The inductive invariant, and the theorems.                              *)
(***************************************************************************)

Inv == TypeOK /\ OncePerPage /\ AckWasPerformed /\ WrittenUnanswered /\ Conservation

LEMMA InvInit == Init => Inv
<1> SUFFICES ASSUME Init PROVE Inv
  OBVIOUS
<1>1. TypeOK
  BY TypeInit
<1>2. \A t \in Taps : slot # t /\ ~Held(t)
  BY NTapsAssumption DEF Init, Held, Taps, NoTap
<1>3. OncePerPage /\ AckWasPerformed /\ Conservation
  BY DEF Init, OncePerPage, AckWasPerformed, Conservation
<1>4. WrittenUnanswered
  BY <1>2 DEF Init, WrittenUnanswered
<1> QED
  BY <1>1, <1>3, <1>4 DEF Inv

LEMMA InvStep == Inv /\ [Next]_vars => Inv'
BY TypeStep, OnceStep, AckStep, WrittenStep, ConservationStep DEF Inv

THEOREM Invariance == Spec => []Inv
BY InvInit, InvStep, PTL DEF Spec

\* A tap the worker is through with is performed, written down, in a handler's
\* hands, or destroyed where the history says so: deliverAction, takePending
\* and clearPending drop none in silence, however they interleave.
THEOREM NoneDroppedSilently == Spec => []Conservation
<1>1. Inv => Conservation
  BY DEF Inv
<1> QED
  BY <1>1, Invariance, PTL

\* A tap that a page acknowledged in time is never written down.
THEOREM AcknowledgedNotWritten == Spec => []AckedNotWritten
<1>1. Inv => AckedNotWritten
  BY DEF Inv, WrittenUnanswered, AckedNotWritten
<1> QED
  BY <1>1, Invariance, PTL

-----------------------------------------------------------------------------
(* ShadeTap implements Courier: the two roads of src/sw.js, the queues of   *)
(* the pages and the written-down slot together keep the courier's promise  *)
(* about a tap.                                                            *)

Messages(s) == {s[i] : i \in 1..Len(s)}

LEMMA AppendMessages ==
  ASSUME NEW S, NEW s \in Seq(S), NEW e \in S
  PROVE  Messages(Append(s, e)) = Messages(s) \cup {e}
<1>1. Len(Append(s, e)) = Len(s) + 1 /\ Len(s) \in Nat
  OBVIOUS
<1>2. \A i \in 1..Len(s) : Append(s, e)[i] = s[i]
  OBVIOUS
<1>3. Append(s, e)[Len(s) + 1] = e
  OBVIOUS
<1>4. 1..(Len(s) + 1) = (1..Len(s)) \cup {Len(s) + 1}
  BY <1>1
<1> QED
  BY <1>1, <1>2, <1>3, <1>4 DEF Messages

LEMMA TailMessages ==
  ASSUME NEW S, NEW s \in Seq(S), s # <<>>
  PROVE  Messages(s) = {Head(s)} \cup Messages(Tail(s))
<1>1. Len(Tail(s)) = Len(s) - 1 /\ Len(s) \in Nat \ {0}
  OBVIOUS
<1>2. \A i \in 1..(Len(s) - 1) : Tail(s)[i] = s[i + 1]
  OBVIOUS
<1>3. Head(s) = s[1]
  OBVIOUS
<1>4. ASSUME NEW x \in Messages(s) PROVE x \in {Head(s)} \cup Messages(Tail(s))
  <2>1. PICK i \in 1..Len(s) : x = s[i]
    BY <1>4 DEF Messages
  <2>2. CASE i = 1
    BY <1>3, <2>1, <2>2
  <2>3. CASE i # 1
    <3>1. i - 1 \in 1..(Len(s) - 1) /\ Tail(s)[i - 1] = s[i]
      BY <1>1, <1>2, <2>3
    <3> QED
      BY <1>1, <2>1, <3>1 DEF Messages
  <2> QED
    BY <2>2, <2>3
<1>5. ASSUME NEW x \in {Head(s)} \cup Messages(Tail(s)) PROVE x \in Messages(s)
  <2>1. Head(s) \in Messages(s)
    BY <1>1, <1>3 DEF Messages
  <2>2. ASSUME NEW i \in 1..(Len(s) - 1) PROVE s[i + 1] \in Messages(s)
    BY <1>1 DEF Messages
  <2> QED
    BY <1>1, <1>2, <1>5, <2>1, <2>2 DEF Messages
<1> QED
  BY <1>4, <1>5

(***************************************************************************)
(* What is in the pages' queues was tapped.                                *)
(***************************************************************************)

Queued(t) == \E p \in Pages : t \in Messages(inbox[p])

QueuedWasTapped == \A t \in Taps : Queued(t) => dlv[t] # "idle"

\* A message enters a queue with its tap, and no other way.
LEMMA QueuesFill ==
  ASSUME TypeOK, [Next]_vars, NEW t \in Taps, Queued(t)'
  PROVE  Queued(t) \/ Tap(t)
<1>0. inbox \in [Pages -> Seq(Taps)]
  BY DEF TypeOK
<1>1. CASE UNCHANGED inbox
  BY <1>1 DEF Queued
<1>2. ASSUME NEW s \in Taps, Tap(s) PROVE Queued(t) \/ Tap(t)
  <2>1. PICK p \in Pages : t \in Messages(inbox'[p])
    BY DEF Queued
  <2>2. inbox'[p] = IF p \in Open THEN Append(inbox[p], s) ELSE inbox[p]
    BY <1>2 DEF Tap
  <2>3. Messages(Append(inbox[p], s)) = Messages(inbox[p]) \cup {s}
    BY <1>0, AppendMessages
  <2> QED
    BY <1>2, <2>1, <2>2, <2>3 DEF Queued
<1>3. ASSUME NEW q \in Pages, Receive(q) PROVE Queued(t)
  <2>1. PICK p \in Pages : t \in Messages(inbox'[p])
    BY DEF Queued
  <2>2. inbox'[p] = IF p = q THEN Tail(inbox[p]) ELSE inbox[p]
    BY <1>0, <1>3 DEF Receive
  <2>3. inbox[q] # <<>> /\ inbox[q] \in Seq(Taps)
    BY <1>0, <1>3 DEF Receive
  <2>4. Messages(inbox[q]) = {Head(inbox[q])} \cup Messages(Tail(inbox[q]))
    BY <2>3, TailMessages
  <2> QED
    BY <2>1, <2>2, <2>4 DEF Queued
<1>4. ASSUME NEW q \in Pages, Close(q) PROVE Queued(t)
  <2>1. PICK p \in Pages : t \in Messages(inbox'[p])
    BY DEF Queued
  <2>2. inbox'[p] = IF p = q THEN <<>> ELSE inbox[p]
    BY <1>0, <1>4 DEF Close
  <2>3. Messages(<<>>) = {}
    BY DEF Messages
  <2> QED
    BY <2>1, <2>2, <2>3 DEF Queued
<1>5. ASSUME ~UNCHANGED inbox, Next
      PROVE  \/ \E s \in Taps : Tap(s)
             \/ \E p \in Pages : Receive(p) \/ Close(p)
  <2>1. CASE WorkerStep
    BY <1>5, <2>1 DEF WorkerStep, AskEnds, WritePending, FocusApp, ClearMatch, DrainMatch,
                      DrainDelete, ClearDelete, ClearPutBack
  <2>2. CASE PageStep
    BY <1>5, <2>2 DEF PageStep, Register, Replay
  <2>3. CASE PhoneStep
    BY <1>5, <2>3 DEF PhoneStep, Boot, Show, PutAway, Expire, Activate
  <2> QED
    BY <1>5, <2>1, <2>2, <2>3 DEF Next
<1> QED
  BY <1>1, <1>2, <1>3, <1>4, <1>5 DEF vars

LEMMA TappedStays ==
  ASSUME TypeOK, [Next]_vars, NEW t \in Taps, dlv[t] # "idle"
  PROVE  dlv'[t] # "idle"
BY AdvanceStep DEF Advance

\* A tap begins when its button is tapped.
LEMMA OnlyTapStarts ==
  ASSUME TypeOK, [Next]_vars, NEW t \in Taps, dlv[t] = "idle", ~Tap(t)
  PROVE  dlv'[t] = "idle"
<1>0. dlv \in [Taps -> {"idle", "asking", "write", "focus", "page", "written"}]
  BY DEF TypeOK
<1>1. ASSUME NEW s \in Taps, AskEnds(s) \/ WritePending(s) \/ FocusApp(s) \/ Tap(s)
      PROVE  dlv'[t] = "idle"
  BY <1>0, <1>1 DEF AskEnds, WritePending, FocusApp, Tap
<1>2. ASSUME dlv' # dlv, Next
      PROVE  \E s \in Taps : AskEnds(s) \/ WritePending(s) \/ FocusApp(s) \/ Tap(s)
  <2>1. CASE WorkerStep
    BY <1>2, <2>1 DEF WorkerStep, ClearMatch, DrainMatch, DrainDelete, ClearDelete,
                      ClearPutBack, courier
  <2>2. CASE PageStep
    BY <1>2, <2>2 DEF PageStep, Register, Receive, Replay, courier
  <2>3. CASE PhoneStep
    BY <1>2, <2>3 DEF PhoneStep, Boot, Show, PutAway, Close, Expire, Activate, courier
  <2> QED
    BY <1>2, <2>1, <2>2, <2>3 DEF Next
<1> QED
  BY <1>1, <1>2 DEF vars, courier

LEMMA QueuedInit == Init => QueuedWasTapped
BY DEF Init, QueuedWasTapped, Queued, Messages

LEMMA QueuedStep == TypeOK /\ QueuedWasTapped /\ [Next]_vars => QueuedWasTapped'
<1> SUFFICES ASSUME TypeOK, QueuedWasTapped, [Next]_vars, NEW t \in Taps, Queued(t)'
             PROVE  dlv'[t] # "idle"
  BY DEF QueuedWasTapped
<1>1. CASE Queued(t)
  BY <1>1, TappedStays DEF QueuedWasTapped
<1>2. CASE Tap(t)
  BY <1>2 DEF Tap, TypeOK
<1> QED
  BY <1>1, <1>2, QueuesFill

(***************************************************************************)
(* The refinement mapping, step by step.                                   *)
(***************************************************************************)

sentTaps == {t \in Taps : dlv[t] # "idle"}
goneTaps == {t \in Taps : dlv[t] # "idle" /\ ~HasCopy(t)}

LEMMA HasCopyIs ==
  ASSUME NEW t \in Taps
  PROVE  HasCopy(t) <=> dlv[t] \in {"asking", "write"} \/ Copy(t) \/ Queued(t)
BY DEF HasCopy, Copy, Queued, Messages

\* No copy comes out of nothing: once the last one is gone the tap is gone.
LEMMA GoneStays ==
  ASSUME TypeOK, [Next]_vars
  PROVE  goneTaps \subseteq goneTaps'
<1> SUFFICES ASSUME NEW t \in Taps, dlv[t] # "idle", ~HasCopy(t)
             PROVE  dlv'[t] # "idle" /\ ~HasCopy(t)'
  BY DEF goneTaps
<1>1. dlv[t] \notin {"asking", "write"} /\ ~Copy(t) /\ ~Queued(t)
  BY HasCopyIs
<1>2. dlv'[t] \notin {"idle", "asking", "write"}
  BY <1>1, AdvanceStep DEF Advance
<1>3. ~Copy(t)'
  <2>1. ~WritePending(t)
    BY <1>1 DEF WritePending
  <2> QED
    BY <1>1, <2>1, CopiesComeFrom
<1>4. ~Queued(t)'
  <2>1. ~Tap(t)
    BY DEF Tap
  <2> QED
    BY <1>1, <2>1, QueuesFill
<1> QED
  BY <1>2, <1>3, <1>4 DEF HasCopy, Copy, Queued, Messages

\* A step in which no tap is made and none is run only loses copies.
LEMMA LoseStep ==
  ASSUME TypeOK, [Next]_vars, runs' = runs, sentTaps' = sentTaps
  PROVE  Abstract!Lose
BY GoneStays DEF Abstract!Lose, sentTaps, goneTaps

LEMMA SendStep ==
  ASSUME TypeOK, QueuedWasTapped, WrittenUnanswered, NEW t \in Taps, Tap(t)
  PROVE  Abstract!Send(t)
<1>0. /\ dlv \in [Taps -> {"idle", "asking", "write", "focus", "page", "written"}]
      /\ inbox \in [Pages -> Seq(Taps)]
  BY DEF TypeOK
<1>1. [Next]_vars
  BY DEF Next, PhoneStep
<1>2. /\ dlv[t] = "idle" /\ dlv'[t] \in {"asking", "write"}
      /\ \A s \in Taps : s # t => dlv'[s] = dlv[s]
      /\ runs' = runs
  BY <1>0 DEF Tap
<1>3. sentTaps' = sentTaps \cup {t} /\ t \notin sentTaps
  BY <1>2 DEF sentTaps
<1>4. ASSUME NEW s \in Taps, s # t PROVE HasCopy(s)' <=> HasCopy(s)
  <2>1. Copy(s)' <=> Copy(s)
    BY DEF Tap, Copy, Held, clear
  <2>2. Queued(s)' => Queued(s)
    <3>1. ~Tap(s)
      BY <1>2, <1>4 DEF Tap
    <3> QED
      BY <1>1, <3>1, QueuesFill
  <2>3. Queued(s) => Queued(s)'
    <3> SUFFICES ASSUME NEW p \in Pages, s \in Messages(inbox[p])
                 PROVE  s \in Messages(inbox'[p])
      BY DEF Queued
    <3>1. inbox'[p] = IF p \in Open THEN Append(inbox[p], t) ELSE inbox[p]
      BY DEF Tap
    <3>2. Messages(Append(inbox[p], t)) = Messages(inbox[p]) \cup {t}
      BY <1>0, AppendMessages
    <3> QED
      BY <3>1, <3>2
  <2> QED
    BY <1>2, <1>4, <2>1, <2>2, <2>3 DEF HasCopy, Copy, Queued, Messages
<1>5. HasCopy(t)'
  BY <1>2 DEF HasCopy
<1>6. goneTaps' = goneTaps
  BY <1>2, <1>4, <1>5 DEF goneTaps
<1> QED
  BY <1>2, <1>3, <1>6 DEF Abstract!Send, sentTaps, goneTaps

\* A page runs a tap it holds a copy of, and no other tap's copies change.
LEMMA RunStep ==
  ASSUME TypeOK, OncePerPage, [Next]_vars,
         NEW p \in Pages, NEW t \in Taps, Perform(p, t), t \notin done[p],
         dlv[t] # "idle", HasCopy(t), dlv' = dlv,
         \A s \in Taps : s # t => (HasCopy(s)' <=> HasCopy(s))
  PROVE  Abstract!Run(p, t)
<1>1. t \in sentTaps \ goneTaps
  BY DEF sentTaps, goneTaps
<1>2. runs[p][t] = 0
  BY DEF OncePerPage
<1>3. runs' = [runs EXCEPT ![p][t] = 1]
  BY <1>2 DEF Perform
<1>4. sentTaps' = sentTaps
  BY DEF sentTaps
<1>5. goneTaps' \in {goneTaps, goneTaps \cup {t}}
  BY DEF goneTaps
<1> QED
  BY <1>1, <1>2, <1>3, <1>4, <1>5 DEF Abstract!Run, sentTaps, goneTaps

LEMMA ReceiveStep ==
  ASSUME Inv, QueuedWasTapped, NEW p \in Pages, Receive(p)
  PROVE  [Abstract!Next]_Abstract!vars
<1>0. TypeOK /\ OncePerPage /\ [Next]_vars /\ inbox \in [Pages -> Seq(Taps)]
  BY DEF Inv, TypeOK, Next, PageStep
<1>1. PICK h \in Taps : h = Head(inbox[p]) /\ Perform(p, h)
  BY <1>0, HeadIsTap
<1>2. /\ dlv' = dlv
      /\ UNCHANGED <<slot, taking, replies, clearing, putting>>
      /\ inbox[p] # <<>>
      /\ inbox' = [inbox EXCEPT ![p] = Tail(@)]
  BY DEF Receive
<1>3. Messages(inbox[p]) = {h} \cup Messages(Tail(inbox[p]))
  BY <1>0, <1>1, <1>2, TailMessages
<1>4. Queued(h) /\ dlv[h] # "idle"
  BY <1>3 DEF Queued, QueuedWasTapped
<1>5. ASSUME NEW s \in Taps, s # h PROVE HasCopy(s)' <=> HasCopy(s)
  <2>1. Copy(s)' <=> Copy(s)
    BY <1>2 DEF Copy, Held
  <2>2. \A q \in Pages : s \in Messages(inbox'[q]) <=> s \in Messages(inbox[q])
    BY <1>0, <1>2, <1>3, <1>5
  <2>3. Queued(s)' <=> Queued(s)
    BY <2>2 DEF Queued
  <2> QED
    BY <1>2, <2>1, <2>3 DEF HasCopy, Copy, Queued, Messages
<1>6. CASE h \in done[p]
  <2>1. runs' = runs /\ sentTaps' = sentTaps
    BY <1>1, <1>2, <1>6 DEF Perform, sentTaps
  <2> QED
    BY <1>0, <2>1, LoseStep DEF Abstract!Next
<1>7. CASE h \notin done[p]
  <2>1. HasCopy(h)
    BY <1>4, HasCopyIs
  <2>2. Abstract!Run(p, h)
    BY <1>0, <1>1, <1>2, <1>4, <1>5, <1>7, <2>1, RunStep
  <2> QED
    BY <2>2 DEF Abstract!Next
<1> QED
  BY <1>6, <1>7

LEMMA ReplayStep ==
  ASSUME Inv, NEW p \in Pages, NEW t \in Taps, Replay(p, t)
  PROVE  [Abstract!Next]_Abstract!vars
<1>0. TypeOK /\ OncePerPage /\ [Next]_vars /\ WrittenUnanswered
  BY DEF Inv, Next, PageStep
<1>1. /\ UNCHANGED <<dlv, inbox, slot, taking, clearing, putting>>
      /\ <<p, t>> \in replies /\ replies' = replies \ {<<p, t>>}
  BY DEF Replay, courier, clear
<1>2. Copy(t) /\ dlv[t] # "idle"
  BY <1>0, <1>1 DEF Copy, Held, WrittenUnanswered
<1>3. ASSUME NEW s \in Taps, s # t PROVE HasCopy(s)' <=> HasCopy(s)
  <2>1. Copy(s)' <=> Copy(s)
    BY <1>1, <1>3 DEF Copy, Held
  <2> QED
    BY <1>1, <2>1 DEF HasCopy, Copy
<1>4. CASE runs' = runs
  <2>1. sentTaps' = sentTaps
    BY <1>1 DEF sentTaps
  <2> QED
    BY <1>0, <1>4, <2>1, LoseStep DEF Abstract!Next
<1>5. CASE Perform(p, t) /\ t \notin done[p]
  <2>1. HasCopy(t)
    BY <1>2, HasCopyIs
  <2>2. Abstract!Run(p, t)
    BY <1>0, <1>1, <1>2, <1>3, <1>5, <2>1, RunStep
  <2> QED
    BY <2>2 DEF Abstract!Next
<1> QED
  BY <1>4, <1>5 DEF Replay, Perform

LEMMA CourierStep ==
  ASSUME Inv, QueuedWasTapped, [Next]_vars
  PROVE  [Abstract!Next]_Abstract!vars
<1>0. TypeOK /\ WrittenUnanswered
  BY DEF Inv
<1>1. ASSUME NEW p \in Pages, Receive(p) PROVE [Abstract!Next]_Abstract!vars
  BY <1>1, ReceiveStep
<1>2. ASSUME NEW p \in Pages, NEW t \in Taps, Replay(p, t)
      PROVE  [Abstract!Next]_Abstract!vars
  BY <1>2, ReplayStep
<1>3. ASSUME NEW t \in Taps, Tap(t) PROVE [Abstract!Next]_Abstract!vars
  BY <1>0, <1>3, SendStep DEF Abstract!Next
<1>4. ASSUME \A p \in Pages : ~Receive(p),
             \A p \in Pages, t \in Taps : ~Replay(p, t),
             \A t \in Taps : ~Tap(t)
      PROVE  [Abstract!Next]_Abstract!vars
  <2>1. runs' = runs
    BY <1>4, OthersDoNotRun
  <2>2. \A t \in Taps : dlv'[t] = "idle" <=> dlv[t] = "idle"
    <3>1. \A t \in Taps : Advance(t)
      BY <1>0, AdvanceStep
    <3>2. \A t \in Taps : dlv[t] = "idle" => dlv'[t] = "idle"
      BY <1>0, <1>4, OnlyTapStarts
    <3> QED
      BY <3>1, <3>2 DEF Advance
  <2>3. sentTaps' = sentTaps
    BY <2>2 DEF sentTaps
  <2> QED
    BY <1>0, <2>1, <2>3, LoseStep DEF Abstract!Next
<1> QED
  BY <1>1, <1>2, <1>3, <1>4

\* The worker and the pages together keep the courier's promise: a tap runs
\* only if it was made, at most once on a page, and never after its last copy
\* is gone.
THEOREM CourierImplemented == Spec => ImplementsCourier
<1>1. Init => Abstract!Init
  <2>1. Init => sentTaps = {} /\ goneTaps = {}
    BY DEF Init, sentTaps, goneTaps
  <2> QED
    BY <2>1 DEF Init, Abstract!Init, sentTaps, goneTaps
<1>2. Inv /\ QueuedWasTapped /\ [Next]_vars => [Abstract!Next]_Abstract!vars
  BY CourierStep
<1>3. Inv => TypeOK
  BY DEF Inv
<1>4. Spec => []QueuedWasTapped
  BY QueuedInit, QueuedStep, TypeCorrect, PTL DEF Spec
<1> QED
  BY <1>1, <1>2, <1>4, Invariance, PTL DEF Spec, ImplementsCourier, Abstract!Spec
=============================================================================
