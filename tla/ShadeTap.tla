------------------------------ MODULE ShadeTap ------------------------------
(***************************************************************************)
(* A tap on a button of a notification, from the shade to the page that    *)
(* performs it: src/sw.js (notificationclick, deliverAction, the one       *)
(* written-down slot) and the notify module of src/assets/js/app.js        *)
(* (perform, drainPending and the events that call it).                    *)
(*                                                                         *)
(* Three kinds of actor interleave: the worker, whose handlers are async   *)
(* and overlap at every await; the pages, each a document with a set of    *)
(* performed ids of its own; and the phone, which hides, freezes, closes   *)
(* and reopens pages whenever it likes.                                    *)
(*                                                                         *)
(* Bounds: NTaps taps, the page instances in Pages (a reload is a closed   *)
(* instance and a new one), MaxOpen windows open at once.  A tap's id is   *)
(* its rank.  Messages and handlers that are alike (same page, same tap,   *)
(* same point) are kept once: the sets below.  What a page does with a tap *)
(* is TapWork; the log of taps is ShadeLog.                                *)
(***************************************************************************)
EXTENDS Integers, Sequences, FiniteSets

CONSTANTS NTaps,    \* how many buttons are tapped
          Pages,    \* instances of the app's page, over the whole run
          MaxOpen   \* windows open at once

ASSUME NTapsAssumption == NTaps \in Nat

Taps  == 1..NTaps
NoTap == 0

VARIABLES
  page,      \* page[p]: where the instance is in its life
  reg,       \* reg[p]: whether post() in p finds a worker, and how
  inbox,     \* inbox[p]: NOTIFY_ACTION messages p has not processed
  done,      \* done[p]: the ids p refuses from now on
  runs,      \* runs[p][t]: how often p has run its listeners for t
  dlv,       \* dlv[t]: how far the worker's deliverAction has got with t
  answered,  \* answered[t]: pages whose ACK came back while it was awaited
  slot,      \* the written-down tap in the cache, or NoTap
  expired,   \* expired[t]: more than ACTION_TTL since t was written down
  asked,     \* pages whose GET_PENDING_ACTION the worker has not read
  taking,    \* <<p, t>>: takePending for p has matched t, not deleted it yet
  replies,   \* <<p, t>>: PENDING_ACTION with job t, on its way to p
  acks,      \* taps whose NOTIFY_ACTION_ACK the worker has not read
  clearing,  \* <<t, s>>: clearPending(t) has matched s, not deleted it yet
  putting,   \* <<t, s>>: clearPending(t) has deleted s and will put it back
  lost,      \* history: taps of which a copy was destroyed undelivered
  due        \* history: due[p]: p has come to the front since the slot was
             \* last filled and is still in a position to hear the answer

courier == <<dlv, answered, expired>>
clear   == <<acks, clearing, putting>>
vars == <<page, reg, inbox, done, runs, courier, slot, asked, taking,
          replies, clear, lost, due>>

Open    == {p \in Pages : page[p] \in {"visible", "hidden", "frozen"}}
Runs(p) == page[p] \in {"visible", "hidden"}

Init ==
  /\ page = [p \in Pages |-> "unborn"]
  /\ reg = [p \in Pages |-> "none"]
  /\ inbox = [p \in Pages |-> <<>>]
  /\ done = [p \in Pages |-> {}]
  /\ runs = [p \in Pages |-> [t \in Taps |-> 0]]
  /\ dlv = [t \in Taps |-> "idle"]
  /\ answered = [t \in Taps |-> {}]
  /\ slot = NoTap
  /\ expired = [t \in Taps |-> FALSE]
  /\ asked = {} /\ taking = {} /\ replies = {}
  /\ acks = {} /\ clearing = {} /\ putting = {}
  /\ lost = {}
  /\ due = [p \in Pages |-> FALSE]

(***************************************************************************)
(* The page's life.                                                        *)
(***************************************************************************)

\* drainPending with a worker to ask: the question is posted to it.
AskPending(p) == asked' = asked \cup {p}

\* The app is opened, by hand or by the worker.  A first load has no
\* controller; a later one is controlled before it is registered.
OpenWindow(p) ==
  /\ page[p] = "unborn"
  /\ Cardinality(Open) < MaxOpen
  /\ page' = [page EXCEPT ![p] = "visible"]
  /\ \E r \in {"none", "controlled"} : reg' = [reg EXCEPT ![p] = r]
  /\ UNCHANGED <<asked, due>>

Boot(p) ==
  /\ OpenWindow(p)
  /\ UNCHANGED <<inbox, done, runs, courier, slot, taking, replies, clear, lost>>

\* registerWorker's promise resolves: setReg, then drainPending.  A
\* drainPending that was waiting on serviceWorker.ready asks here too.
Register(p) ==
  /\ Runs(p) /\ reg[p] # "registered"
  /\ reg' = [reg EXCEPT ![p] = "registered"]
  /\ AskPending(p)
  /\ due' = [due EXCEPT ![p] = TRUE]
  /\ UNCHANGED <<page, inbox, done, runs, courier, slot, taking, replies, clear, lost>>

\* Bug to catch: the road back to the front does not ask (the app once asked
\* at boot only).
ComeToFrontSilently(p) ==
  /\ page[p] \in {"hidden", "frozen"}
  /\ page' = [page EXCEPT ![p] = "visible"]
  /\ due' = [due EXCEPT ![p] = TRUE]
  /\ UNCHANGED <<reg, asked>>

\* What visibilitychange (and pageshow, out of the back/forward cache) does
\* on the way to the front: ask, unless there is no worker to ask yet, in
\* which case the question waits for Register.
ComeToFront(p) ==
  /\ page[p] \in {"hidden", "frozen"}
  /\ page' = [page EXCEPT ![p] = "visible"]
  /\ due' = [due EXCEPT ![p] = TRUE]
  /\ IF reg[p] = "none" THEN UNCHANGED asked ELSE AskPending(p)
  /\ UNCHANGED reg

Show(p) ==
  /\ ComeToFront(p)
  /\ UNCHANGED <<inbox, done, runs, courier, slot, taking, replies, clear, lost>>

\* The phone puts a page away, freezes it (its messages queue), lets it run
\* hidden for a while, or discards it.
PutAway(p) ==
  /\ \/ page[p] = "visible" /\ page' = [page EXCEPT ![p] = "hidden"]
     \/ page[p] = "hidden"  /\ page' = [page EXCEPT ![p] = "frozen"]
     \/ page[p] = "frozen"  /\ page' = [page EXCEPT ![p] = "hidden"]
  /\ due' = [due EXCEPT ![p] = due[p] /\ page'[p] # "frozen"]
  /\ UNCHANGED <<reg, inbox, done, runs, courier, slot, asked, taking,
                 replies, clear, lost>>

Close(p) ==
  /\ p \in Open
  /\ page' = [page EXCEPT ![p] = "dead"]
  /\ reg' = [reg EXCEPT ![p] = "none"]
  /\ inbox' = [inbox EXCEPT ![p] = <<>>]
  /\ due' = [due EXCEPT ![p] = FALSE]
  /\ UNCHANGED <<done, runs, courier, slot, asked, taking, replies, clear, lost>>

\* Bug to catch: perform() without the set of ids already performed.
PerformForgetful(p, t) ==
  /\ done' = [done EXCEPT ![p] = @ \cup {t}]
  /\ runs' = [runs EXCEPT ![p][t] = @ + 1]

\* perform(): an id this page has already performed is only acknowledged.
Perform(p, t) ==
  IF t \in done[p]
  THEN UNCHANGED <<done, runs>>
  ELSE /\ done' = [done EXCEPT ![p] = @ \cup {t}]
       /\ runs' = [runs EXCEPT ![p][t] = @ + 1]

\* The page processes the tap at the head of its queue.  The ACK goes down
\* the port, heard only while deliverAction still waits, and again by post()
\* if the page has a worker to post to.
Receive(p) ==
  /\ Runs(p) /\ inbox[p] # <<>>
  /\ LET t == Head(inbox[p]) IN
       /\ Perform(p, t)
       /\ answered' = IF dlv[t] = "asking"
                      THEN [answered EXCEPT ![t] = @ \cup {p}] ELSE answered
       /\ acks' = IF reg[p] = "none" THEN acks ELSE acks \cup {t}
  /\ inbox' = [inbox EXCEPT ![p] = Tail(@)]
  /\ UNCHANGED <<page, reg, dlv, slot, expired, asked, taking, replies,
                 clearing, putting, lost, due>>

\* The written-down copy reaches the page that asked for it, if that page is
\* still there.
Replay(p, t) ==
  /\ <<p, t>> \in replies
  /\ \/ Runs(p) /\ Perform(p, t) /\ UNCHANGED lost
     \/ page[p] = "dead" /\ lost' = lost \cup {t} /\ UNCHANGED <<done, runs>>
  /\ replies' = replies \ {<<p, t>>}
  /\ UNCHANGED <<page, reg, inbox, courier, slot, asked, taking, clear, due>>

(***************************************************************************)
(* deliverAction.                                                          *)
(***************************************************************************)

\* notificationclick on a button: the tap is posted to every window client.
Tap(t) ==
  /\ dlv[t] = "idle"
  /\ \A s \in Taps : s < t => dlv[s] # "idle"
  /\ inbox' = [p \in Pages |-> IF p \in Open THEN Append(inbox[p], t) ELSE inbox[p]]
  /\ dlv' = [dlv EXCEPT ![t] = IF Open = {} THEN "write" ELSE "asking"]
  /\ UNCHANGED <<page, reg, done, runs, answered, slot, expired, asked,
                 taking, replies, clear, lost, due>>

\* Bugs to catch: a window that exists is taken for a page that listens; every
\* window has to answer, not some; silence is waited on for ever.
AskEndsAnyWindow(t) ==
  /\ dlv[t] = "asking"
  /\ dlv' = [dlv EXCEPT ![t] = IF Open # {} THEN "page" ELSE "write"]
  /\ UNCHANGED <<page, reg, inbox, done, runs, answered, slot, expired, asked,
                 taking, replies, clear, lost, due>>

AskEndsEveryWindow(t) ==
  /\ dlv[t] = "asking"
  /\ dlv' = [dlv EXCEPT ![t] = IF Open \subseteq answered[t] THEN "page" ELSE "write"]
  /\ UNCHANGED <<page, reg, inbox, done, runs, answered, slot, expired, asked,
                 taking, replies, clear, lost, due>>

AskEndsNoTimeout(t) ==
  /\ dlv[t] = "asking" /\ answered[t] # {}
  /\ dlv' = [dlv EXCEPT ![t] = "page"]
  /\ UNCHANGED <<page, reg, inbox, done, runs, answered, slot, expired, asked,
                 taking, replies, clear, lost, due>>

\* Every client has answered, or ACK_MS has run out on the silent ones.
AskEnds(t) ==
  /\ dlv[t] = "asking"
  /\ dlv' = [dlv EXCEPT ![t] = IF answered[t] # {} THEN "page" ELSE "write"]
  /\ UNCHANGED <<page, reg, inbox, done, runs, answered, slot, expired, asked,
                 taking, replies, clear, lost, due>>

\* A put into the one slot: whatever was there is gone.
Put(t) ==
  /\ slot' = t
  /\ lost' = lost \cup ({slot} \ {NoTap, t})
  /\ due' = [p \in Pages |-> FALSE]

WritePending(t) ==
  /\ dlv[t] = "write"
  /\ \/ Put(t)
     \/ lost' = lost \cup {t} /\ UNCHANGED <<slot, due>>   \* storage refused
  /\ dlv' = [dlv EXCEPT ![t] = "focus"]
  /\ UNCHANGED <<page, reg, inbox, done, runs, answered, expired, asked,
                 taking, replies, clear>>

\* focusApp: a window is focused, or every focus() rejects (or there is no
\* window) and one is opened, or nothing can be woken.
FocusApp(t) ==
  /\ dlv[t] = "focus"
  /\ dlv' = [dlv EXCEPT ![t] = "written"]
  /\ \/ \E p \in Pages : ComeToFront(p)
     \/ \E p \in Pages : OpenWindow(p)
     \/ UNCHANGED <<page, reg, asked, due>>   \* already in front, or refused
  /\ UNCHANGED <<inbox, done, runs, answered, slot, expired, taking, replies,
                 clear, lost>>

(***************************************************************************)
(* takePending and its two callers, one await at a time.  The match and    *)
(* the delete are separate steps: another handler may run between them.    *)
(***************************************************************************)

\* The delete removes whatever is in the slot by now, which need not be the
\* tap that was matched; a matched tap that is too old is dropped.
DeleteSlot(matched) ==
  /\ slot' = NoTap
  /\ lost' = lost \cup ({slot} \ {NoTap, matched})
                  \cup (IF expired[matched] THEN {matched} ELSE {})

\* Bug to catch: takePending goes on when the slot is empty.
DrainMatchUnchecked(p) ==
  /\ p \in asked
  /\ asked' = asked \ {p}
  /\ taking' = taking \cup {<<p, slot>>}
  /\ UNCHANGED <<page, reg, inbox, done, runs, courier, slot, replies, clear,
                 lost, due>>

DrainMatch(p) ==
  /\ p \in asked
  /\ asked' = asked \ {p}
  /\ taking' = IF slot = NoTap THEN taking ELSE taking \cup {<<p, slot>>}
  /\ UNCHANGED <<page, reg, inbox, done, runs, courier, slot, replies, clear,
                 lost, due>>

DrainDelete(p, t) ==
  /\ <<p, t>> \in taking
  /\ taking' = taking \ {<<p, t>>}
  /\ DeleteSlot(t)
  /\ replies' = IF expired[t] THEN replies ELSE replies \cup {<<p, t>>}
  /\ UNCHANGED <<page, reg, inbox, done, runs, courier, asked, clear, due>>

ClearMatch(t) ==
  /\ t \in acks
  /\ acks' = acks \ {t}
  /\ clearing' = IF slot = NoTap THEN clearing ELSE clearing \cup {<<t, slot>>}
  /\ UNCHANGED <<page, reg, inbox, done, runs, courier, slot, asked, taking,
                 replies, putting, lost, due>>

ClearDelete(t, s) ==
  /\ <<t, s>> \in clearing
  /\ clearing' = clearing \ {<<t, s>>}
  /\ DeleteSlot(s)
  /\ putting' = IF expired[s] \/ s = t THEN putting ELSE putting \cup {<<t, s>>}
  /\ UNCHANGED <<page, reg, inbox, done, runs, courier, asked, taking,
                 replies, acks, due>>

\* Not the one acknowledged: it is written down again.
ClearPutBack(t, s) ==
  /\ <<t, s>> \in putting
  /\ putting' = putting \ {<<t, s>>}
  /\ Put(s)
  /\ UNCHANGED <<page, reg, inbox, done, runs, courier, asked, taking,
                 replies, acks, clearing>>

(***************************************************************************)
(* Time, and a new build.                                                  *)
(***************************************************************************)

\* Somebody other than the slot holds the written-down copy of t.
Held(t) ==
  \/ \E p \in Pages : <<p, t>> \in taking \cup replies
  \/ \E s \in Taps : <<s, t>> \in clearing \cup putting

Expire(t) ==
  /\ ~expired[t]
  /\ slot = t \/ Held(t)
  /\ expired' = [expired EXCEPT ![t] = TRUE]
  /\ UNCHANGED <<page, reg, inbox, done, runs, dlv, answered, slot, asked,
                 taking, replies, clear, lost, due>>

\* A new build's worker takes over and deletes every cache but its own, the
\* written-down tap with it.  A browser waits for the events that waitUntil
\* holds open (deliverAction, clearPending) and ends the others: the
\* GET_PENDING_ACTION handlers, which are not held open.
Activate ==
  /\ acks = {} /\ clearing = {} /\ putting = {}
  /\ \A t \in Taps : dlv[t] \in {"idle", "page", "written"}
  /\ slot' = NoTap
  /\ asked' = {}
  /\ taking' = {}
  /\ lost' = lost \cup ({slot} \ {NoTap}) \cup {m[2] : m \in taking}
  /\ UNCHANGED <<page, reg, inbox, done, runs, courier, replies, clear, due>>

WorkerStep ==
  \/ \E t \in Taps : AskEnds(t) \/ WritePending(t) \/ FocusApp(t) \/ ClearMatch(t)
  \/ \E p \in Pages : DrainMatch(p)
  \/ \E p \in Pages, t \in Taps : DrainDelete(p, t)
  \/ \E t \in Taps, s \in Taps : ClearDelete(t, s) \/ ClearPutBack(t, s)

PageStep ==
  \/ \E p \in Pages : Register(p) \/ Receive(p)
  \/ \E p \in Pages, t \in Taps : Replay(p, t)

PhoneStep ==
  \/ \E p \in Pages : Boot(p) \/ Show(p) \/ PutAway(p) \/ Close(p)
  \/ \E t \in Taps : Tap(t) \/ Expire(t)
  \/ Activate

Next == WorkerStep \/ PageStep \/ PhoneStep

Spec == Init /\ [][Next]_vars

\* What the browser runs by itself: the worker's event loop, the event loop
\* of a page that is not frozen, and the registration of a worker that is
\* already installed.  The phone's own steps have none.
Fairness ==
  /\ \A t \in Taps : /\ WF_vars(AskEnds(t)) /\ WF_vars(WritePending(t))
                     /\ WF_vars(FocusApp(t)) /\ WF_vars(ClearMatch(t))
  /\ \A p \in Pages : /\ WF_vars(Receive(p)) /\ WF_vars(Register(p))
                      /\ WF_vars(DrainMatch(p))
  /\ \A p \in Pages, t \in Taps : WF_vars(DrainDelete(p, t)) /\ WF_vars(Replay(p, t))
  /\ \A t \in Taps, s \in Taps : /\ WF_vars(ClearDelete(t, s))
                                 /\ WF_vars(ClearPutBack(t, s))

FairSpec == Spec /\ Fairness

(***************************************************************************)
(* Properties.                                                             *)
(***************************************************************************)

\* The types of the variables: in particular every handler that is past its
\* match holds a tap, never the empty slot.
TypeOK ==
  /\ page \in [Pages -> {"unborn", "visible", "hidden", "frozen", "dead"}]
  /\ reg \in [Pages -> {"none", "controlled", "registered"}]
  /\ inbox \in [Pages -> Seq(Taps)]
  /\ done \in [Pages -> SUBSET Taps]
  /\ runs \in [Pages -> [Taps -> Nat]]
  /\ dlv \in [Taps -> {"idle", "asking", "write", "focus", "page", "written"}]
  /\ answered \in [Taps -> SUBSET Pages]
  /\ slot \in Taps \cup {NoTap}
  /\ expired \in [Taps -> BOOLEAN]
  /\ asked \subseteq Pages
  /\ taking \subseteq Pages \X Taps
  /\ replies \subseteq Pages \X Taps
  /\ acks \subseteq Taps
  /\ clearing \subseteq Taps \X Taps
  /\ putting \subseteq Taps \X Taps
  /\ lost \subseteq Taps
  /\ due \in [Pages -> BOOLEAN]

\* One page instance never runs its listeners twice for one tap, whichever of
\* the two roads (posted message, written-down copy) brings it, and however
\* often (app.js perform and its `done` set).
OncePerPage ==
  \A p \in Pages, t \in Taps : runs[p][t] = IF t \in done[p] THEN 1 ELSE 0

\* A tap the worker is through with is performed, or written down, or in the
\* hands of a handler, or was destroyed where `lost` says so (overwritten or
\* deleted unread, stale, refused by storage, replied to a closed page, swept
\* away by an update): no interleaving of deliverAction, takePending and
\* clearPending drops one silently.
Performed(t) == \E p \in Pages : t \in done[p]

Accounted(t) ==
  \/ Performed(t)
  \/ slot = t
  \/ Held(t)
  \/ t \in lost

Conservation ==
  \A t \in Taps : dlv[t] \in {"page", "focus", "written"} => Accounted(t)

\* A tap that some page acknowledged while deliverAction waited is never in
\* the slot or in the hands of a replay: "a performed tap is not written down"
\* (scripts/test-notify.js), whatever the other windows did.
AckedNotWritten ==
  \A t \in Taps : answered[t] # {} => slot # t /\ ~Held(t)

\* What the two above rest on.  An acknowledgement, on its way or being acted
\* on, is of a tap some page has performed ...
AckWasPerformed ==
  /\ \A t \in Taps : dlv[t] = "page" => answered[t] # {}
  /\ \A t \in Taps : answered[t] # {} \/ t \in acks => Performed(t)
  /\ \A t \in Taps, s \in Taps : <<t, s>> \in clearing \cup putting => Performed(t)

\* ... and a tap is in the slot, or out of it in a handler's hands, only after
\* deliverAction heard from nobody and wrote it.
WrittenUnanswered ==
  \A t \in Taps :
    /\ slot = t \/ Held(t) => dlv[t] \in {"focus", "written"}
    /\ dlv[t] \in {"idle", "write", "focus", "written"} => answered[t] = {}

\* A page that came to the front after a tap was written down, and stays
\* able to hear the answer, does not leave it lying there: every road to the
\* front asks (app.js visibilitychange, pageshow, registerWorker).
EveryRoadAsks ==
  \A p \in Pages : (slot # NoTap /\ due[p]) ~> (slot = NoTap \/ ~due[p])

\* deliverAction always comes to an end, however silent the pages are.
DeliveryEnds ==
  \A t \in Taps : (dlv[t] = "asking") ~> (dlv[t] \in {"page", "written"})

\* Claimed by sw.js, app.js and the README: no id runs twice.
NoIdRunsTwice ==
  \A t \in Taps : Cardinality({p \in Pages : runs[p][t] > 0}) <= 1

\* Claimed by scripts/test-notify.js: the written-down tap is handed over
\* once, and only once.
HandedOnce ==
  \A r, q \in replies : r # q => r[2] # q[2]

\* Claimed by scripts/test-notify.js: an acknowledgement of a different tap
\* leaves the written-down one alone.
AckLeavesOthers ==
  [][\A t \in Taps, s \in Taps : (ClearDelete(t, s) \/ ClearPutBack(t, s))
        => \A l \in lost' \ lost : l = t \/ expired[l]]_vars

\* Refinement: the protocol implements Courier.  A tap is gone when neither a
\* task, the slot, nor the queue of a page that may still run holds it.
HasCopy(t) ==
  \/ dlv[t] \in {"asking", "write"}
  \/ slot = t
  \/ Held(t)
  \/ \E p \in Pages : t \in {inbox[p][i] : i \in 1..Len(inbox[p])}

Abstract == INSTANCE Courier WITH
  sent <- {t \in Taps : dlv[t] # "idle"},
  ran  <- runs,
  gone <- {t \in Taps : dlv[t] # "idle" /\ ~HasCopy(t)}

ImplementsCourier == Abstract!Spec
=============================================================================
