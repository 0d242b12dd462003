------------------------------ MODULE History ------------------------------
(***************************************************************************)
(* The watch history of one account on several devices: the list and the   *)
(* tombstones each browser keeps (src/assets/js/app.js store), the rows of *)
(* the server (src/api/history.js), and the requests between them, which   *)
(* overtake each other and are lost.                                       *)
(*                                                                         *)
(* A row is its address; titles, stars, positions and the owner's view of  *)
(* everybody are left out.  One window a device, one toast at a time, one  *)
(* refresh at a time a device, everyone signed in.  Bounds: Cap rows on a  *)
(* device (200), Limit rows in an answer (200), MaxActs acts of people,    *)
(* MaxLosses requests lost, MaxWire requests in flight when one is begun.  *)
(***************************************************************************)
EXTENDS Naturals, FiniteSets, Bags, SequencesExt

CONSTANTS Urls, Devices, Cap, Limit, MaxActs, MaxLosses, MaxWire

VARIABLES
  shelf,   \* shelf[d]: the list on d, newest first
  dead,    \* dead[d]: the addresses d has tombstones for
  undo,    \* undo[d]: what the toast on d would bring back
  rows,    \* the account's rows on the server, newest first
  wire,    \* the requests in flight, each with how far the server has got
  acts, losses

vars == <<shelf, dead, undo, rows, wire, acts, losses>>

NoUndo == [what |-> "nothing", items |-> <<>>, at |-> 0]

Post(u)      == [kind |-> "post", device |-> "any", url |-> {u}, pc |-> "sent", answer |-> <<>>]
Del(d, u)    == [kind |-> "del", device |-> d, url |-> {u}, pc |-> "sent", answer |-> <<>>]
DelAll       == [kind |-> "all", device |-> "any", url |-> {}, pc |-> "sent", answer |-> <<>>]
Get(d)       == [kind |-> "get", device |-> d, url |-> {}, pc |-> "sent", answer |-> <<>>]
Later(r, pc) == [r EXCEPT !.pc = pc]

One(r)      == SetToBag({r})
Sent(r)     == wire' = wire (+) One(r)
Over(r)     == wire' = wire (-) One(r)
Moved(r, s) == wire' = (wire (-) One(r)) (+) One(s)
Asking(d)   == {r \in BagToSet(wire) : r.kind = "get" /\ r.device = d}

Init ==
  /\ shelf = [d \in Devices |-> <<>>] /\ dead = [d \in Devices |-> {}]
  /\ undo = [d \in Devices |-> NoUndo]
  /\ rows = <<>> /\ wire = EmptyBag /\ acts = 0 /\ losses = 0

\* store.touch: to the front of the list, which is cut at its end.
Touched(list, u) ==
  LET longer == <<u>> \o RemoveFirst(list, u)
  IN  SubSeq(longer, 1, IF Len(longer) < Cap THEN Len(longer) ELSE Cap)

\* A person does something on d.
Act(d) == acts < MaxActs /\ BagCardinality(wire) < MaxWire /\ acts' = acts + 1
          /\ UNCHANGED <<rows, losses>>

\* load() and openWeb(): touch revives, recordPlay posts.
Play(d, u) ==
  /\ Act(d)
  /\ shelf' = [shelf EXCEPT ![d] = Touched(@, u)]
  /\ dead' = [dead EXCEPT ![d] = @ \ {u}]
  /\ Sent(Post(u))
  /\ UNCHANGED undo

\* Bug to catch: the place kept for the Undo counts from zero.
DeleteFromZero(d, i) ==
  LET u == shelf[d][i] IN
  /\ Act(d)
  /\ shelf' = [shelf EXCEPT ![d] = RemoveAt(@, i)]
  /\ dead' = [dead EXCEPT ![d] = @ \cup {u}]
  /\ Sent(Del(d, u))
  /\ undo' = [undo EXCEPT ![d] = [what |-> "one", items |-> <<u>>, at |-> i - 1]]

\* The cross on a row.
Delete(d, i) ==
  LET u == shelf[d][i] IN
  /\ Act(d)
  /\ shelf' = [shelf EXCEPT ![d] = RemoveAt(@, i)]
  /\ dead' = [dead EXCEPT ![d] = @ \cup {u}]
  /\ Sent(Del(d, u))
  /\ undo' = [undo EXCEPT ![d] = [what |-> "one", items |-> <<u>>, at |-> i]]

\* Its Undo: insertAt, revive, recordPlay.
UndoDelete(d) ==
  /\ Act(d) /\ undo[d].what = "one"
  /\ LET at == IF undo[d].at <= Len(shelf[d]) THEN undo[d].at ELSE Len(shelf[d]) + 1
     IN  shelf' = [shelf EXCEPT ![d] = InsertAt(@, at, undo[d].items[1])]
  /\ dead' = [dead EXCEPT ![d] = @ \ ToSet(undo[d].items)]
  /\ Sent(Post(undo[d].items[1]))
  /\ undo' = [undo EXCEPT ![d] = NoUndo]

Clear(d) ==
  /\ Act(d) /\ shelf[d] # <<>>
  /\ shelf' = [shelf EXCEPT ![d] = <<>>]
  /\ dead' = [dead EXCEPT ![d] = @ \cup ToSet(shelf[d])]
  /\ Sent(DelAll)
  /\ undo' = [undo EXCEPT ![d] = [what |-> "all", items |-> shelf[d], at |-> 0]]

\* Its Undo: the snapshot replaces the list, and every row of it is posted again.
UndoClear(d) ==
  /\ Act(d) /\ undo[d].what = "all"
  /\ shelf' = [shelf EXCEPT ![d] = undo[d].items]
  /\ dead' = [dead EXCEPT ![d] = @ \ ToSet(undo[d].items)]
  /\ wire' = wire (+) ToBag([i \in 1..Len(undo[d].items) |-> Post(undo[d].items[i])])
  /\ undo' = [undo EXCEPT ![d] = NoUndo]

ToastEnds(d) ==
  /\ undo[d] # NoUndo
  /\ undo' = [undo EXCEPT ![d] = NoUndo]
  /\ UNCHANGED <<shelf, dead, rows, wire, acts, losses>>

\* The server on a play: the older copy first, which may fail unnoticed, and
\* after another await the new one.
Dedupe(u) ==
  /\ BagIn(Post(u), wire)
  /\ Moved(Post(u), Later(Post(u), "deduped"))
  /\ \/ rows' = SelectSeq(rows, LAMBDA x : x # u) /\ UNCHANGED losses
     \/ losses < MaxLosses /\ losses' = losses + 1 /\ UNCHANGED rows
  /\ UNCHANGED <<shelf, dead, undo, acts>>

Insert(u) ==
  /\ BagIn(Later(Post(u), "deduped"), wire)
  /\ rows' = <<u>> \o rows
  /\ Over(Later(Post(u), "deduped"))
  /\ UNCHANGED <<shelf, dead, undo, acts, losses>>

\* The server on a delete ...
Forget(d, u) ==
  /\ BagIn(Del(d, u), wire)
  /\ rows' = SelectSeq(rows, LAMBDA x : x # u)
  /\ Moved(Del(d, u), Later(Del(d, u), "answered"))
  /\ UNCHANGED <<shelf, dead, undo, acts, losses>>

\* ... and its answer on the device, forgotten either way.
Revive(d, u) ==
  /\ BagIn(Later(Del(d, u), "answered"), wire)
  /\ dead' = [dead EXCEPT ![d] = @ \ {u}]
  /\ Over(Later(Del(d, u), "answered"))
  /\ UNCHANGED <<shelf, undo, rows, acts, losses>>

ForgetAll ==
  /\ BagIn(DelAll, wire)
  /\ rows' = <<>>
  /\ Over(DelAll)
  /\ UNCHANGED <<shelf, dead, undo, acts, losses>>

\* refreshHistory asks: at a boot, a sign-in, a pull or a choice of scope.
Ask(d) ==
  /\ Asking(d) = {} /\ BagCardinality(wire) < MaxWire
  /\ Sent(Get(d))
  /\ UNCHANGED <<shelf, dead, undo, rows, acts, losses>>

Listed == SubSeq(rows, 1, IF Len(rows) < Limit THEN Len(rows) ELSE Limit)

Answer(d) ==
  /\ BagIn(Get(d), wire)
  /\ Moved(Get(d), [Later(Get(d), "answered") EXCEPT !.answer = Listed])
  /\ UNCHANGED <<shelf, dead, undo, rows, acts, losses>>

\* Bug to catch: the fold ends at the first row that is on the list.
MergedToFirstKnown(list, buried, answer) ==
  LET known == {i \in 1..Len(answer) : answer[i] \in ToSet(list)}
      end   == IF known = {} THEN Len(answer) ELSE (CHOOSE i \in known : \A j \in known : i <= j) - 1
  IN  FoldLeft(LAMBDA l, u : IF u \in buried \cup ToSet(l) THEN l ELSE Touched(l, u), list, SubSeq(answer, 1, end))

\* One row after the other, newest first: a buried one is deleted again, one
\* that is not on the list is touched.
Merged(list, buried, answer) ==
  FoldLeft(LAMBDA l, u : IF u \in buried \cup ToSet(l) THEN l ELSE Touched(l, u), list, answer)

\* Bug to catch: a buried row is only skipped.
MergeForgiving(d) ==
  \E r \in Asking(d) :
    /\ r.pc = "answered"
    /\ shelf' = [shelf EXCEPT ![d] = Merged(@, dead[d], r.answer)]
    /\ Over(r)
    /\ UNCHANGED <<dead, undo, rows, acts, losses>>

Merge(d) ==
  \E r \in Asking(d) :
    /\ r.pc = "answered"
    /\ shelf' = [shelf EXCEPT ![d] = Merged(@, dead[d], r.answer)]
    /\ LET buried == SelectSeq(r.answer, LAMBDA u : u \in dead[d])
       IN  wire' = (wire (-) One(r)) (+) ToBag([i \in 1..Len(buried) |-> Del(d, buried[i])])
    /\ UNCHANGED <<dead, undo, rows, acts, losses>>

\* A request or its answer is lost, or the store refuses it.
Lose(r) ==
  /\ losses < MaxLosses /\ losses' = losses + 1
  /\ Over(r)
  /\ UNCHANGED <<shelf, dead, undo, rows, acts>>

Next ==
  \/ \E d \in Devices :
       \/ \E u \in Urls : Play(d, u) \/ Forget(d, u) \/ Revive(d, u)
       \/ \E i \in 1..Len(shelf[d]) : Delete(d, i)
       \/ UndoDelete(d) \/ Clear(d) \/ UndoClear(d) \/ ToastEnds(d)
       \/ Ask(d) \/ Answer(d) \/ Merge(d)
  \/ \E u \in Urls : Dedupe(u) \/ Insert(u)
  \/ ForgetAll
  \/ \E r \in BagToSet(wire) : Lose(r)

\* Requests end, and the app is opened again on every device.
Spec == Init /\ [][Next]_vars
FairSpec ==
  /\ Spec /\ WF_vars(ForgetAll)
  /\ \A u \in Urls : WF_vars(Dedupe(u)) /\ WF_vars(Insert(u))
  /\ \A d \in Devices :
       /\ WF_vars(Ask(d)) /\ WF_vars(Answer(d)) /\ WF_vars(Merge(d))
       /\ \A u \in Urls : WF_vars(Forget(d, u)) /\ WF_vars(Revive(d, u))

\* The types of the variables; a list outgrows Cap by the row of an Undo only.
TypeOK ==
  /\ shelf \in [Devices -> Seq(Urls)]
  /\ \A d \in Devices : Len(shelf[d]) <= Cap + 1
  /\ dead \in [Devices -> SUBSET Urls]
  /\ \A d \in Devices : /\ undo[d].what \in {"nothing", "one", "all"}
                        /\ undo[d].items \in Seq(Urls) /\ undo[d].at \in 0..(Cap + 1)
                        /\ undo[d].what = "one" <=> undo[d].at > 0
  /\ rows \in Seq(Urls)
  /\ \A r \in BagToSet(wire) :
       /\ r.kind \in {"post", "del", "all", "get"} /\ r.url \subseteq Urls
       /\ r.pc \in {"sent", "deduped", "answered"} /\ r.answer \in Seq(Urls)
  /\ acts \in 0..MaxActs /\ losses \in 0..MaxLosses

MergedNow(d) == {r \in Asking(d) : r.pc = "answered" /\ ~BagIn(r, wire') /\ losses' = losses}

\* "A refresh retries the delete, so one made offline settles by itself"
\* (app.js forgetOnServer): a buried row the server still lists leaves the
\* server, or the list, or is dug up.
SettlesByItself ==
  \A d \in Devices, u \in Urls :
    (u \in dead[d] /\ u \in ToSet(Listed)) ~> (u \notin dead[d] \/ u \notin ToSet(Listed))

\* The server is the record: a row it lists is shown on every device that has
\* not buried it, or leaves the server's list (app.js refreshHistory).
RowsReachDevices ==
  \A d \in Devices, u \in Urls :
    (u \in ToSet(Listed)) ~> (u \in ToSet(shelf[d]) \cup dead[d] \/ u \notin ToSet(Listed))

\* Claimed by app.js refreshHistory: the server's rows are folded in.  A device
\* shows every row it was sent and has not buried, also when its list is full.
MergeShowsAll ==
  [][\A d \in Devices : \A r \in MergedNow(d) :
       ToSet(r.answer) \subseteq ToSet(shelf'[d]) \cup dead[d]]_vars

\* Claimed by api/history.js: "your own, newest first".  A device with an
\* empty list shows what it was sent in the order it was sent.
MergeKeepsOrder ==
  [][\A d \in Devices : \A r \in MergedNow(d) :
       shelf[d] = <<>> /\ dead[d] = {} /\ IsInjective(r.answer) => shelf'[d] = r.answer]_vars

\* Claimed by app.js refreshHistory: a play recorded while offline is waiting
\* to go up.  What stays on a list reaches the server.
PlayGoesUp ==
  \A d \in Devices, u \in Urls :
    (u \in ToSet(shelf[d])) ~> (u \in ToSet(rows) \/ u \notin ToSet(shelf[d]))

\* A refresh adds no row that the server has forgotten since it answered.
MergeIsCurrent ==
  [][\A d \in Devices : \A r \in MergedNow(d) :
       ToSet(shelf'[d]) \subseteq ToSet(shelf[d]) \cup ToSet(rows)]_vars

\* Claimed by api/history.js: re-watching moves a row up and adds no second one.
OneRowEach == IsInjective(rows) /\ \A d \in Devices : IsInjective(shelf[d])
=============================================================================
