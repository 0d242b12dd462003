-------------------------------- MODULE Push --------------------------------
(***************************************************************************)
(* One browser, registered so that a server can wake it: pushSync of       *)
(* src/assets/js/app.js, the worker's pushsubscriptionchange in src/sw.js, *)
(* the table behind src/api/push.js and the fan-out of src/lib/push.js.    *)
(*                                                                         *)
(* An endpoint is the number of a subscription the browser has minted; it  *)
(* is alive while it is the browser's subscription, and never again after. *)
(* pushSync runs as often as it is called, and its runs overlap.  What a   *)
(* push says, its urgency and the failure counts are left out; so is a     *)
(* browser without a worker or without permission.  Bounds: Runs runs at   *)
(* once, MaxTurns acts of people, browsers and operators and requests or   *)
(* unsubscribes that fail.                                                 *)
(***************************************************************************)
EXTENDS Naturals, FiniteSets, Sequences

CONSTANTS People, Nobody, Runs, MaxTurns

VARIABLES
  wanted,  \* notify.on(): the switch
  who,     \* whose cookie the browser has
  sub,     \* the browser's subscription, 0 for none
  keyOf,   \* keyOf[e]: the server key endpoint e was minted for
  key,     \* the server's key
  table,   \* table[e]: the account the row of e belongs to, or Nobody
  run,     \* run[i]: a pushSync, or the worker's handler, and what it holds
  stuck,   \* history: endpoints whose unsubscribe failed under a switch that was off
  turns

vars == <<wanted, who, sub, keyOf, key, table, run, stuck, turns>>

Idle      == [pc |-> "idle", old |-> 0, sub |-> 0, key |-> 0, worker |-> FALSE]
Sync      == [Idle EXCEPT !.pc = "look"]
Free      == {i \in 1..Runs : run[i].pc = "idle"}
Endpoints == 1..Len(table)

Init ==
  /\ wanted \in BOOLEAN /\ who \in People
  /\ sub = 0 /\ keyOf = <<>> /\ key = 1 /\ table = <<>>
  /\ run = [i \in 1..Runs |-> Idle]
  /\ stuck = {} /\ turns = 0

At(i, pc)   == run[i].pc = pc
Go(i, r)    == run' = [run EXCEPT ![i] = r]
End(i)      == Go(i, Idle)
Goto(i, pc) == Go(i, [run[i] EXCEPT !.pc = pc])
Start(r)    == Free # {} /\ Go(CHOOSE i \in Free : \A j \in Free : i <= j, r)
Turn        == turns < MaxTurns /\ turns' = turns + 1
Dropped(e)  == IF sub = e THEN 0 ELSE sub

browser == <<wanted, who, sub>>
server  == <<key, table>>

\* The app is opened: setReg and the settings row each call pushSync.
Boot == Start(Sync) /\ UNCHANGED <<browser, keyOf, server, stuck, turns>>

\* The switch in the settings, then pushSync.
Toggle == Turn /\ wanted' = ~wanted /\ Start(Sync) /\ UNCHANGED <<who, sub, keyOf, server, stuck>>

\* Sign out or in; nothing here is told.
Sign == Turn /\ \E p \in People \cup {Nobody} : p # who /\ who' = p
        /\ UNCHANGED <<wanted, sub, keyOf, server, run, stuck>>

\* The operator changes the key.
Rekey == Turn /\ key = 1 /\ key' = 2 /\ UNCHANGED <<browser, keyOf, table, run, stuck>>

\* The browser replaces its subscription and tells the worker, with or without
\* the old one.
Rotate ==
  /\ Turn /\ sub # 0 /\ sub' = 0
  /\ \E old \in {0, sub} : Start([Idle EXCEPT !.pc = "config", !.old = old, !.worker = TRUE])
  /\ UNCHANGED <<wanted, who, keyOf, server, stuck>>

\* Bug to catch: a switch that is off leaves what is registered alone.
LookOnly(i) ==
  /\ At(i, "look")
  /\ IF wanted THEN Go(i, [run[i] EXCEPT !.pc = "config", !.old = sub]) ELSE End(i)
  /\ UNCHANGED <<browser, keyOf, server, stuck, turns>>

\* getSubscription answers, and the switch is looked at.
Look(i) ==
  /\ At(i, "look")
  /\ \/ wanted /\ Go(i, [run[i] EXCEPT !.pc = "config", !.old = sub])
     \/ ~wanted /\ sub = 0 /\ End(i)
     \/ ~wanted /\ sub # 0 /\ Go(i, [run[i] EXCEPT !.pc = "unsubscribe", !.old = sub])
  /\ UNCHANGED <<browser, keyOf, server, stuck, turns>>

\* Off: the subscription goes first; if that fails the server is told all the same.
Unsubscribe(i) ==
  /\ At(i, "unsubscribe")
  /\ \/ sub' = Dropped(run[i].old) /\ UNCHANGED <<stuck, turns>>
     \/ Turn /\ stuck' = stuck \cup {run[i].old} /\ UNCHANGED sub
  /\ Goto(i, "list")
  /\ UNCHANGED <<wanted, who, keyOf, server>>

\* DELETE: the rows of the account are listed, and if this one is among them ...
List(i) ==
  /\ At(i, "list")
  /\ IF who # Nobody /\ table[run[i].old] = who THEN Goto(i, "forget") ELSE End(i)
  /\ UNCHANGED <<browser, keyOf, server, stuck, turns>>

\* ... it is forgotten, by its endpoint alone.
Forget(i) ==
  /\ At(i, "forget")
  /\ table' = [table EXCEPT ![run[i].old] = Nobody]
  /\ End(i)
  /\ UNCHANGED <<browser, keyOf, key, stuck, turns>>

\* Bug to catch: a subscription made for another key is used again.
ConfigAnyKey(i) ==
  /\ At(i, "config")
  /\ LET r == [run[i] EXCEPT !.key = key] IN
       \/ who = Nobody /\ End(i)
       \/ who # Nobody /\ ~r.worker /\ r.old # 0 /\ Go(i, [r EXCEPT !.pc = "post", !.sub = r.old, !.key = 0])
       \/ who # Nobody /\ (r.worker \/ r.old = 0) /\ Go(i, [r EXCEPT !.pc = "mint"])
  /\ UNCHANGED <<browser, keyOf, server, stuck, turns>>

\* GET: the server's key, for somebody who is signed in.  The page uses what
\* it has if that is for this key, and replaces it otherwise.
Config(i) ==
  /\ At(i, "config")
  /\ LET r == [run[i] EXCEPT !.key = key] IN
       \/ who = Nobody /\ End(i)
       \/ /\ who # Nobody /\ ~r.worker /\ r.old # 0
          /\ Go(i, IF keyOf[r.old] = key THEN [r EXCEPT !.pc = "post", !.sub = r.old, !.key = 0]
                                         ELSE [r EXCEPT !.pc = "drop"])
       \/ who # Nobody /\ (r.worker \/ r.old = 0) /\ Go(i, [r EXCEPT !.pc = "mint"])
  /\ UNCHANGED <<browser, keyOf, server, stuck, turns>>

Drop(i) ==
  /\ At(i, "drop")
  /\ \/ sub' = Dropped(run[i].old) /\ UNCHANGED turns
     \/ Turn /\ UNCHANGED sub
  /\ Goto(i, "mint")
  /\ UNCHANGED <<wanted, who, keyOf, server, stuck>>

\* Bug to catch: a refused subscribe is registered all the same.
MintUnchecked(i) ==
  /\ At(i, "mint")
  /\ \/ /\ sub = 0 /\ sub' = Len(table) + 1
        /\ keyOf' = Append(keyOf, run[i].key) /\ table' = Append(table, Nobody)
        /\ Go(i, [run[i] EXCEPT !.pc = "post", !.sub = Len(table) + 1, !.key = 0])
     \/ /\ sub # 0 /\ UNCHANGED <<sub, keyOf, table>>
        /\ Go(i, [run[i] EXCEPT !.pc = "post", !.key = 0, !.sub = IF keyOf[sub] = run[i].key THEN sub ELSE 0])
  /\ UNCHANGED <<wanted, who, key, stuck, turns>>

\* subscribe(): a new endpoint; the one there is, if it is for this key; or a
\* refusal, if it is for another.
Mint(i) ==
  /\ At(i, "mint")
  /\ \/ /\ sub = 0 /\ sub' = Len(table) + 1
        /\ keyOf' = Append(keyOf, run[i].key) /\ table' = Append(table, Nobody)
        /\ Go(i, [run[i] EXCEPT !.pc = "post", !.sub = Len(table) + 1, !.key = 0])
     \/ /\ sub # 0 /\ UNCHANGED <<sub, keyOf, table>>
        /\ IF keyOf[sub] = run[i].key THEN Go(i, [run[i] EXCEPT !.pc = "post", !.sub = sub, !.key = 0]) ELSE End(i)
  /\ UNCHANGED <<wanted, who, key, stuck, turns>>

\* POST: the row is this account's now.  The worker goes on to delete the old one.
Post(i) ==
  /\ At(i, "post")
  /\ table' = IF who # Nobody THEN [table EXCEPT ![run[i].sub] = who] ELSE table
  /\ IF run[i].worker /\ run[i].old # 0 THEN Goto(i, "list") ELSE End(i)
  /\ UNCHANGED <<browser, keyOf, key, stuck, turns>>

\* A request or its answer is lost, or the store fails: the run ends there.
Lose(i) ==
  /\ run[i].pc \in {"list", "forget", "config", "post"} /\ Turn
  /\ End(i)
  /\ UNCHANGED <<browser, keyOf, server, stuck>>

\* Bug to catch: an endpoint that did not answer is taken for a dead one.
SweepAny(e) ==
  /\ table[e] # Nobody /\ table' = [table EXCEPT ![e] = Nobody]
  /\ UNCHANGED <<browser, keyOf, key, run, stuck, turns>>

\* sendToUser: every row of an account is tried, whatever the others answer, and
\* afterwards the row of an endpoint that answered 404 or 410 is forgotten.  The
\* reading, the sending and the forgetting are one step, for any dead row at any
\* time: what is gone stays gone, and other rows are left by it.
Sweep(e) ==
  /\ table[e] # Nobody /\ e # sub /\ table' = [table EXCEPT ![e] = Nobody]
  /\ UNCHANGED <<browser, keyOf, key, run, stuck, turns>>

Step(i) == Look(i) \/ Unsubscribe(i) \/ List(i) \/ Forget(i) \/ Config(i) \/ Drop(i) \/ Mint(i) \/ Post(i)

Next ==
  \/ Boot \/ Toggle \/ Sign \/ Rekey \/ Rotate
  \/ \E i \in 1..Runs : Step(i) \/ Lose(i)
  \/ \E e \in Endpoints : Sweep(e)

\* The app is opened again and again, and what is begun goes on.
Spec == Init /\ [][Next]_vars
FairSpec == Spec /\ WF_vars(Boot) /\ \A i \in 1..Runs : WF_vars(Step(i))

\* Types: the subscription, the runs and the server's table.
TypeOK ==
  /\ wanted \in BOOLEAN /\ who \in People \cup {Nobody}
  /\ sub \in {0} \cup Endpoints /\ key \in {1, 2}
  /\ keyOf \in Seq({1, 2}) /\ table \in Seq(People \cup {Nobody}) /\ Len(keyOf) = Len(table)
  /\ \A i \in 1..Runs : /\ run[i].old \in {0} \cup Endpoints /\ run[i].sub \in {0} \cup Endpoints
                        /\ run[i].pc = "post" => run[i].sub # 0
                        /\ run[i].pc \in {"unsubscribe", "forget", "drop"} => run[i].old # 0
  /\ stuck \subseteq Endpoints
  /\ turns \in 0..MaxTurns

\* The row of an endpoint that can still wake the phone is deleted only for a
\* person who switched it off: not by a fan-out that failed, not by a worker
\* that replaced it, not by a sync that came late (lib/push.js sendOne, sw.js).
LiveRowKept ==
  [][\A e \in Endpoints :
       table[e] # Nobody /\ table'[e] = Nobody => e # sub \/ e \in stuck]_vars

\* A switch that stays off comes to mean it: the browser keeps no subscription
\* (app.js pushSync).
OffMeansOff == <>[]~wanted => <>[](sub = 0)

\* A switch that stays on comes to mean it, for whoever stays signed in: the
\* server has a living endpoint of theirs, minted for its key (app.js pushSync).
OnReaches ==
  \A p \in People :
    <>[](wanted /\ who = p) => <>[](sub # 0 /\ keyOf[sub] = key /\ table[sub] = p)

\* Claimed by app.js: switched off, the phone cannot be woken, once nothing is
\* under way.
OffNow == (~wanted /\ Free = 1..Runs /\ stuck = {}) => sub = 0 \/ table[sub] = Nobody

\* Claimed by lib/push.js: nobody's endpoint is filed under another's account.
RowIsOfWho == sub # 0 /\ who # Nobody => table[sub] \in {who, Nobody}
=============================================================================
