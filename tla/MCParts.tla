------------------------------ MODULE MCParts ------------------------------
(***************************************************************************)
(* Four parts of the app that meet nobody but the server or the SDK, on    *)
(* small instances, one at a time: a behaviour is about the one that part  *)
(* names, and the other three stay in an initial state of theirs.  None of *)
(* them reads what another writes, so what holds of each alone holds of    *)
(* them together.                                                          *)
(***************************************************************************)
EXTENDS TapWork, Bags, Sequences

CONSTANTS Urls, Devices, Cap, Limit, MaxActs, MaxLosses, MaxWire,
          Films, People, None, MaxLines, QueueCap, PreCap, MaxFaults, MaxTurns,
          Runs, PushTurns

ASSUME PartsBounds ==
  /\ {Cap, Limit, MaxActs, MaxLosses, MaxWire, MaxLines, QueueCap, PreCap,
      MaxFaults, MaxTurns, Runs, PushTurns} \subseteq Nat \ {0}
  /\ People # {} /\ None \notin Films \cup People

VARIABLES
  part,                                                 \* which part goes
  shelf, dead, undo, rows, wire, did, losses,           \* History
  me, current, castSession, queue, pre, timer, posts,
  logs, said, stored, lost, faults, turns,              \* CastLog
  wanted, who, sub, keyOf, key, table, run, stuck, pushTurns  \* Push

history == <<shelf, dead, undo, rows, wire, did, losses>>
castlog == <<me, current, castSession, queue, pre, timer, posts, logs, said, stored, lost, faults, turns>>
push    == <<wanted, who, sub, keyOf, key, table, run, stuck, pushTurns>>

H == INSTANCE History WITH acts <- did
C == INSTANCE CastLog WITH session <- castSession
P == INSTANCE Push WITH Nobody <- None, MaxTurns <- PushTurns, turns <- pushTurns

\* A part that does not go has one initial state, in which nothing is due.
PartsInit ==
  /\ part \in {"taps", "history", "castlog", "push"}
  /\ Init /\ H!Init /\ C!Init /\ P!Init
  /\ part # "taps" => ~fresh /\ ~session /\ ~upload /\ \A t \in Taps : kind[t] = "stop" /\ ~replayed[t]
  /\ part # "castlog" => me = None
  /\ part # "push" => ~wanted /\ who = CHOOSE p \in People : TRUE

TapsGo == part = "taps" /\ Next /\ UNCHANGED <<part, history, castlog, push>>

\* A loss is paid for with an act of a person.
HistoryGoes ==
  /\ part = "history" /\ H!Next /\ did' + losses' <= MaxActs
  /\ UNCHANGED <<part, vars, castlog, push>>

CastLogGoes == part = "castlog" /\ C!Next /\ UNCHANGED <<part, vars, history, push>>
PushGoes    == part = "push" /\ P!Next /\ UNCHANGED <<part, vars, history, castlog>>

PartsNext == TapsGo \/ HistoryGoes \/ CastLogGoes \/ PushGoes

\* Each part under the fairness of its own module.
PartsSpec ==
  /\ PartsInit /\ [][PartsNext]_<<part, vars, history, castlog, push>>
  /\ \A t \in Taps :
       /\ WF_vars(part = "taps" /\ HandleCast(t))
       /\ WF_vars(part = "taps" /\ HandleCancel(t))
       /\ WF_vars(part = "taps" /\ Tick(t))
  /\ WF_history(part = "history" /\ H!ForgetAll)
  /\ \A u \in Urls :
       /\ WF_history(part = "history" /\ H!Dedupe(u))
       /\ WF_history(part = "history" /\ H!Insert(u))
  /\ \A d \in Devices :
       /\ WF_history(part = "history" /\ H!Ask(d))
       /\ WF_history(part = "history" /\ H!Answer(d))
       /\ WF_history(part = "history" /\ H!Merge(d))
       /\ \A u \in Urls : /\ WF_history(part = "history" /\ H!Forget(d, u))
                          /\ WF_history(part = "history" /\ H!Revive(d, u))
  /\ WF_castlog(part = "castlog" /\ C!TimerFires)
  /\ WF_castlog(part = "castlog" /\ C!LandAny)
  /\ WF_push(part = "push" /\ P!Boot)
  /\ \A i \in 1..Runs : WF_push(part = "push" /\ P!Step(i))

\* The types of every part (History, CastLog, Push, TapWork).
TypesOK == TypeOK /\ H!TypeOK /\ C!TypeOK /\ P!TypeOK

\* A delete made offline settles by itself (History: app.js forgetOnServer).
SettlesByItself == H!SettlesByItself

\* What the server lists, every device comes to show (History: refreshHistory).
RowsReachDevices == H!RowsReachDevices

\* No line of a cast's log is lost unnoticed (CastLog: app.js castLogKeep).
EveryLineAccounted == C!EveryLineAccounted

\* A log holds lines of its own film (CastLog: app.js castLogKeep).
LogIsOfItsFilm == C!LogIsOfItsFilm

\* A line a timer is set for goes up or is let go (CastLog: castLogFlush).
LineGoesUp == C!LineGoesUp

\* No row of a living endpoint is deleted but by its owner (Push: sendOne).
LiveRowKept == P!LiveRowKept

\* A switch that stays off leaves no subscription (Push: pushSync).
OffMeansOff == P!OffMeansOff

\* A switch that stays on leaves an endpoint that works (Push: pushSync).
OnReaches == P!OnReaches
=============================================================================
