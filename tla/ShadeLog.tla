------------------------------ MODULE ShadeLog ------------------------------
(***************************************************************************)
(* The log of the last taps in the notification shade: src/sw.js trace and *)
(* traceResult, which read the list out of the cache, change it and put it *)
(* back, each with awaits in between; and the page that reports what it    *)
(* did with a tap (src/assets/js/app.js notify.result).                    *)
(*                                                                         *)
(* The courier is reduced to what the log sees of it: a tap is taken by    *)
(* some pages, deliverAction decides its route, and each page that took it *)
(* reports once, at any time after.  Bounds: Taps taps, Pages pages and    *)
(* LogMax rows (12 in the code).                                           *)
(***************************************************************************)
EXTENDS Integers, Sequences, FiniteSets

CONSTANTS Taps, Pages, LogMax,
          Outcomes,    \* performed, no-session, refused, nothing-to-do
          NoOutcome    \* a row that no page has answered yet

ASSUME LogMaxAssumption == LogMax \in Nat \ {0}
ASSUME NoOutcomeAssumption == NoOutcome \notin Outcomes

Rows == [id : Taps, route : {"page", "written-down"}, woke : BOOLEAN,
         outcome : Outcomes \cup {NoOutcome}]

VARIABLES
  log,       \* the list in the cache, newest first
  took,      \* took[t]: pages that have acknowledged t
  tracing,   \* tracing[t]: how far deliverAction and its trace() have got
  read,      \* read[t]: the list trace() has read for t
  said,      \* said[p][t]: the outcome p has reported for t, or NoOutcome
  telling,   \* telling[p][t]: how far traceResult has got with that report
  heard      \* heard[p][t]: the list traceResult has read for that report

vars == <<log, took, tracing, read, said, telling, heard>>

Init ==
  /\ log = <<>>
  /\ took = [t \in Taps |-> {}]
  /\ tracing = [t \in Taps |-> "idle"]
  /\ read = [t \in Taps |-> <<>>]
  /\ said = [p \in Pages |-> [t \in Taps |-> NoOutcome]]
  /\ telling = [p \in Pages |-> [t \in Taps |-> "idle"]]
  /\ heard = [p \in Pages |-> [t \in Taps |-> <<>>]]

\* The button is tapped and the tap posted.
Tap(t) ==
  /\ tracing[t] = "idle"
  /\ tracing' = [tracing EXCEPT ![t] = "asking"]
  /\ UNCHANGED <<log, took, read, said, telling, heard>>

\* A page takes it: at once, or later out of its queue or the written-down slot.
Take(p, t) ==
  /\ tracing[t] # "idle" /\ p \notin took[t]
  /\ took' = [took EXCEPT ![t] = @ \cup {p}]
  /\ UNCHANGED <<log, tracing, read, said, telling, heard>>

\* Bug to catch: a window that exists is taken for a page that listens.
RouteAnyWindow(t) ==
  /\ tracing[t] = "asking"
  /\ tracing' = [tracing EXCEPT ![t] = "page"]
  /\ UNCHANGED <<log, took, read, said, telling, heard>>

\* deliverAction has its answer, or has written the tap down and tried to
\* wake the app.
Route(t) ==
  /\ tracing[t] = "asking"
  /\ \/ took[t] # {} /\ tracing' = [tracing EXCEPT ![t] = "page"]
     \/ took[t] = {} /\ \E woke \in {"woken", "unwoken"} :
                           tracing' = [tracing EXCEPT ![t] = woke]
  /\ UNCHANGED <<log, took, read, said, telling, heard>>

\* trace(): the list is read ...
TraceRead(t) ==
  /\ tracing[t] \in {"page", "woken", "unwoken"}
  /\ read' = [read EXCEPT ![t] = log]
  /\ tracing' = [tracing EXCEPT ![t] = CASE @ = "page"  -> "putPage"
                                         [] @ = "woken" -> "putWoken"
                                         [] OTHER       -> "putUnwoken"]
  /\ UNCHANGED <<log, took, said, telling, heard>>

\* ... and put back, with this tap's row in front and the oldest cut off.
Row(t) == [id |-> t,
           route |-> IF tracing[t] = "putPage" THEN "page" ELSE "written-down",
           woke |-> tracing[t] = "putWoken",
           outcome |-> NoOutcome]

\* Bug to catch: the list is never cut.
FrontUncut(row, list) == <<row>> \o list

Front(row, list) ==
  SubSeq(<<row>> \o list, 1, IF Len(list) < LogMax THEN Len(list) + 1 ELSE LogMax)

TracePut(t) ==
  /\ tracing[t] \in {"putPage", "putWoken", "putUnwoken"}
  /\ log' = Front(Row(t), read[t])
  /\ tracing' = [tracing EXCEPT ![t] = "done"]
  /\ read' = [read EXCEPT ![t] = <<>>]
  /\ UNCHANGED <<took, said, telling, heard>>

\* A page that took the tap reports what came of it.
Report(p, t) ==
  /\ p \in took[t] /\ said[p][t] = NoOutcome
  /\ \E o \in Outcomes : said' = [said EXCEPT ![p][t] = o]
  /\ telling' = [telling EXCEPT ![p][t] = "posted"]
  /\ UNCHANGED <<log, took, tracing, read, heard>>

\* traceResult(): a row of that id without an outcome is looked for ...
Answerable(list, t) == \E i \in 1..Len(list) : list[i].id = t /\ list[i].outcome = NoOutcome

ResultRead(p, t) ==
  /\ telling[p][t] = "posted"
  /\ IF Answerable(log, t)
     THEN /\ telling' = [telling EXCEPT ![p][t] = "put"]
          /\ heard' = [heard EXCEPT ![p][t] = log]
     ELSE telling' = [telling EXCEPT ![p][t] = "done"] /\ UNCHANGED heard
  /\ UNCHANGED <<log, took, tracing, read, said>>

\* Bug to catch: the answer goes to the newest row, whichever tap that is.
AnsweredFirst(list, t, o) == [list EXCEPT ![1].outcome = o]

\* Bug to catch: an answer is a row of its own.
AnsweredAppended(list, t, o) ==
  <<[id |-> t, route |-> "page", woke |-> FALSE, outcome |-> o]>> \o list

\* ... and the list is put back with the outcome on it.
Answered(list, t, o) ==
  [i \in 1..Len(list) |-> IF list[i].id = t THEN [list[i] EXCEPT !.outcome = o] ELSE list[i]]

ResultPut(p, t) ==
  /\ telling[p][t] = "put"
  /\ log' = Answered(heard[p][t], t, said[p][t])
  /\ telling' = [telling EXCEPT ![p][t] = "done"]
  /\ heard' = [heard EXCEPT ![p][t] = <<>>]
  /\ UNCHANGED <<took, tracing, read, said>>

\* A new build deletes the old cache, the log with it.  The browser waits for
\* both writers: waitUntil holds them open.
Idle == /\ \A t \in Taps : tracing[t] \in {"idle", "done"}
        /\ \A p \in Pages, t \in Taps : telling[p][t] \in {"idle", "done"}

Activate ==
  /\ Idle /\ log # <<>>
  /\ log' = <<>>
  /\ UNCHANGED <<took, tracing, read, said, telling, heard>>

Next ==
  \/ \E t \in Taps : Tap(t) \/ Route(t) \/ TraceRead(t) \/ TracePut(t)
  \/ \E p \in Pages, t \in Taps :
       Take(p, t) \/ Report(p, t) \/ ResultRead(p, t) \/ ResultPut(p, t)
  \/ Activate

Spec == Init /\ [][Next]_vars

\* The types of the variables; the list never outgrows LogMax rows.
TypeOK ==
  /\ log \in Seq(Rows) /\ Len(log) <= LogMax
  /\ took \in [Taps -> SUBSET Pages]
  /\ tracing \in [Taps -> {"idle", "asking", "page", "woken", "unwoken",
                           "putPage", "putWoken", "putUnwoken", "done"}]
  /\ read \in [Taps -> Seq(Rows)]
  /\ said \in [Pages -> [Taps -> Outcomes \cup {NoOutcome}]]
  /\ telling \in [Pages -> [Taps -> {"idle", "posted", "put", "done"}]]
  /\ heard \in [Pages -> [Taps -> Seq(Rows)]]

\* One tap is one line, however many roads it travelled down and however many
\* pages answered for it (sw.js traceResult).
OneLinePerTap ==
  \A i, j \in 1..Len(log) : log[i].id = log[j].id => i = j

\* The outcome on a line was reported for that tap: a second tap never takes
\* the answer meant for the first (app.js onAction).
AnswerBelongsToTap ==
  \A i \in 1..Len(log) :
    log[i].outcome # NoOutcome => \E p \in Pages : said[p][log[i].id] = log[i].outcome

\* A line that says a page had the tap is never written for a tap no page took.
RouteIsTrue ==
  \A i \in 1..Len(log) : log[i].route = "page" => took[log[i].id] # {}

\* Claimed by sw.js traceResult: the page reports on a tap the worker had
\* already logged.  Once everything is written, a line whose tap was answered
\* carries the answer.
OutcomeLogged ==
  Idle => \A i \in 1..Len(log) :
    (\E p \in Pages : said[p][log[i].id] # NoOutcome) => log[i].outcome # NoOutcome

\* Claimed by sw.js traceResult: the first answer wins.
FirstAnswerWins ==
  [][\A i \in 1..Len(log), j \in 1..Len(log') :
       log[i].id = log'[j].id /\ log[i].outcome # NoOutcome
         => log'[j].outcome = log[i].outcome]_vars

\* Claimed by sw.js: each tap writes down the road it took.  A line leaves the
\* log only when LogMax newer ones are there, or with the whole cache.
LineKept ==
  [][\A i \in 1..Len(log) :
       \/ \E j \in 1..Len(log') : log'[j].id = log[i].id
       \/ log' = <<>> \/ i = LogMax]_vars
=============================================================================
