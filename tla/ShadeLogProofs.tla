--------------------------- MODULE ShadeLogProofs ---------------------------
(***************************************************************************)
(* The properties of the taps' log, for any number of taps, pages, rows    *)
(* and outcomes.  What makes them hold is said of every copy of the list,  *)
(* the one in the cache and those that a handler has read and not yet put  *)
(* back: a copy is of some earlier moment, and stays true, because a tap   *)
(* that was traced stays traced and a report is never taken back.          *)
(***************************************************************************)
EXTENDS ShadeLog, TLAPS

\* What is true of every copy of the list: of the rows there are, none stands twice, each
\* is of a tap that was traced, with an outcome that was reported and a route that was taken.
TrueLines(list, traced, reports, takers) ==
  /\ list \in Seq(Rows) /\ Len(list) <= LogMax
  /\ \A i, j \in 1..Len(list) : list[i].id = list[j].id => i = j
  /\ \A i \in 1..Len(list) :
       /\ traced[list[i].id] = "done"
       /\ list[i].outcome # NoOutcome =>
            \E p \in Pages : reports[p][list[i].id] = list[i].outcome
       /\ list[i].route = "page" => takers[list[i].id] # {}

Lines(list) == TrueLines(list, tracing, said, took)

\* A page that reports has something to report.
ReportsSaySomething ==
  \A p \in Pages, t \in Taps : telling[p][t] # "idle" => said[p][t] # NoOutcome

\* The route that is about to be traced is the one that was taken.
RoutesWereTaken ==
  \A t \in Taps : tracing[t] \in {"page", "putPage"} => took[t] # {}

Copies ==
  /\ Lines(log)
  /\ \A t \in Taps : Lines(read[t])
  /\ \A p \in Pages, t \in Taps : Lines(heard[p][t])

Inv ==
  /\ TypeOK /\ ReportsSaySomething /\ RoutesWereTaken
  /\ Copies

-----------------------------------------------------------------------------
\* An empty list is a copy like any other.
LEMMA EmptyLines ==
  ASSUME NEW traced, NEW reports, NEW takers
  PROVE  TrueLines(<<>>, traced, reports, takers)
BY LogMaxAssumption DEF TrueLines

\* A copy of the list stays true through a step that takes back neither a trace nor a
\* report nor an acknowledgement.
Forward ==
  /\ \A t \in Taps : tracing[t] = "done" => tracing'[t] = "done"
  /\ \A t \in Taps : took[t] \subseteq took'[t]
  /\ \A p \in Pages, t \in Taps : said[p][t] # NoOutcome => said'[p][t] = said[p][t]

LEMMA LinesStay ==
  ASSUME Forward, NEW list, Lines(list)
  PROVE  TrueLines(list, tracing', said', took')
<1>1. \A i \in 1..Len(list) : list[i] \in Rows
  BY DEF Lines, TrueLines
<1>2. \A i \in 1..Len(list) : list[i].id \in Taps
  BY <1>1 DEF Rows
<1>3. \A i \in 1..Len(list) :
        list[i].outcome # NoOutcome => \E p \in Pages : said'[p][list[i].id] = list[i].outcome
  <2> SUFFICES ASSUME NEW i \in 1..Len(list), list[i].outcome # NoOutcome
               PROVE  \E p \in Pages : said'[p][list[i].id] = list[i].outcome
    OBVIOUS
  <2>1. PICK p \in Pages : said[p][list[i].id] = list[i].outcome
    BY DEF Lines, TrueLines
  <2>2. said'[p][list[i].id] = said[p][list[i].id]
    BY <2>1, <1>2 DEF Forward
  <2> QED BY <2>1, <2>2
<1>4. \A i \in 1..Len(list) : list[i].route = "page" => took'[list[i].id] # {}
  BY <1>2 DEF Lines, TrueLines, Forward
<1>5. \A i \in 1..Len(list) : tracing'[list[i].id] = "done"
  BY <1>2 DEF Lines, TrueLines, Forward
<1> QED BY <1>3, <1>4, <1>5 DEF Lines, TrueLines

\* Front puts the row first, and behind it the list, cut to LogMax rows.
LEMMA FrontIs ==
  ASSUME NEW row \in Rows, NEW list \in Seq(Rows), Len(list) <= LogMax
  PROVE  /\ Front(row, list) \in Seq(Rows)
         /\ Len(Front(row, list)) \in 1..LogMax
         /\ Front(row, list)[1] = row
         /\ \A i \in 2..Len(Front(row, list)) :
              i - 1 \in 1..Len(list) /\ Front(row, list)[i] = list[i - 1]
<1> DEFINE whole == <<row>> \o list
           n     == IF Len(list) < LogMax THEN Len(list) + 1 ELSE LogMax
<1>1. /\ whole \in Seq(Rows) /\ Len(whole) = Len(list) + 1 /\ whole[1] = row
      /\ \A i \in 2..Len(whole) : whole[i] = list[i - 1]
  OBVIOUS
<1>2. n \in 1..LogMax /\ n <= Len(whole)
  BY <1>1, LogMaxAssumption
<1>3. /\ SubSeq(whole, 1, n) \in Seq(Rows) /\ Len(SubSeq(whole, 1, n)) = n
      /\ \A i \in 1..n : SubSeq(whole, 1, n)[i] = whole[i]
  BY <1>1, <1>2
<1> HIDE DEF whole, n
<1>4. Front(row, list) = SubSeq(whole, 1, n)
  BY DEF Front, whole, n
<1> QED BY <1>1, <1>2, <1>3, <1>4

\* Answered keeps every row where it is, with its tap and its route; an outcome is
\* changed only on the row of the tap, and to the one that is given.
LEMMA AnsweredIs ==
  ASSUME NEW list \in Seq(Rows), NEW t \in Taps, NEW o \in Outcomes
  PROVE  /\ Answered(list, t, o) \in Seq(Rows)
         /\ Len(Answered(list, t, o)) = Len(list)
         /\ \A i \in 1..Len(list) :
              /\ Answered(list, t, o)[i].id = list[i].id
              /\ Answered(list, t, o)[i].route = list[i].route
              /\ Answered(list, t, o)[i].outcome =
                   IF list[i].id = t THEN o ELSE list[i].outcome
<1> DEFINE row(i) == IF list[i].id = t THEN [list[i] EXCEPT !.outcome = o] ELSE list[i]
<1>1. Answered(list, t, o) = [i \in 1..Len(list) |-> row(i)]
  BY DEF Answered
<1>2. \A i \in 1..Len(list) :
        /\ row(i) \in Rows /\ row(i).id = list[i].id /\ row(i).route = list[i].route
        /\ row(i).outcome = IF list[i].id = t THEN o ELSE list[i].outcome
  <2> SUFFICES ASSUME NEW i \in 1..Len(list)
               PROVE  /\ row(i) \in Rows /\ row(i).id = list[i].id
                      /\ row(i).route = list[i].route
                      /\ row(i).outcome = IF list[i].id = t THEN o ELSE list[i].outcome
    OBVIOUS
  <2>1. list[i] \in Rows
    OBVIOUS
  <2> QED BY <2>1 DEF Rows
<1> HIDE DEF row
<1> QED BY <1>1, <1>2

-----------------------------------------------------------------------------
LEMMA InitInv == Init => Inv
<1> SUFFICES ASSUME Init PROVE Inv
  OBVIOUS
<1>1. TypeOK
  BY LogMaxAssumption DEF Init, TypeOK
<1>2. ReportsSaySomething /\ RoutesWereTaken
  BY DEF Init, ReportsSaySomething, RoutesWereTaken
<1>3. Lines(log) /\ (\A t \in Taps : Lines(read[t])) /\ \A p \in Pages, t \in Taps : Lines(heard[p][t])
  BY EmptyLines DEF Init, Lines
<1> QED BY <1>1, <1>2, <1>3 DEF Inv, Copies

\* A step that moves no list leaves every copy true, if it takes nothing back.
LEMMA CopiesStay ==
  ASSUME Copies, Forward, UNCHANGED <<log, read, heard>>
  PROVE  Copies'
<1>1. \A list : Lines(list) => TrueLines(list, tracing', said', took')
  BY LinesStay
<1> QED BY <1>1 DEF Copies, Lines

-----------------------------------------------------------------------------
\* The steps that move no list: a tap is posted, is taken, or has its route decided.
LEMMA QuietSteps ==
  ASSUME Inv, NEW t \in Taps, Tap(t) \/ Route(t) \/ \E p \in Pages : Take(p, t)
  PROVE  Inv'
<1>1. CASE Tap(t)
  <2>1. TypeOK'
    BY <1>1 DEF Inv, TypeOK, Tap
  <2>2. Forward
    BY <1>1 DEF Inv, TypeOK, Tap, Forward
  <2>3. ReportsSaySomething' /\ RoutesWereTaken'
    BY <1>1 DEF Inv, TypeOK, Tap, ReportsSaySomething, RoutesWereTaken
  <2> QED BY <1>1, <2>1, <2>2, <2>3, CopiesStay DEF Inv, Tap
<1>2. CASE Route(t)
  <2>1. TypeOK'
    BY <1>2 DEF Inv, TypeOK, Route
  <2>2. Forward
    BY <1>2 DEF Inv, TypeOK, Route, Forward
  <2>3. ReportsSaySomething' /\ RoutesWereTaken'
    BY <1>2 DEF Inv, TypeOK, Route, ReportsSaySomething, RoutesWereTaken
  <2> QED BY <1>2, <2>1, <2>2, <2>3, CopiesStay DEF Inv, Route
<1>3. ASSUME NEW p \in Pages, Take(p, t) PROVE Inv'
  <2>1. TypeOK'
    BY <1>3 DEF Inv, TypeOK, Take
  <2>2. Forward
    BY <1>3 DEF Inv, TypeOK, Take, Forward
  <2>3. ReportsSaySomething' /\ RoutesWereTaken'
    BY <1>3 DEF Inv, TypeOK, Take, ReportsSaySomething, RoutesWereTaken
  <2> QED BY <1>3, <2>1, <2>2, <2>3, CopiesStay DEF Inv, Take
<1> QED BY <1>1, <1>2, <1>3

\* A report is made once: it takes back nothing that was said.
LEMMA ReportStep ==
  ASSUME Inv, NEW p \in Pages, NEW t \in Taps, Report(p, t)
  PROVE  Inv'
<1>1. PICK o \in Outcomes : said' = [said EXCEPT ![p][t] = o]
  BY DEF Report
<1>2. TypeOK'
  BY <1>1 DEF Inv, TypeOK, Report
<1>3. Forward
  BY <1>1 DEF Inv, TypeOK, Report, Forward
<1>4. ReportsSaySomething'
  BY <1>1, NoOutcomeAssumption DEF Inv, TypeOK, Report, ReportsSaySomething
<1>5. RoutesWereTaken'
  BY DEF Inv, Report, RoutesWereTaken
<1> QED BY <1>2, <1>3, <1>4, <1>5, CopiesStay DEF Inv, Report

\* trace() reads the list: one more copy of it.
LEMMA TraceReadStep ==
  ASSUME Inv, NEW t \in Taps, TraceRead(t)
  PROVE  Inv'
<1>1. TypeOK'
  BY DEF Inv, TypeOK, TraceRead
<1>2. Forward
  BY DEF Inv, TypeOK, TraceRead, Forward
<1>3. ReportsSaySomething' /\ RoutesWereTaken'
  BY DEF Inv, TypeOK, TraceRead, ReportsSaySomething, RoutesWereTaken
<1>4. \A list : Lines(list) => TrueLines(list, tracing', said', took')
  BY <1>2, LinesStay
<1>5. \A u \in Taps : read'[u] = read[u] \/ read'[u] = log
  BY DEF Inv, TypeOK, TraceRead
<1>6. Copies'
  BY <1>4, <1>5 DEF Inv, Copies, Lines, TraceRead
<1> QED BY <1>1, <1>3, <1>6 DEF Inv

\* traceResult() reads the list, if it has a line to answer on.
LEMMA ResultReadStep ==
  ASSUME Inv, NEW p \in Pages, NEW t \in Taps, ResultRead(p, t)
  PROVE  Inv'
<1>1. telling[p][t] = "posted" /\ UNCHANGED <<log, took, tracing, read, said>>
  BY DEF ResultRead
<1>2. Forward /\ RoutesWereTaken'
  BY <1>1 DEF Inv, Forward, RoutesWereTaken
<1>3. \A list : Lines(list) => TrueLines(list, tracing', said', took')
  BY <1>2, LinesStay
<1>4. CASE Answerable(log, t)
  <2>1. /\ telling' = [telling EXCEPT ![p][t] = "put"]
        /\ heard' = [heard EXCEPT ![p][t] = log]
    BY <1>4 DEF ResultRead
  <2>2. TypeOK'
    BY <1>1, <2>1 DEF Inv, TypeOK
  <2>3. ReportsSaySomething'
    BY <1>1, <2>1 DEF Inv, TypeOK, ReportsSaySomething
  <2>4. \A q \in Pages, u \in Taps : heard'[q][u] = heard[q][u] \/ heard'[q][u] = log
    BY <2>1 DEF Inv, TypeOK
  <2>5. Copies'
    BY <1>1, <1>3, <2>4 DEF Inv, Copies, Lines
  <2> QED BY <1>2, <2>2, <2>3, <2>5 DEF Inv
<1>5. CASE ~ Answerable(log, t)
  <2>1. telling' = [telling EXCEPT ![p][t] = "done"] /\ heard' = heard
    BY <1>5 DEF ResultRead
  <2>2. TypeOK'
    BY <1>1, <2>1 DEF Inv, TypeOK
  <2>3. ReportsSaySomething'
    BY <1>1, <2>1 DEF Inv, TypeOK, ReportsSaySomething
  <2>4. Copies'
    BY <1>1, <1>2, <2>1, CopiesStay DEF Inv
  <2> QED BY <1>2, <2>2, <2>3, <2>4 DEF Inv
<1> QED BY <1>4, <1>5

\* The cache goes, and the list with it.
LEMMA ActivateStep ==
  ASSUME Inv, Activate
  PROVE  Inv'
<1>1. TypeOK'
  BY LogMaxAssumption DEF Inv, TypeOK, Activate
<1>2. ReportsSaySomething' /\ RoutesWereTaken'
  BY DEF Inv, Activate, ReportsSaySomething, RoutesWereTaken
<1>3. Copies'
  BY EmptyLines DEF Inv, Copies, Lines, Activate
<1> QED BY <1>1, <1>2, <1>3 DEF Inv

-----------------------------------------------------------------------------
\* trace() puts its copy back with a new row in front: the row's tap was not traced
\* before, so no row of the copy is of that tap.
LEMMA TracePutStep ==
  ASSUME Inv, NEW t \in Taps, TracePut(t)
  PROVE  Inv'
<1> DEFINE old == read[t]
           new == Front(Row(t), old)
<1>1. old \in Seq(Rows) /\ Len(old) <= LogMax /\ Lines(old)
  BY DEF Inv, Copies, Lines, TrueLines
<1>2. Row(t) \in Rows /\ Row(t).id = t /\ Row(t).outcome = NoOutcome
  BY DEF Row, Rows
<1>3. /\ new \in Seq(Rows) /\ Len(new) \in 1..LogMax /\ new[1] = Row(t)
      /\ \A i \in 2..Len(new) : i - 1 \in 1..Len(old) /\ new[i] = old[i - 1]
  BY <1>1, <1>2, FrontIs
<1>4. /\ log' = new /\ tracing' = [tracing EXCEPT ![t] = "done"]
      /\ tracing[t] \in {"putPage", "putWoken", "putUnwoken"}
      /\ read' = [read EXCEPT ![t] = <<>>]
      /\ UNCHANGED <<took, said, telling, heard>>
  BY DEF TracePut
<1>5. Forward
  BY <1>4 DEF Inv, TypeOK, Forward
<1>6. \A list : Lines(list) => TrueLines(list, tracing', said', took')
  BY <1>5, LinesStay
<1>7. TrueLines(old, tracing', said', took')
  BY <1>1, <1>6
<1>8. tracing'[t] = "done" /\ (Row(t).route = "page" => took'[t] # {})
  BY <1>4 DEF Inv, TypeOK, RoutesWereTaken, Row
<1>9. \A k \in 1..Len(old) : old[k].id # t
  BY <1>1, <1>4 DEF Lines, TrueLines
<1>10. TypeOK'
  <2>1. new \in Seq(Rows) /\ Len(new) <= LogMax
    BY <1>3, LogMaxAssumption
  <2> HIDE DEF new, old
  <2> QED BY <2>1, <1>4 DEF Inv, TypeOK
<1>11. ReportsSaySomething' /\ RoutesWereTaken'
  BY <1>4 DEF Inv, TypeOK, ReportsSaySomething, RoutesWereTaken
<1>12. TrueLines(new, tracing', said', took')
  <2> HIDE DEF new, old
  <2>1. \A i \in 1..Len(new) : i = 1 \/ i \in 2..Len(new)
    BY <1>3, LogMaxAssumption
  <2>2. \A i, j \in 1..Len(new) : new[i].id = new[j].id => i = j
    <3> SUFFICES ASSUME NEW i \in 1..Len(new), NEW j \in 1..Len(new), new[i].id = new[j].id
                 PROVE  i = j
      OBVIOUS
    <3>1. CASE i = 1
      BY <3>1, <2>1, <1>2, <1>3, <1>9
    <3>2. CASE j = 1
      BY <3>2, <2>1, <1>2, <1>3, <1>9
    <3>3. CASE i # 1 /\ j # 1
      <4>1. i \in 2..Len(new) /\ j \in 2..Len(new)
        BY <3>3, <2>1
      <4>2. i - 1 \in 1..Len(old) /\ j - 1 \in 1..Len(old) /\ old[i - 1].id = old[j - 1].id
        BY <4>1, <1>3
      <4>3. i - 1 = j - 1
        BY <4>2, <1>7 DEF TrueLines
      <4> QED BY <4>3
    <3> QED BY <3>1, <3>2, <3>3
  <2>3. ASSUME NEW i \in 1..Len(new)
        PROVE  /\ tracing'[new[i].id] = "done"
               /\ new[i].outcome # NoOutcome =>
                    \E p \in Pages : said'[p][new[i].id] = new[i].outcome
               /\ new[i].route = "page" => took'[new[i].id] # {}
    <3>1. CASE i = 1
      BY <3>1, <1>2, <1>3, <1>8
    <3>2. CASE i \in 2..Len(new)
      <4>1. i - 1 \in 1..Len(old) /\ new[i] = old[i - 1]
        BY <3>2, <1>3
      <4>2. \A k \in 1..Len(old) :
              /\ tracing'[old[k].id] = "done"
              /\ old[k].outcome # NoOutcome =>
                   \E p \in Pages : said'[p][old[k].id] = old[k].outcome
              /\ old[k].route = "page" => took'[old[k].id] # {}
        BY <1>7 DEF TrueLines
      <4> QED BY <4>1, <4>2
    <3> QED BY <2>1, <3>1, <3>2
  <2>4. new \in Seq(Rows) /\ Len(new) <= LogMax
    BY <1>3, LogMaxAssumption
  <2> QED BY <2>2, <2>3, <2>4 DEF TrueLines
<1>13. Copies'
  <2>1. \A u \in Taps : read'[u] = read[u] \/ read'[u] = <<>>
    BY <1>4 DEF Inv, TypeOK
  <2> HIDE DEF new, old
  <2> QED BY <2>1, <1>4, <1>6, <1>12, EmptyLines DEF Inv, Copies, Lines
<1> QED BY <1>10, <1>11, <1>13 DEF Inv

\* traceResult() puts its copy back with the answer on the line of the tap it is for.
LEMMA ResultPutStep ==
  ASSUME Inv, NEW p \in Pages, NEW t \in Taps, ResultPut(p, t)
  PROVE  Inv'
<1> DEFINE old == heard[p][t]
           o   == said[p][t]
           new == Answered(old, t, o)
<1>1. old \in Seq(Rows) /\ Len(old) <= LogMax /\ Lines(old)
  BY DEF Inv, Copies, Lines, TrueLines
<1>2. o \in Outcomes
  BY DEF Inv, TypeOK, ReportsSaySomething, ResultPut
<1>3. /\ new \in Seq(Rows) /\ Len(new) = Len(old)
      /\ \A i \in 1..Len(old) :
           /\ new[i].id = old[i].id /\ new[i].route = old[i].route
           /\ new[i].outcome = IF old[i].id = t THEN o ELSE old[i].outcome
  BY <1>1, <1>2, AnsweredIs
<1>4. /\ log' = new
      /\ heard' = [heard EXCEPT ![p][t] = <<>>]
      /\ telling' = [telling EXCEPT ![p][t] = "done"] /\ telling[p][t] = "put"
      /\ UNCHANGED <<took, tracing, read, said>>
  BY DEF ResultPut
<1>5. TypeOK'
  <2> HIDE DEF new, old, o
  <2> QED BY <1>1, <1>3, <1>4 DEF Inv, TypeOK
<1>6. ReportsSaySomething' /\ RoutesWereTaken'
  BY <1>4 DEF Inv, TypeOK, ReportsSaySomething, RoutesWereTaken
<1>7. Lines(new)
  <2> SUFFICES ASSUME NEW i \in 1..Len(new)
               PROVE  /\ tracing[new[i].id] = "done"
                      /\ new[i].outcome # NoOutcome =>
                           \E q \in Pages : said[q][new[i].id] = new[i].outcome
                      /\ new[i].route = "page" => took[new[i].id] # {}
                      /\ \A j \in 1..Len(new) : new[i].id = new[j].id => i = j
    BY <1>1, <1>3 DEF Lines, TrueLines
  <2>1. i \in 1..Len(old)
    BY <1>3
  <2>2. /\ tracing[old[i].id] = "done"
        /\ old[i].outcome # NoOutcome => \E q \in Pages : said[q][old[i].id] = old[i].outcome
        /\ old[i].route = "page" => took[old[i].id] # {}
        /\ \A j \in 1..Len(old) : old[i].id = old[j].id => i = j
    BY <1>1, <2>1 DEF Lines, TrueLines
  <2>3. said[p][t] = o
    OBVIOUS
  <2> HIDE DEF new, old, o
  <2> QED BY <1>3, <2>1, <2>2, <2>3
<1>8. Copies'
  <2>1. \A q \in Pages, u \in Taps : heard'[q][u] = heard[q][u] \/ heard'[q][u] = <<>>
    BY <1>4 DEF Inv, TypeOK
  <2> HIDE DEF new, old, o
  <2> QED BY <2>1, <1>4, <1>7, EmptyLines DEF Inv, Copies, Lines
<1> QED BY <1>5, <1>6, <1>8 DEF Inv

-----------------------------------------------------------------------------
LEMMA StepInv == Inv /\ [Next]_vars => Inv'
<1> SUFFICES ASSUME Inv, [Next]_vars PROVE Inv'
  OBVIOUS
<1>1. CASE \E t \in Taps : Tap(t) \/ Route(t) \/ \E p \in Pages : Take(p, t)
  BY <1>1, QuietSteps
<1>2. CASE \E t \in Taps : TraceRead(t)
  BY <1>2, TraceReadStep
<1>3. CASE \E t \in Taps : TracePut(t)
  BY <1>3, TracePutStep
<1>4. CASE \E p \in Pages, t \in Taps : Report(p, t)
  BY <1>4, ReportStep
<1>5. CASE \E p \in Pages, t \in Taps : ResultRead(p, t)
  BY <1>5, ResultReadStep
<1>6. CASE \E p \in Pages, t \in Taps : ResultPut(p, t)
  BY <1>6, ResultPutStep
<1>7. CASE Activate
  BY <1>7, ActivateStep
<1>8. CASE UNCHANGED vars
  BY <1>8 DEF vars, Inv, TypeOK, ReportsSaySomething, RoutesWereTaken, Copies, Lines
<1> QED BY <1>1, <1>2, <1>3, <1>4, <1>5, <1>6, <1>7, <1>8 DEF Next

\* The inductive invariant: the list in the cache, and every copy that a handler of
\* src/sw.js has read and not yet put back, has one true line per tap.
THEOREM Invariance == Spec => []Inv
BY InitInv, StepInv, PTL DEF Spec

\* The variables keep their types, and the log never outgrows LogMax rows, whatever the
\* interleaving of trace() and traceResult().
THEOREM TypeCorrect == Spec => []TypeOK
<1>1. Inv => TypeOK
  BY DEF Inv
<1> QED BY <1>1, Invariance, PTL

\* One tap is one line of the log, however trace() and traceResult() overwrite each
\* other's lists.
THEOREM OneLineEach == Spec => []OneLinePerTap
<1>1. Inv => OneLinePerTap
  BY DEF Inv, Copies, Lines, TrueLines, OneLinePerTap
<1> QED BY <1>1, Invariance, PTL

\* The outcome on a line of the log was reported by some page for that very tap.
THEOREM AnswersBelong == Spec => []AnswerBelongsToTap
<1>1. Inv => AnswerBelongsToTap
  BY DEF Inv, Copies, Lines, TrueLines, AnswerBelongsToTap
<1> QED BY <1>1, Invariance, PTL

\* A line that says a page had the tap stands only for a tap that a page took.
THEOREM RoutesAreTrue == Spec => []RouteIsTrue
<1>1. Inv => RouteIsTrue
  BY DEF Inv, Copies, Lines, TrueLines, RouteIsTrue
<1> QED BY <1>1, Invariance, PTL
=============================================================================
