------------------------------ MODULE Watchdog ------------------------------
(***************************************************************************)
(* The watchdog outside the VPS (src/scripts/watch-stream.mjs): a job that *)
(* runs every ten minutes, one run at a time, and remembers nothing but    *)
(* the GitHub issues it left open.  It complains over WhatsApp, whose      *)
(* bridge lives on the box being watched, and in an issue.                 *)
(***************************************************************************)
EXTENDS Naturals, Sequences

CONSTANTS
  Faults,    \* what may be wrong: unreachable, stale, ...
  MaxTurns   \* bound: changes of the host and of the bridge, and closings by hand

VARIABLES
  host,      \* ok, or the fault a probe finds
  bridge,    \* whether WhatsApp's bridge answers
  issues,    \* the open complaints, oldest first: whether each was told over WhatsApp
  run,       \* the run: where it is, its verdict, the complaints it read, what it told
  heard,     \* the last message on the person's phone
  turns

vars == <<host, bridge, issues, run, heard, turns>>

Idle == [at |-> "idle", kind |-> "ok", left |-> 0, told |-> FALSE]

\* The types; and one complaint is open at a time.
TypeOK ==
  /\ host \in Faults \cup {"ok"} /\ bridge \in BOOLEAN
  /\ issues \in Seq([told : BOOLEAN]) /\ Len(issues) <= 1
  /\ run.at \in {"idle", "second", "list", "back", "close", "late", "mark", "alert", "file"}
  /\ run.kind \in Faults \cup {"ok"} /\ heard \in Faults \cup {"nothing", "back"}
  /\ turns \in 0..MaxTurns

Init ==
  /\ host = "ok" /\ bridge = TRUE /\ issues = <<>> /\ run = Idle
  /\ heard = "nothing" /\ turns = 0

-----------------------------------------------------------------------------
\* One bad probe is a restart: look again before believing it.
Probe ==
  /\ run.at = "idle"
  /\ run' = [Idle EXCEPT !.at = IF host = "ok" THEN "list" ELSE "second"]
  /\ UNCHANGED <<host, bridge, issues, heard, turns>>

SecondLook ==
  /\ run.at = "second" /\ run' = [run EXCEPT !.at = "list", !.kind = host]
  /\ UNCHANGED <<host, bridge, issues, heard, turns>>

\* GitHub refuses, or the job runs out of its five minutes: the run is over.
Throws ==
  /\ run.at \in {"list", "close", "mark", "file"} /\ run' = Idle
  /\ UNCHANGED <<host, bridge, issues, heard, turns>>

\* A mutant's decision, in which an open complaint is silence.
ListSilent ==
  /\ run.at = "list"
  /\ run' = IF run.kind = "ok" /\ issues = <<>> THEN Idle
            ELSE IF run.kind = "ok" THEN [run EXCEPT !.at = "back", !.left = Len(issues)]
            ELSE IF issues = <<>> THEN [run EXCEPT !.at = "alert"]
            ELSE Idle
  /\ UNCHANGED <<host, bridge, issues, heard, turns>>

\* A mutant's decision, which complains at every run.
ListLoud ==
  /\ run.at = "list"
  /\ run' = IF run.kind # "ok" THEN [run EXCEPT !.at = "alert"]
            ELSE IF issues = <<>> THEN Idle ELSE [run EXCEPT !.at = "back", !.left = Len(issues)]
  /\ UNCHANGED <<host, bridge, issues, heard, turns>>

\* The open complaints are the memory: well and nothing outstanding, or complaining
\* and told, is silence.
List ==
  /\ run.at = "list"
  /\ run' = IF run.kind = "ok"
            THEN IF issues = <<>> THEN Idle ELSE [run EXCEPT !.at = "back", !.left = Len(issues)]
            ELSE IF issues = <<>> THEN [run EXCEPT !.at = "alert"]
            ELSE IF Head(issues).told THEN Idle ELSE [run EXCEPT !.at = "late"]
  /\ UNCHANGED <<host, bridge, issues, heard, turns>>

\* A message; its answer may be lost although it arrived.
WhatsApp(text, sent) == heard' = (IF bridge THEN text ELSE heard) /\ (sent => bridge)

\* One message however many complaints, then each is closed.
SayBack ==
  /\ run.at = "back" /\ \E sent \in BOOLEAN : WhatsApp("back", sent)
  /\ run' = [run EXCEPT !.at = "close"]
  /\ UNCHANGED <<host, bridge, issues, turns>>

CloseOne ==
  /\ run.at = "close"
  /\ issues' = IF issues = <<>> THEN issues ELSE Tail(issues)
  /\ run' = IF run.left <= 1 THEN Idle ELSE [run EXCEPT !.left = @ - 1]
  /\ UNCHANGED <<host, bridge, heard, turns>>

\* The first alert could not be told: it is told late, and that it was is written down.
TellLate ==
  /\ run.at = "late"
  /\ \E sent \in BOOLEAN : /\ WhatsApp(run.kind, sent)
                           /\ run' = IF sent THEN [run EXCEPT !.at = "mark"] ELSE Idle
  /\ UNCHANGED <<host, bridge, issues, turns>>

MarkTold ==
  /\ run.at = "mark" /\ run' = Idle
  /\ issues' = IF issues = <<>> THEN issues ELSE [issues EXCEPT ![1].told = TRUE]
  /\ UNCHANGED <<host, bridge, heard, turns>>

Alert ==
  /\ run.at = "alert"
  /\ \E sent \in BOOLEAN : WhatsApp(run.kind, sent) /\ run' = [run EXCEPT !.at = "file", !.told = sent]
  /\ UNCHANGED <<host, bridge, issues, turns>>

File ==
  /\ run.at = "file" /\ run' = Idle /\ issues' = Append(issues, [told |-> run.told])
  /\ UNCHANGED <<host, bridge, heard, turns>>

-----------------------------------------------------------------------------
\* The box breaks and is mended, its bridge with it or not; a complaint is closed by hand.
World ==
  /\ turns < MaxTurns /\ turns' = turns + 1
  /\ \/ host' \in (Faults \cup {"ok"}) \ {host} /\ UNCHANGED <<bridge, issues>>
     \/ bridge' = ~bridge /\ UNCHANGED <<host, issues>>
     \/ issues # <<>> /\ issues' = Tail(issues) /\ UNCHANGED <<host, bridge>>
  /\ UNCHANGED <<run, heard>>

RunStep == Probe \/ SecondLook \/ List \/ SayBack \/ CloseOne \/ TellLate \/ MarkTold \/ Alert \/ File
Next == RunStep \/ Throws \/ World

\* GitHub starts the job again and again; a request made for ever is answered once,
\* and so is a message to a bridge that is there.
Spec ==
  /\ Init /\ [][Next]_vars /\ WF_vars(RunStep)
  /\ SF_vars(List) /\ SF_vars(CloseOne) /\ SF_vars(MarkTold) /\ SF_vars(File)
  /\ SF_vars(TellLate /\ run'.at = "mark")

-----------------------------------------------------------------------------
\* A fault that lasts ends up as a complaint that was told over WhatsApp, though the
\* bridge was down when the fault began; a host that stays well ends up with none.
ComplaintsSettle ==
  /\ <>[](host # "ok" /\ bridge) => <>[](issues # <<>> /\ Head(issues).told)
  /\ <>[](host = "ok") => <>[](issues = <<>>)

\* The last message on the phone comes to be that of the fault that lasts.  The code
\* says "back" before it closes the complaint, and an open one makes it silent.
LastWordIsTheFault == <>[](host # "ok" /\ bridge) => <>[](heard \in Faults)

\* A fault that became another one is told as that one.
FaultIsNamed == <>[](host = "unreachable" /\ bridge) => <>[](heard = "unreachable")
=============================================================================
