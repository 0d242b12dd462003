------------------------------ MODULE Courier ------------------------------
(***************************************************************************)
(* What src/sw.js and the notify module of src/assets/js/app.js promise    *)
(* together about a tap in the notification shade, without saying how:     *)
(* a page runs a tap only if it was made, runs it at most once, and a tap  *)
(* of which no copy is left anywhere never comes back.  ShadeTap is the    *)
(* protocol that implements this.                                          *)
(***************************************************************************)
CONSTANTS Taps, Pages

VARIABLES
  sent,   \* taps made so far
  ran,    \* ran[p][t]: how often page p has run its listeners for tap t
  gone    \* taps of which no copy is left

vars == <<sent, ran, gone>>

Init == sent = {} /\ ran = [p \in Pages |-> [t \in Taps |-> 0]] /\ gone = {}

\* A tap is made.
Send(t) ==
  /\ t \notin sent
  /\ sent' = sent \cup {t}
  /\ UNCHANGED <<ran, gone>>

\* A page runs it: its copy is used up and may have been the last one.
Run(p, t) ==
  /\ t \in sent \ gone
  /\ ran[p][t] = 0
  /\ ran' = [ran EXCEPT ![p][t] = 1]
  /\ gone' \in {gone, gone \cup {t}}
  /\ UNCHANGED sent

\* The last copies of some taps are destroyed or used up.
Lose ==
  /\ gone' \in SUBSET sent
  /\ gone \subseteq gone'
  /\ UNCHANGED <<sent, ran>>

Next == (\E t \in Taps : Send(t)) \/ (\E p \in Pages, t \in Taps : Run(p, t)) \/ Lose

Spec == Init /\ [][Next]_vars
=============================================================================
