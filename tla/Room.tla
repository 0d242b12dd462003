-------------------------------- MODULE Room --------------------------------
(***************************************************************************)
(* What TV mode promises of a room, without saying how it keeps it: a list *)
(* of commands that only a paired phone lengthens, a box that always holds *)
(* its end, and a television that has come some way along the list and     *)
(* shows what the commands up to there come to.  No request, no poll and   *)
(* no seq is seen here; TvRoom is the protocol that implements it.         *)
(*                                                                         *)
(* Two flags say how far the promise holds: the row is `whole` until an    *)
(* unpair has written over a command, and the television is `followed`     *)
(* until that, or until a load has left the box before it was seen.        *)
(***************************************************************************)
EXTENDS Integers, Sequences

CONSTANTS Keys, NoKey, Kinds, BoxMax

Nothing == 0

VARIABLES
  phone,     \* the key of the phone that is the remote, or NoKey
  taken,     \* the commands the room took, in order
  box,       \* the ones that still lie in it
  upto,      \* how many of them the television stands at
  on,        \* the place of the load that is on, or Nothing
  whole,     \* no command was written over
  followed   \* ... and the television missed none that matters

vars == <<phone, taken, box, upto, on, whole, followed>>

Init ==
  /\ phone = NoKey /\ taken = <<>> /\ box = <<>>
  /\ upto = 0 /\ on = Nothing
  /\ whole = TRUE /\ followed = TRUE

\* The end of a list that the box has room for.
End(list) == SubSeq(list, IF Len(list) > BoxMax THEN Len(list) - BoxMax + 1 ELSE 1, Len(list))

\* Film f is on after the first n commands: it was loaded there and nothing after it
\* said otherwise; nothing is on if every load was followed by a stop or a page.
Shows(list, n, f) ==
  \/ /\ f \in 1..n /\ list[f].kind = "load"
     /\ \A i \in (f + 1)..n : list[i].kind = "other"
  \/ /\ f = Nothing
     /\ \A l \in 1..n : list[l].kind = "load" =>
          \E i \in (l + 1)..n : list[i].kind \in {"stop", "page"}

\* One more command, of this kind.  A whole row numbers it by its place.
Grows(kind) ==
  /\ phone # NoKey
  /\ Len(taken') = Len(taken) + 1
  /\ SubSeq(taken', 1, Len(taken)) = taken
  /\ taken'[Len(taken')].kind = kind
  /\ whole' => taken'[Len(taken')].seq = Len(taken') /\ box' = End(taken')

Take(kind) == Grows(kind) /\ UNCHANGED <<phone, upto, on, whole, followed>>

\* The phone goes, and its stop comes with that; it may be written over a command.
Leave ==
  /\ Grows("stop")
  /\ phone' = NoKey
  /\ (whole' => whole) /\ (followed' => followed /\ whole')
  /\ UNCHANGED <<upto, on>>

Pair(k) == phone' = k /\ UNCHANGED <<taken, box, upto, on, whole, followed>>

\* The television lets its phone go, with nothing on.
LetGo ==
  /\ phone # NoKey /\ on = Nothing
  /\ phone' = NoKey
  /\ UNCHANGED <<taken, box, upto, on, whole, followed>>

\* The television runs commands, in order and none of them twice.
Deliver ==
  /\ followed
  /\ upto' \in upto..Len(taken) /\ Shows(taken, upto', on')
  /\ UNCHANGED <<phone, taken, box, whole, followed>>

\* Its page is loaded anew: from the beginning, or from a page command it has run.
GoBack ==
  /\ followed
  /\ upto' \in 0..upto /\ (upto' # 0 => taken[upto'].kind = "page")
  /\ on' = Nothing
  /\ UNCHANGED <<phone, taken, box, whole, followed>>

\* A load has left the box before the television asked.
FallBehind == followed' = FALSE /\ UNCHANGED <<phone, taken, box, upto, on, whole>>

\* Once that has happened, nothing is promised of the television.
Drift ==
  /\ ~followed
  /\ upto' \in Nat /\ on' \in Nat
  /\ UNCHANGED <<phone, taken, box, whole, followed>>

Next ==
  \/ \E k \in Keys : Pair(k)
  \/ \E kind \in Kinds : Take(kind)
  \/ Leave \/ LetGo \/ Deliver \/ GoBack \/ FallBehind \/ Drift

Spec == Init /\ [][Next]_vars
=============================================================================
