---------------------------- MODULE TvRoomProofs ----------------------------
(***************************************************************************)
(* The room of TV mode, for any number of phones, requests, commands and   *)
(* reloads, and any length of the queue: what was accepted is what the row *)
(* counts, and a television that has caught up plays what was last chosen. *)
(*                                                                         *)
(* Both follow from one picture.  As long as no unpair wrote over a        *)
(* command, the row is the end of the list of all commands it took; a poll *)
(* is answered with a stretch of that list that begins where the TV is, or *)
(* at a load, and ends where the row was; so what is on is always what the *)
(* list up to the TV's place would have put there.                         *)
(***************************************************************************)
EXTENDS TvRoom, SequenceTheorems, WellFoundedInduction, TLAPS

-----------------------------------------------------------------------------
(* Lists. *)

\* A set of naturals has a least member, and one that is bounded a greatest.
LEMMA LeastNumber ==
  ASSUME NEW S, S \subseteq Nat, S # {}
  PROVE  \E i \in S : \A j \in S : i <= j
<1>1. \E i \in S : \A j \in S : ~ (<<j, i>> \in OpToRel(<, Nat))
  BY NatLessThanWellFounded, WFMin
<1>2. \A i, j \in Nat : j < i => <<j, i>> \in OpToRel(<, Nat)
  BY DEF OpToRel
<1>3. PICK i \in S : \A j \in S : ~ (j < i)
  BY <1>1, <1>2
<1> QED BY <1>3

LEMMA GreatestNumber ==
  ASSUME NEW n \in Nat, NEW S, S \subseteq 1..n, S # {}
  PROVE  \E i \in S : \A j \in S : j <= i
<1> DEFINE T == {n - i : i \in S}
<1>1. T \subseteq Nat
  OBVIOUS
<1>2. T # {}
  OBVIOUS
<1>3. PICK t \in T : \A u \in T : t <= u
  BY <1>1, <1>2, LeastNumber
<1>4. PICK i \in S : t = n - i
  OBVIOUS
<1>5. \A j \in S : n - j \in T
  OBVIOUS
<1>6. \A j \in S : n - i <= n - j
  BY <1>3, <1>4, <1>5
<1> HIDE DEF T
<1> QED BY <1>6

\* A stretch of a list, which may be empty.
LEMMA Stretch ==
  ASSUME NEW S, NEW s \in Seq(S), NEW a \in 1..(Len(s) + 1), NEW b \in (a - 1)..Len(s)
  PROVE  /\ SubSeq(s, a, b) \in Seq(S)
         /\ Len(SubSeq(s, a, b)) = b - a + 1
         /\ \A i \in 1..(b - a + 1) : SubSeq(s, a, b)[i] = s[a + i - 1]
<1>1. a \in Int /\ b \in Int /\ \A i \in a..b : s[i] \in S
  BY ElementOfSeq
<1>2. /\ SubSeq(s, a, b) \in Seq(S)
      /\ Len(SubSeq(s, a, b)) = IF a <= b THEN b - a + 1 ELSE 0
      /\ \A i \in 1..(b - a + 1) : SubSeq(s, a, b)[i] = s[a + i - 1]
  BY <1>1, SubSeqProperties
<1> QED BY <1>2

\* A stretch of a stretch is a stretch.
LEMMA StretchOfStretch ==
  ASSUME NEW S, NEW s \in Seq(S), NEW a \in 1..(Len(s) + 1), NEW b \in (a - 1)..Len(s),
         NEW c \in 1..(b - a + 2), NEW d \in (c - 1)..(b - a + 1)
  PROVE  SubSeq(SubSeq(s, a, b), c, d) = SubSeq(s, a + c - 1, a + d - 1)
<1> DEFINE t == SubSeq(s, a, b)
           u == SubSeq(t, c, d)
           v == SubSeq(s, a + c - 1, a + d - 1)
<1>1. t \in Seq(S) /\ Len(t) = b - a + 1 /\ \A i \in 1..(b - a + 1) : t[i] = s[a + i - 1]
  BY Stretch
<1>2. c \in 1..(Len(t) + 1) /\ d \in (c - 1)..Len(t)
  BY <1>1
<1>3. u \in Seq(S) /\ Len(u) = d - c + 1 /\ \A i \in 1..(d - c + 1) : u[i] = t[c + i - 1]
  <2> HIDE DEF t
  <2> QED BY <1>1, <1>2, Stretch
<1>4. a + c - 1 \in 1..(Len(s) + 1) /\ a + d - 1 \in (a + c - 2)..Len(s)
  OBVIOUS
<1>5. v \in Seq(S) /\ Len(v) = d - c + 1 /\ \A i \in 1..(d - c + 1) : v[i] = s[a + c - 1 + i - 1]
  <2> DEFINE p == a + c - 1
             q == a + d - 1
  <2>1. p \in 1..(Len(s) + 1) /\ q \in (p - 1)..Len(s) /\ q - p + 1 = d - c + 1
    BY <1>4
  <2> HIDE DEF p, q
  <2>2. /\ SubSeq(s, p, q) \in Seq(S) /\ Len(SubSeq(s, p, q)) = q - p + 1
        /\ \A i \in 1..(q - p + 1) : SubSeq(s, p, q)[i] = s[p + i - 1]
    BY <2>1, Stretch
  <2> QED BY <2>1, <2>2 DEF p, q
<1>6. \A i \in 1..(d - c + 1) : c + i - 1 \in 1..(b - a + 1) /\ a + (c + i - 1) - 1 = a + c - 1 + i - 1
  OBVIOUS
<1>7. \A i \in 1..(d - c + 1) : u[i] = v[i]
  BY <1>1, <1>3, <1>5, <1>6
<1> HIDE DEF t, u, v
<1>8. u = v
  BY <1>3, <1>5, <1>7, SeqEqual
<1> QED BY <1>8 DEF t, u, v

\* What stands in a list stays where it is when something is appended.
LEMMA StretchOfAppend ==
  ASSUME NEW S, NEW s \in Seq(S), NEW x \in S,
         NEW a \in 1..(Len(s) + 1), NEW b \in (a - 1)..Len(s)
  PROVE  SubSeq(Append(s, x), a, b) = SubSeq(s, a, b)
<1> DEFINE t == Append(s, x)
           u == SubSeq(t, a, b)
           v == SubSeq(s, a, b)
<1>1. t \in Seq(S) /\ Len(t) = Len(s) + 1 /\ \A i \in 1..Len(s) : t[i] = s[i]
  BY AppendProperties
<1>2. a \in 1..(Len(t) + 1) /\ b \in (a - 1)..Len(t)
  BY <1>1
<1>3. v \in Seq(S) /\ Len(v) = b - a + 1 /\ \A i \in 1..(b - a + 1) : v[i] = s[a + i - 1]
  BY Stretch
<1> HIDE DEF t
<1>4. u \in Seq(S) /\ Len(u) = b - a + 1 /\ \A i \in 1..(b - a + 1) : u[i] = t[a + i - 1]
  BY <1>1, <1>2, Stretch
<1>5. \A i \in 1..(b - a + 1) : u[i] = v[i]
  BY <1>1, <1>3, <1>4
<1> HIDE DEF u, v
<1>6. u = v
  BY <1>3, <1>4, <1>5, SeqEqual
<1> QED BY <1>6 DEF t, u, v

\* Last keeps the end of a list.
LEMMA LastIs ==
  ASSUME NEW S, NEW s \in Seq(S), NEW n \in Nat \ {0}
  PROVE  /\ Last(s, n) \in Seq(S)
         /\ Len(Last(s, n)) = IF Len(s) > n THEN n ELSE Len(s)
         /\ \A i \in 1..Len(Last(s, n)) : Last(s, n)[i] = s[Len(s) - Len(Last(s, n)) + i]
         /\ Last(s, n) = SubSeq(s, Len(s) - Len(Last(s, n)) + 1, Len(s))
<1> DEFINE a == IF Len(s) > n THEN Len(s) - n + 1 ELSE 1
<1>1. a \in 1..(Len(s) + 1) /\ Len(s) \in (a - 1)..Len(s) /\ Len(s) \in Nat
  OBVIOUS
<1>2. Len(s) - a + 1 = IF Len(s) > n THEN n ELSE Len(s)
  OBVIOUS
<1>3. Last(s, n) = SubSeq(s, a, Len(s))
  BY DEF Last
<1> HIDE DEF a
<1>4. /\ Last(s, n) \in Seq(S) /\ Len(Last(s, n)) = Len(s) - a + 1
      /\ \A i \in 1..(Len(s) - a + 1) : Last(s, n)[i] = s[a + i - 1]
  BY <1>1, <1>3, Stretch
<1>5. a = Len(s) - Len(Last(s, n)) + 1
  BY <1>1, <1>4
<1> QED BY <1>1, <1>2, <1>3, <1>4, <1>5

\* The last command of a list is its end of one.
LEMMA LastOne ==
  ASSUME NEW s, Len(s) \in Nat, Len(s) > 0
  PROVE  Last(s, 1) = SubSeq(s, Len(s), Len(s))
<1>1. \A k \in Nat : k > 0 => (IF k > 1 THEN k - 1 + 1 ELSE 1) = k
  OBVIOUS
<1>2. (IF Len(s) > 1 THEN Len(s) - 1 + 1 ELSE 1) = Len(s)
  BY <1>1
<1> QED BY <1>2 DEF Last

\* To keep the end of a list command by command is to keep the end of the whole.
LEMMA LastOfLonger ==
  ASSUME NEW S, NEW s \in Seq(S), NEW x \in S, NEW n \in Nat \ {0}
  PROVE  Last(Append(Last(s, n), x), n) = Last(Append(s, x), n)
<1> DEFINE l == Last(s, n)
           t == Append(s, x)
           m == Append(l, x)
           u == Last(m, n)
           v == Last(t, n)
<1>1. /\ l \in Seq(S) /\ Len(l) = IF Len(s) > n THEN n ELSE Len(s)
      /\ \A i \in 1..Len(l) : l[i] = s[Len(s) - Len(l) + i]
  BY LastIs
<1>2. /\ t \in Seq(S) /\ Len(t) = Len(s) + 1 /\ t[Len(s) + 1] = x
      /\ \A i \in 1..Len(s) : t[i] = s[i]
  BY AppendProperties
<1> HIDE DEF l
<1>3. /\ m \in Seq(S) /\ Len(m) = Len(l) + 1 /\ m[Len(l) + 1] = x
      /\ \A i \in 1..Len(l) : m[i] = l[i]
  BY <1>1, AppendProperties
<1> HIDE DEF t, m
<1>4. /\ u \in Seq(S) /\ Len(u) = IF Len(m) > n THEN n ELSE Len(m)
      /\ \A i \in 1..Len(u) : u[i] = m[Len(m) - Len(u) + i]
  BY <1>3, LastIs
<1>5. /\ v \in Seq(S) /\ Len(v) = IF Len(t) > n THEN n ELSE Len(t)
      /\ \A i \in 1..Len(v) : v[i] = t[Len(t) - Len(v) + i]
  BY <1>2, LastIs
<1> HIDE DEF u, v
<1>6. /\ Len(s) \in Nat /\ Len(l) \in 0..Len(s) /\ Len(u) = Len(v) /\ Len(u) \in 1..(Len(l) + 1)
      /\ Len(m) = Len(l) + 1 /\ Len(t) = Len(s) + 1 /\ (Len(u) > 1 => Len(u) - 1 <= Len(l))
  <2>1. Len(s) \in Nat /\ Len(l) \in Nat
    BY <1>1, LenProperties
  <2> QED BY <2>1, <1>1, <1>2, <1>3, <1>4, <1>5
<1>7. ASSUME NEW i \in 1..Len(u) PROVE u[i] = v[i]
  <2> DEFINE k == Len(m) - Len(u) + i
             h == Len(t) - Len(v) + i
  <2>1. u[i] = m[k] /\ v[i] = t[h]
    BY <1>4, <1>5, <1>6
  <2>2. CASE i = Len(u)
    <3>1. k = Len(l) + 1 /\ h = Len(s) + 1
      BY <2>2, <1>6
    <3> QED BY <2>1, <3>1, <1>2, <1>3
  <2>3. CASE i < Len(u)
    <3>1. k \in 1..Len(l) /\ h \in 1..Len(s) /\ h = Len(s) - Len(l) + k
      BY <2>3, <1>6
    <3> HIDE DEF k, h
    <3>2. m[k] = l[k] /\ l[k] = s[Len(s) - Len(l) + k] /\ t[h] = s[h]
      BY <3>1, <1>1, <1>2, <1>3
    <3> QED BY <2>1, <3>1, <3>2
  <2> QED BY <2>2, <2>3, <1>6
<1>8. u = v
  BY <1>4, <1>5, <1>6, <1>7, SeqEqual
<1> QED BY <1>8 DEF u, v, l, t, m

-----------------------------------------------------------------------------
(* What the functions of lib/tv.js and the television make of a list. *)

\* After is the tail that begins at the first later command.
LEMMA AfterIs ==
  ASSUME NEW list \in Seq(Commands), NEW n \in Nat, NEW first \in 1..(Len(list) + 1),
         \A i \in 1..(first - 1) : list[i].seq <= n,
         \A i \in first..Len(list) : list[i].seq > n
  PROVE  After(list, n) = SubSeq(list, first, Len(list))
<1>0. Len(list) \in Nat /\ \A i \in 1..Len(list) : list[i].seq \in Nat
  <2>1. \A i \in 1..Len(list) : list[i] \in Commands
    BY ElementOfSeq
  <2> QED BY <2>1, LenProperties DEF Commands
<1>1. Later(list, n) = first..Len(list)
  BY <1>0 DEF Later
<1>2. CASE first = Len(list) + 1
  <2>1. Later(list, n) = {}
    BY <1>0, <1>1, <1>2
  <2>2. SubSeq(list, first, Len(list)) = <<>>
    BY <1>0, <1>2, SubSeqEmpty
  <2> QED BY <2>1, <2>2 DEF After
<1>3. CASE first # Len(list) + 1
  <2>1. first \in Later(list, n) /\ \A j \in Later(list, n) : first <= j
    BY <1>0, <1>1, <1>3
  <2>2. \A i \in Later(list, n) : (\A j \in Later(list, n) : i <= j) => i = first
    BY <1>0, <1>1, <2>1
  <2>3. (CHOOSE i \in Later(list, n) : \A j \in Later(list, n) : i <= j) = first
    BY <2>1, <2>2
  <2>4. Later(list, n) # {}
    BY <2>1
  <2> QED BY <2>3, <2>4 DEF After
<1> QED BY <1>2, <1>3

\* What is on is decided by the last command that decides it.
LEMMA PlayingIs ==
  ASSUME NEW list \in Seq(Commands), NEW was
  PROVE  /\ Decisive(list) = {} => Playing(list, was) = was
         /\ \A i \in Decisive(list) : (\A j \in Decisive(list) : j <= i) =>
              Playing(list, was) = IF list[i].kind = "load" THEN list[i].seq ELSE NothingOn
<1>1. Decisive(list) \subseteq Nat
  BY LenProperties DEF Decisive
<1>2. ASSUME NEW i \in Decisive(list), \A j \in Decisive(list) : j <= i
      PROVE  Playing(list, was) = IF list[i].kind = "load" THEN list[i].seq ELSE NothingOn
  <2>1. \A k \in Decisive(list) : (\A j \in Decisive(list) : j <= k) => k = i
    BY <1>1, <1>2
  <2>2. (CHOOSE k \in Decisive(list) : \A j \in Decisive(list) : j <= k) = i
    BY <1>2, <2>1
  <2> QED BY <1>2, <2>2 DEF Playing
<1> QED BY <1>2 DEF Playing

\* A list may be run from its middle on what its beginning put on, or on anything, if
\* something in the rest decides.
LEMMA PlayingOn ==
  ASSUME NEW list \in Seq(Commands), NEW a \in 1..(Len(list) + 1), NEW was, NEW first,
         \/ was = Playing(SubSeq(list, 1, a - 1), first)
         \/ Decisive(SubSeq(list, a, Len(list))) # {}
  PROVE  Playing(SubSeq(list, a, Len(list)), was) = Playing(list, first)
<1> DEFINE head == SubSeq(list, 1, a - 1)
           rest == SubSeq(list, a, Len(list))
<1>0. Len(list) \in Nat /\ 1 \in 1..(Len(list) + 1) /\ a - 1 \in (1 - 1)..Len(list)
      /\ Len(list) \in (a - 1)..Len(list)
  BY LenProperties
<1>1. /\ head \in Seq(Commands) /\ Len(head) = a - 1
      /\ \A i \in 1..(a - 1) : head[i] = list[i]
  BY <1>0, Stretch
<1>2. /\ rest \in Seq(Commands) /\ Len(rest) = Len(list) - a + 1
      /\ \A i \in 1..(Len(list) - a + 1) : rest[i] = list[a + i - 1]
  BY <1>0, Stretch
<1> HIDE DEF head, rest
<1>3. \A i \in 1..Len(rest) : i \in Decisive(rest) <=> a + i - 1 \in Decisive(list)
  BY <1>0, <1>2 DEF Decisive
<1>4. \A i \in 1..(a - 1) : i \in Decisive(head) <=> i \in Decisive(list)
  BY <1>0, <1>1 DEF Decisive
<1>5. Decisive(list) \subseteq 1..Len(list) /\ Decisive(rest) \subseteq 1..Len(rest)
      /\ Decisive(head) \subseteq 1..(a - 1)
  BY <1>1 DEF Decisive
<1>6. \A j \in Decisive(list) : j >= a => j - a + 1 \in Decisive(rest) /\ a + (j - a + 1) - 1 = j
  BY <1>0, <1>2, <1>3, <1>5
<1>7. CASE Decisive(rest) # {}
  <2>1. Len(rest) \in Nat
    BY <1>2, LenProperties
  <2>2. PICK i \in Decisive(rest) : \A j \in Decisive(rest) : j <= i
    BY <1>5, <1>7, <2>1, GreatestNumber
  <2>3. a + i - 1 \in Decisive(list) /\ rest[i] = list[a + i - 1]
    BY <1>2, <1>3, <1>5
  <2>4. \A j \in Decisive(list) : j <= a + i - 1
    BY <1>0, <1>5, <1>6, <2>2
  <2>5. Playing(rest, was) = IF rest[i].kind = "load" THEN rest[i].seq ELSE NothingOn
    BY <1>2, <2>2, PlayingIs
  <2>6. Playing(list, first) =
          IF list[a + i - 1].kind = "load" THEN list[a + i - 1].seq ELSE NothingOn
    BY <2>3, <2>4, PlayingIs
  <2>7. Playing(rest, was) = Playing(list, first)
    BY <2>3, <2>5, <2>6
  <2> QED BY <2>7 DEF rest
<1>8. CASE Decisive(rest) = {} /\ Decisive(head) # {}
  <2>1. was = Playing(head, first)
    BY <1>8 DEF head, rest
  <2>2. PICK i \in Decisive(head) : \A j \in Decisive(head) : j <= i
    BY <1>0, <1>5, <1>8, GreatestNumber
  <2>3. i \in Decisive(list) /\ head[i] = list[i]
    BY <1>1, <1>4, <1>5
  <2>4. \A j \in Decisive(list) : j <= i
    BY <1>0, <1>4, <1>5, <1>6, <1>8, <2>2
  <2>5. Playing(head, first) = Playing(list, first)
    BY <1>1, <2>2, <2>3, <2>4, PlayingIs
  <2>6. Playing(rest, was) = was
    BY <1>2, <1>8, PlayingIs
  <2> QED BY <2>1, <2>5, <2>6 DEF rest
<1>9. CASE Decisive(rest) = {} /\ Decisive(head) = {}
  <2>1. was = Playing(head, first)
    BY <1>9 DEF head, rest
  <2>2. Decisive(list) = {}
    BY <1>0, <1>4, <1>5, <1>6, <1>9
  <2> QED BY <1>1, <1>2, <1>9, <2>1, <2>2, PlayingIs DEF rest
<1> QED BY <1>7, <1>8, <1>9

\* A list in the order of its seqs, none of them beyond n.
Rising(list, n) ==
  /\ \A i, j \in 1..Len(list) : i < j => list[i].seq < list[j].seq
  /\ \A i \in 1..Len(list) : list[i].seq <= n

\* A tail of a list is a list, as rising as the whole.
LEMMA Tails ==
  ASSUME NEW list \in Seq(Commands), NEW a \in 1..(Len(list) + 1)
  PROVE  /\ Len(list) \in Nat /\ SubSeq(list, a, Len(list)) \in Seq(Commands)
         /\ Len(SubSeq(list, a, Len(list))) = Len(list) - a + 1
         /\ \A i \in 1..(Len(list) - a + 1) : SubSeq(list, a, Len(list))[i] = list[a + i - 1]
         /\ \A n : Rising(list, n) => Rising(SubSeq(list, a, Len(list)), n)
<1>1. Len(list) \in Nat /\ Len(list) \in (a - 1)..Len(list)
  BY LenProperties
<1>2. /\ SubSeq(list, a, Len(list)) \in Seq(Commands)
      /\ Len(SubSeq(list, a, Len(list))) = Len(list) - a + 1
      /\ \A i \in 1..(Len(list) - a + 1) : SubSeq(list, a, Len(list))[i] = list[a + i - 1]
  BY <1>1, Stretch
<1>3. ASSUME NEW n, Rising(list, n)
      PROVE  Rising(SubSeq(list, a, Len(list)), n)
  <2>1. \A i \in 1..(Len(list) - a + 1) : a + i - 1 \in 1..Len(list)
    BY <1>1
  <2>2. \A i, j \in 1..(Len(list) - a + 1) : i < j => a + i - 1 < a + j - 1
    OBVIOUS
  <2> QED BY <1>2, <1>3, <2>1, <2>2 DEF Rising
<1> QED BY <1>1, <1>2, <1>3

\* After and pending give a tail of a rising list: After all that is later, pending the
\* same, or after a gap what begins at a load, or without a load the last command.
LEMMA AfterTail ==
  ASSUME NEW list \in Seq(Commands), NEW n \in Nat, NEW top, Rising(list, top)
  PROVE  \E first \in 1..(Len(list) + 1) :
           /\ After(list, n) = SubSeq(list, first, Len(list))
           /\ \A i \in 1..(first - 1) : list[i].seq <= n
           /\ \A i \in first..Len(list) : list[i].seq > n
<1>0. Len(list) \in Nat /\ \A i \in 1..Len(list) : list[i].seq \in Nat
  <2>1. \A i \in 1..Len(list) : list[i] \in Commands
    BY ElementOfSeq
  <2> QED BY <2>1, LenProperties DEF Commands
<1>1. SUFFICES \E first \in 1..(Len(list) + 1) :
                 /\ \A i \in 1..(first - 1) : list[i].seq <= n
                 /\ \A i \in first..Len(list) : list[i].seq > n
  BY AfterIs
<1>2. CASE Later(list, n) = {}
  <2>1. Len(list) + 1 \in 1..(Len(list) + 1)
    BY <1>0
  <2>2. \A i \in 1..(Len(list) + 1 - 1) : list[i].seq <= n
    BY <1>0, <1>2 DEF Later
  <2>3. \A i \in (Len(list) + 1)..Len(list) : list[i].seq > n
    BY <1>0
  <2> QED BY <2>1, <2>2, <2>3
<1>3. CASE Later(list, n) # {}
  <2>1. Later(list, n) \subseteq Nat
    BY <1>0 DEF Later
  <2>2. PICK first \in Later(list, n) : \A i \in Later(list, n) : first <= i
    BY <1>3, <2>1, LeastNumber
  <2>3. first \in 1..(Len(list) + 1) /\ first \in 1..Len(list) /\ list[first].seq > n
    BY <1>0, <2>2 DEF Later
  <2>4. \A i \in 1..(first - 1) : list[i].seq <= n
    BY <1>0, <2>2, <2>3 DEF Later
  <2>5. ASSUME NEW i \in first..Len(list) PROVE list[i].seq > n
    <3>1. i = first \/ list[first].seq < list[i].seq
      BY <1>0, <2>3 DEF Rising
    <3> QED BY <1>0, <2>3, <3>1
  <2> QED BY <2>3, <2>4, <2>5
<1> QED BY <1>2, <1>3

LEMMA PendingTail ==
  ASSUME NEW list \in Seq(Commands), NEW n \in Nat, NEW top, Rising(list, top)
  PROVE  \E first \in 1..(Len(list) + 1), a \in 1..(Len(list) + 1) :
           /\ Pending(list, n) = SubSeq(list, a, Len(list))
           /\ \A i \in 1..(first - 1) : list[i].seq <= n
           /\ \A i \in first..Len(list) : list[i].seq > n
           /\ \/ a = first /\ ~Gap(list, n)
              \/ Gap(list, n) /\ first <= a /\ a <= Len(list)
                 /\ (list[a].kind = "load" \/ Loads(After(list, n)) = {})
           /\ Gap(list, n) <=> first <= Len(list) /\ list[first].seq > n + 1
<1> DEFINE after == After(list, n)
<1>1. PICK first \in 1..(Len(list) + 1) :
        /\ after = SubSeq(list, first, Len(list))
        /\ \A i \in 1..(first - 1) : list[i].seq <= n
        /\ \A i \in first..Len(list) : list[i].seq > n
  BY AfterTail
<1> HIDE DEF after
<1>2. /\ Len(list) \in Nat /\ after \in Seq(Commands) /\ Len(after) = Len(list) - first + 1
      /\ \A i \in 1..(Len(list) - first + 1) : after[i] = list[first + i - 1]
  BY <1>1, Tails
<1>3. after # <<>> <=> first <= Len(list)
  BY <1>2, EmptySeq
<1>4. first <= Len(list) => after[1] = list[first]
  BY <1>2
<1>5. Gap(list, n) <=> first <= Len(list) /\ list[first].seq > n + 1
  BY <1>3, <1>4 DEF Gap, after
<1>6. CASE ~Gap(list, n)
  <2>1. Pending(list, n) = after
    BY <1>6 DEF Pending, after
  <2> QED BY <1>1, <1>5, <1>6, <2>1
<1>7. CASE Gap(list, n) /\ Loads(after) = {}
  <2>1. Pending(list, n) = Last(after, 1)
    BY <1>7 DEF Pending, after
  <2>2. Len(after) \in Nat /\ Len(after) > 0
    BY <1>2, <1>5, <1>7
  <2>3. Last(after, 1) = SubSeq(after, Len(after), Len(after))
    BY <2>2, LastOne
  <2>4. SubSeq(after, Len(after), Len(after)) = SubSeq(list, Len(list), Len(list))
    <3>1. Len(after) \in 1..(Len(list) - first + 2) /\ Len(after) \in (Len(after) - 1)..(Len(list) - first + 1)
          /\ Len(list) \in (first - 1)..Len(list)
      BY <1>2, <1>5, <1>7
    <3>2. first + Len(after) - 1 = Len(list)
      BY <1>2
    <3>3. SubSeq(SubSeq(list, first, Len(list)), Len(after), Len(after))
            = SubSeq(list, first + Len(after) - 1, first + Len(after) - 1)
      BY <3>1, StretchOfStretch
    <3> QED BY <1>1, <3>2, <3>3
  <2>5. Len(list) \in 1..(Len(list) + 1) /\ first <= Len(list)
    BY <1>2, <1>5, <1>7
  <2>6. Loads(After(list, n)) = {} /\ Pending(list, n) = SubSeq(list, Len(list), Len(list))
    BY <1>7, <2>1, <2>3, <2>4 DEF after
  <2> WITNESS first \in 1..(Len(list) + 1), Len(list) \in 1..(Len(list) + 1)
  <2> QED BY <1>1, <1>2, <1>5, <1>7, <2>5, <2>6
<1>8. CASE Gap(list, n) /\ Loads(after) # {}
  <2>1. Loads(after) \subseteq 1..Len(after) /\ Len(after) \in Nat
    BY <1>2, LenProperties DEF Loads
  <2>2. PICK m \in Loads(after) : \A j \in Loads(after) : j <= m
    BY <1>8, <2>1, GreatestNumber
  <2>3. \A k \in Loads(after) : (\A j \in Loads(after) : j <= k) => k = m
    BY <2>1, <2>2
  <2>4. (CHOOSE k \in Loads(after) : \A j \in Loads(after) : j <= k) = m
    BY <2>2, <2>3
  <2>5. Pending(list, n) = SubSeq(after, m, Len(after))
    BY <1>8, <2>4 DEF Pending, after
  <2>6. m \in 1..Len(after) /\ after[m].kind = "load"
    BY <2>2 DEF Loads
  <2>7. SubSeq(after, m, Len(after)) = SubSeq(list, first + m - 1, Len(list))
    <3>1. m \in 1..(Len(list) - first + 2) /\ Len(after) \in (m - 1)..(Len(list) - first + 1)
          /\ Len(list) \in (first - 1)..Len(list)
      BY <1>2, <2>6
    <3>2. first + Len(after) - 1 = Len(list)
      BY <1>2
    <3>3. SubSeq(SubSeq(list, first, Len(list)), m, Len(after))
            = SubSeq(list, first + m - 1, first + Len(after) - 1)
      BY <3>1, StretchOfStretch
    <3> QED BY <1>1, <3>2, <3>3
  <2>8. /\ first + m - 1 \in 1..(Len(list) + 1) /\ first <= first + m - 1
        /\ first + m - 1 <= Len(list) /\ list[first + m - 1].kind = "load"
    BY <1>2, <2>6
  <2> QED BY <1>1, <1>5, <1>8, <2>5, <2>7, <2>8
<1> QED BY <1>6, <1>7, <1>8

-----------------------------------------------------------------------------
(* The invariant. *)

\* The row is the end of the list of the commands it took, numbered as they came; what a
\* request has read is the row, or is of an earlier seq.
Faithful ==
  /\ seq = Len(accepted) /\ queue = Last(accepted, QueueMax)
  /\ \A i \in 1..Len(accepted) : accepted[i].seq = i
  /\ \A r \in reqs : r.pc = "write" => r.seq <= seq /\ (r.seq = seq => r.queue = queue)

\* What is on is what the commands up to the TV's place come to; the place kept for a TV
\* that was taken away is a page command's.
TvInStep ==
  /\ since <= seq /\ film = Playing(SubSeq(accepted, 1, since), NothingOn)
  /\ kept <= since /\ (kept # 0 => accepted[kept].kind = "page")

\* An answer is a stretch of the list that begins where the TV is, or at a load.
PollInStep ==
  /\ poll.pc # "idle" => poll.since = since
  /\ poll.pc = "answered" =>
       /\ poll.seq \in since..seq
       /\ \E a \in (since + 1)..(poll.seq + 1) :
            /\ poll.todo = SubSeq(accepted, a, poll.seq)
            /\ a = since + 1 \/ (a <= poll.seq /\ accepted[a].kind = "load")

\* Every list of commands is in the order of its seqs: the row's, the ones the requests
\* have read, and the TV's answer.
Ordered ==
  /\ Rising(queue, seq)
  /\ \A r \in reqs : r.pc = "write" => Rising(r.queue, r.seq)
  /\ poll.pc = "answered" => Rising(poll.todo, poll.seq)

Inv ==
  /\ TypeOK /\ Ordered
  /\ ~clobbered => Faithful
  /\ ~clobbered /\ ~lossy => TvInStep /\ PollInStep

-----------------------------------------------------------------------------
(* Types and order. *)

LEMMA AppendedIs ==
  ASSUME NEW list \in Seq(Commands), NEW kind \in Kinds \cup {"stop"}, NEW m \in Nat
  PROVE  /\ [kind |-> kind, seq |-> m + 1] \in Commands
         /\ Appended(list, kind, m + 1) \in Seq(Commands)
         /\ Len(Appended(list, kind, m + 1)) <= QueueMax
         /\ Rising(list, m) => Rising(Appended(list, kind, m + 1), m + 1)
<1> DEFINE cmd == [kind |-> kind, seq |-> m + 1]
           longer == Append(list, cmd)
           cut == Last(longer, QueueMax)
<1>1. cmd \in Commands /\ cmd.seq = m + 1
  BY DEF Commands
<1>2. QueueMax \in Nat \ {0}
  BY BoundsAssumption
<1> HIDE DEF cmd
<1>3. /\ longer \in Seq(Commands) /\ Len(longer) = Len(list) + 1 /\ longer[Len(list) + 1] = cmd
      /\ \A i \in 1..Len(list) : longer[i] = list[i]
  BY <1>1, AppendProperties
<1>4. Len(list) \in Nat /\ \A i \in 1..Len(list) : list[i].seq \in Nat
  <2>1. \A i \in 1..Len(list) : list[i] \in Commands
    BY ElementOfSeq
  <2> QED BY <2>1, LenProperties DEF Commands
<1> HIDE DEF longer
<1>5. /\ cut \in Seq(Commands) /\ Len(cut) = IF Len(longer) > QueueMax THEN QueueMax ELSE Len(longer)
      /\ cut = SubSeq(longer, Len(longer) - Len(cut) + 1, Len(longer))
  BY <1>2, <1>3, LastIs
<1> HIDE DEF cut
<1>6. Len(cut) \in 0..Len(longer) /\ Len(cut) <= QueueMax
  BY <1>2, <1>3, <1>4, <1>5
<1>7. ASSUME Rising(list, m) PROVE Rising(cut, m + 1)
  <2>1. \A i \in 1..Len(list) : longer[i].seq < m + 1
    BY <1>3, <1>4, <1>7 DEF Rising
  <2>2. longer[Len(list) + 1].seq = m + 1
    BY <1>1, <1>3
  <2>3. \A i, j \in 1..Len(longer) : i < j => longer[i].seq < longer[j].seq
    <3> SUFFICES ASSUME NEW i \in 1..Len(longer), NEW j \in 1..Len(longer), i < j
                 PROVE  longer[i].seq < longer[j].seq
      OBVIOUS
    <3>1. i \in 1..Len(list)
      BY <1>3, <1>4
    <3>2. CASE j = Len(list) + 1
      BY <2>1, <2>2, <3>1, <3>2
    <3>3. CASE j # Len(list) + 1
      <4>1. j \in 1..Len(list)
        BY <1>3, <1>4, <3>3
      <4> QED BY <1>3, <1>7, <3>1, <4>1 DEF Rising
    <3> QED BY <3>2, <3>3
  <2>4. \A i \in 1..Len(longer) : longer[i].seq <= m + 1
    <3> SUFFICES ASSUME NEW i \in 1..Len(longer) PROVE longer[i].seq <= m + 1
      OBVIOUS
    <3>1. CASE i = Len(list) + 1
      BY <2>2, <3>1
    <3>2. CASE i # Len(list) + 1
      <4>1. i \in 1..Len(list)
        BY <1>3, <1>4, <3>2
      <4> QED BY <1>3, <1>4, <2>1, <4>1
    <3> QED BY <3>1, <3>2
  <2>5. Rising(longer, m + 1)
    BY <2>3, <2>4 DEF Rising
  <2>6. Len(longer) - Len(cut) + 1 \in 1..(Len(longer) + 1)
    BY <1>3, <1>4, <1>6
  <2>7. Rising(SubSeq(longer, Len(longer) - Len(cut) + 1, Len(longer)), m + 1)
    BY <1>3, <2>5, <2>6, Tails
  <2> QED BY <1>5, <2>7
<1> QED BY <1>1, <1>5, <1>6, <1>7 DEF cmd, longer, cut, Appended

LEMMA PlayingType ==
  ASSUME NEW list \in Seq(Commands), NEW was \in Nat
  PROVE  Playing(list, was) \in Nat
<1>1. Len(list) \in Nat /\ \A i \in 1..Len(list) : list[i].seq \in Nat
  <2>1. \A i \in 1..Len(list) : list[i] \in Commands
    BY ElementOfSeq
  <2> QED BY <2>1, LenProperties DEF Commands
<1>2. CASE Decisive(list) = {}
  BY <1>2, PlayingIs
<1>3. CASE Decisive(list) # {}
  <2>1. Decisive(list) \subseteq 1..Len(list)
    BY DEF Decisive
  <2>2. PICK i \in Decisive(list) : \A j \in Decisive(list) : j <= i
    BY <1>1, <1>3, <2>1, GreatestNumber
  <2>3. Playing(list, was) = IF list[i].kind = "load" THEN list[i].seq ELSE NothingOn
    BY <2>2, PlayingIs
  <2> QED BY <1>1, <2>1, <2>2, <2>3 DEF NothingOn
<1> QED BY <1>2, <1>3

\* The place stored by the page commands of an answer is that of one of them.
LEMMA LastPage ==
  ASSUME NEW list \in Seq(Commands), NEW top, Rising(list, top), PageSeqs(list) # {}
  PROVE  \E i \in 1..Len(list) :
           /\ list[i].kind = "page"
           /\ list[i].seq = CHOOSE n \in PageSeqs(list) : \A m \in PageSeqs(list) : m <= n
<1> DEFINE Pages == {j \in 1..Len(list) : list[j].kind = "page"}
<1>1. Len(list) \in Nat /\ \A i \in 1..Len(list) : list[i].seq \in Nat
  <2>1. \A i \in 1..Len(list) : list[i] \in Commands
    BY ElementOfSeq
  <2> QED BY <2>1, LenProperties DEF Commands
<1>2. Pages \subseteq 1..Len(list) /\ Pages # {} /\ PageSeqs(list) = {list[i].seq : i \in Pages}
  BY DEF PageSeqs
<1>3. PICK i \in Pages : \A j \in Pages : j <= i
  BY <1>1, <1>2, GreatestNumber
<1>4. i \in 1..Len(list) /\ list[i].kind = "page" /\ list[i].seq \in PageSeqs(list)
  BY <1>2, <1>3
<1>5. \A j \in Pages : list[j].seq <= list[i].seq
  <2> SUFFICES ASSUME NEW j \in Pages PROVE list[j].seq <= list[i].seq
    OBVIOUS
  <2>1. j \in 1..Len(list) /\ (j = i \/ j < i)
    BY <1>1, <1>2, <1>3
  <2>2. list[j].seq \in Nat /\ list[i].seq \in Nat
    BY <1>1, <1>4, <2>1
  <2>3. j < i => list[j].seq < list[i].seq
    BY <1>4, <2>1 DEF Rising
  <2> QED BY <2>1, <2>2, <2>3
<1> HIDE DEF Pages
<1>6. \A m \in PageSeqs(list) : m \in Nat /\ m <= list[i].seq
  BY <1>1, <1>2, <1>5
<1>7. \A n \in PageSeqs(list) : (\A m \in PageSeqs(list) : m <= n) => n = list[i].seq
  BY <1>4, <1>6
<1>8. (CHOOSE n \in PageSeqs(list) : \A m \in PageSeqs(list) : m <= n) = list[i].seq
  BY <1>4, <1>6, <1>7
<1> QED BY <1>4, <1>8

LEMMA InOrderFirst == Init => TypeOK /\ Ordered
<1> SUFFICES ASSUME Init PROVE TypeOK /\ Ordered
  OBVIOUS
<1>1. <<>> \in Seq(Commands) /\ Len(<<>>) = 0
  BY EmptySeq
<1>2. 0 \in 0..MaxReloads /\ 0 \in Nat /\ 0 <= QueueMax
  BY BoundsAssumption
<1>3. IdlePoll \in [pc : {"idle", "asked", "answered"}, since : Nat, seq : Nat, todo : Seq(Commands)]
  BY <1>1, <1>2 DEF IdlePoll
<1>4. TypeOK
  BY <1>1, <1>2, <1>3 DEF Init, TypeOK, NothingOn
<1>5. Ordered
  BY <1>1 DEF Init, Ordered, IdlePoll, Rising
<1> QED BY <1>4, <1>5

LEMMA InOrder == TypeOK /\ Ordered /\ [Next]_vars => TypeOK' /\ Ordered'
<1> SUFFICES ASSUME TypeOK, Ordered, [Next]_vars PROVE TypeOK' /\ Ordered'
  OBVIOUS
<1>0. <<>> \in Seq(Commands) /\ Len(<<>>) = 0
  BY EmptySeq
<1>1. ASSUME NEW k \in Keys, Pair(k) PROVE TypeOK' /\ Ordered'
  <2>1. TypeOK'
    BY <1>1 DEF TypeOK, Pair, tv
  <2>2. Ordered'
    BY <1>1 DEF Ordered, Pair
  <2> QED BY <2>1, <2>2
<1>2. ASSUME NEW k \in Keys, NEW op \in {"send", "unpair"}, NEW kind \in Kinds \cup {"stop"},
             Request(k, op, kind)
      PROVE  TypeOK' /\ Ordered'
  <2> DEFINE req == [key |-> k, op |-> op, kind |-> kind, pc |-> "read",
                     seq |-> 0, queue |-> <<>>, tries |-> Tries]
  <2>1. req \in RequestRecords /\ req.pc = "read"
    BY <1>0, BoundsAssumption DEF RequestRecords
  <2>2. reqs' = reqs \cup {req}
    BY <1>2 DEF Request
  <2> HIDE DEF req
  <2>3. TypeOK'
    BY <1>2, <2>1, <2>2 DEF TypeOK, Request, row, tv, past
  <2>4. Ordered'
    BY <1>2, <2>1, <2>2 DEF Ordered, Request, row
  <2> QED BY <2>3, <2>4
<1>3. ASSUME NEW r \in reqs, Read(r) PROVE TypeOK' /\ Ordered'
  <2> DEFINE req == [r EXCEPT !.pc = "write", !.seq = seq, !.queue = queue]
  <2>1. r \in RequestRecords /\ req \in RequestRecords /\ req.queue = queue /\ req.seq = seq
    BY DEF TypeOK, RequestRecords
  <2>2. reqs' \subseteq reqs \cup {req}
    BY <1>3 DEF Read
  <2> HIDE DEF req
  <2>3. TypeOK'
    BY <1>3, <2>1, <2>2 DEF TypeOK, Read, row, tv, past
  <2>4. Ordered'
    BY <1>3, <2>1, <2>2 DEF Ordered, Read, row
  <2> QED BY <2>3, <2>4
<1>4. ASSUME NEW r \in reqs, NEW kind \in Kinds \cup {"stop"}, r.pc = "write",
             Take(kind, r.queue, r.seq + 1)
      PROVE  /\ queue' \in Seq(Commands) /\ Len(queue') <= QueueMax
             /\ seq' \in Nat /\ accepted' \in Seq(Commands) /\ Rising(queue', seq')
  <2>1. r.queue \in Seq(Commands) /\ r.seq \in Nat /\ Rising(r.queue, r.seq)
    BY <1>4 DEF TypeOK, RequestRecords, Ordered
  <2> DEFINE m == r.seq
             cmd == [kind |-> kind, seq |-> m + 1]
  <2>2. queue' = Appended(r.queue, kind, m + 1) /\ seq' = m + 1 /\ accepted' = Append(accepted, cmd)
    BY <1>4 DEF Take
  <2> HIDE DEF m
  <2>3. m \in Nat /\ Rising(r.queue, m)
    BY <2>1 DEF m
  <2>4. /\ cmd \in Commands /\ Appended(r.queue, kind, m + 1) \in Seq(Commands)
        /\ Len(Appended(r.queue, kind, m + 1)) <= QueueMax
        /\ Rising(Appended(r.queue, kind, m + 1), m + 1)
    BY <2>1, <2>3, AppendedIs
  <2> HIDE DEF cmd
  <2>5. accepted' \in Seq(Commands)
    BY <2>2, <2>4, AppendProperties DEF TypeOK
  <2> QED BY <2>2, <2>3, <2>4, <2>5
<1>5. ASSUME NEW r \in reqs, WriteSend(r) PROVE TypeOK' /\ Ordered'
  <2>1. r \in RequestRecords /\ r.kind \in Kinds \cup {"stop"} /\ r.pc = "write"
    BY <1>5 DEF TypeOK, RequestRecords, WriteSend
  <2>2. /\ queue' \in Seq(Commands) /\ Len(queue') <= QueueMax
        /\ seq' \in Nat /\ accepted' \in Seq(Commands) /\ Rising(queue', seq')
    <3>1. CASE Take(r.kind, r.queue, r.seq + 1)
      BY <1>4, <2>1, <3>1
    <3>2. CASE UNCHANGED <<queue, seq, accepted>>
      BY <3>2 DEF TypeOK, Ordered
    <3> QED BY <1>5, <3>1, <3>2 DEF WriteSend
  <2> DEFINE req == [r EXCEPT !.pc = "read", !.tries = @ - 1]
  <2>3. r.tries > 1 => r.tries - 1 \in 1..Tries
    BY <2>1, BoundsAssumption DEF RequestRecords
  <2>4. req.pc = "read" /\ (r.tries > 1 => req \in RequestRecords)
    BY <2>1, <2>3 DEF RequestRecords
  <2>5. reqs' \subseteq reqs \/ (r.tries > 1 /\ reqs' \subseteq reqs \cup {req})
    BY <1>5 DEF WriteSend
  <2> HIDE DEF req
  <2>6. TypeOK'
    BY <1>5, <2>2, <2>4, <2>5 DEF TypeOK, WriteSend, tv
  <2>7. Ordered'
    BY <1>5, <2>2, <2>4, <2>5 DEF Ordered, WriteSend
  <2> QED BY <2>6, <2>7
<1>6. ASSUME NEW r \in reqs, WriteUnpair(r) PROVE TypeOK' /\ Ordered'
  <2>1. r.pc = "write" /\ reqs' \subseteq reqs
    BY <1>6 DEF WriteUnpair
  <2>2. /\ queue' \in Seq(Commands) /\ Len(queue') <= QueueMax
        /\ seq' \in Nat /\ accepted' \in Seq(Commands) /\ Rising(queue', seq')
    <3>1. CASE Take("stop", r.queue, r.seq + 1)
      BY <1>4, <2>1, <3>1
    <3>2. CASE UNCHANGED <<queue, seq, accepted>>
      BY <3>2 DEF TypeOK, Ordered
    <3> QED BY <1>6, <3>1, <3>2 DEF WriteUnpair
  <2>3. phone' \in Keys \cup {NoKey} /\ unpaired' \in BOOLEAN /\ clobbered' \in BOOLEAN
    BY <1>6 DEF WriteUnpair, TypeOK
  <2>4. TypeOK'
    BY <1>6, <2>1, <2>2, <2>3 DEF TypeOK, WriteUnpair, tv
  <2>5. Ordered'
    BY <1>6, <2>1, <2>2 DEF Ordered, WriteUnpair
  <2> QED BY <2>4, <2>5
<1>7. CASE Release
  BY <1>7 DEF TypeOK, Ordered, Release, tv
<1>8. CASE Ask
  BY <1>0, <1>8 DEF TypeOK, Ordered, Ask, IdlePoll, row, tv, past
<1>9. CASE Answer
  <2>1. poll.since \in Nat /\ queue \in Seq(Commands) /\ Rising(queue, seq)
    BY DEF TypeOK, Ordered
  <2>2. PICK a \in 1..(Len(queue) + 1) : Pending(queue, poll.since) = SubSeq(queue, a, Len(queue))
    BY <2>1, PendingTail
  <2>3. Pending(queue, poll.since) \in Seq(Commands) /\ Rising(Pending(queue, poll.since), seq)
    BY <2>1, <2>2, Tails
  <2>4. /\ poll' \in [pc : {"idle", "asked", "answered"}, since : Nat, seq : Nat, todo : Seq(Commands)]
        /\ poll'.todo = Pending(queue, poll.since) /\ poll'.seq = seq
    BY <1>9, <2>3 DEF Answer, TypeOK
  <2>5. lossy' \in BOOLEAN
    BY <1>9 DEF Answer, TypeOK
  <2>6. TypeOK'
    BY <1>9, <2>4, <2>5 DEF TypeOK, Answer, row, tv
  <2>7. Ordered'
    BY <1>9, <2>3, <2>4 DEF Ordered, Answer, row
  <2> QED BY <2>6, <2>7
<1>10. CASE Lose
  BY <1>0, <1>10 DEF TypeOK, Ordered, Lose, IdlePoll, row, tv, past
<1>11. CASE Run
  <2> DEFINE from == IF poll.seq < since THEN 0 ELSE since
             todo == After(poll.todo, from)
  <2>1. from \in Nat /\ poll.todo \in Seq(Commands) /\ Rising(poll.todo, poll.seq)
    BY <1>11 DEF TypeOK, Ordered, Run
  <2>2. /\ since' = IF todo = <<>> THEN from ELSE todo[Len(todo)].seq
        /\ film' = Playing(todo, film)
        /\ away' = (PageSeqs(todo) # {})
        /\ kept' = IF PageSeqs(todo) = {} THEN kept
                   ELSE CHOOSE n \in PageSeqs(todo) : \A m \in PageSeqs(todo) : m <= n
    BY <1>11 DEF Run
  <2> HIDE DEF from
  <2>3. PICK a \in 1..(Len(poll.todo) + 1) : todo = SubSeq(poll.todo, a, Len(poll.todo))
    BY <2>1, AfterTail
  <2>4. todo \in Seq(Commands) /\ Rising(todo, poll.seq)
    BY <2>1, <2>3, Tails
  <2> HIDE DEF todo
  <2>5. Len(todo) \in Nat /\ \A i \in 1..Len(todo) : todo[i].seq \in Nat
    <3>1. \A i \in 1..Len(todo) : todo[i] \in Commands
      BY <2>4, ElementOfSeq
    <3> QED BY <2>4, <3>1, LenProperties DEF Commands
  <2>6. since' \in Nat
    <3>1. todo # <<>> => Len(todo) \in 1..Len(todo)
      BY <2>4, <2>5, EmptySeq
    <3> QED BY <2>1, <2>2, <2>5, <3>1
  <2>7. film' \in Nat
    BY <2>2, <2>4, PlayingType DEF TypeOK
  <2>8. kept' \in Nat
    <3>1. CASE PageSeqs(todo) = {}
      BY <2>2, <3>1 DEF TypeOK
    <3>2. CASE PageSeqs(todo) # {}
      <4>1. \E i \in 1..Len(todo) : kept' = todo[i].seq
        BY <2>2, <2>4, <3>2, LastPage
      <4> QED BY <2>5, <4>1
    <3> QED BY <3>1, <3>2
  <2>9. TypeOK'
    BY <1>0, <1>11, <2>2, <2>6, <2>7, <2>8 DEF TypeOK, Run, IdlePoll, row, past
  <2>10. Ordered'
    BY <1>11 DEF Ordered, Run, IdlePoll, row
  <2> QED BY <2>9, <2>10
<1>12. CASE Restore
  <2>1. IdlePoll \in [pc : {"idle", "asked", "answered"}, since : Nat, seq : Nat, todo : Seq(Commands)]
    BY <1>0 DEF IdlePoll
  <2>2. reloads' \in 0..MaxReloads
    BY <1>12, BoundsAssumption DEF TypeOK, Restore
  <2>3. TypeOK'
    BY <1>12, <2>1, <2>2 DEF TypeOK, Restore, row, past, NothingOn
  <2>4. Ordered'
    BY <1>12 DEF Ordered, Restore, IdlePoll, row
  <2> QED BY <2>3, <2>4
<1>13. CASE UNCHANGED vars
  BY <1>13 DEF TypeOK, Ordered, vars, row, tv, past
<1>14. ASSUME PhoneStep PROVE TypeOK' /\ Ordered'
  BY <1>14, <1>1, <1>2 DEF PhoneStep, Send, Unpair
<1>15. ASSUME ServerStep PROVE TypeOK' /\ Ordered'
  BY <1>15, <1>3, <1>5, <1>6, <1>9 DEF ServerStep
<1>16. ASSUME TvStep PROVE TypeOK' /\ Ordered'
  BY <1>16, <1>7, <1>8, <1>10, <1>11, <1>12 DEF TvStep
<1> QED BY <1>13, <1>14, <1>15, <1>16 DEF Next

-----------------------------------------------------------------------------
(* The row is the end of what was accepted. *)

\* A command taken on the row that was read keeps the row the end of the list.
LEMMA TakeOnTop ==
  ASSUME TypeOK, Faithful, NEW r \in reqs, r.pc = "write", r.seq = seq,
         NEW kind \in Kinds \cup {"stop"}, Take(kind, r.queue, r.seq + 1), reqs' \subseteq reqs
  PROVE  Faithful' /\ accepted' = Append(accepted, [kind |-> kind, seq |-> seq + 1]) /\ seq' = seq + 1
<1> DEFINE cmd == [kind |-> kind, seq |-> seq + 1]
<1>1. /\ r.queue = queue /\ queue = Last(accepted, QueueMax) /\ seq = Len(accepted)
      /\ accepted \in Seq(Commands) /\ QueueMax \in Nat \ {0} /\ seq \in Nat
  BY BoundsAssumption DEF Faithful, TypeOK
<1>2. cmd \in Commands /\ cmd.seq = seq + 1
  BY <1>1 DEF Commands
<1>3. /\ queue' = Last(Append(queue, cmd), QueueMax) /\ seq' = seq + 1
      /\ accepted' = Append(accepted, cmd)
  BY <1>1 DEF Take, Appended
<1> HIDE DEF cmd
<1>4. Last(Append(Last(accepted, QueueMax), cmd), QueueMax) = Last(Append(accepted, cmd), QueueMax)
  BY <1>1, <1>2, LastOfLonger
<1>5. queue' = Last(accepted', QueueMax)
  BY <1>1, <1>3, <1>4
<1>6. /\ Len(accepted') = Len(accepted) + 1 /\ accepted'[Len(accepted) + 1] = cmd
      /\ \A i \in 1..Len(accepted) : accepted'[i] = accepted[i]
  BY <1>1, <1>2, <1>3, AppendProperties
<1>7. \A i \in 1..Len(accepted') : accepted'[i].seq = i
  <2> SUFFICES ASSUME NEW i \in 1..Len(accepted') PROVE accepted'[i].seq = i
    OBVIOUS
  <2>1. CASE i = Len(accepted) + 1
    BY <1>1, <1>2, <1>6, <2>1
  <2>2. CASE i # Len(accepted) + 1
    <3>1. i \in 1..Len(accepted)
      BY <1>1, <1>6, <2>2
    <3> QED BY <1>6, <3>1 DEF Faithful
  <2> QED BY <2>1, <2>2
<1>8. \A q \in reqs' : q.pc = "write" => q.seq <= seq' /\ (q.seq = seq' => q.queue = queue')
  <2>1. \A q \in reqs : q.seq \in Nat /\ (q.pc = "write" => q.seq <= seq)
    BY DEF Faithful, TypeOK, RequestRecords
  <2> QED BY <1>1, <1>3, <2>1
<1> QED BY <1>1, <1>3, <1>5, <1>6, <1>7, <1>8 DEF Faithful, cmd

LEMMA RowFaithful ==
  TypeOK /\ (~clobbered => Faithful) /\ [Next]_vars => (~clobbered' => Faithful')
<1> SUFFICES ASSUME TypeOK, ~clobbered => Faithful, [Next]_vars, ~clobbered'
             PROVE  Faithful'
  OBVIOUS
<1>1. ASSUME UNCHANGED <<queue, seq, accepted, clobbered>>,
             \A q \in reqs' : q \in reqs \/ q.pc = "read" \/ (q.seq = seq /\ q.queue = queue)
      PROVE  Faithful'
  <2>1. seq <= seq
    BY DEF TypeOK
  <2> QED BY <1>1, <2>1 DEF Faithful
<1>2. ASSUME NEW k \in Keys, Pair(k) PROVE Faithful'
  BY <1>1, <1>2 DEF Pair
<1>3. ASSUME NEW k \in Keys, NEW op \in {"send", "unpair"}, NEW kind \in Kinds \cup {"stop"},
             Request(k, op, kind)
      PROVE  Faithful'
  BY <1>1, <1>3 DEF Request, row, past
<1>4. ASSUME NEW r \in reqs, Read(r) PROVE Faithful'
  <2>1. r \in RequestRecords
    BY DEF TypeOK
  <2> DEFINE req == [r EXCEPT !.pc = "write", !.seq = seq, !.queue = queue]
  <2>2. req.seq = seq /\ req.queue = queue
    BY <2>1 DEF RequestRecords
  <2>3. reqs' \subseteq reqs \cup {req}
    BY <1>4 DEF Read
  <2> HIDE DEF req
  <2> QED BY <1>1, <1>4, <2>2, <2>3 DEF Read, row, past
<1>5. ASSUME NEW r \in reqs, WriteSend(r) PROVE Faithful'
  <2>1. r \in RequestRecords /\ r.kind \in Kinds \cup {"stop"} /\ r.pc = "write" /\ ~clobbered
    BY <1>5 DEF TypeOK, RequestRecords, WriteSend
  <2>2. CASE r.seq = seq /\ Take(r.kind, r.queue, r.seq + 1) /\ reqs' = reqs \ {r}
    BY <2>1, <2>2, TakeOnTop
  <2>3. CASE /\ UNCHANGED <<queue, seq, accepted>>
             /\ reqs' = (reqs \ {r}) \cup
                  (IF r.tries > 1 THEN {[r EXCEPT !.pc = "read", !.tries = @ - 1]} ELSE {})
    <3> DEFINE req == [r EXCEPT !.pc = "read", !.tries = @ - 1]
    <3>1. req.pc = "read"
      BY <2>1 DEF RequestRecords
    <3>2. reqs' \subseteq reqs \cup {req}
      BY <2>3
    <3> HIDE DEF req
    <3> QED BY <1>1, <1>5, <2>3, <3>1, <3>2 DEF WriteSend
  <2> QED BY <1>5, <2>2, <2>3 DEF WriteSend
<1>6. ASSUME NEW r \in reqs, WriteUnpair(r) PROVE Faithful'
  <2>1. r.pc = "write" /\ reqs' \subseteq reqs
    BY <1>6 DEF WriteUnpair
  <2>2. CASE phone = r.key
    <3>1. ~clobbered /\ r.seq = seq /\ Take("stop", r.queue, r.seq + 1)
      BY <1>6, <2>2 DEF WriteUnpair
    <3> QED BY <2>1, <3>1, TakeOnTop
  <2>3. CASE phone # r.key
    BY <1>1, <1>6, <2>1, <2>3 DEF WriteUnpair
  <2> QED BY <2>2, <2>3
<1>7. CASE Release
  BY <1>1, <1>7 DEF Release
<1>8. CASE Ask \/ Lose \/ Restore \/ Run
  BY <1>1, <1>8 DEF Ask, Lose, Restore, Run, row, past
<1>9. CASE Answer
  BY <1>1, <1>9 DEF Answer, row
<1>10. CASE UNCHANGED vars
  BY <1>1, <1>10 DEF vars, row, past
<1>11. ASSUME PhoneStep PROVE Faithful'
  BY <1>11, <1>2, <1>3 DEF PhoneStep, Send, Unpair
<1>12. ASSUME ServerStep PROVE Faithful'
  BY <1>12, <1>4, <1>5, <1>6, <1>9 DEF ServerStep
<1> QED BY <1>7, <1>8, <1>10, <1>11, <1>12 DEF Next, TvStep

-----------------------------------------------------------------------------
(* The television is in step with what was accepted. *)

Together == TypeOK /\ Ordered /\ Faithful /\ TvInStep /\ PollInStep

\* What the television holds stays true of a longer list.
LEMMA StepOfLonger ==
  ASSUME Together, NEW cmd \in Commands, accepted' = Append(accepted, cmd), seq' = seq + 1,
         UNCHANGED <<tv, poll>>
  PROVE  TvInStep' /\ PollInStep'
<1>1. /\ seq = Len(accepted) /\ seq \in Nat /\ accepted \in Seq(Commands)
      /\ since \in 0..seq /\ kept \in 0..since
  BY DEF Together, TypeOK, Faithful, TvInStep
<1>2. /\ Len(accepted') = seq + 1
      /\ \A i \in 1..seq : accepted'[i] = accepted[i]
  BY <1>1, AppendProperties
<1>3. ASSUME NEW a \in 1..(seq + 1), NEW b \in (a - 1)..seq
      PROVE  SubSeq(accepted', a, b) = SubSeq(accepted, a, b)
  BY <1>1, StretchOfAppend
<1>4. SubSeq(accepted', 1, since) = SubSeq(accepted, 1, since)
  BY <1>1, <1>3
<1>5. since' = since /\ kept' = kept /\ film' = film /\ poll' = poll
  BY DEF tv
<1>6. TvInStep'
  <2>1. since' <= seq' /\ film' = Playing(SubSeq(accepted', 1, since'), NothingOn)
    <3>1. SubSeq(accepted', 1, since') = SubSeq(accepted, 1, since)
      BY <1>4, <1>5
    <3>2. film' = Playing(SubSeq(accepted, 1, since), NothingOn)
      BY <1>5 DEF Together, TvInStep
    <3>3. since' <= seq'
      BY <1>1, <1>5
    <3> HIDE DEF Playing
    <3> QED BY <3>1, <3>2, <3>3
  <2>2. kept # 0 => kept \in 1..seq /\ accepted[kept].kind = "page"
    BY <1>1 DEF Together, TvInStep
  <2>3. kept' <= since' /\ (kept' # 0 => accepted'[kept'].kind = "page")
    BY <1>1, <1>2, <1>5, <2>2
  <2> QED BY <2>1, <2>3 DEF TvInStep
<1>7. ASSUME poll.pc = "answered"
      PROVE  /\ poll.seq \in since..seq'
             /\ \E a \in (since + 1)..(poll.seq + 1) :
                  /\ poll.todo = SubSeq(accepted', a, poll.seq)
                  /\ a = since + 1 \/ (a <= poll.seq /\ accepted'[a].kind = "load")
  <2>1. PICK a \in (since + 1)..(poll.seq + 1) :
          /\ poll.todo = SubSeq(accepted, a, poll.seq)
          /\ a = since + 1 \/ (a <= poll.seq /\ accepted[a].kind = "load")
    BY <1>7 DEF Together, PollInStep
  <2>2. poll.seq \in since..seq
    BY <1>7 DEF Together, PollInStep
  <2>3. a \in 1..(seq + 1) /\ poll.seq \in (a - 1)..seq /\ (a <= poll.seq => a \in 1..seq)
    BY <1>1, <2>2
  <2>4. poll.todo = SubSeq(accepted', a, poll.seq)
    BY <1>3, <2>1, <2>3
  <2>5. a = since + 1 \/ (a <= poll.seq /\ accepted'[a].kind = "load")
    BY <1>2, <2>1, <2>3
  <2>6. poll.seq \in since..seq'
    BY <1>1, <2>2
  <2> QED BY <2>4, <2>5, <2>6
<1>8. PollInStep'
  BY <1>5, <1>7 DEF Together, PollInStep
<1> QED BY <1>6, <1>8

\* An answer begins where the TV is, or, after a gap, at a load.
LEMMA AnswerInStep ==
  ASSUME Together, Answer, ~lossy'
  PROVE  TvInStep' /\ PollInStep'
<1> DEFINE q == Len(queue)
<1>1. /\ seq = Len(accepted) /\ seq \in Nat /\ accepted \in Seq(Commands) /\ queue \in Seq(Commands)
      /\ since \in 0..seq /\ poll.since = since /\ QueueMax \in Nat \ {0} /\ queue = Last(accepted, QueueMax)
      /\ \A i \in 1..seq : accepted[i].seq = i
  BY BoundsAssumption DEF Together, TypeOK, Faithful, TvInStep, PollInStep, Answer
<1>2. /\ q = IF seq > QueueMax THEN QueueMax ELSE seq
      /\ \A i \in 1..q : queue[i] = accepted[seq - q + i]
      /\ queue = SubSeq(accepted, seq - q + 1, seq)
  BY <1>1, LastIs
<1>3. q \in 0..seq /\ (q = 0 => seq = 0)
  BY <1>1, <1>2
<1> HIDE DEF q
<1>4. \A i \in 1..q : queue[i].seq = seq - q + i
  <2> SUFFICES ASSUME NEW i \in 1..q PROVE queue[i].seq = seq - q + i
    OBVIOUS
  <2> DEFINE k == seq - q + i
  <2>1. k \in 1..seq
    BY <1>1, <1>3
  <2>2. queue[i] = accepted[k]
    BY <1>2
  <2> HIDE DEF k
  <2>3. accepted[k].seq = k
    BY <1>1, <2>1
  <2> QED BY <2>2, <2>3 DEF k
<1>5. PICK first \in 1..(q + 1), a \in 1..(q + 1) :
        /\ Pending(queue, since) = SubSeq(queue, a, q)
        /\ \A i \in 1..(first - 1) : queue[i].seq <= since
        /\ \A i \in first..q : queue[i].seq > since
        /\ \/ a = first /\ ~Gap(queue, since)
           \/ Gap(queue, since) /\ first <= a /\ a <= q
              /\ (queue[a].kind = "load" \/ Loads(After(queue, since)) = {})
        /\ Gap(queue, since) <=> first <= q /\ queue[first].seq > since + 1
  <2>1. queue \in Seq(Commands) /\ since \in Nat /\ Rising(queue, seq)
    BY <1>1 DEF Together, Ordered
  <2> QED BY <2>1, PendingTail DEF q
<1> DEFINE b == seq - q + a
<1>6. Pending(queue, since) = SubSeq(accepted, b, seq)
  <2> DEFINE p == seq - q + 1
  <2>1. /\ p \in 1..(Len(accepted) + 1) /\ seq \in (p - 1)..Len(accepted)
        /\ a \in 1..(seq - p + 2) /\ q \in (a - 1)..(seq - p + 1)
        /\ p + a - 1 = b /\ p + q - 1 = seq
    BY <1>1, <1>3
  <2> HIDE DEF p, b
  <2>2. SubSeq(SubSeq(accepted, p, seq), a, q) = SubSeq(accepted, p + a - 1, p + q - 1)
    BY <1>1, <2>1, StretchOfStretch
  <2>3. queue = SubSeq(accepted, p, seq)
    BY <1>2 DEF p
  <2> QED BY <1>5, <2>1, <2>2, <2>3
<1>7. /\ b \in (since + 1)..(seq + 1)
      /\ b = since + 1 \/ (b <= seq /\ accepted[b].kind = "load")
  <2>1. CASE a = first /\ ~Gap(queue, since) /\ first <= q
    <3>1. queue[first].seq = seq - q + first /\ queue[first].seq > since
      BY <1>3, <1>4, <1>5, <2>1
    <3>2. ~(queue[first].seq > since + 1)
      BY <1>5, <2>1
    <3>3. b = since + 1
      BY <1>1, <1>3, <2>1, <3>1, <3>2
    <3> QED BY <1>1, <3>3
  <2>2. CASE a = first /\ first = q + 1
    <3>1. q > 0 => q \in 1..q /\ q \in 1..(first - 1) /\ queue[q].seq = seq - q + q
      BY <1>3, <1>4, <2>2
    <3>2. q > 0 => queue[q].seq <= since
      BY <1>5, <3>1
    <3>3. seq = since
      <4>1. CASE q = 0
        BY <1>1, <1>3, <4>1
      <4>2. CASE q > 0
        <5>1. seq - q + q <= since
          BY <3>1, <3>2, <4>2
        <5> QED BY <1>1, <1>3, <5>1
      <4> QED BY <1>3, <4>1, <4>2
    <3> QED BY <1>1, <1>3, <2>2, <3>3
  <2>3. CASE Gap(queue, since) /\ first <= a /\ a <= q
    <3>1. Loads(After(queue, since)) # {}
      BY <1>1, <2>3 DEF Answer
    <3>2. queue[a].kind = "load"
      BY <1>5, <2>3, <3>1
    <3>3. a \in 1..q /\ a \in first..q
      BY <1>3, <2>3
    <3>4. queue[a] = accepted[b] /\ queue[a].seq = b /\ queue[a].seq > since
      BY <1>2, <1>4, <1>5, <3>3
    <3>5. b \in (since + 1)..(seq + 1) /\ b <= seq
      BY <1>1, <1>3, <3>3, <3>4
    <3> QED BY <3>2, <3>4, <3>5
  <2> QED BY <1>3, <1>5, <2>1, <2>2, <2>3
<1> HIDE DEF b
<1>8. /\ poll'.pc = "answered" /\ poll'.since = since /\ poll'.seq = seq
      /\ poll'.todo = Pending(queue, since)
      /\ since' = since /\ seq' = seq /\ accepted' = accepted /\ film' = film /\ kept' = kept
  BY <1>1 DEF Answer, Together, TypeOK, row, tv
<1>9. TvInStep'
  BY <1>8 DEF Together, TvInStep
<1>10. PollInStep'
  BY <1>1, <1>6, <1>7, <1>8 DEF PollInStep
<1> QED BY <1>9, <1>10

\* Running an answer brings what is on to where the answer ends.
LEMMA RunInStep ==
  ASSUME Together, Run
  PROVE  TvInStep' /\ PollInStep' /\ since <= since'
<1> DEFINE todo == poll.todo
           e == poll.seq
           list == SubSeq(accepted, 1, e)
<1>1. /\ seq = Len(accepted) /\ seq \in Nat /\ accepted \in Seq(Commands) /\ todo \in Seq(Commands)
      /\ since \in Nat /\ since <= seq /\ e \in since..seq /\ Rising(todo, e)
      /\ \A i \in 1..seq : accepted[i].seq = i
  BY DEF Together, TypeOK, Faithful, TvInStep, PollInStep, Run, Ordered
<1>2. PICK a \in (since + 1)..(e + 1) :
        /\ todo = SubSeq(accepted, a, e)
        /\ a = since + 1 \/ (a <= e /\ accepted[a].kind = "load")
  BY DEF Together, PollInStep, Run
<1>3. a \in 1..(seq + 1) /\ e \in (a - 1)..seq /\ a \in 1..(e + 1)
  BY <1>1
<1> HIDE DEF todo, e
<1>4. Len(todo) = e - a + 1 /\ \A i \in 1..(e - a + 1) : todo[i] = accepted[a + i - 1]
  BY <1>1, <1>2, <1>3, Stretch
<1>5. \A i \in 1..(e - a + 1) : a + i - 1 \in 1..seq /\ todo[i].seq = a + i - 1
  <2>1. \A i \in 1..(e - a + 1) : a + i - 1 \in 1..seq
    BY <1>1, <1>3
  <2> QED BY <1>1, <1>4, <2>1
<1>6. After(todo, since) = todo
  <2>1. \A i \in 1..Len(todo) : todo[i].seq > since
    BY <1>1, <1>3, <1>4, <1>5
  <2>2. 1 \in 1..(Len(todo) + 1) /\ \A i \in 1..(1 - 1) : todo[i].seq <= since
    BY <1>3, <1>4
  <2>3. After(todo, since) = SubSeq(todo, 1, Len(todo))
    BY <1>1, <2>1, <2>2, AfterIs
  <2>4. SubSeq(todo, 1, Len(todo)) = todo
    BY <1>1, SubSeqFull
  <2> QED BY <2>3, <2>4
<1>7. /\ since' = IF todo = <<>> THEN since ELSE todo[Len(todo)].seq
      /\ film' = Playing(todo, film)
      /\ kept' = IF PageSeqs(todo) = {} THEN kept
                 ELSE CHOOSE n \in PageSeqs(todo) : \A m \in PageSeqs(todo) : m <= n
      /\ poll' = IdlePoll /\ seq' = seq /\ accepted' = accepted
  <2>1. (IF e < since THEN 0 ELSE since) = since
    BY <1>1
  <2>2. (IF poll.seq < since THEN 0 ELSE since) = since /\ After(poll.todo, since) = todo
    BY <1>6, <2>1 DEF todo, e
  <2>3. poll' = IdlePoll /\ seq' = seq /\ accepted' = accepted
    BY DEF Run, row, past
  <2>4. \A from, list1 : /\ from = IF poll.seq < since THEN 0 ELSE since
                         /\ list1 = After(poll.todo, from)
          => /\ since' = IF list1 = <<>> THEN from ELSE list1[Len(list1)].seq
             /\ film' = Playing(list1, film)
             /\ kept' = IF PageSeqs(list1) = {} THEN kept
                        ELSE CHOOSE n \in PageSeqs(list1) : \A m \in PageSeqs(list1) : m <= n
    BY DEF Run
  <2> QED BY <2>2, <2>3, <2>4
<1>8. since' = e
  <2>1. CASE todo = <<>>
    BY <1>1, <1>2, <1>3, <1>4, <1>7, <2>1, EmptySeq
  <2>2. CASE todo # <<>>
    <3>1. Len(todo) \in 1..(e - a + 1)
      BY <1>1, <1>3, <1>4, <2>2, EmptySeq
    <3> QED BY <1>3, <1>4, <1>5, <1>7, <2>2, <3>1
  <2> QED BY <2>1, <2>2
<1>9. list \in Seq(Commands) /\ Len(list) = e /\ \A i \in 1..e : list[i] = accepted[i]
  BY <1>1, Stretch
<1>10. SubSeq(list, a, e) = todo
  <2>1. SubSeq(SubSeq(accepted, 1, e), a, e) = SubSeq(accepted, 1 + a - 1, 1 + e - 1)
    BY <1>1, <1>3, StretchOfStretch
  <2> QED BY <1>1, <1>2, <1>3, <2>1
<1>11. film = Playing(SubSeq(list, 1, a - 1), NothingOn) \/ Decisive(todo) # {}
  <2>1. CASE a = since + 1
    <3>1. SubSeq(SubSeq(accepted, 1, e), 1, since) = SubSeq(accepted, 1 + 1 - 1, 1 + since - 1)
      BY <1>1, StretchOfStretch
    <3>2. SubSeq(list, 1, a - 1) = SubSeq(accepted, 1, since)
      BY <1>1, <2>1, <3>1
    <3> QED BY <3>2 DEF Together, TvInStep
  <2>2. CASE a <= e /\ accepted[a].kind = "load"
    <3>1. 1 \in 1..(e - a + 1) /\ a + 1 - 1 = a
      BY <1>1, <1>3, <2>2
    <3>2. 1 \in Decisive(todo)
      BY <1>4, <2>2, <3>1 DEF Decisive
    <3> QED BY <3>2
  <2> QED BY <1>2, <2>1, <2>2
<1> HIDE DEF list
<1>12. Playing(todo, film) = Playing(list, NothingOn)
  <2>1. a \in 1..(Len(list) + 1) /\ SubSeq(list, a, Len(list)) = todo
    BY <1>3, <1>9, <1>10
  <2>2. \/ film = Playing(SubSeq(list, 1, a - 1), NothingOn)
        \/ Decisive(SubSeq(list, a, Len(list))) # {}
    BY <1>11, <2>1
  <2>3. Playing(SubSeq(list, a, Len(list)), film) = Playing(list, NothingOn)
    <3> DEFINE n == Len(list)
    <3>1. list \in Seq(Commands) /\ a \in 1..(n + 1)
      BY <1>9, <2>1
    <3>2. ASSUME NEW was, NEW first,
                 was = Playing(SubSeq(list, 1, a - 1), first) \/ Decisive(SubSeq(list, a, n)) # {}
          PROVE  Playing(SubSeq(list, a, n), was) = Playing(list, first)
      BY <3>1, <3>2, PlayingOn
    <3> QED BY <2>2, <3>2
  <2> QED BY <2>1, <2>3
<1>13. kept' \in 0..e /\ (kept' # 0 => accepted[kept'].kind = "page")
  <2>1. CASE PageSeqs(todo) = {}
    BY <1>1, <1>7, <2>1 DEF Together, TypeOK, TvInStep
  <2>2. CASE PageSeqs(todo) # {}
    <3>1. PICK i \in 1..Len(todo) : todo[i].kind = "page" /\ kept' = todo[i].seq
      BY <1>1, <1>7, <2>2, LastPage
    <3>2. a + i - 1 \in 1..e
      BY <1>1, <1>3, <1>4
    <3> QED BY <1>4, <1>5, <3>1, <3>2
  <2> QED BY <2>1, <2>2
<1>14. TvInStep'
  BY <1>1, <1>7, <1>8, <1>12, <1>13 DEF TvInStep, list
<1>15. PollInStep'
  BY <1>7 DEF PollInStep, IdlePoll
<1> QED BY <1>1, <1>8, <1>14, <1>15

\* A page command's place is one with nothing on.
LEMMA RestoreInStep ==
  ASSUME Together, Restore
  PROVE  TvInStep' /\ PollInStep'
<1> DEFINE list == SubSeq(accepted, 1, kept)
<1>1. /\ seq = Len(accepted) /\ accepted \in Seq(Commands) /\ kept \in 0..since /\ kept \in 0..seq
      /\ seq \in Nat
      /\ kept # 0 => accepted[kept].kind = "page"
  BY DEF Together, TypeOK, Faithful, TvInStep
<1>2. /\ since' = kept /\ kept' = kept /\ film' = NothingOn /\ poll' = IdlePoll
      /\ seq' = seq /\ accepted' = accepted
  BY DEF Restore, row, past
<1>3. list \in Seq(Commands) /\ Len(list) = kept /\ \A i \in 1..kept : list[i] = accepted[i]
  BY <1>1, Stretch
<1> HIDE DEF list
<1>4. Playing(list, NothingOn) = NothingOn
  <2>1. CASE kept = 0
    <3>1. Decisive(list) = {}
      BY <1>3, <2>1 DEF Decisive
    <3> QED BY <1>3, <3>1, PlayingIs
  <2>2. CASE kept # 0
    <3>1. kept \in Decisive(list) /\ list[kept].kind = "page"
      BY <1>1, <1>3, <2>2 DEF Decisive
    <3>2. \A j \in Decisive(list) : j <= kept
      BY <1>3 DEF Decisive
    <3> QED BY <1>3, <3>1, <3>2, PlayingIs
  <2> QED BY <2>1, <2>2
<1>5. TvInStep'
  BY <1>1, <1>2, <1>4 DEF TvInStep, list
<1> QED BY <1>2, <1>5 DEF PollInStep, IdlePoll

LEMMA InStep ==
  ASSUME TypeOK, Ordered, ~clobbered => Faithful,
         ~clobbered /\ ~lossy => TvInStep /\ PollInStep, [Next]_vars
  PROVE  ~clobbered' /\ ~lossy' => TvInStep' /\ PollInStep'
<1> SUFFICES ASSUME ~clobbered', ~lossy' PROVE TvInStep' /\ PollInStep'
  OBVIOUS
<1>1. ASSUME UNCHANGED <<seq, accepted, since, kept, film, poll>>, Together
      PROVE  TvInStep' /\ PollInStep'
  BY <1>1 DEF Together, TvInStep, PollInStep
<1>2. ASSUME ~clobbered, ~lossy PROVE Together
  BY <1>2 DEF Together
<1>3. ASSUME NEW k \in Keys,
             Pair(k) \/ \E op \in {"send", "unpair"}, kind \in Kinds \cup {"stop"} : Request(k, op, kind)
      PROVE  TvInStep' /\ PollInStep'
  BY <1>1, <1>2, <1>3 DEF Pair, Request, row, tv, past
<1>4. ASSUME NEW r \in reqs, Read(r) PROVE TvInStep' /\ PollInStep'
  BY <1>1, <1>2, <1>4 DEF Read, row, tv, past
<1>5. ASSUME NEW r \in reqs, WriteSend(r) PROVE TvInStep' /\ PollInStep'
  <2>1. Together /\ r.kind \in Kinds \cup {"stop"} /\ r.pc = "write" /\ UNCHANGED <<tv, poll>>
    BY <1>2, <1>5 DEF WriteSend, TypeOK, RequestRecords
  <2>2. CASE r.seq = seq /\ Take(r.kind, r.queue, r.seq + 1) /\ reqs' = reqs \ {r}
    <3> DEFINE cmd == [kind |-> r.kind, seq |-> seq + 1]
    <3>1. accepted' = Append(accepted, cmd) /\ seq' = seq + 1
      BY <2>1, <2>2, TakeOnTop DEF Together
    <3>2. cmd \in Commands
      BY <2>1 DEF Together, TypeOK, Commands
    <3> HIDE DEF cmd
    <3> QED BY <2>1, <3>1, <3>2, StepOfLonger
  <2>3. CASE UNCHANGED <<queue, seq, accepted>>
    BY <1>1, <2>1, <2>3 DEF tv
  <2> QED BY <1>5, <2>2, <2>3 DEF WriteSend
<1>6. ASSUME NEW r \in reqs, WriteUnpair(r) PROVE TvInStep' /\ PollInStep'
  <2>1. r.pc = "write" /\ UNCHANGED <<tv, poll>> /\ ~lossy
    BY <1>6 DEF WriteUnpair
  <2>2. CASE phone = r.key
    <3>1. ~clobbered /\ r.seq = seq /\ Take("stop", r.queue, r.seq + 1) /\ reqs' = reqs \ {r}
      BY <1>6, <2>2 DEF WriteUnpair
    <3>2. Together
      BY <1>2, <2>1, <3>1
    <3> DEFINE cmd == [kind |-> "stop", seq |-> seq + 1]
    <3>3. accepted' = Append(accepted, cmd) /\ seq' = seq + 1
      BY <2>1, <3>1, <3>2, TakeOnTop DEF Together
    <3>4. cmd \in Commands
      BY DEF TypeOK, Commands
    <3> HIDE DEF cmd
    <3> QED BY <2>1, <3>2, <3>3, <3>4, StepOfLonger
  <2>3. CASE phone # r.key
    BY <1>1, <1>2, <1>6, <2>1, <2>3 DEF WriteUnpair, tv
  <2> QED BY <2>2, <2>3
<1>7. CASE Release
  BY <1>1, <1>2, <1>7 DEF Release, tv
<1>8. CASE Ask
  <2>1. Together /\ UNCHANGED <<row, tv, past>> /\ poll'.pc = "asked" /\ poll'.since = since
    BY <1>2, <1>8 DEF Ask, past, IdlePoll
  <2> QED BY <2>1 DEF Together, TvInStep, PollInStep, row, tv, past
<1>9. CASE Answer
  <2>1. Together
    BY <1>2, <1>9 DEF Answer
  <2> QED BY <1>9, <2>1, AnswerInStep
<1>10. CASE Lose
  <2>1. Together /\ UNCHANGED <<row, tv, past>> /\ poll'.pc = "idle"
    BY <1>2, <1>10 DEF Lose, past, IdlePoll
  <2> QED BY <2>1 DEF Together, TvInStep, PollInStep, row, tv, past
<1>11. CASE Run
  <2>1. Together
    BY <1>2, <1>11 DEF Run, past
  <2> QED BY <1>11, <2>1, RunInStep
<1>12. CASE Restore
  <2>1. Together
    BY <1>2, <1>12 DEF Restore, past
  <2> QED BY <1>12, <2>1, RestoreInStep
<1>13. CASE UNCHANGED vars
  BY <1>1, <1>2, <1>13 DEF vars, row, tv, past
<1>14. ASSUME PhoneStep PROVE TvInStep' /\ PollInStep'
  BY <1>14, <1>3 DEF PhoneStep, Send, Unpair
<1>15. ASSUME ServerStep PROVE TvInStep' /\ PollInStep'
  BY <1>15, <1>4, <1>5, <1>6, <1>9 DEF ServerStep
<1> QED BY <1>7, <1>8, <1>10, <1>11, <1>12, <1>13, <1>14, <1>15 DEF Next, TvStep

-----------------------------------------------------------------------------
(* The theorems. *)

\* The invariant: the row, the requests in flight, the answer on its way and the
\* television all stand on one list of accepted commands (api/tv.js, lib/tv.js, tv.js).
THEOREM Invariance == Spec => []Inv
<1>1. Init => Inv
  <2> SUFFICES ASSUME Init PROVE Inv
    OBVIOUS
  <2>1. TypeOK /\ Ordered
    BY InOrderFirst
  <2>2. <<>> \in Seq(Commands) /\ Len(<<>>) = 0
    BY EmptySeq
  <2>3. Last(<<>>, QueueMax) = <<>>
    <3>1. QueueMax \in Nat \ {0} /\ ~(0 > QueueMax)
      BY BoundsAssumption
    <3>2. ASSUME NEW s \in Seq(Commands), Len(s) = 0
          PROVE  Len(Last(s, QueueMax)) = 0 /\ Last(s, QueueMax) \in Seq(Commands)
      BY <3>1, <3>2, LastIs
    <3>3. Len(Last(<<>>, QueueMax)) = 0 /\ Last(<<>>, QueueMax) \in Seq(Commands)
      BY <2>2, <3>2
    <3> QED BY <3>3, EmptySeq
  <2>4. Faithful
    BY <2>2, <2>3 DEF Init, Faithful
  <2>5. SubSeq(<<>>, 1, 0) = <<>>
    BY <2>2, SubSeqFull
  <2>6. Playing(<<>>, NothingOn) = NothingOn
    <3>1. Decisive(<<>>) = {}
      BY <2>2 DEF Decisive
    <3> QED BY <2>2, <3>1, PlayingIs
  <2>7. TvInStep
    <3>1. SubSeq(accepted, 1, since) = <<>>
      BY <2>5 DEF Init
    <3>2. film = Playing(SubSeq(accepted, 1, since), NothingOn)
      BY <2>6, <3>1 DEF Init
    <3> QED BY <3>2 DEF Init, TvInStep
  <2>8. PollInStep
    BY DEF Init, PollInStep, IdlePoll
  <2> QED BY <2>1, <2>4, <2>7, <2>8 DEF Inv
<1>2. Inv /\ [Next]_vars => Inv'
  <2> SUFFICES ASSUME Inv, [Next]_vars PROVE Inv'
    OBVIOUS
  <2>1. /\ TypeOK /\ Ordered /\ (~clobbered => Faithful)
        /\ ~clobbered /\ ~lossy => TvInStep /\ PollInStep
    BY DEF Inv
  <2>2. TypeOK' /\ Ordered'
    BY <2>1, InOrder
  <2>3. ~clobbered' => Faithful'
    BY <2>1, RowFaithful
  <2>4. ~clobbered' /\ ~lossy' => TvInStep' /\ PollInStep'
    BY <2>1, InStep
  <2> QED BY <2>2, <2>3, <2>4 DEF Inv
<1> QED BY <1>1, <1>2, PTL DEF Spec

\* Every variable keeps its type, and the row's queue never outgrows QueueMax (lib/tv.js
\* append).
THEOREM TypeCorrect == Spec => []TypeOK
<1>1. Inv => TypeOK
  BY DEF Inv
<1> QED BY <1>1, Invariance, PTL

\* Taps that race each other retry rather than one overwriting the other: for any number
\* of phones and requests the row is the end of all it accepted (api/tv.js sendCommand).
THEOREM RowKeepsEverything == Spec => []NothingOverwritten
<1>1. Inv => NothingOverwritten
  BY DEF Inv, Faithful, NothingOverwritten
<1> QED BY <1>1, Invariance, PTL

\* A television that has caught up plays what the phones last chose, however many answers
\* were lost, reloads and trips to other sites there were, and however far it had fallen
\* behind (lib/tv.js pending; tv.js tick, run and restore).
THEOREM LastChoiceIsPlayed == Spec => []PlaysLastChosen
<1>1. Inv => PlaysLastChosen
  <2> SUFFICES ASSUME Inv, CaughtUp, ~clobbered, ~lossy
               PROVE  film = Playing(accepted, NothingOn)
    BY DEF PlaysLastChosen
  <2>1. /\ film = Playing(SubSeq(accepted, 1, since), NothingOn)
        /\ since = Len(accepted) /\ accepted \in Seq(Commands)
    BY DEF Inv, TypeOK, Faithful, TvInStep, CaughtUp
  <2>2. SubSeq(accepted, 1, Len(accepted)) = accepted
    BY <2>1, SubSeqFull
  <2> QED BY <2>1, <2>2
<1> QED BY <1>1, Invariance, PTL

\* The newest phone is the remote: a command is never taken from a phone whose pairing
\* another one has replaced, whatever it had read before (api/tv.js, db/005).
THEOREM OnlyTheNewestPhone == Spec => NewestPhoneOnly
<1>1. [Next]_vars => [\A r \in reqs \ reqs' :
        accepted' # accepted /\ r.pc = "write" /\ r.op = "send" => phone = r.key]_vars
  <2> SUFFICES ASSUME [Next]_vars, NEW r \in reqs \ reqs', accepted' # accepted, r.op = "send"
               PROVE  phone = r.key
    OBVIOUS
  <2>1. ASSUME NEW q \in reqs, WriteSend(q) PROVE phone = r.key
    <3>1. reqs' = reqs \ {q} /\ phone = q.key
      BY <2>1 DEF WriteSend
    <3> QED BY <3>1
  <2>2. ASSUME NEW q \in reqs, WriteUnpair(q) PROVE phone = r.key
    <3>1. r = q /\ r.op = "unpair"
      BY <2>2 DEF WriteUnpair
    <3> QED BY <3>1
  <2>3. \E q \in reqs : WriteSend(q) \/ WriteUnpair(q)
    BY DEF Next, PhoneStep, ServerStep, TvStep, Pair, Send, Unpair, Request, Read, Release, Ask,
           Answer, Lose, Run, Restore, vars, past
  <2> QED BY <2>1, <2>2, <2>3
<1> QED BY <1>1, PTL DEF Spec, NewestPhoneOnly

-----------------------------------------------------------------------------
(* The room of module Room. *)

\* What the fold over the list puts on is what module Room says is shown.
LEMMA PlayingShows ==
  ASSUME NEW list \in Seq(Commands), NEW n \in 0..Len(list),
         \A i \in 1..Len(list) : list[i].seq = i
  PROVE  Abstract!Shows(list, n, Playing(SubSeq(list, 1, n), NothingOn))
<1> DEFINE part == SubSeq(list, 1, n)
           f == Playing(part, NothingOn)
<1>1. /\ part \in Seq(Commands) /\ Len(part) = n /\ \A i \in 1..n : part[i] = list[i]
      /\ n \in Nat /\ n <= Len(list) /\ Len(list) \in Nat
  BY Stretch
<1>2. \A i \in 1..n : list[i].kind \in {"load", "stop", "page", "other"}
  <2>1. \A i \in 1..Len(list) : list[i] \in Commands
    BY ElementOfSeq
  <2>2. \A c \in Commands : c.kind \in {"load", "stop", "page", "other"}
    BY KindsAssumption DEF Commands
  <2>3. \A i \in 1..n : i \in 1..Len(list)
    BY <1>1
  <2> QED BY <2>1, <2>2, <2>3
<1> HIDE DEF part
<1>3. Decisive(part) = {i \in 1..n : list[i].kind # "other"}
  BY <1>1 DEF Decisive
<1>4. CASE Decisive(part) = {}
  <2>1. f = NothingOn
    BY <1>1, <1>4, PlayingIs
  <2>2. \A l \in 1..n : list[l].kind # "load"
    BY <1>3, <1>4
  <2> HIDE DEF f
  <2> QED BY <2>1, <2>2 DEF Abstract!Shows, Abstract!Nothing, NothingOn, part, f
<1>5. CASE Decisive(part) # {}
  <2>1. Decisive(part) \subseteq 1..n
    BY <1>3
  <2>2. PICK i \in Decisive(part) : \A j \in Decisive(part) : j <= i
    BY <1>1, <1>5, <2>1, GreatestNumber
  <2>3. f = IF part[i].kind = "load" THEN part[i].seq ELSE NothingOn
    BY <1>1, <2>2, PlayingIs
  <2>4. i \in 1..n /\ part[i] = list[i] /\ list[i].kind # "other" /\ list[i].seq = i
    BY <1>1, <1>3, <2>2
  <2> HIDE DEF f
  <2>5. CASE list[i].kind = "load"
    <3>1. f = i
      BY <2>3, <2>4, <2>5
    <3>2. \A j \in (i + 1)..n : list[j].kind = "other"
      <4> SUFFICES ASSUME NEW j \in (i + 1)..n, list[j].kind # "other" PROVE FALSE
        OBVIOUS
      <4>1. j \in Decisive(part) /\ j > i
        BY <1>1, <1>3, <2>4
      <4> QED BY <1>1, <2>2, <2>4, <4>1
    <3>3. Abstract!Shows(list, n, f)
      BY <2>4, <2>5, <3>1, <3>2 DEF Abstract!Shows
    <3> QED BY <3>3 DEF f, part
  <2>6. CASE list[i].kind # "load"
    <3>1. f = Abstract!Nothing
      BY <2>3, <2>4, <2>6 DEF Abstract!Nothing, NothingOn
    <3>2. list[i].kind \in {"stop", "page"}
      BY <1>2, <2>4, <2>6
    <3>3. ASSUME NEW l \in 1..n, list[l].kind = "load"
          PROVE  \E j \in (l + 1)..n : list[j].kind \in {"stop", "page"}
      <4>1. l \in Decisive(part)
        BY <1>3, <3>3
      <4>2. l <= i /\ l # i
        BY <2>2, <2>6, <3>3, <4>1
      <4>3. i \in (l + 1)..n
        BY <1>1, <2>4, <4>2
      <4> QED BY <3>2, <4>3
    <3>4. Abstract!Shows(list, n, f)
      BY <3>1, <3>3 DEF Abstract!Shows
    <3> QED BY <3>4 DEF f, part
  <2> QED BY <2>5, <2>6
<1> QED BY <1>4, <1>5 DEF f, part

\* A command that is taken lengthens the list.  While the row is whole, it has the number
\* of its place, and the queue is the end of the list with it.
LEMMA TakeGrows ==
  ASSUME Inv, NEW kind \in Kinds \cup {"stop"}, NEW list, NEW m \in Nat,
         Take(kind, list, m + 1), phone # NoKey, ~clobbered' => Faithful'
  PROVE  Abstract!Grows(kind)
<1> DEFINE cmd == [kind |-> kind, seq |-> m + 1]
<1>1. /\ accepted \in Seq(Commands) /\ Len(accepted) \in Nat /\ cmd \in Commands
      /\ cmd.kind = kind /\ accepted' = Append(accepted, cmd)
  BY LenProperties DEF Inv, TypeOK, Commands, Take
<1> HIDE DEF cmd
<1>2. Len(accepted') = Len(accepted) + 1 /\ accepted'[Len(accepted')] = cmd
  BY <1>1, AppendProperties
<1>3. SubSeq(accepted', 1, Len(accepted)) = accepted
  <2>1. SubSeq(accepted', 1, Len(accepted)) = SubSeq(accepted, 1, Len(accepted))
    BY <1>1, StretchOfAppend
  <2> QED BY <1>1, <2>1, SubSeqFull
<1>4. ASSUME ~clobbered'
      PROVE  accepted'[Len(accepted')].seq = Len(accepted') /\ queue' = Abstract!End(accepted')
  <2>1. /\ queue' = Last(accepted', QueueMax)
        /\ \A i \in 1..Len(accepted') : accepted'[i].seq = i
    BY <1>4 DEF Faithful
  <2>2. Len(accepted') \in 1..Len(accepted')
    BY <1>1, <1>2
  <2>3. accepted'[Len(accepted')].seq = Len(accepted')
    BY <2>1, <2>2
  <2>4. queue' = Abstract!End(accepted')
    BY <2>1 DEF Last, Abstract!End
  <2> QED BY <2>3, <2>4
<1> QED BY <1>1, <1>2, <1>3, <1>4 DEF Abstract!Grows

RoomStep == [Abstract!Next]_(Abstract!vars)

LEMMA RoomStays ==
  ASSUME UNCHANGED <<phone, accepted, queue, since, film, clobbered, lossy>>
  PROVE  RoomStep
BY DEF RoomStep, Abstract!vars

LEMMA TelevisionStep ==
  ASSUME Inv, Inv', Run \/ Restore
  PROVE  RoomStep
<1>1. /\ UNCHANGED <<phone, accepted, queue, clobbered, lossy>>
      /\ since' \in Nat /\ film' \in Nat
  BY DEF Run, Restore, row, past, Inv, TypeOK
<1>2. CASE clobbered \/ lossy
  <2>1. Abstract!Drift
    BY <1>1, <1>2 DEF Abstract!Drift
  <2> QED BY <2>1 DEF RoomStep, Abstract!Next
<1>3. CASE ~clobbered /\ ~lossy
  <2>1. ~clobbered' /\ ~lossy'
    BY <1>1, <1>3
  <2>2. Together /\ Together'
    BY <1>3, <2>1 DEF Inv, Together
  <2>3. /\ accepted \in Seq(Commands) /\ since \in Nat /\ since \in 0..Len(accepted)
        /\ kept \in 0..since /\ since' \in 0..Len(accepted) /\ accepted' = accepted
        /\ \A i \in 1..Len(accepted) : accepted[i].seq = i
    BY <1>1, <2>2 DEF Together, TypeOK, Faithful, TvInStep
  <2>4. CASE Run
    <3>1. since <= since'
      BY <2>2, <2>4, RunInStep
    <3>2. film' = Playing(SubSeq(accepted, 1, since'), NothingOn)
      BY <2>2, <2>3 DEF Together, TvInStep
    <3>3. Abstract!Shows(accepted, since', Playing(SubSeq(accepted, 1, since'), NothingOn))
      BY <2>3, PlayingShows
    <3>4. Abstract!Shows(accepted, since', film')
      BY <3>2, <3>3
    <3>5. since' \in since..Len(accepted)
      BY <2>3, <3>1
    <3>6. Abstract!Deliver
      BY <1>1, <1>3, <3>4, <3>5 DEF Abstract!Deliver
    <3> QED BY <3>6 DEF RoomStep, Abstract!Next
  <2>5. CASE Restore
    <3>1. since' = kept /\ film' = NothingOn
      BY <2>5 DEF Restore
    <3>2. kept # 0 => accepted[kept].kind = "page"
      BY <2>2 DEF Together, TvInStep
    <3>3. Abstract!GoBack
      BY <1>1, <1>3, <2>3, <3>1, <3>2 DEF Abstract!GoBack, Abstract!Nothing, NothingOn
    <3> QED BY <3>3 DEF RoomStep, Abstract!Next
  <2> QED BY <2>4, <2>5
<1> QED BY <1>2, <1>3

LEMMA RowStep ==
  ASSUME Inv, Inv', NEW r \in reqs, WriteSend(r) \/ WriteUnpair(r)
  PROVE  RoomStep
<1>1. /\ r.key \in Keys /\ r.kind \in Kinds \cup {"stop"} /\ r.op \in {"send", "unpair"}
      /\ r.seq \in Nat /\ r.key # NoKey /\ (~clobbered' => Faithful')
  BY NoKeyAssumption DEF Inv, TypeOK, RequestRecords
<1>2. CASE WriteSend(r)
  <2>1. UNCHANGED <<phone, since, film, clobbered, lossy>>
    BY <1>2 DEF WriteSend, tv
  <2>2. CASE phone = r.key /\ Take(r.kind, r.queue, r.seq + 1)
    <3>1. Abstract!Grows(r.kind)
      BY <1>1, <2>2, TakeGrows
    <3>2. Abstract!Take(r.kind)
      BY <2>1, <3>1 DEF Abstract!Take
    <3> QED BY <1>1, <3>2 DEF RoomStep, Abstract!Next
  <2>3. CASE UNCHANGED <<queue, seq, accepted>>
    BY <2>1, <2>3, RoomStays
  <2> QED BY <1>2, <2>2, <2>3 DEF WriteSend
<1>3. CASE WriteUnpair(r)
  <2>1. UNCHANGED <<since, film, lossy>>
    BY <1>3 DEF WriteUnpair, tv
  <2>2. CASE phone = r.key
    <3>1. /\ Take("stop", r.queue, r.seq + 1) /\ phone' = NoKey /\ phone # NoKey
          /\ ~clobbered' => ~clobbered
      BY <1>1, <1>3, <2>2 DEF WriteUnpair
    <3>2. Abstract!Grows("stop")
      BY <1>1, <3>1, TakeGrows
    <3>3. Abstract!Leave
      BY <2>1, <3>1, <3>2 DEF Abstract!Leave
    <3> QED BY <3>3 DEF RoomStep, Abstract!Next
  <2>3. CASE phone # r.key
    <3>1. UNCHANGED <<phone, queue, accepted, clobbered>>
      BY <1>3, <2>3 DEF WriteUnpair
    <3> QED BY <2>1, <3>1, RoomStays
  <2> QED BY <2>2, <2>3
<1> QED BY <1>2, <1>3

\* Every step of the protocol is a step of the room, or none.
LEMMA StepOfTheRoom == Inv /\ Inv' /\ [Next]_vars => RoomStep
<1> SUFFICES ASSUME Inv, Inv', [Next]_vars PROVE RoomStep
  OBVIOUS
<1>1. ASSUME NEW k \in Keys, Pair(k) PROVE RoomStep
  <2>1. Abstract!Pair(k)
    BY <1>1 DEF Pair, Abstract!Pair, tv
  <2> QED BY <2>1 DEF RoomStep, Abstract!Next
<1>2. ASSUME NEW k, NEW op, NEW kind, Request(k, op, kind) PROVE RoomStep
  BY <1>2, RoomStays DEF Request, row, tv, past
<1>3. ASSUME NEW r \in reqs, Read(r) PROVE RoomStep
  BY <1>3, RoomStays DEF Read, row, tv, past
<1>4. ASSUME NEW r \in reqs, WriteSend(r) \/ WriteUnpair(r) PROVE RoomStep
  BY <1>4, RowStep
<1>5. CASE Answer
  <2>1. UNCHANGED <<phone, accepted, queue, since, film, clobbered>>
    BY <1>5 DEF Answer, row, tv
  <2>2. lossy \in BOOLEAN /\ lossy' \in BOOLEAN
    BY DEF Inv, TypeOK
  <2>3. CASE lossy' = lossy
    BY <2>1, <2>3, RoomStays
  <2>4. CASE lossy'
    <3>1. (~clobbered' /\ ~lossy') = FALSE
      BY <2>4
    <3>2. Abstract!FallBehind
      BY <2>1, <3>1, Zenon DEF Abstract!FallBehind
    <3> QED BY <3>2 DEF RoomStep, Abstract!Next
  <2>5. lossy => lossy'
    BY <1>5 DEF Answer
  <2> QED BY <2>2, <2>3, <2>4, <2>5
<1>6. CASE Release
  <2>1. Abstract!LetGo
    BY <1>6 DEF Release, Abstract!LetGo, Abstract!Nothing, NothingOn, tv
  <2> QED BY <2>1 DEF RoomStep, Abstract!Next
<1>7. CASE Ask \/ Lose \/ UNCHANGED vars
  BY <1>7, RoomStays DEF Ask, Lose, vars, row, tv, past
<1>8. CASE Run \/ Restore
  BY <1>8, TelevisionStep
<1>9. ASSUME PhoneStep PROVE RoomStep
  BY <1>1, <1>2, <1>9 DEF PhoneStep, Send, Unpair
<1>10. ASSUME ServerStep PROVE RoomStep
  BY <1>3, <1>4, <1>5, <1>10 DEF ServerStep
<1> QED BY <1>6, <1>7, <1>8, <1>9, <1>10 DEF Next, TvStep

\* The row, the phones and the television keep the room's promise: commands are taken in
\* order from the paired phone and none is overwritten, and the television goes along the
\* list, or back to a page command it has run, showing what it has come to (api/tv.js
\* sendCommand, unpair and poll, lib/tv.js, tv.js).
THEOREM RoomImplemented == Spec => ImplementsRoom
<1>1. Init => Abstract!Init
  BY DEF Init, Abstract!Init, Abstract!Nothing, NothingOn
<1>2. Inv /\ Inv' /\ [Next]_vars => [Abstract!Next]_(Abstract!vars)
  BY StepOfTheRoom DEF RoomStep
<1> QED BY <1>1, <1>2, Invariance, PTL DEF Spec, ImplementsRoom, Abstract!Spec
=============================================================================
