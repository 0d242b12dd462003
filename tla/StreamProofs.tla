----------------------------- MODULE StreamProofs -----------------------------
(***************************************************************************)
(* The stream host's proxy, for films, windows and buffers of any size and *)
(* any number of requests: what the player has of a film has no seam       *)
(* (StreamBody), and a film that is refused is asked for again once, of    *)
(* its own site, and told the truth about (StreamProxy).  And its folder,  *)
(* for any films, sweeps and crashes: a film is there until its hour, and  *)
(* then it goes (FileShelf).                                               *)
(*                                                                         *)
(* A film behind an image is cut once, from the front of a whole body, and *)
(* from then on it can be asked for from its beginning only; a film that   *)
(* is asked for by range is never cut.  So all that a player ever has is   *)
(* shifted by one number, which the film and its player decide.            *)
(***************************************************************************)
EXTENDS StreamBody, SequenceTheorems, TLAPS

-----------------------------------------------------------------------------
(* The invariant. *)

\* How much of a body has come when its front is searched: the peek, or all of it.
Front == IF Size < Peek THEN Size ELSE Peek

\* By how much the player's offsets and the file's differ.
Shift == IF byRange \/ Front <= wrap THEN 0 ELSE wrap

Fields == {"pc", "ranged", "from", "next", "end", "head", "buf", "open", "alive"}

Typed(r) ==
  /\ DOMAIN r = Fields
  /\ r.pc \in {"none", "asked", "peek", "flow", "drain", "sent", "done"}
  /\ r.ranged \in BOOLEAN /\ r.open \in BOOLEAN
  /\ r.from \in Nat /\ (r.pc = "asked" => r.from < Size) /\ r.next \in 0..Size /\ r.end \in 0..Size
  /\ r.head \in Seq(Nat) /\ r.buf \in Seq(Nat)

\* An open request: what it holds back is the front of its answer, and what it has sent
\* and the player has not read is the file's from there on, shifted.
Tidy(r) ==
  /\ (byRange => r.ranged) /\ (r.ranged => Shift = 0)
  /\ r.pc \in {"none", "asked", "peek"} => r.buf = <<>>
  /\ r.pc # "peek" /\ r.pc # "done" => r.head = <<>>
  /\ r.pc = "asked" /\ ~r.ranged => r.from = 0
  /\ r.pc = "peek" =>
       /\ r.next = r.from + Len(r.head)
       /\ \A i \in 1..Len(r.head) : r.head[i] = r.from + i - 1
       /\ ~r.ranged => r.from = 0 /\ r.end = Size /\ Len(r.head) < Peek
  /\ r.pc \in {"flow", "drain"} => r.next = r.from + Shift + Len(r.buf)
  /\ \A i \in 1..Len(r.buf) : r.buf[i] = r.from + Shift + i - 1 /\ r.buf[i] < Size

Requests ==
  /\ conn = [c \in Conns |-> conn[c]]
  /\ \A c \in Conns : Typed(conn[c]) /\ (conn[c].open => Tidy(conn[c]))

\* The player listens to one request.
OneOpen == \A c, d \in Conns : conn[c].open /\ conn[d].open => c = d

\* As long as a film that is cut can be asked for by range, nothing of it was read.
Uncut ==
  Shift # 0 /\ ranges =>
    /\ at = 0 /\ held = {}
    /\ \A c \in Conns : conn[c].open => conn[c].pc \notin {"flow", "drain"} /\ conn[c].buf = <<>>

Player ==
  /\ wrap \in 0..Size /\ byRange \in BOOLEAN /\ at \in 0..Size
  /\ ranges \in BOOLEAN /\ seeks \in 0..MaxSeeks
  /\ held \subseteq Nat \X Nat /\ \A x \in held : x[2] = x[1] + Shift

Inv == Requests /\ OneOpen /\ Uncut /\ Player

-----------------------------------------------------------------------------
(* One request moves. *)

LEMMA SetIs ==
  ASSUME Inv, NEW c \in Conns, NEW f, Set(c, f)
  PROVE  /\ conn' = [x \in Conns |-> conn'[x]]
         /\ \A d \in Conns : d # c => conn'[d] = conn[d]
         /\ DOMAIN conn'[c] = Fields
         /\ \A k \in Fields : conn'[c][k] = IF k \in DOMAIN f THEN f[k] ELSE conn[c][k]
BY DEF Set, Inv, Requests, Typed

\* A request moves and the player's account of the film stays.
LEMMA OneMoves ==
  ASSUME Sizes, Inv, UNCHANGED <<wrap, byRange>>, NEW c \in Conns,
         conn' = [x \in Conns |-> conn'[x]], \A d \in Conns : d # c => conn'[d] = conn[d],
         Typed(conn'[c]), conn'[c].open => Tidy(conn'[c]) /\ conn[c].open,
         held' = held, at' = at, seeks' \in 0..MaxSeeks, ranges' \in BOOLEAN, ranges' => ranges,
         conn'[c].open /\ Shift # 0 /\ ranges'
           => conn'[c].pc \notin {"flow", "drain"} /\ conn'[c].buf = <<>>
  PROVE  Inv'
<1>1. Shift' = Shift
  BY DEF Shift, Front
<1>2. \A r : Tidy(r) <=> Tidy(r)'
  BY <1>1 DEF Tidy
<1>3. Requests'
  BY <1>2 DEF Inv, Requests, Typed
<1>4. OneOpen'
  BY DEF Inv, OneOpen
<1>5. Uncut'
  BY <1>1 DEF Inv, Uncut
<1>6. Player'
  BY <1>1 DEF Inv, Player
<1> QED BY <1>3, <1>4, <1>5, <1>6 DEF Inv

LEMMA SuffixIs ==
  ASSUME NEW s \in Seq(Nat), NEW k \in 0..Len(s)
  PROVE  LET t == SubSeq(s, k + 1, Len(s)) IN
         t \in Seq(Nat) /\ Len(t) = Len(s) - k /\ \A i \in 1..Len(t) : t[i] = s[k + i]
<1>1. Len(s) \in Nat /\ k + 1 \in Int /\ Len(s) \in Int
  OBVIOUS
<1>2. \A i \in (k + 1)..Len(s) : s[i] \in Nat
  BY <1>1, ElementOfSeq
<1>3. /\ SubSeq(s, k + 1, Len(s)) \in Seq(Nat)
      /\ Len(SubSeq(s, k + 1, Len(s))) = IF k + 1 <= Len(s) THEN Len(s) - (k + 1) + 1 ELSE 0
      /\ \A i \in 1..(Len(s) - (k + 1) + 1) : SubSeq(s, k + 1, Len(s))[i] = s[k + 1 + i - 1]
  BY <1>1, <1>2, SubSeqProperties
<1>4. Len(SubSeq(s, k + 1, Len(s))) = Len(s) - k
  BY <1>1, <1>3
<1>5. ASSUME NEW i \in 1..(Len(s) - k)
      PROVE  SubSeq(s, k + 1, Len(s))[i] = s[k + i]
  <2>1. i \in 1..(Len(s) - (k + 1) + 1) /\ k + 1 + i - 1 = k + i
    BY <1>1
  <2> QED BY <1>3, <2>1
<1> QED BY <1>3, <1>4, <1>5

-----------------------------------------------------------------------------
(* The steps of a request that leave what it has sent as it is. *)

LEMMA UpstreamStep == ASSUME Sizes, Inv, NEW c \in Conns, Upstream(c) PROVE Inv'
<1>1. PICK part \in {conn[c].ranged, FALSE} :
        LET from == IF part THEN conn[c].from ELSE 0
            last == IF part THEN NarrowTo(from) ELSE Size - 1 IN
        Set(c, [pc |-> "peek", alive |-> TRUE, from |-> from, next |-> from,
                end |-> IF last < Size THEN last + 1 ELSE Size])
  BY DEF Upstream
<1> DEFINE from == IF part THEN conn[c].from ELSE 0
           last == IF part THEN NarrowTo(from) ELSE Size - 1
           end  == IF last < Size THEN last + 1 ELSE Size
           f    == [pc |-> "peek", alive |-> TRUE, from |-> from, next |-> from, end |-> end]
<1>2. Set(c, f)
  BY <1>1
<1> HIDE DEF from, end
<1>3. /\ conn' = [x \in Conns |-> conn'[x]] /\ \A d \in Conns : d # c => conn'[d] = conn[d]
      /\ DOMAIN conn'[c] = Fields
      /\ \A k \in Fields : conn'[c][k] = IF k \in DOMAIN f THEN f[k] ELSE conn[c][k]
  BY <1>2, SetIs
<1>4. /\ conn'[c].pc = "peek" /\ conn'[c].from = from /\ conn'[c].next = from /\ conn'[c].end = end
      /\ conn'[c].open = conn[c].open /\ conn'[c].ranged = conn[c].ranged
      /\ conn'[c].head = conn[c].head /\ conn'[c].buf = conn[c].buf
  BY <1>3 DEF Fields
<1>5. conn[c].pc = "asked" /\ conn[c].from \in Nat /\ conn[c].from < Size /\ conn[c].ranged \in BOOLEAN
  BY DEF Upstream, Inv, Requests, Typed
<1>6. from \in Nat /\ from < Size
  BY <1>5 DEF from, Sizes
<1>7. end \in 0..Size
  <2>1. last \in Nat
    BY <1>6 DEF from, NarrowTo, Sizes
  <2> HIDE DEF last
  <2> QED BY <2>1 DEF end, Sizes
<1>8. Typed(conn'[c])
  BY <1>3, <1>4, <1>6, <1>7 DEF Typed, Inv, Requests, Sizes
<1>9. ASSUME conn'[c].open
      PROVE  Tidy(conn'[c]) /\ conn[c].open
  <2>1. conn[c].open /\ Tidy(conn[c]) /\ conn[c].buf = <<>> /\ conn[c].head = <<>>
    BY <1>4, <1>5, <1>9 DEF Inv, Requests, Tidy
  <2>2. ~conn[c].ranged => from = 0 /\ end = Size
    <3>1. ASSUME ~conn[c].ranged PROVE ~part
      BY <3>1
    <3>2. ~part => from = 0 /\ last = Size - 1
      BY DEF from
    <3>3. ~part => end = Size
      BY <3>2 DEF end, Sizes
    <3> QED BY <3>1, <3>2, <3>3
  <2>3. Len(conn'[c].head) = 0 /\ Len(conn'[c].buf) = 0 /\ 0 < Peek
    BY <1>4, <2>1 DEF Sizes
  <2>4. Tidy(conn'[c])
    BY <1>4, <1>6, <2>1, <2>2, <2>3 DEF Tidy
  <2> QED BY <2>1, <2>4
<1>10. conn'[c].open => conn'[c].pc \notin {"flow", "drain"} /\ conn'[c].buf = <<>>
  BY <1>4, <1>9 DEF Tidy
<1> HIDE DEF f
<1>11. UNCHANGED <<wrap, byRange, at, held, ranges, seeks>> /\ seeks \in 0..MaxSeeks /\ ranges \in BOOLEAN
  BY DEF Upstream, Inv, Player
<1> QED BY <1>3, <1>8, <1>9, <1>10, <1>11, OneMoves

LEMMA SourceBreaksStep == ASSUME Sizes, Inv, NEW c \in Conns, SourceBreaks(c) PROVE Inv'
<1> DEFINE f == [pc |-> "sent", alive |-> FALSE, head |-> <<>>]
<1>1. /\ conn' = [x \in Conns |-> conn'[x]] /\ \A d \in Conns : d # c => conn'[d] = conn[d]
      /\ DOMAIN conn'[c] = Fields
      /\ \A k \in Fields : conn'[c][k] = IF k \in DOMAIN f THEN f[k] ELSE conn[c][k]
  <2>1. Set(c, f)
    BY DEF SourceBreaks
  <2> QED BY <2>1, SetIs
<1>2. /\ conn'[c].pc = "sent" /\ conn'[c].head = <<>>
      /\ conn'[c].from = conn[c].from /\ conn'[c].next = conn[c].next /\ conn'[c].end = conn[c].end
      /\ conn'[c].open = conn[c].open /\ conn'[c].ranged = conn[c].ranged
      /\ conn'[c].buf = conn[c].buf
  BY <1>1 DEF Fields
<1> HIDE DEF f
<1>3. Typed(conn'[c])
  BY <1>1, <1>2 DEF Typed, Inv, Requests
<1>4. ASSUME conn'[c].open
      PROVE  Tidy(conn'[c]) /\ conn[c].open /\ (Shift # 0 /\ ranges => conn'[c].buf = <<>>)
  <2>1. conn[c].open /\ Tidy(conn[c])
    BY <1>2, <1>4 DEF Inv, Requests
  <2>2. Tidy(conn'[c])
    BY <1>2, <2>1 DEF Tidy
  <2> QED BY <1>2, <2>1, <2>2 DEF Inv, Uncut
<1>5. UNCHANGED <<wrap, byRange, at, held, ranges>> /\ seeks' \in 0..MaxSeeks /\ ranges \in BOOLEAN
  BY DEF SourceBreaks, Inv, Player, Sizes
<1> QED BY <1>1, <1>2, <1>3, <1>4, <1>5, OneMoves

LEMMA DrainedStep == ASSUME Sizes, Inv, NEW c \in Conns, Drained(c) PROVE Inv'
<1> DEFINE f == [pc |-> "flow"]
<1>1. /\ conn' = [x \in Conns |-> conn'[x]] /\ \A d \in Conns : d # c => conn'[d] = conn[d]
      /\ DOMAIN conn'[c] = Fields
      /\ \A k \in Fields : conn'[c][k] = IF k \in DOMAIN f THEN f[k] ELSE conn[c][k]
  <2>1. Set(c, f)
    BY DEF Drained
  <2> QED BY <2>1, SetIs
<1>2. /\ conn'[c].pc = "flow" /\ conn'[c].head = conn[c].head
      /\ conn'[c].from = conn[c].from /\ conn'[c].next = conn[c].next /\ conn'[c].end = conn[c].end
      /\ conn'[c].open = conn[c].open /\ conn'[c].ranged = conn[c].ranged
      /\ conn'[c].buf = conn[c].buf
  BY <1>1 DEF Fields
<1> HIDE DEF f
<1>3. conn[c].pc = "drain" /\ conn[c].open /\ Tidy(conn[c]) /\ Typed(conn[c])
  BY DEF Drained, Inv, Requests
<1>4. Typed(conn'[c])
  BY <1>1, <1>2, <1>3 DEF Typed
<1>5. Tidy(conn'[c])
  BY <1>2, <1>3 DEF Tidy
<1>6. ~(Shift # 0 /\ ranges)
  BY <1>3 DEF Inv, Uncut
<1>7. UNCHANGED <<wrap, byRange, at, held, ranges, seeks>> /\ seeks \in 0..MaxSeeks /\ ranges \in BOOLEAN
  BY DEF Drained, Inv, Player
<1> QED BY <1>1, <1>3, <1>4, <1>5, <1>6, <1>7, OneMoves

LEMMA DrainLostStep == ASSUME Sizes, Inv, NEW c \in Conns, DrainLost(c) PROVE Inv'
<1> DEFINE f == [pc |-> "done", alive |-> FALSE, buf |-> <<>>]
<1>1. /\ conn' = [x \in Conns |-> conn'[x]] /\ \A d \in Conns : d # c => conn'[d] = conn[d]
      /\ DOMAIN conn'[c] = Fields
      /\ \A k \in Fields : conn'[c][k] = IF k \in DOMAIN f THEN f[k] ELSE conn[c][k]
  <2>1. Set(c, f)
    BY DEF DrainLost
  <2> QED BY <2>1, SetIs
<1>2. /\ conn'[c].pc = "done" /\ conn'[c].buf = <<>>
      /\ conn'[c].from = conn[c].from /\ conn'[c].next = conn[c].next /\ conn'[c].end = conn[c].end
      /\ conn'[c].open = conn[c].open /\ conn'[c].ranged = conn[c].ranged
      /\ conn'[c].head = conn[c].head
  BY <1>1 DEF Fields
<1> HIDE DEF f
<1>3. Typed(conn'[c])
  BY <1>1, <1>2 DEF Typed, Inv, Requests
<1>4. ~conn'[c].open
  BY <1>2 DEF DrainLost
<1>5. UNCHANGED <<wrap, byRange, at, held, ranges, seeks>> /\ seeks \in 0..MaxSeeks /\ ranges \in BOOLEAN
  BY DEF DrainLost, Inv, Player
<1> QED BY <1>1, <1>3, <1>4, <1>5, OneMoves

LEMMA OverStep == ASSUME Sizes, Inv, NEW c \in Conns, Over(c) PROVE Inv'
<1> DEFINE f == [pc |-> "done", open |-> FALSE, buf |-> <<>>]
<1>1. /\ conn' = [x \in Conns |-> conn'[x]] /\ \A d \in Conns : d # c => conn'[d] = conn[d]
      /\ DOMAIN conn'[c] = Fields
      /\ \A k \in Fields : conn'[c][k] = IF k \in DOMAIN f THEN f[k] ELSE conn[c][k]
  <2>1. Set(c, f)
    BY DEF Over
  <2> QED BY <2>1, SetIs
<1>2. /\ conn'[c].pc = "done" /\ conn'[c].buf = <<>> 
      /\ conn'[c].from = conn[c].from /\ conn'[c].next = conn[c].next /\ conn'[c].end = conn[c].end
      /\ conn'[c].ranged = conn[c].ranged /\ conn'[c].head = conn[c].head
  BY <1>1 DEF Fields
<1>3. conn'[c].open \in BOOLEAN /\ ~conn'[c].open
  BY <1>1 DEF Fields
<1> HIDE DEF f
<1>4. Typed(conn'[c])
  BY <1>1, <1>2, <1>3 DEF Typed, Inv, Requests
<1>5. UNCHANGED <<wrap, byRange, at, held, ranges, seeks>> /\ seeks \in 0..MaxSeeks /\ ranges \in BOOLEAN
  BY DEF Over, Inv, Player
<1> QED BY <1>1, <1>2, <1>3, <1>4, <1>5, OneMoves

-----------------------------------------------------------------------------
(* What comes from the host is passed on. *)

\* What the front of an answer is cut by is what every answer is shifted by.
LEMMA CutIs ==
  ASSUME Sizes, Inv, NEW c \in Conns, Tidy(conn[c]), NEW head \in Seq(Nat),
         ~conn[c].ranged => Len(head) = Front /\ head[1] = 0
  PROVE  StartsAt(c, head) = Shift
<1>1. wrap \in Nat /\ Len(head) \in Nat /\ byRange \in BOOLEAN /\ Front \in Nat
  BY DEF Inv, Player, Sizes, Front
<1>2. CASE conn[c].ranged
  BY <1>2 DEF StartsAt, Tidy
<1>3. CASE ~conn[c].ranged
  <2>1. ~byRange /\ Len(head) = Front /\ head[1] = 0
    BY <1>3 DEF Tidy
  <2>2. StartsAt(c, head) = IF Front > wrap /\ wrap > 0 THEN wrap ELSE 0
    BY <1>3, <2>1 DEF StartsAt
  <2>3. Shift = IF Front <= wrap THEN 0 ELSE wrap
    BY <2>1 DEF Shift
  <2> HIDE DEF Front
  <2> QED BY <1>1, <2>2, <2>3
<1> QED BY <1>2, <1>3

\* These units follow what was sent, and end where the host's next begin.
Follows(c, units) ==
  /\ conn[c].next + 1 = conn[c].from + Shift + Len(conn[c].buf) + Len(units)
  /\ \A i \in 1..Len(units) : units[i] = conn[c].from + Shift + Len(conn[c].buf) + i - 1

\* A response that is gone ends its request; one that is not has what follows.
LEMMA WrittenOn ==
  ASSUME Sizes, Inv, NEW c \in Conns, NEW units \in Seq(Nat),
         conn[c].pc \in {"peek", "flow"}, conn[c].next < conn[c].end,
         Set(c, Written(c, units, "drain")), UNCHANGED <<wrap, byRange, at, held, seeks>>,
         ranges' \in BOOLEAN, ranges' => ranges,
         conn[c].open => Follows(c, units) /\ ~(Shift # 0 /\ ranges')
  PROVE  Inv'
<1>1. Typed(conn[c]) /\ (conn[c].open => Tidy(conn[c])) /\ seeks \in 0..MaxSeeks
  BY DEF Inv, Requests, Player
<1>2. CASE ~conn[c].open
  <2> DEFINE f == [pc |-> "done", alive |-> FALSE, head |-> <<>>, buf |-> <<>>]
  <2>1. /\ conn' = [x \in Conns |-> conn'[x]] /\ \A d \in Conns : d # c => conn'[d] = conn[d]
        /\ DOMAIN conn'[c] = Fields
        /\ \A k \in Fields : conn'[c][k] = IF k \in DOMAIN f THEN f[k] ELSE conn[c][k]
    <3>1. Set(c, f)
      BY <1>2 DEF Written
    <3> QED BY <3>1, SetIs
  <2>2. /\ conn'[c].pc = "done" /\ conn'[c].buf = <<>> /\ conn'[c].head = <<>>
        /\ conn'[c].from = conn[c].from /\ conn'[c].next = conn[c].next /\ conn'[c].end = conn[c].end
        /\ conn'[c].open = conn[c].open /\ conn'[c].ranged = conn[c].ranged
    BY <2>1 DEF Fields
  <2> HIDE DEF f
  <2>3. Typed(conn'[c])
    BY <1>1, <2>1, <2>2 DEF Typed
  <2>4. ~conn'[c].open
    BY <1>2, <2>2
  <2> QED BY <1>1, <2>1, <2>3, <2>4, OneMoves
<1>3. CASE conn[c].open
  <2> DEFINE pc   == IF Len(conn[c].buf) + Len(units) > Buffer THEN "drain" ELSE "flow"
             buf  == conn[c].buf \o units
             next == conn[c].next + 1
             f    == [pc |-> pc, buf |-> buf, head |-> <<>>, next |-> next]
  <2>1. Set(c, f)
    BY <1>3 DEF Written
  <2>2. pc \in {"flow", "drain"}
    OBVIOUS
  <2>3. next \in 0..Size
    BY <1>1 DEF Typed, Sizes
  <2>4. /\ buf \in Seq(Nat) /\ Len(buf) = Len(conn[c].buf) + Len(units)
        /\ \A i \in 1..(Len(conn[c].buf) + Len(units)) :
             buf[i] = IF i <= Len(conn[c].buf) THEN conn[c].buf[i] ELSE units[i - Len(conn[c].buf)]
    BY <1>1, ConcatProperties DEF Typed
  <2>5. next = conn[c].next + 1
    OBVIOUS
  <2> HIDE DEF pc, buf, next
  <2>6. /\ conn' = [x \in Conns |-> conn'[x]] /\ \A d \in Conns : d # c => conn'[d] = conn[d]
        /\ DOMAIN conn'[c] = Fields
        /\ \A k \in Fields : conn'[c][k] = IF k \in DOMAIN f THEN f[k] ELSE conn[c][k]
    BY <2>1, SetIs
  <2>7. /\ conn'[c].pc = pc /\ conn'[c].buf = buf /\ conn'[c].head = <<>> /\ conn'[c].next = next
        /\ conn'[c].from = conn[c].from /\ conn'[c].end = conn[c].end
        /\ conn'[c].open = conn[c].open /\ conn'[c].ranged = conn[c].ranged
    BY <2>6 DEF Fields
  <2> HIDE DEF f
  <2>8. Typed(conn'[c])
    BY <1>1, <2>2, <2>3, <2>4, <2>6, <2>7 DEF Typed
  <2>9. /\ Len(conn[c].buf) \in Nat /\ Len(units) \in Nat /\ conn[c].from \in Nat /\ Shift \in Nat
        /\ conn[c].next \in Nat /\ conn[c].next < Size /\ Size \in Nat
    BY <1>1 DEF Typed, Shift, Inv, Player, Sizes
  <2>10. Len(buf) = Len(conn[c].buf) + Len(units)
    BY <2>4
  <2>11. conn[c].next + 1 = conn[c].from + Shift + Len(conn[c].buf) + Len(units)
    BY <1>3 DEF Follows
  <2> HIDE DEF Shift
  <2>12. ASSUME NEW i \in 1..Len(buf)
        PROVE  buf[i] = conn[c].from + Shift + i - 1 /\ buf[i] < Size
    <3>1. i \in Nat /\ i >= 1 /\ i <= Len(conn[c].buf) + Len(units)
      BY <2>9, <2>10
    <3>2. CASE i <= Len(conn[c].buf)
      <4>1. i \in 1..Len(conn[c].buf) /\ buf[i] = conn[c].buf[i]
        <5>1. i \in 1..(Len(conn[c].buf) + Len(units)) /\ i \in 1..Len(conn[c].buf)
          BY <2>9, <3>1, <3>2
        <5> QED BY <2>4, <3>2, <5>1
      <4> QED BY <1>1, <1>3, <4>1 DEF Tidy
    <3>3. CASE i > Len(conn[c].buf)
      <4> DEFINE j == i - Len(conn[c].buf)
      <4>1. j \in 1..Len(units) /\ buf[i] = units[j]
        <5>1. i \in 1..(Len(conn[c].buf) + Len(units)) /\ ~(i <= Len(conn[c].buf))
          BY <2>9, <3>1, <3>3
        <5>2. buf[i] = units[i - Len(conn[c].buf)]
          BY <2>4, <5>1
        <5>3. i - Len(conn[c].buf) \in 1..Len(units)
          BY <2>9, <3>1, <3>3
        <5> QED BY <5>2, <5>3
      <4>2. units[j] = conn[c].from + Shift + Len(conn[c].buf) + j - 1
        BY <1>3, <4>1 DEF Follows
      <4>3. PICK o, s, l, u, n \in Nat :
              o = conn[c].from /\ s = Shift /\ l = Len(conn[c].buf) /\ u = Len(units) /\ n = conn[c].next
        BY <2>9
      <4>4. buf[i] = o + s + l + (i - l) - 1
        BY <4>1, <4>2, <4>3
      <4>5. n + 1 = o + s + l + u /\ i <= l + u /\ i \in Nat /\ n < Size
        BY <2>9, <2>11, <3>1, <4>3
      <4>6. o + s + l + (i - l) - 1 = o + s + i - 1 /\ o + s + i - 1 < Size
        BY <4>5, <2>9
      <4> QED BY <4>3, <4>4, <4>6
    <3> QED BY <3>1, <3>2, <3>3
  <2>13. next = conn[c].from + Shift + Len(buf)
    BY <2>5, <2>9, <2>10, <2>11
  <2>14. Tidy(conn'[c])
    BY <1>1, <1>3, <2>2, <2>7, <2>12, <2>13 DEF Tidy
  <2> QED BY <1>1, <1>3, <2>6, <2>8, <2>14, OneMoves
<1> QED BY <1>2, <1>3

\* A chunk lengthens the front that is held back.
LEMMA HeldBack ==
  ASSUME Sizes, Inv, NEW c \in Conns, conn[c].pc = "peek", conn[c].next < conn[c].end
  PROVE  LET head == Append(conn[c].head, conn[c].next) IN
         /\ head \in Seq(Nat) /\ Len(head) = Len(conn[c].head) + 1
         /\ conn[c].open =>
              /\ Tidy(conn[c]) /\ conn[c].buf = <<>>
              /\ conn[c].next + 1 = conn[c].from + Len(head)
              /\ \A i \in 1..Len(head) : head[i] = conn[c].from + i - 1
              /\ ~conn[c].ranged => conn[c].from = 0 /\ conn[c].end = Size
<1> DEFINE head == Append(conn[c].head, conn[c].next)
<1>1. Typed(conn[c]) /\ conn[c].head \in Seq(Nat) /\ conn[c].next \in Nat /\ conn[c].from \in Nat
      /\ Len(conn[c].head) \in Nat
  BY DEF Inv, Requests, Typed, Sizes
<1>2. /\ head \in Seq(Nat) /\ Len(head) = Len(conn[c].head) + 1
      /\ \A i \in 1..Len(conn[c].head) : head[i] = conn[c].head[i]
      /\ head[Len(conn[c].head) + 1] = conn[c].next
  BY <1>1, AppendProperties
<1> HIDE DEF head
<1>3. ASSUME conn[c].open
      PROVE  /\ Tidy(conn[c]) /\ conn[c].buf = <<>>
             /\ conn[c].next + 1 = conn[c].from + Len(head)
             /\ \A i \in 1..Len(head) : head[i] = conn[c].from + i - 1
             /\ ~conn[c].ranged => conn[c].from = 0 /\ conn[c].end = Size
  <2>1. Tidy(conn[c])
    BY <1>3 DEF Inv, Requests
  <2>2. /\ conn[c].buf = <<>> /\ conn[c].next = conn[c].from + Len(conn[c].head)
        /\ \A i \in 1..Len(conn[c].head) : conn[c].head[i] = conn[c].from + i - 1
        /\ ~conn[c].ranged => conn[c].from = 0 /\ conn[c].end = Size
    BY <2>1 DEF Tidy
  <2>3. conn[c].next + 1 = conn[c].from + Len(head)
    <3>1. PICK f, l, n \in Nat : f = conn[c].from /\ l = Len(conn[c].head) /\ n = conn[c].next
      BY <1>1
    <3>2. n = f + l /\ Len(head) = l + 1
      BY <1>2, <2>2, <3>1
    <3>3. n + 1 = f + (l + 1)
      BY <3>2
    <3> QED BY <3>1, <3>2, <3>3
  <2>4. ASSUME NEW i \in 1..Len(head)
        PROVE  head[i] = conn[c].from + i - 1
    <3>1. CASE i <= Len(conn[c].head)
      BY <1>1, <1>2, <2>2, <3>1
    <3>2. CASE ~(i <= Len(conn[c].head))
      <4>1. i = Len(conn[c].head) + 1 /\ i - 1 = Len(conn[c].head) /\ i \in Nat
        BY <1>1, <1>2, <3>2
      <4>2. head[i] = conn[c].from + Len(conn[c].head)
        BY <1>2, <2>2, <4>1
      <4> QED BY <1>1, <4>1, <4>2
    <3> QED BY <3>1, <3>2
  <2> QED BY <2>1, <2>2, <2>3, <2>4
<1> QED BY <1>2, <1>3 DEF head

\* What is left of a front when it is cut.
LEMMA Stripped ==
  ASSUME Sizes, Inv, NEW c \in Conns, NEW head \in Seq(Nat)
  PROVE  LET cut == StartsAt(c, head)
             units == SubSeq(head, cut + 1, Len(head)) IN
         /\ cut \in 0..Len(head) /\ units \in Seq(Nat) /\ Len(units) = Len(head) - cut
         /\ \A i \in 1..Len(units) : units[i] = head[cut + i]
<1>1. wrap \in Nat /\ Len(head) \in Nat
  BY DEF Inv, Player, Sizes
<1>2. StartsAt(c, head) \in 0..Len(head)
  BY <1>1 DEF StartsAt
<1> HIDE DEF StartsAt
<1> QED BY <1>2, SuffixIs

LEMMA ChunkStep == ASSUME Sizes, Inv, NEW c \in Conns, Chunk(c) PROVE Inv'
<1> DEFINE head == Append(conn[c].head, conn[c].next)
           cut  == StartsAt(c, head)
<1>1. /\ conn[c].pc \in {"peek", "flow"} /\ conn[c].next < conn[c].end
      /\ UNCHANGED <<wrap, byRange, at, held, seeks>>
  BY DEF Chunk
<1>2. Typed(conn[c]) /\ conn[c].next \in Nat /\ conn[c].end <= Size /\ conn[c].from \in Nat
      /\ Shift \in Nat /\ ranges \in BOOLEAN /\ seeks \in 0..MaxSeeks
  BY DEF Inv, Requests, Typed, Player, Sizes, Shift
<1>3. CASE conn[c].pc = "flow"
  <2>1. Set(c, Written(c, <<conn[c].next>>, "drain")) /\ ranges' = ranges
    BY <1>3 DEF Chunk
  <2>2. <<conn[c].next>> \in Seq(Nat) /\ Len(<<conn[c].next>>) = 1 /\ <<conn[c].next>>[1] = conn[c].next
    BY <1>2
  <2>3. ASSUME conn[c].open
        PROVE  Follows(c, <<conn[c].next>>) /\ ~(Shift # 0 /\ ranges')
    <3>1. conn[c].next = conn[c].from + Shift + Len(conn[c].buf) /\ Len(conn[c].buf) \in Nat
      BY <1>2, <1>3, <2>3 DEF Inv, Requests, Tidy, Typed
    <3> HIDE DEF Shift
    <3>2. conn[c].next + 1 = conn[c].from + Shift + Len(conn[c].buf) + 1
      BY <1>2, <3>1
    <3>3. \A i \in 1..1 : i = 1 /\ conn[c].from + Shift + Len(conn[c].buf) + i - 1 = conn[c].next
      BY <1>2, <3>1
    <3>4. ~(Shift # 0 /\ ranges')
      BY <1>3, <2>1, <2>3 DEF Inv, Uncut
    <3> QED BY <2>2, <3>2, <3>3, <3>4 DEF Follows
  <2> QED BY <1>1, <1>2, <2>1, <2>2, <2>3, WrittenOn
<1>4. CASE conn[c].pc = "peek" /\ Len(head) < Peek
  <2> DEFINE f == [head |-> head, next |-> conn[c].next + 1]
  <2>1. Set(c, f) /\ ranges' = ranges
    BY <1>4 DEF Chunk
  <2>2. /\ head \in Seq(Nat) /\ Len(head) = Len(conn[c].head) + 1
        /\ conn[c].open =>
              /\ Tidy(conn[c]) /\ conn[c].buf = <<>>
              /\ conn[c].next + 1 = conn[c].from + Len(head)
              /\ \A i \in 1..Len(head) : head[i] = conn[c].from + i - 1
              /\ ~conn[c].ranged => conn[c].from = 0 /\ conn[c].end = Size
    BY <1>1, <1>4, HeldBack
  <2>3. Len(head) < Peek
    BY <1>4
  <2> HIDE DEF head
  <2>4. /\ conn' = [x \in Conns |-> conn'[x]] /\ \A d \in Conns : d # c => conn'[d] = conn[d]
        /\ DOMAIN conn'[c] = Fields
        /\ \A k \in Fields : conn'[c][k] = IF k \in DOMAIN f THEN f[k] ELSE conn[c][k]
    BY <2>1, SetIs
  <2>5. /\ conn'[c].head = head /\ conn'[c].next = conn[c].next + 1
        /\ conn'[c].pc = conn[c].pc /\ conn'[c].buf = conn[c].buf
        /\ conn'[c].from = conn[c].from /\ conn'[c].end = conn[c].end
        /\ conn'[c].open = conn[c].open /\ conn'[c].ranged = conn[c].ranged
    BY <2>4 DEF Fields
  <2> HIDE DEF f
  <2>6. conn[c].next + 1 \in 0..Size
    BY <1>1, <1>2 DEF Typed, Sizes
  <2>7. Typed(conn'[c])
    BY <1>2, <2>2, <2>4, <2>5, <2>6 DEF Typed
  <2>8. conn'[c].open => Tidy(conn'[c]) /\ conn[c].open
    BY <1>4, <2>2, <2>3, <2>5 DEF Tidy
  <2>9. conn'[c].open => conn'[c].pc \notin {"flow", "drain"} /\ conn'[c].buf = <<>>
    BY <1>4, <2>2, <2>5
  <2> QED BY <1>1, <1>2, <2>1, <2>4, <2>7, <2>8, <2>9, OneMoves
<1>5. CASE conn[c].pc = "peek" /\ ~(Len(head) < Peek)
  <2> DEFINE units == SubSeq(head, cut + 1, Len(head))
  <2>1. Set(c, Written(c, units, "drain")) /\ ranges' = Seekable(c, cut)
    BY <1>5 DEF Chunk
  <2>2. /\ head \in Seq(Nat) /\ Len(head) = Len(conn[c].head) + 1
        /\ conn[c].open =>
              /\ Tidy(conn[c]) /\ conn[c].buf = <<>>
              /\ conn[c].next + 1 = conn[c].from + Len(head)
              /\ \A i \in 1..Len(head) : head[i] = conn[c].from + i - 1
              /\ ~conn[c].ranged => conn[c].from = 0 /\ conn[c].end = Size
    BY <1>1, <1>5, HeldBack
  <2>3. ~(Len(head) < Peek)
    BY <1>5
  <2> HIDE DEF head
  <2>4. /\ cut \in 0..Len(head) /\ units \in Seq(Nat) /\ Len(units) = Len(head) - cut
        /\ \A i \in 1..Len(units) : units[i] = head[cut + i]
    BY <2>2, Stripped
  <2>5. ranges' \in BOOLEAN /\ (ranges' => ranges) /\ (conn[c].open /\ ranges' => cut = 0)
    BY <1>2, <2>1 DEF Seekable
  <2> HIDE DEF units, cut
  <2>6. ASSUME conn[c].open
        PROVE  Follows(c, units) /\ ~(Shift # 0 /\ ranges')
    <3>1. ASSUME ~conn[c].ranged PROVE Len(head) = Front /\ head[1] = 0
      <4>1. Tidy(conn[c]) /\ conn[c].from = 0 /\ conn[c].end = Size /\ conn[c].next + 1 = 0 + Len(head)
        BY <2>2, <2>6, <3>1
      <4>2. Len(conn[c].head) < Peek
        BY <1>5, <3>1, <4>1 DEF Tidy
      <4>3. Len(head) \in Nat /\ Len(conn[c].head) \in Nat /\ Peek \in Nat \ {0} /\ Size \in Nat
        BY <1>2, <2>2 DEF Typed, Sizes
      <4>4. Len(head) = Peek
        BY <2>2, <2>3, <4>2, <4>3
      <4>5. Peek <= Size
        BY <1>1, <1>2, <4>1, <4>3, <4>4
      <4>6. Front = Peek
        BY <4>3, <4>5 DEF Front
      <4>7. 1 \in 1..Len(head)
        BY <4>3, <4>4
      <4>8. head[1] = 0 + 1 - 1
        BY <2>2, <2>6, <4>1, <4>7
      <4> QED BY <4>4, <4>6, <4>8
    <3>2. cut = Shift
      BY <2>2, <2>6, <3>1, CutIs DEF cut
    <3>3. ~(Shift # 0 /\ ranges')
      BY <2>5, <2>6, <3>2
    <3> HIDE DEF Shift
    <3>4. Len(conn[c].buf) = 0 /\ Len(head) \in Nat /\ Shift <= Len(head)
      BY <2>2, <2>4, <2>6, <3>2
    <3>5. PICK f, s, l, n \in Nat :
            f = conn[c].from /\ s = Shift /\ l = Len(head) /\ n = conn[c].next
      BY <1>2, <3>4
    <3>6. n + 1 = f + l /\ Len(units) = l - s /\ s <= l
      BY <2>2, <2>4, <2>6, <3>2, <3>4, <3>5
    <3>7. n + 1 = f + s + 0 + (l - s)
      BY <3>6
    <3>8. conn[c].next + 1 = conn[c].from + Shift + Len(conn[c].buf) + Len(units)
      BY <3>4, <3>5, <3>6, <3>7
    <3>9. ASSUME NEW i \in 1..Len(units)
          PROVE  units[i] = conn[c].from + Shift + Len(conn[c].buf) + i - 1
      <4>1. i \in Nat /\ s + i \in 1..l
        BY <3>6
      <4>2. units[i] = head[s + i] /\ head[s + i] = f + (s + i) - 1
        BY <2>2, <2>4, <2>6, <3>2, <3>5, <4>1
      <4>3. f + (s + i) - 1 = f + s + 0 + i - 1
        BY <4>1
      <4> QED BY <3>4, <3>5, <4>2, <4>3
    <3> QED BY <3>3, <3>8, <3>9 DEF Follows
  <2> QED BY <1>1, <2>1, <2>4, <2>5, <2>6, WrittenOn
<1> QED BY <1>1, <1>3, <1>4, <1>5

LEMMA SourceEndsStep == ASSUME Sizes, Inv, NEW c \in Conns, SourceEnds(c) PROVE Inv'
<1> DEFINE head  == conn[c].head
           cut   == StartsAt(c, head)
           units == SubSeq(head, cut + 1, Len(head))
           buf   == conn[c].buf \o units
           f     == [pc |-> "sent", alive |-> FALSE, head |-> <<>>, buf |-> buf]
<1>1. /\ conn[c].pc \in {"peek", "flow"} /\ conn[c].next = conn[c].end
      /\ Set(c, f) /\ ranges' = Seekable(c, cut) /\ UNCHANGED <<wrap, byRange, at, held, seeks>>
  BY DEF SourceEnds
<1>2. Typed(conn[c]) /\ head \in Seq(Nat) /\ conn[c].buf \in Seq(Nat) /\ Len(head) \in Nat
      /\ conn[c].next \in Nat /\ conn[c].end <= Size /\ conn[c].from \in Nat
      /\ Shift \in Nat /\ ranges \in BOOLEAN /\ seeks \in 0..MaxSeeks
      /\ Size \in Nat \ {0} /\ Peek \in Nat \ {0}
  BY DEF Inv, Requests, Typed, Player, Sizes, Shift
<1>3. /\ cut \in 0..Len(head) /\ units \in Seq(Nat) /\ Len(units) = Len(head) - cut
      /\ \A i \in 1..Len(units) : units[i] = head[cut + i]
  BY <1>2, Stripped
<1>4. buf \in Seq(Nat) /\ (conn[c].buf = <<>> => buf = units) /\ (units = <<>> => buf = conn[c].buf)
  <2> HIDE DEF units
  <2> QED BY <1>2, <1>3, ConcatProperties, ConcatEmptySeq
<1>5. ranges' \in BOOLEAN /\ (ranges' => ranges) /\ (conn[c].open /\ ranges' => cut = 0)
  BY <1>1, <1>2 DEF Seekable
<1> HIDE DEF buf, units, cut
<1>6. /\ conn' = [x \in Conns |-> conn'[x]] /\ \A d \in Conns : d # c => conn'[d] = conn[d]
      /\ DOMAIN conn'[c] = Fields
      /\ \A k \in Fields : conn'[c][k] = IF k \in DOMAIN f THEN f[k] ELSE conn[c][k]
  BY <1>1, SetIs
<1>7. /\ conn'[c].pc = "sent" /\ conn'[c].buf = buf /\ conn'[c].head = <<>>
      /\ conn'[c].next = conn[c].next /\ conn'[c].from = conn[c].from /\ conn'[c].end = conn[c].end
      /\ conn'[c].open = conn[c].open /\ conn'[c].ranged = conn[c].ranged
  BY <1>6 DEF Fields
<1> HIDE DEF f
<1>8. Typed(conn'[c])
  BY <1>2, <1>4, <1>6, <1>7 DEF Typed
<1>9. ASSUME conn[c].open
      PROVE  /\ \A i \in 1..Len(buf) : buf[i] = conn[c].from + Shift + i - 1 /\ buf[i] < Size
             /\ Shift # 0 /\ ranges' => buf = <<>>
  <2>1. Tidy(conn[c])
    BY <1>9 DEF Inv, Requests
  <2>2. CASE conn[c].pc = "flow"
    <3>1. head = <<>> /\ Len(head) = 0
      BY <2>1, <2>2 DEF Tidy
    <3>2. Len(units) = 0
      BY <1>3, <3>1
    <3>3. units = <<>>
      BY <1>3, <3>2
    <3>4. buf = conn[c].buf
      BY <1>4, <3>3
    <3> QED BY <1>5, <1>9, <2>1, <2>2, <3>4 DEF Tidy, Inv, Uncut
  <2>3. CASE conn[c].pc = "peek"
    <3>1. /\ conn[c].buf = <<>> /\ conn[c].next = conn[c].from + Len(head)
          /\ \A i \in 1..Len(head) : head[i] = conn[c].from + i - 1
          /\ ~conn[c].ranged => conn[c].from = 0 /\ conn[c].end = Size /\ Len(head) < Peek
      BY <2>1, <2>3 DEF Tidy
    <3>2. ASSUME ~conn[c].ranged PROVE Len(head) = Front /\ head[1] = 0
      <4>1. Len(head) = Size /\ Size < Peek /\ conn[c].from = 0
        BY <1>1, <1>2, <3>1, <3>2
      <4>2. head[1] = 0 + 1 - 1
        BY <1>2, <3>1, <4>1
      <4> QED BY <4>1, <4>2 DEF Front
    <3>3. cut = Shift
      BY <1>2, <2>1, <3>2, CutIs DEF cut
    <3>4. Len(units) = Len(head) - Shift /\ buf = units
      BY <1>3, <1>4, <3>1, <3>3
    <3> HIDE DEF Shift
    <3>5. PICK fr, s, l, n \in Nat :
            fr = conn[c].from /\ s = Shift /\ l = Len(head) /\ n = conn[c].next
      BY <1>2
    <3>6. n = fr + l /\ n <= Size /\ Len(buf) = l - s /\ s <= l /\ Size \in Nat
      BY <1>1, <1>2, <1>3, <3>1, <3>3, <3>4, <3>5
    <3>7. ASSUME NEW i \in 1..Len(buf)
          PROVE  buf[i] = conn[c].from + Shift + i - 1 /\ buf[i] < Size
      <4>1. i \in Nat /\ s + i \in 1..l
        BY <3>6
      <4>2. buf[i] = head[s + i] /\ head[s + i] = fr + (s + i) - 1
        BY <1>3, <3>1, <3>3, <3>4, <3>5, <4>1
      <4>3. fr + (s + i) - 1 = fr + s + i - 1 /\ fr + (s + i) - 1 < Size
        BY <3>6, <4>1
      <4> QED BY <3>5, <4>2, <4>3
    <3>8. ~(Shift # 0 /\ ranges')
      BY <1>5, <1>9, <3>3
    <3> QED BY <3>7, <3>8
  <2> QED BY <1>1, <2>2, <2>3
<1>10. conn'[c].open => Tidy(conn'[c]) /\ conn[c].open
  <2>1. SUFFICES ASSUME conn'[c].open PROVE Tidy(conn'[c]) /\ conn[c].open
    OBVIOUS
  <2>2. conn[c].open /\ Tidy(conn[c])
    BY <1>7, <2>1 DEF Inv, Requests
  <2> QED BY <1>7, <1>9, <2>2 DEF Tidy
<1>11. conn'[c].open /\ Shift # 0 /\ ranges' => conn'[c].pc \notin {"flow", "drain"} /\ conn'[c].buf = <<>>
  BY <1>7, <1>9, <1>10
<1> QED BY <1>1, <1>2, <1>5, <1>6, <1>8, <1>10, <1>11, OneMoves

-----------------------------------------------------------------------------
(* The player asks, reads, leaves and begins again. *)

LEMMA AskStep == ASSUME Sizes, Inv, NEW c \in Conns, Ask(c) PROVE Inv'
<1> DEFINE f == [Idle EXCEPT !.pc = "asked", !.ranged = byRange \/ at > 0, !.from = at, !.open = TRUE]
<1>1. /\ \A d \in Conns : ~conn[d].open
      /\ at < Size /\ (ranges \/ at = 0) /\ Set(c, f)
      /\ UNCHANGED <<wrap, byRange, at, held, ranges, seeks>>
  BY DEF Ask, Listening
<1>2. at \in Nat /\ byRange \in BOOLEAN /\ Size \in Nat
  BY DEF Inv, Player, Sizes
<1>3. /\ conn' = [x \in Conns |-> conn'[x]] /\ \A d \in Conns : d # c => conn'[d] = conn[d]
      /\ DOMAIN conn'[c] = Fields
      /\ \A k \in Fields : conn'[c][k] = IF k \in DOMAIN f THEN f[k] ELSE conn[c][k]
  BY <1>1, SetIs
<1>4. DOMAIN f = Fields /\ f.pc = "asked" /\ f.from = at /\ f.next = 0 /\ f.end = 0
      /\ f.head = <<>> /\ f.buf = <<>>
  BY DEF Idle, Fields
<1>5. f.open /\ f.open \in BOOLEAN /\ f.ranged \in BOOLEAN /\ (f.ranged <=> byRange \/ at > 0)
  BY DEF Idle
<1> HIDE DEF f
<1>6. /\ conn'[c].pc = "asked" /\ conn'[c].from = at /\ conn'[c].next = 0 /\ conn'[c].end = 0
      /\ conn'[c].head = <<>> /\ conn'[c].buf = <<>>
      /\ conn'[c].open = f.open /\ conn'[c].ranged = f.ranged
  BY <1>3, <1>4 DEF Fields
<1>7. Typed(conn'[c])
  BY <1>1, <1>2, <1>3, <1>5, <1>6 DEF Typed
<1>8. f.ranged => Shift = 0
  <2>1. ASSUME f.ranged, ~byRange PROVE Shift = 0
    <3>1. at # 0 /\ ranges
      BY <1>1, <1>2, <1>5, <2>1
    <3> QED BY <3>1 DEF Inv, Uncut
  <2>2. byRange => Shift = 0
    BY DEF Shift
  <2> QED BY <2>1, <2>2
<1>9. Tidy(conn'[c])
  <2>1. ~f.ranged => at = 0
    BY <1>2, <1>5
  <2>2. Len(conn'[c].buf) = 0
    BY <1>6
  <2> QED BY <1>5, <1>6, <1>8, <2>1, <2>2 DEF Tidy
<1>10. Shift' = Shift /\ \A r : Tidy(r) <=> Tidy(r)'
  BY <1>1 DEF Shift, Front, Tidy
<1>11. Requests'
  BY <1>1, <1>3, <1>7, <1>9, <1>10 DEF Inv, Requests, Typed
<1>12. OneOpen'
  BY <1>1, <1>3 DEF OneOpen
<1>13. Uncut'
  BY <1>1, <1>3, <1>6, <1>10 DEF Inv, Uncut
<1>14. Player'
  BY <1>1, <1>10 DEF Inv, Player
<1> QED BY <1>11, <1>12, <1>13, <1>14 DEF Inv

LEMMA LeaveStep == ASSUME Sizes, Inv, NEW c \in Conns, Leave(c) PROVE Inv'
<1> DEFINE f == [open |-> FALSE]
<1>1. /\ seeks < MaxSeeks /\ seeks' = seeks + 1 /\ Set(c, f)
      /\ at' \in {at, 0} \cup (IF ranges /\ held # {} THEN {Size - 1} ELSE {})
      /\ UNCHANGED <<wrap, byRange, held, ranges>>
  BY DEF Leave
<1>2. /\ conn' = [x \in Conns |-> conn'[x]] /\ \A d \in Conns : d # c => conn'[d] = conn[d]
      /\ DOMAIN conn'[c] = Fields
      /\ \A k \in Fields : conn'[c][k] = IF k \in DOMAIN f THEN f[k] ELSE conn[c][k]
  BY <1>1, SetIs
<1>3. /\ conn'[c].pc = conn[c].pc /\ conn'[c].head = conn[c].head /\ conn'[c].buf = conn[c].buf
      /\ conn'[c].from = conn[c].from /\ conn'[c].next = conn[c].next /\ conn'[c].end = conn[c].end
      /\ conn'[c].ranged = conn[c].ranged
  BY <1>2 DEF Fields
<1>4. conn'[c].open \in BOOLEAN /\ ~conn'[c].open
  BY <1>2 DEF Fields
<1> HIDE DEF f
<1>5. Typed(conn'[c])
  BY <1>2, <1>3, <1>4 DEF Typed, Inv, Requests
<1>6. Shift' = Shift /\ \A r : Tidy(r) <=> Tidy(r)'
  BY <1>1 DEF Shift, Front, Tidy
<1>7. Requests'
  BY <1>2, <1>4, <1>5, <1>6 DEF Inv, Requests, Typed
<1>8. OneOpen'
  BY <1>2, <1>4 DEF Inv, OneOpen
<1>9. Uncut'
  BY <1>1, <1>2, <1>4, <1>6 DEF Inv, Uncut
<1>10. Player'
  <2>1. at' \in 0..Size /\ seeks' \in 0..MaxSeeks
    BY <1>1 DEF Inv, Player, Sizes
  <2> QED BY <1>1, <1>6, <2>1 DEF Inv, Player
<1> QED BY <1>7, <1>8, <1>9, <1>10 DEF Inv

LEMMA RewindStep == ASSUME Sizes, Inv, Rewind PROVE Inv'
<1>1. Shift' = Shift /\ \A r : Tidy(r) <=> Tidy(r)'
  BY DEF Rewind, Shift, Front, Tidy
<1>2. Requests' /\ OneOpen' /\ Uncut'
  BY <1>1 DEF Rewind, Inv, Requests, OneOpen, Uncut, Typed
<1>3. Player'
  BY <1>1 DEF Rewind, Inv, Player, Sizes
<1> QED BY <1>2, <1>3 DEF Inv

LEMMA ReadStep == ASSUME Sizes, Inv, NEW c \in Conns, Read(c) PROVE Inv'
<1> DEFINE buf  == Tail(conn[c].buf)
           from == conn[c].from + 1
<1>1. /\ conn[c].open /\ conn[c].buf # <<>>
      /\ held' = held \cup {<<conn[c].from, Head(conn[c].buf)>>} /\ at' = from
      /\ conn' = [conn EXCEPT ![c].buf = Tail(@), ![c].from = @ + 1]
      /\ UNCHANGED <<wrap, byRange, ranges, seeks>>
  BY DEF Read
<1>2. /\ Typed(conn[c]) /\ Tidy(conn[c]) /\ conn = [x \in Conns |-> conn[x]]
      /\ conn[c].from \in Nat /\ Shift \in Nat /\ Size \in Nat /\ conn[c].buf \in Seq(Nat)
      /\ DOMAIN conn[c] = Fields
  BY <1>1 DEF Inv, Requests, Typed, Shift, Player, Sizes
<1>3. /\ Len(conn[c].buf) \in Nat \ {0} /\ Head(conn[c].buf) = conn[c].buf[1]
      /\ buf \in Seq(Nat) /\ Len(buf) = Len(conn[c].buf) - 1
      /\ \A i \in 1..Len(buf) : buf[i] = conn[c].buf[i + 1]
  BY <1>1, <1>2, HeadTailProperties, EmptySeq
<1>4. from = conn[c].from + 1
  OBVIOUS
<1> HIDE DEF buf, from
<1>5. /\ conn' = [x \in Conns |-> conn'[x]] /\ \A d \in Conns : d # c => conn'[d] = conn[d]
      /\ DOMAIN conn'[c] = Fields /\ conn'[c].buf = buf /\ conn'[c].from = from
      /\ conn'[c].pc = conn[c].pc /\ conn'[c].head = conn[c].head /\ conn'[c].next = conn[c].next
      /\ conn'[c].end = conn[c].end /\ conn'[c].ranged = conn[c].ranged /\ conn'[c].open = conn[c].open
  BY <1>1, <1>2 DEF buf, from, Fields
<1>6. conn[c].pc \notin {"none", "asked", "peek"}
  BY <1>1, <1>2 DEF Tidy
<1>7. Typed(conn'[c])
  <2>1. from \in Nat
    BY <1>2, <1>4
  <2> QED BY <1>2, <1>3, <1>5, <1>6, <2>1 DEF Typed
<1>8. conn[c].buf[1] = conn[c].from + Shift /\ conn[c].from + Shift < Size
  <2>1. conn[c].buf[1] = conn[c].from + Shift + 1 - 1 /\ conn[c].buf[1] < Size
    <3>1. 1 \in 1..Len(conn[c].buf)
      BY <1>3
    <3> QED BY <1>2, <3>1 DEF Tidy
  <2> HIDE DEF Shift
  <2> QED BY <1>2, <2>1
<1>9. \A i \in 1..Len(buf) : buf[i] = from + Shift + i - 1 /\ buf[i] < Size
  <2>1. SUFFICES ASSUME NEW i \in 1..Len(buf) PROVE buf[i] = from + Shift + i - 1 /\ buf[i] < Size
    OBVIOUS
  <2>2. i + 1 \in 1..Len(conn[c].buf) /\ i \in Nat
    BY <1>3, <2>1
  <2>3. buf[i] = conn[c].from + Shift + (i + 1) - 1 /\ buf[i] < Size
    BY <1>2, <1>3, <2>2 DEF Tidy
  <2> HIDE DEF Shift
  <2>4. conn[c].from + Shift + (i + 1) - 1 = from + Shift + i - 1
    BY <1>2, <1>4, <2>2
  <2> QED BY <2>3, <2>4
<1>10. conn[c].pc \in {"flow", "drain"} => conn[c].next = from + Shift + Len(buf)
  <2>1. SUFFICES ASSUME conn[c].pc \in {"flow", "drain"} PROVE conn[c].next = from + Shift + Len(buf)
    OBVIOUS
  <2>2. conn[c].next = conn[c].from + Shift + Len(conn[c].buf)
    BY <1>2, <2>1 DEF Tidy
  <2> HIDE DEF Shift
  <2> QED BY <1>2, <1>3, <1>4, <2>2
<1>11. Tidy(conn'[c])
  BY <1>2, <1>5, <1>6, <1>9, <1>10 DEF Tidy
<1>12. Shift' = Shift /\ \A r : Tidy(r) <=> Tidy(r)'
  BY <1>1 DEF Shift, Front, Tidy
<1>13. Requests'
  BY <1>5, <1>7, <1>11, <1>12 DEF Inv, Requests, Typed
<1>14. OneOpen'
  BY <1>1, <1>5 DEF Inv, OneOpen
<1>15. Uncut'
  BY <1>1, <1>12 DEF Inv, Uncut
<1>16. Player'
  <2> HIDE DEF Shift
  <2>1. <<conn[c].from, Head(conn[c].buf)>> \in Nat \X Nat
    BY <1>2, <1>3, <1>8
  <2>2. at' \in 0..Size
    BY <1>1, <1>2, <1>4, <1>8
  <2>3. \A x \in held' : x[2] = x[1] + Shift
    BY <1>1, <1>3, <1>8 DEF Inv, Player
  <2> QED BY <1>1, <1>12, <2>1, <2>2, <2>3 DEF Inv, Player
<1> QED BY <1>13, <1>14, <1>15, <1>16 DEF Inv

-----------------------------------------------------------------------------
(* The theorems. *)

LEMMA InvInit == ASSUME Sizes, Init PROVE Inv
<1>1. Requests
  <2>1. /\ DOMAIN Idle = Fields /\ Idle.pc = "none" /\ Idle.open \in BOOLEAN /\ ~Idle.open
        /\ Idle.ranged \in BOOLEAN /\ Idle.from = 0 /\ Idle.next = 0 /\ Idle.end = 0
        /\ Idle.head = <<>> /\ Idle.buf = <<>>
    BY DEF Idle, Fields
  <2>2. conn = [c \in Conns |-> Idle]
    BY DEF Init
  <2>3. Typed(Idle)
    BY <2>1 DEF Typed, Sizes
  <2> QED BY <2>1, <2>2, <2>3 DEF Requests
<1>2. OneOpen
  BY DEF Init, OneOpen, Idle
<1>3. Uncut
  BY DEF Init, Uncut, Idle
<1>4. Player
  BY DEF Init, Player, Sizes
<1> QED BY <1>1, <1>2, <1>3, <1>4 DEF Inv

LEMMA InvNext == ASSUME Sizes, Inv, [Next]_vars PROVE Inv'
<1>1. CASE UNCHANGED vars
  <2>1. Shift' = Shift /\ \A r : Tidy(r) <=> Tidy(r)'
    BY <1>1 DEF vars, Shift, Front, Tidy
  <2> QED BY <1>1, <2>1 DEF vars, Inv, Requests, OneOpen, Uncut, Player, Typed
<1>2. CASE Rewind
  BY <1>2, RewindStep
<1>3. ASSUME NEW c \in Conns, Ask(c) PROVE Inv'
  BY <1>3, AskStep
<1>4. ASSUME NEW c \in Conns, Upstream(c) PROVE Inv'
  BY <1>4, UpstreamStep
<1>5. ASSUME NEW c \in Conns, Handler(c) PROVE Inv'
  <2>1. CASE Chunk(c)
    BY <2>1, ChunkStep
  <2>2. CASE SourceEnds(c)
    BY <2>2, SourceEndsStep
  <2>3. CASE Drained(c)
    BY <2>3, DrainedStep
  <2>4. CASE DrainLost(c)
    BY <2>4, DrainLostStep
  <2>5. CASE Over(c)
    BY <2>5, OverStep
  <2> QED BY <1>5, <2>1, <2>2, <2>3, <2>4, <2>5 DEF Handler
<1>6. ASSUME NEW c \in Conns, SourceBreaks(c) PROVE Inv'
  BY <1>6, SourceBreaksStep
<1>7. ASSUME NEW c \in Conns, Read(c) PROVE Inv'
  BY <1>7, ReadStep
<1>8. ASSUME NEW c \in Conns, Leave(c) PROVE Inv'
  BY <1>8, LeaveStep
<1> QED BY <1>1, <1>2, <1>3, <1>4, <1>5, <1>6, <1>7, <1>8 DEF Next

\* Every request of the player is well formed, what is sent to it and not read
\* follows what it has read, and it listens to one at a time (src/api/stream.js, and
\* the <video> that reads it).
THEOREM Invariance == ASSUME Sizes PROVE Spec => []Inv
<1>1. Init => Inv
  BY InvInit
<1>2. Inv /\ [Next]_vars => Inv'
  BY InvNext
<1> QED BY <1>1, <1>2, PTL DEF Spec

\* The state of the proxy and of its player keeps its types, for films, windows,
\* peeks and buffers of every size.
THEOREM TypeCorrect == ASSUME Sizes PROVE Spec => []TypeOK
<1>1. Inv => TypeOK
  BY DEF Inv, Requests, Typed, Player, TypeOK, Sizes
<1> QED BY <1>1, Invariance, PTL

\* However a film is asked for, broken off and asked for again, and whatever it is
\* disguised as, what the player has of it is shifted by one number (stream.js
\* mediaStartsAt, and the ranges that are then taken from its answers).
THEOREM WithoutASeam == ASSUME Sizes PROVE Spec => []NoSeam
<1>1. Inv => NoSeam
  <2>1. SUFFICES ASSUME Inv, NEW x \in held, NEW y \in held PROVE x[2] - x[1] = y[2] - y[1]
    BY DEF NoSeam
  <2>2. /\ x[1] \in Nat /\ y[1] \in Nat /\ x[2] \in Nat /\ y[2] \in Nat
        /\ x[2] = x[1] + Shift /\ y[2] = y[1] + Shift
    BY <2>1 DEF Inv, Player
  <2>3. Shift \in Nat
    BY <2>1 DEF Shift, Inv, Player, Sizes
  <2> HIDE DEF Shift
  <2> QED BY <2>2, <2>3
<1> QED BY <1>1, Invariance, PTL

-----------------------------------------------------------------------------
(* The repair of a film's address: StreamProxy. *)

CONSTANTS Phones, Asked, Page, Label, Offers, Frames, MaxFrames, MemCap, MaxExpiries,
          Registry, CacheCap

VARIABLES req, cache, flight, browsers, memory, expiries

Proxy == INSTANCE StreamProxy WITH Requests <- Phones

OneBrowserPerPage == Proxy!OneBrowserPerPage
NeverOffSite      == Proxy!NeverOffSite
FirstRefusalSaid  == Proxy!FirstRefusalSaid

Held == {"pc", "asked", "target", "page", "referer", "label", "opened", "first", "fresh",
         "media", "frames", "step", "failed", "read", "answer"}

\* Until it is answered a request is about the address that was asked for; what it was
\* handed instead is of the same site and another; and what is said at the end is of the
\* opening that began the repair.
Repaired(q) ==
  /\ DOMAIN q = Held
  /\ q.pc \in {"new", "open", "bare"} => q.first = None /\ q.fresh = None
  /\ q.pc \notin {"answer", "done"} => q.target = q.asked
  /\ q.target # None => Proxy!SameSite(q.target, q.asked)
  /\ q.fresh # None => Proxy!SameSite(q.fresh.url, q.asked) /\ q.fresh.url # q.asked
  /\ q.pc = "retry" => q.fresh # None
  /\ q.first # None => q.first # "works"
  /\ q.pc = "answer" /\ q.first # None => q.opened = q.first
  /\ q.pc = "done" /\ q.answer.is \in {"502", "415"} /\ q.first # None
       => q.answer.is = (IF q.first = "html-why" THEN "415" ELSE "502")

RepairInv ==
  /\ req = [r \in Phones |-> req[r]] /\ \A r \in Phones : Repaired(req[r])
  /\ flight \in BOOLEAN /\ browsers = IF flight THEN 1 ELSE 0

Updated(q, f) == [k \in DOMAIN q |-> IF k \in DOMAIN f THEN f[k] ELSE q[k]]

LEMMA SetUpdates ==
  ASSUME RepairInv, NEW r \in Phones, NEW f, Proxy!Set(r, f), Repaired(Updated(req[r], f))
  PROVE  req' = [s \in Phones |-> req'[s]] /\ \A s \in Phones : Repaired(req'[s])
<1>1. req' = [req EXCEPT ![r] = Updated(req[r], f)]
  BY DEF Proxy!Set, Updated
<1> QED BY <1>1 DEF RepairInv

\* A request is under repair: it is about the address that was asked for.
Repairing(r) == req[r].pc \in {"ask", "reading", "framing", "waiting", "retry"}

LEMMA NextStepRepairs ==
  ASSUME RepairInv, NEW r \in Phones, Repairing(r)
  PROVE  Repaired(Updated(req[r], Proxy!NextStep(r)))
<1> DEFINE q == req[r]
           u == Updated(q, Proxy!NextStep(r))
<1>1. Repaired(q)
  BY DEF RepairInv
<1>2. CASE q.step = "reread"
  <2>1. Proxy!NextStep(r) = [pc |-> "ask", step |-> "browser", media |-> <<>>, frames |-> 0]
    BY <1>2 DEF Proxy!NextStep
  <2>2. /\ DOMAIN u = Held /\ u.pc = "ask" /\ u.first = q.first /\ u.fresh = q.fresh
        /\ u.target = q.target /\ u.asked = q.asked
    BY <1>1, <2>1 DEF Updated, Repaired, Held
  <2>3. Repaired(u)
    <3> HIDE DEF u
    <3> QED BY <1>1, <2>2 DEF Repaired, Repairing
  <2> QED BY <2>3
<1>3. CASE q.step # "reread"
  <2>1. Proxy!NextStep(r) = [pc |-> "answer", opened |-> q.first]
    BY <1>3 DEF Proxy!NextStep, Proxy!NoneLeft
  <2>2. /\ DOMAIN u = Held /\ u.pc = "answer" /\ u.first = q.first /\ u.fresh = q.fresh
        /\ u.target = q.target /\ u.asked = q.asked /\ u.opened = q.first
    BY <1>1, <2>1 DEF Updated, Repaired, Held
  <2>3. Repaired(u)
    <3> HIDE DEF u
    <3> QED BY <1>1, <2>2 DEF Repaired, Repairing
  <2> QED BY <2>3
<1> QED BY <1>2, <1>3

\* Whatever a page offers, what is chosen from it is of the site that refused, and not
\* what was refused.
LEMMA ChosenIsSited ==
  ASSUME NEW found, NEW refused, NEW label, Proxy!Choose(found, refused, label) # None
  PROVE  /\ Proxy!SameSite(Proxy!Choose(found, refused, label).url, refused)
         /\ Proxy!Choose(found, refused, label).url # refused
BY DEF Proxy!Choose

LEMMA PickRepairs ==
  ASSUME RepairInv, NEW r \in Phones, Repairing(r), NEW found
  PROVE  Repaired(Updated(req[r], Proxy!Pick(r, found)))
<1> DEFINE q == req[r]
           got == Proxy!Choose(found, q.target, q.label)
           u == Updated(q, Proxy!Pick(r, found))
<1>1. Repaired(q)
  BY DEF RepairInv
<1>2. CASE got = None
  BY <1>2, NextStepRepairs DEF Proxy!Pick
<1>3. CASE got # None
  <2>1. Proxy!SameSite(got.url, q.target) /\ got.url # q.target
    BY <1>3, ChosenIsSited
  <2> HIDE DEF got
  <2>2. Proxy!Pick(r, found) = [pc |-> "retry", fresh |-> got, media |-> <<>>, frames |-> 0]
    BY <1>3 DEF Proxy!Pick, got
  <2>3. /\ DOMAIN u = Held /\ u.pc = "retry" /\ u.first = q.first /\ u.fresh = got
        /\ u.target = q.target /\ u.asked = q.asked
    BY <1>1, <2>2 DEF Updated, Repaired, Held
  <2>4. Repaired(u)
    <3> HIDE DEF u
    <3> QED BY <1>1, <1>3, <2>1, <2>3 DEF Repaired, Repairing
  <2> QED BY <2>4
<1> QED BY <1>2, <1>3

\* A step of one request that leaves the browser alone.
LEMMA OneRequestMoves ==
  ASSUME RepairInv, NEW r \in Phones, NEW f, Proxy!Set(r, f), Repaired(Updated(req[r], f)),
         UNCHANGED <<flight, browsers>>
  PROVE  RepairInv'
BY SetUpdates DEF RepairInv

LEMMA ArriveKeeps ==
  ASSUME RepairInv, NEW r \in Phones, Proxy!Arrive(r) PROVE RepairInv'
<1> DEFINE q == req[r]
<1>1. Repaired(q) /\ q.pc = "new"
  BY DEF RepairInv, Proxy!Arrive
<1>2. PICK a, label, known, ref :
        Proxy!Set(r, [pc |-> "open", asked |-> a, target |-> a, label |-> label,
                      page |-> known, referer |-> ref])
  BY DEF Proxy!Arrive
<1> DEFINE f == [pc |-> "open", asked |-> a, target |-> a, label |-> label,
                 page |-> known, referer |-> ref]
           u == Updated(q, f)
<1>3. /\ DOMAIN u = Held /\ u.pc = "open" /\ u.first = q.first /\ u.fresh = q.fresh
      /\ u.target = a /\ u.asked = a
  BY <1>1 DEF Updated, Repaired, Held
<1>4. Repaired(u)
  <2> HIDE DEF u
  <2> QED BY <1>1, <1>3 DEF Repaired, Proxy!SameSite
<1>5. UNCHANGED <<flight, browsers>>
  BY DEF Proxy!Arrive
<1> HIDE DEF f
<1> QED BY <1>2, <1>4, <1>5, OneRequestMoves DEF f

\* An opening that was refused begins the repair, or is said.
LEMMA AfterOpeningRepairs ==
  ASSUME RepairInv, NEW r \in Phones, req[r].pc \in {"open", "bare"}, NEW o
  PROVE  Repaired(Updated(req[r], Proxy!AfterOpening(r, o)))
<1> DEFINE q == req[r]
           u == Updated(q, Proxy!AfterOpening(r, o))
<1>1. Repaired(q)
  BY DEF RepairInv
<1>2. CASE o # "works" /\ q.page # None
  <2>1. Proxy!AfterOpening(r, o)
          = [pc |-> "ask", step |-> "reread", opened |-> None, first |-> o, failed |-> TRUE]
    BY <1>2 DEF Proxy!AfterOpening, Proxy!Works
  <2>2. /\ DOMAIN u = Held /\ u.pc = "ask" /\ u.first = o /\ u.fresh = q.fresh
        /\ u.target = q.target /\ u.asked = q.asked
    BY <1>1, <2>1 DEF Updated, Repaired, Held
  <2>3. Repaired(u)
    <3> HIDE DEF u
    <3> QED BY <1>1, <1>2, <2>2 DEF Repaired
  <2> QED BY <2>3
<1>3. CASE ~(o # "works" /\ q.page # None)
  <2>1. Proxy!AfterOpening(r, o) = [pc |-> "answer", opened |-> o]
    BY <1>3 DEF Proxy!AfterOpening, Proxy!Works
  <2>2. /\ DOMAIN u = Held /\ u.pc = "answer" /\ u.first = q.first /\ u.fresh = q.fresh
        /\ u.target = q.target /\ u.asked = q.asked
    BY <1>1, <2>1 DEF Updated, Repaired, Held
  <2>3. Repaired(u)
    <3> HIDE DEF u
    <3> QED BY <1>1, <2>2 DEF Repaired
  <2> QED BY <2>3
<1> QED BY <1>2, <1>3

LEMMA OpenedKeeps ==
  ASSUME RepairInv, NEW r \in Phones, Proxy!Opened(r) \/ Proxy!BareOpened(r) PROVE RepairInv'
<1> DEFINE q == req[r]
<1>1. Repaired(q) /\ q.pc \in {"open", "bare"} /\ UNCHANGED <<flight, browsers>>
  BY DEF RepairInv, Proxy!Opened, Proxy!BareOpened, Proxy!shared
<1>2. CASE \E o : Proxy!Set(r, Proxy!AfterOpening(r, o))
  BY <1>1, <1>2, AfterOpeningRepairs, OneRequestMoves
<1>3. CASE \E o : Proxy!Set(r, [pc |-> "bare", opened |-> o])
  <2>1. PICK o : Proxy!Set(r, [pc |-> "bare", opened |-> o])
    BY <1>3
  <2> DEFINE f == [pc |-> "bare", opened |-> o]
             u == Updated(q, f)
  <2>2. /\ DOMAIN u = Held /\ u.pc = "bare" /\ u.first = q.first /\ u.fresh = q.fresh
        /\ u.target = q.target /\ u.asked = q.asked
    BY <1>1 DEF Updated, Repaired, Held
  <2>3. Repaired(u)
    <3> HIDE DEF u
    <3> QED BY <1>1, <2>2 DEF Repaired
  <2> HIDE DEF f
  <2> QED BY <1>1, <2>1, <2>3, OneRequestMoves DEF f
<1>4. CASE Proxy!Opened(r)
  <2>1. PICK o \in Proxy!Replies :
          Proxy!Set(r, IF Proxy!Refused(o) THEN [pc |-> "bare", opened |-> o] ELSE Proxy!AfterOpening(r, o))
    BY <1>4 DEF Proxy!Opened
  <2> QED BY <1>2, <1>3, <2>1
<1>5. CASE Proxy!BareOpened(r)
  BY <1>2, <1>5 DEF Proxy!BareOpened
<1> QED BY <1>4, <1>5

\* A page is asked, and what it says is looked through.
LEMMA AskPageKeeps ==
  ASSUME RepairInv, NEW r \in Phones, Proxy!AskPage(r) PROVE RepairInv'
<1> DEFINE q == req[r]
<1>1. Repaired(q) /\ q.pc = "ask" /\ UNCHANGED <<flight, browsers>>
  BY DEF RepairInv, Proxy!AskPage, Proxy!shared
<1>2. PICK found :
        \/ Proxy!Set(r, Proxy!NextStep(r)) \/ Proxy!Set(r, Proxy!Pick(r, found))
        \/ Proxy!Set(r, [pc |-> "reading", read |-> TRUE])
  BY DEF Proxy!AskPage
<1>3. CASE Proxy!Set(r, Proxy!NextStep(r))
  BY <1>1, <1>3, NextStepRepairs, OneRequestMoves DEF Repairing
<1>4. CASE Proxy!Set(r, Proxy!Pick(r, found))
  BY <1>1, <1>4, PickRepairs, OneRequestMoves DEF Repairing
<1>5. CASE Proxy!Set(r, [pc |-> "reading", read |-> TRUE])
  <2> DEFINE f == [pc |-> "reading", read |-> TRUE]
             u == Updated(q, f)
  <2>1. /\ DOMAIN u = Held /\ u.pc = "reading" /\ u.first = q.first /\ u.fresh = q.fresh
        /\ u.target = q.target /\ u.asked = q.asked
    BY <1>1 DEF Updated, Repaired, Held
  <2>2. Repaired(u)
    <3> HIDE DEF u
    <3> QED BY <1>1, <2>1 DEF Repaired
  <2> HIDE DEF f
  <2> QED BY <1>1, <1>5, <2>2, OneRequestMoves DEF f
<1> QED BY <1>2, <1>3, <1>4, <1>5

\* Whatever a document holds, the walk ends with a choice or goes on with the frames.
LEMMA WalkedKeeps ==
  ASSUME RepairInv, NEW r \in Phones, req[r].pc \in {"reading", "framing"}, NEW found, NEW left,
         Proxy!Walked(r, found, left), UNCHANGED <<flight, browsers>>
  PROVE  RepairInv'
<1> DEFINE q == req[r]
<1>1. Repaired(q)
  BY DEF RepairInv
<1>2. \/ Proxy!Set(r, Proxy!Pick(r, found))
      \/ Proxy!Set(r, [pc |-> "framing", media |-> found, frames |-> left])
  BY DEF Proxy!Walked
<1>3. CASE Proxy!Set(r, Proxy!Pick(r, found))
  BY <1>3, PickRepairs, OneRequestMoves DEF Repairing
<1>4. CASE Proxy!Set(r, [pc |-> "framing", media |-> found, frames |-> left])
  <2> DEFINE f == [pc |-> "framing", media |-> found, frames |-> left]
             u == Updated(q, f)
  <2>1. /\ DOMAIN u = Held /\ u.pc = "framing" /\ u.first = q.first /\ u.fresh = q.fresh
        /\ u.target = q.target /\ u.asked = q.asked
    BY <1>1 DEF Updated, Repaired, Held
  <2>2. Repaired(u)
    <3> HIDE DEF u
    <3> QED BY <1>1, <2>1 DEF Repaired
  <2> HIDE DEF f
  <2> QED BY <1>4, <2>2, OneRequestMoves DEF f
<1> QED BY <1>2, <1>3, <1>4

LEMMA ReadKeeps ==
  ASSUME RepairInv, NEW r \in Phones, Proxy!PageRead(r) \/ Proxy!FrameRead(r) PROVE RepairInv'
<1>1. PICK found, left : Proxy!Walked(r, found, left)
  BY DEF Proxy!PageRead, Proxy!FrameRead
<1>2. req[r].pc \in {"reading", "framing"} /\ UNCHANGED <<flight, browsers>>
  BY DEF Proxy!PageRead, Proxy!FrameRead
<1> QED BY <1>1, <1>2, WalkedKeeps

\* A browser is started only when none is asking: whoever comes second waits for it.
LEMMA AskBrowserKeeps ==
  ASSUME RepairInv, NEW r \in Phones, Proxy!AskBrowser(r) PROVE RepairInv'
<1> DEFINE q == req[r]
<1>1. Repaired(q) /\ q.pc = "ask"
  BY DEF RepairInv, Proxy!AskBrowser
<1>2. CASE /\ \/ Proxy!Set(r, Proxy!NextStep(r))
             \/ \E found : Proxy!Set(r, Proxy!Pick(r, found))
          /\ UNCHANGED <<flight, browsers>>
  BY <1>1, <1>2, NextStepRepairs, PickRepairs, OneRequestMoves DEF Repairing
<1>3. CASE /\ Proxy!Set(r, [pc |-> "waiting", read |-> TRUE])
          /\ flight' = TRUE /\ browsers' = IF flight THEN browsers ELSE browsers + 1
  <2> DEFINE f == [pc |-> "waiting", read |-> TRUE]
             u == Updated(q, f)
  <2>1. /\ DOMAIN u = Held /\ u.pc = "waiting" /\ u.first = q.first /\ u.fresh = q.fresh
        /\ u.target = q.target /\ u.asked = q.asked
    BY <1>1 DEF Updated, Repaired, Held
  <2>2. Repaired(u)
    <3> HIDE DEF u
    <3> QED BY <1>1, <2>1 DEF Repaired
  <2>3. flight' \in BOOLEAN /\ browsers' = IF flight' THEN 1 ELSE 0
    BY <1>3 DEF RepairInv
  <2> HIDE DEF f
  <2>4. req' = [s \in Phones |-> req'[s]] /\ \A s \in Phones : Repaired(req'[s])
    BY <1>3, <2>2, SetUpdates DEF f
  <2> QED BY <2>3, <2>4 DEF RepairInv
<1> QED BY <1>2, <1>3 DEF Proxy!AskBrowser

\* What the browser found is shared: each request that waited makes its own choice.
LEMMA BrowserEndsKeeps == ASSUME RepairInv, Proxy!BrowserEnds PROVE RepairInv'
<1>1. PICK found : req' = [r \in Phones |->
        IF req[r].pc # "waiting" THEN req[r] ELSE Updated(req[r], Proxy!Pick(r, found))]
  BY DEF Proxy!BrowserEnds, Updated
<1>2. ASSUME NEW r \in Phones PROVE Repaired(req'[r])
  <2>1. Repaired(req[r])
    BY DEF RepairInv
  <2>2. CASE req[r].pc # "waiting"
    BY <1>1, <2>1, <2>2
  <2>3. CASE req[r].pc = "waiting"
    <3>1. Repaired(Updated(req[r], Proxy!Pick(r, found)))
      BY <2>3, PickRepairs DEF Repairing
    <3> QED BY <1>1, <2>3, <3>1
  <2> QED BY <2>2, <2>3
<1>3. req' = [r \in Phones |-> req'[r]]
  BY <1>1
<1>4. flight = TRUE /\ flight' = FALSE /\ browsers' = browsers - 1
  BY DEF Proxy!BrowserEnds, RepairInv
<1>5. browsers = 1
  BY <1>4 DEF RepairInv
<1>6. browsers' = 0
  BY <1>4, <1>5
<1>7. flight' \in BOOLEAN /\ browsers' = IF flight' THEN 1 ELSE 0
  BY <1>4, <1>6, Zenon
<1> QED BY <1>2, <1>3, <1>7 DEF RepairInv

\* A fresh address that works is the request's from then on; one that does not leaves
\* what began the repair where it was.
LEMMA RetriedKeeps ==
  ASSUME RepairInv, NEW r \in Phones, Proxy!Retried(r) PROVE RepairInv'
<1> DEFINE q == req[r]
<1>1. Repaired(q) /\ q.pc = "retry" /\ UNCHANGED <<flight, browsers>>
  BY DEF RepairInv, Proxy!Retried
<1>2. CASE Proxy!Set(r, Proxy!NextStep(r))
  BY <1>1, <1>2, NextStepRepairs, OneRequestMoves DEF Repairing
<1>3. CASE \E o : Proxy!Set(r, [pc |-> "answer", opened |-> o, first |-> None, failed |-> FALSE,
                                target |-> q.fresh.url])
  <2>1. PICK o : Proxy!Set(r, [pc |-> "answer", opened |-> o, first |-> None, failed |-> FALSE,
                               target |-> q.fresh.url])
    BY <1>3
  <2> DEFINE f == [pc |-> "answer", opened |-> o, first |-> None, failed |-> FALSE,
                   target |-> q.fresh.url]
             u == Updated(q, f)
  <2>2. /\ DOMAIN u = Held /\ u.pc = "answer" /\ u.first = None /\ u.fresh = q.fresh
        /\ u.target = q.fresh.url /\ u.asked = q.asked
    BY <1>1 DEF Updated, Repaired, Held
  <2>3. Repaired(u)
    <3> HIDE DEF u
    <3> QED BY <1>1, <2>2 DEF Repaired
  <2> HIDE DEF f
  <2> QED BY <1>1, <2>1, <2>3, OneRequestMoves DEF f
<1> QED BY <1>2, <1>3 DEF Proxy!Retried

\* What is said at the end is of what was opened, and under a repair that failed that is
\* the opening that began it.
LEMMA AnswerKeeps ==
  ASSUME RepairInv, NEW r \in Phones, Proxy!Answer(r) PROVE RepairInv'
<1> DEFINE q == req[r]
           o == q.opened
           said(list) == IF o # "works"
                         THEN [is |-> IF o = "html-why" THEN "415" ELSE "502",
                               note |-> Proxy!Refused(o) /\ q.failed]
                         ELSE IF list THEN [is |-> "list", referer |-> q.referer] ELSE [is |-> "film"]
<1>1. Repaired(q) /\ q.pc = "answer" /\ UNCHANGED <<flight, browsers>>
  BY DEF RepairInv, Proxy!Answer, Proxy!shared
<1>2. PICK list \in BOOLEAN :
        Proxy!Set(r, [pc |-> "done", opened |-> None, media |-> <<>>, frames |-> 0,
                      step |-> "none", answer |-> said(list)])
  BY DEF Proxy!Answer, Proxy!Works
<1>3. o # "works" => said(list).is = IF o = "html-why" THEN "415" ELSE "502"
  OBVIOUS
<1> DEFINE a == said(list)
           f == [pc |-> "done", opened |-> None, media |-> <<>>, frames |-> 0,
                 step |-> "none", answer |-> a]
           u == Updated(q, f)
<1> HIDE DEF said
<1>4. /\ DOMAIN u = Held /\ u.pc = "done" /\ u.first = q.first /\ u.fresh = q.fresh
      /\ u.target = q.target /\ u.asked = q.asked /\ u.answer = a
  BY <1>1 DEF Updated, Repaired, Held
<1>5. Repaired(u)
  <2> HIDE DEF u
  <2> QED BY <1>1, <1>3, <1>4 DEF Repaired
<1> HIDE DEF f
<1> QED BY <1>1, <1>2, <1>5, OneRequestMoves DEF f

LEMMA RepairInit == ASSUME Proxy!Init PROVE RepairInv
<1>1. \A r \in Phones : req[r] = Proxy!New
  BY DEF Proxy!Init
<1>2. Repaired(Proxy!New)
  BY DEF Repaired, Held, Proxy!New, Proxy!SameSite
<1> QED BY <1>1, <1>2 DEF RepairInv, Proxy!Init

LEMMA RepairNext == ASSUME RepairInv, [Proxy!Next]_(Proxy!vars) PROVE RepairInv'
<1>1. CASE Proxy!BrowserEnds
  BY <1>1, BrowserEndsKeeps
<1>2. CASE UNCHANGED Proxy!vars \/ Proxy!Expire
  BY <1>2 DEF RepairInv, Proxy!vars, Proxy!Expire
<1>3. ASSUME NEW r \in Phones, Proxy!Arrive(r) \/ Proxy!Step(r) PROVE RepairInv'
  BY <1>3, ArriveKeeps, OpenedKeeps, AskPageKeeps, ReadKeeps, AskBrowserKeeps, RetriedKeeps,
     AnswerKeeps DEF Proxy!Step
<1> QED BY <1>1, <1>2, <1>3 DEF Proxy!Next

LEMMA RepairInvariance == Proxy!Spec => []RepairInv
<1> QED BY RepairInit, RepairNext, PTL DEF Proxy!Spec

\* However many televisions are refused one film at once, one browser asks its page:
\* deepRescan of src/lib/reissue.js hands every caller the promise of the first.
THEOREM OneBrowser == Proxy!Spec => []OneBrowserPerPage
<1>1. RepairInv => OneBrowserPerPage
  BY DEF RepairInv, OneBrowserPerPage, Proxy!OneBrowserPerPage
<1> QED BY <1>1, RepairInvariance, PTL

\* Whatever the pages, their frames and the browser say, a film is only ever repaired with
\* an address of the site it was asked from (sameSite, src/lib/reissue.js), never with the
\* one that was refused.
THEOREM StaysOnSite == Proxy!Spec => []NeverOffSite
<1>1. RepairInv => NeverOffSite
  BY DEF RepairInv, Repaired, NeverOffSite, Proxy!NeverOffSite
<1> QED BY <1>1, RepairInvariance, PTL

\* After a repair that came to nothing, however it did, the television is told what the
\* host said first of the address it asked for (src/api/stream.js).
THEOREM SaysTheFirstRefusal == Proxy!Spec => []FirstRefusalSaid
<1>1. RepairInv => FirstRefusalSaid
  BY DEF RepairInv, Repaired, FirstRefusalSaid, Proxy!FirstRefusalSaid, Proxy!Ends
<1> QED BY <1>1, RepairInvariance, PTL

-----------------------------------------------------------------------------
(* The stream host's folder: FileShelf. *)

CONSTANTS Files, Hands, Timer, Keeps, FILE_TTL, TMP_TTL, MaxNow, MaxCrashes

VARIABLES parts, media, metas, expires, mtime, up, job, now, swept, crashes, promise, touched

Folder == INSTANCE FileShelf

KeptUntilItsTime == Folder!KeptUntilItsTime
NoneOutstays     == Folder!NoneOutstays

\* Films outlive parts: an hour for a part, and more for a film without a meta
\* (CAST_FILE_TTL_HOURS, a day if it is not set).
FilmsOutliveParts ==
  /\ Keeps \subseteq Nat /\ TMP_TTL \in Nat \ {0} /\ FILE_TTL \in Nat /\ TMP_TTL < FILE_TTL
  /\ MaxNow \in Nat /\ MaxCrashes \in Nat

-----------------------------------------------------------------------------
(* Types. *)
Upload == [pc : Folder!UpPcs, exp : Nat, keep : Keeps \cup {0}, live : BOOLEAN]
Work == [op : {"idle", "redate", "remove", "clear", "sweep"}, pc : Folder!JobPcs,
         names : SUBSET Folder!Names, known : SUBSET Files, exp : Nat, live : BOOLEAN, id : SUBSET Files]

OnDisk ==
  /\ parts \subseteq Files /\ media \subseteq Files
  /\ metas \in [Files -> {"none", "torn", "whole"}] /\ expires \in [Files -> Nat] /\ mtime \in [Files -> 0..now]
InMemory ==
  /\ up \in [Files -> Upload] /\ job \in [Folder!Jobs -> Work]
Said ==
  /\ now \in 0..MaxNow /\ swept \in BOOLEAN /\ crashes \in 0..MaxCrashes
  /\ promise \in [Files -> Nat \cup {-1, -2}] /\ touched \subseteq Files
ShelfTyped == OnDisk /\ InMemory /\ Said

-----------------------------------------------------------------------------
(* What is true of a file, and of a job. *)

\* Young: no sweep takes it for an orphan.  Lost: a person was owed it no longer, or never.
Young(f) == mtime[f] > now - FILE_TTL
Lost(f)  == f \in touched \/ promise[f] = -2 \/ promise[f] \in 1..now \/ up[f].pc \in {"failed", "unstored", "refused"}
Stored(f) == up[f].pc = "answered"
Begun(f)  == up[f].pc \notin {"new", "sending", "whole"}
Fresh(exp) == exp = 0 \/ exp > now

\* What a sweep is there to take.
Late(f)  == f \in media /\ metas[f] = "whole" /\ Folder!Due(f)
Stale(f) == f \in parts /\ mtime[f] <= now - TMP_TTL

\* Nothing is said of a file before it is stored, and while it is being stored it is new.
Told(f) ==
  /\ metas[f] = "whole" \/ f \in touched \/ promise[f] \in Nat => Stored(f)
  /\ Stored(f) => promise[f] # -1
  /\ f \in media => Begun(f)
Arriving(f) ==
  /\ up[f].pc \in {"named", "writing"} => (f \in media \/ promise[f] = -2) /\ mtime[f] >= now - TMP_TTL
  /\ up[f].pc = "writing" => Fresh(up[f].exp) /\ (promise[f] = -2 \/ (metas[f] = "torn" /\ up[f].live))
\* Nothing is more than an hour late.
InTime(f) ==
  /\ f \in parts => mtime[f] >= now - TMP_TTL
  /\ f \in media /\ metas[f] = "whole" /\ expires[f] # 0 => expires[f] >= now
Taken(f) == swept => ~Late(f) /\ ~Stale(f)
Kept(f) ==
  Folder!Owed(f) /\ f \notin touched => f \in media /\ metas[f] = "whole" /\ expires[f] = promise[f]
FileOK(f) == Told(f) /\ Arriving(f) /\ InTime(f) /\ Taken(f) /\ Kept(f)

\* Which states a job may be in, and that it works on one file or on none.
Stands(j) ==
  /\ job[j].op = "idle" => job[j].pc = "idle"
  /\ job[j].op = "redate" => job[j].pc \in {"open", "write"}
  /\ job[j].op = "remove" => job[j].pc \in {"media", "meta"}
  /\ job[j].op = "clear" => job[j].pc \in {"tmp", "files", "all"}
  /\ job[j].op = "sweep" => job[j].pc \in {"metas", "again", "media", "meta", "orphans", "parts"}
  /\ IF job[j].pc \in {"open", "write", "media", "meta", "again"}
     THEN \E f \in Files : job[j].id = {f} ELSE job[j].id = {}

\* A job works on a stored file: a sweep on one that it may take, a re-date on one that a
\* person re-dates.
JobHeld(j) ==
  /\ \A f \in job[j].id : Stored(f) /\ (job[j].op = "sweep" => Lost(f))
  /\ job[j].op = "redate" => Fresh(job[j].exp) /\ job[j].id \subseteq touched

\* The sweep's first walk: a film is in the list it read only with its meta, or it met the
\* meta already, or may leave the film alone or take it; what is late is in the list.
Listing(j) ==
  job[j].op = "sweep" /\ job[j].pc \in {"metas", "again", "media", "meta"} =>
    /\ job[j].names \subseteq {"media", "meta"} \X Files
    /\ \A f \in Files : <<"media", f>> \in job[j].names =>
         Begun(f) /\ (<<"meta", f>> \in job[j].names \/ f \in job[j].known \/ Young(f) \/ Lost(f))
    /\ \A f \in Files : Late(f) => <<"meta", f>> \in job[j].names \/ f \in job[j].id

\* The second and the third: films without a meta, and parts.
Orphans(j) ==
  job[j].op = "sweep" /\ job[j].pc = "orphans" =>
    /\ job[j].names \subseteq {"media"} \X Files
    /\ \A f \in Files : <<"media", f>> \in job[j].names => Young(f) \/ Lost(f)
    /\ \A f \in Files : ~Late(f)
Leftovers(j) ==
  job[j].op = "sweep" /\ job[j].pc = "parts" =>
    /\ job[j].names \subseteq {"part"} \X Files
    /\ \A f \in Files : ~Late(f) /\ (Stale(f) => <<"part", f>> \in job[j].names)

JobOK(j) == Stands(j) /\ JobHeld(j) /\ Listing(j) /\ Orphans(j) /\ Leftovers(j)

FilesOK == \A f \in Files : FileOK(f)
JobsOK  == \A j \in Folder!Jobs : JobOK(j)
ShelfOK == ShelfTyped /\ FilesOK /\ JobsOK

-----------------------------------------------------------------------------
(* What a step leaves as it was. *)

\* One that takes nothing back and makes nothing late.
Calm ==
  /\ now' = now /\ touched \subseteq touched'
  /\ \A f \in Files : /\ Lost(f) => Lost(f)'
                      /\ Young(f) => Young(f)'
                      /\ Stored(f) => Stored(f)'
                      /\ Begun(f) => Begun(f)'
                      /\ Late(f)' => Late(f)
                      /\ Stale(f)' => Stale(f)

\* A job that stands where it stood; the file it writes may have lost its name.
Still(j) ==
  /\ job'[j].op = job[j].op /\ job'[j].pc = job[j].pc /\ job'[j].names = job[j].names
  /\ job'[j].known = job[j].known /\ job'[j].exp = job[j].exp /\ job'[j].id = job[j].id

LEMMA JobStays ==
  ASSUME NEW j \in Folder!Jobs, ShelfTyped, JobOK(j), Still(j), Calm
  PROVE  JobOK(j)'
<1>1. Stands(j)'
  BY DEF JobOK, Stands, Still
<1>2. JobHeld(j)'
  <2>1. job[j].id \subseteq Files
    BY DEF ShelfTyped, InMemory, Work
  <2>2. \A f \in job'[j].id : Stored(f)' /\ (job'[j].op = "sweep" => Lost(f)')
    BY <2>1 DEF JobOK, JobHeld, Calm, Still
  <2>3. job'[j].op = "redate" => Fresh(job[j].exp)' /\ job'[j].id \subseteq touched'
    BY <2>1 DEF JobOK, JobHeld, Calm, Fresh, Still
  <2> QED BY <2>2, <2>3 DEF JobHeld
<1>3. Listing(j)'
  BY DEF JobOK, Listing, Still, Calm
<1>4. Orphans(j)'
  BY DEF JobOK, Orphans, Still, Calm
<1>5. Leftovers(j)'
  BY DEF JobOK, Leftovers, Still, Calm
<1> QED BY <1>1, <1>2, <1>3, <1>4, <1>5 DEF JobOK

LEMMA IdleIs == Folder!Idle \in Work /\ \A j \in Folder!Jobs : job'[j] = Folder!Idle => JobOK(j)'
BY DEF Folder!Idle, Work, Folder!JobPcs, JobOK, Stands, JobHeld, Listing, Orphans, Leftovers

\* A file of which nothing changed, the hour and the sweep's mark included.
SameFile(f) ==
  /\ now' = now /\ (swept' => swept) /\ (f \in touched <=> f \in touched')
  /\ promise'[f] = promise[f] /\ up'[f] = up[f] /\ metas'[f] = metas[f] /\ expires'[f] = expires[f] /\ mtime'[f] = mtime[f]
  /\ (f \in parts <=> f \in parts') /\ (f \in media <=> f \in media')

LEMMA FileStays ==
  ASSUME NEW f \in Files, FileOK(f), SameFile(f)
  PROVE  FileOK(f)'
BY DEF FileOK, SameFile, Told, Arriving, InTime, Taken, Kept, Stored, Begun, Late, Stale, Fresh, Folder!Due, Folder!Owed, Folder!Forever

\* A step of one job that is not about the disk.
JobOnly(j, p) ==
  /\ job' = [job EXCEPT ![j] = p]
  /\ UNCHANGED <<parts, media, metas, expires, mtime, up, now, swept, crashes, promise, touched>>

LEMMA NothingElse ==
  ASSUME UNCHANGED <<parts, media, metas, expires, mtime, up, now, promise>>, touched \subseteq touched'
  PROVE  Calm
BY DEF Calm, Lost, Young, Stored, Begun, Late, Stale, Folder!Due, Folder!Forever

\* The other jobs after a step of one of them.
LEMMA OthersStay ==
  ASSUME ShelfOK, NEW j \in Folder!Jobs, NEW p, job' = [job EXCEPT ![j] = p], JobOK(j)', Calm
  PROVE  JobsOK'
<1>1. ASSUME NEW k \in Folder!Jobs PROVE JobOK(k)'
  <2>1. CASE k = j
    BY <2>1
  <2>2. CASE k # j
    <3>1. Still(k) /\ ShelfTyped /\ JobOK(k)
      BY <2>2 DEF ShelfOK, ShelfTyped, InMemory, JobsOK, Still
    <3> QED BY <3>1, JobStays
  <2> QED BY <2>1, <2>2
<1> QED BY <1>1 DEF JobsOK

LEMMA OnlyTheJob ==
  ASSUME ShelfOK, NEW j \in Folder!Jobs, NEW p \in Work, JobOnly(j, p), JobOK(j)'
  PROVE  ShelfOK'
<1> USE DEF JobOnly
<1>1. Calm
  BY NothingElse
<1>2. ShelfTyped'
  BY DEF ShelfOK, ShelfTyped, OnDisk, InMemory, Said
<1>3. ASSUME NEW f \in Files PROVE FileOK(f)'
  BY FileStays DEF ShelfOK, FilesOK, SameFile
<1>4. JobsOK'
  BY <1>1, OthersStay
<1> QED BY <1>2, <1>3, <1>4 DEF ShelfOK, FilesOK

-----------------------------------------------------------------------------
(* An upload. *)

\* A step about one file: what it takes nothing back of, and makes neither late nor stale.
CalmAt(f) ==
  /\ Lost(f) => Lost(f)'
  /\ Young(f) => Young(f)'
  /\ Stored(f) => Stored(f)'
  /\ Begun(f) => Begun(f)'
  /\ Late(f)' => Late(f)
  /\ Stale(f)' => Stale(f)

LEMMA CalmOfOne ==
  ASSUME NEW f \in Files, CalmAt(f), \A g \in Files \ {f} : SameFile(g), now' = now, touched \subseteq touched'
  PROVE  Calm
<1>1. ASSUME NEW g \in Files PROVE CalmAt(g)
  <2>1. CASE g = f
    BY <2>1
  <2>2. CASE g # f
    <3>1. SameFile(g)
      BY <2>2
    <3> QED BY <3>1 DEF SameFile, CalmAt, Lost, Young, Stored, Begun, Late, Stale, Folder!Due, Folder!Forever
  <2> QED BY <2>1, <2>2
<1> QED BY <1>1 DEF Calm, CalmAt

LEMMA OneFile ==
  ASSUME ShelfOK, NEW f \in Files, \A g \in Files \ {f} : SameFile(g), CalmAt(f), FileOK(f)', ShelfTyped',
         UNCHANGED <<now, touched, job>>
  PROVE  ShelfOK'
<1>1. Calm
  BY CalmOfOne
<1>2. ASSUME NEW g \in Files PROVE FileOK(g)'
  <2>1. CASE g = f
    BY <2>1
  <2>2. CASE g # f
    BY <2>2, FileStays DEF ShelfOK, FilesOK
  <2> QED BY <2>1, <2>2
<1>3. ASSUME NEW j \in Folder!Jobs PROVE JobOK(j)'
  BY <1>1, JobStays DEF ShelfOK, JobsOK, Still
<1> QED BY <1>2, <1>3 DEF ShelfOK, FilesOK, JobsOK

\* The conjuncts of what is said of a file, for a step that changes it.
LEMMA FileParts ==
  ASSUME NEW f \in Files, Told(f)', Arriving(f)', InTime(f)', Taken(f)', Kept(f)'
  PROVE  FileOK(f)'
BY DEF FileOK

LEMMA BeginOK ==
  ASSUME FilmsOutliveParts, ShelfOK, NEW f \in Files, NEW keep \in Keeps, Folder!Begin(f, keep)
  PROVE  ShelfOK'
<1> USE DEF Folder!Begin, Folder!clock, Folder!told
<1>1. ShelfTyped /\ FileOK(f) /\ up[f] \in Upload /\ up[f].pc = "new" /\ now \in Nat
  BY DEF ShelfOK, FilesOK, ShelfTyped, InMemory, Said
<1>2. up'[f] \in Upload /\ up'[f].pc = "sending" /\ mtime'[f] = now
  BY <1>1 DEF ShelfTyped, OnDisk, InMemory, Upload, Folder!UpPcs, FilmsOutliveParts
<1>3. ShelfTyped'
  BY <1>1, <1>2 DEF ShelfTyped, OnDisk, InMemory, Said
<1>4. \A g \in Files \ {f} : SameFile(g)
  BY <1>1 DEF SameFile, ShelfTyped, OnDisk, InMemory
<1>5. CalmAt(f)
  BY <1>1, <1>2 DEF CalmAt, Lost, Young, Stored, Begun, Late, Stale, FilmsOutliveParts, Folder!Due, Folder!Forever
<1>6. Told(f)' /\ Arriving(f)' /\ InTime(f)' /\ Taken(f)' /\ Kept(f)'
  BY <1>1, <1>2 DEF FileOK, Told, Arriving, InTime, Taken, Kept, Stored, Begun, Late, Stale, Fresh, FilmsOutliveParts,
    Folder!Due, Folder!Owed, Folder!Forever
<1> QED BY <1>1, <1>3, <1>4, <1>5, <1>6, OneFile, FileParts

LEMMA ChunkOK ==
  ASSUME FilmsOutliveParts, ShelfOK, NEW f \in Files, Folder!Chunk(f)
  PROVE  ShelfOK'
<1> USE DEF Folder!Chunk, Folder!clock, Folder!told
<1>1. ShelfTyped /\ FileOK(f) /\ up[f].pc = "sending" /\ now \in Nat
  BY DEF ShelfOK, FilesOK, ShelfTyped, Said
<1>2. mtime'[f] = now
  BY <1>1 DEF ShelfTyped, OnDisk
<1>3. ShelfTyped'
  BY <1>1, <1>2 DEF ShelfTyped, OnDisk, InMemory, Said
<1>4. \A g \in Files \ {f} : SameFile(g)
  BY <1>1 DEF SameFile, ShelfTyped, OnDisk
<1>5. CalmAt(f)
  BY <1>1, <1>2 DEF CalmAt, Lost, Young, Stored, Begun, Late, Stale, FilmsOutliveParts, Folder!Due, Folder!Forever
<1>6. Told(f)' /\ Arriving(f)' /\ InTime(f)' /\ Taken(f)' /\ Kept(f)'
  BY <1>1, <1>2 DEF FileOK, Told, Arriving, InTime, Taken, Kept, Stored, Begun, Late, Stale, Fresh, FilmsOutliveParts,
    Folder!Due, Folder!Owed, Folder!Forever
<1> QED BY <1>1, <1>3, <1>4, <1>5, <1>6, OneFile, FileParts

\* The upload is over, or is being stored: nothing of the disk changes but the part.
LEMMA EndsOK ==
  ASSUME FilmsOutliveParts, ShelfOK, NEW f \in Files, Folder!Fail(f) \/ Folder!Finish(f) \/ Folder!MetaFails(f)
  PROVE  ShelfOK'
<1> USE DEF Folder!Fail, Folder!Finish, Folder!MetaFails, Folder!clock, Folder!told, Folder!disk
<1>1. ShelfTyped /\ FileOK(f) /\ up[f] \in Upload /\ now \in Nat
  BY DEF ShelfOK, FilesOK, ShelfTyped, InMemory, Said
<1>2. /\ up'[f] \in Upload
      /\ \/ up[f].pc = "sending" /\ up'[f].pc \in {"failed", "whole"}
         \/ up[f].pc \in {"named", "writing"} /\ up'[f].pc = "refused"
      /\ UNCHANGED <<media, metas, expires, mtime, job, now, swept, crashes, promise, touched>>
      /\ parts' \in {parts, parts \ {f}} /\ \A g \in Files \ {f} : up'[g] = up[g]
  BY <1>1 DEF ShelfTyped, InMemory, Upload, Folder!UpPcs
<1>3. ShelfTyped'
  <2>1. up' \in [Files -> Upload]
    BY <1>1, <1>2 DEF ShelfTyped, InMemory
  <2> QED BY <1>1, <1>2, <2>1 DEF ShelfTyped, OnDisk, InMemory, Said
<1>4. \A g \in Files \ {f} : SameFile(g)
  BY <1>1, <1>2 DEF SameFile
<1>5. CalmAt(f)
  BY <1>1, <1>2 DEF CalmAt, Lost, Young, Stored, Begun, Late, Stale, Folder!Due, Folder!Forever
<1>6. Told(f)' /\ Arriving(f)' /\ InTime(f)' /\ Taken(f)' /\ Kept(f)'
  BY <1>1, <1>2 DEF FileOK, Told, Arriving, InTime, Taken, Kept, Stored, Begun, Late, Stale, Fresh,
    Folder!Due, Folder!Owed, Folder!Forever
<1> QED BY <1>1, <1>2, <1>3, <1>4, <1>5, <1>6, OneFile, FileParts

LEMMA RenameOK ==
  ASSUME FilmsOutliveParts, ShelfOK, NEW f \in Files, Folder!Rename(f)
  PROVE  ShelfOK'
<1> USE DEF Folder!Rename, Folder!clock, Folder!told
<1>1. ShelfTyped /\ FileOK(f) /\ up[f] \in Upload /\ now \in Nat /\ up[f].pc = "whole"
  BY DEF ShelfOK, FilesOK, ShelfTyped, InMemory, Said
<1>2. /\ up'[f] \in Upload /\ up' \in [Files -> Upload]
      /\ up'[f].pc = IF f \in parts THEN "named" ELSE "unstored"
      /\ \A g \in Files \ {f} : up'[g] = up[g]
  BY <1>1 DEF ShelfTyped, InMemory, Upload, Folder!UpPcs
<1>3. ShelfTyped'
  BY <1>1, <1>2 DEF ShelfTyped, OnDisk, InMemory, Said
<1>4. \A g \in Files \ {f} : SameFile(g)
  BY <1>1, <1>2 DEF SameFile
<1>5. CalmAt(f)
  BY <1>1, <1>2 DEF CalmAt, Lost, Young, Stored, Begun, Late, Stale, Folder!Due, Folder!Forever, FileOK, Told
<1>6. Told(f)' /\ Arriving(f)' /\ InTime(f)' /\ Taken(f)' /\ Kept(f)'
  BY <1>1, <1>2 DEF FileOK, Told, Arriving, InTime, Taken, Kept, Stored, Begun, Late, Stale, Fresh,
    Folder!Due, Folder!Owed, Folder!Forever
<1> QED BY <1>1, <1>3, <1>4, <1>5, <1>6, OneFile, FileParts

LEMMA FreshFrom == ASSUME NEW keep \in Nat, now \in Nat
                   PROVE  Folder!ExpiryFrom(keep) \in Nat /\ Fresh(Folder!ExpiryFrom(keep))
BY DEF Folder!ExpiryFrom, Fresh, Folder!Forever

LEMMA OpenMetaOK ==
  ASSUME FilmsOutliveParts, ShelfOK, NEW f \in Files, Folder!OpenMeta(f)
  PROVE  ShelfOK'
<1> USE DEF Folder!OpenMeta, Folder!Truncate, Folder!clock, Folder!told
<1> DEFINE exp == Folder!ExpiryFrom(up[f].keep)
<1>1. ShelfTyped /\ FileOK(f) /\ up[f] \in Upload /\ now \in Nat /\ up[f].pc = "named" /\ up[f].keep \in Nat
  BY DEF ShelfOK, FilesOK, ShelfTyped, InMemory, Said, Upload, FilmsOutliveParts
<1>e. exp \in Nat /\ Fresh(exp)
  BY <1>1, FreshFrom
<1> HIDE DEF exp
<1>2. /\ up'[f] \in Upload /\ up' \in [Files -> Upload]
      /\ up'[f].pc = "writing" /\ up'[f].exp = exp /\ up'[f].live
      /\ metas'[f] = "torn" /\ \A g \in Files \ {f} : up'[g] = up[g] /\ metas'[g] = metas[g]
  BY <1>1, <1>e DEF ShelfTyped, InMemory, OnDisk, Upload, Folder!UpPcs, exp
<1>3. ShelfTyped'
  BY <1>1, <1>2 DEF ShelfTyped, OnDisk, InMemory, Said
<1>4. \A g \in Files \ {f} : SameFile(g)
  BY <1>1, <1>2 DEF SameFile
<1>5. CalmAt(f)
  BY <1>1, <1>2 DEF CalmAt, Lost, Young, Stored, Begun, Late, Stale, Folder!Due, Folder!Forever
<1>6. Told(f)' /\ Arriving(f)' /\ InTime(f)' /\ Taken(f)' /\ Kept(f)'
  BY <1>1, <1>2, <1>e DEF FileOK, Told, Arriving, InTime, Taken, Kept, Stored, Begun, Late, Stale, Fresh,
    Folder!Due, Folder!Owed, Folder!Forever
<1> QED BY <1>1, <1>3, <1>4, <1>5, <1>6, OneFile, FileParts

\* What lands of a meta: nothing, the new date, or a text that does not parse.
LEMMA LandIs ==
  ASSUME ShelfTyped, NEW f \in Files, NEW exp \in Nat, NEW live \in BOOLEAN, Folder!Land(f, exp, live)
  PROVE  /\ metas' \in [Files -> {"none", "torn", "whole"}] /\ expires' \in [Files -> Nat]
         /\ \A g \in Files \ {f} : metas'[g] = metas[g] /\ expires'[g] = expires[g]
         /\ ~live => metas'[f] = metas[f] /\ expires'[f] = expires[f]
         /\ live => expires'[f] = exp /\ metas'[f] \in {"torn", "whole"}
         /\ live /\ metas[f] = "torn" => metas'[f] = "whole"
BY DEF Folder!Land, ShelfTyped, OnDisk

LEMMA AnswerIs ==
  ASSUME ShelfTyped, NEW f \in Files, NEW exp \in Nat, Folder!Answer(f, exp)
  PROVE  /\ promise' \in [Files -> Nat \cup {-1, -2}] /\ \A g \in Files \ {f} : promise'[g] = promise[g]
         /\ promise[f] = -2 => promise'[f] = -2
         /\ promise[f] # -2 => promise'[f] = exp
BY DEF Folder!Answer, Folder!Removed, ShelfTyped, Said

LEMMA WriteMetaOK ==
  ASSUME FilmsOutliveParts, ShelfOK, NEW f \in Files, Folder!WriteMeta(f)
  PROVE  ShelfOK'
<1> DEFINE exp == up[f].exp
           live == up[f].live
<1>1. ShelfTyped /\ FileOK(f) /\ up[f] \in Upload /\ now \in Nat /\ up[f].pc = "writing"
  BY DEF ShelfOK, FilesOK, ShelfTyped, InMemory, Said, Folder!WriteMeta
<1>2. exp \in Nat /\ live \in BOOLEAN /\ Fresh(exp) /\ (promise[f] = -2 \/ (metas[f] = "torn" /\ live))
  BY <1>1 DEF FileOK, Arriving, Upload
<1>3. Folder!Land(f, exp, live) /\ Folder!Answer(f, exp)
      /\ UNCHANGED <<parts, media, mtime, job, now, swept, crashes, touched>>
  BY DEF Folder!WriteMeta, Folder!clock
<1>4. /\ up'[f] \in Upload /\ up' \in [Files -> Upload] /\ up'[f].pc = "answered"
      /\ \A g \in Files \ {f} : up'[g] = up[g]
  BY <1>1 DEF Folder!WriteMeta, ShelfTyped, InMemory, Upload, Folder!UpPcs
<1> HIDE DEF exp, live
<1>5. /\ metas' \in [Files -> {"none", "torn", "whole"}] /\ expires' \in [Files -> Nat]
      /\ \A g \in Files \ {f} : metas'[g] = metas[g] /\ expires'[g] = expires[g]
      /\ ~live => metas'[f] = metas[f] /\ expires'[f] = expires[f]
      /\ live => expires'[f] = exp /\ metas'[f] \in {"torn", "whole"}
      /\ live /\ metas[f] = "torn" => metas'[f] = "whole"
  BY <1>1, <1>2, <1>3, LandIs
<1>6. /\ promise' \in [Files -> Nat \cup {-1, -2}] /\ \A g \in Files \ {f} : promise'[g] = promise[g]
      /\ promise[f] = -2 => promise'[f] = -2
      /\ promise[f] # -2 => promise'[f] = exp
  BY <1>1, <1>2, <1>3, AnswerIs
<1>7. ShelfTyped'
  BY <1>1, <1>3, <1>4, <1>5, <1>6 DEF ShelfTyped, OnDisk, InMemory, Said
<1>8. \A g \in Files \ {f} : SameFile(g)
  BY <1>3, <1>4, <1>5, <1>6 DEF SameFile
<1>p. promise[f] \in Nat \cup {-1, -2} /\ expires[f] \in Nat
  BY <1>1 DEF ShelfTyped, Said, OnDisk
<1>9. CalmAt(f)
  BY <1>1, <1>2, <1>3, <1>4, <1>5, <1>6, <1>p
     DEF CalmAt, Lost, Young, Stored, Begun, Late, Stale, Folder!Due, Folder!Forever, FileOK, Told, Fresh
<1>10. Told(f)' /\ Arriving(f)' /\ InTime(f)' /\ Taken(f)'
  BY <1>1, <1>2, <1>3, <1>4, <1>5, <1>6, <1>p DEF FileOK, Told, Arriving, InTime, Taken, Stored, Begun, Late, Stale, Fresh,
    Folder!Due, Folder!Forever
<1>11. Kept(f)'
  BY <1>1, <1>2, <1>3, <1>4, <1>5, <1>6, <1>p DEF FileOK, Told, Arriving, Kept, Stored, Begun, Fresh, Folder!Owed, Folder!Forever
<1> QED BY <1>1, <1>3, <1>7, <1>8, <1>9, <1>10, <1>11, OneFile, FileParts

-----------------------------------------------------------------------------
(* Requests, and the sweep: what they take up, and what they read. *)

LEMMA WorkIs ==
  ASSUME ShelfTyped, NEW j \in Folder!Jobs
  PROVE  /\ job[j] \in Work /\ now \in Nat
         /\ \A p \in Work : job' = [job EXCEPT ![j] = p] => job'[j] = p /\ job' \in [Folder!Jobs -> Work]
                                                            /\ \A k \in Folder!Jobs \ {j} : job'[k] = job[k]
BY DEF ShelfTyped, InMemory, Said

\* A step of one job that is about one file as well.
LEMMA JobAndFile ==
  ASSUME ShelfOK, NEW j \in Folder!Jobs, NEW p, job' = [job EXCEPT ![j] = p], JobOK(j)',
         NEW f \in Files, \A g \in Files \ {f} : SameFile(g), CalmAt(f), FileOK(f)', ShelfTyped',
         now' = now, touched \subseteq touched'
  PROVE  ShelfOK'
<1>1. Calm
  BY CalmOfOne
<1>2. ASSUME NEW g \in Files PROVE FileOK(g)'
  <2>1. CASE g = f
    BY <2>1
  <2>2. CASE g # f
    BY <2>2, FileStays DEF ShelfOK, FilesOK
  <2> QED BY <2>1, <2>2
<1>3. JobsOK'
  BY <1>1, OthersStay
<1> QED BY <1>2, <1>3 DEF ShelfOK, FilesOK

LEMMA RedateOK ==
  ASSUME FilmsOutliveParts, ShelfOK, NEW j \in Folder!Jobs, NEW f \in Files, NEW keep \in Keeps,
         Folder!Redate(j, f, keep)
  PROVE  ShelfOK'
<1> DEFINE exp == Folder!ExpiryFrom(keep)
           p == [Folder!Idle EXCEPT !.op = "redate", !.pc = "open", !.id = {f}, !.exp = exp]
<1>1. ShelfTyped /\ FileOK(f) /\ now \in Nat /\ metas[f] = "whole" /\ keep \in Nat
  BY DEF ShelfOK, FilesOK, ShelfTyped, Said, Folder!Redate, FilmsOutliveParts
<1>2. exp \in Nat /\ Fresh(exp)
  BY <1>1, FreshFrom
<1>3. job' = [job EXCEPT ![j] = p] /\ touched' = touched \cup {f}
      /\ UNCHANGED <<parts, media, metas, expires, mtime, up, now, swept, crashes, promise>>
  BY DEF Folder!Redate, Folder!Goes, Folder!disk, Folder!clock
<1> HIDE DEF exp
<1>4. p \in Work /\ p.op = "redate" /\ p.pc = "open" /\ p.id = {f} /\ p.exp = exp
  BY <1>2 DEF Work, Folder!Idle, Folder!JobPcs
<1> HIDE DEF p
<1>5. job'[j] = p /\ job' \in [Folder!Jobs -> Work]
  BY <1>1, <1>3, <1>4, WorkIs
<1>6. ShelfTyped'
  BY <1>1, <1>3, <1>5 DEF ShelfTyped, OnDisk, InMemory, Said
<1>7. \A g \in Files \ {f} : SameFile(g)
  BY <1>3 DEF SameFile
<1>8. CalmAt(f)
  BY <1>3 DEF CalmAt, Lost, Young, Stored, Begun, Late, Stale, Folder!Due, Folder!Forever
<1>9. FileOK(f)'
  BY <1>1, <1>3 DEF FileOK, Told, Arriving, InTime, Taken, Kept, Stored, Begun, Late, Stale, Fresh,
    Folder!Due, Folder!Owed, Folder!Forever
<1>10. Stored(f)'
  BY <1>1, <1>3 DEF FileOK, Told, Stored
<1>11. JobOK(j)'
  <2>1. Stands(j)' /\ Listing(j)' /\ Orphans(j)' /\ Leftovers(j)'
    BY <1>4, <1>5 DEF Stands, Listing, Orphans, Leftovers
  <2>2. JobHeld(j)'
    BY <1>2, <1>3, <1>4, <1>5, <1>10 DEF JobHeld, Fresh
  <2> QED BY <2>1, <2>2 DEF JobOK
<1> QED BY <1>3, <1>6, <1>7, <1>8, <1>9, <1>11, JobAndFile

\* A removal is of a file that is stored; a clearing is of the names it read.
LEMMA TakenUp ==
  ASSUME FilmsOutliveParts, ShelfOK, NEW j \in Folder!Jobs,
         (\E f \in Files : Folder!Remove(j, f)) \/ Folder!Clear(j) \/ Folder!ClearEnds(j) \/ Folder!RedateFails(j)
  PROVE  ShelfOK'
<1>n. Folder!InFiles \in SUBSET Folder!Names /\ Folder!InTmp \in SUBSET Folder!Names
  BY DEF ShelfOK, ShelfTyped, OnDisk, Folder!InFiles, Folder!InTmp, Folder!Names
<1>i. Folder!Idle \in Work /\ (job'[j] = Folder!Idle => JobOK(j)') /\ job[j] \in Work
  BY IdleIs DEF ShelfOK, ShelfTyped, InMemory
<1>1. ASSUME NEW f \in Files, Folder!Remove(j, f) PROVE ShelfOK'
  <2> DEFINE p == [Folder!Idle EXCEPT !.op = "remove", !.pc = "media", !.id = {f}]
  <2>1. JobOnly(j, p) /\ metas[f] = "whole" /\ Stored(f)
    BY <1>1 DEF Folder!Remove, Folder!Goes, Folder!disk, Folder!clock, Folder!told, JobOnly, ShelfOK, FilesOK, FileOK, Told
  <2>2. p \in Work /\ p.op = "remove" /\ p.pc = "media" /\ p.id = {f}
    BY DEF Work, Folder!Idle, Folder!JobPcs
  <2> HIDE DEF p
  <2>3. job'[j] = p /\ Stored(f)'
    BY <2>1, <2>2 DEF JobOnly, ShelfOK, ShelfTyped, InMemory, Stored
  <2>4. JobOK(j)'
    BY <2>2, <2>3 DEF JobOK, Stands, JobHeld, Listing, Orphans, Leftovers
  <2> QED BY <2>1, <2>2, <2>4, OnlyTheJob
<1>2. ASSUME NEW p \in Work, p.op = "clear", p.pc \in {"tmp", "files", "all"}, p.id = {}, JobOnly(j, p) PROVE ShelfOK'
  <2>1. job'[j] = p
    BY <1>2 DEF JobOnly, ShelfOK, ShelfTyped, InMemory
  <2>2. JobOK(j)'
    BY <1>2, <2>1 DEF JobOK, Stands, JobHeld, Listing, Orphans, Leftovers
  <2> QED BY <1>2, <2>2, OnlyTheJob
<1>3. ASSUME Folder!Clear(j) PROVE ShelfOK'
  <2>1. PICK pc \in {"tmp", "files", "all"} :
          JobOnly(j, [Folder!Idle EXCEPT !.op = "clear", !.pc = pc,
                                         !.names = IF pc = "tmp" THEN Folder!InTmp ELSE Folder!InFiles])
    BY <1>3 DEF Folder!Clear, Folder!Goes, Folder!disk, Folder!clock, Folder!told, JobOnly
  <2> DEFINE p == [Folder!Idle EXCEPT !.op = "clear", !.pc = pc,
                                      !.names = IF pc = "tmp" THEN Folder!InTmp ELSE Folder!InFiles]
  <2>2. p \in Work /\ p.op = "clear" /\ p.pc = pc /\ p.id = {}
    BY <1>n DEF Work, Folder!Idle, Folder!JobPcs
  <2> QED BY <2>1, <2>2, <1>2
<1>4. ASSUME JobOnly(j, Folder!Idle) PROVE ShelfOK'
  <2>1. job'[j] = Folder!Idle
    BY <1>4 DEF JobOnly, ShelfOK, ShelfTyped, InMemory
  <2> QED BY <1>4, <1>i, <2>1, OnlyTheJob
<1>5. ASSUME Folder!ClearEnds(j) PROVE ShelfOK'
  <2> DEFINE p == [job[j] EXCEPT !.pc = "tmp", !.names = Folder!InTmp]
  <2>1. JobOnly(j, p) \/ JobOnly(j, Folder!Idle)
    BY <1>5 DEF Folder!ClearEnds, Folder!Goes, Folder!disk, Folder!clock, Folder!told, JobOnly
  <2>2. job[j].op = "clear" /\ job[j].id = {}
    BY <1>5 DEF Folder!ClearEnds, ShelfOK, JobsOK, JobOK, Stands
  <2>3. p \in Work /\ p.op = "clear" /\ p.pc = "tmp" /\ p.id = {}
    BY <1>i, <1>n, <2>2 DEF Work, Folder!JobPcs
  <2> HIDE DEF p
  <2> QED BY <2>1, <2>3, <1>2, <1>4
<1>6. ASSUME Folder!RedateFails(j) PROVE ShelfOK'
  <2>1. JobOnly(j, Folder!Idle)
    BY <1>6 DEF Folder!RedateFails, Folder!Goes, Folder!disk, Folder!clock, Folder!told, JobOnly
  <2> QED BY <2>1, <1>4
<1> QED BY <1>1, <1>3, <1>5, <1>6

\* A film that is neither young nor lost has its meta, and it is not its time.
LEMMA FilmIs ==
  ASSUME FilmsOutliveParts, ShelfOK, NEW f \in Files, Begun(f), ~Lost(f), ~Young(f)
  PROVE  f \in media /\ metas[f] = "whole" /\ ~Folder!Due(f)
<1>1. FileOK(f) /\ promise[f] \in Nat \cup {-1, -2} /\ now \in Nat /\ up[f] \in Upload /\ mtime[f] \in Nat /\ expires[f] \in Nat
  BY DEF ShelfOK, FilesOK, ShelfTyped, Said, InMemory, OnDisk
<1>2. up[f].pc \notin {"named", "writing"}
  BY <1>1 DEF FileOK, Arriving, Young, FilmsOutliveParts
<1>3. Stored(f) /\ promise[f] \in Nat
  BY <1>1, <1>2 DEF FileOK, Told, Stored, Begun, Lost, Upload, Folder!UpPcs
<1>4. Folder!Owed(f) /\ f \notin touched
  BY <1>1, <1>3 DEF Lost, Folder!Owed, Folder!Forever
<1> QED BY <1>1, <1>3, <1>4 DEF FileOK, Kept, Folder!Owed, Folder!Due, Folder!Forever

\* One whose time it is is nobody's any more.
LEMMA DueIsLost ==
  ASSUME ShelfOK, NEW f \in Files, metas[f] = "whole", Folder!Due(f)
  PROVE  Stored(f) /\ Lost(f)
<1>1. FileOK(f) /\ promise[f] \in Nat \cup {-1, -2} /\ now \in Nat /\ expires[f] \in Nat
  BY DEF ShelfOK, FilesOK, ShelfTyped, Said, OnDisk
<1>2. Stored(f) /\ promise[f] # -1
  BY <1>1 DEF FileOK, Told
<1>3. Folder!Owed(f) => f \in touched
  BY <1>1 DEF FileOK, Kept, Folder!Owed, Folder!Due, Folder!Forever
<1> QED BY <1>1, <1>2, <1>3 DEF Lost, Folder!Owed, Folder!Forever

\* A step that is not about the disk changes nothing that is said of a file.
LEMMA SameWords ==
  ASSUME NEW j, NEW p, JobOnly(j, p), NEW f
  PROVE  /\ Lost(f)' <=> Lost(f)
         /\ Young(f)' <=> Young(f)
         /\ Stored(f)' <=> Stored(f)
         /\ Begun(f)' <=> Begun(f)
         /\ Late(f)' <=> Late(f)
         /\ Stale(f)' <=> Stale(f)
BY DEF JobOnly, Lost, Young, Stored, Begun, Late, Stale, Folder!Due, Folder!Forever

LEMMA SweepOK ==
  ASSUME FilmsOutliveParts, ShelfOK, NEW j \in Folder!Jobs, Folder!Sweep(j)
  PROVE  ShelfOK'
<1> DEFINE p == [Folder!Idle EXCEPT !.op = "sweep", !.pc = "metas", !.names = Folder!InFiles]
<1>1. JobOnly(j, p)
  BY DEF Folder!Sweep, Folder!Goes, Folder!disk, Folder!clock, Folder!told, JobOnly
<1>2. Folder!InFiles \in SUBSET Folder!Names /\ Folder!InFiles \subseteq {"media", "meta"} \X Files
  BY DEF ShelfOK, ShelfTyped, OnDisk, Folder!InFiles, Folder!Names
<1>3. p \in Work /\ p.op = "sweep" /\ p.pc = "metas" /\ p.id = {} /\ p.names = Folder!InFiles
  BY <1>2 DEF Work, Folder!Idle, Folder!JobPcs
<1> HIDE DEF p
<1>4. job'[j] = p
  BY <1>1, <1>3 DEF JobOnly, ShelfOK, ShelfTyped, InMemory
<1>5. ASSUME NEW f \in Files, <<"media", f>> \in Folder!InFiles
      PROVE  Begun(f) /\ (<<"meta", f>> \in Folder!InFiles \/ Young(f) \/ Lost(f))
  <2>1. f \in media /\ Begun(f)
    BY <1>5 DEF Folder!InFiles, ShelfOK, FilesOK, FileOK, Told
  <2>2. metas[f] = "whole" => <<"meta", f>> \in Folder!InFiles
    BY DEF Folder!InFiles
  <2> QED BY <2>1, <2>2, FilmIs
<1>6. ASSUME NEW f \in Files, Late(f) PROVE <<"meta", f>> \in Folder!InFiles
  BY <1>6 DEF Late, Folder!InFiles
<1>7. Listing(j)'
  BY <1>1, <1>2, <1>3, <1>4, <1>5, <1>6, SameWords DEF Listing
<1>8. JobOK(j)'
  BY <1>3, <1>4, <1>7 DEF JobOK, Stands, JobHeld, Orphans, Leftovers
<1> QED BY <1>1, <1>3, <1>8, OnlyTheJob

LEMMA SweepMetaOK ==
  ASSUME FilmsOutliveParts, ShelfOK, NEW j \in Folder!Jobs, Folder!SweepMeta(j)
  PROVE  ShelfOK'
<1> DEFINE q == job[j]
<1>1. PICK f \in Files :
        /\ <<"meta", f>> \in q.names
        /\ JobOnly(j, IF metas[f] # "whole" THEN Folder!Drop(q, <<"meta", f>>)
                      ELSE IF ~Folder!Due(f) THEN Folder!Known(q, f)
                      ELSE [Folder!Known(q, f) EXCEPT !.pc = "again", !.id = {f}])
  BY DEF Folder!SweepMeta, Folder!Goes, Folder!disk, Folder!clock, Folder!told, JobOnly
<1>2. q \in Work /\ q.op = "sweep" /\ q.pc = "metas" /\ JobOK(j) /\ q.id = {}
  BY DEF Folder!SweepMeta, Folder!At, ShelfOK, ShelfTyped, InMemory, JobsOK, JobOK, Stands
<1>3. PICK p \in Work :
        /\ JobOnly(j, p) /\ p.op = "sweep" /\ p.names = q.names \ {<<"meta", f>>}
        /\ \/ metas[f] # "whole" /\ p.known = q.known /\ p.pc = "metas" /\ p.id = {}
           \/ /\ metas[f] = "whole" /\ p.known = q.known \cup {f}
              /\ \/ ~Folder!Due(f) /\ p.pc = "metas" /\ p.id = {}
                 \/ Folder!Due(f) /\ p.pc = "again" /\ p.id = {f}
  <2>1. CASE metas[f] # "whole"
    <3> DEFINE p == Folder!Drop(q, <<"meta", f>>)
    <3>1. p \in Work /\ p.op = "sweep" /\ p.names = q.names \ {<<"meta", f>>} /\ p.known = q.known
          /\ p.pc = "metas" /\ p.id = {}
      BY <1>2 DEF Folder!Drop, Work
    <3> QED BY <1>1, <2>1, <3>1
  <2>2. CASE metas[f] = "whole" /\ ~Folder!Due(f)
    <3> DEFINE p == Folder!Known(q, f)
    <3>1. p \in Work /\ p.op = "sweep" /\ p.names = q.names \ {<<"meta", f>>} /\ p.known = q.known \cup {f}
          /\ p.pc = "metas" /\ p.id = {}
      BY <1>2 DEF Folder!Known, Work
    <3> QED BY <1>1, <2>2, <3>1
  <2>3. CASE metas[f] = "whole" /\ Folder!Due(f)
    <3> DEFINE p == [Folder!Known(q, f) EXCEPT !.pc = "again", !.id = {f}]
    <3>1. p \in Work /\ p.op = "sweep" /\ p.names = q.names \ {<<"meta", f>>} /\ p.known = q.known \cup {f}
          /\ p.pc = "again" /\ p.id = {f}
      BY <1>2 DEF Folder!Known, Work, Folder!JobPcs
    <3> QED BY <1>1, <2>3, <3>1
  <2> QED BY <2>1, <2>2, <2>3
<1>4. job'[j] = p
  BY <1>3 DEF JobOnly, ShelfOK, ShelfTyped, InMemory
<1>5. Listing(j)'
  <2>1. p.names \subseteq {"media", "meta"} \X Files
    BY <1>2, <1>3 DEF JobOK, Listing
  <2>2. ASSUME NEW g \in Files, <<"media", g>> \in p.names
        PROVE  Begun(g) /\ (<<"meta", g>> \in p.names \/ g \in p.known \/ Young(g) \/ Lost(g))
    <3>1. Begun(g) /\ (<<"meta", g>> \in q.names \/ g \in q.known \/ Young(g) \/ Lost(g))
      BY <1>2, <1>3, <2>2 DEF JobOK, Listing
    <3>2. g = f /\ metas[f] # "whole" => Young(g) \/ Lost(g)
      BY <3>1, FilmIs
    <3> QED BY <1>3, <3>1, <3>2
  <2>3. ASSUME NEW g \in Files, Late(g) PROVE <<"meta", g>> \in p.names \/ g \in p.id
    BY <1>2, <1>3, <2>3 DEF JobOK, Listing, Late
  <2> QED BY <1>3, <1>4, <2>1, <2>2, <2>3, SameWords DEF Listing
<1>6. JobHeld(j)'
  BY <1>3, <1>4, DueIsLost, SameWords DEF JobHeld
<1>7. JobOK(j)'
  BY <1>3, <1>4, <1>5, <1>6 DEF JobOK, Stands, Orphans, Leftovers
<1> QED BY <1>3, <1>7, OnlyTheJob

LEMMA SweepAgainOK ==
  ASSUME FilmsOutliveParts, ShelfOK, NEW j \in Folder!Jobs, Folder!SweepAgain(j)
  PROVE  ShelfOK'
<1> DEFINE q == job[j]
<1>1. PICK f \in q.id :
        JobOnly(j, IF metas[f] = "whole" THEN [q EXCEPT !.pc = "media"] ELSE [q EXCEPT !.pc = "metas", !.id = {}])
  BY DEF Folder!SweepAgain, Folder!Goes, Folder!disk, Folder!clock, Folder!told, JobOnly
<1>2. q \in Work /\ q.op = "sweep" /\ q.pc = "again" /\ JobOK(j) /\ q.id = {f} /\ f \in Files
  BY <1>1 DEF Folder!SweepAgain, Folder!At, ShelfOK, ShelfTyped, InMemory, JobsOK, JobOK, Stands
<1>3. PICK p \in Work :
        /\ JobOnly(j, p) /\ p.op = "sweep" /\ p.names = q.names /\ p.known = q.known
        /\ \/ metas[f] = "whole" /\ p.pc = "media" /\ p.id = {f}
           \/ metas[f] # "whole" /\ p.pc = "metas" /\ p.id = {}
  <2>1. CASE metas[f] = "whole"
    <3> DEFINE p == [q EXCEPT !.pc = "media"]
    <3>1. p \in Work /\ p.op = "sweep" /\ p.names = q.names /\ p.known = q.known /\ p.pc = "media" /\ p.id = {f}
      BY <1>2 DEF Work, Folder!JobPcs
    <3> QED BY <1>1, <2>1, <3>1
  <2>2. CASE metas[f] # "whole"
    <3> DEFINE p == [q EXCEPT !.pc = "metas", !.id = {}]
    <3>1. p \in Work /\ p.op = "sweep" /\ p.names = q.names /\ p.known = q.known /\ p.pc = "metas" /\ p.id = {}
      BY <1>2 DEF Work, Folder!JobPcs
    <3> QED BY <1>1, <2>2, <3>1
  <2> QED BY <2>1, <2>2
<1>4. job'[j] = p
  BY <1>3 DEF JobOnly, ShelfOK, ShelfTyped, InMemory
<1>5. Listing(j)'
  <2>1. \A g \in Files : Late(g) => <<"meta", g>> \in p.names \/ g \in p.id
    BY <1>2, <1>3 DEF JobOK, Listing, Late
  <2> QED BY <1>2, <1>3, <1>4, <2>1, SameWords DEF JobOK, Listing
<1>6. JobHeld(j)'
  BY <1>2, <1>3, <1>4, SameWords DEF JobHeld, JobOK
<1>7. JobOK(j)'
  BY <1>2, <1>3, <1>4, <1>5, <1>6 DEF JobOK, Stands, Orphans, Leftovers
<1> QED BY <1>3, <1>7, OnlyTheJob

LEMMA SweepOrphansOK ==
  ASSUME FilmsOutliveParts, ShelfOK, NEW j \in Folder!Jobs, Folder!SweepOrphans(j)
  PROVE  ShelfOK'
<1> DEFINE q == job[j]
           p == [q EXCEPT !.pc = "orphans", !.names = {n \in @ : n[2] \notin q.known}]
<1>1. JobOnly(j, p)
  BY DEF Folder!SweepOrphans, Folder!Goes, Folder!disk, Folder!clock, Folder!told, JobOnly
<1>2. q \in Work /\ q.op = "sweep" /\ q.pc = "metas" /\ JobOK(j) /\ q.id = {} /\ \A n \in q.names : n[1] # "meta"
  BY DEF Folder!SweepOrphans, Folder!At, ShelfOK, ShelfTyped, InMemory, JobsOK, JobOK, Stands
<1>3. p \in Work /\ p.op = "sweep" /\ p.pc = "orphans" /\ p.id = {} /\ p.names = {n \in q.names : n[2] \notin q.known}
  BY <1>2 DEF Work, Folder!JobPcs
<1>4. q.names \subseteq {"media", "meta"} \X Files
  BY <1>2 DEF JobOK, Listing
<1>5. p.names \subseteq {"media"} \X Files
  BY <1>2, <1>3, <1>4
<1>6. ASSUME NEW f \in Files, <<"media", f>> \in p.names PROVE Young(f) \/ Lost(f)
  <2>1. <<"media", f>> \in q.names /\ f \notin q.known /\ <<"meta", f>> \notin q.names
    BY <1>2, <1>3, <1>6
  <2> QED BY <1>2, <2>1 DEF JobOK, Listing
<1>7. ASSUME NEW f \in Files PROVE ~Late(f)
  <2>1. <<"meta", f>> \notin q.names
    BY <1>2
  <2> QED BY <1>2, <2>1 DEF JobOK, Listing
<1> HIDE DEF p
<1>8. job'[j] = p
  BY <1>1, <1>3 DEF JobOnly, ShelfOK, ShelfTyped, InMemory
<1>9. Orphans(j)'
  BY <1>1, <1>5, <1>6, <1>7, <1>8, SameWords DEF Orphans
<1>10. JobOK(j)'
  BY <1>3, <1>8, <1>9 DEF JobOK, Stands, JobHeld, Listing, Leftovers
<1> QED BY <1>1, <1>3, <1>10, OnlyTheJob

LEMMA SweepPartsOK ==
  ASSUME FilmsOutliveParts, ShelfOK, NEW j \in Folder!Jobs, Folder!SweepParts(j)
  PROVE  ShelfOK'
<1> DEFINE q == job[j]
           p == [q EXCEPT !.pc = "parts", !.names = Folder!InTmp, !.known = {}]
<1>1. JobOnly(j, p)
  BY DEF Folder!SweepParts, Folder!Goes, Folder!disk, Folder!clock, Folder!told, JobOnly
<1>2. q \in Work /\ q.op = "sweep" /\ q.pc = "orphans" /\ JobOK(j) /\ q.id = {}
  BY DEF Folder!SweepParts, Folder!At, ShelfOK, ShelfTyped, InMemory, JobsOK, JobOK, Stands
<1>3. Folder!InTmp \in SUBSET Folder!Names /\ Folder!InTmp \subseteq {"part"} \X Files
  BY DEF ShelfOK, ShelfTyped, OnDisk, Folder!InTmp, Folder!Names
<1>4. p \in Work /\ p.op = "sweep" /\ p.pc = "parts" /\ p.id = {} /\ p.names = Folder!InTmp
  BY <1>2, <1>3 DEF Work, Folder!JobPcs
<1> HIDE DEF p
<1>5. job'[j] = p
  BY <1>1, <1>4 DEF JobOnly, ShelfOK, ShelfTyped, InMemory
<1>6. \A f \in Files : ~Late(f) /\ (Stale(f) => <<"part", f>> \in p.names)
  BY <1>2, <1>4 DEF JobOK, Orphans, Stale, Folder!InTmp
<1>7. Leftovers(j)'
  BY <1>1, <1>3, <1>4, <1>5, <1>6, SameWords DEF Leftovers
<1>8. JobOK(j)'
  BY <1>4, <1>5, <1>7 DEF JobOK, Stands, JobHeld, Listing, Orphans
<1> QED BY <1>1, <1>4, <1>8, OnlyTheJob

\* A sweep that ends leaves nothing late.
LEMMA SweepEndsOK ==
  ASSUME FilmsOutliveParts, ShelfOK, NEW j \in Folder!Jobs, Folder!SweepEnds(j)
  PROVE  ShelfOK'
<1>1. job' = [job EXCEPT ![j] = Folder!Idle] /\ swept' = (swept \/ j = Timer)
      /\ UNCHANGED <<parts, media, metas, expires, mtime, up, now, crashes, promise, touched>>
  BY DEF Folder!SweepEnds, Folder!Goes, Folder!disk, Folder!told
<1>2. job[j].op = "sweep" /\ job[j].pc = "parts" /\ job[j].names = {} /\ JobOK(j) /\ ShelfTyped
  BY DEF Folder!SweepEnds, Folder!At, ShelfOK, JobsOK
<1>3. job'[j] = Folder!Idle /\ job' \in [Folder!Jobs -> Work]
  BY <1>1, <1>2, IdleIs DEF ShelfTyped, InMemory
<1>4. Calm
  BY <1>1, NothingElse
<1>5. ShelfTyped'
  BY <1>1, <1>2, <1>3 DEF ShelfTyped, OnDisk, InMemory, Said
<1>6. ASSUME NEW f \in Files PROVE FileOK(f)'
  <2>1. FileOK(f) /\ ~Late(f) /\ ~Stale(f)
    BY <1>2 DEF JobOK, Leftovers, ShelfOK, FilesOK
  <2> QED BY <1>1, <2>1 DEF FileOK, Told, Arriving, InTime, Taken, Kept, Stored, Begun, Late, Stale, Fresh,
    Folder!Due, Folder!Owed, Folder!Forever
<1>7. JobsOK'
  BY <1>1, <1>3, <1>4, OthersStay, IdleIs
<1> QED BY <1>5, <1>6, <1>7 DEF ShelfOK, FilesOK

-----------------------------------------------------------------------------
(* A re-date writes the meta anew. *)

LEMMA RedateOpenOK ==
  ASSUME FilmsOutliveParts, ShelfOK, NEW j \in Folder!Jobs, Folder!RedateOpen(j)
  PROVE  ShelfOK'
<1> DEFINE q == job[j]
           p == [q EXCEPT !.pc = "write", !.live = TRUE]
<1>1. q \in Work /\ q.op = "redate" /\ q.pc = "open" /\ JobOK(j) /\ ShelfTyped
  BY DEF Folder!RedateOpen, Folder!At, ShelfOK, ShelfTyped, InMemory, JobsOK
<1>2. PICK f \in Files : q.id = {f} /\ f \in touched
  BY <1>1 DEF JobOK, Stands, JobHeld
<1>3. job' = [job EXCEPT ![j] = p] /\ metas' = [metas EXCEPT ![f] = "torn"]
      /\ UNCHANGED <<parts, media, expires, mtime, up, now, swept, crashes, promise, touched>>
  BY <1>2 DEF Folder!RedateOpen, Folder!Goes, Folder!Truncate, Folder!clock, Folder!told
<1>4. p \in Work /\ p.op = "redate" /\ p.pc = "write" /\ p.id = {f} /\ p.exp = q.exp
  BY <1>1, <1>2 DEF Work, Folder!JobPcs
<1> HIDE DEF p
<1>5. job'[j] = p /\ job' \in [Folder!Jobs -> Work]
  BY <1>1, <1>3, <1>4 DEF ShelfTyped, InMemory
<1>6. metas'[f] = "torn" /\ \A g \in Files \ {f} : metas'[g] = metas[g]
  BY <1>1, <1>3 DEF ShelfTyped, OnDisk
<1>7. ShelfTyped'
  BY <1>1, <1>3, <1>5 DEF ShelfTyped, OnDisk, InMemory, Said
<1>8. \A g \in Files \ {f} : SameFile(g)
  BY <1>3, <1>6 DEF SameFile
<1>9. CalmAt(f)
  BY <1>3, <1>6 DEF CalmAt, Lost, Young, Stored, Begun, Late, Stale, Folder!Due, Folder!Forever
<1>10. Stored(f) /\ Fresh(q.exp)
  BY <1>1, <1>2 DEF JobOK, JobHeld
<1>11. FileOK(f)'
  <2>1. FileOK(f)
    BY DEF ShelfOK, FilesOK
  <2> QED BY <1>2, <1>3, <1>6, <1>10, <2>1 DEF FileOK, Told, Arriving, InTime, Taken, Kept, Stored, Begun, Late, Stale, Fresh,
    Folder!Due, Folder!Owed, Folder!Forever
<1>12. JobOK(j)'
  <2>1. Stands(j)' /\ Listing(j)' /\ Orphans(j)' /\ Leftovers(j)'
    BY <1>4, <1>5 DEF Stands, Listing, Orphans, Leftovers
  <2>2. JobHeld(j)'
    BY <1>2, <1>3, <1>4, <1>5, <1>10 DEF JobHeld, Fresh, Stored
  <2> QED BY <2>1, <2>2 DEF JobOK
<1> QED BY <1>3, <1>7, <1>8, <1>9, <1>11, <1>12, JobAndFile

LEMMA RedateWriteOK ==
  ASSUME FilmsOutliveParts, ShelfOK, NEW j \in Folder!Jobs, Folder!RedateWrite(j)
  PROVE  ShelfOK'
<1> DEFINE exp == job[j].exp
           live == job[j].live
<1>1. job[j] \in Work /\ job[j].op = "redate" /\ job[j].pc = "write" /\ JobOK(j) /\ ShelfTyped
  BY DEF Folder!RedateWrite, Folder!At, ShelfOK, ShelfTyped, InMemory, JobsOK
<1>2. PICK f \in Files : job[j].id = {f} /\ f \in touched
  BY <1>1 DEF JobOK, Stands, JobHeld
<1>3. Folder!Land(f, exp, live) /\ Folder!Answer(f, exp) /\ job' = [job EXCEPT ![j] = Folder!Idle]
      /\ UNCHANGED <<parts, media, mtime, up, now, swept, crashes, touched>>
  BY <1>2 DEF Folder!RedateWrite, Folder!Goes, Folder!clock
<1>4. exp \in Nat /\ live \in BOOLEAN /\ Fresh(exp) /\ Stored(f) /\ now \in Nat
  BY <1>1, <1>2 DEF Work, JobOK, JobHeld, ShelfTyped, Said
<1> HIDE DEF exp, live
<1>5. /\ metas' \in [Files -> {"none", "torn", "whole"}] /\ expires' \in [Files -> Nat]
      /\ \A g \in Files \ {f} : metas'[g] = metas[g] /\ expires'[g] = expires[g]
      /\ ~live => metas'[f] = metas[f] /\ expires'[f] = expires[f]
      /\ live => expires'[f] = exp /\ metas'[f] \in {"torn", "whole"}
  BY <1>1, <1>3, <1>4, LandIs
<1>6. /\ promise' \in [Files -> Nat \cup {-1, -2}] /\ \A g \in Files \ {f} : promise'[g] = promise[g]
      /\ promise[f] = -2 => promise'[f] = -2
      /\ promise[f] # -2 => promise'[f] = exp
  BY <1>1, <1>3, <1>4, AnswerIs
<1>7. job'[j] = Folder!Idle /\ job' \in [Folder!Jobs -> Work]
  BY <1>1, <1>3, IdleIs DEF ShelfTyped, InMemory
<1>8. ShelfTyped'
  BY <1>1, <1>3, <1>5, <1>6, <1>7 DEF ShelfTyped, OnDisk, InMemory, Said
<1>9. \A g \in Files \ {f} : SameFile(g)
  BY <1>3, <1>5, <1>6 DEF SameFile
<1>p. promise[f] \in Nat \cup {-1, -2} /\ expires[f] \in Nat
  BY <1>1 DEF ShelfTyped, Said, OnDisk
<1>10. CalmAt(f)
  BY <1>2, <1>3, <1>4, <1>5, <1>6, <1>p
     DEF CalmAt, Lost, Young, Stored, Begun, Late, Stale, Folder!Due, Folder!Forever, Fresh
<1>11. FileOK(f)'
  <2>1. FileOK(f)
    BY DEF ShelfOK, FilesOK
  <2> QED BY <1>2, <1>3, <1>4, <1>5, <1>6, <1>p, <2>1 DEF FileOK, Told, Arriving, InTime, Taken, Kept, Stored, Begun,
    Late, Stale, Fresh, Folder!Due, Folder!Owed, Folder!Forever
<1> QED BY <1>3, <1>7, <1>8, <1>9, <1>10, <1>11, JobAndFile, IdleIs

-----------------------------------------------------------------------------
(* What is unlinked. *)

\* A name goes: a part, a film a person removes, or one that is nobody's any more.
LEMMA UnlinkOK ==
  ASSUME FilmsOutliveParts, ShelfOK, NEW j \in Folder!Jobs, NEW kind \in {"part", "media", "meta"}, NEW f \in Files,
         NEW p \in Work, Folder!Unlink(j, <<kind, f>>, p),
         kind # "part" => job[j].op \in {"remove", "clear"} \/ Lost(f),
         Calm => JobOK(j)'
  PROVE  ShelfOK'
<1>1. ShelfTyped /\ FileOK(f) /\ now \in Nat
  BY DEF ShelfOK, FilesOK, ShelfTyped, Said
<1>2. /\ parts' = IF kind = "part" THEN parts \ {f} ELSE parts
      /\ media' = IF kind = "media" THEN media \ {f} ELSE media
      /\ metas' = IF kind = "meta" THEN [metas EXCEPT ![f] = "none"] ELSE metas
      /\ up' = IF kind = "meta" THEN [up EXCEPT ![f].live = FALSE] ELSE up
      /\ promise' = IF kind # "part" /\ job[j].op \in {"remove", "clear"} THEN [promise EXCEPT ![f] = -2] ELSE promise
      /\ UNCHANGED <<expires, mtime, touched, now, swept, crashes>>
  BY DEF Folder!Unlink, Folder!clock, Folder!Removed
<1>3. job' = [k \in Folder!Jobs |-> IF k = j THEN p ELSE IF kind = "meta" THEN Folder!Cut(f, job[k]) ELSE job[k]]
  BY DEF Folder!Unlink
<1>4. /\ up' \in [Files -> Upload] /\ \A g \in Files \ {f} : up'[g] = up[g]
      /\ up'[f].pc = up[f].pc /\ up'[f].exp = up[f].exp /\ (kind # "meta" => up'[f] = up[f])
  BY <1>1, <1>2 DEF ShelfTyped, InMemory, Upload
<1>5. /\ metas' \in [Files -> {"none", "torn", "whole"}] /\ \A g \in Files \ {f} : metas'[g] = metas[g]
      /\ (kind = "meta" => metas'[f] = "none") /\ (kind # "meta" => metas'[f] = metas[f])
  BY <1>1, <1>2 DEF ShelfTyped, OnDisk
<1>6. /\ promise' \in [Files -> Nat \cup {-1, -2}] /\ \A g \in Files \ {f} : promise'[g] = promise[g]
      /\ promise'[f] \in {promise[f], -2} /\ (kind = "part" => promise'[f] = promise[f])
      /\ (kind # "part" => promise'[f] = -2 \/ Lost(f))
  BY <1>1, <1>2 DEF ShelfTyped, Said
<1>7. \A k \in Folder!Jobs : job'[k] \in Work /\ (k # j => Still(k))
  <2> SUFFICES ASSUME NEW k \in Folder!Jobs PROVE job'[k] \in Work /\ (k # j => Still(k))
    OBVIOUS
  <2>1. job[k] \in Work
    BY <1>1 DEF ShelfTyped, InMemory
  <2>2. Folder!Cut(f, job[k]) \in Work
    BY <2>1 DEF Folder!Cut, Work
  <2>3. k # j => Still(k)
    BY <1>3, <2>1 DEF Folder!Cut, Still, Work
  <2> QED BY <1>3, <2>1, <2>2, <2>3
<1>8. ShelfTyped'
  <2>1. job' \in [Folder!Jobs -> Work]
    BY <1>3, <1>7
  <2> QED BY <1>1, <1>2, <1>4, <1>5, <1>6, <2>1 DEF ShelfTyped, OnDisk, InMemory, Said
<1>9. \A g \in Files \ {f} : SameFile(g)
  BY <1>2, <1>4, <1>5, <1>6 DEF SameFile
<1>10. CalmAt(f)
  BY <1>2, <1>4, <1>5, <1>6 DEF CalmAt, Lost, Young, Stored, Begun, Late, Stale, Folder!Due, Folder!Forever
<1>11. Calm
  BY <1>2, <1>9, <1>10, CalmOfOne
<1>12. FileOK(f)'
  <2>1. Told(f)' /\ InTime(f)' /\ Taken(f)'
    BY <1>1, <1>2, <1>4, <1>5, <1>6 DEF FileOK, Told, InTime, Taken, Stored, Begun, Late, Stale, Folder!Due, Folder!Forever
  <2>2. kind # "part" => promise'[f] = -2 \/ f \in touched \/ promise[f] \in 1..now
                         \/ up[f].pc \in {"failed", "unstored", "refused"}
    BY <1>6 DEF Lost
  <2>3. Arriving(f)'
    BY <1>1, <1>2, <1>4, <1>5, <1>6, <2>2 DEF FileOK, Told, Stored, Arriving, Fresh
  <2>4. Kept(f)'
    <3>1. promise[f] \in Nat \cup {-1, -2}
      BY <1>1 DEF ShelfTyped, Said
    <3> QED BY <1>1, <1>2, <1>4, <1>5, <1>6, <2>2, <3>1 DEF FileOK, Told, Kept, Stored, Folder!Owed, Folder!Forever
  <2> QED BY <2>1, <2>3, <2>4, FileParts
<1>13. ASSUME NEW g \in Files PROVE FileOK(g)'
  <2>1. CASE g = f
    BY <1>12, <2>1
  <2>2. CASE g # f
    BY <1>9, <2>2, FileStays DEF ShelfOK, FilesOK
  <2> QED BY <2>1, <2>2
<1>14. ASSUME NEW k \in Folder!Jobs PROVE JobOK(k)'
  <2>1. CASE k = j
    BY <1>11, <2>1
  <2>2. CASE k # j
    BY <1>7, <1>11, <2>2, JobStays DEF ShelfOK, JobsOK
  <2> QED BY <2>1, <2>2
<1> QED BY <1>8, <1>13, <1>14 DEF ShelfOK, FilesOK, JobsOK

LEMMA RemoveMediaOK ==
  ASSUME FilmsOutliveParts, ShelfOK, NEW j \in Folder!Jobs, Folder!RemoveMedia(j)
  PROVE  ShelfOK'
<1> DEFINE q == job[j]
           p == [q EXCEPT !.pc = "meta"]
<1>1. q \in Work /\ q.pc = "media" /\ JobOK(j) /\ ShelfTyped
  BY DEF Folder!RemoveMedia, ShelfOK, ShelfTyped, InMemory, JobsOK
<1>2. PICK f \in Files : q.id = {f}
  BY <1>1 DEF JobOK, Stands
<1>3. q.op \in {"remove", "sweep"} /\ (q.op = "sweep" => Lost(f))
  BY <1>1, <1>2 DEF JobOK, Stands, JobHeld, Work
<1>4. Folder!Unlink(j, <<"media", f>>, p)
  BY <1>2 DEF Folder!RemoveMedia
<1>5. p \in Work /\ p.op = q.op /\ p.pc = "meta" /\ p.id = {f} /\ p.names = q.names /\ p.known = q.known
  BY <1>1, <1>2 DEF Work, Folder!JobPcs
<1> HIDE DEF p
<1>6. job'[j] = p
  BY <1>4 DEF Folder!Unlink
<1>7. ASSUME Calm PROVE JobOK(j)'
  <2>1. Stands(j)' /\ Orphans(j)' /\ Leftovers(j)'
    BY <1>3, <1>5, <1>6 DEF Stands, Orphans, Leftovers
  <2>2. JobHeld(j)'
    BY <1>1, <1>2, <1>3, <1>5, <1>6, <1>7 DEF JobOK, JobHeld, Calm
  <2>3. Listing(j)'
    BY <1>1, <1>2, <1>5, <1>6, <1>7 DEF JobOK, Listing, Calm
  <2> QED BY <2>1, <2>2, <2>3 DEF JobOK
<1> QED BY <1>3, <1>4, <1>5, <1>7, UnlinkOK

LEMMA RemoveMetaOK ==
  ASSUME FilmsOutliveParts, ShelfOK, NEW j \in Folder!Jobs, Folder!RemoveMeta(j)
  PROVE  ShelfOK'
<1> DEFINE q == job[j]
           p == IF q.op = "sweep" THEN [q EXCEPT !.pc = "metas", !.id = {}] ELSE Folder!Idle
<1>1. q \in Work /\ q.pc = "meta" /\ JobOK(j) /\ ShelfTyped
  BY DEF Folder!RemoveMeta, ShelfOK, ShelfTyped, InMemory, JobsOK
<1>2. PICK f \in Files : q.id = {f}
  BY <1>1 DEF JobOK, Stands
<1>3. q.op \in {"remove", "sweep"} /\ (q.op = "sweep" => Lost(f))
  BY <1>1, <1>2 DEF JobOK, Stands, JobHeld, Work
<1>4. Folder!Unlink(j, <<"meta", f>>, p)
  BY <1>2 DEF Folder!RemoveMeta
<1>5. p \in Work /\ (p = Folder!Idle \/ (q.op = "sweep" /\ p.op = "sweep" /\ p.pc = "metas" /\ p.id = {} /\ p.names = q.names /\ p.known = q.known))
  BY <1>1, IdleIs DEF Work, Folder!JobPcs
<1> HIDE DEF p
<1>6. job'[j] = p /\ metas'[f] = "none"
  BY <1>1, <1>4 DEF Folder!Unlink, ShelfTyped, OnDisk
<1>7. ASSUME Calm PROVE JobOK(j)'
  <2>1. CASE p = Folder!Idle
    BY <1>6, <2>1, IdleIs
  <2>2. CASE q.op = "sweep" /\ p.op = "sweep" /\ p.pc = "metas" /\ p.id = {} /\ p.names = q.names /\ p.known = q.known
    <3>1. Stands(j)' /\ Orphans(j)' /\ Leftovers(j)' /\ JobHeld(j)'
      BY <1>6, <2>2 DEF Stands, Orphans, Leftovers, JobHeld
    <3>2. ASSUME NEW g \in Files, Late(g)' PROVE <<"meta", g>> \in q.names
      <4>1. g # f /\ Late(g)
        BY <1>6, <1>7, <3>2 DEF Calm, Late
      <4> QED BY <1>1, <1>2, <2>2, <4>1 DEF JobOK, Listing
    <3>3. Listing(j)'
      BY <1>1, <1>6, <1>7, <2>2, <3>2 DEF JobOK, Listing, Calm
    <3> QED BY <3>1, <3>3 DEF JobOK
  <2> QED BY <1>5, <2>1, <2>2
<1> QED BY <1>3, <1>4, <1>5, <1>7, UnlinkOK

LEMMA ClearOneOK ==
  ASSUME FilmsOutliveParts, ShelfOK, NEW j \in Folder!Jobs, Folder!ClearOne(j)
  PROVE  ShelfOK'
<1> DEFINE q == job[j]
<1>1. q \in Work /\ q.op = "clear" /\ JobOK(j)
  BY DEF Folder!ClearOne, ShelfOK, ShelfTyped, InMemory, JobsOK
<1>2. PICK n \in q.names : Folder!Unlink(j, n, [q EXCEPT !.names = @ \ {n}])
  BY DEF Folder!ClearOne
<1>3. PICK kind \in {"part", "media", "meta"}, f \in Files : n = <<kind, f>>
  BY <1>1 DEF Work, Folder!Names
<1> DEFINE p == [q EXCEPT !.names = @ \ {n}]
<1>4. p \in Work /\ p.op = "clear" /\ p.pc = q.pc /\ p.id = q.id
  BY <1>1 DEF Work
<1>5. q.pc \in {"tmp", "files", "all"} /\ q.id = {}
  BY <1>1 DEF JobOK, Stands
<1>6. Folder!Unlink(j, <<kind, f>>, p)
  BY <1>2, <1>3
<1> HIDE DEF p
<1>7. job'[j] = p
  BY <1>6 DEF Folder!Unlink
<1>8. JobOK(j)'
  BY <1>4, <1>5, <1>7 DEF JobOK, Stands, JobHeld, Listing, Orphans, Leftovers
<1> QED BY <1>1, <1>4, <1>6, <1>8, UnlinkOK

\* What is old enough is unlinked; a film among it is nobody's.
LEMMA SweepAgedOK ==
  ASSUME FilmsOutliveParts, ShelfOK, NEW j \in Folder!Jobs,
         Folder!SweepAged(j, "orphans", FILE_TTL) \/ Folder!SweepAged(j, "parts", TMP_TTL)
  PROVE  ShelfOK'
<1> DEFINE q == job[j]
<1>1. PICK pc \in {"orphans", "parts"}, ttl \in Nat :
        /\ pc = "orphans" => ttl = FILE_TTL
        /\ pc = "parts" => ttl = TMP_TTL
        /\ Folder!SweepAged(j, pc, ttl)
  BY DEF FilmsOutliveParts
<1>2. q \in Work /\ q.op = "sweep" /\ q.pc = pc /\ JobOK(j) /\ q.id = {} /\ ShelfTyped
  BY <1>1 DEF Folder!SweepAged, Folder!At, ShelfOK, ShelfTyped, InMemory, JobsOK, JobOK, Stands
<1>3. PICK n \in q.names : IF mtime[n[2]] <= now - ttl THEN Folder!Unlink(j, n, Folder!Drop(q, n))
                           ELSE JobOnly(j, Folder!Drop(q, n))
  BY <1>1 DEF Folder!SweepAged, Folder!Goes, Folder!disk, Folder!clock, Folder!told, JobOnly
<1>4. PICK kind \in {"media", "part"}, f \in Files :
        n = <<kind, f>> /\ (pc = "orphans" => kind = "media") /\ (pc = "parts" => kind = "part")
  BY <1>2 DEF JobOK, Orphans, Leftovers
<1> DEFINE p == Folder!Drop(q, n)
<1>5. p \in Work /\ p.op = "sweep" /\ p.pc = pc /\ p.id = {} /\ p.names = q.names \ {n}
  BY <1>2 DEF Folder!Drop, Work
<1> HIDE DEF p
<1>6. n[2] = f /\ mtime[f] \in Nat /\ now \in Nat
  BY <1>2, <1>4 DEF ShelfTyped, OnDisk, Said
<1>7. CASE mtime[f] <= now - ttl
  <2>1. Folder!Unlink(j, <<kind, f>>, p)
    BY <1>3, <1>4, <1>6, <1>7 DEF p
  <2>2. job'[j] = p /\ (kind = "part" => parts' = parts \ {f})
    BY <2>1 DEF Folder!Unlink
  <2>3. kind # "part" => Lost(f)
    BY <1>1, <1>2, <1>4, <1>6, <1>7 DEF JobOK, Orphans, Young, FilmsOutliveParts
  <2>4. ASSUME Calm PROVE JobOK(j)'
    <3>1. Stands(j)' /\ JobHeld(j)' /\ Listing(j)'
      BY <1>5, <2>2 DEF Stands, JobHeld, Listing
    <3>2. Orphans(j)'
      BY <1>2, <1>5, <2>2, <2>4 DEF JobOK, Orphans, Calm
    <3>3. ASSUME pc = "parts" PROVE Leftovers(j)'
      <4>1. ASSUME NEW g \in Files, Stale(g)' PROVE <<"part", g>> \in p.names
        <5>1. Stale(g) /\ g # f
          BY <1>4, <2>2, <2>4, <3>3, <4>1 DEF Calm, Stale
        <5>2. <<"part", g>> \in q.names /\ <<"part", g>> # n
          BY <1>2, <1>4, <3>3, <5>1 DEF JobOK, Leftovers
        <5> QED BY <1>5, <5>2
      <4> QED BY <1>2, <1>5, <2>2, <2>4, <3>3, <4>1 DEF JobOK, Leftovers, Calm
    <3>4. Leftovers(j)'
      BY <1>5, <2>2, <3>3 DEF Leftovers
    <3> QED BY <3>1, <3>2, <3>4 DEF JobOK
  <2> QED BY <1>5, <2>1, <2>3, <2>4, UnlinkOK
<1>8. CASE ~(mtime[f] <= now - ttl)
  <2>1. JobOnly(j, p)
    BY <1>3, <1>6, <1>8 DEF p
  <2>2. job'[j] = p
    BY <1>2, <1>5, <2>1 DEF JobOnly, ShelfTyped, InMemory
  <2>3. pc = "parts" => ~Stale(f)
    BY <1>1, <1>6, <1>8 DEF Stale
  <2>4. Stands(j)' /\ JobHeld(j)' /\ Listing(j)'
    BY <1>5, <2>2 DEF Stands, JobHeld, Listing
  <2>5. Orphans(j)'
    BY <1>2, <1>5, <2>1, <2>2, SameWords DEF JobOK, Orphans
  <2>6. pc = "parts" => \A g \in Files : ~Late(g) /\ (Stale(g) => <<"part", g>> \in p.names)
    BY <1>2, <1>4, <1>5, <2>3 DEF JobOK, Leftovers
  <2>7. Leftovers(j)'
    BY <1>2, <1>5, <2>1, <2>2, <2>6, SameWords DEF JobOK, Leftovers
  <2>8. JobOK(j)'
    BY <2>4, <2>5, <2>7 DEF JobOK
  <2> QED BY <1>5, <2>1, <2>8, OnlyTheJob
<1> QED BY <1>7, <1>8

-----------------------------------------------------------------------------
(* An hour passes; the process dies. *)

LEMMA TickOK ==
  ASSUME FilmsOutliveParts, ShelfOK, Folder!Tick
  PROVE  ShelfOK'
<1>1. /\ now < MaxNow /\ now' = now + 1 /\ swept /\ swept' = FALSE
      /\ UNCHANGED <<parts, media, metas, expires, mtime, up, job, crashes, promise, touched>>
      /\ \A j \in Folder!Jobs : job[j] = Folder!Idle
      /\ \A f \in Files : up[f].pc \notin {"whole", "named", "writing"}
  BY DEF Folder!Tick, Folder!Quiet, Folder!disk, Folder!told
<1>2. ShelfTyped /\ now \in Nat
  BY DEF ShelfOK, ShelfTyped, Said
<1>3. ShelfTyped'
  <2>1. OnDisk'
    BY <1>1, <1>2 DEF ShelfTyped, OnDisk
  <2>2. Said'
    <3>1. swept' \in BOOLEAN
      BY <1>1, Zenon
    <3>2. now' \in 0..MaxNow
      BY <1>1, <1>2 DEF ShelfTyped, Said, FilmsOutliveParts
    <3> QED BY <1>1, <1>2, <3>1, <3>2 DEF ShelfTyped, Said
  <2> QED BY <1>1, <1>2, <2>1, <2>2 DEF ShelfTyped, InMemory
<1>4. ASSUME NEW f \in Files PROVE FileOK(f)'
  <2>1. FileOK(f) /\ mtime[f] \in Nat /\ expires[f] \in Nat /\ promise[f] \in Nat \cup {-1, -2}
    BY <1>2 DEF ShelfOK, FilesOK, ShelfTyped, OnDisk, Said
  <2>2. Told(f)' /\ Arriving(f)' /\ Taken(f)'
    BY <1>1, <2>1 DEF FileOK, Told, Arriving, Taken, Stored, Begun
  <2>3. InTime(f)'
    BY <1>1, <1>2, <2>1 DEF FileOK, InTime, Taken, Late, Stale, FilmsOutliveParts, Folder!Due, Folder!Forever
  <2>4. Kept(f)'
    BY <1>1, <1>2, <2>1 DEF FileOK, Kept, Folder!Owed, Folder!Forever
  <2> QED BY <2>2, <2>3, <2>4, FileParts
<1>5. JobsOK'
  BY <1>1, IdleIs DEF JobsOK
<1> QED BY <1>3, <1>4, <1>5 DEF ShelfOK, FilesOK

LEMMA CrashOK ==
  ASSUME FilmsOutliveParts, ShelfOK, Folder!Crash
  PROVE  ShelfOK'
<1>1. /\ crashes < MaxCrashes /\ crashes' = crashes + 1
      /\ job' = [j \in Folder!Jobs |-> Folder!Idle]
      /\ up' = [f \in Files |-> IF up[f].pc \in {"sending", "whole", "named", "writing"}
                                THEN [up[f] EXCEPT !.pc = "failed", !.live = FALSE] ELSE up[f]]
      /\ UNCHANGED <<parts, media, metas, expires, mtime, now, swept, promise, touched>>
  BY DEF Folder!Crash, Folder!disk, Folder!told
<1>2. ShelfTyped
  BY DEF ShelfOK
<1>3. \A f \in Files : up'[f] \in Upload /\ (up'[f] = up[f] \/ (up[f].pc # "answered" /\ up'[f].pc = "failed"))
                       /\ up'[f].pc \notin {"named", "writing"}
  <2> SUFFICES ASSUME NEW f \in Files
               PROVE  up'[f] \in Upload /\ (up'[f] = up[f] \/ (up[f].pc # "answered" /\ up'[f].pc = "failed"))
                      /\ up'[f].pc \notin {"named", "writing"}
    OBVIOUS
  <2>1. up[f] \in Upload
    BY <1>2 DEF ShelfTyped, InMemory
  <2> QED BY <1>1, <2>1 DEF Upload, Folder!UpPcs
<1>4. ShelfTyped'
  <2>1. up' \in [Files -> Upload] /\ job' \in [Folder!Jobs -> Work]
    BY <1>1, <1>3, IdleIs
  <2>2. crashes < MaxCrashes /\ crashes' = crashes + 1
        /\ UNCHANGED <<parts, media, metas, expires, mtime, now, swept, promise, touched>>
    BY <1>1
  <2>3. OnDisk' /\ Said'
    BY <1>2, <2>2 DEF ShelfTyped, OnDisk, Said, FilmsOutliveParts
  <2> QED BY <2>1, <2>3 DEF ShelfTyped, InMemory
<1>5. ASSUME NEW f \in Files PROVE FileOK(f)'
  <2>1. FileOK(f)
    BY DEF ShelfOK, FilesOK
  <2>2. Told(f)' /\ Arriving(f)'
    BY <1>1, <1>3, <2>1 DEF FileOK, Told, Arriving, Stored, Begun
  <2>3. InTime(f)' /\ Taken(f)' /\ Kept(f)'
    BY <1>1, <2>1 DEF FileOK, InTime, Taken, Kept, Late, Stale, Folder!Due, Folder!Owed, Folder!Forever
  <2> QED BY <2>2, <2>3, FileParts
<1>6. JobsOK'
  BY <1>1, IdleIs DEF JobsOK
<1> QED BY <1>4, <1>5, <1>6 DEF ShelfOK, FilesOK

-----------------------------------------------------------------------------
LEMMA ShelfFirst == FilmsOutliveParts /\ Folder!Init => ShelfOK
<1> SUFFICES ASSUME FilmsOutliveParts, Folder!Init PROVE ShelfOK
  OBVIOUS
<1> USE DEF Folder!Init
<1>1. ShelfTyped
  <2>1. up \in [Files -> Upload] /\ job \in [Folder!Jobs -> Work]
    BY IdleIs DEF Upload, Folder!UpPcs
  <2>2. OnDisk
    BY DEF OnDisk, Folder!Forever
  <2>3. Said
    <3>1. swept \in BOOLEAN
      BY Zenon
    <3>2. now \in 0..MaxNow /\ crashes \in 0..MaxCrashes
      BY DEF FilmsOutliveParts
    <3>3. promise \in [Files -> Nat \cup {-1, -2}] /\ touched \subseteq Files
      BY DEF Folder!Nobody
    <3> QED BY <3>1, <3>2, <3>3 DEF Said
  <2> QED BY <2>1, <2>2, <2>3 DEF ShelfTyped, InMemory
<1>2. FilesOK
  BY DEF FilesOK, FileOK, Told, Arriving, InTime, Taken, Kept, Stored, Begun, Late, Stale, Folder!Owed,
    Folder!Forever, Folder!Nobody
<1>3. JobsOK
  BY DEF JobsOK, Folder!Idle, JobOK, Stands, JobHeld, Listing, Orphans, Leftovers
<1> QED BY <1>1, <1>2, <1>3 DEF ShelfOK

LEMMA ServeOK ==
  ASSUME FilmsOutliveParts, ShelfOK, NEW j \in Folder!Jobs, Folder!Serve(j)
  PROVE  ShelfOK'
BY RedateOpenOK, RedateWriteOK, TakenUp, RemoveMediaOK, RemoveMetaOK, ClearOneOK, SweepMetaOK, SweepAgainOK,
   SweepOrphansOK, SweepPartsOK, SweepAgedOK, SweepEndsOK DEF Folder!Serve

LEMMA ShelfStep == FilmsOutliveParts /\ ShelfOK /\ [Folder!Next]_(Folder!vars) => ShelfOK'
<1> SUFFICES ASSUME FilmsOutliveParts, ShelfOK, [Folder!Next]_(Folder!vars) PROVE ShelfOK'
  OBVIOUS
<1>1. ASSUME NEW f \in Files, Folder!Receive(f) PROVE ShelfOK'
  BY <1>1, BeginOK, ChunkOK, EndsOK, RenameOK, OpenMetaOK, WriteMetaOK DEF Folder!Receive
<1>2. ASSUME NEW j \in Hands, Folder!Request(j) PROVE ShelfOK'
  <2>1. j \in Folder!Jobs
    BY DEF Folder!Jobs
  <2> QED BY <1>2, <2>1, RedateOK, TakenUp, SweepOK DEF Folder!Request
<1>3. ASSUME Folder!Sweep(Timer) PROVE ShelfOK'
  BY <1>3, SweepOK DEF Folder!Jobs
<1>4. CASE UNCHANGED Folder!vars
  <2>1. UNCHANGED <<parts, media, metas, expires, mtime, up, job, now, swept, crashes, promise, touched>>
    BY <1>4 DEF Folder!vars, Folder!disk, Folder!clock, Folder!told
  <2>2. Calm
    BY <2>1, NothingElse
  <2>3. \A f \in Files : FileOK(f)'
    BY <2>1, FileStays DEF ShelfOK, FilesOK, SameFile
  <2>4. \A j \in Folder!Jobs : JobOK(j)'
    BY <2>1, <2>2, JobStays DEF ShelfOK, JobsOK, Still
  <2>5. ShelfTyped'
    BY <2>1 DEF ShelfOK, ShelfTyped, OnDisk, InMemory, Said
  <2> QED BY <2>3, <2>4, <2>5 DEF ShelfOK, FilesOK, JobsOK
<1> QED BY <1>1, <1>2, <1>3, <1>4, ServeOK, TickOK, CrashOK DEF Folder!Next

LEMMA ShelfInvariance == FilmsOutliveParts /\ Folder!Spec => []ShelfOK
<1> SUFFICES ASSUME FilmsOutliveParts PROVE Folder!Spec => []ShelfOK
  OBVIOUS
<1>1. Folder!Init => ShelfOK
  BY ShelfFirst
<1>2. ShelfOK /\ [Folder!Next]_(Folder!vars) => ShelfOK'
  BY ShelfStep
<1> QED BY <1>1, <1>2, PTL DEF Folder!Spec

\* The types of the folder, its uploads and its jobs (storage.js).
THEOREM FolderTypeCorrect == FilmsOutliveParts /\ Folder!Spec => []Folder!TypeOK
<1> SUFFICES ASSUME FilmsOutliveParts PROVE Folder!Spec => []Folder!TypeOK
  OBVIOUS
<1>1. ShelfOK => Folder!TypeOK
  <2> SUFFICES ASSUME ShelfOK PROVE Folder!TypeOK
    OBVIOUS
  <2>1. OnDisk /\ InMemory /\ Said
    BY DEF ShelfOK, ShelfTyped
  <2>2. ASSUME NEW f \in Files
        PROVE  up[f].pc \in Folder!UpPcs /\ up[f].exp \in Nat /\ up[f].keep \in Keeps \cup {0} /\ up[f].live \in BOOLEAN
    BY <2>1 DEF InMemory, Upload
  <2>3. ASSUME NEW j \in Folder!Jobs
        PROVE  /\ job[j].op \in {"idle", "redate", "remove", "clear", "sweep"}
               /\ job[j].pc \in Folder!JobPcs /\ job[j].exp \in Nat /\ job[j].live \in BOOLEAN
               /\ job[j].names \subseteq Folder!Names /\ job[j].known \subseteq Files
               /\ IF job[j].pc \in {"open", "write", "media", "meta", "again"}
                  THEN \E f \in Files : job[j].id = {f} ELSE job[j].id = {}
    <3>1. job[j] \in Work
      BY <2>1 DEF InMemory
    <3>2. Stands(j)
      BY DEF ShelfOK, JobsOK, JobOK
    <3> QED BY <3>1, <3>2 DEF Work, Stands
  <2>4. /\ parts \subseteq Files /\ media \subseteq Files /\ touched \subseteq Files
        /\ metas \in [Files -> {"none", "torn", "whole"}]
        /\ expires \in [Files -> Nat] /\ mtime \in [Files -> 0..now]
    BY <2>1 DEF OnDisk, Said
  <2>5. /\ now \in 0..MaxNow /\ swept \in BOOLEAN /\ crashes \in 0..MaxCrashes
        /\ promise \in [Files -> Nat \cup {Folder!Nobody, Folder!Removed}]
    BY <2>1 DEF Said, Folder!Nobody, Folder!Removed
  <2> QED BY <2>2, <2>3, <2>4, <2>5, Zenon DEF Folder!TypeOK
<1> QED BY <1>1, ShelfInvariance, PTL

\* storage.js:412-413 "the meta is the authority and the media file follows it": a file that
\* nobody re-dates or removes is there, with the date it was answered with, until that hour,
\* whatever sweeps, clearings, failures and crashes there are and in whatever order.
THEOREM KeptUntilThen == FilmsOutliveParts /\ Folder!Spec => []KeptUntilItsTime
<1> SUFFICES ASSUME FilmsOutliveParts PROVE Folder!Spec => []KeptUntilItsTime
  OBVIOUS
<1>1. ShelfOK => KeptUntilItsTime
  BY DEF ShelfOK, FilesOK, FileOK, Kept, KeptUntilItsTime, Folder!KeptUntilItsTime
<1> QED BY <1>1, ShelfInvariance, PTL

\* stream-server.js:411 "The disk gets back to zero on its own": with a sweep an hour, no
\* film outstays its date by an hour, and no part its age.
THEOREM NothingOutstays == FilmsOutliveParts /\ Folder!Spec => []NoneOutstays
<1> SUFFICES ASSUME FilmsOutliveParts PROVE Folder!Spec => []NoneOutstays
  OBVIOUS
<1>1. ShelfOK => NoneOutstays
  BY DEF ShelfOK, FilesOK, FileOK, InTime, NoneOutstays, Folder!NoneOutstays, Folder!Forever
<1> QED BY <1>1, ShelfInvariance, PTL
=============================================================================
