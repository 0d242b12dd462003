----------------------------- MODULE StreamBody -----------------------------
(***************************************************************************)
(* The body of a film on its way through the proxy (src/api/stream.js): a  *)
(* player asks for the film from somewhere on, the range is narrowed to a  *)
(* window, the front of a whole body is searched for an image it may be    *)
(* disguised behind, and the rest follows as fast as the player reads.  A  *)
(* player that seeks or stops closes its request at any moment, and asks   *)
(* again while the old one is still unwinding.  Bytes are counted in units.*)
(***************************************************************************)
EXTENDS Integers, Sequences

CONSTANTS Conns, None,
  Size,      \* units of the file
  Window,    \* RANGE_WINDOW_BYTES
  Peek,      \* HEAD_PEEK_BYTES
  Buffer,    \* what a response holds before write answers false
  MaxSeeks   \* bound: how often the player seeks, stops or is cut off

\* What the sizes are: a film has a unit, a window and a front are of one or more.
Sizes ==
  /\ Size \in Nat \ {0} /\ Window \in Nat \ {0} /\ Peek \in Nat \ {0}
  /\ Buffer \in Nat /\ MaxSeeks \in Nat

VARIABLES
  wrap,     \* units of image the file begins with, none if it is what it says
  byRange,  \* how the player asks: by range always, or for the whole first
  conn,     \* each request: its range, its answer, and what was sent and not read
  at, held, \* the player: where it reads, and <<its offset, the file's>> of what it has
  ranges,   \* whether the answers so far let it seek by range
  seeks

vars == <<wrap, byRange, conn, at, held, ranges, seeks>>

Idle == [pc |-> "none", ranged |-> FALSE, from |-> 0, next |-> 0, end |-> 0, head |-> <<>>,
         buf |-> <<>>, open |-> FALSE, alive |-> FALSE]

\* Types: the requests and their answers, and what the player holds.
TypeOK ==
  /\ wrap \in 0..Size /\ byRange \in BOOLEAN /\ at \in 0..Size /\ ranges \in BOOLEAN /\ seeks \in 0..MaxSeeks
  /\ \A c \in Conns : /\ conn[c].pc \in {"none", "asked", "peek", "flow", "drain", "sent", "done"}
                      /\ conn[c].next <= Size /\ conn[c].end <= Size

Init ==
  /\ wrap \in {0, 1} /\ byRange \in BOOLEAN /\ conn = [c \in Conns |-> Idle] /\ at = 0 /\ held = {}
  /\ ranges = TRUE /\ seeks = 0

Set(c, f) == conn' = [conn EXCEPT ![c] = [k \in DOMAIN @ |-> IF k \in DOMAIN f THEN f[k] ELSE @[k]]]
Listening == \E c \in Conns : conn[c].open

\* narrowRange: the last unit of an open range is that of its window.
NarrowTo(from) == from + Window - 1

-----------------------------------------------------------------------------
\* A player asks from where it reads on: by range, or for the whole.
Ask(c) ==
  /\ ~Listening /\ conn[c].pc \in {"none", "done"} /\ at < Size
  /\ ranges \/ at = 0
  /\ Set(c, [Idle EXCEPT !.pc = "asked", !.ranged = byRange \/ at > 0, !.from = at, !.open = TRUE])
  /\ UNCHANGED <<wrap, byRange, at, held, ranges, seeks>>

\* Without ranges it can only begin again.
Rewind ==
  /\ ~Listening /\ at > 0 /\ ~ranges /\ at' = 0 /\ held' = {}
  /\ UNCHANGED <<wrap, byRange, conn, ranges, seeks>>

\* The host gives the window, or ignores the range and sends the file.
Upstream(c) ==
  /\ conn[c].pc = "asked"
  /\ \E part \in {conn[c].ranged, FALSE} :
       LET from == IF part THEN conn[c].from ELSE 0
           last == IF part THEN NarrowTo(from) ELSE Size - 1 IN
       Set(c, [pc |-> "peek", alive |-> TRUE, from |-> from, next |-> from,
               end |-> IF last < Size THEN last + 1 ELSE Size])
  /\ UNCHANGED <<wrap, byRange, at, held, ranges, seeks>>

\* mediaStartsAt: where the media begins behind an image; nothing is stripped of a
\* range, whose offsets the player counts with.
StartsAt(c, head) ==
  IF ~conn[c].ranged /\ Len(head) > wrap /\ wrap > 0 /\ head[1] = 0 THEN wrap ELSE 0

\* A mutant's answer, which keeps the host's Accept-Ranges.
SeekableStill(c, cut) == ranges /\ c \in Conns /\ cut \in 0..Size

\* What is stripped answers to no range: its lengths and offsets are not the host's.
Seekable(c, cut) == ranges /\ (cut = 0 \/ ~conn[c].open)

\* res.write: false for a response that is full, and for one that is gone.
Written(c, units, rest) ==
  IF ~conn[c].open THEN [pc |-> "done", alive |-> FALSE, head |-> <<>>, buf |-> <<>>]
  ELSE [pc |-> IF Len(conn[c].buf) + Len(units) > Buffer THEN rest ELSE "flow",
        buf |-> conn[c].buf \o units, head |-> <<>>, next |-> conn[c].next + 1]

\* A chunk comes: kept until the front is long enough, then passed on.
Chunk(c) ==
  /\ conn[c].pc \in {"peek", "flow"} /\ conn[c].next < conn[c].end
  /\ LET head == Append(conn[c].head, conn[c].next)
         cut  == StartsAt(c, head) IN
     IF conn[c].pc = "flow"
     THEN Set(c, Written(c, <<conn[c].next>>, "drain")) /\ UNCHANGED ranges
     ELSE IF Len(head) < Peek
     THEN Set(c, [head |-> head, next |-> conn[c].next + 1]) /\ UNCHANGED ranges
     ELSE /\ Set(c, Written(c, SubSeq(head, cut + 1, Len(head)), "drain"))
          /\ ranges' = Seekable(c, cut)
  /\ UNCHANGED <<wrap, byRange, at, held, seeks>>

\* The body ends: one shorter than the peek is searched now.
SourceEnds(c) ==
  /\ conn[c].pc \in {"peek", "flow"} /\ conn[c].next = conn[c].end
  /\ LET cut == StartsAt(c, conn[c].head) IN
     /\ Set(c, [pc |-> "sent", alive |-> FALSE, head |-> <<>>,
                buf |-> conn[c].buf \o SubSeq(conn[c].head, cut + 1, Len(conn[c].head))])
     /\ ranges' = Seekable(c, cut)
  /\ UNCHANGED <<wrap, byRange, at, held, seeks>>

\* The body breaks: a 502 if nothing was sent, else an end.
SourceBreaks(c) ==
  /\ seeks < MaxSeeks /\ seeks' = seeks + 1
  /\ conn[c].pc \in {"asked", "peek", "flow"}
  /\ Set(c, [pc |-> "sent", alive |-> FALSE, head |-> <<>>])
  /\ UNCHANGED <<wrap, byRange, at, held, ranges>>

\* drain: the wait ends when the response is empty, or loses to its close, and
\* then the body's reading ends and the source is destroyed.
Drained(c) ==
  /\ conn[c].pc = "drain" /\ conn[c].open /\ conn[c].buf = <<>>
  /\ Set(c, [pc |-> "flow"])
  /\ UNCHANGED <<wrap, byRange, at, held, ranges, seeks>>

\* A mutant's wait, which only a drain ends.
DrainLostNot(c) ==
  /\ FALSE /\ c \in Conns /\ UNCHANGED vars

DrainLost(c) ==
  /\ conn[c].pc = "drain" /\ ~conn[c].open
  /\ Set(c, [pc |-> "done", alive |-> FALSE, buf |-> <<>>])
  /\ UNCHANGED <<wrap, byRange, at, held, ranges, seeks>>

-----------------------------------------------------------------------------
\* The player reads a unit: a part begins where it asked, a whole at its start.
Read(c) ==
  /\ conn[c].open /\ conn[c].buf # <<>>
  /\ held' = held \cup {<<conn[c].from, Head(conn[c].buf)>>} /\ at' = conn[c].from + 1
  /\ conn' = [conn EXCEPT ![c].buf = Tail(@), ![c].from = @ + 1]
  /\ UNCHANGED <<wrap, byRange, ranges, seeks>>

\* All of an answer is read: the request is over.
Over(c) ==
  /\ conn[c].pc = "sent" /\ (conn[c].buf = <<>> \/ ~conn[c].open)
  /\ Set(c, [pc |-> "done", open |-> FALSE, buf |-> <<>>])
  /\ UNCHANGED <<wrap, byRange, at, held, ranges, seeks>>

\* The player seeks, or stops, in the middle of an answer; it seeks what it knows.
Leave(c) ==
  /\ conn[c].open /\ seeks < MaxSeeks /\ seeks' = seeks + 1
  /\ Set(c, [open |-> FALSE])
  /\ \E p \in {at, 0} \cup (IF ranges /\ held # {} THEN {Size - 1} ELSE {}) : at' = p
  /\ UNCHANGED <<wrap, byRange, held, ranges>>

Handler(c) == Chunk(c) \/ SourceEnds(c) \/ Drained(c) \/ DrainLost(c) \/ Over(c)
Next == Rewind \/ \E c \in Conns : Ask(c) \/ Upstream(c) \/ Handler(c) \/ SourceBreaks(c) \/ Read(c) \/ Leave(c)

\* Hosts answer, and what they send ends; a player may stop reading for ever.
Spec == Init /\ [][Next]_vars /\ \A c \in Conns : WF_vars(Upstream(c)) /\ WF_vars(Handler(c))

-----------------------------------------------------------------------------
\* Across windows, seeks and disguises, the player's units are the file's, all
\* shifted by the same: there is no seam.
NoSeam == \A x, y \in held : x[2] - x[1] = y[2] - y[1]

\* A player that is gone lets the host go: no source outlives its response.
SourceReleased == \A c \in Conns : conn[c].pc # "none" /\ ~conn[c].open ~> ~conn[c].alive
=============================================================================
