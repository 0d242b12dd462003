--------------------------------- MODULE Probe ---------------------------------
(***************************************************************************)
(* The table of found streams and what it is told of each: the queue and   *)
(* the rows of app.js (mediaTable, runQueue, probeRow), and api/probe.js,  *)
(* which reads what is at an address: a playlist, a manifest, or a file.   *)
(*                                                                         *)
(* A row's stream is a constant record: the kind its name says, what is    *)
(* really there, its pieces with their sizes, and how its host answers a   *)
(* request for one byte.  Numbers are small; what matters is which number  *)
(* is shown, and with which mark.                                          *)
(***************************************************************************)
EXTENDS Naturals, Sequences, FiniteSets, SequencesExt

CONSTANTS
  None,
  Streams,    \* the rows, in order: [named, body, live, length, pieces, rate, size, head, tail]
  HostOf,     \* address -> how it answers a one-byte range, and the total it holds
  Width,      \* how many rows are asked about at a time
  Samples     \* SEGMENT_SAMPLES

VARIABLES
  at,         \* row -> waiting, asked, playlist, sampling, total, head, tail, shown
  out,        \* row -> the answer so far
  left,       \* row -> the samples still to come
  got,        \* row -> the sizes that came
  next,       \* the first row that was not asked about
  shown       \* row -> [length, live, size, mark], or None

vars == <<at, out, left, got, next, shown>>
Rows == 1..Len(Streams)

Blank == [length |-> None, live |-> FALSE, bytes |-> None, basis |-> None, failed |-> FALSE]

Init ==
  /\ at = [i \in Rows |-> IF i <= Width THEN "asked" ELSE "waiting"]
  /\ next = (IF Len(Streams) < Width THEN Len(Streams) ELSE Width) + 1
  /\ out = [i \in Rows |-> Blank] /\ left = [i \in Rows |-> {}] /\ got = [i \in Rows |-> <<>>]
  /\ shown = [i \in Rows |-> None]

-----------------------------------------------------------------------------
(* One byte is asked for, and the total told. *)

\* A mutant's reading: the length of whatever came back.
TotalOfAnyLength(u) ==
  CASE HostOf[u].answers \in {"range", "bare range"} -> 1
    [] HostOf[u].answers = "whole" -> HostOf[u].total
    [] OTHER -> None

\* A range answers with the total, a host that ignores it with the whole length.
Total(u) ==
  CASE HostOf[u].answers = "range" -> HostOf[u].total
    [] HostOf[u].answers = "whole" -> HostOf[u].total
    [] OTHER -> None

\* Three pieces, spread over the playlist.
Picks(pieces) ==
  LET step == IF Len(pieces) < Samples THEN 1 ELSE Len(pieces) \div Samples
      places == SelectSeq([i \in 1..Len(pieces) |-> i], LAMBDA i : (i - 1) % step = 0)
  IN {places[k] : k \in 1..(IF Len(places) < Samples THEN Len(places) ELSE Samples)}

Average(sizes) == FoldLeft(LAMBDA a, b : a + b, 0, sizes) \div Len(sizes)

-----------------------------------------------------------------------------
(* What the table shows of an answer, and the next row it asks about. *)

Shows(o) ==
  IF o.failed \/ o.live THEN [length |-> None, live |-> o.live, size |-> None, mark |-> None]
  ELSE [length |-> o.length, live |-> FALSE, size |-> o.bytes, mark |-> IF o.basis = "measured" THEN "exact" ELSE "about"]

\* A mutant's row, whose failure leaves its place in the queue empty.
SettlesIfRead(i, o) ==
  /\ shown' = [shown EXCEPT ![i] = Shows(o)]
  /\ IF ~o.failed /\ next \in Rows
     THEN at' = [at EXCEPT ![i] = "shown", ![next] = "asked"] /\ next' = next + 1
     ELSE at' = [at EXCEPT ![i] = "shown"] /\ next' = next

\* The row is filled in, whatever came, and the next is asked about.
Settles(i, o) ==
  /\ shown' = [shown EXCEPT ![i] = Shows(o)]
  /\ IF next \in Rows
     THEN at' = [at EXCEPT ![i] = "shown", ![next] = "asked"] /\ next' = next + 1
     ELSE at' = [at EXCEPT ![i] = "shown"] /\ next' = next

Goes(i, where, o) == at' = [at EXCEPT ![i] = where] /\ out' = [out EXCEPT ![i] = o] /\ UNCHANGED <<next, shown>>

\* No answer, a refusal, a request that timed out, or a browser that lost its own; a master
\* whose best rung cannot be read is answered without it.
Fails(i) ==
  /\ at[i] \notin {"waiting", "shown"}
  /\ \/ Settles(i, [Blank EXCEPT !.failed = TRUE])
     \/ at[i] = "playlist" /\ Streams[i].body = "master" /\ Settles(i, out[i])
  /\ UNCHANGED <<out, left, got>>

-----------------------------------------------------------------------------
(* A playlist, by its name. *)

\* A master says its ladder, and its best rung is read; what is no playlist is refused.
Reads(i) ==
  /\ at[i] = "asked" /\ Streams[i].named = "HLS"
  /\ Streams[i].body \in {"master", "playlist"}
  /\ Goes(i, "playlist", out[i]) /\ UNCHANGED <<left, got>>

\* A mutant's reading, which measures what has not ended.
PlaylistOfAny(i) ==
  /\ at[i] = "playlist"
  /\ LET o == [out[i] EXCEPT !.length = Streams[i].length, !.live = FALSE]
     IN Goes(i, "sampling", o) /\ left' = [left EXCEPT ![i] = Picks(Streams[i].pieces)] /\ UNCHANGED got

\* A live stream has no length and no size; one that has ended is sampled.
Playlist(i) ==
  /\ at[i] = "playlist"
  /\ LET o == [out[i] EXCEPT !.length = Streams[i].length, !.live = Streams[i].live]
     IN IF o.live \/ o.length = None
        THEN Settles(i, o) /\ out' = [out EXCEPT ![i] = o] /\ UNCHANGED <<left, got>>
        ELSE Goes(i, "sampling", o) /\ left' = [left EXCEPT ![i] = Picks(Streams[i].pieces)] /\ UNCHANGED got

\* One sample is back, with a size or without.
Sampled(i) ==
  /\ at[i] = "sampling"
  /\ \E k \in left[i] : \E n \in {Total(Streams[i].pieces[k]), None} :
       /\ left' = [left EXCEPT ![i] = @ \ {k}]
       /\ got' = [got EXCEPT ![i] = IF n = None THEN @ ELSE Append(@, n)]
  /\ UNCHANGED <<at, out, next, shown>>

\* The average times the number of pieces; without one, the declared rate.
Adds(i) ==
  /\ at[i] = "sampling" /\ left[i] = {}
  /\ LET s == Streams[i]
         o == IF got[i] # <<>>
              THEN [out[i] EXCEPT !.bytes = Average(got[i]) * Len(s.pieces), !.basis = "sampled"]
              ELSE IF s.rate # None THEN [out[i] EXCEPT !.bytes = s.rate * s.length, !.basis = "bitrate"]
              ELSE out[i]
     IN Settles(i, o) /\ out' = [out EXCEPT ![i] = o]
  /\ UNCHANGED <<left, got>>

\* A manifest declares its length and no size.
Dash(i) ==
  /\ at[i] = "asked" /\ Streams[i].named = "DASH"
  /\ LET o == [out[i] EXCEPT !.length = Streams[i].length, !.live = Streams[i].live]
     IN Settles(i, o) /\ out' = [out EXCEPT ![i] = o]
  /\ UNCHANGED <<left, got>>

-----------------------------------------------------------------------------
(* Anything else is a file. *)

\* Its size first; only an mp4's length can be read.
File(i) ==
  /\ at[i] = "asked" /\ Streams[i].named \in {"MP4", "VIDEO"}
  /\ \E n \in {Total(Streams[i].size), None} :
       LET o == [out[i] EXCEPT !.bytes = n, !.basis = IF n = None THEN None ELSE "measured"]
       IN IF Streams[i].named = "MP4" THEN Goes(i, "head", o)
          ELSE Settles(i, o) /\ out' = [out EXCEPT ![i] = o]
  /\ UNCHANGED <<left, got>>

\* The length stands at the front, or else at the end of a file whose size is known.
FromHead(i) ==
  /\ at[i] = "head"
  /\ \/ /\ Streams[i].head
        /\ LET o == [out[i] EXCEPT !.length = Streams[i].length] IN Settles(i, o) /\ out' = [out EXCEPT ![i] = o]
     \/ /\ IF out[i].bytes # None THEN Goes(i, "tail", out[i]) ELSE Settles(i, out[i]) /\ UNCHANGED out
  /\ UNCHANGED <<left, got>>

FromTail(i) ==
  /\ at[i] = "tail"
  /\ \E o \in {out[i]} \cup {[out[i] EXCEPT !.length = n] : n \in {Streams[i].length}} :
       Settles(i, o) /\ out' = [out EXCEPT ![i] = o]
  /\ UNCHANGED <<left, got>>

\* The host's silence ends: every request has a time.
RowStep(i) == Fails(i) \/ Reads(i) \/ Playlist(i) \/ Sampled(i) \/ Adds(i) \/ Dash(i) \/ File(i) \/ FromHead(i) \/ FromTail(i)
Next == \E i \in Rows : RowStep(i)
Spec == Init /\ [][Next]_vars /\ WF_vars(Next)

-----------------------------------------------------------------------------
\* Types: how far each row is, what came for it, and what it shows.
TypeOK ==
  /\ at \in [Rows -> {"waiting", "asked", "playlist", "sampling", "head", "tail", "shown"}]
  /\ \A i \in Rows : (shown[i] # None) <=> (at[i] = "shown")
  /\ Cardinality({i \in Rows : at[i] \notin {"waiting", "shown"}}) <= Width
  /\ \A i \in Rows : left[i] \subseteq DOMAIN Streams[i].pieces

\* Every row stops loading: three are asked about at a time, and one that fails does not
\* keep its place in the queue.
EveryRowSettles == \A i \in Rows : <>(at[i] = "shown")

\* A number without a mark is the measured size of the file at the row's address, and what
\* is live, where it is read as a list, is shown neither a length nor a size.
UnmarkedIsExact == \A i \in Rows : shown[i] # None =>
  /\ shown[i].size # None /\ shown[i].mark = "exact" => shown[i].size = HostOf[Streams[i].size].total
  /\ Streams[i].live /\ Streams[i].named \in {"HLS", "DASH"} => shown[i].size = None /\ shown[i].length = None

(* Stated by the code and not kept by it. *)

\* "Nothing is guessed and presented as fact": the kind is read off the name, so the size of
\* a manifest whose address has no name is shown as the film's, measured.
UnmarkedIsTheFilm == \A i \in Rows : shown[i] # None /\ shown[i].mark = "exact" /\ shown[i].size # None =>
  Streams[i].body = "file"

\* "A real measurement of a real file": the pieces of a byte-range playlist are one file.
AboutTheSize == \A i \in Rows : shown[i] # None /\ shown[i].mark = "about" /\ out[i].basis = "sampled" =>
  LET files == {Streams[i].pieces[k] : k \in DOMAIN Streams[i].pieces}
  IN Cardinality(files) = Len(Streams[i].pieces)
=============================================================================
