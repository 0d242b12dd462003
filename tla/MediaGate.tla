------------------------------- MODULE MediaGate -------------------------------
(***************************************************************************)
(* What lib/media.js holds an address to be: by the end of its name, by    *)
(* the type a server declares, and by what its body proves; and the gate   *)
(* both scans pass an address through before a person is offered it.       *)
(*                                                                         *)
(* An address is a record of where it is, the end of its name, and whether *)
(* its host is one that never carries a player.                            *)
(***************************************************************************)
EXTENDS Naturals, Sequences, FiniteSets, SequencesExt

MediaExt == {"m3u8", "mpd", "mp4", "mp3"}       \* MEDIA_EXT, PLAYABLE_EXT
SegmentExt == {"ts"}                            \* SEGMENT_EXT
NotMediaExt == {"js"}                           \* NOT_MEDIA_EXT
NameEnds == MediaExt \cup SegmentExt \cup NotMediaExt \cup {"php", "none"}

MediaType == {"mpegurl", "dash", "mp4", "audio", "mp2t"}   \* MEDIA_TYPE, but for octet-stream
SegmentType == {"mp2t"}
ContainerType == {"mpegurl", "dash", "mp4", "audio"}
Types == MediaType \cup {"", "octet", "html", "text"}

Kinds == {"HLS", "DASH", "MP4", "AUDIO", "VIDEO"}

\* What a name says.
KindOf(a) ==
  CASE a.suffix = "m3u8" -> "HLS" [] a.suffix = "mpd" -> "DASH" [] a.suffix = "mp3" -> "AUDIO"
    [] a.suffix = "mp4" -> "MP4" [] OTHER -> "VIDEO"

\* What a declared type says.
TypeToKind(type) ==
  CASE type = "mpegurl" -> "HLS" [] type = "dash" -> "DASH" [] type = "mp4" -> "MP4"
    [] type = "audio" -> "AUDIO" [] OTHER -> "VIDEO"

\* A proof, said as a content type.
KindToType(kind) ==
  CASE kind = "HLS" -> "mpegurl" [] kind = "DASH" -> "dash" [] kind = "AUDIO" -> "audio" [] OTHER -> "mp4"

\* What the first bytes of a body prove.
BodyKind(body) ==
  CASE body \in {"master", "playlist"} -> "HLS" [] body = "mpd" -> "DASH"
    [] body = "container" -> "MP4" [] OTHER -> ""

\* The gate.
Offerable(a, type, segments) ==
  /\ a \notin segments
  /\ type \notin SegmentType
  /\ a.suffix \notin SegmentExt \cup NotMediaExt
  /\ type \in ContainerType \/ a.suffix \in MediaExt \cup {"none"}

\* The likelier first.
Rank(kind) == CASE kind = "HLS" -> 0 [] kind = "DASH" -> 1 [] kind = "MP4" -> 2 [] kind = "AUDIO" -> 5 [] OTHER -> 4

\* An order of rows by rank that leaves equals where they were.
Ranked(rows) ==
  LET Before(i, j) == Rank(rows[i].kind) < Rank(rows[j].kind) \/ (Rank(rows[i].kind) = Rank(rows[j].kind) /\ i < j)
      places == SetToSortSeq(DOMAIN rows, Before)
  IN [k \in DOMAIN places |-> rows[places[k]]]

\* Each value once, where it first stands.
Once(s) ==
  LET firsts == {i \in DOMAIN s : \A j \in 1..(i - 1) : s[j] # s[i]}
      places == SetToSortSeq(firsts, LAMBDA i, j : i < j)
  IN [k \in DOMAIN places |-> s[places[k]]]

Firsts(s, n) == SubSeq(s, 1, IF Len(s) < n THEN Len(s) ELSE n)

\* The rows a list already has, and those it has not, each address once.
AddNew(rows, more) ==
  LET Step(acc, r) == IF \E i \in DOMAIN acc : acc[i].url = r.url THEN acc ELSE Append(acc, r)
  IN FoldLeft(Step, rows, more)
=============================================================================
