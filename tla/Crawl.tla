-------------------------------- MODULE Crawl --------------------------------
(***************************************************************************)
(* The children of a page: lib/crawl.js, which sorts a page's links into   *)
(* episodes and seasons, and the handler of api/crawl.js, which reads a    *)
(* page, and a few season pages when it has no episodes of its own.        *)
(*                                                                         *)
(* A link is what the rules read in it: its address and site, the words of *)
(* its path and label that name an episode or a season, its numbers, its   *)
(* shape, the first segment of its path, and the names it carries.         *)
(***************************************************************************)
EXTENDS Integers, Sequences, FiniteSets, SequencesExt, Places

CONSTANTS
  None,
  Page,        \* the page that is asked for: its url, site, dir and names
  Catalogue,   \* the links it may carry, in the order of the page
  Within,      \* the season pages, by address, with their links
  FollowMax    \* FOLLOW_MAX

VARIABLES
  links,       \* what the page links to
  at,          \* asked, read, answered, failed
  left,        \* the seasons still to be followed
  found        \* the answer so far: episodes, seasons, via, followed

vars == <<links, at, left, found>>

-----------------------------------------------------------------------------
(* One link. *)
EpisodeWords == {"episode path", "season and episode", "episode number", "bare number"}
SeasonWords == {"season path", "season number"}

Considered(l, p) == l.site = p.site /\ l.url # p.url /\ l.opens

Kind(l) ==
  IF l.words \cap EpisodeWords # {} THEN "episode"
  ELSE IF l.words \cap SeasonWords # {} THEN "season" ELSE None

Kin(l, p) == l.names \cap p.names # {}

Judged(ls, p, kind) == Kept(ls, {i \in DOMAIN ls : Considered(ls[i], p) /\ Kind(ls[i]) = kind})

-----------------------------------------------------------------------------
(* The shape rule: the heaviest group of three or more. *)
Group(ls, p, shape) ==
  Kept(ls, {i \in DOMAIN ls : Considered(ls[i], p) /\ ls[i].digit /\ ls[i].shape = shape})

Weight(group, p) == Len(group) + IF Head(group).dir = p.dir THEN 5 ELSE 0

ByShape(ls, p) ==
  LET big == {g \in {Group(ls, p, l.shape) : l \in ToSet(ls)} : Len(g) >= 3}
      Where(g) == CHOOSE i \in DOMAIN ls : ls[i] = Head(g)
      Beats(g, h) == Weight(g, p) > Weight(h, p) \/ (Weight(g, p) = Weight(h, p) /\ Where(g) <= Where(h))
  IN IF big = {} THEN <<>> ELSE CHOOSE g \in big : \A h \in big : Beats(g, h)

-----------------------------------------------------------------------------
(* The whole page. *)

\* By season, then by number, what has none last, as the page had them.
Before(m, n) == m # None /\ (n = None \/ m < n)
InOrder(a, b) == Before(a.season, b.season) \/ (a.season = b.season /\ ~Before(b.num, a.num))
NoLater(rows, i, j) == InOrder(rows[i], rows[j]) /\ (InOrder(rows[j], rows[i]) => i <= j)
Order(rows) ==
  LET D == DOMAIN rows IN Ranked(rows, D, {p \in D \X D : NoLater(rows, p[1], p[2])})

OnlyKin(rows, p) == Kept(rows, {i \in DOMAIN rows : Kin(rows[i], p)})

\* A mutant's narrowing, of each list by itself.
PreferKinEach(lists, p) ==
  [k \in DOMAIN lists |-> IF OnlyKin(lists[k], p) = <<>> THEN lists[k] ELSE OnlyKin(lists[k], p)]

\* Once any child is named after the page, the others are another show's.
PreferKin(lists, p) ==
  IF \A k \in DOMAIN lists : OnlyKin(lists[k], p) = <<>> THEN lists
  ELSE [k \in DOMAIN lists |-> OnlyKin(lists[k], p)]

\* The rows whose address is not one of these.
NotAmong(rows, urls) == Kept(rows, {i \in DOMAIN rows : rows[i].url \notin urls})

FindChildren(ls, p) ==
  LET named == Judged(ls, p, "episode")
      shaped == ByShape(ls, p)
      kept == PreferKin(<<IF named = <<>> THEN shaped ELSE named, Judged(ls, p, "season")>>, p)
      played == {r.url : r \in ToSet(kept[1])}
  IN [episodes |-> Order(kept[1]),
      seasons |-> Order(NotAmong(kept[2], played)),
      via |-> IF kept[1] = <<>> /\ named = <<>> THEN "none" ELSE IF named = <<>> THEN "shape" ELSE "words"]

-----------------------------------------------------------------------------
(* The handler. *)
Nothing == [episodes |-> <<>>, seasons |-> <<>>, via |-> "none"]

Init ==
  /\ links \in {Kept(Catalogue, D) : D \in SUBSET DOMAIN Catalogue}
  /\ at = "asked" /\ left = <<>> /\ found = Nothing

\* A page that is read; a few seasons and no episode send the handler on.
ReadFirst ==
  /\ at = "asked"
  /\ found' = FindChildren(links, Page)
  /\ IF found'.episodes = <<>> /\ Len(found'.seasons) \in 1..FollowMax
     THEN at' = "following" /\ left' = found'.seasons
     ELSE at' = "answered" /\ left' = <<>>
  /\ UNCHANGED links

\* Not read: no answer, not a page, or a wall.
Refused == at = "asked" /\ at' = "failed" /\ UNCHANGED <<links, left, found>>

\* The season's number is carried down, and an address is kept once.
Merge(rows, deeper, season) ==
  LET numbered == [k \in DOMAIN deeper |->
                     IF deeper[k].season = None THEN [deeper[k] EXCEPT !.season = season] ELSE deeper[k]]
  IN rows \o NotAmong(numbered, {r.url : r \in ToSet(rows)})

Follow ==
  /\ at = "following" /\ left # <<>>
  /\ LET season == Head(left)
         page == Within[season.url]
         deeper == FindChildren(page.links, page).episodes
     IN found' = IF deeper = <<>> THEN found
                 ELSE [found EXCEPT !.episodes = Merge(@, deeper, season.season), !.via = "followed"]
  /\ left' = Tail(left)
  /\ UNCHANGED <<links, at>>

\* One season that cannot be read does not lose the others.
Unreadable == at = "following" /\ left # <<>> /\ left' = Tail(left) /\ UNCHANGED <<links, at, found>>

\* All of them read, or the budget is spent.
Answer == at = "following" /\ at' = "answered" /\ left' = <<>> /\ UNCHANGED <<links, found>>

Next == ReadFirst \/ Refused \/ Follow \/ Unreadable \/ Answer
Spec == Init /\ [][Next]_vars

-----------------------------------------------------------------------------
\* Types: the links of the page, the seasons left, and the answer so far.
TypeOK ==
  /\ ToSet(links) \subseteq ToSet(Catalogue) /\ at \in {"asked", "following", "answered", "failed"}
  /\ ToSet(left) \subseteq ToSet(found.seasons)
  /\ found.via \in {"none", "words", "shape", "followed"} /\ ToSet(found.seasons) \subseteq ToSet(links)

\* A page's answer is of one show: when anything in either list is named after the page,
\* so is everything, whichever list the rail's links were sorted into.
OneShow ==
  LET rows == ToSet(found.episodes) \cup ToSet(found.seasons) IN
  found.via # "followed" => \A r, s \in rows : Kin(r, Page) <=> Kin(s, Page)

\* Seasons that were followed come out one after the other, each from its first episode.
FollowedInOrder ==
  found.via = "followed" => \A i, j \in DOMAIN found.episodes : i < j => InOrder(found.episodes[i], found.episodes[j])

(* Stated by the code and not kept by it. *)

\* "Episodes are things to play.  Seasons are things to open": three numbered seasons of
\* one shape, on a page without an episode, are taken for its episodes.
SeasonsAreOpened == \A r \in ToSet(found.episodes) : Kind(r) # "season"
=============================================================================
