--------------------------------- MODULE Bstar ---------------------------------
(***************************************************************************)
(* A film of Bilibili's international site: how lib/bstar.js and           *)
(* lib/bilibili.js find its address, the token that lets a television ask  *)
(* api/bstar.js for its manifest, and how app.js reads the page again when *)
(* the token or the addresses in the manifest run out.                     *)
(*                                                                         *)
(* A title is what Bilibili answers about it: the code from each of the    *)
(* two vantages, and its renditions [q, codec, open], open when a          *)
(* signed-out request is given the address too.                            *)
(***************************************************************************)
EXTENDS Naturals, FiniteSets

CONSTANTS
  None,
  Titles,     \* the titles
  Upstream,   \* title -> [here, there, rends]
  Links,      \* the links a person may paste, as the addresses they expand to
  Ttl,        \* life of a token: fifteen minutes
  CdnLife,    \* life of the addresses in a manifest: two hours
  RenewAfter, \* when the page is read again: an hour and three quarters, before the two are over
  MaxClock,   \* bound: quarters of an hour
  MaxTurns    \* bound: acts of the person

VARIABLES
  now,
  signed,     \* the jar of the site is held
  film,       \* what load() was given last: an address [title, exp, q], or None
  rows,       \* History: the place kept of each address
  reading,    \* the page resolveThenPlay is reading, or None
  connected,  \* a cast session
  handed,     \* the address handed to the television that it has not asked for yet
  tv,         \* what the television plays: [title, q, until, from]
  timer,      \* the renewal that is armed: [of, at]
  tried,      \* a renewal was begun since the television last asked
  told,       \* the quality, or the refusal, the person was told
  turns

vars == <<now, signed, film, rows, reading, connected, handed, tv, timer, tried, told, turns>>

Vantage == {"ok", "region", "blocked", "delisted"}

Init ==
  /\ now = 0 /\ signed \in BOOLEAN /\ film = None /\ rows = [a \in {} |-> 0] /\ reading = None
  /\ connected \in BOOLEAN /\ handed = None /\ tv = None /\ timer = None /\ tried = FALSE /\ told = "" /\ turns = 0

-----------------------------------------------------------------------------
(* The address request. *)

\* A region refusal, or a page that is no answer, is asked again from Hong Kong; the relay's
\* own failure is no second opinion.
Code(t, relay) ==
  LET u == Upstream[t]
  IN IF u.here \in {"region", "blocked"} /\ relay /\ u.there = "ok" THEN "ok" ELSE u.here

Offered(t, jar) == {r \in Upstream[t].rends : r.open \/ jar}

Best(rs) == CHOOSE r \in rs : \A s \in rs : s.q < r.q \/ (s.q = r.q /\ (r.codec = "avc" \/ s.codec # "avc"))
Least(rs) == CHOOSE r \in rs : \A s \in rs : r.q < s.q \/ (s.q = r.q /\ (r.codec # "avc" \/ s.codec = "avc"))

\* The best avc at or below what was asked for, else the best there, else the last of all.
Pick(rs, want) ==
  LET under == {r \in rs : r.q <= want}
      avc == {r \in under : r.codec = "avc"}
  IN IF avc # {} THEN Best(avc) ELSE IF under # {} THEN Best(under) ELSE Least(rs)

Hd == 80

\* What the resolver answers: a refusal, the sign-in sentence, or an address under a token.
Resolve(t, relay) ==
  IF Code(t, relay) # "ok" THEN [ok |-> FALSE, says |-> Code(t, relay), address |-> None]
  ELSE IF Offered(t, signed) = {} THEN [ok |-> FALSE, says |-> IF signed THEN "nothing" ELSE "sign in", address |-> None]
  ELSE LET q == Pick(Offered(t, signed), Hd).q
       IN [ok |-> TRUE, says |-> q, address |-> [title |-> t, exp |-> now + Ttl, q |-> q]]

\* A short link is expanded once by each site's resolver, and handed over when it leads to
\* the other's.
Target(l) ==
  CASE l.site \in {"tv", "com"} -> l
    [] l.site = "bili.im" /\ l.to.site \in {"tv", "com"} -> l.to
    [] l.site = "b23.tv" /\ l.to.site \in {"tv", "com"} -> l.to
    [] OTHER -> [site |-> "nowhere"]

-----------------------------------------------------------------------------
(* The page. *)

\* A token that has run out, or will before a television asks.
Expired(a) == a.exp <= now

Known(a) == IF a \in DOMAIN rows THEN rows[a] ELSE 0
Keep(a, pos) == [b \in DOMAIN rows \cup {a} |-> IF b = a THEN pos ELSE rows[b]]

\* load(), and the cast when there is a session.
Loads(a) ==
  /\ film' = a /\ rows' = Keep(a, Known(a))
  /\ handed' = IF connected THEN a ELSE handed

\* A page is read unless another is being read.
Reads(t) == reading' = IF reading = None THEN t ELSE reading

Turn == turns < MaxTurns /\ turns' = turns + 1

Paste(l) ==
  /\ Turn
  /\ IF Target(l).site = "tv" THEN Reads(Target(l).title) /\ UNCHANGED told
     ELSE told' = "elsewhere" /\ UNCHANGED reading
  /\ UNCHANGED <<now, signed, film, rows, connected, handed, tv, timer, tried>>

\* From History: the page is read again when the address is too old.
Reopen(a) ==
  /\ Turn /\ a \in DOMAIN rows
  /\ IF Expired(a) THEN Reads(a.title) /\ UNCHANGED <<film, rows, handed>>
     ELSE Loads(a) /\ UNCHANGED reading
  /\ UNCHANGED <<now, signed, connected, tv, timer, tried, told>>

PageRead(relay) ==
  /\ reading # None /\ reading' = None
  /\ LET r == Resolve(reading, relay) IN
     /\ told' = r.says
     /\ IF r.ok THEN Loads(r.address) ELSE UNCHANGED <<film, rows, handed>>
  /\ UNCHANGED <<now, signed, connected, tv, timer, tried, turns>>

PageLost ==
  /\ reading # None /\ reading' = None /\ told' = "no connection"
  /\ UNCHANGED <<now, signed, film, rows, connected, handed, tv, timer, tried, turns>>

\* The person casts, or signs in or out.
Connect ==
  /\ Turn /\ ~connected /\ film # None /\ connected' = TRUE
  /\ IF Expired(film) THEN Reads(film.title) /\ UNCHANGED handed ELSE handed' = film /\ UNCHANGED reading
  /\ UNCHANGED <<now, signed, film, rows, tv, timer, tried, told>>

Sign ==
  /\ Turn /\ signed' = ~signed
  /\ UNCHANGED <<now, film, rows, reading, connected, handed, tv, timer, tried, told>>

-----------------------------------------------------------------------------
(* The television. *)

\* A mutant's answer, after which the first renewal is the last.
ArmOnce(a) == timer' = IF tried THEN None ELSE [of |-> a, at |-> now + RenewAfter]

Arm(a) == timer' = [of |-> a, at |-> now + RenewAfter]

\* It asks for the manifest, which is resolved again and without the jar.
TvAsks(relay) ==
  /\ handed # None /\ handed' = None
  /\ LET t == handed.title
         rs == Offered(t, FALSE)
     IN IF Expired(handed) \/ Code(t, relay) # "ok" \/ rs = {}
        THEN told' = "refused" /\ UNCHANGED <<tv, timer, tried>>
        ELSE /\ tv' = [title |-> t, q |-> Pick(rs, handed.q).q, until |-> now + CdnLife, of |-> handed]
             /\ Arm(handed) /\ tried' = FALSE /\ UNCHANGED told
  /\ UNCHANGED <<now, signed, film, rows, reading, connected, turns>>

Plays == tv # None /\ now < tv.until

\* The page is read again before the addresses run out, unless another is being read.
Renews ==
  /\ timer # None /\ timer.at <= now /\ timer' = None
  /\ IF film = timer.of /\ connected /\ tv # None
     THEN Reads(film.title) /\ tried' = TRUE ELSE UNCHANGED <<reading, tried>>
  /\ UNCHANGED <<now, signed, film, rows, connected, handed, tv, told, turns>>

\* A quarter of an hour, which no answer that is due takes.  Only a film that plays on the
\* phone has its place written.
Tick ==
  /\ now < MaxClock /\ now' = now + 1 /\ handed = None /\ reading = None
  /\ (timer # None => timer.at > now)
  /\ rows' = IF ~connected /\ film # None THEN Keep(film, 1) ELSE rows
  /\ UNCHANGED <<signed, film, reading, connected, handed, tv, timer, tried, told, turns>>

-----------------------------------------------------------------------------
Next ==
  \/ \E l \in Links : Paste(l)
  \/ \E a \in DOMAIN rows : Reopen(a)
  \/ \E relay \in BOOLEAN : PageRead(relay) \/ TvAsks(relay)
  \/ PageLost \/ Connect \/ Sign \/ Renews \/ Tick
Spec == Init /\ [][Next]_vars

-----------------------------------------------------------------------------
Addresses == [title : Titles, exp : 0..(MaxClock + Ttl), q : Nat]

\* Types: the open film, the television's, and the renewal that is armed.
TypeOK ==
  /\ film \in Addresses \cup {None} /\ DOMAIN rows \subseteq Addresses /\ reading \in Titles \cup {None}
  /\ (handed # None => handed \in Addresses) /\ \A t \in Titles : {Upstream[t].here, Upstream[t].there} \subseteq Vantage
  /\ (film # None => film \in DOMAIN rows)

\* A film that is cast for longer than the addresses of its manifest live is renewed in time,
\* every time: it never runs out before a renewal was begun.
NeverStarvesUntried == tv # None /\ connected /\ film = tv.of /\ ~Plays => tried

(* Stated by the code and not kept by it. *)

\* "HD is unlocked, so a cast goes out at the best rendition the title offers": the manifest
\* is resolved without the jar.
HdIsServed == [][tv' # tv => tv'.q = handed.q]_vars

\* "Pick up where they left off": an address that is too old is replaced by another, whose
\* row begins at the beginning.
PlaceSurvivesReading ==
  [][\A a \in DOMAIN rows : film' # film /\ film'.title = a.title /\ rows[a] = 1 => rows'[film'] = 1]_vars

\* "avc over hevc at the same quality": any lower avc goes before a better hevc.
BestOfWhatIsOpen ==
  tv # None => \A r \in Offered(tv.title, FALSE) : r.q <= Hd => r.q <= tv.q
=============================================================================
