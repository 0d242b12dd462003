------------------------------- MODULE BiliSignIn ------------------------------
(***************************************************************************)
(* Signing in to Bilibili: the panel of app.js, api/bilibili.js and the    *)
(* signed cookies of lib/bilibili.js and lib/bstar.js.  A code is drawn    *)
(* and asked after every two seconds until the phone confirms it, or a     *)
(* session is pasted.  The two sites are two accounts in two cookies.      *)
(* Every request is made under the app's own session, which may have       *)
(* lapsed: the gate goes up, and the panel is left as it is.               *)
(*                                                                         *)
(* A paste is a set of rows [site, sess]; a row of a loose paste, which    *)
(* carries no domain, has site None.  A session is of the site that gave   *)
(* it: sess.of.                                                            *)
(***************************************************************************)
EXTENDS Naturals, FiniteSets

CONSTANTS
  None,
  Pastes,        \* what a person may have on the clipboard
  Replacements,  \* how many lapsed codes are replaced without being asked
  MaxKeys,       \* bound: codes Bilibili hands out
  MaxNet,        \* bound: requests in flight
  MaxTurns       \* bound: acts of the person

VARIABLES
  session,   \* the app's own session stands, at the server
  gate,      \* the gate is up
  jar,       \* the two cookies of the browser: site -> a session or None
  ended,     \* the sessions Bilibili has ended
  keys,      \* at Bilibili: the state of each code
  open,      \* the view is on the screen
  panel,     \* what it shows: checking, out, in, a code's state, error
  code,      \* the code that is drawn
  poll,      \* the interval biliPoll names
  ticking,   \* the intervals that run: key -> how many codes it has replaced
  shown,     \* what each start painted last, which outlasts its interval
  unsaid,    \* history: a lapse left the panel at "Checking"
  net,       \* the requests in flight, and their answers
  turns

app == <<session, gate>>
drawn == <<panel, code, unsaid>>
asking == <<poll, ticking>>
page == <<open, drawn, asking, shown>>
vars == <<app, jar, ended, keys, page, net, turns>>

QrKeys == 1..MaxKeys
Sites == {"com", "tv"}
OfCode(k) == [of |-> "com", id |-> k]

Init ==
  /\ session = TRUE /\ gate = FALSE /\ jar = [s \in Sites |-> None] /\ ended = {} /\ keys = [k \in QrKeys |-> "unborn"]
  /\ open = FALSE /\ panel = "out" /\ code = None /\ poll = None
  /\ ticking = [k \in {} |-> 0] /\ shown = [k \in QrKeys |-> None] /\ unsaid = FALSE /\ net = {} /\ turns = 0

-----------------------------------------------------------------------------
(* The server and Bilibili. *)

\* Bilibili knows a session of the mainland site that it has not ended.
Whoami(sess) == sess # None /\ sess.of = "com" /\ sess \notin ended

\* Rows that name their domain are read for that domain only: in them a tab parts the name from
\* the value, where the loose reading wants "=" or ":".  A loose paste is taken at its word, by
\* .tv only when no row names the other site.
Parse(site, paste) ==
  LET named == {r \in paste : r.site = site}
      loose == {r \in paste : r.site = None}
  IN {r.sess : r \in IF named # {} THEN named
                     ELSE IF site = "tv" /\ \E r \in paste : r.site = "com" THEN {} ELSE loose}

\* A paste goes to .tv when it names only that site.
SiteOf(paste) == IF {r.site : r \in paste} = {"tv"} THEN "tv" ELSE "com"

\* A mutant's paste, kept without asking Bilibili.
KeepsUnasked(site, paste) == Parse(site, paste)

\* Asked before it is kept; .tv has nobody to ask.
Keeps(site, paste) == {s \in Parse(site, paste) : site = "tv" \/ Whoami(s)}

\* The answer to a request: the cookie it sets ("keep" leaves it), and what it says.
Same(says) == [sets |-> "keep", site |-> "com", sess |-> None, says |-> says]
Sets(site, sess, says) == [sets |-> "cookie", site |-> site, sess |-> sess, says |-> says]

\* auth.guard comes before every action.
Answers(r) ==
  CASE ~session -> {Same("lapsed")}
    [] session /\ r.kind = "status" -> IF r.jar = None THEN {Same("out")}
                            ELSE IF Whoami(r.jar) THEN {Same("in"), Sets("com", None, "out"), Same("bad")}
                            ELSE {Sets("com", None, "out"), Same("bad")}
    [] session /\ r.kind = "start" -> {Same("code"), Same("bad")}
    [] session /\ r.kind = "poll" -> {CASE keys[r.key] = "confirmed" -> Sets("com", OfCode(r.key), "ok")
                             [] keys[r.key] \in {"expired", "used"} -> Same("expired")
                             [] OTHER -> Same(keys[r.key]), Same("bad")}
    [] session /\ r.kind = "paste" -> {Sets(r.site, s, "in") : s \in Keeps(r.site, r.paste)}
                           \cup {Same("bad") : s \in {1} \ IF Keeps(r.site, r.paste) = {} THEN {} ELSE {1}}
    [] session /\ r.kind = "signout" -> {Sets(r.site, None, "gone")}

Pending == {r \in net : r.answer = None}
Fresh == {k \in QrKeys : keys[k] = "unborn"}

\* A code is given to a start, and a confirmed code is spent by the poll that reads it.
Serves(r) ==
  /\ r \in Pending
  /\ \E a \in Answers(r) :
       /\ a.says = "code" => Fresh # {}
       /\ LET k == IF a.says = "code" THEN CHOOSE k \in Fresh : \A j \in Fresh : k <= j ELSE None IN
          /\ net' = (net \ {r}) \cup {[r EXCEPT !.answer = a, !.key = IF a.says = "code" THEN k ELSE @]}
          /\ keys' = [j \in QrKeys |-> IF j = k THEN "waiting" ELSE IF r.kind = "poll" /\ j = r.key /\ a.says = "ok" THEN "used" ELSE keys[j]]
  /\ UNCHANGED <<app, jar, ended, page, turns>>

\* The phone scans a code, then confirms it; and any code lapses.
CodeMoves(k) ==
  /\ \/ keys[k] = "waiting" /\ keys' = [keys EXCEPT ![k] = "scanned"]
     \/ keys[k] = "scanned" /\ keys' = [keys EXCEPT ![k] = "confirmed"]
     \/ keys[k] \in {"waiting", "scanned"} /\ keys' = [keys EXCEPT ![k] = "expired"]
  /\ UNCHANGED <<app, jar, ended, page, net, turns>>

SessionEnds ==
  /\ turns < MaxTurns /\ turns' = turns + 1
  /\ jar["com"] # None /\ ended' = ended \cup {jar["com"]} /\ UNCHANGED <<app, jar, keys, page, net>>

-----------------------------------------------------------------------------
(* The app's own session. *)

\* It ends, unknown to the page, or the person signs out of the app; the half of a status that asks about .tv may be
\* answered after that.
Lapses ==
  /\ session /\ turns < MaxTurns /\ turns' = turns + 1 /\ session' = FALSE
  /\ \E late \in SUBSET {r \in net : r.kind = "status" /\ r.answer # None} :
       net' = (net \ late) \cup {[r EXCEPT !.answer.says = "lapsed"] : r \in late}
  /\ UNCHANGED <<gate, jar, ended, keys, page>>

\* A request of another part is the first to be told, or the sign-out was.
ToldElsewhere ==
  /\ ~session /\ ~gate /\ gate' = TRUE /\ UNCHANGED <<session, jar, ended, keys, page, net, turns>>

\* The gate comes down; nothing draws the panel again.
SignsInAtGate ==
  /\ gate /\ gate' = FALSE /\ session' = TRUE /\ UNCHANGED <<jar, ended, keys, page, net, turns>>

\* handleAuthLapse, and return.
Lapse == gate' = TRUE /\ unsaid' = (panel = "checking") /\ UNCHANGED <<panel, code>>

-----------------------------------------------------------------------------
(* The panel. *)

Request(kind) == [kind |-> kind, key |-> None, replaced |-> 0, jar |-> None, site |-> "com", paste |-> {}, answer |-> None]
Send(r, rest) == net' = rest \cup {r}
Draws(what, k) == panel' = what /\ code' = k /\ unsaid' = FALSE
Shows(what) == Draws(what, None)

Without(k) == [j \in DOMAIN ticking \ {k} |-> ticking[j]]
StopPoll == poll' = None /\ ticking' = Without(poll)

\* Both sites are asked; the answer about .tv moves nothing.
Refresh(rest) == Shows("checking") /\ Send([Request("status") EXCEPT !.jar = jar'["com"]], rest)

Login(n, rest) == StopPoll /\ Shows("checking") /\ Send([Request("start") EXCEPT !.replaced = n], rest)

Turn == turns < MaxTurns /\ turns' = turns + 1 /\ Cardinality(net) < MaxNet

\* The phone's Back and Forward change the view behind the gate too.
Enter == /\ Turn /\ ~open /\ open' = TRUE /\ UNCHANGED jar /\ Refresh(net) /\ UNCHANGED <<app, ended, keys, asking, shown>>
Leave == /\ open /\ open' = FALSE /\ StopPoll /\ UNCHANGED <<app, jar, ended, keys, drawn, shown, net, turns>>

Tap == Turn /\ open /\ ~gate

SignIn == /\ Tap /\ panel \in {"out", "error"} /\ Login(0, net) /\ UNCHANGED <<app, jar, ended, keys, open, shown>>
Cancel == /\ Tap /\ code # None /\ StopPoll /\ Shows("out") /\ UNCHANGED <<app, jar, ended, keys, open, shown, net>>

\* The box stays under the code and under the button.
Paste(p) ==
  /\ Tap /\ (panel \in {"out", "error"} \/ code # None)
  /\ Send([Request("paste") EXCEPT !.site = SiteOf(p), !.paste = p], net)
  /\ UNCHANGED <<app, jar, ended, keys, page>>

SignOut(s) ==
  /\ Tap /\ (panel = "in" \/ (s = "tv" /\ panel = "out")) /\ jar[s] # None
  /\ Send([Request("signout") EXCEPT !.site = s], net) /\ UNCHANGED <<app, jar, ended, keys, page>>

\* The interval does not wait for the answer to the poll before.
Tick(k) ==
  /\ k \in DOMAIN ticking /\ Cardinality(net) < MaxNet
  /\ Send([Request("poll") EXCEPT !.key = k, !.replaced = ticking[k]], net)
  /\ UNCHANGED <<app, jar, ended, keys, page, turns>>

\* The panel gives up on a code that has sat there for twenty minutes.
Ceiling(k) ==
  /\ k \in DOMAIN ticking /\ StopPoll /\ Shows("error") /\ UNCHANGED <<app, jar, ended, keys, open, shown, net, turns>>

\* The browser keeps what the answer sets, then the page reads it.
Kept(a) == jar' = IF a.sets = "cookie" THEN [jar EXCEPT ![a.site] = a.sess] ELSE jar
Answered(r, kind) == r \in net /\ r.answer # None /\ r.kind = kind /\ Kept(r.answer)

StatusSays(r) ==
  /\ Answered(r, "status")
  /\ IF r.answer.says = "lapsed" THEN Lapse
     ELSE Shows(IF r.answer.says = "bad" THEN "error" ELSE r.answer.says) /\ UNCHANGED gate
  /\ net' = net \ {r} /\ UNCHANGED <<session, ended, keys, open, asking, shown, turns>>

\* The code is drawn, and its poll begins.
StartSays(r) ==
  /\ Answered(r, "start") /\ net' = net \ {r}
  /\ CASE r.answer.says = "lapsed" -> Lapse /\ UNCHANGED <<asking, shown>>
       [] r.answer.says = "bad" -> Shows("error") /\ UNCHANGED <<gate, asking, shown>>
       [] r.answer.says = "code" ->
            /\ Draws("waiting", r.key) /\ shown' = [shown EXCEPT ![r.key] = "waiting"] /\ poll' = r.key
            /\ ticking' = [k \in DOMAIN ticking \cup {r.key} |-> IF k = r.key THEN r.replaced ELSE ticking[k]]
            /\ UNCHANGED gate
  /\ UNCHANGED <<session, ended, keys, open, turns>>

\* Painted when the state changes and not on every poll.
Paints(r) ==
  /\ shown' = [shown EXCEPT ![r.key] = r.answer.says] /\ UNCHANGED asking
  /\ IF shown[r.key] = r.answer.says THEN UNCHANGED drawn ELSE Draws(r.answer.says, r.key)

\* A lapsed code is replaced where it stands, so many times.  A lapsed session of the app is an
\* error like another.
PollSays(r) ==
  LET again == r.answer.says = "expired" /\ r.replaced < Replacements IN
  /\ Answered(r, "poll")
  /\ CASE again -> Login(r.replaced + 1, net \ {r}) /\ UNCHANGED shown
       [] r.answer.says \in {"bad", "lapsed", "expired"} /\ ~again
            -> StopPoll /\ Shows("error") /\ net' = net \ {r} /\ UNCHANGED shown
       [] r.answer.says = "ok" -> StopPoll /\ Shows("in") /\ net' = net \ {r} /\ UNCHANGED shown
       [] OTHER -> Paints(r) /\ net' = net \ {r}
  /\ UNCHANGED <<app, ended, keys, open, turns>>

PasteSays(r) ==
  /\ Answered(r, "paste")
  /\ CASE r.answer.says = "lapsed" -> Lapse /\ net' = net \ {r} /\ UNCHANGED asking
       [] r.answer.says = "bad" -> net' = net \ {r} /\ UNCHANGED <<gate, drawn, asking>>
       [] r.answer.says = "in" ->
            /\ StopPoll /\ UNCHANGED gate
            /\ IF r.site = "tv" THEN Refresh(net \ {r}) ELSE Shows("in") /\ net' = net \ {r}
  /\ UNCHANGED <<session, ended, keys, open, shown, turns>>

\* Whatever it says, the panel is read again.
SignOutSays(r) ==
  /\ Answered(r, "signout") /\ Refresh(net \ {r})
  /\ UNCHANGED <<app, ended, keys, open, asking, shown, turns>>

\* A mutant's failure, which says nothing.
LostQuietly(r) ==
  /\ r \in net /\ net' = net \ {r} /\ UNCHANGED <<app, jar, ended, keys, page, turns>>

\* A request or its answer is lost: the panel says so, except for a poll and what leaves it
\* as it was.
Lost(r) ==
  /\ r \in net /\ net' = net \ {r}
  /\ IF r.kind \in {"status", "start"} THEN Shows("error") ELSE UNCHANGED drawn
  /\ UNCHANGED <<app, jar, ended, keys, open, asking, shown, turns>>

-----------------------------------------------------------------------------
Heard(r) == StatusSays(r) \/ StartSays(r) \/ PollSays(r) \/ PasteSays(r) \/ SignOutSays(r)
Act == Enter \/ Leave \/ SignIn \/ Cancel \/ (\E p \in Pastes : Paste(p)) \/ \E s \in Sites : SignOut(s)
Next ==
  \/ Act \/ SessionEnds \/ Lapses \/ ToldElsewhere \/ SignsInAtGate \/ \E k \in QrKeys : CodeMoves(k) \/ Tick(k) \/ Ceiling(k)
  \/ \E r \in net : Serves(r) \/ Heard(r) \/ Lost(r)

\* What was asked is answered or lost in the end.
Settling == \E r \in net : r.kind # "poll" /\ (Serves(r) \/ Heard(r) \/ Lost(r))
Spec == Init /\ [][Next]_vars /\ WF_vars(Settling)

-----------------------------------------------------------------------------
Panels == {"checking", "out", "in", "error", "waiting", "scanned"}

\* Types: the panel, the polls on their way and the jar on the server.
TypeOK ==
  /\ DOMAIN jar = Sites /\ panel \in Panels /\ code \in QrKeys \cup {None} /\ poll \in QrKeys \cup {None}
  /\ DOMAIN ticking \subseteq QrKeys /\ (code # None <=> panel \in {"waiting", "scanned"})
  /\ \A r \in net : r.replaced \in 0..Replacements
  /\ {session, gate, unsaid} \subseteq BOOLEAN /\ (unsaid => panel = "checking")
  /\ \A k \in QrKeys : shown[k] \in {None, "waiting", "scanned"} /\ (keys[k] = "unborn" => shown[k] = None)

\* "Neither can silently stand in for the other": what is kept as the mainland session is one
\* Bilibili gave or recognised, and an export of the one site never fills the other's jar.
NeitherStandsIn ==
  /\ jar["com"] # None => jar["com"].of = "com"
  /\ jar["tv"] # None => \A p \in Pastes : [site |-> "com", sess |-> jar["tv"]] \notin p

\* The panel does not stay at "Checking": whatever is lost, it comes to say something, unless
\* what it had asked was answered that the app's own session had lapsed, and nothing has drawn it since.
PanelSettles == []<>(panel # "checking" \/ unsaid)

(* Stated by the code, or expected of it, and not kept by it. *)

\* Once the person has signed in at the gate the panel comes to say something.  The gate
\* refreshes the history and the session and not this panel, which stays at "Checking" until it is
\* left and entered again.
SettlesAfterGate == []<>(panel # "checking" \/ gate \/ ~session)

\* "stopBiliPoll": one interval at a time.  A start that answers after the view was left, or a
\* second "expired" of the same code, begins another that nothing can stop.
OnePoll == DOMAIN ticking \subseteq {poll}

\* A code that was cancelled does not come back.
CancelStands == [][Cardinality(DOMAIN ticking') = 0 /\ panel = "out" => panel' # "scanned"]_vars

\* A session that was just given is not thrown away by the answer about the one before.
JarStays == [][jar["com"] # None /\ jar'["com"] = None => jar["com"] \in ended \/ \E r \in net : r.kind = "signout"]_vars
=============================================================================
