------------------------------ MODULE Accounts ------------------------------
(***************************************************************************)
(* Who may use the app: the rows of the account store, the cookies that    *)
(* name them, the tickets the stream host takes for a while                *)
(* (src/api/auth.js, src/api/users.js, src/api/ticket.js over lib/auth.js, *)
(* lib/users.js and lib/ticket.js).  Handlers of two people interleave at  *)
(* every request to the store, which may fail.                             *)
(***************************************************************************)
EXTENDS Naturals, FiniteSets

CONSTANTS
  Names,     \* the people; each signs in under the name that is theirs
  Owner,     \* the one the deploy's environment names (CAST_ADMIN_USER)
  Scopes,    \* what a ticket may be for: upload, library, storage
  Limit,     \* wrong tries before a name is refused for a while (USER_LIMIT)
  MaxTurns   \* bound: what the owners do to accounts, and changes of the environment

VARIABLES
  rows,      \* name -> its account, or none
  made,      \* the ids given out so far
  env,       \* the owner's password in the environment
  cookie,    \* name -> the id its browser's cookie vouches for; 0: no cookie
  fails,     \* name -> wrong tries in the running window
  req,       \* name -> the request of theirs in the air
  tickets,   \* the tickets that have not run out
  turns

vars == <<rows, made, env, cookie, fails, req, tickets, turns>>

\* The owner is made once, and again for every time they are removed.
MaxId == MaxTurns + 1
Passwords == {0, 1}
NoRow == [id |-> 0, role |-> "user", active |-> FALSE, pw |-> 0]
Idle == [at |-> "idle", what |-> "none", id |-> 0, who |-> Owner]

\* Types: the table, the cookies, and the request in the air of each name.
TypeOK ==
  /\ rows \in [Names -> [id : 0..MaxId, role : {"admin", "user"}, active : BOOLEAN, pw : Passwords]]
  /\ made \in 0..MaxId /\ env \in Passwords /\ cookie \in [Names -> 0..MaxId]
  /\ fails \in [Names -> 0..Limit] /\ tickets \subseteq [id : 1..MaxId, scope : Scopes]
  /\ req \in [Names -> [at : {"idle", "seed", "fix", "check", "write"}, id : 0..MaxId, who : Names,
                        what : {"none", "password", "repair", "create", "on", "off", "delete"}]]
  /\ turns \in 0..MaxTurns

\* The table is empty: the first sign-in makes the owner.
Init ==
  /\ rows = [n \in Names |-> NoRow] /\ made = 0 /\ env = 0
  /\ cookie = [n \in Names |-> 0] /\ fails = [n \in Names |-> 0]
  /\ req = [n \in Names |-> Idle] /\ tickets = {} /\ turns = 0

Here(n) == rows[n].id # 0
Goes(n, r) == req' = [req EXCEPT ![n] = r]

\* A mutant's session, which trusts the cookie for who is there but not for more.
SessionOfAnyRow(n) == cookie[n] # 0 /\ cookie[n] = rows[n].id

\* The cookie only names the account; the row is the authority.
Session(n) == cookie[n] # 0 /\ cookie[n] = rows[n].id /\ rows[n].active
IsAdmin(n) == Session(n) /\ rows[n].role = "admin"

-----------------------------------------------------------------------------
(* Signing in: the owner's row is put right first, then the password is asked. *)
Submit(n) ==
  /\ req[n].at = "idle" /\ fails[n] < Limit
  /\ Goes(n, [Idle EXCEPT !.at = "seed"])
  /\ UNCHANGED <<rows, made, env, cookie, fails, tickets, turns>>

\* A mutant's seed, which leaves an owner who was switched off alone.
SeedPasswordOnly(n) ==
  /\ req[n].at = "seed"
  /\ \E fix \in {"none"} \cup
        (IF ~Here(Owner) THEN {"create"} ELSE IF rows[Owner].pw # env THEN {"password"} ELSE {}) :
       Goes(n, [Idle EXCEPT !.at = IF fix = "none" THEN "check" ELSE "fix", !.what = fix, !.id = rows[Owner].id])
  /\ UNCHANGED <<rows, made, env, cookie, fails, tickets, turns>>

\* ensureSeedAdmin: absent is created, a wrong password is reset, and only a right one
\* is looked at for the role; a store that fails is passed over.
Seed(n) ==
  /\ req[n].at = "seed"
  /\ LET wants == IF ~Here(Owner) THEN "create"
                  ELSE IF rows[Owner].pw # env THEN "password"
                  ELSE IF rows[Owner].role # "admin" \/ ~rows[Owner].active THEN "repair"
                  ELSE "none"
     IN \E fix \in {wants, "none"} :
          Goes(n, [Idle EXCEPT !.at = IF fix = "none" THEN "check" ELSE "fix", !.what = fix, !.id = rows[Owner].id])
  /\ UNCHANGED <<rows, made, env, cookie, fails, tickets, turns>>

New(role, pw) == [id |-> made + 1, role |-> role, active |-> TRUE, pw |-> pw]

\* Names are unique in the store: the second of two inserts is refused, and passed over.
Fix(n) ==
  /\ req[n].at = "fix" /\ Goes(n, [Idle EXCEPT !.at = "check"])
  /\ \/ /\ req[n].what = "create" /\ ~Here(Owner)
        /\ rows' = [rows EXCEPT ![Owner] = New("admin", env)] /\ made' = made + 1
     \/ /\ req[n].what = "password" /\ rows[Owner].id = req[n].id
        /\ rows' = [rows EXCEPT ![Owner].pw = env] /\ UNCHANGED made
     \/ /\ req[n].what = "repair" /\ rows[Owner].id = req[n].id
        /\ rows' = [rows EXCEPT ![Owner].role = "admin", ![Owner].active = TRUE] /\ UNCHANGED made
     \/ UNCHANGED <<rows, made>>
  /\ UNCHANGED <<env, cookie, fails, tickets, turns>>

\* What a person types: the owner the environment's password, others their own (0).
Types(n) == IF n = Owner THEN env ELSE 0

\* authenticate: the password is right and the account is on, or it is a wrong try.
Check(n) ==
  /\ req[n].at = "check" /\ Goes(n, Idle)
  /\ \/ /\ Here(n) /\ rows[n].active /\ rows[n].pw = Types(n)
        /\ cookie' = [cookie EXCEPT ![n] = rows[n].id] /\ fails' = [fails EXCEPT ![n] = 0]
     \/ /\ ~(Here(n) /\ rows[n].active /\ rows[n].pw = Types(n))
        /\ fails' = [fails EXCEPT ![n] = IF @ < Limit THEN @ + 1 ELSE @] /\ UNCHANGED cookie
     \/ UNCHANGED <<cookie, fails>>
  /\ UNCHANGED <<rows, made, env, tickets, turns>>

\* Someone else tries the name.
WrongTry(n) ==
  /\ fails[n] < Limit /\ fails' = [fails EXCEPT ![n] = @ + 1]
  /\ UNCHANGED <<rows, made, env, cookie, req, tickets, turns>>

\* Fifteen minutes after the first wrong try the count begins again.
WindowOver(n) ==
  /\ fails[n] > 0 /\ fails' = [fails EXCEPT ![n] = 0]
  /\ UNCHANGED <<rows, made, env, cookie, req, tickets, turns>>

SignOut(n) ==
  /\ cookie[n] # 0 /\ cookie' = [cookie EXCEPT ![n] = 0]
  /\ turns < MaxTurns /\ turns' = turns + 1
  /\ UNCHANGED <<rows, made, env, fails, req, tickets>>

-----------------------------------------------------------------------------
(* The owners' screen.  The guard reads the row, the target is read, then it is written. *)
Ask(n, what, who) ==
  /\ req[n].at = "idle" /\ IsAdmin(n) /\ turns < MaxTurns /\ turns' = turns + 1
  /\ what \in {"off", "delete"} => who # n
  /\ (what = "create") # Here(who)
  /\ Goes(n, [at |-> "write", what |-> what, id |-> rows[who].id, who |-> who])
  /\ UNCHANGED <<rows, made, env, cookie, fails, tickets>>

\* By id: a row that went in between is not written, and an account of the same name
\* that was made since is another one.
Write(n) ==
  LET who == req[n].who IN
  /\ req[n].at = "write" /\ Goes(n, Idle)
  /\ \/ /\ req[n].what = "create" /\ ~Here(who) /\ made' = made + 1
        /\ \E role \in {"admin", "user"} : rows' = [rows EXCEPT ![who] = New(role, 0)]
     \/ /\ req[n].what # "create" /\ rows[who].id = req[n].id /\ UNCHANGED made
        /\ rows' = [rows EXCEPT ![who] = CASE req[n].what = "password" -> [@ EXCEPT !.pw = 1 - @]
                                          [] req[n].what = "on"  -> [@ EXCEPT !.active = TRUE]
                                          [] req[n].what = "off" -> [@ EXCEPT !.active = FALSE]
                                          [] OTHER -> NoRow]
     \/ UNCHANGED <<rows, made>>
  /\ UNCHANGED <<env, cookie, fails, tickets, turns>>

\* The project's setting is edited.
EditEnv ==
  /\ turns < MaxTurns /\ turns' = turns + 1 /\ env' = 1 - env
  /\ UNCHANGED <<rows, made, cookie, fails, req, tickets>>

-----------------------------------------------------------------------------
(* Tickets: the session traded for some minutes of one scope on the other host. *)
Mint(n, scope) ==
  /\ Session(n) /\ scope = "storage" => rows[n].role = "admin"
  /\ Session(n) /\ tickets' = tickets \cup {[id |-> cookie[n], scope |-> scope]}
  /\ tickets' # tickets
  /\ UNCHANGED <<rows, made, env, cookie, fails, req, turns>>

RunsOut(t) ==
  /\ t \in tickets /\ tickets' = tickets \ {t}
  /\ UNCHANGED <<rows, made, env, cookie, fails, req, turns>>

Steps(n) == Seed(n) \/ Fix(n) \/ Check(n) \/ Write(n)
Next ==
  \/ \E n \in Names : Submit(n) \/ Steps(n) \/ WrongTry(n) \/ WindowOver(n) \/ SignOut(n)
  \/ \E n, who \in Names : \E what \in {"password", "create", "on", "off", "delete"} : Ask(n, what, who)
  \/ EditEnv
  \/ \E n \in Names, s \in Scopes : Mint(n, s)
  \/ \E t \in tickets : RunsOut(t)

\* Requests are answered, windows and tickets run out, the owner tries to get in for as
\* long as they are out; a store that is asked for ever answers once.
Fairness ==
  /\ \A n \in Names : WF_vars(Steps(n)) /\ WF_vars(WindowOver(n))
  /\ \A i \in 1..MaxId, s \in Scopes : WF_vars(RunsOut([id |-> i, scope |-> s]))
  /\ SF_vars(~Session(Owner) /\ Submit(Owner))
  /\ SF_vars(Seed(Owner) /\ req'[Owner].at = "fix") /\ SF_vars(Fix(Owner) /\ rows' # rows)
  /\ SF_vars(Check(Owner) /\ cookie' # cookie)
Spec == Init /\ [][Next]_vars /\ Fairness

-----------------------------------------------------------------------------
\* Whatever the owners do to each other, the one the environment names gets in again:
\* switched off, demoted, removed or with another password.
OwnerGetsIn == []<>Session(Owner)

\* An account that stays switched off, or gone, comes to hold neither session nor ticket:
\* its tickets run out and it gets no new one.
OffIsOut ==
  \A i \in 1..MaxId :
    <>[](\A n \in Names : rows[n].id = i => ~rows[n].active) => <>[](\A t \in tickets : t.id # i)

\* There is an owner to let the others back in (users.js: locking yourself out is a
\* one-way door).
AnOwnerIsOn == (\E n \in Names : Here(n)) => \E n \in Names : Here(n) /\ rows[n].active /\ rows[n].role = "admin"
=============================================================================
