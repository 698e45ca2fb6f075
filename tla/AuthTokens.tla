------------------------------ MODULE AuthTokens ------------------------------
(***************************************************************************)
(* Sessions: POST /auth/login, /auth/refresh and /auth/logout, the table   *)
(* refresh_tokens, and the clients that hold the tokens.                   *)
(*                                                                         *)
(* A refresh token is a function of its user and of the second in which it *)
(* was issued; nothing else in it varies.  refresh is two transactions: it *)
(* commits the revocation of the old token, then makes the new pair, which *)
(* fails on the unique token_hash if the user has a token of that second.  *)
(* A request is cut where another can tell: after what it reads, and after *)
(* each commit.  Access tokens, which no table knows, are left out.        *)
(***************************************************************************)
EXTENDS Integers

CONSTANTS
  Users,
  Clients,      \* who logs in and keeps a token
  UserOf,       \* the account a client logs in with
  Handlers,     \* requests the server can be handling at one time
  None,
  Ttl,          \* settings.refresh_token_ttl_seconds
  MaxClock,     \* bound: the last second
  MaxLost,      \* bound: requests a client gives up on
  MaxCrashes    \* bound: handlers cut off

\* The string of a token stands for the pair; exp is iat + Ttl.
Token == [user : Users, iat : Nat]

ASSUME TokenAssumption ==
  /\ Users # {}
  /\ UserOf \in [Clients -> Users]
  /\ None \notin Token \union Clients
  /\ Ttl \in Nat
  /\ {MaxClock, MaxLost, MaxCrashes} \subseteq Nat

VARIABLES
  clock,      \* int(time.time())
  active,     \* users with is_active
  issued,     \* tokens with a row in refresh_tokens
  revoked,    \* those whose row has a revoked_at
  replaced,   \* tokens a new pair was made for (no column: a history)
  handler,    \* per handler: the request it deals with and how far it is
  client,     \* per client: what it holds and does
  lost,       \* requests given up so far
  crashes     \* handlers cut off so far

vars == <<clock, active, issued, revoked, replaced, handler, client, lost, crashes>>
tables == <<issued, revoked, replaced>>

Ops == {"login", "refresh", "logout"}
Handler == [op : Ops, at : {"free", "arrived", "checked", "revoked", "answered"},
            client : Clients \union {None}, user : Users,
            token : Token \union {None},
            answer : {"none", "pair", "refused", "error"}]
\* "in": every request it made with the token or for it was answered with
\* success.  "unsure": a refresh failed or was not answered.
Client == [at : {"out", "in", "unsure", "waiting"}, op : Ops, token : Token \union {None}]

Free == [op |-> "login", at |-> "free", client |-> None,
         user |-> CHOOSE u \in Users : TRUE, token |-> None, answer |-> "none"]
Out == [at |-> "out", op |-> "login", token |-> None]

Init ==
  /\ clock = 0
  /\ active = Users
  /\ issued = {}
  /\ revoked = {}
  /\ replaced = {}
  /\ handler = [h \in Handlers |-> Free]
  /\ client = [c \in Clients |-> Out]
  /\ lost = 0
  /\ crashes = 0

Elapse ==
  /\ clock < MaxClock
  /\ clock' = clock + 1
  /\ UNCHANGED <<active, tables, handler, client, lost, crashes>>

\* users.is_active is cleared by no endpoint.
Deactivate(u) ==
  /\ u \in active
  /\ active' = active \ {u}
  /\ UNCHANGED <<clock, tables, handler, client, lost, crashes>>

-----------------------------------------------------------------------------
(* The handlers                                                            *)

Becomes(h, at, answer) ==
  handler' = [handler EXCEPT ![h].at = at, ![h].answer = answer]

\* The test of exp in decode_token, and that of expires_at.
Expired(t) == t.iat + Ttl <= clock

\* Mutant: refresh does not look at revoked_at.
ValidOnceIssued(t) == t \in issued /\ ~Expired(t)

Valid(t) == t \in issued \ revoked /\ ~Expired(t)

\* Mutant: refresh does not look at the user.
AllowedByToken(r) == r.op = "login" => r.user \in active

Allowed(r) == r.user \in active

\* What login and refresh read before they write.
Check(h) ==
  LET r == handler[h]
  IN  /\ r.at = "arrived"
      /\ r.op \in {"login", "refresh"}
      /\ IF Allowed(r) /\ (r.op = "refresh" => Valid(r.token))
         THEN Becomes(h, "checked", "none")
         ELSE Becomes(h, "answered", "refused")
      /\ UNCHANGED <<clock, active, tables, client, lost, crashes>>

\* Mutant: refresh leaves the old token as it is.
RevokedNothing(r) == revoked

\* The first commit of refresh.
RevokedBy(r) == revoked \union {r.token}

Revoke(h) ==
  /\ handler[h].at = "checked"
  /\ handler[h].op = "refresh"
  /\ revoked' = RevokedBy(handler[h])
  /\ Becomes(h, "revoked", "none")
  /\ UNCHANGED <<clock, active, issued, replaced, client, lost, crashes>>

\* Mutant: iat is computed like exp.
NewFromExpiry(r) == [user |-> r.user, iat |-> clock + Ttl]

\* issue_token.
New(r) == [user |-> r.user, iat |-> clock]

\* Mutant: token_hash is not unique.
CollidesNever(t) == FALSE

\* The unique constraint on token_hash, whose error nothing catches.
Collides(t) == t \in issued

\* _create_token_pair.  Reading the clock and the commit are one step: of the
\* transactions that issue a token in one second, the first to commit is first.
CreatePair(h) ==
  LET r == handler[h]
  IN  /\ r.at = IF r.op = "login" THEN "checked" ELSE "revoked"
      /\ IF Collides(New(r))
         THEN /\ Becomes(h, "answered", "error")
              /\ UNCHANGED tables
         ELSE /\ issued' = issued \union {New(r)}
              /\ replaced' = IF r.op = "refresh" THEN replaced \union {r.token} ELSE replaced
              /\ handler' = [handler EXCEPT ![h].at = "answered", ![h].answer = "pair",
                                            ![h].token = New(r)]
              /\ UNCHANGED revoked
      /\ UNCHANGED <<clock, active, client, lost, crashes>>

\* Mutant: logout looks for the rows of the user.
LoggedOutUser(r) == {t \in issued : t.user = r.user}

\* logout looks for the row of the token, and neither at its expiry nor at the
\* user.
LoggedOut(r) == {r.token} \intersect issued

Logout(h) ==
  /\ handler[h].at = "arrived"
  /\ handler[h].op = "logout"
  /\ revoked' = revoked \union LoggedOut(handler[h])
  /\ Becomes(h, "answered", "none")
  /\ UNCHANGED <<clock, active, issued, replaced, client, lost, crashes>>

-----------------------------------------------------------------------------
(* The clients, and what may go wrong on the way                           *)

FreeHandlers == {h \in Handlers : handler[h].at = "free"}

\* A client logs in when it has no token, and uses or returns the one it has.
Send(c, op) ==
  /\ client[c].at \in IF op = "login" THEN {"out"} ELSE {"in", "unsure"}
  /\ FreeHandlers # {}
  /\ handler' = [handler EXCEPT ![CHOOSE h \in FreeHandlers : TRUE] =
       [op |-> op, at |-> "arrived", client |-> c, user |-> UserOf[c],
        token |-> client[c].token, answer |-> "none"]]
  /\ client' = [client EXCEPT ![c].at = "waiting", ![c].op = op]
  /\ UNCHANGED <<clock, active, tables, lost, crashes>>

\* What a client is left with when its request failed.
Unanswered(c) ==
  IF client[c].op = "refresh" THEN [client[c] EXCEPT !.at = "unsure"] ELSE Out

\* The response is delivered, if its client still waits for it.
Answer(h) ==
  LET r == handler[h]
  IN  /\ r.at = "answered"
      /\ handler' = [handler EXCEPT ![h] = Free]
      /\ client' = IF r.client = None THEN client
                   ELSE [client EXCEPT ![r.client] =
                     CASE r.answer = "pair" -> [Out EXCEPT !.at = "in", !.token = r.token]
                       [] r.answer = "error" -> Unanswered(r.client)
                       [] OTHER -> Out]
      /\ UNCHANGED <<clock, active, tables, lost, crashes>>

\* The client loses its connection, and the handler goes on without it.
GiveUp(c) ==
  /\ client[c].at = "waiting"
  /\ lost < MaxLost
  /\ lost' = lost + 1
  /\ client' = [client EXCEPT ![c] = Unanswered(c)]
  /\ handler' = [h \in Handlers |->
       IF handler[h].client = c THEN [handler[h] EXCEPT !.client = None] ELSE handler[h]]
  /\ UNCHANGED <<clock, active, tables, crashes>>

\* The server dies between two commits, or before it has answered.
HandlerCrash(h) ==
  /\ handler[h].at # "free"
  /\ crashes < MaxCrashes
  /\ crashes' = crashes + 1
  /\ handler' = [handler EXCEPT ![h] = Free]
  /\ client' = IF handler[h].client = None THEN client
               ELSE [client EXCEPT ![handler[h].client] = Unanswered(handler[h].client)]
  /\ UNCHANGED <<clock, active, tables, lost>>

-----------------------------------------------------------------------------
HandlerNext(h) ==
  Check(h) \/ Revoke(h) \/ CreatePair(h) \/ Logout(h) \/ Answer(h) \/ HandlerCrash(h)

Next ==
  \/ Elapse
  \/ \E u \in Users : Deactivate(u)
  \/ \E h \in Handlers : HandlerNext(h)
  \/ \E c \in Clients : GiveUp(c) \/ \E op \in Ops : Send(c, op)

Spec == Init /\ [][Next]_vars

-----------------------------------------------------------------------------
(* What must hold.                                                         *)

\* Every variable has its type, and no token is of a later second.
TypeOK ==
  /\ clock \in 0..MaxClock
  /\ active \subseteq Users
  /\ issued \subseteq Token
  /\ revoked \subseteq issued
  /\ replaced \subseteq issued
  /\ handler \in [Handlers -> Handler]
  /\ client \in [Clients -> Client]
  /\ lost \in 0..MaxLost
  /\ crashes \in 0..MaxCrashes
  /\ \A t \in issued : t.iat <= clock

\* No two clients hold the same token, although two logins of one user in one
\* second make the same string: the logout of one never ends the session of
\* the other (the unique token_hash, whose violation is answered 500).
TokensAreDistinct ==
  \A c, d \in Clients : client[c].token # None /\ client[c].token = client[d].token => c = d

\* A client none of whose refreshes failed holds a token whose row is stored
\* and not revoked: until it expires, nothing but its own requests ends the
\* session, neither other sessions of its user nor requests given up on.
HeldTokenWorks ==
  \A c \in Clients : client[c].at = "in" => client[c].token \in issued \ revoked

\* A token that a pair was made for is revoked, and stays so, wherever refresh
\* is cut off between its commits: its session is never usable through the
\* old and the new token at once.
ReplacedIsRevoked == replaced \subseteq revoked

Past(h) == handler[h].at \in {"checked", "revoked"}

\* A refresh with the token has passed its checks.
Exchanging(t) ==
  \E h \in Handlers : handler[h].op = "refresh" /\ handler[h].token = t /\ Past(h)

\* But for a refresh that was under way when it was revoked, by a logout or by
\* another refresh, a token is never exchanged again, and stays revoked.
RevocationHolds ==
  [][\A t \in revoked :
       /\ t \in revoked'
       /\ ~Exchanging(t) => ~Exchanging(t)' /\ (t \in replaced' <=> t \in replaced)]_vars

UnderWay(u) == \E h \in Handlers : handler[h].user = u /\ Past(h)

TokensOf(u) == {t \in issued : t.user = u}

\* But for the requests that were under way when the user was deactivated, no
\* further token is made for the user, from an earlier token neither.
DeactivationHolds ==
  [][\A u \in Users \ active :
       ~UnderWay(u) => ~UnderWay(u)' /\ TokensOf(u)' = TokensOf(u)]_vars
===============================================================================
