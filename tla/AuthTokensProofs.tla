--------------------------- MODULE AuthTokensProofs ---------------------------
(***************************************************************************)
(* Proofs about AuthTokens, for any users, clients, handlers, lifetimes    *)
(* and bounds.                                                             *)
(***************************************************************************)
EXTENDS AuthTokens, TLAPS

\* Handlers and clients agree: who waits for a handler waits for that one only
\* and for what it does; refresh and logout come with a token; and the second
\* half of a refresh comes after its revocation.
Linked ==
  \A h \in Handlers :
    /\ handler[h].at = "free" => handler[h].client = None
    /\ handler[h].op # "login" => handler[h].token # None
    /\ handler[h].at = "revoked" =>
         handler[h].op = "refresh" /\ handler[h].token \in revoked
    /\ handler[h].client # None =>
         /\ client[handler[h].client].at = "waiting"
         /\ client[handler[h].client].op = handler[h].op
         /\ \A g \in Handlers : handler[g].client = handler[h].client => g = h

\* A client has a token unless it is out or logging in.
Equipped ==
  \A c \in Clients :
    /\ client[c].at = "out" => client[c].token = None
    /\ client[c].at \in {"in", "unsure"} => client[c].token # None
    /\ client[c].at = "waiting" => (client[c].token = None <=> client[c].op = "login")

\* Whatever token is around has a row.
Known ==
  /\ \A h \in Handlers : handler[h].token \in issued \union {None}
  /\ \A c \in Clients : client[c].token \in issued \union {None}

\* A pair on its way to a client.
Fresh(h) ==
  handler[h].at = "answered" /\ handler[h].answer = "pair" /\ handler[h].client # None

\* A new token on its way is good and nowhere else.
FreshIsGood ==
  \A h \in Handlers : Fresh(h) =>
    /\ handler[h].token \in issued \ revoked
    /\ \A c \in Clients : client[c].token # handler[h].token
    /\ \A g \in Handlers \ {h} : handler[g].token # handler[h].token

\* The token of a client that is in is in no request.
InIsQuiet ==
  \A c \in Clients : client[c].at = "in" =>
    \A h \in Handlers : handler[h].token # client[c].token

IInv ==
  /\ TypeOK
  /\ Linked
  /\ Equipped
  /\ Known
  /\ FreshIsGood
  /\ InIsQuiet
  /\ TokensAreDistinct
  /\ HeldTokenWorks
  /\ ReplacedIsRevoked

-----------------------------------------------------------------------------
\* There is nothing to go wrong at the start.
LEMMA InitIInv == Init => IInv
<1> SUFFICES ASSUME Init PROVE IInv
  OBVIOUS
<1>1. Free \in Handler
  BY TokenAssumption DEF Free, Handler, Ops
<1>2. Out \in Client
  BY DEF Out, Client, Ops
<1>3. TypeOK
  BY <1>1, <1>2, TokenAssumption DEF Init, TypeOK
<1>4. /\ \A h \in Handlers : /\ handler[h].at = "free" /\ handler[h].op = "login"
                              /\ handler[h].client = None /\ handler[h].token = None
      /\ \A c \in Clients : client[c].at = "out" /\ client[c].token = None
      /\ replaced = {}
  BY DEF Init, Free, Out
<1>5. Linked /\ Equipped /\ Known
  BY <1>4 DEF Linked, Equipped, Known
<1>6. FreshIsGood /\ InIsQuiet
  BY <1>4 DEF Fresh, FreshIsGood, InIsQuiet
<1>7. TokensAreDistinct /\ HeldTokenWorks /\ ReplacedIsRevoked
  BY <1>4 DEF TokensAreDistinct, HeldTokenWorks, ReplacedIsRevoked
<1> QED
  BY <1>3, <1>5, <1>6, <1>7 DEF IInv

\* A step that leaves tokens, handlers and clients alone: of the clock or of an
\* operator.
LEMMA OutsideKeeps ==
  ASSUME IInv, Elapse \/ (\E u \in Users : Deactivate(u)) \/ UNCHANGED vars
  PROVE  IInv'
<1>1. UNCHANGED <<issued, revoked, replaced, handler, client, lost, crashes>>
  BY DEF Elapse, Deactivate, vars, tables
<1>2. clock' \in 0..MaxClock /\ clock <= clock' /\ active' \subseteq Users
  BY TokenAssumption DEF Elapse, Deactivate, vars, IInv, TypeOK
<1>3. TypeOK'
  BY <1>1, <1>2, TokenAssumption DEF IInv, TypeOK, Token
<1> QED
  BY <1>1, <1>3
     DEF IInv, Linked, Equipped, Known, Fresh, FreshIsGood, InIsQuiet,
         TokensAreDistinct, HeldTokenWorks, ReplacedIsRevoked

\* A handler that has not been asked to make a pair goes on without a change of
\* its token or client, and possibly revokes its own token.
LEMMA GoesOnKeeps ==
  ASSUME IInv, NEW h \in Handlers, handler[h].at # "free",
         NEW at \in {"checked", "revoked", "answered"},
         NEW answer \in {"none", "refused", "error"},
         Becomes(h, at, answer),
         UNCHANGED <<clock, active, issued, replaced, client, lost, crashes>>,
         \/ revoked' = revoked
         \/ /\ handler[h].at # "answered"
            /\ handler[h].op # "login"
            /\ revoked' = revoked \union ({handler[h].token} \intersect issued),
         at = "revoked" => handler[h].op = "refresh" /\ handler[h].token \in revoked'
  PROVE  IInv'
<1>1. /\ handler \in [Handlers -> Handler]
      /\ handler' = [handler EXCEPT ![h].at = at, ![h].answer = answer]
  BY DEF IInv, TypeOK, Becomes
<1>2. \A g \in Handlers :
        /\ handler'[g].op = handler[g].op
        /\ handler'[g].client = handler[g].client
        /\ handler'[g].token = handler[g].token
        /\ g # h => handler'[g] = handler[g]
        /\ handler'[h].at = at /\ handler'[h].answer = answer
  BY <1>1 DEF Handler
<1>3. handler' \in [Handlers -> Handler]
  <2>1. [handler[h] EXCEPT !.at = at, !.answer = answer] \in Handler
    BY <1>1 DEF Handler
  <2> QED
    BY <1>1, <2>1
<1>4. revoked \subseteq revoked' /\ revoked' \subseteq issued
  BY DEF IInv, TypeOK
<1>5. TypeOK'
  BY <1>3, <1>4 DEF IInv, TypeOK
<1>6. Linked'
  BY <1>2, <1>4 DEF IInv, Linked
<1>7. Equipped' /\ Known'
  BY <1>2 DEF IInv, Equipped, Known
<1>8. \A g \in Handlers : Fresh(g)' => Fresh(g) /\ g # h
  BY <1>2 DEF Fresh
<1>9. \A t \in revoked' \ revoked : t = handler[h].token
  OBVIOUS
<1>10. FreshIsGood'
  BY <1>2, <1>8, <1>9 DEF IInv, FreshIsGood
<1>11. InIsQuiet' /\ TokensAreDistinct' /\ ReplacedIsRevoked'
  BY <1>2, <1>4 DEF IInv, InIsQuiet, TokensAreDistinct, ReplacedIsRevoked
<1>12. HeldTokenWorks'
  BY <1>9 DEF IInv, HeldTokenWorks, InIsQuiet
<1> QED
  BY <1>5, <1>6, <1>7, <1>10, <1>11, <1>12 DEF IInv

\* The reads of login and refresh.
LEMMA CheckKeeps ==
  ASSUME IInv, NEW h \in Handlers, Check(h)
  PROVE  IInv'
<1>1. /\ handler[h].at # "free"
      /\ UNCHANGED <<clock, active, issued, revoked, replaced, client, lost, crashes>>
      /\ Becomes(h, "checked", "none") \/ Becomes(h, "answered", "refused")
  BY DEF Check, tables
<1> QED
  BY <1>1, GoesOnKeeps

\* The first commit of refresh.
LEMMA RevokeKeeps ==
  ASSUME IInv, NEW h \in Handlers, Revoke(h)
  PROVE  IInv'
<1>1. handler[h].token \in issued
  BY DEF IInv, Revoke, Linked, Known
<1>2. revoked' = revoked \union ({handler[h].token} \intersect issued)
  BY <1>1 DEF Revoke, RevokedBy
<1>3. handler[h].at = "checked" /\ handler[h].op = "refresh" /\ Becomes(h, "revoked", "none")
  BY DEF Revoke
<1> QED
  BY <1>1, <1>2, <1>3, GoesOnKeeps DEF Revoke

\* The commit of logout.
LEMMA LogoutKeeps ==
  ASSUME IInv, NEW h \in Handlers, Logout(h)
  PROVE  IInv'
<1>1. /\ handler[h].at = "arrived" /\ handler[h].op = "logout"
      /\ revoked' = revoked \union ({handler[h].token} \intersect issued)
      /\ Becomes(h, "answered", "none")
  BY DEF Logout, LoggedOut
<1> QED
  BY <1>1, GoesOnKeeps DEF Logout

\* The commit of a new pair: its token is in no request and with no client,
\* since those are all in the table and the unique constraint says it is not.
LEMMA CreatePairKeeps ==
  ASSUME IInv, NEW h \in Handlers, CreatePair(h)
  PROVE  IInv'
<1> DEFINE r == handler[h]
           t == New(r)
<1>1. CASE Collides(t)
  <2>1. /\ r.at # "free"
        /\ Becomes(h, "answered", "error")
        /\ UNCHANGED <<clock, active, issued, revoked, replaced, client, lost, crashes>>
    BY <1>1 DEF CreatePair, tables
  <2> QED
    BY <2>1, GoesOnKeeps
<1>2. CASE ~Collides(t)
  <2>1. /\ issued' = issued \union {t}
        /\ replaced' = IF r.op = "refresh" THEN replaced \union {r.token} ELSE replaced
        /\ UNCHANGED <<clock, active, revoked, client, lost, crashes>>
        /\ r.op = "refresh" => r.at = "revoked"
        /\ r.at # "free"
    BY <1>2 DEF CreatePair
  <2>2. handler \in [Handlers -> Handler] /\ r \in Handler
    BY DEF IInv, TypeOK
  <2>3. t \in Token /\ t \notin issued /\ t # None /\ t.iat <= clock
    BY <1>2, <2>2, TokenAssumption DEF New, Collides, Token, Handler, IInv, TypeOK
  <2>4. /\ handler'[h].token = t /\ handler'[h].at = "answered"
        /\ handler'[h].op = r.op /\ handler'[h].client = r.client
        /\ \A g \in Handlers \ {h} : handler'[g] = handler[g]
        /\ handler' \in [Handlers -> Handler]
    <3> HIDE DEF t
    <3>1. handler' = [handler EXCEPT ![h] =
                        [r EXCEPT !.at = "answered", !.answer = "pair", !.token = t]]
      BY <1>2 DEF CreatePair, t
    <3>2. [r EXCEPT !.at = "answered", !.answer = "pair", !.token = t] \in Handler
      BY <2>2, <2>3 DEF Handler
    <3> QED
      BY <2>2, <3>1, <3>2 DEF Handler
  <2>5. \A g \in Handlers : /\ handler'[g].op = handler[g].op
                            /\ handler'[g].client = handler[g].client
    BY <2>4
  <2>6. r.op = "refresh" => r.token \in revoked
    BY <2>1 DEF IInv, Linked
  <2>7. TypeOK'
    BY <2>1, <2>3, <2>4, <2>6 DEF IInv, TypeOK
  <2>8. Linked'
    <3>1. ASSUME NEW g \in Handlers
          PROVE  /\ handler'[g].at = "free" => handler'[g].client = None
                 /\ handler'[g].op # "login" => handler'[g].token # None
                 /\ handler'[g].at = "revoked" =>
                      handler'[g].op = "refresh" /\ handler'[g].token \in revoked
      BY <2>3, <2>4 DEF IInv, Linked
    <3> QED
      BY <2>1, <2>5, <3>1 DEF IInv, Linked
  <2>9. Equipped' /\ Known'
    <3>1. \A g \in Handlers : handler'[g].token \in issued' \union {None}
      BY <2>1, <2>4 DEF IInv, Known
    <3> QED
      BY <2>1, <3>1 DEF IInv, Equipped, Known
  <2>10. /\ \A g \in Handlers : handler[g].token # t
         /\ \A c \in Clients : client[c].token # t
    BY <2>3 DEF IInv, Known
  <2>11. \A g \in Handlers : Fresh(g)' => Fresh(g) \/ g = h
    BY <2>4 DEF Fresh
  <2>12. t \notin revoked
    BY <2>3 DEF IInv, TypeOK
  <2>13. FreshIsGood'
    <3>1. ASSUME NEW g \in Handlers, Fresh(g)'
          PROVE  /\ handler'[g].token \in issued' \ revoked'
                 /\ \A c \in Clients : client'[c].token # handler'[g].token
                 /\ \A f \in Handlers \ {g} : handler'[f].token # handler'[g].token
      <4>1. CASE g = h
        <5>1. t \in issued' \ revoked' /\ handler'[g].token = t
          BY <4>1, <2>1, <2>4, <2>12
        <5>2. \A f \in Handlers \ {g} : handler'[f].token # t
          BY <4>1, <2>4, <2>10
        <5> QED
          BY <2>1, <2>10, <5>1, <5>2
      <4>2. CASE g # h
        <5>1. Fresh(g) /\ handler'[g] = handler[g] /\ handler[g].token # t
          BY <3>1, <4>2, <2>4, <2>10, <2>11
        <5>2. /\ handler[g].token \in issued \ revoked
              /\ \A c \in Clients : client[c].token # handler[g].token
              /\ \A f \in Handlers \ {g} : handler[f].token # handler[g].token
          BY <5>1 DEF IInv, FreshIsGood
        <5>3. \A f \in Handlers \ {g} : handler'[f].token # handler[g].token
          BY <5>1, <5>2, <2>4
        <5> QED
          BY <2>1, <5>1, <5>2, <5>3
      <4> QED
        BY <4>1, <4>2
    <3> QED
      BY <3>1 DEF FreshIsGood
  <2>14. InIsQuiet'
    <3>1. ASSUME NEW c \in Clients, client[c].at = "in", NEW g \in Handlers
          PROVE  handler'[g].token # client[c].token
      BY <3>1, <2>4, <2>10 DEF IInv, InIsQuiet
    <3> QED
      BY <2>1, <3>1 DEF InIsQuiet
  <2>15. TokensAreDistinct' /\ HeldTokenWorks'
    BY <2>1 DEF IInv, TokensAreDistinct, HeldTokenWorks
  <2>16. ReplacedIsRevoked'
    BY <2>1, <2>6 DEF IInv, ReplacedIsRevoked
  <2> QED
    BY <2>7, <2>8, <2>9, <2>13, <2>14, <2>15, <2>16 DEF IInv
<1> QED
  BY <1>1, <1>2

-----------------------------------------------------------------------------
\* A handler with nothing to do.
LEMMA FreeHandler ==
  /\ Free \in Handler
  /\ Free.at = "free" /\ Free.op = "login" /\ Free.client = None /\ Free.token = None
BY TokenAssumption DEF Free, Handler, Ops

\* What a client may be left with is of its type, and it is not in.
LEMMA UnansweredFacts ==
  ASSUME IInv, NEW c \in Clients, client[c].at = "waiting",
         NEW left \in {Out, Unanswered(c)}
  PROVE  /\ left \in Client
         /\ left.at \in {"out", "unsure"}
         /\ left.at = "out" => left.token = None
         /\ left.at = "unsure" => left.token # None
         /\ left.token \in {None, client[c].token}
<1>1. Out \in Client /\ Out.at = "out" /\ Out.token = None
  BY DEF Out, Client, Ops
<1>2. client[c] \in Client
  BY DEF IInv, TypeOK
<1>3. CASE left = Out
  BY <1>1, <1>3
<1>4. CASE left # Out
  <2>1. client[c].op = "refresh" /\ left = [client[c] EXCEPT !.at = "unsure"]
    BY <1>4 DEF Unanswered
  <2>2. left \in Client /\ left.at = "unsure" /\ left.token = client[c].token
    BY <1>2, <2>1 DEF Client
  <2>3. client[c].token # None
    BY <2>1 DEF IInv, Equipped
  <2> QED
    BY <2>2, <2>3
<1> QED
  BY <1>3, <1>4

\* A client that gives up waiting or is told of a failure keeps a token that it
\* had, or none; no handler has that client any more.
LEMMA LeftKeeps ==
  ASSUME IInv, NEW c \in Clients, client[c].at = "waiting",
         NEW left \in {Out, Unanswered(c)},
         client' = [client EXCEPT ![c] = left],
         handler' \in [Handlers -> Handler],
         \A h \in Handlers :
           \/ handler'[h] = Free
           \/ /\ handler'[h].client = None
              /\ handler'[h].at = handler[h].at /\ handler'[h].op = handler[h].op
              /\ handler'[h].token = handler[h].token
           \/ handler'[h] = handler[h] /\ handler[h].client # c,
         lost' \in 0..MaxLost, crashes' \in 0..MaxCrashes,
         UNCHANGED <<clock, active, issued, revoked, replaced>>
  PROVE  IInv'
<1>1. /\ client' \in [Clients -> Client]
      /\ client'[c] = left
      /\ \A d \in Clients \ {c} : client'[d] = client[d]
  BY UnansweredFacts DEF IInv, TypeOK
<1>2. /\ left.at \in {"out", "unsure"}
      /\ left.at = "out" => left.token = None
      /\ left.at = "unsure" => left.token # None
      /\ left.token \in {None, client[c].token}
  BY UnansweredFacts
<1>3. /\ Free.at = "free" /\ Free.op = "login" /\ Free.client = None /\ Free.token = None
  BY DEF Free
<1>4. \A h \in Handlers :
        /\ handler'[h].token \in {None, handler[h].token}
        /\ handler'[h].client # None => handler'[h] = handler[h] /\ handler[h].client # c
  BY <1>3
<1>5. TypeOK'
  BY <1>1 DEF IInv, TypeOK
<1>6. Linked'
  <2>1. ASSUME NEW h \in Handlers
        PROVE  /\ handler'[h].at = "free" => handler'[h].client = None
               /\ handler'[h].op # "login" => handler'[h].token # None
               /\ handler'[h].at = "revoked" =>
                    handler'[h].op = "refresh" /\ handler'[h].token \in revoked
    BY <1>3 DEF IInv, Linked
  <2>2. ASSUME NEW h \in Handlers, handler'[h].client # None
        PROVE  /\ client'[handler'[h].client].at = "waiting"
               /\ client'[handler'[h].client].op = handler'[h].op
               /\ \A g \in Handlers : handler'[g].client = handler'[h].client => g = h
    <3>1. handler'[h] = handler[h] /\ handler[h].client \in Clients \ {c}
      BY <1>4, <2>2 DEF IInv, TypeOK, Handler
    <3> QED
      BY <1>1, <1>4, <2>2, <3>1 DEF IInv, Linked
  <2> QED
    BY <2>1, <2>2 DEF Linked
<1>7. Equipped'
  <2>1. ASSUME NEW d \in Clients
        PROVE  /\ client'[d].at = "out" => client'[d].token = None
               /\ client'[d].at \in {"in", "unsure"} => client'[d].token # None
               /\ client'[d].at = "waiting" =>
                    (client'[d].token = None <=> client'[d].op = "login")
    BY <1>1, <1>2 DEF IInv, Equipped
  <2> QED
    BY <2>1 DEF Equipped
<1>8. \A d \in Clients : client'[d].token \in {None, client[d].token}
  BY <1>1, <1>2
<1>9. Known'
  BY <1>4, <1>8 DEF IInv, Known
<1>10. FreshIsGood'
  <2>1. ASSUME NEW h \in Handlers, Fresh(h)'
        PROVE  /\ handler'[h].token \in issued' \ revoked'
               /\ \A d \in Clients : client'[d].token # handler'[h].token
               /\ \A g \in Handlers \ {h} : handler'[g].token # handler'[h].token
    <3>1. Fresh(h) /\ handler'[h] = handler[h]
      BY <1>4, <2>1 DEF Fresh
    <3>2. /\ handler[h].token \in issued \ revoked
          /\ \A d \in Clients : client[d].token # handler[h].token
          /\ \A g \in Handlers \ {h} : handler[g].token # handler[h].token
      BY <3>1 DEF IInv, FreshIsGood
    <3>3. handler[h].token # None
      BY <3>2, TokenAssumption DEF IInv, TypeOK
    <3> QED
      BY <1>4, <1>8, <3>1, <3>2, <3>3
  <2> QED
    BY <2>1 DEF FreshIsGood
<1>11. \A d \in Clients : client'[d].at = "in" => d # c /\ client'[d] = client[d] /\ client[d].token # None
  BY <1>1, <1>2 DEF IInv, Equipped
<1>12. InIsQuiet' /\ HeldTokenWorks'
  BY <1>4, <1>11 DEF IInv, InIsQuiet, HeldTokenWorks
<1>13. TokensAreDistinct' /\ ReplacedIsRevoked'
  BY <1>8 DEF IInv, TokensAreDistinct, ReplacedIsRevoked
<1> QED
  BY <1>5, <1>6, <1>7, <1>9, <1>10, <1>12, <1>13 DEF IInv

\* A handler ends with nobody waiting for it.
LEMMA UnheardKeeps ==
  ASSUME IInv, NEW h \in Handlers, handler[h].client = None,
         handler' = [handler EXCEPT ![h] = Free],
         lost' \in 0..MaxLost, crashes' \in 0..MaxCrashes,
         UNCHANGED <<clock, active, issued, revoked, replaced, client>>
  PROVE  IInv'
<1>1. /\ handler' \in [Handlers -> Handler]
      /\ handler'[h] = Free
      /\ \A g \in Handlers \ {h} : handler'[g] = handler[g]
  BY FreeHandler DEF IInv, TypeOK
<1>2. /\ Free.at = "free" /\ Free.op = "login" /\ Free.client = None /\ Free.token = None
  BY FreeHandler
<1>3. TypeOK' /\ Equipped' /\ TokensAreDistinct' /\ HeldTokenWorks' /\ ReplacedIsRevoked'
  BY <1>1 DEF IInv, TypeOK, Equipped, TokensAreDistinct, HeldTokenWorks, ReplacedIsRevoked
<1>4. Linked' /\ Known'
  BY <1>1, <1>2 DEF IInv, Linked, Known
<1>5. ASSUME NEW g \in Handlers, Fresh(g)'
      PROVE  /\ handler'[g].token \in issued' \ revoked'
             /\ \A d \in Clients : client'[d].token # handler'[g].token
             /\ \A f \in Handlers \ {g} : handler'[f].token # handler'[g].token
  <2>1. g # h /\ Fresh(g) /\ handler'[g] = handler[g]
    BY <1>1, <1>2, <1>5 DEF Fresh
  <2>2. handler[g].token \in issued \ revoked /\ handler[g].token # None
    BY <2>1, TokenAssumption DEF IInv, FreshIsGood, TypeOK
  <2> QED
    BY <1>1, <1>2, <2>1, <2>2 DEF IInv, FreshIsGood
<1>6. FreshIsGood'
  BY <1>5 DEF FreshIsGood
<1>7. InIsQuiet'
  BY <1>1, <1>2 DEF IInv, InIsQuiet, Equipped
<1> QED
  BY <1>3, <1>4, <1>6, <1>7 DEF IInv

\* The new pair reaches the client that asked for it.
LEMMA DeliveryKeeps ==
  ASSUME IInv, NEW h \in Handlers, Fresh(h),
         handler' = [handler EXCEPT ![h] = Free],
         client' = [client EXCEPT ![handler[h].client] =
                      [Out EXCEPT !.at = "in", !.token = handler[h].token]],
         UNCHANGED <<clock, active, issued, revoked, replaced, lost, crashes>>
  PROVE  IInv'
<1> DEFINE c == handler[h].client
           t == handler[h].token
           held == [Out EXCEPT !.at = "in", !.token = t]
<1>1. c \in Clients /\ c # None
  BY DEF IInv, TypeOK, Fresh, Handler
<1>2. /\ t \in issued \ revoked /\ t \in Token /\ t # None
      /\ \A d \in Clients : client[d].token # t
      /\ \A g \in Handlers \ {h} : handler[g].token # t
  BY TokenAssumption DEF IInv, TypeOK, FreshIsGood
<1>3. held \in Client /\ held.at = "in" /\ held.token = t
  BY <1>2 DEF Out, Client, Ops
<1>4. /\ client' \in [Clients -> Client]
      /\ client'[c] = held
      /\ \A d \in Clients \ {c} : client'[d] = client[d]
  BY <1>1, <1>3 DEF IInv, TypeOK
<1>5. /\ handler' \in [Handlers -> Handler]
      /\ handler'[h] = Free
      /\ \A g \in Handlers \ {h} : handler'[g] = handler[g] /\ handler[g].client # c
  BY <1>1, FreeHandler DEF IInv, TypeOK, Linked
<1> HIDE DEF c, held
<1>6. TypeOK'
  BY <1>4, <1>5 DEF IInv, TypeOK
<1>7. Linked'
  <2>1. ASSUME NEW g \in Handlers \ {h}, handler[g].client # None
        PROVE  /\ client'[handler[g].client].at = "waiting"
               /\ client'[handler[g].client].op = handler[g].op
               /\ \A f \in Handlers : handler'[f].client = handler[g].client => f = g
    <3>1. handler[g].client \in Clients \ {c}
      BY <1>5, <2>1 DEF IInv, TypeOK, Handler
    <3> QED
      BY <1>4, <1>5, <2>1, <3>1, FreeHandler DEF IInv, Linked
  <2> QED
    BY <1>5, <2>1, FreeHandler DEF IInv, Linked
<1>8. Equipped' /\ Known'
  BY <1>2, <1>3, <1>4, <1>5, FreeHandler DEF IInv, Equipped, Known
<1>9. FreshIsGood'
  <2>1. ASSUME NEW g \in Handlers, Fresh(g)'
        PROVE  /\ handler'[g].token \in issued' \ revoked'
               /\ \A d \in Clients : client'[d].token # handler'[g].token
               /\ \A f \in Handlers \ {g} : handler'[f].token # handler'[g].token
    <3>1. g # h /\ Fresh(g) /\ handler'[g] = handler[g] /\ handler[g].token # t
      BY <1>2, <1>5, <2>1, FreeHandler DEF Fresh
    <3>2. /\ handler[g].token \in issued \ revoked
          /\ \A d \in Clients : client[d].token # handler[g].token
          /\ \A f \in Handlers \ {g} : handler[f].token # handler[g].token
      BY <3>1 DEF IInv, FreshIsGood
    <3>3. handler[g].token # None
      BY <3>2, TokenAssumption DEF IInv, TypeOK
    <3> QED
      BY <1>3, <1>4, <1>5, <3>1, <3>2, <3>3, FreeHandler
  <2> QED
    BY <2>1 DEF FreshIsGood
<1>10. InIsQuiet'
  <2>1. ASSUME NEW d \in Clients, client'[d].at = "in", NEW g \in Handlers
        PROVE  handler'[g].token # client'[d].token
    <3>1. CASE d = c
      BY <1>2, <1>3, <1>4, <1>5, <3>1, FreeHandler
    <3>2. CASE d # c
      <4>1. client'[d] = client[d] /\ client[d].at = "in"
        BY <1>4, <2>1, <3>2
      <4>2. client[d].token # None /\ handler[g].token # client[d].token
        BY <4>1 DEF IInv, Equipped, InIsQuiet
      <4>3. handler'[g].token \in {None, handler[g].token}
        BY <1>5, FreeHandler
      <4> QED
        BY <4>1, <4>2, <4>3
    <3> QED
      BY <3>1, <3>2
  <2> QED
    BY <2>1 DEF InIsQuiet
<1>11. TokensAreDistinct' /\ HeldTokenWorks' /\ ReplacedIsRevoked'
  BY <1>2, <1>3, <1>4 DEF IInv, TokensAreDistinct, HeldTokenWorks, ReplacedIsRevoked
<1> QED
  BY <1>6, <1>7, <1>8, <1>9, <1>10, <1>11 DEF IInv

\* A handler is done, and leaves the client that waits for it with a failure.
LEMMA FailedKeeps ==
  ASSUME IInv, NEW h \in Handlers, handler[h].client # None,
         NEW left \in {Out, Unanswered(handler[h].client)},
         handler' = [handler EXCEPT ![h] = Free],
         client' = [client EXCEPT ![handler[h].client] = left],
         lost' \in 0..MaxLost, crashes' \in 0..MaxCrashes,
         UNCHANGED <<clock, active, issued, revoked, replaced>>
  PROVE  IInv'
<1> DEFINE c == handler[h].client
<1>1. c \in Clients /\ client[c].at = "waiting"
  BY DEF IInv, TypeOK, Handler, Linked
<1>2. /\ handler' \in [Handlers -> Handler]
      /\ handler'[h] = Free
      /\ \A g \in Handlers \ {h} : handler'[g] = handler[g] /\ handler[g].client # c
  BY FreeHandler DEF IInv, TypeOK, Linked
<1>3. left \in {Out, Unanswered(c)} /\ client' = [client EXCEPT ![c] = left]
  OBVIOUS
<1> HIDE DEF c
<1>4. \A g \in Handlers :
        \/ handler'[g] = Free
        \/ /\ handler'[g].client = None
           /\ handler'[g].at = handler[g].at /\ handler'[g].op = handler[g].op
           /\ handler'[g].token = handler[g].token
        \/ handler'[g] = handler[g] /\ handler[g].client # c
  BY <1>2
<1> QED
  BY <1>1, <1>2, <1>3, <1>4, LeftKeeps

\* The response is delivered.
LEMMA AnswerKeeps ==
  ASSUME IInv, NEW h \in Handlers, Answer(h)
  PROVE  IInv'
<1> DEFINE r == handler[h]
<1>1. /\ r.at = "answered"
      /\ handler' = [handler EXCEPT ![h] = Free]
      /\ UNCHANGED <<clock, active, issued, revoked, replaced, lost, crashes>>
      /\ lost' \in 0..MaxLost /\ crashes' \in 0..MaxCrashes
  BY DEF Answer, tables, IInv, TypeOK
<1>2. CASE r.client = None
  BY <1>1, <1>2, UnheardKeeps DEF Answer
<1>3. CASE r.client # None /\ r.answer = "pair"
  BY <1>1, <1>3, DeliveryKeeps DEF Answer, Fresh
<1>4. CASE r.client # None /\ r.answer # "pair"
  <2>1. \E left \in {Out, Unanswered(r.client)} : client' = [client EXCEPT ![r.client] = left]
    BY <1>4 DEF Answer
  <2> QED
    BY <1>1, <1>4, <2>1, FailedKeeps
<1> QED
  BY <1>2, <1>3, <1>4

\* The server dies.
LEMMA HandlerCrashKeeps ==
  ASSUME IInv, NEW h \in Handlers, HandlerCrash(h)
  PROVE  IInv'
<1>1. /\ handler' = [handler EXCEPT ![h] = Free]
      /\ UNCHANGED <<clock, active, issued, revoked, replaced>>
      /\ lost' \in 0..MaxLost /\ crashes' \in 0..MaxCrashes
  BY TokenAssumption DEF HandlerCrash, tables, IInv, TypeOK
<1>2. CASE handler[h].client = None
  BY <1>1, <1>2, UnheardKeeps DEF HandlerCrash
<1>3. CASE handler[h].client # None
  BY <1>1, <1>3, FailedKeeps DEF HandlerCrash
<1> QED
  BY <1>2, <1>3

\* A client stops waiting.
LEMMA GiveUpKeeps ==
  ASSUME IInv, NEW c \in Clients, GiveUp(c)
  PROVE  IInv'
<1>1. /\ client[c].at = "waiting"
      /\ client' = [client EXCEPT ![c] = Unanswered(c)]
      /\ UNCHANGED <<clock, active, issued, revoked, replaced>>
      /\ lost' \in 0..MaxLost /\ crashes' \in 0..MaxCrashes
  BY TokenAssumption DEF GiveUp, tables, IInv, TypeOK
<1>2. /\ handler \in [Handlers -> Handler]
      /\ handler' = [h \in Handlers |-> IF handler[h].client = c
                                          THEN [handler[h] EXCEPT !.client = None]
                                          ELSE handler[h]]
  BY DEF GiveUp, IInv, TypeOK
<1>3. \A h \in Handlers :
        /\ [handler[h] EXCEPT !.client = None] \in Handler
        /\ \/ /\ handler'[h].client = None
              /\ handler'[h].at = handler[h].at /\ handler'[h].op = handler[h].op
              /\ handler'[h].token = handler[h].token
           \/ handler'[h] = handler[h] /\ handler[h].client # c
  BY <1>2 DEF Handler
<1>4. handler' \in [Handlers -> Handler]
  BY <1>2, <1>3
<1> QED
  BY <1>1, <1>3, <1>4, LeftKeeps

\* A request is sent: by the one client that holds its token.
LEMMA SendKeeps ==
  ASSUME IInv, NEW c \in Clients, NEW op \in Ops, Send(c, op)
  PROVE  IInv'
<1> DEFINE h == CHOOSE g \in FreeHandlers : TRUE
           request == [op |-> op, at |-> "arrived", client |-> c, user |-> UserOf[c],
                       token |-> client[c].token, answer |-> "none"]
           asked == [client[c] EXCEPT !.at = "waiting", !.op = op]
<1>1. h \in Handlers /\ handler[h].at = "free"
  BY DEF Send, FreeHandlers
<1>2. /\ handler' = [handler EXCEPT ![h] = request]
      /\ client' = [client EXCEPT ![c] = asked]
      /\ UNCHANGED <<clock, active, issued, revoked, replaced, lost, crashes>>
  BY DEF Send, tables
<1>3. /\ client[c].at \in {"out", "in", "unsure"}
      /\ client[c].at = "out" <=> op = "login"
      /\ client[c].token = None <=> op = "login"
  BY DEF Send, IInv, Equipped
<1>4. client[c] \in Client /\ c # None
  BY TokenAssumption DEF IInv, TypeOK
<1>5. request \in Handler
  BY <1>4, TokenAssumption DEF Handler, Client
<1>6. /\ request.op = op /\ request.at = "arrived" /\ request.client = c
      /\ request.token = client[c].token
  OBVIOUS
<1>7. asked \in Client /\ asked.at = "waiting" /\ asked.op = op /\ asked.token = client[c].token
  BY <1>4 DEF Client
<1> HIDE DEF h, request, asked
<1>8. /\ handler' \in [Handlers -> Handler]
      /\ handler'[h] = request
      /\ \A g \in Handlers \ {h} : handler'[g] = handler[g]
  BY <1>1, <1>2, <1>5 DEF IInv, TypeOK
<1>9. /\ client' \in [Clients -> Client]
      /\ client'[c] = asked
      /\ \A d \in Clients \ {c} : client'[d] = client[d]
  BY <1>2, <1>7 DEF IInv, TypeOK
<1>10. UNCHANGED <<clock, active, issued, revoked, replaced, lost, crashes>>
  BY <1>2
<1>11. \A g \in Handlers : handler[g].client # c
  BY <1>3, <1>4 DEF IInv, Linked
<1>12. TypeOK'
  BY <1>8, <1>9, <1>10 DEF IInv, TypeOK
<1>13. Linked'
  <2>1. ASSUME NEW g \in Handlers \ {h}, handler[g].client # None
        PROVE  /\ client'[handler[g].client].at = "waiting"
               /\ client'[handler[g].client].op = handler[g].op
               /\ \A f \in Handlers : handler'[f].client = handler[g].client => f = g
    <3>1. handler[g].client \in Clients \ {c}
      BY <1>11, <2>1 DEF IInv, TypeOK, Handler
    <3> QED
      BY <1>6, <1>8, <1>9, <2>1, <3>1 DEF IInv, Linked
  <2>2. /\ \A f \in Handlers : handler'[f].client = c => f = h
        /\ client'[c].at = "waiting" /\ client'[c].op = op
    BY <1>7, <1>8, <1>9, <1>11
  <2>3. ASSUME NEW g \in Handlers
        PROVE  /\ handler'[g].at = "free" => handler'[g].client = None
               /\ handler'[g].op # "login" => handler'[g].token # None
               /\ handler'[g].at = "revoked" =>
                    handler'[g].op = "refresh" /\ handler'[g].token \in revoked'
    BY <1>3, <1>6, <1>8, <1>10 DEF IInv, Linked
  <2> QED
    BY <1>6, <1>8, <2>1, <2>2, <2>3 DEF Linked
<1>14. \A d \in Clients : client'[d].token = client[d].token
  BY <1>7, <1>9
<1>15. Equipped' /\ Known'
  <2>1. Equipped'
    BY <1>3, <1>7, <1>9 DEF IInv, Equipped
  <2>2. Known'
    BY <1>6, <1>8, <1>10, <1>14 DEF IInv, Known
  <2> QED
    BY <2>1, <2>2
<1>16. FreshIsGood'
  <2>1. ASSUME NEW g \in Handlers, Fresh(g)'
        PROVE  /\ handler'[g].token \in issued' \ revoked'
               /\ \A d \in Clients : client'[d].token # handler'[g].token
               /\ \A f \in Handlers \ {g} : handler'[f].token # handler'[g].token
    <3>1. g # h /\ Fresh(g) /\ handler'[g] = handler[g]
      BY <1>6, <1>8, <2>1 DEF Fresh
    <3>2. /\ handler[g].token \in issued \ revoked
          /\ \A d \in Clients : client[d].token # handler[g].token
          /\ \A f \in Handlers \ {g} : handler[f].token # handler[g].token
      BY <3>1 DEF IInv, FreshIsGood
    <3> QED
      BY <1>6, <1>8, <1>10, <1>14, <3>1, <3>2
  <2> QED
    BY <2>1 DEF FreshIsGood
<1>17. \A d \in Clients : client'[d].at = "in" => d # c /\ client'[d] = client[d]
  BY <1>7, <1>9
<1>18. InIsQuiet'
  <2>1. ASSUME NEW d \in Clients, client'[d].at = "in", NEW g \in Handlers
        PROVE  handler'[g].token # client'[d].token
    <3>1. d # c /\ client'[d] = client[d] /\ client[d].token # None
      BY <1>17, <2>1 DEF IInv, Equipped
    <3>2. client[c].token # client[d].token
      BY <3>1 DEF IInv, TokensAreDistinct
    <3> QED
      BY <1>6, <1>8, <2>1, <3>1, <3>2 DEF IInv, InIsQuiet
  <2> QED
    BY <2>1 DEF InIsQuiet
<1>19. TokensAreDistinct' /\ HeldTokenWorks' /\ ReplacedIsRevoked'
  BY <1>10, <1>14, <1>17 DEF IInv, TokensAreDistinct, HeldTokenWorks, ReplacedIsRevoked
<1> QED
  BY <1>12, <1>13, <1>15, <1>16, <1>18, <1>19 DEF IInv

-----------------------------------------------------------------------------
\* No step breaks the invariant.
LEMMA NextKeeps ==
  ASSUME IInv, [Next]_vars
  PROVE  IInv'
<1>1. CASE Elapse \/ (\E u \in Users : Deactivate(u)) \/ UNCHANGED vars
  BY <1>1, OutsideKeeps
<1>2. ASSUME NEW h \in Handlers, HandlerNext(h)
      PROVE  IInv'
  BY <1>2, CheckKeeps, RevokeKeeps, CreatePairKeeps, LogoutKeeps, AnswerKeeps,
     HandlerCrashKeeps DEF HandlerNext
<1>3. ASSUME NEW c \in Clients, GiveUp(c) \/ \E op \in Ops : Send(c, op)
      PROVE  IInv'
  BY <1>3, GiveUpKeeps, SendKeeps
<1> QED
  BY <1>1, <1>2, <1>3 DEF Next

\* The inductive invariant holds in every state.
THEOREM Invariance == Spec => []IInv
<1>1. IInv /\ [Next]_vars => IInv'
  BY NextKeeps
<1> QED
  BY InitIInv, <1>1, PTL DEF Spec

\* Every variable keeps its type, and no token is of a later second.
THEOREM TypeCorrect == Spec => []TypeOK
<1>1. IInv => TypeOK
  BY DEF IInv
<1> QED
  BY <1>1, Invariance, PTL

\* No two clients ever hold the same token, whatever logins share a second.
THEOREM TokensStayDistinct == Spec => []TokensAreDistinct
<1>1. IInv => TokensAreDistinct
  BY DEF IInv
<1> QED
  BY <1>1, Invariance, PTL

\* A client none of whose requests failed always holds a token that is stored
\* and not revoked.
THEOREM HeldTokenAlwaysWorks == Spec => []HeldTokenWorks
<1>1. IInv => HeldTokenWorks
  BY DEF IInv
<1> QED
  BY <1>1, Invariance, PTL

\* A token that refresh made a pair for is always revoked.
THEOREM ReplacedIsAlwaysRevoked == Spec => []ReplacedIsRevoked
<1>1. IInv => ReplacedIsRevoked
  BY DEF IInv
<1> QED
  BY <1>1, Invariance, PTL

-----------------------------------------------------------------------------
\* A handler past its checks was so before, with the same request, or its user
\* is active and its token not revoked in this step.
LEMMA PastFacts ==
  ASSUME IInv, [Next]_vars, NEW h \in Handlers, Past(h)'
  PROVE  /\ handler'[h].op = handler[h].op
         /\ handler'[h].user = handler[h].user
         /\ handler'[h].token = handler[h].token
         /\ ~Past(h) => /\ handler[h].user \in active
                        /\ handler[h].op = "refresh" => handler[h].token \notin revoked
<1> DEFINE Fact == /\ handler'[h].op = handler[h].op
                   /\ handler'[h].user = handler[h].user
                   /\ handler'[h].token = handler[h].token
                   /\ ~Past(h) =>
                        /\ handler[h].user \in active
                        /\ handler[h].op = "refresh" => handler[h].token \notin revoked
<1>1. handler \in [Handlers -> Handler]
  BY DEF IInv, TypeOK
<1>2. CASE Elapse \/ (\E u \in Users : Deactivate(u)) \/ UNCHANGED vars
  BY <1>2 DEF Elapse, Deactivate, vars, Past
<1>3. ASSUME NEW g \in Handlers, HandlerNext(g)
      PROVE  Fact
  <2>1. CASE g # h
    <3>1. handler'[h] = handler[h]
      BY <1>1, <1>3, <2>1
         DEF HandlerNext, Check, Revoke, CreatePair, Logout, Answer, HandlerCrash, Becomes
    <3> QED
      BY <3>1 DEF Past
  <2>2. CASE g = h
    <3>1. ASSUME NEW at, NEW answer, Becomes(h, at, answer)
          PROVE  /\ handler'[h].at = at
                 /\ handler'[h].op = handler[h].op
                 /\ handler'[h].user = handler[h].user
                 /\ handler'[h].token = handler[h].token
      BY <1>1, <3>1 DEF Becomes, Handler
    <3>2. CASE Check(h)
      <4>1. CASE Becomes(h, "checked", "none")
                 /\ Allowed(handler[h]) /\ (handler[h].op = "refresh" => Valid(handler[h].token))
        BY <3>1, <4>1 DEF Allowed, Valid
      <4>2. CASE Becomes(h, "answered", "refused")
        BY <3>1, <4>2 DEF Past
      <4> QED
        BY <3>2, <4>1, <4>2 DEF Check
    <3>3. CASE Revoke(h)
      BY <3>1, <3>3 DEF Revoke, Past
    <3>4. CASE Logout(h)
      BY <3>1, <3>4 DEF Logout, Past
    <3>5. CASE CreatePair(h)
      <4>1. handler'[h].at = "answered"
        <5>1. CASE Becomes(h, "answered", "error")
          BY <3>1, <5>1
        <5>2. CASE handler' = [handler EXCEPT ![h].at = "answered", ![h].answer = "pair",
                                              ![h].token = New(handler[h])]
          BY <1>1, <5>2 DEF Handler
        <5> QED
          BY <3>5, <5>1, <5>2 DEF CreatePair
      <4> QED
        BY <4>1 DEF Past
    <3>6. CASE Answer(h) \/ HandlerCrash(h)
      <4>1. handler'[h] = Free
        BY <1>1, <3>6 DEF Answer, HandlerCrash
      <4> QED
        BY <4>1, FreeHandler DEF Past
    <3> QED
      BY <1>3, <2>2, <3>2, <3>3, <3>4, <3>5, <3>6 DEF HandlerNext
  <2> QED
    BY <2>1, <2>2
<1>4. ASSUME NEW c \in Clients, GiveUp(c)
      PROVE  Fact
  BY <1>1, <1>4 DEF GiveUp, Past, Handler
<1>5. ASSUME NEW c \in Clients, NEW op \in Ops, Send(c, op)
      PROVE  Fact
  <2>1. \/ handler'[h] = handler[h]
        \/ handler'[h] = [op |-> op, at |-> "arrived", client |-> c, user |-> UserOf[c],
                          token |-> client[c].token, answer |-> "none"]
    BY <1>1, <1>5 DEF Send
  <2> QED
    BY <2>1 DEF Past
<1> QED
  BY <1>2, <1>3, <1>4, <1>5 DEF Next

\* Tokens are made, and replaced, by handlers past their checks only.
LEMMA TableFacts ==
  ASSUME IInv, [Next]_vars
  PROVE  /\ revoked \subseteq revoked'
         /\ \/ UNCHANGED <<issued, replaced>>
            \/ \E h \in Handlers :
                 /\ Past(h)
                 /\ issued' = issued \union {New(handler[h])}
                 /\ \/ replaced' = replaced
                    \/ /\ handler[h].op = "refresh"
                       /\ replaced' = replaced \union {handler[h].token}
<1>1. CASE UNCHANGED tables
  BY <1>1 DEF tables
<1>2. ASSUME NEW h \in Handlers, Revoke(h) \/ Logout(h)
      PROVE  revoked \subseteq revoked' /\ UNCHANGED <<issued, replaced>>
  BY <1>2 DEF Revoke, Logout, RevokedBy
<1>3. ASSUME NEW h \in Handlers, CreatePair(h), ~Collides(New(handler[h]))
      PROVE  /\ UNCHANGED revoked
             /\ Past(h)
             /\ issued' = issued \union {New(handler[h])}
             /\ \/ replaced' = replaced
                \/ /\ handler[h].op = "refresh"
                   /\ replaced' = replaced \union {handler[h].token}
  BY <1>3 DEF CreatePair, Past
<1>4. ASSUME NEW h \in Handlers, CreatePair(h), Collides(New(handler[h]))
      PROVE  UNCHANGED tables
  BY <1>4 DEF CreatePair
<1>5. \/ UNCHANGED tables
      \/ \E h \in Handlers : Revoke(h) \/ Logout(h) \/ CreatePair(h)
  BY DEF Next, HandlerNext, Check, Answer, HandlerCrash, GiveUp, Send, Elapse, Deactivate,
         vars, tables
<1> QED
  BY <1>1, <1>2, <1>3, <1>4, <1>5

\* But for a refresh under way, a revoked token is never exchanged.
THEOREM RevocationAlwaysHolds == Spec => RevocationHolds
<1>1. ASSUME IInv, [Next]_vars, NEW t \in revoked, ~Exchanging(t)
      PROVE  ~Exchanging(t)' /\ (t \in replaced' <=> t \in replaced)
  <2>1. ~Exchanging(t)'
    <3>1. ASSUME NEW h \in Handlers, handler'[h].op = "refresh", handler'[h].token = t, Past(h)'
          PROVE  FALSE
      BY <1>1, <3>1, PastFacts DEF Exchanging
    <3> QED
      BY <3>1 DEF Exchanging
  <2>2. \A h \in Handlers : Past(h) /\ handler[h].op = "refresh" => handler[h].token # t
    BY <1>1 DEF Exchanging
  <2>3. t \in replaced' <=> t \in replaced
    BY <1>1, <2>2, TableFacts
  <2> QED
    BY <2>1, <2>3
<1>2. IInv /\ [Next]_vars =>
        [\A t \in revoked :
           /\ t \in revoked'
           /\ ~Exchanging(t) => ~Exchanging(t)' /\ (t \in replaced' <=> t \in replaced)]_vars
  BY <1>1, TableFacts
<1> QED
  BY <1>2, Invariance, PTL DEF Spec, RevocationHolds

\* But for requests under way, no token is made for a user after it was
\* deactivated.
THEOREM DeactivationAlwaysHolds == Spec => DeactivationHolds
<1>1. ASSUME IInv, [Next]_vars, NEW u \in Users \ active, ~UnderWay(u)
      PROVE  ~UnderWay(u)' /\ TokensOf(u)' = TokensOf(u)
  <2>1. ~UnderWay(u)'
    <3>1. ASSUME NEW h \in Handlers, handler'[h].user = u, Past(h)'
          PROVE  FALSE
      BY <1>1, <3>1, PastFacts DEF UnderWay
    <3> QED
      BY <3>1 DEF UnderWay
  <2>2. \A h \in Handlers : Past(h) => New(handler[h]).user # u
    BY <1>1 DEF UnderWay, New
  <2>3. TokensOf(u)' = TokensOf(u)
    BY <1>1, <2>2, TableFacts DEF TokensOf
  <2> QED
    BY <2>1, <2>3
<1>2. IInv /\ [Next]_vars =>
        [\A u \in Users \ active :
           ~UnderWay(u) => ~UnderWay(u)' /\ TokensOf(u)' = TokensOf(u)]_vars
  BY <1>1
<1> QED
  BY <1>2, Invariance, PTL DEF Spec, DeactivationHolds
===============================================================================
