--------------------------- MODULE AgentRegistration ---------------------------
(***************************************************************************)
(* Enrolment of agents: POST /agents/register makes the row of a server,   *)
(* unless its host is known, and the row of an agent, and answers with the *)
(* only copy of the agent's token.                                         *)
(*                                                                         *)
(* A registration is one transaction of three steps that others can tell   *)
(* apart: the SELECT of the server; the INSERT of a new server, flushed    *)
(* and not committed, for which a rival INSERT of the same host waits; and *)
(* the INSERT of the agent with the COMMIT.  A host stands for a pair      *)
(* (installation, hostname).  What the rows say of versions, capabilities, *)
(* operating systems and inventories is left out.                          *)
(***************************************************************************)
EXTENDS Integers, FiniteSets

CONSTANTS
  Enrolments,   \* who wants an agent on a host, and tries until told
  Hosts,
  Names,        \* the column agents.name
  HostOf, NameOf,   \* what an enrolment asks for
  Handlers,     \* requests the server can be handling at one time
  None,
  MaxLost,      \* bound: requests a client gives up on
  MaxCrashes    \* bound: transactions cut off before their commit

ASSUME RegistrationAssumption ==
  /\ HostOf \in [Enrolments -> Hosts]
  /\ NameOf \in [Enrolments -> Names]
  /\ None \notin Nat
  /\ None \notin Enrolments
  /\ MaxLost \in Nat
  /\ MaxCrashes \in Nat

VARIABLES
  servers,   \* the table servers, as committed
  agents,    \* the table agents, as committed
  handler,   \* per handler: the registration it deals with and how far it is
  enrol,     \* per enrolment: what it is doing, and what it was told
  serial,    \* the next primary key or token
  lost,      \* requests given up so far
  crashes    \* transactions cut off so far

vars == <<servers, agents, handler, enrol, serial, lost, crashes>>

Key == Nat \union {None}
Server == [id : Nat, host : Hosts]
Agent == [id : Nat, server : Nat, name : Names, token : Nat]
Handler == [at : {"free", "arrived", "missing", "found", "flushed", "answered"},
            for : Enrolments \union {None}, waited : BOOLEAN, server : Key,
            answer : {"none", "created", "conflict", "error"}, id : Key, token : Key]
Enrolment == [at : {"waiting", "sent", "enrolled", "refused"}, id : Key, token : Key]

Free == [at |-> "free", for |-> None, waited |-> FALSE, server |-> None,
         answer |-> "none", id |-> None, token |-> None]
Waiting == [at |-> "waiting", id |-> None, token |-> None]

Init ==
  /\ servers = {}
  /\ agents = {}
  /\ handler = [h \in Handlers |-> Free]
  /\ enrol = [e \in Enrolments |-> Waiting]
  /\ serial = 1
  /\ lost = 0
  /\ crashes = 0

-----------------------------------------------------------------------------
(* register_agent                                                          *)

Host(h) == HostOf[handler[h].for]
Name(h) == NameOf[handler[h].for]

SelectServer(h) ==
  /\ handler[h].at = "arrived"
  /\ LET known == {s \in servers : s.host = Host(h)}
     IN  handler' = [handler EXCEPT ![h] =
           IF known = {} THEN [@ EXCEPT !.at = "missing"]
           ELSE [@ EXCEPT !.at = "found", !.server = (CHOOSE s \in known : TRUE).id]]
  /\ UNCHANGED <<servers, agents, enrol, serial, lost, crashes>>

\* Another transaction has inserted a server for this host and not ended yet.
Blocked(h) ==
  \E g \in Handlers : g # h /\ handler[g].at = "flushed" /\ Host(g) = Host(h)

\* Mutant: the flush is inside the try block and is answered as a conflict.
AnswerOfFlushCaught == "conflict"

\* The IntegrityError of the flush is caught nowhere: 500.
AnswerOfFlush == "error"

\* Mutant: commit() in the place of flush().
FlushedCommitted(h) == servers \union {[id |-> serial, host |-> Host(h)]}

\* What others see of a flushed server: nothing.
Flushed(h) == servers

FlushServer(h) ==
  /\ handler[h].at = "missing"
  /\ ~Blocked(h)
  /\ IF \E s \in servers : s.host = Host(h)
     THEN /\ handler' = [handler EXCEPT ![h].at = "answered", ![h].answer = AnswerOfFlush]
          /\ UNCHANGED <<servers, serial>>
     ELSE /\ handler' = [handler EXCEPT ![h].at = "flushed", ![h].server = serial]
          /\ servers' = Flushed(h)
          /\ serial' = serial + 1
  /\ UNCHANGED <<agents, enrol, lost, crashes>>

\* Mutant: agents are not unique by name.
ConflictNever(h) == FALSE

\* The SELECT of an existing agent, and the unique constraint for one that was
\* committed after it: both are answered 409, and roll everything back.
Conflict(h) ==
  \E a \in agents : a.server = handler[h].server /\ a.name = Name(h)

CommitAgent(h) ==
  /\ handler[h].at \in {"found", "flushed"}
  /\ IF Conflict(h)
     THEN /\ handler' = [handler EXCEPT ![h].at = "answered", ![h].answer = "conflict"]
          /\ UNCHANGED <<servers, agents, serial>>
     ELSE /\ servers' = servers \union {[id |-> handler[h].server, host |-> Host(h)]}
          /\ agents' = agents \union
               {[id |-> serial, server |-> handler[h].server, name |-> Name(h),
                 token |-> serial]}
          /\ handler' = [handler EXCEPT ![h].at = "answered", ![h].answer = "created",
                                        ![h].id = serial, ![h].token = serial]
          /\ serial' = serial + 1
  /\ UNCHANGED <<enrol, lost, crashes>>

\* get_current_agent: the hash of a token is compared with that of the row.
Authenticates(id, token) == \E a \in agents : a.id = id /\ a.token = token

-----------------------------------------------------------------------------
(* Who enrols, and what may go wrong on the way                            *)

FreeHandlers == {h \in Handlers : handler[h].at = "free"}

Register(e) ==
  /\ enrol[e].at = "waiting"
  /\ FreeHandlers # {}
  /\ handler' = [handler EXCEPT ![CHOOSE h \in FreeHandlers : TRUE] =
       [Free EXCEPT !.at = "arrived", !.for = e, !.waited = TRUE]]
  /\ enrol' = [enrol EXCEPT ![e].at = "sent"]
  /\ UNCHANGED <<servers, agents, serial, lost, crashes>>

\* The response is delivered, if somebody waits for it; a 500 is retried.
Answer(h) ==
  LET r == handler[h]
  IN  /\ r.at = "answered"
      /\ handler' = [handler EXCEPT ![h] = Free]
      /\ enrol' = IF ~r.waited THEN enrol
                  ELSE [enrol EXCEPT ![r.for] =
                    CASE r.answer = "created" ->
                           [at |-> "enrolled", id |-> r.id, token |-> r.token]
                      [] r.answer = "conflict" -> [Waiting EXCEPT !.at = "refused"]
                      [] OTHER -> Waiting]
      /\ UNCHANGED <<servers, agents, serial, lost, crashes>>

\* The client loses its connection, and the registration goes on without it.
\* (A request that never arrived is a HandlerCrash before the SELECT.)
GiveUp(e) ==
  /\ enrol[e].at = "sent"
  /\ lost < MaxLost
  /\ lost' = lost + 1
  /\ handler' = [h \in Handlers |->
       IF handler[h].for = e THEN [handler[h] EXCEPT !.waited = FALSE] ELSE handler[h]]
  /\ enrol' = [enrol EXCEPT ![e] = Waiting]
  /\ UNCHANGED <<servers, agents, serial, crashes>>

\* The server dies: an open transaction is rolled back, a response is lost.
HandlerCrash(h) ==
  /\ handler[h].at # "free"
  /\ crashes < MaxCrashes
  /\ crashes' = crashes + 1
  /\ handler' = [handler EXCEPT ![h] = Free]
  /\ enrol' = IF handler[h].waited
              THEN [enrol EXCEPT ![handler[h].for] = Waiting]
              ELSE enrol
  /\ UNCHANGED <<servers, agents, serial, lost>>

-----------------------------------------------------------------------------
HandlerNext(h) == SelectServer(h) \/ FlushServer(h) \/ CommitAgent(h) \/ Answer(h)

Next ==
  \/ \E h \in Handlers : HandlerNext(h) \/ HandlerCrash(h)
  \/ \E e \in Enrolments : Register(e) \/ GiveUp(e)

Spec == Init /\ [][Next]_vars

\* The server works on the requests it has, and who is not answered tries
\* again.
Fairness ==
  /\ \A h \in Handlers : WF_vars(HandlerNext(h))
  /\ \A e \in Enrolments : WF_vars(Register(e))

FairSpec == Spec /\ Fairness

-----------------------------------------------------------------------------
(* What must hold.                                                         *)

\* Every variable has its type, and the tables satisfy their unique
\* constraints: one server for a host, one agent of a name on a server.
TypeOK ==
  /\ servers \subseteq Server
  /\ agents \subseteq Agent
  /\ handler \in [Handlers -> Handler]
  /\ enrol \in [Enrolments -> Enrolment]
  /\ serial \in Nat
  /\ lost \in 0..MaxLost
  /\ crashes \in 0..MaxCrashes
  /\ \A s, t \in servers : s.id = t.id \/ s.host = t.host => s = t
  /\ \A a, b \in agents :
       a.id = b.id \/ (a.server = b.server /\ a.name = b.name) => a = b

\* A registration leaves all of its rows or none: no server is in the tables
\* without an agent, although it is flushed before the agent is made, and
\* whatever becomes of the request (one commit in register_agent).
ServersHaveAgents ==
  /\ \A s \in servers : \E a \in agents : a.server = s.id
  /\ \A a \in agents : \E s \in servers : s.id = a.server

Same(e, f) == HostOf[e] = HostOf[f] /\ NameOf[e] = NameOf[f]

\* Whoever was told of an enrolment can act as that agent from then on, on the
\* host it asked for, and is the only one: a second registration of the agent
\* neither replaces its token nor makes a second agent.
CredentialsWork ==
  \A e \in Enrolments : enrol[e].at = "enrolled" =>
    /\ Authenticates(enrol[e].id, enrol[e].token)
    /\ \E a \in agents, s \in servers :
         /\ a.id = enrol[e].id
         /\ a.name = NameOf[e]
         /\ s.id = a.server
         /\ s.host = HostOf[e]
    /\ \A f \in Enrolments : f # e /\ Same(e, f) => enrol[f].at # "enrolled"

\* Somebody has the token of an agent, or an answer brings it.
Told(id) ==
  \/ \E e \in Enrolments : enrol[e].at = "enrolled" /\ enrol[e].id = id
  \/ \E h \in Handlers : /\ handler[h].at = "answered" /\ handler[h].answer = "created"
                         /\ handler[h].waited
                         /\ handler[h].id = id

Unclaimed == {a \in agents : ~Told(a.id)}

Exists(e) ==
  \E a \in agents, s \in servers :
    a.server = s.id /\ a.name = NameOf[e] /\ s.host = HostOf[e]

\* An agent is lost to its host only by a fault, and each fault costs one agent
\* at most; nobody is refused an agent that does not exist (the two errors of
\* register_agent, 500 and 409, and what the client does with them).
FaultsLockOutOneEach ==
  /\ Cardinality(Unclaimed) <= lost + crashes
  /\ \A e \in Enrolments : enrol[e].at = "refused" => Exists(e)

Held(e) == \E f \in Enrolments : Same(e, f) /\ enrol[f].at = "enrolled"

\* Unless a request or the server fails, every agent somebody wants ends up
\* with somebody who has its token: registrations that race for a host or an
\* agent do not refuse one another altogether.
EnrolmentEnds == \A e \in Enrolments : <>(Held(e) \/ lost + crashes > 0)

\* "A new Windows agent can be enrolled": the same, although a response is
\* lost and the registration has to be repeated.
CanBeEnrolled == \A e \in Enrolments : <>Held(e)
================================================================================
