------------------------ MODULE AgentRegistrationProofs ------------------------
(***************************************************************************)
(* Proofs about AgentRegistration, for any enrolments, hosts, names,       *)
(* handlers and bounds.                                                    *)
(***************************************************************************)
EXTENDS AgentRegistration, FaultAccounting, TLAPS

\* Who waits for a handler waits for that one only.
Linked ==
  \A h \in Handlers :
    /\ handler[h].at = "free" => ~handler[h].waited
    /\ handler[h].at # "free" => handler[h].for \in Enrolments
    /\ handler[h].waited =>
         /\ enrol[handler[h].for].at = "sent"
         /\ \A g \in Handlers : handler[g].waited /\ handler[g].for = handler[h].for => g = h

\* Keys come from the sequence.
KeysBelow ==
  /\ \A s \in servers : s.id < serial
  /\ \A a \in agents : a.id < serial

\* A handler knows the server of its host, which is in the table, or is its own
\* and then nobody else's.
ServerFits ==
  \A h \in Handlers :
    /\ handler[h].at = "found" => [id |-> handler[h].server, host |-> Host(h)] \in servers
    /\ handler[h].at = "flushed" =>
         /\ handler[h].server \in Nat
         /\ handler[h].server < serial
         /\ \A s \in servers : s.id # handler[h].server /\ s.host # Host(h)
         /\ \A g \in Handlers \ {h} : handler[g].at = "flushed" =>
              handler[g].server # handler[h].server /\ Host(g) # Host(h)

\* The agent with this key and token is the one that e wants.
Fits(e, id, token) ==
  \E a \in agents, s \in servers :
    /\ a.id = id /\ a.token = token /\ a.name = NameOf[e]
    /\ s.id = a.server /\ s.host = HostOf[e]

Created(h) == handler[h].at = "answered" /\ handler[h].answer = "created"
Enrolled(e) == enrol[e].at = "enrolled"

\* What is on its way and what was delivered are credentials of an agent, and
\* no two of them are of the same one.
CredentialsFit ==
  /\ \A h \in Handlers : Created(h) => Fits(handler[h].for, handler[h].id, handler[h].token)
  /\ \A e \in Enrolments : Enrolled(e) => Fits(e, enrol[e].id, enrol[e].token)
  /\ \A h, g \in Handlers : Created(h) /\ Created(g) /\ handler[h].id = handler[g].id => h = g
  /\ \A e, f \in Enrolments : Enrolled(e) /\ Enrolled(f) /\ enrol[e].id = enrol[f].id => e = f
  /\ \A h \in Handlers, e \in Enrolments : Created(h) /\ Enrolled(e) =>
       handler[h].id # enrol[e].id

IInv ==
  /\ TypeOK
  /\ Linked
  /\ KeysBelow
  /\ ServerFits
  /\ CredentialsFit
  /\ ServersHaveAgents

-----------------------------------------------------------------------------
\* A handler with nothing to do, and an enrolment that was told nothing.
LEMMA RestFacts ==
  /\ Free \in Handler /\ Free.at = "free" /\ Free.waited = FALSE
  /\ Waiting \in Enrolment /\ Waiting.at = "waiting"
BY DEF Free, Handler, Waiting, Enrolment, Key

\* There is nothing to go wrong at the start.
LEMMA InitIInv == Init => IInv
<1> SUFFICES ASSUME Init PROVE IInv
  OBVIOUS
<1>1. /\ \A h \in Handlers : handler[h].at = "free" /\ handler[h].waited = FALSE
      /\ \A e \in Enrolments : enrol[e].at = "waiting"
      /\ servers = {} /\ agents = {}
  BY RestFacts DEF Init
<1>2. TypeOK
  BY <1>1, RestFacts, RegistrationAssumption DEF Init, TypeOK
<1>3. Linked /\ KeysBelow /\ ServerFits /\ ServersHaveAgents
  BY <1>1 DEF Linked, KeysBelow, ServerFits, ServersHaveAgents
<1>4. CredentialsFit
  BY <1>1 DEF CredentialsFit, Created, Enrolled
<1> QED
  BY <1>2, <1>3, <1>4 DEF IInv

\* The tables do not change, handlers end or lose their clients, and
\* enrolments are told of no agent.
LEMMA LessKeeps ==
  ASSUME IInv,
         handler' \in [Handlers -> Handler],
         \A h \in Handlers :
           \/ handler'[h] = Free
           \/ /\ handler'[h].waited = FALSE
              /\ handler'[h].at = handler[h].at /\ handler'[h].for = handler[h].for
              /\ handler'[h].server = handler[h].server /\ handler'[h].id = handler[h].id
              /\ handler'[h].answer = handler[h].answer /\ handler'[h].token = handler[h].token
           \/ /\ handler'[h] = handler[h]
              /\ handler[h].waited => enrol'[handler[h].for] = enrol[handler[h].for],
         enrol' \in [Enrolments -> Enrolment],
         \A e \in Enrolments : enrol'[e].at # "enrolled" \/ enrol'[e] = enrol[e],
         lost' \in 0..MaxLost, crashes' \in 0..MaxCrashes,
         UNCHANGED <<servers, agents, serial>>
  PROVE  IInv'
<1>1. TypeOK'
  BY DEF IInv, TypeOK
<1>2. \A h \in Handlers :
        \/ handler'[h].at = "free" /\ handler'[h].waited = FALSE
        \/ /\ handler'[h].at = handler[h].at /\ handler'[h].for = handler[h].for
           /\ handler'[h].server = handler[h].server /\ handler'[h].id = handler[h].id
           /\ handler'[h].answer = handler[h].answer /\ handler'[h].token = handler[h].token
           /\ handler'[h].waited =>
                handler[h].waited /\ enrol'[handler[h].for] = enrol[handler[h].for]
  BY RestFacts
<1>3. Linked'
  BY <1>2, RestFacts DEF IInv, Linked
<1>4. KeysBelow' /\ ServersHaveAgents'
  BY DEF IInv, KeysBelow, ServersHaveAgents
<1>5. ServerFits'
  BY <1>2 DEF IInv, ServerFits, Host
<1>6. /\ \A h \in Handlers : Created(h)' =>
           /\ Created(h) /\ handler'[h].for = handler[h].for
           /\ handler'[h].id = handler[h].id /\ handler'[h].token = handler[h].token
      /\ \A e \in Enrolments : Enrolled(e)' => Enrolled(e) /\ enrol'[e] = enrol[e]
  BY <1>2 DEF Created, Enrolled
<1>7. CredentialsFit'
  BY <1>6 DEF IInv, CredentialsFit, Fits
<1> QED
  BY <1>1, <1>3, <1>4, <1>5, <1>7 DEF IInv

\* A handler goes on, the tables do not change, and no agent is made.
LEMMA GoesOnKeeps ==
  ASSUME IInv, NEW h \in Handlers, handler[h].at # "free",
         NEW new \in Handler, new.for = handler[h].for, new.waited = handler[h].waited,
         \/ new.at = "missing"
         \/ new.at = "found" /\ [id |-> new.server, host |-> Host(h)] \in servers
         \/ new.at = "answered" /\ new.answer # "created",
         handler' = [handler EXCEPT ![h] = new],
         UNCHANGED <<servers, agents, enrol, serial, lost, crashes>>
  PROVE  IInv'
<1>1. /\ handler' \in [Handlers -> Handler]
      /\ handler'[h] = new
      /\ \A g \in Handlers : /\ g # h => handler'[g] = handler[g]
                             /\ handler'[g].for = handler[g].for
                             /\ handler'[g].waited = handler[g].waited
  BY DEF IInv, TypeOK
<1>2. TypeOK'
  BY <1>1 DEF IInv, TypeOK
<1>3. Linked'
  BY <1>1 DEF IInv, Linked
<1>4. KeysBelow' /\ ServersHaveAgents'
  BY DEF IInv, KeysBelow, ServersHaveAgents
<1>5. ServerFits'
  <2>1. \A g \in Handlers : handler'[g].at = "flushed" => g # h /\ handler[g].at = "flushed"
    BY <1>1
  <2> QED
    BY <1>1, <2>1 DEF IInv, ServerFits, Host
<1>6. \A g \in Handlers : Created(g)' => Created(g) /\ handler'[g] = handler[g]
  BY <1>1 DEF Created
<1>7. \A e \in Enrolments : Enrolled(e)' <=> Enrolled(e)
  BY DEF Enrolled
<1>8. CredentialsFit'
  BY <1>6, <1>7 DEF IInv, CredentialsFit, Fits
<1> QED
  BY <1>2, <1>3, <1>4, <1>5, <1>8 DEF IInv

\* The SELECT of the server.
LEMMA SelectServerKeeps ==
  ASSUME IInv, NEW h \in Handlers, SelectServer(h)
  PROVE  IInv'
<1> DEFINE known == {s \in servers : s.host = Host(h)}
           row == CHOOSE s \in known : TRUE
           missing == [handler[h] EXCEPT !.at = "missing"]
           found == [handler[h] EXCEPT !.at = "found", !.server = row.id]
<1>1. handler[h] \in Handler /\ servers \subseteq Server
  BY DEF IInv, TypeOK
<1>2. handler[h].at = "arrived" /\ UNCHANGED <<servers, agents, enrol, serial, lost, crashes>>
  BY DEF SelectServer
<1>3. CASE known = {}
  <2>1. handler' = [handler EXCEPT ![h] = missing]
    BY <1>3 DEF SelectServer
  <2>2. /\ missing \in Handler /\ missing.at = "missing"
        /\ missing.for = handler[h].for /\ missing.waited = handler[h].waited
    BY <1>1 DEF Handler
  <2> HIDE DEF missing
  <2> QED
    BY <1>2, <2>1, <2>2, GoesOnKeeps
<1>4. CASE known # {}
  <2>1. handler' = [handler EXCEPT ![h] = found]
    BY <1>4 DEF SelectServer
  <2>2. row \in servers /\ row.host = Host(h) /\ row.id \in Key
    <3>1. row \in known
      BY <1>4
    <3> QED
      BY <1>1, <3>1 DEF Server, Key
  <2>3. [id |-> row.id, host |-> Host(h)] \in servers
    BY <1>1, <2>2 DEF Server
  <2> HIDE DEF row
  <2>4. /\ found \in Handler /\ found.at = "found" /\ found.server = row.id
        /\ found.for = handler[h].for /\ found.waited = handler[h].waited
    BY <1>1, <2>2 DEF Handler
  <2> HIDE DEF found
  <2> QED
    BY <1>2, <2>1, <2>3, <2>4, GoesOnKeeps
<1> QED
  BY <1>3, <1>4

\* The INSERT of the server: nobody else has flushed one of this host.
LEMMA FlushServerKeeps ==
  ASSUME IInv, NEW h \in Handlers, FlushServer(h)
  PROVE  IInv'
<1>1. /\ handler \in [Handlers -> Handler] /\ handler[h] \in Handler
      /\ handler[h].at = "missing"
      /\ UNCHANGED <<servers, agents, enrol, lost, crashes>>
  BY DEF FlushServer, Flushed, IInv, TypeOK
<1>2. CASE \E s \in servers : s.host = Host(h)
  <2> DEFINE new == [handler[h] EXCEPT !.at = "answered", !.answer = "error"]
  <2>1. handler' = [handler EXCEPT ![h] = new] /\ serial' = serial
    BY <1>1, <1>2 DEF FlushServer, AnswerOfFlush
  <2>2. /\ new \in Handler /\ new.at = "answered" /\ new.answer = "error"
        /\ new.for = handler[h].for /\ new.waited = handler[h].waited
    BY <1>1 DEF Handler
  <2> HIDE DEF new
  <2> QED
    BY <1>1, <2>1, <2>2, GoesOnKeeps
<1>3. CASE ~ \E s \in servers : s.host = Host(h)
  <2> DEFINE new == [handler[h] EXCEPT !.at = "flushed", !.server = serial]
  <2>1. /\ handler' = [handler EXCEPT ![h] = new]
        /\ serial' = serial + 1
        /\ serial \in Nat
    BY <1>1, <1>3 DEF FlushServer, IInv, TypeOK
  <2>2. /\ new \in Handler /\ new.at = "flushed" /\ new.server = serial
        /\ new.for = handler[h].for /\ new.waited = handler[h].waited
    BY <1>1, <2>1 DEF Handler, Key
  <2> HIDE DEF new
  <2>3. /\ handler' \in [Handlers -> Handler]
        /\ handler'[h] = new
        /\ \A g \in Handlers : /\ g # h => handler'[g] = handler[g]
                               /\ handler'[g].for = handler[g].for
                               /\ handler'[g].waited = handler[g].waited
    BY <1>1, <2>1, <2>2
  <2>4. TypeOK'
    BY <1>1, <2>1, <2>3 DEF IInv, TypeOK
  <2>5. Linked'
    BY <1>1, <2>2, <2>3 DEF IInv, Linked
  <2>6. /\ \A s \in servers : s.id \in Nat /\ s.id < serial
        /\ \A a \in agents : a.id \in Nat /\ a.id < serial
    BY DEF IInv, KeysBelow, TypeOK, Server, Agent
  <2>7. KeysBelow' /\ ServersHaveAgents'
    BY <1>1, <2>1, <2>6 DEF IInv, KeysBelow, ServersHaveAgents
  <2>8. ServerFits'
    <3>1. /\ \A g \in Handlers \ {h} : handler[g].at = "flushed" =>
               /\ handler[g].server \in Nat /\ handler[g].server < serial
               /\ Host(g) # Host(h)
      BY DEF IInv, ServerFits, FlushServer, Blocked
    <3>2. \A g \in Handlers : Host(g)' = Host(g)
      BY <2>3 DEF Host
    <3>3. ASSUME NEW g \in Handlers \ {h}
          PROVE  /\ handler[g].at = "found" =>
                      [id |-> handler[g].server, host |-> Host(g)] \in servers
                 /\ handler[g].at = "flushed" =>
                      /\ handler[g].server \in Nat
                      /\ handler[g].server < serial + 1
                      /\ \A s \in servers : s.id # handler[g].server /\ s.host # Host(g)
                      /\ \A f \in Handlers \ {g} : handler'[f].at = "flushed" =>
                           handler'[f].server # handler[g].server /\ Host(f) # Host(g)
      BY <2>1, <2>2, <2>3, <3>1 DEF IInv, ServerFits
    <3>4. /\ serial < serial + 1
          /\ \A s \in servers : s.id # serial /\ s.host # Host(h)
          /\ \A f \in Handlers \ {h} : handler'[f].at = "flushed" =>
               handler'[f].server # serial /\ Host(f) # Host(h)
      BY <1>3, <2>1, <2>3, <2>6, <3>1
    <3> QED
      BY <1>1, <2>1, <2>2, <2>3, <3>2, <3>3, <3>4 DEF ServerFits
  <2>9. \A g \in Handlers : Created(g)' => Created(g) /\ handler'[g] = handler[g]
    BY <2>2, <2>3 DEF Created
  <2>10. \A e \in Enrolments : Enrolled(e)' <=> Enrolled(e)
    BY <1>1 DEF Enrolled
  <2>11. CredentialsFit'
    BY <1>1, <2>9, <2>10 DEF IInv, CredentialsFit, Fits
  <2> QED
    BY <2>4, <2>5, <2>7, <2>8, <2>11 DEF IInv
<1> QED
  BY <1>2, <1>3

\* The INSERT of the agent with the COMMIT.
LEMMA CommitAgentKeeps ==
  ASSUME IInv, NEW h \in Handlers, CommitAgent(h)
  PROVE  IInv'
<1>1. /\ handler \in [Handlers -> Handler] /\ handler[h] \in Handler
      /\ handler[h].at \in {"found", "flushed"}
      /\ UNCHANGED <<enrol, lost, crashes>>
  BY DEF CommitAgent, IInv, TypeOK
<1>2. CASE Conflict(h)
  <2> DEFINE new == [handler[h] EXCEPT !.at = "answered", !.answer = "conflict"]
  <2>1. handler' = [handler EXCEPT ![h] = new] /\ UNCHANGED <<servers, agents, serial>>
    BY <1>2 DEF CommitAgent
  <2>2. /\ new \in Handler /\ new.at = "answered" /\ new.answer = "conflict"
        /\ new.for = handler[h].for /\ new.waited = handler[h].waited
    BY <1>1 DEF Handler
  <2> HIDE DEF new
  <2> QED
    BY <1>1, <2>1, <2>2, GoesOnKeeps
<1>3. CASE ~Conflict(h)
  <2> DEFINE e == handler[h].for
             s0 == [id |-> handler[h].server, host |-> Host(h)]
             a0 == [id |-> serial, server |-> handler[h].server, name |-> Name(h),
                    token |-> serial]
             new == [handler[h] EXCEPT !.at = "answered", !.answer = "created",
                                       !.id = serial, !.token = serial]
  <2>1. /\ servers' = servers \union {s0} /\ agents' = agents \union {a0}
        /\ handler' = [handler EXCEPT ![h] = new]
        /\ serial' = serial + 1 /\ serial \in Nat
    BY <1>1, <1>3 DEF CommitAgent, IInv, TypeOK
  <2>2. e \in Enrolments /\ Host(h) = HostOf[e] /\ Name(h) = NameOf[e]
    BY <1>1 DEF IInv, Linked, Host, Name
  <2>3. /\ handler[h].server \in Nat
        /\ \/ s0 \in servers
           \/ /\ handler[h].server < serial
              /\ \A s \in servers : s.id # s0.id /\ s.host # s0.host
        /\ \A g \in Handlers \ {h} : handler[g].at = "flushed" =>
             handler[g].server # s0.id /\ Host(g) # s0.host
    <3>1. CASE handler[h].at = "found"
      <4>1. s0 \in servers
        BY <3>1 DEF IInv, ServerFits
      <4>2. s0.id \in Nat
        BY <4>1 DEF IInv, TypeOK, Server
      <4> QED
        BY <4>1, <4>2 DEF IInv, ServerFits
    <3>2. CASE handler[h].at = "flushed"
      BY <3>2 DEF IInv, ServerFits
    <3> QED
      BY <1>1, <3>1, <3>2
  <2>4. /\ s0 \in Server /\ s0.id < serial + 1
        /\ a0 \in Agent /\ a0.id = serial /\ a0.token = serial /\ a0.server = s0.id
        /\ a0.name = NameOf[e] /\ s0.host = HostOf[e]
    <3>1. s0 \in servers => s0.id < serial /\ s0.id \in Nat
      BY DEF IInv, KeysBelow, TypeOK, Server
    <3>2. HostOf[e] \in Hosts /\ NameOf[e] \in Names
      BY <2>2, RegistrationAssumption
    <3> QED
      BY <2>1, <2>2, <2>3, <3>1, <3>2 DEF Server, Agent
  <2>5. /\ new \in Handler /\ new.at = "answered" /\ new.answer = "created"
        /\ new.id = serial /\ new.token = serial
        /\ new.for = e /\ new.waited = handler[h].waited
    BY <1>1, <2>1 DEF Handler, Key
  <2>6. \A a \in agents : a.server # a0.server \/ a.name # a0.name
    BY <1>3, <2>2 DEF Conflict
  <2> HIDE DEF s0, a0, new
  <2>7. /\ handler' \in [Handlers -> Handler]
        /\ handler'[h] = new
        /\ \A g \in Handlers : /\ g # h => handler'[g] = handler[g]
                               /\ handler'[g].for = handler[g].for
                               /\ handler'[g].waited = handler[g].waited
    BY <1>1, <2>1, <2>5
  <2>8. /\ \A a \in agents : a.id \in Nat /\ a.id < serial
        /\ \A s \in servers : s.id \in Nat /\ s.id < serial
    BY DEF IInv, KeysBelow, TypeOK, Agent, Server
  <2>9. TypeOK'
    <3>1. servers' \subseteq Server /\ agents' \subseteq Agent /\ serial' \in Nat
      BY <2>1, <2>4 DEF IInv, TypeOK
    <3>2. \A s, t \in servers' : s.id = t.id \/ s.host = t.host => s = t
      BY <2>1, <2>3 DEF IInv, TypeOK, s0
    <3>3. \A a, b \in agents' :
            a.id = b.id \/ (a.server = b.server /\ a.name = b.name) => a = b
      <4>1. \A a \in agents : a.id # a0.id
        BY <2>1, <2>4, <2>8
      <4> QED
        BY <2>1, <2>6, <4>1 DEF IInv, TypeOK
    <3> QED
      BY <1>1, <2>7, <3>1, <3>2, <3>3 DEF IInv, TypeOK
  <2>10. Linked'
    BY <1>1, <2>5, <2>7 DEF IInv, Linked
  <2>11. KeysBelow'
    BY <2>1, <2>4, <2>8 DEF KeysBelow
  <2>12. ServerFits'
    <3>1. \A g \in Handlers : Host(g)' = Host(g)
      BY <2>7 DEF Host
    <3>2. ASSUME NEW g \in Handlers \ {h}
          PROVE  /\ handler[g].at = "found" =>
                      [id |-> handler[g].server, host |-> Host(g)] \in servers'
                 /\ handler[g].at = "flushed" =>
                      /\ handler[g].server \in Nat
                      /\ handler[g].server < serial'
                      /\ \A s \in servers' : s.id # handler[g].server /\ s.host # Host(g)
                      /\ \A f \in Handlers \ {g} : handler'[f].at = "flushed" =>
                           handler'[f].server # handler[g].server /\ Host(f) # Host(g)
      BY <2>1, <2>3, <2>5, <2>7 DEF IInv, ServerFits
    <3> QED
      BY <2>5, <2>7, <3>1, <3>2 DEF ServerFits
  <2>13. ServersHaveAgents'
    BY <2>1, <2>4 DEF IInv, ServersHaveAgents
  <2>14. ASSUME NEW d \in Enrolments, NEW id, NEW token, Fits(d, id, token)
         PROVE  Fits(d, id, token)' /\ id # serial
    BY <2>1, <2>8, <2>14 DEF Fits
  <2>15. \E a \in agents', s \in servers' :
           /\ a.id = new.id /\ a.token = new.token /\ a.name = NameOf[new.for]
           /\ s.id = a.server /\ s.host = HostOf[new.for]
    <3>1. a0 \in agents' /\ s0 \in servers'
      BY <2>1
    <3> QED
      BY <2>4, <2>5, <3>1
  <2>16. CredentialsFit'
    <3>1. ASSUME NEW g \in Handlers, Created(g)'
          PROVE  \/ g = h /\ handler'[g] = new
                 \/ g # h /\ Created(g) /\ handler'[g] = handler[g] /\ handler[g].id # serial
      <4>1. g # h => Created(g) /\ handler'[g] = handler[g]
        BY <2>7, <3>1 DEF Created
      <4>2. Created(g) => handler[g].for \in Enrolments /\ handler[g].id # serial
        BY <2>14 DEF IInv, CredentialsFit, Linked, Created
      <4> QED
        BY <2>7, <4>1, <4>2
    <3>2. \A d \in Enrolments : Enrolled(d)' <=> Enrolled(d)
      BY <1>1 DEF Enrolled
    <3>3. \A d \in Enrolments : Enrolled(d) => enrol[d].id # serial
      BY <2>14 DEF IInv, CredentialsFit
    <3>4. ASSUME NEW g \in Handlers, Created(g)'
          PROVE  Fits(handler[g].for, handler[g].id, handler[g].token)'
      <4>1. CASE g = h
        BY <2>7, <2>15, <4>1 DEF Fits
      <4>2. CASE g # h
        <5>1. Created(g) /\ handler'[g] = handler[g] /\ handler[g].for \in Enrolments
          BY <3>1, <3>4, <4>2 DEF IInv, Linked, Created
        <5>2. Fits(handler[g].for, handler[g].id, handler[g].token)
          BY <5>1 DEF IInv, CredentialsFit
        <5> QED
          BY <2>1, <5>1, <5>2 DEF Fits
      <4> QED
        BY <4>1, <4>2
    <3>5. ASSUME NEW d \in Enrolments, Enrolled(d)'
          PROVE  Fits(d, enrol[d].id, enrol[d].token)'
      <4>1. Fits(d, enrol[d].id, enrol[d].token) /\ enrol' = enrol
        BY <1>1, <3>2, <3>5 DEF IInv, CredentialsFit
      <4> QED
        BY <2>1, <4>1 DEF Fits
    <3>6. \A g, f \in Handlers : Created(g)' /\ Created(f)' /\ handler'[g].id = handler'[f].id => g = f
      BY <2>5, <3>1 DEF IInv, CredentialsFit
    <3>7. \A g \in Handlers, d \in Enrolments : Created(g)' /\ Enrolled(d)' =>
            handler'[g].id # enrol'[d].id
      BY <1>1, <2>5, <3>1, <3>2, <3>3 DEF IInv, CredentialsFit
    <3>8. \A d, f \in Enrolments :
            Enrolled(d)' /\ Enrolled(f)' /\ enrol'[d].id = enrol'[f].id => d = f
      BY <1>1, <3>2 DEF IInv, CredentialsFit
    <3> QED
      BY <3>4, <3>5, <3>6, <3>7, <3>8 DEF CredentialsFit
  <2> QED
    BY <2>9, <2>10, <2>11, <2>12, <2>13, <2>16 DEF IInv
<1> QED
  BY <1>2, <1>3

\* A request is sent.
LEMMA RegisterKeeps ==
  ASSUME IInv, NEW e \in Enrolments, Register(e)
  PROVE  IInv'
<1> DEFINE request == [Free EXCEPT !.at = "arrived", !.for = e, !.waited = TRUE]
           asking == [enrol[e] EXCEPT !.at = "sent"]
<1>1. PICK h \in Handlers : /\ handler[h].at = "free"
                            /\ handler' = [handler EXCEPT ![h] = request]
                            /\ enrol' = [enrol EXCEPT ![e] = asking]
  BY DEF Register, FreeHandlers
<1>2. UNCHANGED <<servers, agents, serial, lost, crashes>> /\ enrol[e].at = "waiting"
  BY DEF Register
<1>3. /\ request \in Handler /\ request.at = "arrived" /\ request.for = e
      /\ request.waited = TRUE
  BY DEF Free, Handler, Key
<1>4. asking \in Enrolment /\ asking.at = "sent"
  BY DEF IInv, TypeOK, Enrolment
<1> HIDE DEF request, asking
<1>5. /\ handler' \in [Handlers -> Handler]
      /\ handler'[h] = request
      /\ \A g \in Handlers \ {h} : handler'[g] = handler[g]
  BY <1>1, <1>3 DEF IInv, TypeOK
<1>6. /\ enrol' \in [Enrolments -> Enrolment]
      /\ enrol'[e] = asking
      /\ \A d \in Enrolments \ {e} : enrol'[d] = enrol[d]
  BY <1>1, <1>4 DEF IInv, TypeOK
<1>7. \A g \in Handlers : handler[g].waited => handler[g].for \in Enrolments \ {e}
  BY <1>2 DEF IInv, Linked
<1>8. TypeOK'
  BY <1>2, <1>5, <1>6 DEF IInv, TypeOK
<1>9. Linked'
  <2>1. ASSUME NEW g \in Handlers \ {h}
        PROVE  /\ handler[g].at = "free" => ~handler[g].waited
               /\ handler[g].at # "free" => handler[g].for \in Enrolments
               /\ handler[g].waited =>
                    /\ enrol'[handler[g].for].at = "sent"
                    /\ \A f \in Handlers :
                         handler'[f].waited /\ handler'[f].for = handler[g].for => f = g
    BY <1>3, <1>5, <1>6, <1>7 DEF IInv, Linked
  <2>2. \A f \in Handlers : handler'[f].waited /\ handler'[f].for = e => f = h
    BY <1>5, <1>7
  <2> QED
    BY <1>3, <1>4, <1>5, <1>6, <2>1, <2>2 DEF Linked
<1>10. KeysBelow' /\ ServersHaveAgents'
  BY <1>2 DEF IInv, KeysBelow, ServersHaveAgents
<1>11. ServerFits'
  <2>1. \A g \in Handlers : handler'[g].at \in {"found", "flushed"} =>
          g # h /\ handler'[g] = handler[g]
    BY <1>3, <1>5
  <2> QED
    BY <1>2, <2>1 DEF IInv, ServerFits, Host
<1>12. /\ \A g \in Handlers : Created(g)' => Created(g) /\ handler'[g] = handler[g]
       /\ \A d \in Enrolments : Enrolled(d)' => Enrolled(d) /\ enrol'[d] = enrol[d]
  BY <1>3, <1>4, <1>5, <1>6 DEF Created, Enrolled
<1>13. CredentialsFit'
  BY <1>2, <1>12 DEF IInv, CredentialsFit, Fits
<1> QED
  BY <1>8, <1>9, <1>10, <1>11, <1>13 DEF IInv

\* A handler ends, and who waits for it is not told of an agent.
LEMMA EndsKeeps ==
  ASSUME IInv, NEW h \in Handlers, handler[h].at # "free",
         handler' = [handler EXCEPT ![h] = Free],
         NEW left \in Enrolment, left.at # "enrolled",
         enrol' = IF handler[h].waited THEN [enrol EXCEPT ![handler[h].for] = left] ELSE enrol,
         lost' \in 0..MaxLost, crashes' \in 0..MaxCrashes,
         UNCHANGED <<servers, agents, serial>>
  PROVE  IInv'
<1>1. /\ handler' \in [Handlers -> Handler]
      /\ handler'[h] = Free
      /\ \A g \in Handlers \ {h} : handler'[g] = handler[g]
  BY RestFacts DEF IInv, TypeOK
<1>2. /\ enrol' \in [Enrolments -> Enrolment]
      /\ \A d \in Enrolments : enrol'[d].at # "enrolled" \/ enrol'[d] = enrol[d]
      /\ \A d \in Enrolments : (handler[h].waited /\ d = handler[h].for) \/ enrol'[d] = enrol[d]
  BY DEF IInv, TypeOK
<1>3. \A g \in Handlers \ {h} : handler[g].waited =>
        enrol'[handler[g].for] = enrol[handler[g].for]
  BY <1>2 DEF IInv, Linked
<1> QED
  BY <1>1, <1>2, <1>3, LessKeeps

\* The client is told of its agent.
LEMMA DeliveryKeeps ==
  ASSUME IInv, NEW h \in Handlers, Created(h), handler[h].waited,
         handler' = [handler EXCEPT ![h] = Free],
         enrol' = [enrol EXCEPT ![handler[h].for] =
                     [at |-> "enrolled", id |-> handler[h].id, token |-> handler[h].token]],
         UNCHANGED <<servers, agents, serial, lost, crashes>>
  PROVE  IInv'
<1> DEFINE e == handler[h].for
           new == [at |-> "enrolled", id |-> handler[h].id, token |-> handler[h].token]
<1>1. /\ e \in Enrolments
      /\ \A g \in Handlers \ {h} : handler[g].waited => handler[g].for # e
  BY DEF IInv, Linked, Created
<1>2. new \in Enrolment
  BY DEF IInv, TypeOK, Handler, Enrolment
<1>3. /\ new.at = "enrolled" /\ new.id = handler[h].id /\ new.token = handler[h].token
      /\ Fits(e, new.id, new.token)
  BY DEF IInv, CredentialsFit
<1>4. /\ handler' \in [Handlers -> Handler]
      /\ handler'[h] = Free
      /\ \A g \in Handlers \ {h} : handler'[g] = handler[g]
  BY RestFacts DEF IInv, TypeOK
<1> HIDE DEF e, new
<1>5. /\ enrol' \in [Enrolments -> Enrolment]
      /\ enrol'[e] = new
      /\ \A d \in Enrolments \ {e} : enrol'[d] = enrol[d]
  BY <1>1, <1>2 DEF IInv, TypeOK, e, new
<1>6. TypeOK'
  BY <1>4, <1>5 DEF IInv, TypeOK
<1>7. Linked'
  <2>1. ASSUME NEW g \in Handlers \ {h}
        PROVE  /\ handler[g].at = "free" => ~handler[g].waited
               /\ handler[g].at # "free" => handler[g].for \in Enrolments
               /\ handler[g].waited =>
                    /\ enrol'[handler[g].for].at = "sent"
                    /\ \A f \in Handlers :
                         handler'[f].waited /\ handler'[f].for = handler[g].for => f = g
    BY <1>1, <1>4, <1>5, RestFacts DEF IInv, Linked
  <2> QED
    BY <1>4, <2>1, RestFacts DEF Linked
<1>8. KeysBelow' /\ ServersHaveAgents'
  BY DEF IInv, KeysBelow, ServersHaveAgents
<1>9. ServerFits'
  <2>1. \A g \in Handlers : handler'[g].at \in {"found", "flushed"} =>
          g # h /\ handler'[g] = handler[g]
    BY <1>4, RestFacts
  <2> QED
    BY <2>1 DEF IInv, ServerFits, Host
<1>10. /\ \A g \in Handlers : Created(g)' => g # h /\ Created(g) /\ handler'[g] = handler[g]
       /\ \A d \in Enrolments : d # e /\ Enrolled(d)' => Enrolled(d) /\ enrol'[d] = enrol[d]
  BY <1>4, <1>5, RestFacts DEF Created, Enrolled
<1>11. \A d \in Enrolments : Enrolled(d)' => Fits(d, enrol'[d].id, enrol'[d].token)
  BY <1>3, <1>5, <1>10 DEF IInv, CredentialsFit
<1>12. CredentialsFit'
  <2>1. /\ \A g \in Handlers : Created(g)' =>
             Fits(handler'[g].for, handler'[g].id, handler'[g].token)
        /\ \A g, f \in Handlers : Created(g)' /\ Created(f)' /\ handler'[g].id = handler'[f].id => g = f
    BY <1>10 DEF IInv, CredentialsFit
  <2>2. ASSUME NEW d \in Enrolments, NEW f \in Enrolments, Enrolled(d)', Enrolled(f)',
               enrol'[d].id = enrol'[f].id
        PROVE  d = f
    BY <1>3, <1>5, <1>10, <2>2 DEF IInv, CredentialsFit
  <2>3. ASSUME NEW g \in Handlers, NEW d \in Enrolments, Created(g)', Enrolled(d)'
        PROVE  handler'[g].id # enrol'[d].id
    <3>1. g # h /\ Created(g) /\ handler'[g] = handler[g]
      BY <1>10, <2>3
    <3>2. CASE d = e
      BY <1>3, <1>5, <3>1, <3>2 DEF IInv, CredentialsFit
    <3>3. CASE d # e
      BY <1>10, <2>3, <3>1, <3>3 DEF IInv, CredentialsFit
    <3> QED
      BY <3>2, <3>3
  <2> QED
    BY <1>11, <2>1, <2>2, <2>3 DEF CredentialsFit, Fits
<1> QED
  BY <1>6, <1>7, <1>8, <1>9, <1>12 DEF IInv

\* The response.
LEMMA AnswerKeeps ==
  ASSUME IInv, NEW h \in Handlers, Answer(h)
  PROVE  IInv'
<1>1. /\ handler[h].at = "answered"
      /\ handler' = [handler EXCEPT ![h] = Free]
      /\ UNCHANGED <<servers, agents, serial, lost, crashes>>
      /\ lost' \in 0..MaxLost /\ crashes' \in 0..MaxCrashes
  BY DEF Answer, IInv, TypeOK
<1>2. CASE handler[h].waited /\ handler[h].answer = "created"
  BY <1>1, <1>2, DeliveryKeeps DEF Answer, Created
<1>3. CASE ~(handler[h].waited /\ handler[h].answer = "created")
  <2>1. [Waiting EXCEPT !.at = "refused"] \in Enrolment
        /\ [Waiting EXCEPT !.at = "refused"].at = "refused"
    BY DEF Waiting, Enrolment, Key
  <2>2. \E left \in {Waiting, [Waiting EXCEPT !.at = "refused"]} :
          enrol' = IF handler[h].waited THEN [enrol EXCEPT ![handler[h].for] = left] ELSE enrol
    BY <1>3 DEF Answer
  <2>3. PICK left \in Enrolment :
          /\ left.at # "enrolled"
          /\ enrol' = IF handler[h].waited THEN [enrol EXCEPT ![handler[h].for] = left] ELSE enrol
    BY <2>1, <2>2, RestFacts
  <2> QED
    BY <1>1, <2>3, EndsKeeps
<1> QED
  BY <1>2, <1>3

\* The server dies.
LEMMA HandlerCrashKeeps ==
  ASSUME IInv, NEW h \in Handlers, HandlerCrash(h)
  PROVE  IInv'
<1>1. lost' \in 0..MaxLost /\ crashes' \in 0..MaxCrashes
  BY RegistrationAssumption DEF HandlerCrash, IInv, TypeOK
<1> QED
  BY <1>1, RestFacts, EndsKeeps DEF HandlerCrash

\* A client stops waiting.
LEMMA GiveUpKeeps ==
  ASSUME IInv, NEW e \in Enrolments, GiveUp(e)
  PROVE  IInv'
<1>1. /\ handler \in [Handlers -> Handler]
      /\ handler' = [h \in Handlers |-> IF handler[h].for = e
                                          THEN [handler[h] EXCEPT !.waited = FALSE]
                                          ELSE handler[h]]
      /\ enrol' = [enrol EXCEPT ![e] = Waiting]
      /\ UNCHANGED <<servers, agents, serial>>
  BY DEF GiveUp, IInv, TypeOK
<1>2. lost' \in 0..MaxLost /\ crashes' \in 0..MaxCrashes
  BY RegistrationAssumption DEF GiveUp, IInv, TypeOK
<1>3. /\ enrol' \in [Enrolments -> Enrolment]
      /\ \A d \in Enrolments : enrol'[d].at # "enrolled" \/ enrol'[d] = enrol[d]
      /\ \A d \in Enrolments \ {e} : enrol'[d] = enrol[d]
  BY <1>1, RestFacts DEF IInv, TypeOK
<1>4. ASSUME NEW h \in Handlers
      PROVE  /\ handler'[h] \in Handler
             /\ \/ /\ handler'[h].waited = FALSE
                   /\ handler'[h].at = handler[h].at /\ handler'[h].for = handler[h].for
                   /\ handler'[h].server = handler[h].server /\ handler'[h].id = handler[h].id
                   /\ handler'[h].answer = handler[h].answer
                   /\ handler'[h].token = handler[h].token
                \/ handler'[h] = handler[h] /\ handler[h].for # e
  <2>1. handler[h] \in Handler
    BY <1>1
  <2>2. CASE handler[h].for = e
    <3>1. handler'[h] = [handler[h] EXCEPT !.waited = FALSE]
      BY <1>1, <2>2
    <3> QED
      BY <2>1, <3>1 DEF Handler
  <2>3. CASE handler[h].for # e
    BY <1>1, <2>3
  <2> QED
    BY <2>2, <2>3
<1>5. handler' \in [Handlers -> Handler]
  <2>1. handler' = [h \in Handlers |-> handler'[h]]
    BY <1>1
  <2> QED
    BY <1>4, <2>1
<1>6. \A h \in Handlers : handler[h].waited => handler[h].for \in Enrolments
  BY DEF IInv, Linked
<1> HIDE DEF IInv
<1> QED
  BY <1>1, <1>2, <1>3, <1>4, <1>5, <1>6, LessKeeps

-----------------------------------------------------------------------------
\* No step breaks the invariant.
LEMMA NextKeeps ==
  ASSUME IInv, [Next]_vars
  PROVE  IInv'
<1>1. CASE UNCHANGED vars
  BY <1>1 DEF vars, IInv, TypeOK, Linked, KeysBelow, ServerFits, Host, CredentialsFit, Fits,
              Created, Enrolled, ServersHaveAgents
<1>2. ASSUME NEW h \in Handlers, HandlerNext(h) \/ HandlerCrash(h)
      PROVE  IInv'
  BY <1>2, SelectServerKeeps, FlushServerKeeps, CommitAgentKeeps, AnswerKeeps,
     HandlerCrashKeeps DEF HandlerNext
<1>3. ASSUME NEW e \in Enrolments, Register(e) \/ GiveUp(e)
      PROVE  IInv'
  BY <1>3, RegisterKeeps, GiveUpKeeps
<1> QED
  BY <1>1, <1>2, <1>3 DEF Next

\* The inductive invariant holds in every state.
THEOREM Invariance == Spec => []IInv
<1>1. IInv /\ [Next]_vars => IInv'
  BY NextKeeps
<1> QED
  BY InitIInv, <1>1, PTL DEF Spec

\* Every variable keeps its type, and the tables satisfy their constraints.
THEOREM TypeCorrect == Spec => []TypeOK
<1>1. IInv => TypeOK
  BY DEF IInv
<1> QED
  BY <1>1, Invariance, PTL

\* A registration leaves all of its rows or none.
THEOREM ServersAlwaysHaveAgents == Spec => []ServersHaveAgents
<1>1. IInv => ServersHaveAgents
  BY DEF IInv
<1> QED
  BY <1>1, Invariance, PTL

\* Whoever was told of an enrolment can act as that agent, and is the only one.
THEOREM CredentialsAlwaysWork == Spec => []CredentialsWork
<1>1. ASSUME IInv
      PROVE  CredentialsWork
  <2>1. ASSUME NEW e \in Enrolments, enrol[e].at = "enrolled"
        PROVE  /\ Authenticates(enrol[e].id, enrol[e].token)
               /\ \E a \in agents, s \in servers :
                    /\ a.id = enrol[e].id
                    /\ a.name = NameOf[e]
                    /\ s.id = a.server
                    /\ s.host = HostOf[e]
    BY <1>1, <2>1 DEF IInv, CredentialsFit, Enrolled, Fits, Authenticates
  <2>2. ASSUME NEW e \in Enrolments, NEW f \in Enrolments, Same(e, f),
               enrol[e].at = "enrolled", enrol[f].at = "enrolled"
        PROVE  f = e
    <3>1. PICK a \in agents, s \in servers : /\ a.id = enrol[e].id /\ a.name = NameOf[e]
                                             /\ s.id = a.server /\ s.host = HostOf[e]
      BY <2>1, <2>2
    <3>2. PICK b \in agents, t \in servers : /\ b.id = enrol[f].id /\ b.name = NameOf[f]
                                             /\ t.id = b.server /\ t.host = HostOf[f]
      BY <2>1, <2>2
    <3>3. s = t
      BY <1>1, <2>2, <3>1, <3>2 DEF IInv, TypeOK, Same
    <3>4. a = b
      BY <1>1, <2>2, <3>1, <3>2, <3>3 DEF IInv, TypeOK, Same
    <3> QED
      BY <1>1, <2>2, <3>1, <3>2, <3>4 DEF IInv, CredentialsFit, Enrolled
  <2> QED
    BY <2>1, <2>2 DEF CredentialsWork
<1>2. IInv => CredentialsWork
  BY <1>1
<1> QED
  BY <1>2, Invariance, PTL

-----------------------------------------------------------------------------
(* What faults cost.                                                       *)

\* Registrations that nobody waits for any more and that may still make an agent.
Doomed ==
  {h \in Handlers : /\ handler[h].at \in {"arrived", "missing", "found", "flushed"}
                    /\ ~handler[h].waited}

\* Whoever is refused, or about to be, is refused an agent that exists.
RefusalsFit ==
  /\ \A h \in Handlers : handler[h].at = "answered" /\ handler[h].answer = "conflict" =>
       Exists(handler[h].for)
  /\ \A e \in Enrolments : enrol[e].at = "refused" => Exists(e)

\* Each fault has cost an agent, doomed a registration that may cost one, or
\* neither.
CostInv ==
  /\ RefusalsFit
  /\ Balance(Unclaimed, Doomed, lost + crashes)

\* The three ways a step can go: without cost, by a fault, or by the COMMIT of a
\* registration that was given up before.
CostsNothing ==
  /\ Unclaimed' \subseteq Unclaimed
  /\ Doomed' \subseteq Doomed
  /\ lost' + crashes' = lost + crashes

CostsOne ==
  /\ lost' + crashes' = lost + crashes + 1
  /\ \/ \E a : Unclaimed' \subseteq Unclaimed \union {a} /\ Doomed' \subseteq Doomed
     \/ \E h : Unclaimed' \subseteq Unclaimed /\ Doomed' \subseteq Doomed \union {h}

WasPaidFor ==
  /\ lost' + crashes' = lost + crashes
  /\ \E a : \E h \in Doomed : /\ Unclaimed' \subseteq Unclaimed \union {a}
                             /\ Doomed' \subseteq Doomed \ {h}

\* Whichever it is, the account stays balanced.
LEMMA CostsKeep ==
  ASSUME CostInv, TypeOK, CostsNothing \/ CostsOne \/ WasPaidFor
  PROVE  Balance(Unclaimed', Doomed', lost' + crashes')
<1>1. lost + crashes \in Nat /\ Balance(Unclaimed, Doomed, lost + crashes)
  BY RegistrationAssumption DEF CostInv, TypeOK
<1>2. Costs(Unclaimed, Unclaimed', Doomed, Doomed', lost + crashes, lost' + crashes')
  BY DEF CostsNothing, CostsOne, WasPaidFor, Costs
<1> QED
  BY <1>1, <1>2, Balanced

\* An answer that brings a token.
Bringing(h) ==
  handler[h].at = "answered" /\ handler[h].answer = "created" /\ handler[h].waited

\* Whoever has a token keeps it, and an answer that brings it still does or is
\* delivered.
LEMMA ToldStays ==
  ASSUME NEW id, Told(id),
         \A e \in Enrolments : enrol[e].at = "enrolled" => enrol'[e] = enrol[e],
         \A h \in Handlers : Bringing(h) /\ handler[h].id = id =>
           \/ Bringing(h)' /\ handler'[h].id = handler[h].id
           \/ \E e \in Enrolments : enrol'[e].at = "enrolled" /\ enrol'[e].id = handler[h].id
  PROVE  Told(id)'
BY DEF Told, Bringing

\* Without new agents, nothing is lost but the agents whose answer is.
LEMMA UnclaimedFrom ==
  ASSUME IInv, NEW id, UNCHANGED agents,
         \A i : i # id /\ Told(i) => Told(i)'
  PROVE  \E a : Unclaimed' \subseteq Unclaimed \union {a}
<1> DEFINE one == CHOOSE a \in agents : a.id = id
<1>1. \A a \in agents : a.id = id => a = one
  BY DEF IInv, TypeOK
<1> HIDE DEF one
<1>2. Unclaimed' \subseteq Unclaimed \union {one}
  BY <1>1 DEF Unclaimed
<1> QED
  BY <1>2

\* Whoever is told goes on being told.
LEMMA UnclaimedLess ==
  ASSUME UNCHANGED agents, \A i : Told(i) => Told(i)'
  PROVE  Unclaimed' \subseteq Unclaimed
BY DEF Unclaimed

\* The tables only grow, so what exists goes on existing.
LEMMA ExistsStays ==
  ASSUME servers \subseteq servers', agents \subseteq agents', NEW e, Exists(e)
  PROVE  Exists(e)'
BY DEF Exists

\* A handler goes on and makes no agent.
LEMMA GoesOnCosts ==
  ASSUME IInv, NEW h \in Handlers,
         handler[h].at \in {"arrived", "missing", "found", "flushed"},
         handler'[h].for = handler[h].for, handler'[h].waited = handler[h].waited,
         handler'[h].at = "answered" /\ handler'[h].answer = "conflict" =>
           Exists(handler[h].for),
         \A g \in Handlers \ {h} : handler'[g] = handler[g],
         UNCHANGED <<servers, agents, enrol, lost, crashes>>
  PROVE  CostsNothing /\ (RefusalsFit => RefusalsFit')
<1>1. \A g \in Handlers : Bringing(g) => g # h /\ Bringing(g)' /\ handler'[g].id = handler[g].id
  BY DEF Bringing
<1>2. \A id : Told(id) => Told(id)'
  BY <1>1, ToldStays
<1>3. Unclaimed' \subseteq Unclaimed
  BY <1>2, UnclaimedLess
<1>4. Doomed' \subseteq Doomed
  BY DEF Doomed
<1>5. \A e : Exists(e) => Exists(e)'
  BY ExistsStays
<1>6. RefusalsFit => RefusalsFit'
  BY <1>5 DEF RefusalsFit
<1> QED
  BY <1>3, <1>4, <1>6 DEF CostsNothing

\* The SELECT and the INSERT of the server.
LEMMA ServerCosts ==
  ASSUME IInv, NEW h \in Handlers, SelectServer(h) \/ FlushServer(h)
  PROVE  CostsNothing /\ (RefusalsFit => RefusalsFit')
<1>1. /\ handler[h] \in Handler /\ handler[h].at \in {"arrived", "missing"}
      /\ UNCHANGED <<servers, agents, enrol, lost, crashes>>
  BY DEF SelectServer, FlushServer, Flushed, IInv, TypeOK
<1>2. PICK new : /\ handler' = [handler EXCEPT ![h] = new]
                 /\ new.for = handler[h].for /\ new.waited = handler[h].waited
                 /\ new.at = "answered" => new.answer = "error"
  <2>1. CASE SelectServer(h)
    <3>1. PICK server : handler' \in
            {[handler EXCEPT ![h] = [handler[h] EXCEPT !.at = "missing"]],
             [handler EXCEPT ![h] = [handler[h] EXCEPT !.at = "found", !.server = server]]}
      BY <2>1 DEF SelectServer
    <3>2. /\ [handler[h] EXCEPT !.at = "missing"].at = "missing"
          /\ [handler[h] EXCEPT !.at = "missing"].for = handler[h].for
          /\ [handler[h] EXCEPT !.at = "missing"].waited = handler[h].waited
          /\ [handler[h] EXCEPT !.at = "found", !.server = server].at = "found"
          /\ [handler[h] EXCEPT !.at = "found", !.server = server].for = handler[h].for
          /\ [handler[h] EXCEPT !.at = "found", !.server = server].waited = handler[h].waited
      BY <1>1 DEF Handler
    <3> QED
      BY <3>1, <3>2
  <2>2. CASE FlushServer(h)
    <3>1. handler' \in
            {[handler EXCEPT ![h] = [handler[h] EXCEPT !.at = "answered", !.answer = "error"]],
             [handler EXCEPT ![h] = [handler[h] EXCEPT !.at = "flushed", !.server = serial]]}
      BY <1>1, <2>2 DEF FlushServer, AnswerOfFlush
    <3>2. /\ [handler[h] EXCEPT !.at = "answered", !.answer = "error"].answer = "error"
          /\ [handler[h] EXCEPT !.at = "answered", !.answer = "error"].for = handler[h].for
          /\ [handler[h] EXCEPT !.at = "answered", !.answer = "error"].waited = handler[h].waited
          /\ [handler[h] EXCEPT !.at = "flushed", !.server = serial].at = "flushed"
          /\ [handler[h] EXCEPT !.at = "flushed", !.server = serial].for = handler[h].for
          /\ [handler[h] EXCEPT !.at = "flushed", !.server = serial].waited = handler[h].waited
      BY <1>1 DEF Handler
    <3> QED
      BY <3>1, <3>2
  <2> QED
    BY <2>1, <2>2
<1>3. handler'[h] = new /\ \A g \in Handlers \ {h} : handler'[g] = handler[g]
  BY <1>2 DEF IInv, TypeOK
<1> QED
  BY <1>1, <1>2, <1>3, GoesOnCosts

\* The INSERT of the agent with the COMMIT: somebody waits for the token, or the
\* fault that took the client away has been counted.
LEMMA CommitAgentCosts ==
  ASSUME IInv, NEW h \in Handlers, CommitAgent(h)
  PROVE  (CostsNothing \/ WasPaidFor) /\ (RefusalsFit => RefusalsFit')
<1>1. /\ handler \in [Handlers -> Handler] /\ handler[h] \in Handler
      /\ handler[h].at \in {"found", "flushed"}
      /\ UNCHANGED <<enrol, lost, crashes>>
  BY DEF CommitAgent, IInv, TypeOK
<1>2. CASE Conflict(h)
  <2> DEFINE new == [handler[h] EXCEPT !.at = "answered", !.answer = "conflict"]
  <2>1. handler' = [handler EXCEPT ![h] = new] /\ UNCHANGED <<servers, agents>>
    BY <1>2 DEF CommitAgent
  <2>2. new.for = handler[h].for /\ new.waited = handler[h].waited
    BY <1>1 DEF Handler
  <2>3. Exists(handler[h].for)
    <3>1. PICK a \in agents : a.server = handler[h].server /\ a.name = Name(h)
      BY <1>2 DEF Conflict
    <3>2. PICK s \in servers : s.id = a.server
      BY DEF IInv, ServersHaveAgents
    <3>3. handler[h].at = "found"
      BY <1>1, <3>1, <3>2 DEF IInv, ServerFits
    <3>4. [id |-> handler[h].server, host |-> Host(h)] \in servers
      BY <3>3 DEF IInv, ServerFits
    <3> QED
      BY <3>1, <3>4 DEF Exists, Host, Name
  <2>4. handler'[h] = new /\ \A g \in Handlers \ {h} : handler'[g] = handler[g]
    BY <1>1, <2>1
  <2> HIDE DEF new
  <2> QED
    BY <1>1, <2>1, <2>2, <2>3, <2>4, GoesOnCosts
<1>3. CASE ~Conflict(h)
  <2> DEFINE new == [handler[h] EXCEPT !.at = "answered", !.answer = "created",
                                       !.id = serial, !.token = serial]
             a0 == [id |-> serial, server |-> handler[h].server, name |-> Name(h),
                    token |-> serial]
  <2>1. /\ handler' = [handler EXCEPT ![h] = new]
        /\ agents' = agents \union {a0}
        /\ servers \subseteq servers'
    BY <1>3 DEF CommitAgent
  <2>2. /\ new.at = "answered" /\ new.answer = "created" /\ new.id = serial
        /\ new.for = handler[h].for /\ new.waited = handler[h].waited
        /\ a0.id = serial
    BY <1>1 DEF Handler
  <2> HIDE DEF new, a0
  <2>3. handler'[h] = new /\ \A g \in Handlers \ {h} : handler'[g] = handler[g]
    BY <1>1, <2>1
  <2>4. \A g \in Handlers : Bringing(g) => g # h /\ Bringing(g)' /\ handler'[g].id = handler[g].id
    BY <1>1, <2>3 DEF Bringing
  <2>5. \A id : Told(id) => Told(id)'
    BY <1>1, <2>4, ToldStays
  <2>6. Unclaimed' \subseteq Unclaimed \union {a0}
    BY <2>1, <2>5 DEF Unclaimed
  <2>7. Doomed' \subseteq Doomed \ {h}
    BY <2>2, <2>3 DEF Doomed
  <2>8. ASSUME handler[h].waited
        PROVE  CostsNothing
    <3>1. PICK id : id = a0.id
      OBVIOUS
    <3>2. Unclaimed' \subseteq Unclaimed
      <4>1. Told(id)'
        BY <2>2, <2>3, <2>8, <3>1 DEF Told
      <4>2. \A a \in Unclaimed' : a.id # id
        BY <4>1 DEF Unclaimed
      <4> QED
        BY <2>6, <3>1, <4>2
    <3> QED
      BY <1>1, <2>7, <3>2 DEF CostsNothing
  <2>9. ASSUME ~handler[h].waited
        PROVE  WasPaidFor
    <3>1. h \in Doomed
      BY <1>1, <2>9 DEF Doomed
    <3> QED
      BY <1>1, <2>6, <2>7, <3>1 DEF WasPaidFor
  <2>10. \A e : Exists(e) => Exists(e)'
    BY <2>1, ExistsStays
  <2>11. RefusalsFit => RefusalsFit'
    BY <1>1, <2>2, <2>3, <2>10 DEF RefusalsFit
  <2> QED
    BY <2>8, <2>9, <2>11
<1> QED
  BY <1>2, <1>3

\* A request is sent.
LEMMA RegisterCosts ==
  ASSUME IInv, NEW e \in Enrolments, Register(e)
  PROVE  CostsNothing /\ (RefusalsFit => RefusalsFit')
<1> DEFINE request == [Free EXCEPT !.at = "arrived", !.for = e, !.waited = TRUE]
           asking == [enrol[e] EXCEPT !.at = "sent"]
<1>1. PICK h \in Handlers : /\ handler[h].at = "free"
                            /\ handler' = [handler EXCEPT ![h] = request]
                            /\ enrol' = [enrol EXCEPT ![e] = asking]
  BY DEF Register, FreeHandlers
<1>2. UNCHANGED <<servers, agents, lost, crashes>> /\ enrol[e].at = "waiting"
  BY DEF Register
<1>3. request.at = "arrived" /\ request.waited = TRUE
  BY DEF Free
<1>4. asking.at = "sent"
  BY DEF IInv, TypeOK, Enrolment
<1> HIDE DEF request, asking
<1>5. /\ handler'[h] = request
      /\ \A g \in Handlers \ {h} : handler'[g] = handler[g]
      /\ enrol'[e] = asking
      /\ \A d \in Enrolments \ {e} : enrol'[d] = enrol[d]
  BY <1>1 DEF IInv, TypeOK
<1>6. \A g \in Handlers : Bringing(g) => g # h /\ Bringing(g)' /\ handler'[g].id = handler[g].id
  BY <1>1, <1>5 DEF Bringing
<1>7. \A d \in Enrolments : enrol[d].at = "enrolled" => enrol'[d] = enrol[d]
  BY <1>2, <1>5
<1>8. \A id : Told(id) => Told(id)'
  BY <1>6, <1>7, ToldStays
<1>9. Unclaimed' \subseteq Unclaimed
  BY <1>2, <1>8, UnclaimedLess
<1>10. Doomed' \subseteq Doomed
  BY <1>3, <1>5 DEF Doomed
<1>11. \A d : Exists(d) => Exists(d)'
  BY <1>2, ExistsStays
<1>12. RefusalsFit => RefusalsFit'
  BY <1>3, <1>4, <1>5, <1>11 DEF RefusalsFit
<1> QED
  BY <1>2, <1>9, <1>10, <1>12 DEF CostsNothing

\* The response: who waits for it has the token from then on.
LEMMA AnswerCosts ==
  ASSUME IInv, NEW h \in Handlers, Answer(h)
  PROVE  CostsNothing /\ (RefusalsFit => RefusalsFit')
<1>1. /\ handler[h].at = "answered"
      /\ handler' = [handler EXCEPT ![h] = Free]
      /\ UNCHANGED <<servers, agents, lost, crashes>>
      /\ handler \in [Handlers -> Handler] /\ enrol \in [Enrolments -> Enrolment]
  BY DEF Answer, IInv, TypeOK
<1>2. handler'[h] = Free /\ \A g \in Handlers \ {h} : handler'[g] = handler[g]
  BY <1>1
<1>3. PICK e \in Enrolments : e = handler[h].for
  BY <1>1 DEF IInv, Linked
<1>4. \A d \in Enrolments : enrol'[d] = enrol[d] \/ (d = e /\ handler[h].waited)
  BY <1>1, <1>3 DEF Answer
<1>5. \A d \in Enrolments : enrol[d].at = "enrolled" => enrol'[d] = enrol[d]
  BY <1>3, <1>4 DEF IInv, Linked
<1>6. /\ Bringing(h) => enrol'[e].at = "enrolled" /\ enrol'[e].id = handler[h].id
      /\ enrol'[e].at = "refused" =>
           enrol[e].at = "refused" \/ handler[h].answer = "conflict"
  <2>1. CASE ~handler[h].waited
    BY <2>1 DEF Answer, Bringing
  <2>2. CASE handler[h].waited
    <3> DEFINE left ==
          CASE handler[h].answer = "created" ->
                 [at |-> "enrolled", id |-> handler[h].id, token |-> handler[h].token]
            [] handler[h].answer = "conflict" -> [Waiting EXCEPT !.at = "refused"]
            [] OTHER -> Waiting
    <3>1. enrol' = [enrol EXCEPT ![e] = left]
      BY <1>3, <2>2 DEF Answer
    <3>2. /\ handler[h].answer = "created" =>
               left.at = "enrolled" /\ left.id = handler[h].id
          /\ left.at = "refused" => handler[h].answer = "conflict"
      <4>1. CASE handler[h].answer = "created"
        BY <4>1
      <4>2. CASE handler[h].answer = "conflict"
        BY <4>2
      <4>3. CASE handler[h].answer \notin {"created", "conflict"}
        BY <4>3, RestFacts
      <4> QED
        BY <4>1, <4>2, <4>3
    <3> HIDE DEF left
    <3>3. enrol'[e] = left
      BY <1>1, <3>1
    <3> QED
      BY <3>2, <3>3 DEF Bringing
  <2> QED
    BY <2>1, <2>2
<1>7. \A g \in Handlers : Bringing(g) =>
        \/ Bringing(g)' /\ handler'[g].id = handler[g].id
        \/ \E d \in Enrolments : enrol'[d].at = "enrolled" /\ enrol'[d].id = handler[g].id
  BY <1>2, <1>6 DEF Bringing
<1>8. \A id : Told(id) => Told(id)'
  BY <1>5, <1>7, ToldStays
<1>9. Unclaimed' \subseteq Unclaimed
  BY <1>1, <1>8, UnclaimedLess
<1>10. Doomed' \subseteq Doomed
  BY <1>2, RestFacts DEF Doomed
<1>11. \A d : Exists(d) => Exists(d)'
  BY <1>1, ExistsStays
<1>12. RefusalsFit => RefusalsFit'
  BY <1>1, <1>2, <1>3, <1>4, <1>6, <1>11, RestFacts DEF RefusalsFit
<1> QED
  BY <1>1, <1>9, <1>10, <1>12 DEF CostsNothing

\* The server dies: at worst the token of one agent is lost.
LEMMA HandlerCrashCosts ==
  ASSUME IInv, NEW h \in Handlers, HandlerCrash(h)
  PROVE  CostsOne /\ (RefusalsFit => RefusalsFit')
<1>1. /\ handler' = [handler EXCEPT ![h] = Free]
      /\ UNCHANGED <<servers, agents>>
      /\ handler \in [Handlers -> Handler] /\ enrol \in [Enrolments -> Enrolment]
      /\ lost' + crashes' = lost + crashes + 1
  BY RegistrationAssumption DEF HandlerCrash, IInv, TypeOK
<1>2. handler'[h] = Free /\ \A g \in Handlers \ {h} : handler'[g] = handler[g]
  BY <1>1
<1>3. \A d \in Enrolments :
        enrol'[d] = enrol[d] \/ (enrol'[d] = Waiting /\ enrol[d].at = "sent")
  BY <1>1 DEF HandlerCrash, IInv, Linked
<1>4. \A id : id # handler[h].id /\ Told(id) => Told(id)'
  <2>1. \A d \in Enrolments : enrol[d].at = "enrolled" => enrol'[d] = enrol[d]
    BY <1>3
  <2>2. \A g \in Handlers : Bringing(g) /\ handler[g].id # handler[h].id =>
          Bringing(g)' /\ handler'[g].id = handler[g].id
    BY <1>2 DEF Bringing
  <2> QED
    BY <2>1, <2>2, ToldStays
<1>5. \E a : Unclaimed' \subseteq Unclaimed \union {a}
  BY <1>1, <1>4, UnclaimedFrom
<1>6. Doomed' \subseteq Doomed
  BY <1>2, RestFacts DEF Doomed
<1>7. \A d : Exists(d) => Exists(d)'
  BY <1>1, ExistsStays
<1>8. RefusalsFit => RefusalsFit'
  BY <1>2, <1>3, <1>7, RestFacts DEF RefusalsFit
<1> QED
  BY <1>1, <1>5, <1>6, <1>8 DEF CostsOne

\* A client stops waiting: that dooms its registration, or loses the token that
\* was on its way.
LEMMA GiveUpCosts ==
  ASSUME IInv, NEW e \in Enrolments, GiveUp(e)
  PROVE  CostsOne /\ (RefusalsFit => RefusalsFit')
<1>1. /\ handler' = [h \in Handlers |-> IF handler[h].for = e
                                          THEN [handler[h] EXCEPT !.waited = FALSE]
                                          ELSE handler[h]]
      /\ enrol' = [enrol EXCEPT ![e] = Waiting] /\ enrol[e].at = "sent"
      /\ UNCHANGED <<servers, agents>>
      /\ handler \in [Handlers -> Handler] /\ enrol \in [Enrolments -> Enrolment]
      /\ lost' + crashes' = lost + crashes + 1
  BY RegistrationAssumption DEF GiveUp, IInv, TypeOK
<1>2. ASSUME NEW h \in Handlers
      PROVE  /\ handler'[h].at = handler[h].at /\ handler'[h].for = handler[h].for
             /\ handler'[h].answer = handler[h].answer /\ handler'[h].id = handler[h].id
             /\ handler'[h].waited = handler[h].waited \/ handler[h].for = e
  <2>1. handler[h] \in Handler
    BY <1>1
  <2>2. handler'[h] = IF handler[h].for = e
                        THEN [handler[h] EXCEPT !.waited = FALSE] ELSE handler[h]
    BY <1>1
  <2> QED
    BY <2>1, <2>2 DEF Handler
<1>3. \A d \in Enrolments :
        (enrol[d].at = "enrolled" => enrol'[d] = enrol[d])
          /\ (enrol'[d].at = "refused" => enrol[d].at = "refused")
  BY <1>1, RestFacts
<1>4. RefusalsFit => RefusalsFit'
  <2>1. \A d : Exists(d) => Exists(d)'
    BY <1>1, ExistsStays
  <2> QED
    BY <1>2, <1>3, <2>1 DEF RefusalsFit
<1>5. PICK h : \A g \in Handlers \ {h} : ~(handler[g].waited /\ handler[g].for = e)
  BY DEF IInv, Linked
<1>6. /\ \A g \in Handlers \ {h} : Bringing(g) => Bringing(g)' /\ handler'[g].id = handler[g].id
      /\ Doomed' \subseteq Doomed \union {h}
  <2>1. ASSUME NEW g \in Handlers \ {h}
        PROVE  handler[g].waited => handler'[g].waited
    BY <1>2, <1>5
  <2> QED
    BY <1>2, <2>1 DEF Bringing, Doomed
<1>7. CASE h \in Handlers /\ Bringing(h)
  <2>1. \A g \in Handlers : Bringing(g) /\ handler[g].id # handler[h].id =>
          Bringing(g)' /\ handler'[g].id = handler[g].id
    BY <1>6
  <2>2. \A id : id # handler[h].id /\ Told(id) => Told(id)'
    BY <1>3, <2>1, ToldStays
  <2>3. \E a : Unclaimed' \subseteq Unclaimed \union {a}
    BY <1>1, <2>2, UnclaimedFrom
  <2>4. h \notin Doomed'
    BY <1>2, <1>7 DEF Doomed, Bringing
  <2> QED
    BY <1>1, <1>4, <1>6, <2>3, <2>4 DEF CostsOne
<1>8. CASE ~(h \in Handlers /\ Bringing(h))
  <2>1. \A g \in Handlers : Bringing(g) => Bringing(g)' /\ handler'[g].id = handler[g].id
    BY <1>6, <1>8
  <2>2. \A id : Told(id) => Told(id)'
    BY <1>3, <2>1, ToldStays
  <2>3. Unclaimed' \subseteq Unclaimed
    BY <1>1, <2>2, UnclaimedLess
  <2> QED
    BY <1>1, <1>4, <1>6, <2>3 DEF CostsOne
<1> QED
  BY <1>7, <1>8

\* An agent is lost to its host only by a fault, each fault costs one agent at
\* most, and nobody is refused an agent that does not exist.
THEOREM FaultsLockOutAtMostOne == Spec => []FaultsLockOutOneEach
<1>1. Init => CostInv
  <2> SUFFICES ASSUME Init PROVE CostInv
    OBVIOUS
  <2>1. /\ \A h \in Handlers : handler[h].at = "free"
        /\ \A e \in Enrolments : enrol[e].at = "waiting"
        /\ agents = {} /\ lost + crashes = 0
    BY RestFacts DEF Init
  <2>2. RefusalsFit /\ Unclaimed = {} /\ Doomed = {}
    BY <2>1 DEF RefusalsFit, Unclaimed, Doomed
  <2> QED
    BY <2>1, <2>2, FS_EmptySet DEF CostInv, Balance
<1>2. IInv /\ CostInv /\ [Next]_vars => CostInv'
  <2> SUFFICES ASSUME IInv, CostInv, [Next]_vars PROVE CostInv'
    OBVIOUS
  <2>1. ASSUME NEW h \in Handlers, HandlerNext(h) \/ HandlerCrash(h)
        PROVE  (CostsNothing \/ CostsOne \/ WasPaidFor) /\ (RefusalsFit => RefusalsFit')
    BY <2>1, ServerCosts, CommitAgentCosts, AnswerCosts, HandlerCrashCosts DEF HandlerNext
  <2>2. ASSUME NEW e \in Enrolments, Register(e) \/ GiveUp(e)
        PROVE  (CostsNothing \/ CostsOne \/ WasPaidFor) /\ (RefusalsFit => RefusalsFit')
    BY <2>2, RegisterCosts, GiveUpCosts
  <2>3. ASSUME UNCHANGED vars
        PROVE  CostsNothing /\ (RefusalsFit => RefusalsFit')
    BY <2>3 DEF vars, CostsNothing, Unclaimed, Told, Doomed, RefusalsFit, Exists
  <2>4. (CostsNothing \/ CostsOne \/ WasPaidFor) /\ (RefusalsFit => RefusalsFit')
    BY <2>1, <2>2, <2>3 DEF Next
  <2>5. Balance(Unclaimed', Doomed', lost' + crashes')
    BY <2>4, CostsKeep DEF IInv
  <2> QED
    BY <2>4, <2>5 DEF CostInv
<1>3. IInv /\ CostInv => FaultsLockOutOneEach
  <2> SUFFICES ASSUME IInv, CostInv PROVE FaultsLockOutOneEach
    OBVIOUS
  <2>1. Cardinality(Unclaimed) \in Nat /\ Cardinality(Doomed) \in Nat
    BY FS_CardinalityType DEF CostInv, Balance
  <2>2. lost \in Nat /\ crashes \in Nat
    BY RegistrationAssumption DEF IInv, TypeOK
  <2> QED
    BY <2>1, <2>2 DEF CostInv, Balance, RefusalsFit, FaultsLockOutOneEach
<1> QED
  BY <1>1, <1>2, <1>3, Invariance, PTL DEF Spec
================================================================================
