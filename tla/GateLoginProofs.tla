-------------------------- MODULE GateLoginProofs --------------------------
(* Proofs about GateLogin: the gate never mixes players up, and a client that *)
(* is logged in is reachable, for any connections, users and bounds.          *)
EXTENDS GateLogin, FiniteSetTheorems, TLAPS

----------------------------------------------------------------------------
(* The inductive invariant.  The center thread applies a result to the      *)
(* agent it found in userMap some steps ago.  It is the right one because   *)
(* only a live connection of the user writes userMap, and a user who is not *)
(* excused has one at a time: once that connection's agent is in userMap,   *)
(* agents of no other connection are found there (OneConnection).           *)

Live(c) == channel[c] \in {"open", "closing"}

\* The agent has been made: registerUserAgent of its login is done.
Made(a) ==
  \/ a.login < logins[a.conn]
  \/ a.login = logins[a.conn] /\ reading[a.conn] # "registerUserAgent"

PlayerOf(a) == playerOf[userOf[a.conn]]

LoginsSent ==
  /\ \A u \in Users : IsFiniteSet(LoginsOf(u))
  /\ \A c \in Conns : /\ logins[c] > 0 => channel[c] # "new"
                      /\ reading[c] # "none" => Live(c) /\ logins[c] > 0

AgentsMade ==
  /\ \A c \in Conns : agent[c] # NULL => agent[c].conn = c
  /\ \A u \in Users : userMap[u] # NULL => userOf[userMap[u].conn] = u /\ Made(userMap[u])
  /\ result # Idle => Made(result.agent)
  /\ \A a \in Agents : valid[a] => Made(a)

ResultsApplied ==
  /\ \A a \in Agents :
       /\ playerId[a] \in {0, PlayerOf(a)}
       /\ valid[a] /\ playerId[a] = 0 => result = [agent |-> a, step |-> "setPlayerId"]
  /\ result.step \in {"setPlayerId", "registerAgent"} => valid[result.agent]

OneLive ==
  \A c, d \in Conns :
    userOf[c] = userOf[d] /\ userOf[c] \notin excused /\ Live(c) /\ Live(d) => c = d

OneConnection ==
  \A a \in Agents : LET c == a.conn  u == userOf[c] IN Live(c) /\ u \notin excused =>
    /\ Made(a) => userMap[u] # NULL /\ userMap[u].conn = c
    /\ valid[a] /\ result # Idle /\ userOf[result.agent.conn] = u => result.agent.conn = c
    /\ valid[a] /\ channel[c] = "open" /\ result.agent # a =>
         agentMap[PlayerOf(a)] # NULL /\ agentMap[PlayerOf(a)].conn = c

GateInv ==
  /\ TypeOK
  /\ LoginsSent
  /\ AgentsMade
  /\ AgentMapIsOwn
  /\ ResultsApplied
  /\ OneLive
  /\ OneConnection

----------------------------------------------------------------------------
(* Agents, players and counts.                                             *)

\* An agent belongs to a connection, its user and the user's player.
LEMMA AgentsAre ==
  /\ \A a \in Agents : /\ a.conn \in Conns /\ a.login \in 1..MaxLogins
                       /\ userOf[a.conn] \in Users
                       /\ PlayerOf(a) \in Players /\ PlayerOf(a) # 0 /\ a # NULL
  /\ \A c \in Conns, n \in 1..MaxLogins :
       /\ [conn |-> c, login |-> n] \in Agents
       /\ [conn |-> c, login |-> n].conn = c /\ [conn |-> c, login |-> n].login = n
  /\ \A a, b \in Agents : a.conn = b.conn /\ a.login = b.login => a = b
  /\ \A u \in Users : playerOf[u] \in Players /\ playerOf[u] # 0
  /\ \A a, b \in Agents : PlayerOf(a) = PlayerOf(b) => userOf[a.conn] = userOf[b.conn]
  /\ NULL \notin Agents
  BY GateAssumption DEF Agents, PlayerOf, Players

\* A step that sends no login keeps the count, if it answers what was asked.
LEMMA KeepsTypes ==
  ASSUME GateInv, UNCHANGED logins,
         \A u \in Users : /\ requests'[u] \in Nat /\ answers'[u] \in Nat
                          /\ requests'[u] + answers'[u] <= requests[u] + answers[u]
  PROVE  \A u \in Users : /\ requests'[u] + answers'[u] <= Cardinality(LoginsOf(u)')
                          /\ IsFiniteSet(LoginsOf(u)')
<1>1. \A u \in Users : LoginsOf(u)' = LoginsOf(u)
  BY DEF LoginsOf
<1>2. \A u \in Users : Cardinality(LoginsOf(u)) \in Nat
  BY FS_CardinalityType DEF GateInv, LoginsSent
<1> SUFFICES ASSUME NEW u \in Users
             PROVE  /\ requests'[u] + answers'[u] <= Cardinality(LoginsOf(u)')
                    /\ IsFiniteSet(LoginsOf(u)')
  OBVIOUS
<1>3. requests[u] + answers[u] <= Cardinality(LoginsOf(u))
  BY DEF GateInv, TypeOK
<1>4. requests[u] \in Nat /\ answers[u] \in Nat
  BY DEF GateInv, TypeOK
<1> QED BY <1>1, <1>2, <1>3, <1>4 DEF GateInv, LoginsSent

\* Initially there are no logins and no agents.
LEMMA InitHolds == Init => GateInv
<1> SUFFICES ASSUME Init PROVE GateInv
  OBVIOUS
<1>1. \A u \in Users : LoginsOf(u) = {}
  BY AgentsAre DEF Init, LoginsOf
<1>2. \A u \in Users : IsFiniteSet(LoginsOf(u)) /\ Cardinality(LoginsOf(u)) = 0
  BY <1>1, FS_EmptySet
<1>3. TypeOK
  BY <1>2, GateAssumption DEF Init, TypeOK
<1>4. LoginsSent
  BY <1>2 DEF Init, LoginsSent
<1>5. AgentsMade /\ OneLive
  BY DEF Init, AgentsMade, OneLive, Live
<1>6. AgentMapIsOwn /\ ResultsApplied
  BY DEF Init, AgentMapIsOwn, ResultsApplied, Idle
<1>7. OneConnection
  BY AgentsAre DEF Init, OneConnection, Live
<1> QED BY <1>3, <1>4, <1>5, <1>6, <1>7 DEF GateInv

----------------------------------------------------------------------------
(* The threads of the client connections.                                  *)

\* A connection comes up; if its user has another, the user is excused.
LEMMA channelActiveKeeps ==
  ASSUME GateInv, NEW c \in Conns, channelActive(c)
  PROVE  GateInv'
<1> DEFINE more == {userOf[d] : d \in {e \in Conns \ {c} : /\ userOf[e] = userOf[c]
                                                          /\ channel[e] \in {"open", "closing"}}}
<1>1. /\ channel[c] = "new"
      /\ channel' = [channel EXCEPT ![c] = "open"]
      /\ excused' = excused \cup more
      /\ UNCHANGED <<reading, logins, agent, valid, playerId, userMap, agentMap, requests,
                     answers, result, centerUp, losses>>
  BY DEF channelActive, Set, Excuse, maps, centerVars
<1>2. \A d \in Conns \ {c} : userOf[d] = userOf[c] /\ Live(d) => userOf[c] \in more
  BY DEF Live
<1>3. more \subseteq Users
  BY GateAssumption
<1> HIDE DEF more
<1>4. TypeOK'
  <2>1. \A u \in Users : requests'[u] + answers'[u] <= Cardinality(LoginsOf(u)')
    BY <1>1, KeepsTypes DEF GateInv, TypeOK
  <2> QED BY <2>1, <1>1, <1>3 DEF GateInv, TypeOK
<1>5. \A d \in Conns \ {c} : channel'[d] = channel[d] /\ (Live(d)' <=> Live(d))
  BY <1>1 DEF GateInv, TypeOK, Live
<1>6. channel'[c] = "open" /\ Live(c)'
  BY <1>1 DEF GateInv, TypeOK, Live
<1>7. LoginsSent'
  <2>1. \A u \in Users : LoginsOf(u)' = LoginsOf(u)
    BY <1>1 DEF LoginsOf
  <2> QED BY <2>1, <1>1, <1>5, <1>6 DEF GateInv, LoginsSent
<1>8. \A a \in Agents : Made(a)' <=> Made(a)
  BY <1>1 DEF Made
<1>9. AgentsMade'
  BY <1>1 DEF GateInv, AgentsMade, Made
<1>10. AgentMapIsOwn' /\ ResultsApplied'
  BY <1>1 DEF GateInv, AgentMapIsOwn, ResultsApplied, PlayerOf
<1>11. OneLive'
  BY <1>1, <1>2, <1>5 DEF GateInv, OneLive
<1>12. \A a \in Agents : a.conn = c => ~Made(a) /\ ~valid[a]
  BY <1>1, AgentsAre DEF GateInv, TypeOK, LoginsSent, AgentsMade, Made
<1>13. OneConnection'
  <2> SUFFICES ASSUME NEW a \in Agents, a.conn # c, Live(a.conn)', userOf[a.conn] \notin excused'
               PROVE  /\ Made(a)' => userMap'[userOf[a.conn]] # NULL
                                     /\ userMap'[userOf[a.conn]].conn = a.conn
                      /\ valid'[a] /\ result' # Idle /\ userOf[result'.agent.conn] = userOf[a.conn]
                           => result'.agent.conn = a.conn
                      /\ valid'[a] /\ channel'[a.conn] = "open" /\ result'.agent # a =>
                           agentMap'[PlayerOf(a)] # NULL /\ agentMap'[PlayerOf(a)].conn = a.conn
    BY <1>1, <1>8, <1>12 DEF OneConnection, PlayerOf
  <2> QED BY <1>1, <1>5, <1>8, AgentsAre DEF GateInv, OneConnection
<1> QED BY <1>4, <1>7, <1>9, <1>10, <1>11, <1>13 DEF GateInv

\* A login is sent: there is one more that may be asked for and answered.
LEMMA channelReadLoginKeeps ==
  ASSUME GateInv, NEW c \in Conns, channelReadLogin(c)
  PROVE  GateInv'
<1> DEFINE u == userOf[c]
<1>0. u \in Users
  BY GateAssumption
<1> HIDE DEF u
<1>1. /\ channel[c] = "open" /\ reading[c] = "none" /\ logins[c] < MaxLogins
      /\ logins' = [logins EXCEPT ![c] = logins[c] + 1]
      /\ requests' = IF centerUp THEN [requests EXCEPT ![u] = requests[u] + 1] ELSE requests
      /\ excused' = excused \cup (IF centerUp THEN {} ELSE {u})
      /\ reading' = [reading EXCEPT ![c] = "registerUserAgent"]
      /\ UNCHANGED <<channel, agent, valid, playerId, userMap, agentMap, answers, result,
                     centerUp, losses>>
  BY DEF channelReadLogin, Set, Excuse, maps, u
<1>2. logins[c] \in Nat /\ MaxLogins \in Nat /\ logins[c] + 1 \in 1..MaxLogins
  BY <1>1, GateAssumption DEF GateInv, TypeOK
<1>3. PICK a \in Agents : a.conn = c /\ a.login = logins[c] + 1
  <2>1. PICK n \in 1..MaxLogins : n = logins[c] + 1
    BY <1>2
  <2>2. PICK a \in Agents : a = [conn |-> c, login |-> n]
    BY AgentsAre
  <2> QED BY <2>1, <2>2
<1>4. /\ \A d \in Conns \ {c} : logins'[d] = logins[d] /\ reading'[d] = reading[d]
      /\ logins'[c] = logins[c] + 1 /\ reading'[c] = "registerUserAgent"
  <2>1. logins \in [Conns -> 0..MaxLogins]
    BY DEF GateInv, TypeOK
  <2>2. reading \in [Conns -> {"none", "registerUserAgent", "setAttribute"}]
    BY DEF GateInv, TypeOK
  <2> QED BY <2>1, <2>2, <1>1
<1>5. /\ LoginsOf(u)' = LoginsOf(u) \cup {a} /\ a \notin LoginsOf(u)
      /\ \A v \in Users \ {u} : LoginsOf(v)' = LoginsOf(v)
  <2>1. \A b \in Agents : b.login <= logins'[b.conn] <=> b.login <= logins[b.conn] \/ b = a
    <3> SUFFICES ASSUME NEW b \in Agents
                 PROVE  b.login <= logins'[b.conn] <=> b.login <= logins[b.conn] \/ b = a
      OBVIOUS
    <3>1. CASE b.conn = c
      <4>1. b.login \in Nat /\ (b.login = logins[c] + 1 => b = a)
        BY <3>1, <1>3, AgentsAre
      <4> QED BY <4>1, <3>1, <1>2, <1>3, <1>4
    <3>2. CASE b.conn # c
      BY <3>2, <1>3, <1>4, AgentsAre
    <3> QED BY <3>1, <3>2
  <2>2. userOf[a.conn] = u /\ ~(a.login <= logins[a.conn])
    BY <1>2, <1>3 DEF u
  <2> QED BY <2>1, <2>2, <1>0 DEF LoginsOf
<1>6. \A v \in Users : /\ IsFiniteSet(LoginsOf(v))
                       /\ Cardinality(LoginsOf(v)) \in Nat
                       /\ requests[v] + answers[v] <= Cardinality(LoginsOf(v))
                       /\ requests[v] \in Nat /\ answers[v] \in Nat
  BY FS_CardinalityType DEF GateInv, LoginsSent, TypeOK
<1>7. /\ IsFiniteSet(LoginsOf(u)')
      /\ Cardinality(LoginsOf(u)') = Cardinality(LoginsOf(u)) + 1
  BY <1>0, <1>5, <1>6, FS_AddElement
<1>8. TypeOK'
  <2>1. requests' \in [Users -> Nat]
    BY <1>0, <1>1, <1>6 DEF GateInv, TypeOK
  <2>2. \A v \in Users : requests'[v] + answers'[v] <= Cardinality(LoginsOf(v)')
    <3>1. requests'[u] \in {requests[u], requests[u] + 1} /\ answers'[u] = answers[u]
      BY <1>0, <1>1 DEF GateInv, TypeOK
    <3>2. requests'[u] + answers'[u] <= Cardinality(LoginsOf(u)')
      BY <3>1, <1>0, <1>6, <1>7
    <3>3. \A v \in Users \ {u} : requests'[v] = requests[v] /\ answers'[v] = answers[v]
      BY <1>1 DEF GateInv, TypeOK
    <3> QED BY <3>2, <3>3, <1>5, <1>6
  <2>3. logins' \in [Conns -> 0..MaxLogins]
    BY <1>1, <1>2 DEF GateInv, TypeOK
  <2> QED BY <2>1, <2>2, <2>3, <1>0, <1>1 DEF GateInv, TypeOK
<1>9. LoginsSent'
  <2>1. \A d \in Conns : Live(d)' <=> Live(d)
    BY <1>1 DEF Live
  <2>2. Live(c)' /\ channel'[c] = "open" /\ logins'[c] > 0
    BY <1>1, <1>2, <1>4 DEF Live
  <2>3. \A v \in Users : IsFiniteSet(LoginsOf(v)')
    BY <1>5, <1>6, <1>7
  <2> QED BY <2>1, <2>2, <2>3, <1>1, <1>4 DEF GateInv, LoginsSent
<1>10. \A b \in Agents : Made(b)' <=> Made(b)
  <2> SUFFICES ASSUME NEW b \in Agents PROVE Made(b)' <=> Made(b)
    OBVIOUS
  <2>1. CASE b.conn = c
    <3>1. Made(b) <=> b.login <= logins[c]
      BY <2>1, <1>1, <1>2, AgentsAre DEF Made
    <3>2. Made(b)' <=> b.login < logins[c] + 1
      BY <2>1, <1>4, <1>2, AgentsAre DEF Made
    <3> QED BY <3>1, <3>2, <1>2, AgentsAre
  <2>2. CASE b.conn # c
    BY <2>2, <1>4, AgentsAre DEF Made
  <2> QED BY <2>1, <2>2
<1>11. AgentsMade'
  <2>1. \A v \in Users : userMap[v] # NULL => userMap[v] \in Agents
    BY DEF GateInv, TypeOK
  <2>2. result # Idle => result.agent \in Agents
    BY DEF GateInv, TypeOK
  <2> QED BY <2>1, <2>2, <1>1, <1>10 DEF GateInv, AgentsMade
<1>12. AgentMapIsOwn' /\ ResultsApplied'
  BY <1>1 DEF GateInv, AgentMapIsOwn, ResultsApplied, PlayerOf
<1>13. OneLive'
  BY <1>1 DEF GateInv, OneLive, Live
<1>14. OneConnection'
  BY <1>1, <1>10 DEF GateInv, OneConnection, Live, PlayerOf
<1> QED BY <1>8, <1>9, <1>11, <1>12, <1>13, <1>14 DEF GateInv

\* The agent of the login replaces that of an earlier one.
LEMMA registerUserAgentKeeps ==
  ASSUME GateInv, NEW c \in Conns, registerUserAgent(c)
  PROVE  GateInv'
<1>1. PICK u \in Users : u = userOf[c]
  BY GateAssumption
<1>2. PICK n \in Agents : n = NewAgent(c) /\ n.conn = c /\ n.login = logins[c]
  <2>1. logins[c] \in 1..MaxLogins
    BY GateAssumption DEF registerUserAgent, GateInv, LoginsSent, TypeOK
  <2>2. NewAgent(c) \in Agents /\ NewAgent(c).conn = c /\ NewAgent(c).login = logins[c]
    BY <2>1 DEF NewAgent, Agents
  <2> QED BY <2>2
<1>3. /\ reading[c] = "registerUserAgent"
      /\ userMap' = [userMap EXCEPT ![u] = n]
      /\ reading' = [reading EXCEPT ![c] = "setAttribute"]
      /\ UNCHANGED <<channel, logins, agent, valid, playerId, agentMap, requests, answers,
                     result, centerUp, losses, excused>>
  BY <1>1, <1>2 DEF registerUserAgent, Set, centerVars
<1>4. TypeOK'
  <2>1. \A v \in Users : requests'[v] + answers'[v] <= Cardinality(LoginsOf(v)')
    BY <1>3, KeepsTypes DEF GateInv, TypeOK
  <2> QED BY <2>1, <1>3 DEF GateInv, TypeOK
<1>5. LoginsSent' /\ Live(c)
  <2>1. \A v \in Users : LoginsOf(v)' = LoginsOf(v)
    BY <1>3 DEF LoginsOf
  <2>2. \A d \in Conns : Live(d)' <=> Live(d)
    BY <1>3 DEF Live
  <2> QED BY <2>1, <2>2, <1>3 DEF GateInv, LoginsSent, TypeOK
<1>6. \A b \in Agents : Made(b)' <=> Made(b) \/ b = n
  <2> SUFFICES ASSUME NEW b \in Agents PROVE Made(b)' <=> Made(b) \/ b = n
    OBVIOUS
  <2>1. reading'[c] = "setAttribute" /\ \A d \in Conns \ {c} : reading'[d] = reading[d]
    BY <1>3 DEF GateInv, TypeOK
  <2>2. b.conn = c /\ b.login = logins[c] <=> b = n
    BY <1>2, AgentsAre
  <2>3. CASE b.conn = c
    BY <2>1, <2>2, <2>3, <1>3, AgentsAre DEF Made
  <2>4. CASE b.conn # c
    BY <2>1, <2>2, <2>4, <1>3, AgentsAre DEF Made
  <2> QED BY <2>3, <2>4
<1>7. AgentsMade'
  <2>1. \A v \in Users : userMap[v] # NULL => userMap[v] \in Agents
    BY DEF GateInv, TypeOK
  <2>2. result # Idle => result.agent \in Agents
    BY DEF GateInv, TypeOK
  <2>3. \A v \in Users : userMap'[v] = IF v = u THEN n ELSE userMap[v]
    BY <1>3 DEF GateInv, TypeOK
  <2> QED BY <2>1, <2>2, <2>3, <1>1, <1>2, <1>3, <1>6 DEF GateInv, AgentsMade
<1>8. AgentMapIsOwn' /\ ResultsApplied' /\ OneLive'
  BY <1>3 DEF GateInv, AgentMapIsOwn, ResultsApplied, PlayerOf, OneLive, Live
<1>9. OneConnection'
  <2> SUFFICES ASSUME NEW a \in Agents, Live(a.conn), userOf[a.conn] \notin excused
               PROVE  /\ Made(a)' => userMap'[userOf[a.conn]] # NULL
                                     /\ userMap'[userOf[a.conn]].conn = a.conn
                      /\ valid[a] /\ result # Idle /\ userOf[result.agent.conn] = userOf[a.conn]
                           => result.agent.conn = a.conn
                      /\ valid[a] /\ channel[a.conn] = "open" /\ result.agent # a =>
                           agentMap[PlayerOf(a)] # NULL /\ agentMap[PlayerOf(a)].conn = a.conn
    BY <1>3 DEF OneConnection, PlayerOf, Live
  <2>1. CASE userOf[a.conn] = u
    <3>1. a.conn = c
      BY <2>1, <1>1, <1>5, AgentsAre DEF GateInv, OneLive
    <3>2. userMap'[u] = n /\ n # NULL
      BY <1>3, AgentsAre DEF GateInv, TypeOK
    <3> QED BY <3>1, <3>2, <2>1, <1>2 DEF GateInv, OneConnection
  <2>2. CASE userOf[a.conn] # u
    <3>1. userMap'[userOf[a.conn]] = userMap[userOf[a.conn]] /\ (Made(a)' <=> Made(a))
      BY <2>2, <1>1, <1>2, <1>3, <1>6, AgentsAre DEF GateInv, TypeOK
    <3> QED BY <3>1 DEF GateInv, OneConnection
  <2> QED BY <2>1, <2>2
<1> QED BY <1>4, <1>5, <1>7, <1>8, <1>9 DEF GateInv

\* The connection's attribute follows.
LEMMA setAttributeKeeps ==
  ASSUME GateInv, NEW c \in Conns, setAttribute(c)
  PROVE  GateInv'
<1>1. PICK n \in Agents : n = NewAgent(c) /\ n.conn = c /\ n.login = logins[c]
  <2>1. logins[c] \in 1..MaxLogins
    BY GateAssumption DEF setAttribute, GateInv, LoginsSent, TypeOK
  <2>2. NewAgent(c) \in Agents /\ NewAgent(c).conn = c /\ NewAgent(c).login = logins[c]
    BY <2>1 DEF NewAgent, Agents
  <2> QED BY <2>2
<1>2. /\ reading[c] = "setAttribute"
      /\ agent' = [agent EXCEPT ![c] = n]
      /\ reading' = [reading EXCEPT ![c] = "none"]
      /\ UNCHANGED <<channel, logins, valid, playerId, userMap, agentMap, requests, answers,
                     result, centerUp, losses, excused>>
  BY <1>1 DEF setAttribute, Set, centerVars, maps
<1>3. TypeOK'
  <2>1. \A v \in Users : requests'[v] + answers'[v] <= Cardinality(LoginsOf(v)')
    BY <1>2, KeepsTypes DEF GateInv, TypeOK
  <2> QED BY <2>1, <1>2 DEF GateInv, TypeOK
<1>4. LoginsSent'
  <2>1. \A v \in Users : LoginsOf(v)' = LoginsOf(v)
    BY <1>2 DEF LoginsOf
  <2>2. \A d \in Conns : Live(d)' <=> Live(d)
    BY <1>2 DEF Live
  <2> QED BY <2>1, <2>2, <1>2 DEF GateInv, LoginsSent, TypeOK
<1>5. \A b \in Agents : Made(b)' <=> Made(b)
  <2>1. \A d \in Conns : reading'[d] = "registerUserAgent" <=> reading[d] = "registerUserAgent"
    BY <1>2 DEF GateInv, TypeOK
  <2> QED BY <2>1, <1>2, AgentsAre DEF Made
<1>6. AgentsMade'
  <2>1. \A v \in Users : userMap[v] # NULL => userMap[v] \in Agents
    BY DEF GateInv, TypeOK
  <2>2. result # Idle => result.agent \in Agents
    BY DEF GateInv, TypeOK
  <2>3. \A d \in Conns : agent'[d] # NULL => agent'[d].conn = d
    BY <1>1, <1>2 DEF GateInv, AgentsMade, TypeOK
  <2> QED BY <2>1, <2>2, <2>3, <1>2, <1>5 DEF GateInv, AgentsMade
<1>7. AgentMapIsOwn' /\ ResultsApplied' /\ OneLive'
  BY <1>2 DEF GateInv, AgentMapIsOwn, ResultsApplied, PlayerOf, OneLive, Live
<1>8. OneConnection'
  BY <1>2, <1>5 DEF GateInv, OneConnection, Live, PlayerOf
<1> QED BY <1>3, <1>4, <1>6, <1>7, <1>8 DEF GateInv

\* A client leaves: its connection is closing.
LEMMA DisconnectKeeps ==
  ASSUME GateInv, NEW c \in Conns, Disconnect(c)
  PROVE  GateInv'
<1>1. /\ channel[c] = "open"
      /\ channel' = [channel EXCEPT ![c] = "closing"]
      /\ UNCHANGED <<reading, logins, agent, valid, playerId, userMap, agentMap, requests,
                     answers, result, centerUp, losses, excused>>
  BY DEF Disconnect, Set, maps, centerVars
<1>2. TypeOK'
  <2>1. \A v \in Users : requests'[v] + answers'[v] <= Cardinality(LoginsOf(v)')
    BY <1>1, KeepsTypes DEF GateInv, TypeOK
  <2> QED BY <2>1, <1>1 DEF GateInv, TypeOK
<1>3. \A d \in Conns : /\ Live(d)' <=> Live(d)
                       /\ channel'[d] = "new" <=> channel[d] = "new"
                       /\ channel'[d] = "open" => channel[d] = "open"
  BY <1>1 DEF Live, GateInv, TypeOK
<1>4. LoginsSent'
  <2>1. \A v \in Users : LoginsOf(v)' = LoginsOf(v)
    BY <1>1 DEF LoginsOf
  <2> QED BY <2>1, <1>1, <1>3 DEF GateInv, LoginsSent
<1>5. AgentsMade' /\ AgentMapIsOwn' /\ ResultsApplied'
  BY <1>1 DEF GateInv, AgentsMade, Made, AgentMapIsOwn, ResultsApplied, PlayerOf
<1>6. OneLive'
  BY <1>1, <1>3 DEF GateInv, OneLive
<1>7. OneConnection'
  BY <1>1, <1>3, AgentsAre DEF GateInv, OneConnection, PlayerOf, Made
<1> QED BY <1>2, <1>4, <1>5, <1>6, <1>7 DEF GateInv

\* A connection ends: its player is taken out of agentMap, and only its own.
LEMMA channelInactiveKeeps ==
  ASSUME GateInv, NEW c \in Conns, channelInactive(c)
  PROVE  GateInv'
<1>1. /\ channel[c] = "closing" /\ reading[c] = "none"
      /\ channel' = [channel EXCEPT ![c] = "closed"]
      /\ agentMap' = IF agent[c] = NULL THEN agentMap
                     ELSE [agentMap EXCEPT ![playerId[agent[c]]] = NULL]
      /\ UNCHANGED <<reading, logins, agent, valid, playerId, userMap, requests, answers,
                     result, centerUp, losses, excused>>
  BY DEF channelInactive, Set, centerVars
<1>2. \A p \in Players \cup {0} : agentMap'[p] = agentMap[p] \/ agentMap'[p] = NULL
  BY <1>1 DEF GateInv, TypeOK
<1>3. \A p \in Players : p # playerOf[userOf[c]] => agentMap'[p] = agentMap[p]
  <2>1. agent[c] # NULL => /\ agent[c] \in Agents /\ agent[c].conn = c
                           /\ playerId[agent[c]] \in {0, playerOf[userOf[c]]}
    BY DEF GateInv, TypeOK, AgentsMade, ResultsApplied, PlayerOf
  <2>2. \A p \in Players : p # 0
    BY AgentsAre DEF Players
  <2> QED BY <2>1, <2>2, <1>1 DEF GateInv, TypeOK
<1>4. TypeOK'
  <2>1. \A v \in Users : requests'[v] + answers'[v] <= Cardinality(LoginsOf(v)')
    BY <1>1, KeepsTypes DEF GateInv, TypeOK
  <2> QED BY <2>1, <1>1 DEF GateInv, TypeOK
<1>5. /\ \A d \in Conns : Live(d)' <=> Live(d) /\ d # c
      /\ \A d \in Conns : channel'[d] = "new" <=> channel[d] = "new"
      /\ \A d \in Conns : channel'[d] = "open" <=> channel[d] = "open"
  BY <1>1 DEF Live, GateInv, TypeOK
<1>6. LoginsSent'
  <2>1. \A v \in Users : LoginsOf(v)' = LoginsOf(v)
    BY <1>1 DEF LoginsOf
  <2> QED BY <2>1, <1>1, <1>5 DEF GateInv, LoginsSent
<1>7. AgentsMade' /\ ResultsApplied'
  BY <1>1 DEF GateInv, AgentsMade, Made, ResultsApplied, PlayerOf
<1>8. AgentMapIsOwn'
  BY <1>1, <1>2 DEF GateInv, AgentMapIsOwn
<1>9. OneLive'
  BY <1>1, <1>5 DEF GateInv, OneLive
<1>10. OneConnection'
  <2> SUFFICES ASSUME NEW a \in Agents, Live(a.conn), a.conn # c, userOf[a.conn] \notin excused
               PROVE  /\ Made(a) => userMap[userOf[a.conn]] # NULL
                                    /\ userMap[userOf[a.conn]].conn = a.conn
                      /\ valid[a] /\ result # Idle /\ userOf[result.agent.conn] = userOf[a.conn]
                           => result.agent.conn = a.conn
                      /\ valid[a] /\ channel[a.conn] = "open" /\ result.agent # a =>
                           agentMap'[PlayerOf(a)] # NULL /\ agentMap'[PlayerOf(a)].conn = a.conn
    BY <1>1, <1>5, AgentsAre DEF OneConnection, PlayerOf, Made
  <2>1. Live(c) /\ userOf[a.conn] # userOf[c]
    BY <1>1, AgentsAre DEF GateInv, OneLive, Live
  <2>2. PlayerOf(a) \in Players /\ PlayerOf(a) # playerOf[userOf[c]]
    BY <2>1, GateAssumption, AgentsAre DEF PlayerOf
  <2> QED BY <2>2, <1>3 DEF GateInv, OneConnection
<1> QED BY <1>4, <1>6, <1>7, <1>8, <1>9, <1>10 DEF GateInv

----------------------------------------------------------------------------
(* The center, and the thread of the connection to it.                     *)

\* A login is answered or turned down: no agent changes.
LEMMA AnswerKeeps ==
  ASSUME GateInv, NEW u \in Users, AnswerLogin(u) \/ TurnDown(u)
  PROVE  GateInv'
<1>1. /\ requests[u] > 0
      /\ requests' = [requests EXCEPT ![u] = requests[u] - 1]
      /\ answers' \in {answers, [answers EXCEPT ![u] = answers[u] + 1]}
      /\ excused' \in {excused, excused \cup {u}}
      /\ UNCHANGED <<channel, reading, logins, agent, valid, playerId, userMap, agentMap,
                     result, centerUp, losses>>
  BY DEF AnswerLogin, TurnDown, Set, Excuse, clientVars, maps
<1>2. \A v \in Users : requests[v] \in Nat /\ answers[v] \in Nat
  BY DEF GateInv, TypeOK
<1>3. requests' \in [Users -> Nat] /\ answers' \in [Users -> Nat]
  <2>1. requests[u] - 1 \in Nat /\ answers[u] + 1 \in Nat
    BY <1>1, <1>2
  <2> QED BY <2>1, <1>1 DEF GateInv, TypeOK
<1>4. \A v \in Users : requests'[v] + answers'[v] <= requests[v] + answers[v]
  <2>1. requests'[u] = requests[u] - 1 /\ answers'[u] \in {answers[u], answers[u] + 1}
    BY <1>1 DEF GateInv, TypeOK
  <2>2. \A v \in Users \ {u} : requests'[v] = requests[v] /\ answers'[v] = answers[v]
    BY <1>1 DEF GateInv, TypeOK
  <2>3. requests'[u] + answers'[u] <= requests[u] + answers[u]
    BY <2>1, <1>2
  <2> QED BY <2>2, <2>3, <1>2
<1>5. \A v \in Users : requests'[v] + answers'[v] <= Cardinality(LoginsOf(v)')
  BY <1>1, <1>3, <1>4, KeepsTypes
<1>6. TypeOK'
  BY <1>1, <1>3, <1>5 DEF GateInv, TypeOK
<1>7. LoginsSent'
  <2>1. \A v \in Users : LoginsOf(v)' = LoginsOf(v)
    BY <1>1 DEF LoginsOf
  <2> QED BY <2>1, <1>1 DEF GateInv, LoginsSent, Live
<1>8. AgentsMade' /\ AgentMapIsOwn' /\ ResultsApplied'
  BY <1>1 DEF GateInv, AgentsMade, Made, AgentMapIsOwn, ResultsApplied, PlayerOf
<1>9. \A v \in Users : v \notin excused' => v \notin excused
  BY <1>1
<1>10. OneLive' /\ OneConnection'
  BY <1>1, <1>9, AgentsAre DEF GateInv, OneLive, OneConnection, Live, Made, PlayerOf
<1> QED BY <1>6, <1>7, <1>8, <1>10 DEF GateInv

\* The agent of a result is found: it is of the user's live connection.
LEMMA getAgentByUserIdKeeps ==
  ASSUME GateInv, NEW u \in Users, getAgentByUserId(u)
  PROVE  GateInv'
<1>1. /\ result = Idle /\ answers[u] > 0
      /\ answers' = [answers EXCEPT ![u] = answers[u] - 1]
      /\ result' = IF userMap[u] = NULL THEN Idle
                   ELSE [agent |-> userMap[u], step |-> "setValid"]
      /\ excused' \in {excused, excused \cup {u}}
      /\ UNCHANGED <<channel, reading, logins, agent, valid, playerId, userMap, agentMap,
                     requests, centerUp, losses>>
  BY DEF getAgentByUserId, Set, Excuse, clientVars, maps
<1>2. \A v \in Users : requests[v] \in Nat /\ answers[v] \in Nat
  BY DEF GateInv, TypeOK
<1>3. answers' \in [Users -> Nat]
  <2>1. answers[u] - 1 \in Nat
    BY <1>1, <1>2
  <2> QED BY <2>1, <1>1 DEF GateInv, TypeOK
<1>4. \A v \in Users : requests'[v] + answers'[v] <= requests[v] + answers[v]
  <2>1. answers'[u] = answers[u] - 1 /\ requests'[u] = requests[u]
    BY <1>1 DEF GateInv, TypeOK
  <2>2. \A v \in Users \ {u} : requests'[v] = requests[v] /\ answers'[v] = answers[v]
    BY <1>1 DEF GateInv, TypeOK
  <2>3. requests'[u] + answers'[u] <= requests[u] + answers[u]
    BY <2>1, <1>2
  <2> QED BY <2>2, <2>3, <1>2
<1>5. \A v \in Users : requests'[v] + answers'[v] <= Cardinality(LoginsOf(v)')
  BY <1>1, <1>2, <1>3, <1>4, KeepsTypes
<1>6. /\ result' # Idle => /\ result'.agent = userMap[u] /\ userMap[u] \in Agents
                           /\ result'.step = "setValid"
                           /\ userOf[userMap[u].conn] = u /\ Made(userMap[u])
      /\ result.agent = NULL /\ result.step = "none"
      /\ result' \in [agent : Agents, step : {"setValid", "setPlayerId", "registerAgent"}]
           \/ result' = Idle
  <2>1. CASE userMap[u] = NULL
    BY <2>1, <1>1 DEF Idle
  <2>2. CASE userMap[u] # NULL
    <3>1. userMap[u] \in Agents /\ userOf[userMap[u].conn] = u /\ Made(userMap[u])
      BY <2>2 DEF GateInv, TypeOK, AgentsMade
    <3> QED BY <3>1, <2>2, <1>1 DEF Idle
  <2> QED BY <2>1, <2>2
<1>7. TypeOK'
  BY <1>1, <1>3, <1>5, <1>6 DEF GateInv, TypeOK
<1>8. LoginsSent'
  <2>1. \A v \in Users : LoginsOf(v)' = LoginsOf(v)
    BY <1>1 DEF LoginsOf
  <2> QED BY <2>1, <1>1 DEF GateInv, LoginsSent, Live
<1>9. AgentsMade' /\ AgentMapIsOwn'
  BY <1>1, <1>6 DEF GateInv, AgentsMade, Made, AgentMapIsOwn
<1>10. ResultsApplied'
  <2>1. \A a \in Agents : ~(valid[a] /\ playerId[a] = 0)
    <3>1. \A a \in Agents : result # [agent |-> a, step |-> "setPlayerId"]
      BY <1>6
    <3> QED BY <3>1 DEF GateInv, ResultsApplied
  <2>2. result'.step \notin {"setPlayerId", "registerAgent"}
    BY <1>1 DEF Idle
  <2> QED BY <2>1, <2>2, <1>1 DEF GateInv, ResultsApplied, PlayerOf
<1>11. \A v \in Users : v \notin excused' => v \notin excused
  BY <1>1
<1>12. OneLive'
  BY <1>1, <1>11, GateAssumption DEF GateInv, OneLive, Live
<1>13. OneConnection'
  <2> SUFFICES ASSUME NEW a \in Agents, Live(a.conn), userOf[a.conn] \notin excused
               PROVE  /\ Made(a) => userMap[userOf[a.conn]] # NULL
                                    /\ userMap[userOf[a.conn]].conn = a.conn
                      /\ valid[a] /\ result' # Idle /\ userOf[result'.agent.conn] = userOf[a.conn]
                           => result'.agent.conn = a.conn
                      /\ valid[a] /\ channel[a.conn] = "open" /\ result'.agent # a =>
                           agentMap[PlayerOf(a)] # NULL /\ agentMap[PlayerOf(a)].conn = a.conn
    BY <1>1, <1>11, AgentsAre DEF OneConnection, PlayerOf, Made, Live
  <2>1. Made(a) => userMap[userOf[a.conn]] # NULL /\ userMap[userOf[a.conn]].conn = a.conn
    BY DEF GateInv, OneConnection
  <2>2. valid[a] => Made(a)
    BY DEF GateInv, AgentsMade
  <2>3. result.agent # a
    BY <1>6, AgentsAre
  <2> QED BY <2>1, <2>2, <2>3, <1>6 DEF GateInv, OneConnection
<1> QED BY <1>7, <1>8, <1>9, <1>10, <1>12, <1>13 DEF GateInv

\* The agent becomes valid; its player id comes next.
LEMMA setValidKeeps ==
  ASSUME GateInv, setValid
  PROVE  GateInv'
<1>1. PICK b \in Agents : b = result.agent /\ Made(b)
  BY DEF setValid, GateInv, TypeOK, AgentsMade, Idle
<1>2. /\ result = [agent |-> b, step |-> "setValid"]
      /\ valid' = [valid EXCEPT ![b] = TRUE]
      /\ result' = [agent |-> b, step |-> "setPlayerId"]
      /\ UNCHANGED <<channel, reading, logins, agent, playerId, userMap, agentMap, requests,
                     answers, centerUp, losses, excused>>
  BY <1>1 DEF setValid, Set, clientVars, GateInv, TypeOK, Idle
<1>3. \A a \in Agents : valid'[a] <=> valid[a] \/ a = b
  BY <1>2 DEF GateInv, TypeOK
<1>4. TypeOK'
  <2>1. \A v \in Users : requests'[v] + answers'[v] <= Cardinality(LoginsOf(v)')
    BY <1>2, KeepsTypes DEF GateInv, TypeOK
  <2> QED BY <2>1, <1>2 DEF GateInv, TypeOK
<1>5. LoginsSent'
  <2>1. \A v \in Users : LoginsOf(v)' = LoginsOf(v)
    BY <1>2 DEF LoginsOf
  <2> QED BY <2>1, <1>2 DEF GateInv, LoginsSent, Live
<1>6. AgentsMade'
  BY <1>1, <1>2, <1>3 DEF GateInv, AgentsMade, Made
<1>7. AgentMapIsOwn'
  BY <1>2, <1>3 DEF GateInv, AgentMapIsOwn, TypeOK
<1>8. ResultsApplied'
  BY <1>2, <1>3 DEF GateInv, ResultsApplied, PlayerOf
<1>9. OneLive'
  BY <1>2 DEF GateInv, OneLive, Live
<1>10. OneConnection'
  <2> SUFFICES ASSUME NEW a \in Agents, Live(a.conn), userOf[a.conn] \notin excused
               PROVE  /\ Made(a) => userMap[userOf[a.conn]] # NULL
                                    /\ userMap[userOf[a.conn]].conn = a.conn
                      /\ valid'[a] /\ userOf[b.conn] = userOf[a.conn] => b.conn = a.conn
                      /\ valid'[a] /\ channel[a.conn] = "open" /\ b # a =>
                           agentMap[PlayerOf(a)] # NULL /\ agentMap[PlayerOf(a)].conn = a.conn
    BY <1>2 DEF OneConnection, PlayerOf, Made, Live
  <2>1. result # Idle /\ result.agent = b
    BY <1>1, <1>2, AgentsAre DEF Idle
  <2> QED BY <2>1, <1>3 DEF GateInv, OneConnection
<1> QED BY <1>4, <1>5, <1>6, <1>7, <1>8, <1>9, <1>10 DEF GateInv

\* The agent gets its player id, never 0.
LEMMA setPlayerIdKeeps ==
  ASSUME GateInv, setPlayerId
  PROVE  GateInv'
<1>1. PICK b \in Agents : b = result.agent /\ Made(b) /\ valid[b]
  BY DEF setPlayerId, GateInv, TypeOK, AgentsMade, ResultsApplied, Idle
<1>2. /\ result = [agent |-> b, step |-> "setPlayerId"]
      /\ playerId' = [playerId EXCEPT ![b] = PlayerOf(b)]
      /\ result' = [agent |-> b, step |-> "registerAgent"]
      /\ UNCHANGED <<channel, reading, logins, agent, valid, userMap, agentMap, requests,
                     answers, centerUp, losses, excused>>
  BY <1>1 DEF setPlayerId, Set, clientVars, GateInv, TypeOK, Idle, PlayerOf
<1>3. \A a \in Agents : playerId'[a] = IF a = b THEN PlayerOf(b) ELSE playerId[a]
  BY <1>2 DEF GateInv, TypeOK
<1>4. TypeOK'
  <2>1. \A v \in Users : requests'[v] + answers'[v] <= Cardinality(LoginsOf(v)')
    BY <1>2, KeepsTypes DEF GateInv, TypeOK
  <2>2. PlayerOf(b) \in Players
    BY AgentsAre
  <2> QED BY <2>1, <2>2, <1>2 DEF GateInv, TypeOK
<1>5. LoginsSent'
  <2>1. \A v \in Users : LoginsOf(v)' = LoginsOf(v)
    BY <1>2 DEF LoginsOf
  <2> QED BY <2>1, <1>2 DEF GateInv, LoginsSent, Live
<1>6. AgentsMade' /\ AgentMapIsOwn'
  BY <1>1, <1>2 DEF GateInv, AgentsMade, Made, AgentMapIsOwn
<1>7. ResultsApplied'
  <2>1. \A a \in Agents : a # b => ~(valid[a] /\ playerId[a] = 0)
    BY <1>2 DEF GateInv, ResultsApplied
  <2> QED BY <2>1, <1>1, <1>2, <1>3, AgentsAre DEF GateInv, ResultsApplied, PlayerOf
<1>8. OneLive' /\ OneConnection'
  <2>1. result.agent = b /\ result'.agent = b /\ result # Idle /\ result' # Idle
    BY <1>2, AgentsAre DEF Idle
  <2> QED BY <2>1, <1>2 DEF GateInv, OneLive, OneConnection, Live, Made, PlayerOf
<1> QED BY <1>4, <1>5, <1>6, <1>7, <1>8 DEF GateInv

\* The agent is put into agentMap, under its own player.
LEMMA registerAgentKeeps ==
  ASSUME GateInv, registerAgent
  PROVE  GateInv'
<1>1. PICK b \in Agents : b = result.agent /\ Made(b) /\ valid[b]
  BY DEF registerAgent, GateInv, TypeOK, AgentsMade, ResultsApplied, Idle
<1>2. /\ result = [agent |-> b, step |-> "registerAgent"]
      /\ agentMap' = [agentMap EXCEPT ![playerId[b]] = b]
      /\ result' = Idle
      /\ UNCHANGED <<channel, reading, logins, agent, valid, playerId, userMap, requests,
                     answers, centerUp, losses, excused>>
  BY <1>1 DEF registerAgent, Set, clientVars, GateInv, TypeOK, Idle
<1>3. playerId[b] = PlayerOf(b) /\ PlayerOf(b) \in Players /\ PlayerOf(b) # 0
  <2>1. playerId[b] # 0
    <3>1. result # [agent |-> b, step |-> "setPlayerId"]
      BY <1>2
    <3> QED BY <3>1, <1>1 DEF GateInv, ResultsApplied
  <2> QED BY <2>1, AgentsAre DEF GateInv, ResultsApplied
<1>4. \A p \in Players \cup {0} : agentMap'[p] = IF p = PlayerOf(b) THEN b ELSE agentMap[p]
  BY <1>2, <1>3 DEF GateInv, TypeOK
<1>5. TypeOK'
  <2>1. \A v \in Users : requests'[v] + answers'[v] <= Cardinality(LoginsOf(v)')
    BY <1>2, KeepsTypes DEF GateInv, TypeOK
  <2> QED BY <2>1, <1>2 DEF GateInv, TypeOK
<1>6. LoginsSent'
  <2>1. \A v \in Users : LoginsOf(v)' = LoginsOf(v)
    BY <1>2 DEF LoginsOf
  <2> QED BY <2>1, <1>2 DEF GateInv, LoginsSent, Live
<1>7. AgentsMade'
  BY <1>2 DEF GateInv, AgentsMade, Made
<1>8. AgentMapIsOwn'
  <2>1. agentMap'[0] = NULL
    BY <1>3, <1>4 DEF GateInv, AgentMapIsOwn
  <2>2. playerOf[userOf[b.conn]] = PlayerOf(b) /\ valid' = valid
    BY <1>2 DEF PlayerOf
  <2>3. ASSUME NEW p \in Players, agentMap'[p] # NULL
        PROVE  playerOf[userOf[agentMap'[p].conn]] = p /\ valid'[agentMap'[p]]
    <3>1. CASE p = PlayerOf(b)
      BY <3>1, <2>2, <1>1, <1>4
    <3>2. CASE p # PlayerOf(b)
      <4>1. agentMap'[p] = agentMap[p]
        BY <3>2, <1>4
      <4> QED BY <4>1, <2>2, <2>3 DEF GateInv, AgentMapIsOwn
    <3> QED BY <3>1, <3>2
  <2> QED BY <2>1, <2>3 DEF AgentMapIsOwn
<1>9. ResultsApplied'
  BY <1>1, <1>2, AgentsAre DEF GateInv, ResultsApplied, PlayerOf, Idle
<1>10. OneLive'
  BY <1>2 DEF GateInv, OneLive, Live
<1>11. OneConnection'
  <2> SUFFICES ASSUME NEW a \in Agents, Live(a.conn), userOf[a.conn] \notin excused
               PROVE  /\ Made(a) => userMap[userOf[a.conn]] # NULL
                                    /\ userMap[userOf[a.conn]].conn = a.conn
                      /\ valid[a] /\ channel[a.conn] = "open" =>
                           agentMap'[PlayerOf(a)] # NULL /\ agentMap'[PlayerOf(a)].conn = a.conn
    BY <1>2 DEF OneConnection, PlayerOf, Made, Live
  <2>1. result # Idle /\ result.agent = b
    BY <1>1, <1>2, AgentsAre DEF Idle
  <2>2. Made(a) => userMap[userOf[a.conn]] # NULL /\ userMap[userOf[a.conn]].conn = a.conn
    BY DEF GateInv, OneConnection
  <2>3. ASSUME valid[a], channel[a.conn] = "open"
        PROVE  agentMap'[PlayerOf(a)] # NULL /\ agentMap'[PlayerOf(a)].conn = a.conn
    <3>1. CASE PlayerOf(a) = PlayerOf(b)
      <4>1. userOf[b.conn] = userOf[a.conn]
        BY <3>1, AgentsAre
      <4>2. b.conn = a.conn
        BY <4>1, <2>1, <2>3 DEF GateInv, OneConnection
      <4> QED BY <4>2, <3>1, <1>3, <1>4, AgentsAre
    <3>2. CASE PlayerOf(a) # PlayerOf(b)
      <4>1. agentMap'[PlayerOf(a)] = agentMap[PlayerOf(a)] /\ a # b
        BY <3>2, <1>4, AgentsAre
      <4> QED BY <4>1, <2>1, <2>3 DEF GateInv, OneConnection
    <3> QED BY <3>1, <3>2
  <2> QED BY <2>2, <2>3
<1> QED BY <1>5, <1>6, <1>7, <1>8, <1>9, <1>10, <1>11 DEF GateInv

\* The connection to the center is lost, and comes back.
LEMMA centerKeeps ==
  ASSUME GateInv, sessionInActive \/ Reconnect
  PROVE  GateInv'
<1>1. /\ channel' \in [Conns -> {"new", "open", "closing", "closed"}]
      /\ \A c \in Conns : channel'[c] = channel[c] \/ (channel[c] = "open" /\ channel'[c] = "closing")
      /\ requests' \in {requests, [u \in Users |-> 0]}
      /\ answers' \in {answers, [u \in Users |-> 0]}
      /\ excused \subseteq excused' /\ excused' \subseteq Users
      /\ centerUp' \in BOOLEAN /\ losses' \in 0..MaxLosses
      /\ UNCHANGED <<reading, logins, agent, valid, playerId, userMap, agentMap, result>>
  <2>1. CASE sessionInActive
    <3>1. losses' \in 0..MaxLosses
      BY <2>1, GateAssumption DEF sessionInActive, GateInv, TypeOK
    <3>2. excused \subseteq excused' /\ excused' \subseteq Users
      BY <2>1 DEF sessionInActive, Excuse, GateInv, TypeOK
    <3>3. requests' \in {requests, [u \in Users |-> 0]}
      BY <2>1 DEF sessionInActive
    <3> QED BY <2>1, <3>1, <3>2, <3>3 DEF sessionInActive, maps, GateInv, TypeOK
  <2>2. CASE Reconnect
    BY <2>2 DEF Reconnect, clientVars, maps, GateInv, TypeOK
  <2> QED BY <2>1, <2>2
<1>2. \A u \in Users : requests[u] \in Nat /\ answers[u] \in Nat
  BY DEF GateInv, TypeOK
<1>3. \A u \in Users : /\ requests'[u] \in {requests[u], 0}
                       /\ answers'[u] \in {answers[u], 0}
  BY <1>1
<1>4. \A v \in Users : requests'[v] + answers'[v] <= Cardinality(LoginsOf(v)')
  <2>1. \A u \in Users : /\ requests'[u] \in Nat /\ answers'[u] \in Nat
                         /\ requests'[u] + answers'[u] <= requests[u] + answers[u]
    BY <1>2, <1>3
  <2> QED BY <2>1, <1>1, KeepsTypes
<1>5. TypeOK'
  <2>1. requests' \in [Users -> Nat] /\ answers' \in [Users -> Nat]
    BY <1>1 DEF GateInv, TypeOK
  <2> QED BY <2>1, <1>1, <1>4 DEF GateInv, TypeOK
<1>6. \A d \in Conns : /\ Live(d)' <=> Live(d)
                       /\ channel'[d] = "new" <=> channel[d] = "new"
                       /\ channel'[d] = "open" => channel[d] = "open"
  BY <1>1 DEF Live
<1>7. LoginsSent'
  <2>1. \A v \in Users : LoginsOf(v)' = LoginsOf(v)
    BY <1>1 DEF LoginsOf
  <2> QED BY <2>1, <1>1, <1>6 DEF GateInv, LoginsSent
<1>8. AgentsMade' /\ AgentMapIsOwn' /\ ResultsApplied'
  BY <1>1 DEF GateInv, AgentsMade, Made, AgentMapIsOwn, ResultsApplied, PlayerOf
<1>9. OneLive'
  BY <1>1, <1>6 DEF GateInv, OneLive
<1>10. OneConnection'
  BY <1>1, <1>6, AgentsAre DEF GateInv, OneConnection, PlayerOf, Made
<1> QED BY <1>5, <1>7, <1>8, <1>9, <1>10 DEF GateInv

\* Every step preserves the invariant.
LEMMA NextKeeps == GateInv /\ [Next]_vars => GateInv'
<1> SUFFICES ASSUME GateInv, [Next]_vars PROVE GateInv'
  OBVIOUS
<1>1. CASE UNCHANGED vars
  <2>1. UNCHANGED <<channel, reading, logins, agent, valid, playerId, userMap, agentMap,
                    requests, answers, result, centerUp, losses, excused>>
    BY <1>1 DEF vars, clientVars, maps, centerVars
  <2>2. \A v \in Users : LoginsOf(v)' = LoginsOf(v)
    BY <2>1 DEF LoginsOf
  <2>3. TypeOK' /\ LoginsSent'
    BY <2>1, <2>2 DEF GateInv, TypeOK, LoginsSent, Live
  <2>4. AgentsMade' /\ AgentMapIsOwn' /\ ResultsApplied'
    BY <2>1 DEF GateInv, AgentsMade, Made, AgentMapIsOwn, ResultsApplied, PlayerOf
  <2>5. OneLive' /\ OneConnection'
    BY <2>1 DEF GateInv, OneLive, OneConnection, Live, Made, PlayerOf
  <2> QED BY <2>3, <2>4, <2>5 DEF GateInv
<1>2. ASSUME NEW c \in Conns, ConnThread(c) PROVE GateInv'
  BY <1>2, registerUserAgentKeeps, setAttributeKeeps, channelInactiveKeeps DEF ConnThread
<1>3. ASSUME NEW c \in Conns, channelActive(c) \/ channelReadLogin(c) \/ Disconnect(c)
      PROVE  GateInv'
  BY <1>3, channelActiveKeeps, channelReadLoginKeeps, DisconnectKeeps
<1>4. CASE CenterThread
  BY <1>4, getAgentByUserIdKeeps, setValidKeeps, setPlayerIdKeeps, registerAgentKeeps
     DEF CenterThread
<1> QED BY <1>1, <1>2, <1>3, <1>4, AnswerKeeps, centerKeeps DEF Next, channelRead

----------------------------------------------------------------------------

\* The invariant holds of every run of the gate.
THEOREM GateInvariant == Spec => []GateInv
  BY InitHolds, NextKeeps, PTL DEF Spec

\* The variables keep their types; nothing is answered that was not asked.
THEOREM GateTypeCorrect == Spec => []TypeOK
<1>1. GateInv => TypeOK
  BY DEF GateInv
<1> QED BY <1>1, GateInvariant, PTL

\* A packet is passed on for the player of its own connection.
THEOREM ForwardsCorrect == Spec => []ForwardsOwnPlayer
<1>1. ASSUME GateInv PROVE ForwardsOwnPlayer
  <2> SUFFICES ASSUME NEW c \in Conns, Forwards(c)
               PROVE  \/ playerId[agent[c]] = playerOf[userOf[c]]
                      \/ playerId[agent[c]] = 0 /\ result.agent = agent[c]
    BY DEF ForwardsOwnPlayer
  <2>1. agent[c] \in Agents /\ agent[c].conn = c /\ valid[agent[c]]
    BY <1>1 DEF Forwards, GateInv, TypeOK, AgentsMade
  <2> QED BY <1>1, <2>1 DEF GateInv, ResultsApplied, PlayerOf
<1> QED BY <1>1, GateInvariant, PTL

\* A message for a player goes to a connection of that player's user.
THEOREM AgentMapCorrect == Spec => []AgentMapIsOwn
<1>1. GateInv => AgentMapIsOwn
  BY DEF GateInv
<1> QED BY <1>1, GateInvariant, PTL

\* A client that is logged in, one connection at a time, gets its messages.
THEOREM LoggedInReached == Spec => []LoggedInIsReachable
<1>1. ASSUME GateInv PROVE LoggedInIsReachable
  <2> SUFFICES ASSUME NEW c \in Conns, channel[c] = "open", userOf[c] \notin excused,
                      agent[c] # NULL, valid[agent[c]], result.agent # agent[c]
               PROVE  /\ agentMap[playerOf[userOf[c]]] # NULL
                      /\ agentMap[playerOf[userOf[c]]].conn = c
    BY DEF LoggedInIsReachable
  <2>1. agent[c] \in Agents /\ agent[c].conn = c /\ Live(c)
    BY <1>1 DEF GateInv, TypeOK, AgentsMade, Live
  <2> QED BY <1>1, <2>1 DEF GateInv, OneConnection, PlayerOf
<1> QED BY <1>1, GateInvariant, PTL
============================================================================
