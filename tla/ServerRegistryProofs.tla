------------------------ MODULE ServerRegistryProofs ------------------------
(* Proofs about ServerRegistry: a registered server is reachable under its id, *)
(* answers find their requests, and what is for a kind of servers reaches one  *)
(* of them, for any servers and any number of losses, crashes and restarts.    *)
EXTENDS ServerRegistry, SequenceTheorems, TLAPS

----------------------------------------------------------------------------
(* The inductive invariant.  Ids stay apart because an id has one owner: the   *)
(* server of its session, though the session may be a dead one.  Whoever says  *)
(* it had an id from this center, or is being told one, owns it (IdsOwned), so *)
(* a registration never takes the session of another.  And a server's requests *)
(* reach the center in order, one register per connection (InOrder), so once   *)
(* it has been told its id no request of its past is left to replace its       *)
(* session (Registration).                                                     *)

\* While the center is down there is nothing of it.
DownIsEmpty ==
  ~centerUp => /\ \A s \in Servers : ~connected[s] /\ toCenter[s] = <<>>
               /\ \A a \in Apps : idGenMap[a] = 1

\* Ids are given from 1 on.
SessionsNumbered == \A a \in Apps : DOMAIN sessionMap[a] = 1..(idGenMap[a] - 1)

IsDeployed(s) == connected[s] \/ connectServerStartTime[s] # 0 => s \in deployed

InOrder(s) ==
  \A i \in DOMAIN toCenter[s] :
    /\ toCenter[s][i].connection.server = s
    /\ toCenter[s][i].connection.number <= connection[s]
    /\ toCenter[s][i].connectServerStartTime <= centerStartTime
    /\ \A j \in DOMAIN toCenter[s] : i < j =>
         /\ toCenter[s][i].connection.number <= toCenter[s][j].connection.number
         /\ toCenter[s][i].connection.number = toCenter[s][j].connection.number
              => ~(toCenter[s][i].kind = "register" /\ toCenter[s][j].kind = "register")

\* What is under way on a connection that is alive has its callback.
Called(s, m) == m.seqId \in DOMAIN nodeMap[s] /\ nodeMap[s][m.seqId] = m.kind
RequestsCalled(s) ==
  \A i \in DOMAIN toCenter[s] :
    connected[s] /\ toCenter[s][i].connection.number = connection[s]
      => Called(s, toCenter[s][i])
AnswersCalled(s) == \A i \in DOMAIN toServer[s] : Called(s, toServer[s][i])

Owns(s, id) == id \in DOMAIN sessionMap[App(s)] /\ sessionMap[App(s)][id].server = s
IdsOwned(s) ==
  centerUp =>
    /\ connectServerStartTime[s] = centerStartTime => Owns(s, appDynamicId[s])
    /\ \A i \in DOMAIN toCenter[s] : toCenter[s][i].kind = "register" /\ Known(toCenter[s][i])
         => Owns(s, toCenter[s][i].appDynamicId)
    /\ \A i \in DOMAIN toServer[s] : toServer[s][i].kind = "register"
         => Owns(s, toServer[s][i].appDynamicId)

\* A connection's registration: still to be sent, asked for, answered, received.
NoneAsked(s) == \A i \in DOMAIN toCenter[s] : toCenter[s][i].kind = "dispatch"
Asks(s, m) ==
  /\ m.kind = "register"
  /\ m.connection.number = connection[s]
  /\ m.appDynamicId = appDynamicId[s]
  /\ m.connectServerStartTime = connectServerStartTime[s]
NoneTold(s) == \A i \in DOMAIN toServer[s] : toServer[s][i].kind = "dispatch"
Connecting(s) ==
  /\ s \in registering
  /\ NoneTold(s)
  /\ \A i \in DOMAIN toCenter[s] :
       toCenter[s][i].connection.number = connection[s] => toCenter[s][i].kind = "dispatch"
Asking(s) ==
  /\ s \notin registering
  /\ NoneTold(s)
  /\ \E i \in DOMAIN toCenter[s] : Asks(s, toCenter[s][i])
Tells(s, m) ==
  /\ m.kind = "register"
  /\ m.centerStartTime = centerStartTime
  /\ sessionMap[App(s)][m.appDynamicId] = Current(s)
  /\ connectServerStartTime[s] = centerStartTime => appDynamicId[s] = m.appDynamicId
Told(s) ==
  /\ s \notin registering
  /\ NoneAsked(s)
  /\ \E k \in DOMAIN toServer[s] :
       /\ Tells(s, toServer[s][k])
       /\ \A i \in DOMAIN toServer[s] : i # k => toServer[s][i].kind = "dispatch"
Registered(s) ==
  /\ s \notin registering
  /\ NoneAsked(s)
  /\ NoneTold(s)
  /\ connectServerStartTime[s] = centerStartTime
  /\ sessionMap[App(s)][appDynamicId[s]] = Current(s)
Registration(s) == connected[s] => Connecting(s) \/ Asking(s) \/ Told(s) \/ Registered(s)

\* While no id of the kind is forgotten, every id is known to its server, or on
\* its way there; and a request that names an id of this center names the
\* server's own.
Holds(s, id) ==
  \/ connectServerStartTime[s] = centerStartTime /\ appDynamicId[s] = id
  \/ \E i \in DOMAIN toServer[s] :
       toServer[s][i].kind = "register" /\ toServer[s][i].appDynamicId = id
Remembered(s) ==
  centerUp /\ App(s) \notin forgotten =>
    /\ \A id \in DOMAIN sessionMap[App(s)] : Owns(s, id) => Holds(s, id)
    /\ \A i \in DOMAIN toCenter[s] : toCenter[s][i].kind = "register" /\ Known(toCenter[s][i])
         => /\ connectServerStartTime[s] = centerStartTime
            /\ appDynamicId[s] = toCenter[s][i].appDynamicId

ServerInv(s) ==
  /\ IsDeployed(s)
  /\ InOrder(s)
  /\ RequestsCalled(s)
  /\ AnswersCalled(s)
  /\ IdsOwned(s)
  /\ Registration(s)
  /\ Remembered(s)

RegistryInv ==
  /\ TypeOK
  /\ DownIsEmpty
  /\ SessionsNumbered
  /\ \A s \in Servers : ServerInv(s)

----------------------------------------------------------------------------
(* Lists of packets, and servers a step leaves alone.                          *)

\* What Append, Tail and a prefix of a list hold, position by position.
LEMMA AppendElements ==
  ASSUME NEW S, NEW s \in Seq(S), NEW m \in S
  PROVE  /\ Append(s, m) \in Seq(S)
         /\ \A i \in DOMAIN s : i \in DOMAIN Append(s, m) /\ Append(s, m)[i] = s[i] /\ i < Len(s) + 1
         /\ Len(s) + 1 \in DOMAIN Append(s, m) /\ Append(s, m)[Len(s) + 1] = m
         /\ \A i \in DOMAIN Append(s, m) : i \in DOMAIN s \/ i = Len(s) + 1
         /\ DOMAIN s \subseteq Nat
  OBVIOUS

\* Tail moves everything up by one.
LEMMA TailElements ==
  ASSUME NEW S, NEW s \in Seq(S), s # <<>>
  PROVE  /\ 1 \in DOMAIN s /\ Head(s) = s[1] /\ Tail(s) \in Seq(S)
         /\ \A i \in DOMAIN Tail(s) : i + 1 \in DOMAIN s /\ Tail(s)[i] = s[i + 1] /\ i \in Nat \ {0}
         /\ \A i \in DOMAIN s : i # 1 => i - 1 \in DOMAIN Tail(s) /\ Tail(s)[i - 1] = s[i]
         /\ DOMAIN s \subseteq Nat \ {0}
  OBVIOUS

\* A prefix keeps its positions.
LEMMA PrefixElements ==
  ASSUME NEW S, NEW s \in Seq(S), NEW n \in 0..Len(s)
  PROVE  /\ SubSeq(s, 1, n) \in Seq(S)
         /\ \A i \in DOMAIN SubSeq(s, 1, n) : i \in DOMAIN s /\ SubSeq(s, 1, n)[i] = s[i]
  OBVIOUS

\* What is in the lists of requests.
LEMMA RequestsAre ==
  ASSUME NEW s \in Seq(Requests)
  PROVE  \A i \in DOMAIN s : /\ s[i] \in Requests /\ s[i].connection \in Connections
                            /\ s[i].connection.number \in Nat
                            /\ s[i].kind \in {"register", "dispatch"}
                            /\ s[i].connectServerStartTime \in Nat
<1>1. \A i \in DOMAIN s : s[i] \in Requests
  OBVIOUS
<1>2. \A m \in Requests : /\ m.connection \in Connections /\ m.kind \in Kinds
                          /\ m.connectServerStartTime \in Nat
  BY DEF Requests
<1>3. \A c \in Connections : c.number \in Nat
  BY DEF Connections
<1> QED BY <1>1, <1>2, <1>3 DEF Kinds

\* Every server has one of the kinds.
LEMMA AppsAre == \A s \in Servers : App(s) \in Apps
  BY DEF App, Apps

\* A server keeps its part of the invariant when a step leaves what it has, its
\* packets and its sessions alone.
LEMMA Untouched ==
  ASSUME RegistryInv, NEW t \in Servers, UNCHANGED <<deployed, centerUp, centerStartTime>>,
         connected'[t] = connected[t], connection'[t] = connection[t],
         t \in registering' <=> t \in registering,
         appDynamicId'[t] = appDynamicId[t],
         connectServerStartTime'[t] = connectServerStartTime[t],
         nodeMap'[t] = nodeMap[t], toCenter'[t] = toCenter[t], toServer'[t] = toServer[t],
         forgotten \subseteq forgotten',
         \A id : Owns(t, id)' <=> Owns(t, id),
         \A id : Owns(t, id) => sessionMap'[App(t)][id] = sessionMap[App(t)][id]
  PROVE  ServerInv(t)'
<1>1. ServerInv(t) /\ (connected[t] => centerUp)
  BY DEF RegistryInv, DownIsEmpty
<1>2. IsDeployed(t)' /\ InOrder(t)' /\ RequestsCalled(t)' /\ AnswersCalled(t)'
  BY <1>1 DEF ServerInv, IsDeployed, InOrder, RequestsCalled, AnswersCalled, Called
<1>3. IdsOwned(t)'
  BY <1>1 DEF ServerInv, IdsOwned, Known
<1>4. Registration(t)'
  <2> SUFFICES ASSUME connected[t]
               PROVE  Connecting(t)' \/ Asking(t)' \/ Told(t)' \/ Registered(t)'
    BY DEF Registration
  <2>1. CASE Asking(t) \/ Connecting(t)
    BY <2>1 DEF Asking, Asks, Connecting, NoneTold
  <2>2. CASE Told(t)
    <3>1. PICK k \in DOMAIN toServer[t] :
            /\ Tells(t, toServer[t][k])
            /\ \A i \in DOMAIN toServer[t] : i # k => toServer[t][i].kind = "dispatch"
      BY <2>2 DEF Told
    <3>2. Owns(t, toServer[t][k].appDynamicId)
      BY <1>1, <2>2, <3>1 DEF ServerInv, IdsOwned, Tells
    <3>3. sessionMap'[App(t)][toServer[t][k].appDynamicId] = Current(t)
      BY <3>1, <3>2 DEF Tells
    <3>4. Tells(t, toServer[t][k])'
      BY <3>1, <3>3 DEF Tells, Current
    <3> QED BY <3>1, <3>4, <2>2 DEF Told, NoneAsked
  <2>3. CASE Registered(t)
    <3>1. Owns(t, appDynamicId[t])
      BY <1>1, <2>3 DEF ServerInv, IdsOwned, Registered
    <3> QED BY <3>1, <2>3 DEF Registered, NoneAsked, NoneTold, Current
  <2> QED BY <1>1, <2>1, <2>2, <2>3 DEF ServerInv, Registration
<1>5. Remembered(t)'
  <2> SUFFICES ASSUME centerUp, App(t) \notin forgotten
               PROVE  /\ \A id \in DOMAIN sessionMap'[App(t)] : Owns(t, id)' => Holds(t, id)'
                      /\ \A i \in DOMAIN toCenter[t] :
                           toCenter[t][i].kind = "register" /\ Known(toCenter[t][i])
                             => /\ connectServerStartTime[t] = centerStartTime
                                /\ appDynamicId[t] = toCenter[t][i].appDynamicId
    BY DEF Remembered, Known
  <2>1. \A id : Owns(t, id)' => Holds(t, id)
    BY <1>1 DEF ServerInv, Remembered, Owns
  <2> QED BY <2>1, <1>1 DEF ServerInv, Remembered, Holds
<1> QED BY <1>2, <1>3, <1>4, <1>5 DEF ServerInv

\* Initially nobody is connected and no id was given.
LEMMA InitHolds == Init => RegistryInv
<1> SUFFICES ASSUME Init PROVE RegistryInv
  OBVIOUS
<1>1. TypeOK
  BY RegistryAssumption DEF Init, TypeOK, Apps
<1>2. DownIsEmpty /\ SessionsNumbered
  BY DEF Init, DownIsEmpty, SessionsNumbered
<1>3. ASSUME NEW s \in Servers PROVE ServerInv(s)
  BY AppsAre DEF Init, ServerInv, IsDeployed, InOrder, RequestsCalled, AnswersCalled, IdsOwned, Owns,
     Registration, Remembered
<1> QED BY <1>1, <1>2, <1>3 DEF RegistryInv

----------------------------------------------------------------------------
(* NetClient.                                                                  *)

\* A new connection: its number is above those of all requests of the server.
LEMMA connectToServerKeeps ==
  ASSUME RegistryInv, NEW s \in Servers, connectToServer(s)
  PROVE  RegistryInv'
<1>1. /\ s \in deployed /\ ~connected[s] /\ centerUp
      /\ connected' = [connected EXCEPT ![s] = TRUE]
      /\ connection' = [connection EXCEPT ![s] = connection[s] + 1]
      /\ registering' = registering \cup {s}
      /\ UNCHANGED <<deployed, appDynamicId, connectServerStartTime, nodeMap, waiting, toCenter,
                     toServer, centerUp, centerStartTime, idGenMap, sessionMap, forgotten, faults>>
  BY DEF connectToServer, Set, network, center
<1>2. /\ toCenter[s] \in Seq(Requests) /\ connection[s] \in Nat
      /\ connected'[s] = TRUE /\ connection'[s] = connection[s] + 1
      /\ \A t \in Servers \ {s} : connected'[t] = connected[t] /\ connection'[t] = connection[t]
  BY <1>1 DEF RegistryInv, TypeOK
<1>3. TypeOK'
  <2>1. connected' \in [Servers -> BOOLEAN] /\ connection' \in [Servers -> Nat]
    BY <1>1, <1>2 DEF RegistryInv, TypeOK
  <2>2. \A t \in Servers : toServer[t] # <<>> => connected'[t]
    BY <1>2 DEF RegistryInv, TypeOK
  <2> QED BY <1>1, <2>1, <2>2 DEF RegistryInv, TypeOK
<1>4. DownIsEmpty' /\ SessionsNumbered'
  BY <1>1 DEF RegistryInv, DownIsEmpty, SessionsNumbered
<1>5. ASSUME NEW t \in Servers \ {s} PROVE ServerInv(t)'
  BY <1>1, <1>2, Untouched DEF Owns
<1>6. ServerInv(s)'
  <2>1. ServerInv(s) /\ toServer[s] = <<>>
    BY <1>1 DEF RegistryInv, TypeOK
  <2>2. IsDeployed(s)' /\ AnswersCalled(s)'
    BY <1>1, <2>1 DEF IsDeployed, AnswersCalled
  <2>3. \A i \in DOMAIN toCenter[s] : /\ toCenter[s][i].connection.number # connection'[s]
                                      /\ toCenter[s][i].connection.number <= connection'[s]
    <3> SUFFICES ASSUME NEW i \in DOMAIN toCenter[s]
                 PROVE  /\ toCenter[s][i].connection.number # connection'[s]
                        /\ toCenter[s][i].connection.number <= connection'[s]
      OBVIOUS
    <3>1. toCenter[s][i].connection.number \in Nat
      BY <1>2, RequestsAre
    <3>2. toCenter[s][i].connection.number <= connection[s]
      BY <2>1 DEF ServerInv, InOrder
    <3> QED BY <3>1, <3>2, <1>2
  <2>4. InOrder(s)'
    BY <2>1, <2>3, <1>1 DEF ServerInv, InOrder
  <2>5. RequestsCalled(s)'
    BY <2>3, <1>1 DEF RequestsCalled
  <2>6. IdsOwned(s)'
    BY <1>1, <2>1 DEF ServerInv, IdsOwned, Owns, Known
  <2>7. Registration(s)'
    BY <2>1, <2>3, <1>1 DEF Registration, Connecting, NoneTold
  <2>8. Remembered(s)'
    BY <1>1, <2>1 DEF ServerInv, Remembered, Owns, Holds, Known
  <2> QED BY <2>2, <2>4, <2>5, <2>6, <2>7, <2>8 DEF ServerInv
<1> QED BY <1>3, <1>4, <1>5, <1>6 DEF RegistryInv

\* The register of a connection names what the server holds; it is the only one
\* there, though what other threads wrote may be before it.
LEMMA sessionCreatedKeeps ==
  ASSUME RegistryInv, NEW s \in Servers, sessionCreated(s)
  PROVE  RegistryInv'
<1> DEFINE req == [kind |-> "register", seqId |-> Len(nodeMap[s]) + 1,
                   connection |-> [server |-> s, number |-> connection[s]],
                   appDynamicId |-> appDynamicId[s],
                   connectServerStartTime |-> connectServerStartTime[s]]
<1>1. /\ s \in registering /\ registering' = registering \ {s}
      /\ nodeMap' = [nodeMap EXCEPT ![s] = Append(nodeMap[s], "register")]
      /\ toCenter' = IF connected[s] THEN [toCenter EXCEPT ![s] = Append(toCenter[s], req)]
                                     ELSE toCenter
      /\ UNCHANGED <<deployed, connected, connection, appDynamicId, connectServerStartTime,
                     waiting, toServer, centerUp, centerStartTime, idGenMap, sessionMap,
                     forgotten, faults>>
  BY DEF sessionCreated, sendRequest, Set, center
<1>2. /\ nodeMap[s] \in Seq(Kinds) /\ toCenter[s] \in Seq(Requests) /\ connection[s] \in Nat
      /\ appDynamicId[s] \in Nat /\ connectServerStartTime[s] \in Nat
      /\ connectServerStartTime[s] <= centerStartTime
      /\ Len(nodeMap[s]) \in Nat /\ "register" \in Kinds
  BY DEF RegistryInv, TypeOK, Kinds
<1>3. PICK m \in Requests : m = req
  <2>1. [server |-> s, number |-> connection[s]] \in Connections
    BY <1>2 DEF Connections
  <2>2. Len(nodeMap[s]) + 1 \in Nat
    BY <1>2
  <2>3. req \in Requests
    BY <2>1, <2>2, <1>2 DEF Requests
  <2> QED BY <2>3
<1>4. /\ m.kind = "register" /\ m.seqId = Len(nodeMap[s]) + 1
      /\ m.connection.server = s /\ m.connection.number = connection[s]
      /\ m.appDynamicId = appDynamicId[s]
      /\ m.connectServerStartTime = connectServerStartTime[s]
  BY <1>3
<1>5. toCenter' = IF connected[s] THEN [toCenter EXCEPT ![s] = Append(toCenter[s], m)] ELSE toCenter
  BY <1>1, <1>3
<1> HIDE DEF req
<1>6. /\ nodeMap'[s] = Append(nodeMap[s], "register")
      /\ toCenter'[s] = IF connected[s] THEN Append(toCenter[s], m) ELSE toCenter[s]
      /\ \A t \in Servers \ {s} : nodeMap'[t] = nodeMap[t] /\ toCenter'[t] = toCenter[t]
  BY <1>1, <1>5 DEF RegistryInv, TypeOK
<1>7. /\ toCenter'[s] \in Seq(Requests)
      /\ \A i \in DOMAIN toCenter[s] : i \in DOMAIN toCenter'[s] /\ toCenter'[s][i] = toCenter[s][i]
                                       /\ i < Len(toCenter[s]) + 1
      /\ \A i \in DOMAIN toCenter'[s] :
           \/ i \in DOMAIN toCenter[s]
           \/ connected[s] /\ i = Len(toCenter[s]) + 1 /\ toCenter'[s][i] = m
      /\ connected[s] => \E i \in DOMAIN toCenter'[s] : toCenter'[s][i] = m
      /\ DOMAIN toCenter[s] \subseteq Nat /\ Len(toCenter[s]) \in Nat
  <2> DEFINE q == toCenter[s]  u == Append(q, m)
  <2>1. /\ u \in Seq(Requests) /\ q \in Seq(Requests)
        /\ \A i \in DOMAIN q : i \in DOMAIN u /\ u[i] = q[i] /\ i < Len(q) + 1
        /\ Len(q) + 1 \in DOMAIN u /\ u[Len(q) + 1] = m
        /\ \A i \in DOMAIN u : i \in DOMAIN q \/ i = Len(q) + 1
        /\ DOMAIN q \subseteq Nat /\ Len(q) \in Nat
    BY <1>2, AppendElements
  <2>2. (connected[s] /\ toCenter'[s] = u) \/ (~connected[s] /\ toCenter'[s] = q)
    BY <1>6
  <2> HIDE DEF u
  <2>3. CASE connected[s] /\ toCenter'[s] = u
    BY <2>1, <2>3
  <2>4. CASE ~connected[s] /\ toCenter'[s] = q
    BY <2>1, <2>4
  <2> QED BY <2>2, <2>3, <2>4
<1>8. /\ nodeMap'[s] \in Seq(Kinds)
      /\ \A i \in DOMAIN nodeMap[s] : i \in DOMAIN nodeMap'[s] /\ nodeMap'[s][i] = nodeMap[s][i]
      /\ m.seqId \in DOMAIN nodeMap'[s] /\ nodeMap'[s][m.seqId] = "register"
  BY <1>2, <1>4, <1>6, AppendElements
<1>9. TypeOK'
  <2>1. toCenter' \in [Servers -> Seq(Requests)]
    BY <1>1, <1>5, <1>6, <1>7 DEF RegistryInv, TypeOK
  <2>2. nodeMap' \in [Servers -> Seq(Kinds)]
    BY <1>1, <1>6, <1>8 DEF RegistryInv, TypeOK
  <2>3. \A t \in Servers : waiting[t] \subseteq DOMAIN nodeMap'[t]
    BY <1>6, <1>8 DEF RegistryInv, TypeOK
  <2> QED BY <1>1, <2>1, <2>2, <2>3 DEF RegistryInv, TypeOK
<1>10. DownIsEmpty' /\ SessionsNumbered'
  BY <1>1, <1>5 DEF RegistryInv, DownIsEmpty, SessionsNumbered
<1>11. ASSUME NEW t \in Servers \ {s} PROVE ServerInv(t)'
  BY <1>1, <1>6, Untouched DEF Owns
<1>12. ServerInv(s)'
  <2>1. ServerInv(s)
    BY DEF RegistryInv
  <2>2. connected[s] => Connecting(s) /\ centerUp
    BY <1>1, <2>1 DEF ServerInv, Registration, Asking, Told, Registered, RegistryInv, DownIsEmpty
  <2>3. IsDeployed(s)'
    BY <1>1, <2>1 DEF IsDeployed, ServerInv
  <2>4. AnswersCalled(s)'
    BY <1>1, <1>8, <2>1 DEF AnswersCalled, Called, ServerInv
  <2>5. InOrder(s)'
    <3>1. InOrder(s) /\ connectServerStartTime[s] <= centerStartTime
      BY <2>1, <1>2 DEF ServerInv
    <3>2. \A i \in DOMAIN toCenter[s] : toCenter[s][i].connection.number <= m.connection.number
      BY <3>1, <1>4 DEF InOrder
    <3>3. ASSUME NEW i \in DOMAIN toCenter'[s]
          PROVE  /\ toCenter'[s][i].connection.server = s
                 /\ toCenter'[s][i].connection.number <= connection[s]
                 /\ toCenter'[s][i].connectServerStartTime <= centerStartTime
      <4>1. CASE i \in DOMAIN toCenter[s]
        <5>1. toCenter'[s][i] = toCenter[s][i]
          BY <4>1, <1>7
        <5> QED BY <4>1, <5>1, <3>1 DEF InOrder
      <4>2. CASE toCenter'[s][i] = m
        BY <4>2, <3>1, <1>2, <1>4
      <4> QED BY <4>1, <4>2, <1>7
    <3>4. ASSUME NEW i \in DOMAIN toCenter'[s], NEW j \in DOMAIN toCenter'[s], i < j
          PROVE  /\ toCenter'[s][i].connection.number <= toCenter'[s][j].connection.number
                 /\ toCenter'[s][i].connection.number = toCenter'[s][j].connection.number
                      => ~(/\ toCenter'[s][i].kind = "register"
                           /\ toCenter'[s][j].kind = "register")
      <4>1. i \in DOMAIN toCenter[s]
        BY <3>4, <1>7
      <4>2. toCenter'[s][i] = toCenter[s][i]
        BY <4>1, <1>7
      <4>3. CASE j \in DOMAIN toCenter[s]
        <5>1. toCenter'[s][j] = toCenter[s][j]
          BY <4>3, <1>7
        <5> QED BY <4>1, <4>2, <4>3, <5>1, <3>1, <3>4 DEF InOrder
      <4>4. CASE connected[s] /\ toCenter'[s][j] = m
        <5>1. toCenter[s][i].connection.number = connection[s] => toCenter[s][i].kind = "dispatch"
          BY <4>1, <4>4, <2>2 DEF Connecting
        <5> QED BY <4>1, <4>2, <4>4, <5>1, <3>2, <1>4
      <4> QED BY <4>3, <4>4, <1>7
    <3> QED BY <3>3, <3>4, <1>1 DEF InOrder
  <2>6. RequestsCalled(s)'
    <3> SUFFICES ASSUME NEW i \in DOMAIN toCenter'[s], connected[s],
                        toCenter'[s][i].connection.number = connection[s]
                 PROVE  Called(s, toCenter[s][i])'
      BY <1>1 DEF RequestsCalled
    <3>1. CASE i \in DOMAIN toCenter[s]
      <4>1. toCenter'[s][i] = toCenter[s][i]
        BY <3>1, <1>7
      <4>2. Called(s, toCenter[s][i])
        BY <2>1, <3>1, <4>1 DEF ServerInv, RequestsCalled
      <4> QED BY <4>1, <4>2, <1>8 DEF Called
    <3>2. CASE toCenter'[s][i] = m
      BY <3>2, <1>4, <1>8 DEF Called
    <3> QED BY <3>1, <3>2, <1>7
  <2>7. IdsOwned(s)'
    BY <1>1, <1>4, <1>7, <2>1 DEF ServerInv, IdsOwned, Owns, Known
  <2>8. Registration(s)'
    BY <1>1, <1>4, <1>7, <2>2 DEF Registration, Connecting, NoneTold, Asking, Asks
  <2>9. Remembered(s)'
    <3>1. \A id : Owns(s, id)' <=> Owns(s, id)
      BY <1>1 DEF Owns
    <3>2. \A id : Holds(s, id)' <=> Holds(s, id)
      BY <1>1 DEF Holds
    <3> QED BY <3>1, <3>2, <1>1, <1>4, <1>7, <2>1 DEF ServerInv, Remembered, Known
  <2> QED BY <2>3, <2>4, <2>5, <2>6, <2>7, <2>8, <2>9 DEF ServerInv
<1> QED BY <1>9, <1>10, <1>11, <1>12 DEF RegistryInv

\* An answer is received: the id the server was told becomes its own.
LEMMA messageReceivedKeeps ==
  ASSUME RegistryInv, NEW s \in Servers, messageReceived(s)
  PROVE  RegistryInv'
<1> DEFINE m == Head(toServer[s])
<1>1. /\ s \notin registering
      /\ toServer[s] # <<>> /\ toServer[s] \in Seq(Answers)
      /\ toServer' = [toServer EXCEPT ![s] = Tail(toServer[s])]
      /\ UNCHANGED <<deployed, connected, connection, registering, nodeMap, toCenter, centerUp,
                     centerStartTime, idGenMap, sessionMap, forgotten, faults>>
  BY DEF messageReceived, Set, center, RegistryInv, TypeOK
<1>2. /\ 1 \in DOMAIN toServer[s] /\ m = toServer[s][1] /\ Tail(toServer[s]) \in Seq(Answers)
      /\ \A i \in DOMAIN Tail(toServer[s]) :
           /\ i + 1 \in DOMAIN toServer[s] /\ Tail(toServer[s])[i] = toServer[s][i + 1]
           /\ i \in Nat \ {0} /\ i + 1 # 1
      /\ \A i \in DOMAIN toServer[s] : i # 1 =>
           i - 1 \in DOMAIN Tail(toServer[s]) /\ Tail(toServer[s])[i - 1] = toServer[s][i]
  BY <1>1, TailElements
<1>3. /\ ServerInv(s) /\ connected[s] /\ centerUp
      /\ nodeMap[s][m.seqId] = m.kind
      /\ m \in Answers
  BY <1>1, <1>2 DEF RegistryInv, TypeOK, DownIsEmpty, ServerInv, AnswersCalled, Called
<1>4. Asking(s) \/ Told(s) \/ Registered(s)
  BY <1>1, <1>3 DEF ServerInv, Registration, Connecting
<1>5. m.kind = "register" =>
        /\ appDynamicId' = [appDynamicId EXCEPT ![s] = m.appDynamicId]
        /\ connectServerStartTime' = [connectServerStartTime EXCEPT ![s] = m.centerStartTime]
        /\ UNCHANGED waiting
  BY <1>3 DEF messageReceived, Set
<1>6. m.kind = "dispatch" =>
        /\ waiting' = [waiting EXCEPT ![s] = waiting[s] \ {m.seqId}]
        /\ UNCHANGED <<appDynamicId, connectServerStartTime>>
  BY <1>3 DEF messageReceived, Set
<1>7. m.kind = "register" \/ m.kind = "dispatch"
  BY <1>3 DEF Answers, Kinds
<1>8. m.kind = "register" =>
        /\ NoneAsked(s) /\ Tells(s, m)
        /\ \A i \in DOMAIN toServer[s] : i # 1 => toServer[s][i].kind = "dispatch"
  <2> SUFFICES ASSUME m.kind = "register"
               PROVE  /\ NoneAsked(s) /\ Tells(s, m)
                      /\ \A i \in DOMAIN toServer[s] : i # 1 => toServer[s][i].kind = "dispatch"
    OBVIOUS
  <2>1. NoneAsked(s) /\ Told(s)
    BY <1>2, <1>4 DEF Asking, Told, Registered, NoneTold
  <2>2. PICK k \in DOMAIN toServer[s] :
          /\ Tells(s, toServer[s][k])
          /\ \A i \in DOMAIN toServer[s] : i # k => toServer[s][i].kind = "dispatch"
    BY <2>1 DEF Told
  <2>3. k = 1
    BY <2>2, <1>2
  <2> QED BY <2>1, <2>2, <2>3, <1>2
<1> HIDE DEF m
<1>9. /\ m.appDynamicId \in Nat /\ m.centerStartTime \in Nat
      /\ m.kind = "register" => m.centerStartTime = centerStartTime
  BY <1>3, <1>8 DEF Answers, Tells
<1>10. /\ toServer'[s] = Tail(toServer[s])
       /\ \A t \in Servers \ {s} : toServer'[t] = toServer[t] /\ appDynamicId'[t] = appDynamicId[t]
                                   /\ connectServerStartTime'[t] = connectServerStartTime[t]
       /\ m.kind = "register" => appDynamicId'[s] = m.appDynamicId
                                 /\ connectServerStartTime'[s] = centerStartTime
  BY <1>1, <1>5, <1>6, <1>7, <1>9 DEF RegistryInv, TypeOK
<1>11. TypeOK'
  <2>1. toServer' \in [Servers -> Seq(Answers)]
    BY <1>1, <1>2 DEF RegistryInv, TypeOK
  <2>2. appDynamicId' \in [Servers -> Nat] /\ connectServerStartTime' \in [Servers -> Nat]
    BY <1>5, <1>6, <1>7, <1>9 DEF RegistryInv, TypeOK
  <2>3. \A t \in Servers : connectServerStartTime'[t] <= centerStartTime
    <3>1. \A t \in Servers : connectServerStartTime[t] <= centerStartTime /\ centerStartTime \in Nat
      BY DEF RegistryInv, TypeOK
    <3>2. \A t \in Servers : \/ connectServerStartTime'[t] = connectServerStartTime[t]
                             \/ connectServerStartTime'[t] = centerStartTime
      BY <1>6, <1>7, <1>10
    <3> QED BY <3>1, <3>2
  <2>0. waiting \in [Servers -> SUBSET Nat]
    BY DEF RegistryInv, TypeOK
  <2>4. waiting' \in [Servers -> SUBSET Nat]
    BY <2>0, <1>5, <1>6, <1>7
  <2>5. \A t \in Servers : waiting'[t] \subseteq waiting[t]
    BY <2>0, <1>5, <1>6, <1>7
  <2>6. \A t \in Servers : toServer'[t] # <<>> => connected[t]
    BY <1>3, <1>10 DEF RegistryInv, TypeOK
  <2> QED BY <1>1, <2>1, <2>2, <2>3, <2>4, <2>5, <2>6 DEF RegistryInv, TypeOK
<1>12. DownIsEmpty' /\ SessionsNumbered'
  BY <1>1 DEF RegistryInv, DownIsEmpty, SessionsNumbered
<1>13. ASSUME NEW t \in Servers \ {s} PROVE ServerInv(t)'
  BY <1>1, <1>10, Untouched DEF Owns
<1>14. ServerInv(s)'
  <2>1. InOrder(s)' /\ RequestsCalled(s)' /\ IsDeployed(s)'
    BY <1>1, <1>3 DEF ServerInv, InOrder, RequestsCalled, Called, IsDeployed
  <2>2. AnswersCalled(s)'
    BY <1>1, <1>2, <1>3, <1>10 DEF ServerInv, AnswersCalled, Called
  <2>3. NoneAsked(s) => NoneAsked(s)'
    BY <1>1 DEF NoneAsked
  <2>4. \A id : Owns(s, id)' <=> Owns(s, id)
    BY <1>1 DEF Owns
  <2>5. IdsOwned(s)'
    <3>1. connectServerStartTime'[s] = centerStartTime => Owns(s, appDynamicId'[s])
      BY <1>2, <1>3, <1>6, <1>7, <1>10 DEF ServerInv, IdsOwned
    <3>2. \A i \in DOMAIN toServer'[s] : toServer'[s][i].kind = "register"
            => Owns(s, toServer'[s][i].appDynamicId)
      BY <1>2, <1>3, <1>10 DEF ServerInv, IdsOwned
    <3>3. \A i \in DOMAIN toCenter[s] : toCenter[s][i].kind = "register" /\ Known(toCenter[s][i])
            => Owns(s, toCenter[s][i].appDynamicId)
      BY <1>3 DEF ServerInv, IdsOwned
    <3> QED BY <3>1, <3>2, <3>3, <2>4, <1>1 DEF IdsOwned, Known
  <2>6. Registration(s)'
    <3>1. CASE m.kind = "register"
      <4>1. /\ sessionMap'[App(s)][appDynamicId'[s]] = Current(s)'
            /\ connectServerStartTime'[s] = centerStartTime'
        BY <3>1, <1>1, <1>8, <1>10 DEF Tells, Current
      <4>2. NoneTold(s)'
        BY <3>1, <1>2, <1>8, <1>10 DEF NoneTold
      <4> QED BY <4>1, <4>2, <2>3, <3>1, <1>1, <1>8 DEF Registration, Registered
    <3>2. CASE m.kind = "dispatch"
      <4>1. NoneTold(s) => NoneTold(s)'
        BY <1>2, <1>10 DEF NoneTold
      <4>2. CASE Asking(s)
        <5>1. Asking(s)'
          BY <4>1, <4>2, <3>2, <1>1, <1>6 DEF Asking, Asks
        <5> QED BY <5>1 DEF Registration
      <4>3. CASE Registered(s)
        <5>1. Registered(s)'
          BY <4>1, <4>3, <3>2, <2>3, <1>1, <1>6 DEF Registered, Current
        <5> QED BY <5>1 DEF Registration
      <4>4. CASE Told(s)
        <5>1. PICK k \in DOMAIN toServer[s] :
                /\ Tells(s, toServer[s][k])
                /\ \A i \in DOMAIN toServer[s] : i # k => toServer[s][i].kind = "dispatch"
          BY <4>4 DEF Told
        <5>2. k # 1 /\ k \in Nat
          BY <5>1, <3>2, <1>1, <1>2 DEF Tells
        <5>3. PICK j : j = k - 1 /\ j \in DOMAIN toServer'[s] /\ toServer'[s][j] = toServer[s][k]
          BY <5>2, <1>2, <1>10
        <5>4. PICK told : told = toServer[s][k]
          OBVIOUS
        <5>5. \A i \in DOMAIN toServer'[s] : i # j => toServer'[s][i].kind = "dispatch"
          <6> SUFFICES ASSUME NEW i \in DOMAIN toServer'[s], i # j
                       PROVE  toServer'[s][i].kind = "dispatch"
            OBVIOUS
          <6>1. /\ i + 1 \in DOMAIN toServer[s] /\ toServer'[s][i] = toServer[s][i + 1]
                /\ i \in Nat \ {0}
            BY <1>2, <1>10
          <6>2. i + 1 # k
            BY <6>1, <5>3
          <6> QED BY <6>1, <6>2, <5>1
        <5>6. Tells(s, told)'
          BY <5>1, <5>4, <3>2, <1>1, <1>6 DEF Tells, Current
        <5>7. Told(s)'
          BY <4>4, <5>3, <5>4, <5>5, <5>6, <2>3, <1>1 DEF Told
        <5> QED BY <5>7 DEF Registration
      <4> QED BY <4>2, <4>3, <4>4, <1>4
    <3> QED BY <3>1, <3>2, <1>7
  <2>7. Remembered(s)'
    <3>1. ASSUME NEW id, Holds(s, id) PROVE Holds(s, id)'
      <4>1. CASE m.kind = "register"
        <5>1. id = m.appDynamicId
          BY <3>1, <4>1, <1>2, <1>8 DEF Holds, Tells
        <5> QED BY <5>1, <4>1, <1>1, <1>10 DEF Holds
      <4>2. CASE m.kind = "dispatch"
        <5>1. CASE connectServerStartTime[s] = centerStartTime /\ appDynamicId[s] = id
          BY <5>1, <4>2, <1>1, <1>6 DEF Holds
        <5>2. CASE ~(connectServerStartTime[s] = centerStartTime /\ appDynamicId[s] = id)
          <6>1. PICK i \in DOMAIN toServer[s] : /\ toServer[s][i].kind = "register"
                                               /\ toServer[s][i].appDynamicId = id
            BY <3>1, <5>2 DEF Holds
          <6>2. i # 1
            BY <6>1, <4>2, <1>2
          <6>3. /\ i - 1 \in DOMAIN Tail(toServer[s])
                /\ Tail(toServer[s])[i - 1] = toServer[s][i]
            BY <6>2, <1>2
          <6>4. toServer'[s] = Tail(toServer[s])
            BY <1>10
          <6> QED BY <6>1, <6>3, <6>4 DEF Holds
        <5> QED BY <5>1, <5>2
      <4> QED BY <4>1, <4>2, <1>7
    <3>2. CASE m.kind = "register"
      <4>1. \A i \in DOMAIN toCenter'[s] : toCenter'[s][i].kind # "register"
        BY <3>2, <2>3, <1>8 DEF NoneAsked
      <4> QED BY <3>1, <4>1, <2>4, <1>1, <1>3 DEF ServerInv, Remembered
    <3>3. CASE m.kind = "dispatch"
      BY <3>1, <3>3, <2>4, <1>1, <1>3, <1>6 DEF ServerInv, Remembered, Known
    <3> QED BY <3>2, <3>3, <1>7
  <2> QED BY <2>1, <2>2, <2>5, <2>6, <2>7 DEF ServerInv
<1> QED BY <1>11, <1>12, <1>13, <1>14 DEF RegistryInv

\* A request for a gate: it is behind or before the register of its connection.
LEMMA sendRequestSyncKeeps ==
  ASSUME RegistryInv, NEW s \in Servers, sendRequestSync(s)
  PROVE  RegistryInv'
<1> DEFINE req == [kind |-> "dispatch", seqId |-> Len(nodeMap[s]) + 1,
                   connection |-> [server |-> s, number |-> connection[s]],
                   appDynamicId |-> appDynamicId[s],
                   connectServerStartTime |-> connectServerStartTime[s]]
<1>1. /\ nodeMap' = [nodeMap EXCEPT ![s] = Append(nodeMap[s], "dispatch")]
      /\ toCenter' = IF connected[s] THEN [toCenter EXCEPT ![s] = Append(toCenter[s], req)]
                                     ELSE toCenter
      /\ waiting' = [waiting EXCEPT ![s] = waiting[s] \cup {Len(nodeMap[s]) + 1}]
      /\ UNCHANGED <<deployed, connected, connection, registering, appDynamicId,
                     connectServerStartTime, toServer, centerUp, centerStartTime, idGenMap,
                     sessionMap, forgotten, faults>>
  BY DEF sendRequestSync, sendRequest, Set, center
<1>2. /\ nodeMap[s] \in Seq(Kinds) /\ toCenter[s] \in Seq(Requests) /\ connection[s] \in Nat
      /\ appDynamicId[s] \in Nat /\ connectServerStartTime[s] \in Nat
      /\ connectServerStartTime[s] <= centerStartTime
      /\ Len(nodeMap[s]) \in Nat /\ "dispatch" \in Kinds /\ toServer[s] \in Seq(Answers)
  BY DEF RegistryInv, TypeOK, Kinds
<1>3. PICK m \in Requests : m = req
  <2>1. [server |-> s, number |-> connection[s]] \in Connections
    BY <1>2 DEF Connections
  <2>2. Len(nodeMap[s]) + 1 \in Nat
    BY <1>2
  <2>3. req \in Requests
    BY <2>1, <2>2, <1>2 DEF Requests
  <2> QED BY <2>3
<1>4. /\ m.kind = "dispatch" /\ m.seqId = Len(nodeMap[s]) + 1
      /\ m.connection.server = s /\ m.connection.number = connection[s]
      /\ m.connectServerStartTime = connectServerStartTime[s]
  BY <1>3
<1>5. toCenter' = IF connected[s] THEN [toCenter EXCEPT ![s] = Append(toCenter[s], m)] ELSE toCenter
  BY <1>1, <1>3
<1> HIDE DEF req
<1>6. /\ nodeMap'[s] = Append(nodeMap[s], "dispatch")
      /\ toCenter'[s] = IF connected[s] THEN Append(toCenter[s], m) ELSE toCenter[s]
      /\ \A t \in Servers \ {s} : nodeMap'[t] = nodeMap[t] /\ toCenter'[t] = toCenter[t]
  BY <1>1, <1>5 DEF RegistryInv, TypeOK
<1>7. /\ toCenter'[s] \in Seq(Requests)
      /\ \A i \in DOMAIN toCenter[s] : i \in DOMAIN toCenter'[s] /\ toCenter'[s][i] = toCenter[s][i]
                                       /\ i < Len(toCenter[s]) + 1
      /\ \A i \in DOMAIN toCenter'[s] :
           i \in DOMAIN toCenter[s] \/ (i = Len(toCenter[s]) + 1 /\ toCenter'[s][i] = m)
      /\ DOMAIN toCenter[s] \subseteq Nat /\ Len(toCenter[s]) \in Nat
  <2> DEFINE q == toCenter[s]  u == Append(q, m)
  <2>1. /\ u \in Seq(Requests) /\ q \in Seq(Requests)
        /\ \A i \in DOMAIN q : i \in DOMAIN u /\ u[i] = q[i] /\ i < Len(q) + 1
        /\ u[Len(q) + 1] = m
        /\ \A i \in DOMAIN u : i \in DOMAIN q \/ i = Len(q) + 1
        /\ DOMAIN q \subseteq Nat /\ Len(q) \in Nat
    BY <1>2, AppendElements
  <2>2. toCenter'[s] = u \/ toCenter'[s] = q
    BY <1>6
  <2> HIDE DEF u
  <2>3. CASE toCenter'[s] = u
    BY <2>1, <2>3
  <2>4. CASE toCenter'[s] = q
    BY <2>1, <2>4
  <2> QED BY <2>2, <2>3, <2>4
<1>8. /\ nodeMap'[s] \in Seq(Kinds)
      /\ \A i \in DOMAIN nodeMap[s] : i \in DOMAIN nodeMap'[s] /\ nodeMap'[s][i] = nodeMap[s][i]
      /\ m.seqId \in DOMAIN nodeMap'[s] /\ nodeMap'[s][m.seqId] = "dispatch"
  BY <1>2, <1>4, <1>6, AppendElements
<1>9. TypeOK'
  <2>1. toCenter' \in [Servers -> Seq(Requests)]
    BY <1>1, <1>5, <1>6, <1>7 DEF RegistryInv, TypeOK
  <2>2. nodeMap' \in [Servers -> Seq(Kinds)]
    BY <1>1, <1>6, <1>8 DEF RegistryInv, TypeOK
  <2>3. waiting' \in [Servers -> SUBSET Nat]
    BY <1>1, <1>2 DEF RegistryInv, TypeOK
  <2>4. \A t \in Servers : waiting'[t] \subseteq DOMAIN nodeMap'[t]
    <3>1. \A t \in Servers : waiting[t] \subseteq DOMAIN nodeMap[t]
      BY DEF RegistryInv, TypeOK
    <3>2. /\ waiting'[s] = waiting[s] \cup {Len(nodeMap[s]) + 1}
          /\ \A t \in Servers \ {s} : waiting'[t] = waiting[t]
      BY <1>1 DEF RegistryInv, TypeOK
    <3>3. Len(nodeMap[s]) + 1 \in DOMAIN nodeMap'[s]
      BY <1>4, <1>8
    <3> QED BY <3>1, <3>2, <3>3, <1>6, <1>8
  <2> QED BY <1>1, <2>1, <2>2, <2>3, <2>4 DEF RegistryInv, TypeOK
<1>10. DownIsEmpty' /\ SessionsNumbered'
  BY <1>1 DEF RegistryInv, DownIsEmpty, SessionsNumbered
<1>11. ASSUME NEW t \in Servers \ {s} PROVE ServerInv(t)'
  BY <1>1, <1>6, Untouched DEF Owns
<1>12. ServerInv(s)'
  <2>1. ServerInv(s)
    BY DEF RegistryInv
  <2>2. IsDeployed(s)'
    BY <1>1, <2>1 DEF IsDeployed, ServerInv
  <2>3. AnswersCalled(s)'
    BY <1>1, <1>8, <2>1 DEF AnswersCalled, Called, ServerInv
  <2>4. InOrder(s)'
    <3>1. InOrder(s) /\ connectServerStartTime[s] <= centerStartTime
      BY <2>1, <1>2 DEF ServerInv
    <3>2. \A i \in DOMAIN toCenter[s] : toCenter[s][i].connection.number <= m.connection.number
      BY <3>1, <1>4 DEF InOrder
    <3>3. ASSUME NEW i \in DOMAIN toCenter'[s]
          PROVE  /\ toCenter'[s][i].connection.server = s
                 /\ toCenter'[s][i].connection.number <= connection[s]
                 /\ toCenter'[s][i].connectServerStartTime <= centerStartTime
      <4>1. CASE i \in DOMAIN toCenter[s]
        <5>1. toCenter'[s][i] = toCenter[s][i]
          BY <4>1, <1>7
        <5> QED BY <4>1, <5>1, <3>1 DEF InOrder
      <4>2. CASE toCenter'[s][i] = m
        BY <4>2, <3>1, <1>2, <1>4
      <4> QED BY <4>1, <4>2, <1>7
    <3>4. ASSUME NEW i \in DOMAIN toCenter'[s], NEW j \in DOMAIN toCenter'[s], i < j
          PROVE  /\ toCenter'[s][i].connection.number <= toCenter'[s][j].connection.number
                 /\ toCenter'[s][i].connection.number = toCenter'[s][j].connection.number
                      => ~(/\ toCenter'[s][i].kind = "register"
                           /\ toCenter'[s][j].kind = "register")
      <4>1. i \in DOMAIN toCenter[s]
        BY <3>4, <1>7
      <4>2. toCenter'[s][i] = toCenter[s][i]
        BY <4>1, <1>7
      <4>3. CASE j \in DOMAIN toCenter[s]
        <5>1. toCenter'[s][j] = toCenter[s][j]
          BY <4>3, <1>7
        <5> QED BY <4>1, <4>2, <4>3, <5>1, <3>1, <3>4 DEF InOrder
      <4>4. CASE toCenter'[s][j] = m
        BY <4>1, <4>2, <4>4, <3>2, <1>4
      <4> QED BY <4>3, <4>4, <1>7
    <3> QED BY <3>3, <3>4, <1>1 DEF InOrder
  <2>5. RequestsCalled(s)'
    <3> SUFFICES ASSUME NEW i \in DOMAIN toCenter'[s], connected[s],
                        toCenter'[s][i].connection.number = connection[s]
                 PROVE  Called(s, toCenter[s][i])'
      BY <1>1 DEF RequestsCalled
    <3>1. CASE i \in DOMAIN toCenter[s]
      <4>1. toCenter'[s][i] = toCenter[s][i]
        BY <3>1, <1>7
      <4>2. Called(s, toCenter[s][i])
        BY <2>1, <3>1, <4>1 DEF ServerInv, RequestsCalled
      <4> QED BY <4>1, <4>2, <1>8 DEF Called
    <3>2. CASE toCenter'[s][i] = m
      BY <3>2, <1>4, <1>8 DEF Called
    <3> QED BY <3>1, <3>2, <1>7
  <2>6. \A i \in DOMAIN toCenter'[s] : toCenter'[s][i].kind = "register" =>
          i \in DOMAIN toCenter[s] /\ toCenter'[s][i] = toCenter[s][i]
    BY <1>4, <1>7
  <2>7. IdsOwned(s)'
    BY <1>1, <2>1, <2>6 DEF ServerInv, IdsOwned, Owns, Known
  <2>8. NoneAsked(s) => NoneAsked(s)'
    BY <1>4, <1>7 DEF NoneAsked
  <2>9. Registration(s)'
    <3> SUFFICES ASSUME connected[s]
                 PROVE  Connecting(s)' \/ Asking(s)' \/ Told(s)' \/ Registered(s)'
      BY <1>1 DEF Registration
    <3>1. CASE Connecting(s)
      BY <3>1, <1>1, <1>4, <1>7 DEF Connecting, NoneTold
    <3>2. CASE Asking(s)
      BY <3>2, <1>1, <1>7 DEF Asking, Asks, NoneTold
    <3>3. CASE Told(s)
      BY <3>3, <1>1, <2>8 DEF Told, Tells, Current
    <3>4. CASE Registered(s)
      BY <3>4, <1>1, <2>8 DEF Registered, NoneTold, Current
    <3> QED BY <3>1, <3>2, <3>3, <3>4, <2>1 DEF ServerInv, Registration
  <2>10. Remembered(s)'
    BY <1>1, <2>1, <2>6 DEF ServerInv, Remembered, Owns, Holds, Known
  <2> QED BY <2>2, <2>3, <2>4, <2>5, <2>7, <2>9, <2>10 DEF ServerInv
<1> QED BY <1>9, <1>10, <1>11, <1>12 DEF RegistryInv

\* A thread that stops waiting changes nothing of its connection.
LEMMA blockUntilResponseKeeps ==
  ASSUME RegistryInv, NEW s \in Servers, blockUntilResponse(s)
  PROVE  RegistryInv'
<1>1. PICK q \in waiting[s] : waiting' = [waiting EXCEPT ![s] = waiting[s] \ {q}]
  BY DEF blockUntilResponse, Set
<1>2. UNCHANGED <<deployed, connected, connection, registering, appDynamicId,
                  connectServerStartTime, nodeMap, toCenter, toServer, centerUp,
                  centerStartTime, idGenMap, sessionMap, forgotten, faults>>
  BY DEF blockUntilResponse, network, center
<1>3. TypeOK'
  BY <1>1, <1>2 DEF RegistryInv, TypeOK
<1>4. DownIsEmpty' /\ SessionsNumbered'
  BY <1>2 DEF RegistryInv, DownIsEmpty, SessionsNumbered
<1>5. ASSUME NEW t \in Servers PROVE ServerInv(t)'
  BY <1>2, Untouched DEF Owns
<1> QED BY <1>3, <1>4, <1>5 DEF RegistryInv

----------------------------------------------------------------------------
(* The center.                                                                 *)

\* A registration: the id belongs to its server or is new, and once the register
\* of a connection that is alive is run, nothing else of the server is to come
\* but what follows it.
LEMMA actionRegisterServerKeeps ==
  ASSUME RegistryInv, NEW s \in Servers, actionRegisterServer(s)
  PROVE  RegistryInv'
<1>1. PICK m : m = Head(toCenter[s])
  OBVIOUS
<1>2. PICK id : id = IF Known(m) THEN m.appDynamicId ELSE idGenMap[App(s)]
  OBVIOUS
<1>3. PICK ans : ans = [kind |-> "register", seqId |-> m.seqId, appDynamicId |-> id,
                        centerStartTime |-> centerStartTime]
  OBVIOUS
<1>4. /\ centerUp /\ toCenter[s] # <<>> /\ m.kind = "register"
      /\ idGenMap' = IF Known(m) THEN idGenMap ELSE [idGenMap EXCEPT ![App(s)] = idGenMap[App(s)] + 1]
      /\ sessionMap' = Put(App(s), id, m.connection)
      /\ Answer(m.connection, ans)
      /\ toCenter' = [toCenter EXCEPT ![s] = Tail(toCenter[s])]
      /\ forgotten' = IF Known(m) \/ Alive(m.connection) THEN forgotten ELSE forgotten \cup {App(s)}
      /\ UNCHANGED <<deployed, connected, connection, registering, appDynamicId,
                     connectServerStartTime, nodeMap, waiting, centerUp, centerStartTime,
                     faults>>
  BY <1>1, <1>2, <1>3 DEF actionRegisterServer, NextId, ReplySeqId, Set, netClient
<1>5. toCenter[s] \in Seq(Requests) /\ ServerInv(s) /\ App(s) \in Apps
  BY AppsAre DEF RegistryInv, TypeOK
<1>6. /\ 1 \in DOMAIN toCenter[s] /\ m = toCenter[s][1] /\ Tail(toCenter[s]) \in Seq(Requests)
      /\ \A i \in DOMAIN Tail(toCenter[s]) : /\ i + 1 \in DOMAIN toCenter[s]
                                             /\ Tail(toCenter[s])[i] = toCenter[s][i + 1]
                                             /\ i \in Nat \ {0}
      /\ \A i \in DOMAIN toCenter[s] : i # 1 =>
           i - 1 \in DOMAIN Tail(toCenter[s]) /\ Tail(toCenter[s])[i - 1] = toCenter[s][i]
      /\ DOMAIN toCenter[s] \subseteq Nat \ {0}
  BY <1>1, <1>4, <1>5, TailElements
<1>7. /\ m \in Requests /\ m.connection \in Connections /\ m.connection.server = s
      /\ m.seqId \in Nat /\ m.appDynamicId \in Nat
  <2>1. m \in Requests
    BY <1>5, <1>6, RequestsAre
  <2> QED BY <2>1, <1>5, <1>6 DEF ServerInv, InOrder, Requests
<1>8. toCenter'[s] = Tail(toCenter[s]) /\ \A t \in Servers \ {s} : toCenter'[t] = toCenter[t]
  BY <1>4 DEF RegistryInv, TypeOK
<1>9. /\ id \in Nat \ {0}
      /\ id \in DOMAIN sessionMap[App(s)] => Owns(s, id)
      /\ DOMAIN sessionMap[App(s)] \cup {id} = 1..(idGenMap'[App(s)] - 1)
      /\ idGenMap' \in [Apps -> Nat \ {0}]
      /\ \A a \in Apps \ {App(s)} : idGenMap'[a] = idGenMap[a]
  <2>1. DOMAIN sessionMap[App(s)] = 1..(idGenMap[App(s)] - 1) /\ idGenMap[App(s)] \in Nat \ {0}
    BY <1>5 DEF RegistryInv, TypeOK, SessionsNumbered
  <2>2. CASE Known(m)
    <3>1. Owns(s, id)
      BY <2>2, <1>2, <1>4, <1>5, <1>6 DEF ServerInv, IdsOwned
    <3>2. id \in DOMAIN sessionMap[App(s)] /\ idGenMap' = idGenMap
      BY <3>1, <2>2, <1>4 DEF Owns
    <3> QED BY <2>1, <3>1, <3>2, <1>5 DEF RegistryInv, TypeOK
  <2>3. CASE ~Known(m)
    BY <2>1, <2>3, <1>2, <1>4, <1>5 DEF RegistryInv, TypeOK
  <2> QED BY <2>2, <2>3
<1>10. PICK f : f = [i \in DOMAIN sessionMap[App(s)] \cup {id} |->
                       IF i = id THEN m.connection ELSE sessionMap[App(s)][i]]
  OBVIOUS
<1>11. /\ sessionMap' = [sessionMap EXCEPT ![App(s)] = f]
       /\ DOMAIN f = DOMAIN sessionMap[App(s)] \cup {id}
       /\ f[id] = m.connection
       /\ \A i \in DOMAIN sessionMap[App(s)] : i # id => f[i] = sessionMap[App(s)][i]
  BY <1>4, <1>10 DEF Put
<1>12. /\ sessionMap = [a \in Apps |-> sessionMap[a]]
       /\ \A a \in Apps : sessionMap'[a] = IF a = App(s) THEN f ELSE sessionMap[a]
       /\ sessionMap' = [a \in Apps |-> sessionMap'[a]]
  <2>1. sessionMap = [a \in Apps |-> sessionMap[a]]
    BY DEF RegistryInv, TypeOK
  <2>2. \A a \in Apps : sessionMap'[a] = IF a = App(s) THEN f ELSE sessionMap[a]
    BY <2>1, <1>5, <1>11
  <2>3. sessionMap' = [a \in Apps |-> IF a = App(s) THEN f ELSE sessionMap[a]]
    BY <2>1, <1>5, <1>11
  <2> QED BY <2>1, <2>2, <2>3
<1>13. /\ Owns(s, id)'
       /\ \A x : Owns(s, x)' <=> Owns(s, x) \/ x = id
       /\ \A t \in Servers \ {s} : \A x : Owns(t, x)' <=> Owns(t, x)
       /\ \A t \in Servers \ {s} : \A x : Owns(t, x) => sessionMap'[App(t)][x] = sessionMap[App(t)][x]
  BY <1>5, <1>7, <1>9, <1>11, <1>12, AppsAre DEF Owns
<1>14. /\ ans \in Answers /\ ans.kind = "register" /\ ans.seqId = m.seqId
       /\ ans.appDynamicId = id /\ ans.centerStartTime = centerStartTime
  BY <1>3, <1>7, <1>9 DEF Answers, Kinds, RegistryInv, TypeOK
<1>15. /\ Alive(m.connection) <=> connected[s] /\ connection[s] = m.connection.number
       /\ Alive(m.connection) => m.connection = Current(s)
       /\ toServer'[s] = IF Alive(m.connection) THEN Append(toServer[s], ans) ELSE toServer[s]
       /\ \A t \in Servers \ {s} : toServer'[t] = toServer[t]
       /\ toServer[s] \in Seq(Answers) /\ toServer'[s] \in Seq(Answers)
       /\ toServer' \in [Servers -> Seq(Answers)]
  <2>1. Alive(m.connection) <=> connected[s] /\ connection[s] = m.connection.number
    BY <1>7 DEF Alive
  <2>2. Alive(m.connection) => m.connection = Current(s)
    BY <2>1, <1>7 DEF Connections, Current
  <2>3. toServer' = IF Alive(m.connection) THEN [toServer EXCEPT ![s] = Append(toServer[s], ans)]
                                           ELSE toServer
    BY <1>4, <1>7 DEF Answer, Set
  <2>4. toServer \in [Servers -> Seq(Answers)] /\ Append(toServer[s], ans) \in Seq(Answers)
    BY <1>14 DEF RegistryInv, TypeOK
  <2> QED BY <2>1, <2>2, <2>3, <2>4
<1>16. TypeOK'
  <2>1. toCenter' \in [Servers -> Seq(Requests)]
    BY <1>4, <1>6 DEF RegistryInv, TypeOK
  <2>2. \A a \in Apps : \A i \in DOMAIN sessionMap'[a] :
          sessionMap'[a][i] \in Connections /\ App(sessionMap'[a][i].server) = a
    <3>1. \A a \in Apps : \A i \in DOMAIN sessionMap[a] :
            sessionMap[a][i] \in Connections /\ App(sessionMap[a][i].server) = a
      BY DEF RegistryInv, TypeOK
    <3>2. \A i \in DOMAIN f : f[i] \in Connections /\ App(f[i].server) = App(s)
      BY <3>1, <1>5, <1>7, <1>11
    <3> QED BY <3>1, <3>2, <1>12
  <2>3. \A t \in Servers : toServer'[t] # <<>> => connected[t]
    BY <1>15 DEF RegistryInv, TypeOK
  <2>4. forgotten' \subseteq Apps
    BY <1>4, <1>5 DEF RegistryInv, TypeOK
  <2> QED BY <2>1, <2>2, <2>3, <2>4, <1>4, <1>9, <1>12, <1>15 DEF RegistryInv, TypeOK
<1>17. DownIsEmpty' /\ SessionsNumbered'
  BY <1>4, <1>9, <1>11, <1>12 DEF RegistryInv, DownIsEmpty, SessionsNumbered
<1>18. ASSUME NEW t \in Servers \ {s} PROVE ServerInv(t)'
  <2>1. forgotten \subseteq forgotten'
    BY <1>4
  <2> QED BY <2>1, <1>4, <1>8, <1>13, <1>15, Untouched
<1>19. ServerInv(s)'
  <2>1. \A i \in DOMAIN toCenter'[s] : /\ i + 1 \in DOMAIN toCenter[s]
                                       /\ toCenter'[s][i] = toCenter[s][i + 1]
                                       /\ i \in Nat \ {0}
    BY <1>6, <1>8
  <2>2. IsDeployed(s)'
    BY <1>4, <1>5 DEF ServerInv, IsDeployed
  <2>3. InOrder(s)'
    BY <2>1, <1>4, <1>5 DEF ServerInv, InOrder
  <2>4. RequestsCalled(s)'
    BY <2>1, <1>4, <1>5 DEF ServerInv, RequestsCalled, Called
  <2>5. /\ \A i \in DOMAIN toServer[s] : i \in DOMAIN toServer'[s] /\ toServer'[s][i] = toServer[s][i]
        /\ \A i \in DOMAIN toServer'[s] : \/ i \in DOMAIN toServer[s]
                                          \/ toServer'[s][i] = ans /\ Alive(m.connection)
        /\ Alive(m.connection) => \E i \in DOMAIN toServer'[s] : toServer'[s][i] = ans
    <3>1. CASE Alive(m.connection)
      BY <3>1, <1>14, <1>15, AppendElements
    <3>2. CASE ~Alive(m.connection)
      BY <3>2, <1>15
    <3> QED BY <3>1, <3>2
  <2>6. AnswersCalled(s)'
    <3>1. Alive(m.connection) => Called(s, ans)
      BY <1>4, <1>5, <1>6, <1>14, <1>15 DEF ServerInv, RequestsCalled, Called
    <3> QED BY <3>1, <2>5, <1>4, <1>5 DEF ServerInv, AnswersCalled, Called
  <2>7. IdsOwned(s)'
    <3>1. connectServerStartTime[s] = centerStartTime => Owns(s, appDynamicId[s])
      BY <1>4, <1>5 DEF ServerInv, IdsOwned
    <3>2. \A i \in DOMAIN toCenter'[s] : toCenter'[s][i].kind = "register" /\ Known(toCenter'[s][i])
            => Owns(s, toCenter'[s][i].appDynamicId)
      BY <2>1, <1>4, <1>5 DEF ServerInv, IdsOwned
    <3>3. \A i \in DOMAIN toServer'[s] : toServer'[s][i].kind = "register"
            => Owns(s, toServer'[s][i].appDynamicId) \/ toServer'[s][i].appDynamicId = id
      BY <2>5, <1>4, <1>5, <1>14 DEF ServerInv, IdsOwned
    <3> QED BY <3>1, <3>2, <3>3, <1>4, <1>13 DEF IdsOwned, Known
  <2>8. connected[s] => Connecting(s) \/ Asking(s)
    BY <1>4, <1>5, <1>6 DEF ServerInv, Registration, Told, Registered, NoneAsked
  <2>9. Registration(s)'
    <3> SUFFICES ASSUME connected[s] PROVE Connecting(s)' \/ Asking(s)' \/ Told(s)'
      BY <1>4 DEF Registration
    <3>0. CASE Connecting(s)
      <4>1. ~Alive(m.connection)
        BY <3>0, <1>4, <1>6, <1>15 DEF Connecting
      <4>2. NoneTold(s)'
        BY <3>0, <4>1, <1>15 DEF Connecting, NoneTold
      <4> QED BY <3>0, <4>2, <2>1, <1>4 DEF Connecting
    <3>1. ASSUME ~Connecting(s)
          PROVE  Asking(s) /\ \E i \in DOMAIN toCenter[s] : Asks(s, toCenter[s][i])
      BY <3>1, <2>8 DEF Asking
    <3>2. CASE ~Connecting(s) /\ Alive(m.connection)
      <4>0. PICK i \in DOMAIN toCenter[s] : Asks(s, toCenter[s][i])
        BY <3>1, <3>2
      <4>1. i = 1
        <5> SUFFICES ASSUME i # 1 PROVE FALSE
          OBVIOUS
        <5>1. 1 < i
          BY <1>6
        <5>2. toCenter[s][1].connection.number = connection[s]
          BY <3>2, <1>6, <1>15
        <5>3. toCenter[s][i].connection.number = connection[s] /\ toCenter[s][i].kind = "register"
          BY <4>0 DEF Asks
        <5>4. InOrder(s) /\ toCenter[s][1].kind = "register"
          BY <1>4, <1>5, <1>6 DEF ServerInv
        <5> QED BY <5>1, <5>2, <5>3, <5>4, <1>6 DEF InOrder
      <4>2. \A j \in DOMAIN toCenter[s] : j # 1 => toCenter[s][j].kind = "dispatch"
        <5> SUFFICES ASSUME NEW j \in DOMAIN toCenter[s], j # 1
                     PROVE  toCenter[s][j].kind = "dispatch"
          OBVIOUS
        <5>1. 1 < j
          BY <1>6
        <5>2. toCenter[s][1].connection.number <= toCenter[s][j].connection.number
          BY <5>1, <1>5, <1>6 DEF ServerInv, InOrder
        <5>3. toCenter[s][j].connection.number <= toCenter[s][1].connection.number
          BY <3>2, <1>5, <1>6, <1>15 DEF ServerInv, InOrder
        <5>4. /\ toCenter[s][1].connection.number \in Nat
              /\ toCenter[s][j].connection.number \in Nat
          BY <1>5, <1>6, RequestsAre
        <5>5. toCenter[s][1].connection.number = toCenter[s][j].connection.number
          BY <5>2, <5>3, <5>4
        <5>6. toCenter[s][j].kind \in {"register", "dispatch"}
          BY <1>5, RequestsAre
        <5> QED BY <5>1, <5>5, <5>6, <1>4, <1>5, <1>6 DEF ServerInv, InOrder
      <4>3. NoneAsked(s)'
        <5>1. \A j \in DOMAIN toCenter'[s] : j + 1 # 1
          BY <2>1
        <5> QED BY <5>1, <4>2, <2>1 DEF NoneAsked
      <4>4. NoneTold(s) /\ s \notin registering
        BY <3>1, <3>2 DEF Asking
      <4>5. PICK k \in DOMAIN toServer'[s] :
              /\ toServer'[s][k] = ans
              /\ \A j \in DOMAIN toServer'[s] : j # k => toServer'[s][j].kind = "dispatch"
        <5>1. /\ Len(toServer[s]) + 1 \in DOMAIN toServer'[s]
              /\ toServer'[s][Len(toServer[s]) + 1] = ans
              /\ \A j \in DOMAIN toServer'[s] : j \in DOMAIN toServer[s] \/ j = Len(toServer[s]) + 1
          BY <3>2, <1>14, <1>15, AppendElements
        <5> QED BY <5>1, <4>4, <2>5 DEF NoneTold
      <4>6. sessionMap'[App(s)][id] = Current(s)
        BY <3>2, <1>5, <1>11, <1>12, <1>15
      <4>7. connectServerStartTime[s] = centerStartTime => appDynamicId[s] = id
        BY <4>0, <4>1, <1>2, <1>6 DEF Asks, Known
      <4>8. Tells(s, ans)'
        BY <4>6, <4>7, <1>4, <1>14 DEF Tells, Current
      <4>9. Told(s)'
        BY <4>3, <4>4, <4>5, <4>8, <1>4 DEF Told, Tells, Current
      <4> QED BY <4>9
    <3>3. CASE ~Connecting(s) /\ ~Alive(m.connection)
      <4>0. PICK i \in DOMAIN toCenter[s] : Asks(s, toCenter[s][i])
        BY <3>1, <3>3
      <4>1. i # 1
        BY <4>0, <3>3, <1>6, <1>15 DEF Asks
      <4>2. PICK j \in DOMAIN toCenter'[s] : toCenter'[s][j] = toCenter[s][i]
        BY <4>1, <1>6, <1>8
      <4>3. NoneTold(s)'
        BY <3>1, <3>3, <1>15 DEF Asking, NoneTold
      <4> QED BY <4>0, <4>2, <4>3, <3>1, <3>3, <1>4 DEF Asking, Asks
    <3> QED BY <3>0, <3>2, <3>3
  <2>10. Remembered(s)'
    <3> SUFFICES ASSUME App(s) \notin forgotten'
                 PROVE  /\ \A x : Owns(s, x)' => Holds(s, x)'
                        /\ \A i \in DOMAIN toCenter'[s] :
                             toCenter'[s][i].kind = "register" /\ Known(toCenter'[s][i])
                               => /\ connectServerStartTime[s] = centerStartTime
                                  /\ appDynamicId[s] = toCenter'[s][i].appDynamicId
      BY <1>4 DEF Remembered, Known
    <3>1. App(s) \notin forgotten /\ (Known(m) \/ Alive(m.connection))
      BY <1>4
    <3>2. \A x : Holds(s, x) => Holds(s, x)'
      BY <2>5, <1>4 DEF Holds
    <3>3. \A x : Owns(s, x) => Holds(s, x)
      BY <3>1, <1>4, <1>5 DEF ServerInv, Remembered, Owns
    <3>4. Holds(s, id)'
      <4>1. CASE Known(m)
        BY <4>1, <3>1, <1>2, <1>4, <1>5, <1>6 DEF ServerInv, Remembered, Holds
      <4>2. CASE Alive(m.connection)
        BY <4>2, <2>5, <1>14 DEF Holds
      <4> QED BY <3>1, <4>1, <4>2
    <3> QED BY <3>1, <3>2, <3>3, <3>4, <2>1, <1>4, <1>5, <1>13 DEF ServerInv, Remembered
  <2> QED BY <2>2, <2>3, <2>4, <2>6, <2>7, <2>9, <2>10 DEF ServerInv
<1> QED BY <1>16, <1>17, <1>18, <1>19 DEF RegistryInv

\* A gate is dispatched: the answer tells the server no id.
LEMMA actionDispatchGateKeeps ==
  ASSUME RegistryInv, NEW s \in Servers, actionDispatchGate(s)
  PROVE  RegistryInv'
<1>1. PICK m : m = Head(toCenter[s])
  OBVIOUS
<1>2. PICK ans : ans = [kind |-> "dispatch", seqId |-> m.seqId, appDynamicId |-> 0,
                        centerStartTime |-> 0]
  OBVIOUS
<1>3. /\ centerUp /\ toCenter[s] # <<>> /\ m.kind = "dispatch"
      /\ UNCHANGED toServer \/ Answer(m.connection, ans)
      /\ toCenter' = [toCenter EXCEPT ![s] = Tail(toCenter[s])]
      /\ UNCHANGED <<deployed, connected, connection, registering, appDynamicId,
                     connectServerStartTime, nodeMap, waiting, centerUp, centerStartTime,
                     idGenMap, sessionMap, forgotten, faults>>
  BY <1>1, <1>2 DEF actionDispatchGate, ReplySeqId, Set, netClient, center
<1>4. toCenter[s] \in Seq(Requests) /\ ServerInv(s)
  BY DEF RegistryInv, TypeOK
<1>5. /\ 1 \in DOMAIN toCenter[s] /\ m = toCenter[s][1] /\ Tail(toCenter[s]) \in Seq(Requests)
      /\ \A i \in DOMAIN Tail(toCenter[s]) : /\ i + 1 \in DOMAIN toCenter[s]
                                             /\ Tail(toCenter[s])[i] = toCenter[s][i + 1]
                                             /\ i \in Nat \ {0}
      /\ \A i \in DOMAIN toCenter[s] : i # 1 =>
           i - 1 \in DOMAIN Tail(toCenter[s]) /\ Tail(toCenter[s])[i - 1] = toCenter[s][i]
      /\ DOMAIN toCenter[s] \subseteq Nat \ {0}
  BY <1>1, <1>3, <1>4, TailElements
<1>6. m \in Requests /\ m.connection.server = s /\ m.seqId \in Nat
  <2>1. m \in Requests
    BY <1>4, <1>5, RequestsAre
  <2> QED BY <2>1, <1>4, <1>5 DEF ServerInv, InOrder, Requests
<1>7. toCenter'[s] = Tail(toCenter[s]) /\ \A t \in Servers \ {s} : toCenter'[t] = toCenter[t]
  BY <1>3 DEF RegistryInv, TypeOK
<1>8. ans \in Answers /\ ans.kind = "dispatch" /\ ans.seqId = m.seqId
  BY <1>2, <1>6 DEF Answers, Kinds
<1>9. /\ Alive(m.connection) <=> connected[s] /\ connection[s] = m.connection.number
      /\ \/ toServer'[s] = toServer[s]
         \/ Alive(m.connection) /\ toServer'[s] = Append(toServer[s], ans)
      /\ \A t \in Servers \ {s} : toServer'[t] = toServer[t]
      /\ toServer[s] \in Seq(Answers) /\ toServer' \in [Servers -> Seq(Answers)]
  <2>1. Alive(m.connection) <=> connected[s] /\ connection[s] = m.connection.number
    BY <1>6 DEF Alive
  <2>2. \/ toServer' = toServer
        \/ Alive(m.connection) /\ toServer' = [toServer EXCEPT ![s] = Append(toServer[s], ans)]
    BY <1>3, <1>6 DEF Answer, Set
  <2>3. toServer \in [Servers -> Seq(Answers)] /\ Append(toServer[s], ans) \in Seq(Answers)
    BY <1>8 DEF RegistryInv, TypeOK
  <2> QED BY <2>1, <2>2, <2>3
<1>10. TypeOK'
  <2>1. toCenter' \in [Servers -> Seq(Requests)]
    BY <1>3, <1>5 DEF RegistryInv, TypeOK
  <2>2. \A t \in Servers : toServer'[t] # <<>> => connected[t]
    BY <1>9 DEF RegistryInv, TypeOK
  <2> QED BY <2>1, <2>2, <1>3, <1>9 DEF RegistryInv, TypeOK
<1>11. DownIsEmpty' /\ SessionsNumbered'
  BY <1>3 DEF RegistryInv, DownIsEmpty, SessionsNumbered
<1>12. ASSUME NEW t \in Servers \ {s} PROVE ServerInv(t)'
  BY <1>3, <1>7, <1>9, Untouched DEF Owns
<1>13. ServerInv(s)'
  <2>1. \A i \in DOMAIN toCenter'[s] : /\ i + 1 \in DOMAIN toCenter[s]
                                       /\ toCenter'[s][i] = toCenter[s][i + 1]
                                       /\ i \in Nat \ {0}
    BY <1>5, <1>7
  <2>2. IsDeployed(s)'
    BY <1>3, <1>4 DEF ServerInv, IsDeployed
  <2>3. InOrder(s)'
    BY <2>1, <1>3, <1>4 DEF ServerInv, InOrder
  <2>4. RequestsCalled(s)'
    BY <2>1, <1>3, <1>4 DEF ServerInv, RequestsCalled, Called
  <2>5. /\ \A i \in DOMAIN toServer[s] : i \in DOMAIN toServer'[s] /\ toServer'[s][i] = toServer[s][i]
        /\ \A i \in DOMAIN toServer'[s] : \/ i \in DOMAIN toServer[s]
                                          \/ toServer'[s][i] = ans /\ Alive(m.connection)
    <3>1. CASE toServer'[s] = toServer[s]
      BY <3>1
    <3>2. CASE Alive(m.connection) /\ toServer'[s] = Append(toServer[s], ans)
      BY <3>2, <1>8, <1>9, AppendElements
    <3> QED BY <3>1, <3>2, <1>9
  <2>6. AnswersCalled(s)'
    <3>1. Alive(m.connection) => Called(s, ans)
      BY <1>3, <1>4, <1>5, <1>8, <1>9 DEF ServerInv, RequestsCalled, Called
    <3> QED BY <3>1, <2>5, <1>3, <1>4 DEF ServerInv, AnswersCalled, Called
  <2>7. \A i \in DOMAIN toServer'[s] : toServer'[s][i].kind = "register" =>
          i \in DOMAIN toServer[s] /\ toServer'[s][i] = toServer[s][i]
    BY <2>5, <1>8
  <2>8. IdsOwned(s)'
    <3>1. connectServerStartTime[s] = centerStartTime => Owns(s, appDynamicId[s])
      BY <1>3, <1>4 DEF ServerInv, IdsOwned
    <3>2. \A i \in DOMAIN toCenter'[s] : toCenter'[s][i].kind = "register" /\ Known(toCenter'[s][i])
            => Owns(s, toCenter'[s][i].appDynamicId)
      BY <2>1, <1>3, <1>4 DEF ServerInv, IdsOwned
    <3>3. \A i \in DOMAIN toServer'[s] : toServer'[s][i].kind = "register"
            => Owns(s, toServer'[s][i].appDynamicId)
      BY <2>7, <1>3, <1>4 DEF ServerInv, IdsOwned
    <3> QED BY <3>1, <3>2, <3>3, <1>3 DEF IdsOwned, Known, Owns
  <2>9. Registration(s)'
    <3> SUFFICES ASSUME connected[s]
                 PROVE  Connecting(s)' \/ Asking(s)' \/ Told(s)' \/ Registered(s)'
      BY <1>3 DEF Registration
    <3>1. NoneAsked(s) => NoneAsked(s)'
      BY <2>1 DEF NoneAsked
    <3>2. NoneTold(s) => NoneTold(s)'
      BY <2>5, <1>8 DEF NoneTold
    <3>3. CASE Connecting(s)
      BY <3>2, <3>3, <2>1, <1>3 DEF Connecting
    <3>4. CASE Asking(s)
      <4>1. PICK i \in DOMAIN toCenter[s] : Asks(s, toCenter[s][i])
        BY <3>4 DEF Asking
      <4>2. i # 1
        BY <4>1, <1>3, <1>5 DEF Asks
      <4>3. PICK j \in DOMAIN toCenter'[s] : toCenter'[s][j] = toCenter[s][i]
        BY <4>2, <1>5, <1>7
      <4> QED BY <3>2, <3>4, <4>1, <4>3, <1>3 DEF Asking, Asks
    <3>5. CASE Told(s)
      <4>1. PICK k \in DOMAIN toServer[s] :
              /\ Tells(s, toServer[s][k])
              /\ \A i \in DOMAIN toServer[s] : i # k => toServer[s][i].kind = "dispatch"
        BY <3>5 DEF Told
      <4>2. k \in DOMAIN toServer'[s] /\ toServer'[s][k] = toServer[s][k]
        BY <2>5
      <4>3. \A i \in DOMAIN toServer'[s] : i # k => toServer'[s][i].kind = "dispatch"
        BY <4>1, <2>5, <1>8
      <4>4. PICK told : told = toServer[s][k]
        OBVIOUS
      <4>5. Tells(s, told)'
        BY <4>1, <4>4, <1>3 DEF Tells, Current
      <4> QED BY <3>1, <3>5, <4>2, <4>3, <4>4, <4>5, <1>3 DEF Told
    <3>6. CASE Registered(s)
      BY <3>1, <3>2, <3>6, <1>3 DEF Registered, Current
    <3> QED BY <3>3, <3>4, <3>5, <3>6, <1>4 DEF ServerInv, Registration
  <2>10. Remembered(s)'
    <3> SUFFICES ASSUME App(s) \notin forgotten
                 PROVE  /\ \A x : Owns(s, x)' => Holds(s, x)'
                        /\ \A i \in DOMAIN toCenter'[s] :
                             toCenter'[s][i].kind = "register" /\ Known(toCenter'[s][i])
                               => /\ connectServerStartTime[s] = centerStartTime
                                  /\ appDynamicId[s] = toCenter'[s][i].appDynamicId
      BY <1>3 DEF Remembered, Known
    <3>1. \A x : Holds(s, x) => Holds(s, x)'
      BY <2>5, <1>3 DEF Holds
    <3>2. \A x : Owns(s, x)' => Holds(s, x)
      BY <1>3, <1>4 DEF ServerInv, Remembered, Owns
    <3> QED BY <3>1, <3>2, <2>1, <1>3, <1>4 DEF ServerInv, Remembered
  <2> QED BY <2>2, <2>3, <2>4, <2>6, <2>8, <2>9, <2>10 DEF ServerInv
<1> QED BY <1>10, <1>11, <1>12, <1>13 DEF RegistryInv

----------------------------------------------------------------------------
(* Losses, crashes and restarts.                                               *)

\* A lost connection: an id of this center that goes with it is forgotten.
LEMMA LoseServerKeeps ==
  ASSUME RegistryInv, NEW s \in Servers, NEW ends \in BOOLEAN, LoseServer(s, ends)
  PROVE  RegistryInv'
<1>1. PICK n \in 0..Len(toCenter[s]) :
        toCenter' = [toCenter EXCEPT ![s] = SubSeq(toCenter[s], 1, n)]
  BY DEF LoseServer, Set
<1>2. /\ faults < MaxFaults /\ faults' = faults + 1
      /\ connected' = [t \in Servers |-> connected[t] /\ t \notin {s}]
      /\ forgotten' = IF Forgets(s, ends) THEN forgotten \cup {App(s)} ELSE forgotten
      /\ UNCHANGED <<deployed, connection, centerUp, centerStartTime, idGenMap, sessionMap>>
  BY DEF LoseServer, Fault, Lose, center
<1>3. /\ appDynamicId' = [t \in Servers |-> IF t = s /\ ends THEN 0 ELSE appDynamicId[t]]
      /\ connectServerStartTime' =
           [t \in Servers |-> IF t = s /\ ends THEN 0 ELSE connectServerStartTime[t]]
      /\ nodeMap' = [t \in Servers |-> IF t = s /\ ends THEN <<>> ELSE nodeMap[t]]
      /\ waiting' = [t \in Servers |-> IF t = s /\ ends THEN {} ELSE waiting[t]]
      /\ toServer' = [t \in Servers |-> IF t = s THEN <<>> ELSE toServer[t]]
      /\ registering' = registering \ (IF ends THEN {s} ELSE {})
  BY DEF LoseServer, Lose
<1>4. ServerInv(s) /\ toCenter[s] \in Seq(Requests) /\ centerStartTime \in Nat \ {0} /\ App(s) \in Apps
  BY AppsAre DEF RegistryInv, TypeOK
<1>5. /\ toCenter'[s] \in Seq(Requests)
      /\ \A i \in DOMAIN toCenter'[s] : i \in DOMAIN toCenter[s] /\ toCenter'[s][i] = toCenter[s][i]
      /\ \A t \in Servers \ {s} : toCenter'[t] = toCenter[t]
  BY <1>1, <1>4, PrefixElements DEF RegistryInv, TypeOK
<1>6. \A t \in Servers \ {s} :
        /\ connected'[t] = connected[t] /\ appDynamicId'[t] = appDynamicId[t]
        /\ connectServerStartTime'[t] = connectServerStartTime[t] /\ nodeMap'[t] = nodeMap[t]
        /\ toServer'[t] = toServer[t] /\ waiting'[t] = waiting[t]
        /\ t \in registering' <=> t \in registering
  <2>1. \A t \in Servers : connected[t] \in BOOLEAN
    BY DEF RegistryInv, TypeOK
  <2> QED BY <2>1, <1>2, <1>3
<1>7. /\ connected'[s] = FALSE /\ toServer'[s] = <<>>
      /\ connectServerStartTime'[s] = IF ends THEN 0 ELSE connectServerStartTime[s]
      /\ appDynamicId'[s] = IF ends THEN 0 ELSE appDynamicId[s]
  BY <1>2, <1>3
<1>8. TypeOK'
  <2>1. toCenter' \in [Servers -> Seq(Requests)]
    BY <1>1, <1>5 DEF RegistryInv, TypeOK
  <2>2. connected' \in [Servers -> BOOLEAN] /\ appDynamicId' \in [Servers -> Nat]
        /\ connectServerStartTime' \in [Servers -> Nat] /\ waiting' \in [Servers -> SUBSET Nat]
    BY <1>2, <1>3 DEF RegistryInv, TypeOK
  <2>3. nodeMap' \in [Servers -> Seq(Kinds)] /\ toServer' \in [Servers -> Seq(Answers)]
    BY <1>3 DEF RegistryInv, TypeOK
  <2>4. \A t \in Servers : /\ waiting'[t] \subseteq DOMAIN nodeMap'[t]
                           /\ toServer'[t] # <<>> => connected'[t]
                           /\ connectServerStartTime'[t] <= centerStartTime
    BY <1>2, <1>3, <1>4 DEF RegistryInv, TypeOK
  <2>5. forgotten' \subseteq Apps /\ faults' \in 0..MaxFaults
    BY <1>2, <1>4, RegistryAssumption DEF RegistryInv, TypeOK
  <2>6. registering' \subseteq Servers
    BY <1>3 DEF RegistryInv, TypeOK
  <2> QED BY <2>1, <2>2, <2>3, <2>4, <2>5, <2>6, <1>2 DEF RegistryInv, TypeOK
<1>9. DownIsEmpty' /\ SessionsNumbered'
  <2>1. \A t \in Servers : toCenter[t] = <<>> => toCenter'[t] = <<>>
    BY <1>1, <1>5
  <2>2. \A t \in Servers : ~connected[t] => ~connected'[t]
    BY <1>2
  <2> QED BY <2>1, <2>2, <1>2 DEF RegistryInv, DownIsEmpty, SessionsNumbered
<1>10. ASSUME NEW t \in Servers \ {s} PROVE ServerInv(t)'
  <2>1. forgotten \subseteq forgotten'
    BY <1>2
  <2> QED BY <2>1, <1>2, <1>5, <1>6, Untouched DEF Owns
<1>11. ServerInv(s)'
  <2>1. IsDeployed(s)' /\ InOrder(s)' /\ RequestsCalled(s)' /\ AnswersCalled(s)' /\ Registration(s)'
    BY <1>2, <1>4, <1>5, <1>7 DEF ServerInv, IsDeployed, InOrder, RequestsCalled, AnswersCalled,
       Registration
  <2>2. IdsOwned(s)'
    BY <1>2, <1>4, <1>5, <1>7 DEF ServerInv, IdsOwned, Owns, Known
  <2>3. Remembered(s)'
    <3> SUFFICES ASSUME centerUp, App(s) \notin forgotten, ~Forgets(s, ends)
                 PROVE  /\ \A x : Owns(s, x) => Holds(s, x)'
                        /\ \A i \in DOMAIN toCenter'[s] :
                             toCenter'[s][i].kind = "register" /\ Known(toCenter'[s][i])
                               => /\ connectServerStartTime'[s] = centerStartTime
                                  /\ appDynamicId'[s] = toCenter'[s][i].appDynamicId
      BY <1>2 DEF Remembered, Known, Owns
    <3>1. connectServerStartTime[s] = centerStartTime => ~ends
      BY DEF Forgets
    <3>2. ASSUME NEW x, Owns(s, x) PROVE Holds(s, x)'
      <4>1. Holds(s, x)
        BY <3>2, <1>4 DEF ServerInv, Remembered, Owns
      <4>2. connectServerStartTime[s] = centerStartTime /\ appDynamicId[s] = x
        <5> SUFFICES ASSUME NEW i \in DOMAIN toServer[s], toServer[s][i].kind = "register",
                            toServer[s][i].appDynamicId = x
                     PROVE  connectServerStartTime[s] = centerStartTime /\ appDynamicId[s] = x
          BY <4>1 DEF Holds
        <5>1. connectServerStartTime[s] = centerStartTime
          BY DEF Forgets, TellsNewId
        <5>2. connected[s] /\ toServer[s] # <<>>
          BY DEF RegistryInv, TypeOK
        <5>3. Told(s)
          BY <5>2, <1>4 DEF ServerInv, Registration, Connecting, Asking, Registered, NoneTold
        <5>4. Tells(s, toServer[s][i])
          BY <5>3 DEF Told
        <5> QED BY <5>1, <5>4 DEF Tells
      <4> QED BY <4>2, <3>1, <1>2, <1>7 DEF Holds
    <3> QED BY <3>1, <3>2, <1>4, <1>5, <1>7 DEF ServerInv, Remembered, Known
  <2> QED BY <2>1, <2>2, <2>3 DEF ServerInv
<1> QED BY <1>8, <1>9, <1>10, <1>11 DEF RegistryInv

\* The center dies: no connection, no request and no session is left.
LEMMA CenterCrashKeeps ==
  ASSUME RegistryInv, CenterCrash
  PROVE  RegistryInv'
<1>1. /\ faults < MaxFaults /\ faults' = faults + 1 /\ centerUp' = FALSE
      /\ toCenter' = [s \in Servers |-> <<>>]
      /\ idGenMap' = [a \in Apps |-> 1]
      /\ sessionMap' = [a \in Apps |-> <<>>]
      /\ forgotten' = {}
      /\ UNCHANGED <<deployed, connection, centerStartTime>>
  BY DEF CenterCrash, Fault, Lose
<1>2. PICK ended : ended = {s \in Logics : connected[s]}
  OBVIOUS
<1>3. /\ connected' = [t \in Servers |-> connected[t] /\ t \notin Servers]
      /\ appDynamicId' = [t \in Servers |-> IF t \in ended THEN 0 ELSE appDynamicId[t]]
      /\ connectServerStartTime' =
           [t \in Servers |-> IF t \in ended THEN 0 ELSE connectServerStartTime[t]]
      /\ nodeMap' = [t \in Servers |-> IF t \in ended THEN <<>> ELSE nodeMap[t]]
      /\ waiting' = [t \in Servers |-> IF t \in ended THEN {} ELSE waiting[t]]
      /\ toServer' = [t \in Servers |-> IF t \in Servers THEN <<>> ELSE toServer[t]]
      /\ registering' = registering \ ended
  BY <1>2 DEF CenterCrash, Lose
<1>4. TypeOK'
  <2>1. connected' \in [Servers -> BOOLEAN] /\ appDynamicId' \in [Servers -> Nat]
        /\ connectServerStartTime' \in [Servers -> Nat] /\ waiting' \in [Servers -> SUBSET Nat]
    BY <1>3 DEF RegistryInv, TypeOK
  <2>2. nodeMap' \in [Servers -> Seq(Kinds)] /\ toServer' \in [Servers -> Seq(Answers)]
    BY <1>3 DEF RegistryInv, TypeOK
  <2>3. toCenter' \in [Servers -> Seq(Requests)]
    BY <1>1
  <2>4. \A t \in Servers : /\ waiting'[t] \subseteq DOMAIN nodeMap'[t]
                           /\ toServer'[t] # <<>> => connected'[t]
                           /\ connectServerStartTime'[t] <= centerStartTime
    BY <1>3 DEF RegistryInv, TypeOK
  <2>5. faults' \in 0..MaxFaults
    BY <1>1, RegistryAssumption DEF RegistryInv, TypeOK
  <2>6. idGenMap' \in [Apps -> Nat \ {0}]
    BY <1>1
  <2>7. \A a \in Apps : sessionMap'[a] = <<>> /\ DOMAIN sessionMap'[a] = {}
    BY <1>1
  <2>8. sessionMap' = [a \in Apps |-> sessionMap'[a]]
    <3>1. PICK f : f = sessionMap'
      OBVIOUS
    <3>2. f = [a \in Apps |-> <<>>]
      BY <3>1, <1>1
    <3>3. f = [a \in Apps |-> f[a]]
      BY <3>2
    <3> QED BY <3>1, <3>3
  <2>9. \A a \in Apps : \A id \in DOMAIN sessionMap'[a] :
          sessionMap'[a][id] \in Connections /\ App(sessionMap'[a][id].server) = a
    BY <2>7
  <2>10. deployed' \in Deployments /\ connection' \in [Servers -> Nat] /\ centerUp' \in BOOLEAN
         /\ centerStartTime' \in Nat \ {0} /\ forgotten' \subseteq Apps
         /\ registering' \subseteq Servers
    BY <1>1, <1>3 DEF RegistryInv, TypeOK
  <2>11. \A t \in Servers : connectServerStartTime'[t] <= centerStartTime'
    BY <2>4, <1>1
  <2> QED BY <2>1, <2>2, <2>3, <2>4, <2>5, <2>6, <2>8, <2>9, <2>10, <2>11 DEF TypeOK
<1>5. DownIsEmpty' /\ SessionsNumbered'
  <2>1. \A a \in Apps : idGenMap'[a] = 1 /\ sessionMap'[a] = <<>>
    BY <1>1
  <2>2. DOMAIN <<>> = 1..(1 - 1)
    OBVIOUS
  <2>3. \A s \in Servers : ~connected'[s] /\ toCenter'[s] = <<>>
    BY <1>1, <1>3
  <2> QED BY <2>1, <2>2, <2>3 DEF DownIsEmpty, SessionsNumbered
<1>6. ASSUME NEW s \in Servers PROVE ServerInv(s)'
  <2>1. IsDeployed(s)
    BY DEF RegistryInv, ServerInv
  <2>2. IsDeployed(s)'
    BY <2>1, <1>1, <1>3 DEF IsDeployed
  <2>3. toCenter'[s] = <<>> /\ toServer'[s] = <<>> /\ connected'[s] = FALSE /\ centerUp' = FALSE
    BY <1>1, <1>3
  <2> QED BY <2>2, <2>3 DEF ServerInv, InOrder, RequestsCalled, AnswersCalled, IdsOwned, Registration,
             Remembered
<1> QED BY <1>4, <1>5, <1>6 DEF RegistryInv

\* The center starts again: its start time is after all that servers remember.
LEMMA CenterStartKeeps ==
  ASSUME RegistryInv, CenterStart
  PROVE  RegistryInv'
<1>1. /\ ~centerUp /\ centerUp' = TRUE /\ centerStartTime' = centerStartTime + 1
      /\ UNCHANGED <<deployed, connected, connection, registering, appDynamicId,
                     connectServerStartTime, nodeMap, waiting, toCenter, toServer, idGenMap,
                     sessionMap, forgotten, faults>>
  BY DEF CenterStart, netClient, network
<1>2. TypeOK'
  <2>1. \A t \in Servers : connectServerStartTime[t] <= centerStartTime + 1
    BY DEF RegistryInv, TypeOK
  <2>2. centerStartTime + 1 \in Nat \ {0}
    BY DEF RegistryInv, TypeOK
  <2> QED BY <2>1, <2>2, <1>1 DEF RegistryInv, TypeOK
<1>3. DownIsEmpty' /\ SessionsNumbered'
  BY <1>1 DEF RegistryInv, DownIsEmpty, SessionsNumbered
<1>4. ASSUME NEW s \in Servers PROVE ServerInv(s)'
  <2>1. /\ ~connected[s] /\ toCenter[s] = <<>> /\ toServer[s] = <<>>
        /\ DOMAIN sessionMap[App(s)] = {} /\ connectServerStartTime[s] # centerStartTime + 1
    BY <1>1, AppsAre DEF RegistryInv, TypeOK, DownIsEmpty, SessionsNumbered
  <2>2. IsDeployed(s)'
    BY <1>1 DEF RegistryInv, ServerInv, IsDeployed
  <2> QED BY <2>1, <2>2, <1>1 DEF ServerInv, InOrder, RequestsCalled, AnswersCalled, IdsOwned, Owns,
             Registration, Remembered
<1> QED BY <1>2, <1>3, <1>4 DEF RegistryInv

\* A step that changes nothing.
LEMMA StutterKeeps ==
  ASSUME RegistryInv, UNCHANGED vars
  PROVE  RegistryInv'
<1>1. UNCHANGED <<deployed, connected, connection, registering, appDynamicId,
                  connectServerStartTime, nodeMap, waiting, toCenter, toServer, centerUp,
                  centerStartTime, idGenMap, sessionMap, forgotten, faults>>
  BY DEF vars, netClient, network, center
<1>2. TypeOK'
  BY <1>1 DEF RegistryInv, TypeOK
<1>3. DownIsEmpty' /\ SessionsNumbered'
  BY <1>1 DEF RegistryInv, DownIsEmpty, SessionsNumbered
<1>4. ASSUME NEW s \in Servers PROVE ServerInv(s)'
  BY <1>1, Untouched DEF Owns
<1> QED BY <1>2, <1>3, <1>4 DEF RegistryInv

----------------------------------------------------------------------------
(* The theorems.                                                               *)

\* The invariant holds in every reachable state, whatever is lost and whoever
\* crashes: ids have one owner, and a registration is asked for, told or received.
THEOREM RegistryInvariant == Spec => []RegistryInv
<1>1. Init => RegistryInv
  BY InitHolds
<1>2. RegistryInv /\ [Next]_vars => RegistryInv'
  <2> SUFFICES ASSUME RegistryInv, [Next]_vars PROVE RegistryInv'
    OBVIOUS
  <2>1. ASSUME NEW s \in Servers, CenterStep(s) PROVE RegistryInv'
    BY <2>1, actionRegisterServerKeeps, actionDispatchGateKeeps DEF CenterStep
  <2>2. ASSUME NEW s \in Servers, sessionInActive(s) PROVE RegistryInv'
    <3>1. (s \in Logics) \in BOOLEAN
      OBVIOUS
    <3> QED BY <2>2, <3>1, LoseServerKeeps DEF sessionInActive
  <2>3. ASSUME NEW s \in Servers, Crash(s) PROVE RegistryInv'
    BY <2>3, LoseServerKeeps DEF Crash
  <2> QED BY <2>1, <2>2, <2>3, connectToServerKeeps, sessionCreatedKeeps,
             messageReceivedKeeps, sendRequestSyncKeeps, blockUntilResponseKeeps,
             CenterCrashKeeps, CenterStartKeeps, StutterKeeps DEF Next
<1> QED BY <1>1, <1>2, PTL DEF Spec

\* Every variable keeps its type; only a live connection has answers on it.
THEOREM RegistryTypeCorrect == Spec => []TypeOK
<1>1. RegistryInv => TypeOK
  BY DEF RegistryInv
<1> QED BY <1>1, RegistryInvariant, PTL

\* A server that has its answers is reached under the id it holds, and no other
\* server is: registerServer and its callback agree across reconnects and crashes.
THEOREM ServersReached == Spec => []RegisteredReachable
<1>1. RegistryInv => RegisteredReachable
  <2> SUFFICES ASSUME RegistryInv, NEW s \in Servers, Settled(s)
               PROVE  /\ connectServerStartTime[s] = centerStartTime
                      /\ getServerSession(App(s), appDynamicId[s]) = Current(s)
    BY DEF RegisteredReachable
  <2>1. Registered(s) /\ centerUp /\ ServerInv(s)
    BY DEF RegistryInv, DownIsEmpty, ServerInv, Registration, Connecting, Asking, Told, Settled
  <2>2. Owns(s, appDynamicId[s])
    BY <2>1 DEF ServerInv, IdsOwned, Registered
  <2> QED BY <2>1, <2>2 DEF Registered, Owns, getServerSession
<1> QED BY <1>1, RegistryInvariant, PTL

\* messageReceived finds the callback of the answer's own request: seqIds of
\* processes and runs never meet.
THEOREM AnswersMatch == Spec => []ReplyIsForRequest
<1>1. RegistryInv => ReplyIsForRequest
  BY DEF RegistryInv, ServerInv, AnswersCalled, Called, ReplyIsForRequest
<1> QED BY <1>1, RegistryInvariant, PTL

\* handPacket, actionValidLogin and actionDispatchGate find a live server of a
\* kind whose servers are registered, if no id was forgotten.
THEOREM RoutingFindsServer == Spec => []RoutedUnlessForgotten
<1>1. RegistryInv => RoutedUnlessForgotten
  <2> SUFFICES ASSUME RegistryInv, NEW a \in Apps, centerUp, a \notin forgotten,
                      \A s \in Servers : s \in deployed /\ App(s) = a => Settled(s),
                      NEW d \in deployed, App(d) = a
               PROVE  SessionFor(a) # NULL /\ Alive(SessionFor(a))
    BY DEF RoutedUnlessForgotten
  <2>1. d \in Servers
    BY RegistryAssumption DEF RegistryInv, TypeOK
  <2>2. Registered(d) /\ ServerInv(d)
    BY <2>1 DEF RegistryInv, ServerInv, Registration, Connecting, Asking, Told, Settled
  <2>3. Owns(d, appDynamicId[d])
    BY <2>2 DEF ServerInv, IdsOwned, Registered
  <2>4. PICK n \in Nat : n = idGenMap[a] - 1 /\ DOMAIN sessionMap[a] = 1..n
    BY DEF RegistryInv, TypeOK, SessionsNumbered
  <2>5. 1 \in 1..n
    BY <2>3, <2>4 DEF Owns
  <2>6. SessionFor(a) = sessionMap[a][1]
    <3>1. Min(1..n) = 1 /\ 1..n # {}
      BY <2>5 DEF Min
    <3> QED BY <3>1, <2>4, <2>5 DEF SessionFor, getServerSession, getMinLoadSession
  <2>7. PICK o \in Servers : o = sessionMap[a][1].server /\ App(o) = a
    BY <2>4, <2>5 DEF RegistryInv, TypeOK, Connections
  <2>8. Owns(o, 1) /\ ServerInv(o)
    BY <2>4, <2>5, <2>7 DEF Owns, RegistryInv
  <2>9. Holds(o, 1)
    BY <2>7, <2>8 DEF ServerInv, Remembered, Owns
  <2>10. o \in deployed
    <3>1. toServer[o] # <<>> => connected[o]
      BY DEF RegistryInv, TypeOK
    <3>2. centerStartTime # 0
      BY DEF RegistryInv, TypeOK
    <3> QED BY <3>1, <3>2, <2>8, <2>9 DEF Holds, ServerInv, IsDeployed
  <2>11. Settled(o) /\ appDynamicId[o] = 1
    BY <2>7, <2>9, <2>10 DEF Settled, Holds
  <2>12. sessionMap[a][1] = Current(o)
    BY <2>7, <2>8, <2>11 DEF Settled, ServerInv, Registration, Connecting, Asking, Told, Registered
  <2>13. sessionMap[a][1] \in Connections
    BY <2>4, <2>5 DEF RegistryInv, TypeOK
  <2> QED BY <2>6, <2>11, <2>12, <2>13, RegistryAssumption DEF Settled, Alive, Current
<1> QED BY <1>1, RegistryInvariant, PTL
=============================================================================
