--------------------------- MODULE ServerRegistry ---------------------------
(***************************************************************************)
(* How the gate, logic and login servers find each other through the       *)
(* center: NetClient and SyncResponse on their side, ServerManager and     *)
(* CenterModule on the center's.  A server connects, registers with the id *)
(* it had and the start time of the center that gave it, and is told an    *)
(* id; the center keeps the session of every id it gave and sends what is  *)
(* for a logic server to id 1 and what is for a gate to the first session. *)
(* The login server asks for a gate, waiting for the answer at most ten    *)
(* seconds.                                                                *)
(*                                                                         *)
(* Connections are lost, processes and the center die and are started      *)
(* again, at any moment.  The center runs requests one by one on an actor: *)
(* what has reached its queue is run even when the connection is gone.     *)
(***************************************************************************)
EXTENDS Integers, Sequences, FiniteSets, FiniteSetsExt

CONSTANTS
  Gates, Logics, Logins,   \* the server processes of each kind
  Deployments,             \* the sets of processes that may be started
  MaxFaults,               \* bound: losses, crashes and center crashes
  MaxRequests,             \* bound: requests for a gate per process run
  NULL

Apps == {"gate", "logic", "login"}
Servers == Gates \cup Logics \cup Logins
App(s) == IF s \in Gates THEN "gate" ELSE IF s \in Logics THEN "logic" ELSE "login"

\* What travels: a connection is a server and a number, a packet has a seqId.
Kinds == {"register", "dispatch"}
Connections == [server : Servers, number : Nat]
Requests == [kind : Kinds, seqId : Nat, connection : Connections, appDynamicId : Nat,
             connectServerStartTime : Nat]
Answers == [kind : Kinds, seqId : Nat, appDynamicId : Nat, centerStartTime : Nat]

ASSUME RegistryAssumption ==
  /\ Gates \cap Logics = {} /\ Gates \cap Logins = {} /\ Logics \cap Logins = {}
  /\ Deployments \subseteq SUBSET Servers
  /\ MaxFaults \in Nat
  /\ MaxRequests \in Nat
  /\ NULL \notin Connections

VARIABLES
  deployed,                \* the processes that are started
  \* a server's NetClient
  connected,               \* server -> has it a connection?
  connection,              \* server -> number of its last connection
  registering,             \* servers with a new connection they have not registered on
  appDynamicId,            \* server -> the id it was told, or 0
  connectServerStartTime,  \* server -> the start time it was told, or 0
  nodeMap,                 \* server -> its callbacks, by seqId
  waiting,                 \* server -> seqIds a thread waits for the answer of
  \* the network and the center's actor
  toCenter,                \* server -> its requests, those of dead connections too
  toServer,                \* server -> the answers on its connection
  \* the center
  centerUp,
  centerStartTime,
  idGenMap,                \* app -> the next id
  sessionMap,              \* app -> id -> connection
  \* bookkeeping
  forgotten,               \* apps of which an id was given that no process knows
  faults

netClient == <<deployed, connected, connection, registering, appDynamicId,
               connectServerStartTime, nodeMap, waiting>>
network == <<toCenter, toServer>>
center == <<centerUp, centerStartTime, idGenMap, sessionMap>>
vars == <<netClient, network, center, forgotten, faults>>

Set(f, s, v) == [f EXCEPT ![s] = v]

Init ==
  /\ deployed \in Deployments
  /\ connected = [s \in Servers |-> FALSE]
  /\ connection = [s \in Servers |-> 0]
  /\ registering = {}
  /\ appDynamicId = [s \in Servers |-> 0]
  /\ connectServerStartTime = [s \in Servers |-> 0]
  /\ nodeMap = [s \in Servers |-> <<>>]
  /\ waiting = [s \in Servers |-> {}]
  /\ toCenter = [s \in Servers |-> <<>>]
  /\ toServer = [s \in Servers |-> <<>>]
  /\ centerUp = TRUE
  /\ centerStartTime = 1
  /\ idGenMap = [a \in Apps |-> 1]
  /\ sessionMap = [a \in Apps |-> <<>>]
  /\ forgotten = {}
  /\ faults = 0

\* A connection is alive while it is the last one of its server.
Alive(c) == connected[c.server] /\ connection[c.server] = c.number
Current(s) == [server |-> s, number |-> connection[s]]

----------------------------------------------------------------------------
(* NetClient.                                                              *)

\* sendRequest with a callback: the packet's seqId is the next of the process.
\* What is written to a dead connection is lost.
sendRequest(s, kind, number, alive) ==
  /\ nodeMap' = Set(nodeMap, s, Append(nodeMap[s], kind))
  /\ toCenter' =
       IF alive
       THEN Set(toCenter, s,
                Append(toCenter[s],
                       [kind |-> kind,
                        seqId |-> Len(nodeMap[s]) + 1,
                        connection |-> [server |-> s, number |-> number],
                        appDynamicId |-> appDynamicId[s],
                        connectServerStartTime |-> connectServerStartTime[s]]))
       ELSE toCenter

\* Fault: a login server is not among those that connect again.
connectsOnce(s) ==
  /\ s \in deployed
  /\ ~connected[s]
  /\ centerUp
  /\ s \notin registering
  /\ s \in Logins => connection[s] = 0
  /\ connected' = Set(connected, s, TRUE)
  /\ connection' = Set(connection, s, connection[s] + 1)
  /\ registering' = registering \cup {s}
  /\ UNCHANGED <<deployed, appDynamicId, connectServerStartTime, nodeMap, waiting, network,
                 center, forgotten, faults>>

\* connectToServer succeeds, at the start, five seconds after a loss, or five
\* seconds after it failed: every thread writes to the new session from now on.
connectToServer(s) ==
  /\ s \in deployed
  /\ ~connected[s]
  /\ centerUp
  /\ s \notin registering
  /\ connected' = Set(connected, s, TRUE)
  /\ connection' = Set(connection, s, connection[s] + 1)
  /\ registering' = registering \cup {s}
  /\ UNCHANGED <<deployed, appDynamicId, connectServerStartTime, nodeMap, waiting, network,
                 center, forgotten, faults>>

\* sessionCreated goes on and registers, on a connection that may be lost again.
sessionCreated(s) ==
  /\ s \in registering
  /\ registering' = registering \ {s}
  /\ sendRequest(s, "register", connection[s], connected[s])
  /\ UNCHANGED <<deployed, connected, connection, appDynamicId, connectServerStartTime, waiting,
                 toServer, center, forgotten, faults>>

\* messageReceived: the callback of the answer's seqId runs: that of a register
\* request, or a SyncResponse, which wakes its thread if it still waits.  The
\* event loop that runs sessionCreated comes to it afterwards.
messageReceived(s) ==
  /\ s \notin registering
  /\ toServer[s] # <<>>
  /\ LET m == Head(toServer[s]) IN
     CASE nodeMap[s][m.seqId] = "register" ->
            /\ appDynamicId' = Set(appDynamicId, s, m.appDynamicId)
            /\ connectServerStartTime' = Set(connectServerStartTime, s, m.centerStartTime)
            /\ UNCHANGED waiting
       [] nodeMap[s][m.seqId] = "dispatch" ->
            /\ waiting' = Set(waiting, s, waiting[s] \ {m.seqId})
            /\ UNCHANGED <<appDynamicId, connectServerStartTime>>
  /\ toServer' = Set(toServer, s, Tail(toServer[s]))
  /\ UNCHANGED <<deployed, connected, connection, registering, nodeMap, toCenter, center,
                 forgotten, faults>>

\* LoginHandler.handleFastLogin: sendRequestSync(CENTER_DISPATCH_GATE).
sendRequestSync(s) ==
  /\ s \in Logins
  /\ connection[s] > 0
  /\ Cardinality({q \in DOMAIN nodeMap[s] : nodeMap[s][q] = "dispatch"}) < MaxRequests
  /\ sendRequest(s, "dispatch", connection[s], connected[s])
  /\ waiting' = Set(waiting, s, waiting[s] \cup {Len(nodeMap[s]) + 1})
  /\ UNCHANGED <<deployed, connected, connection, registering, appDynamicId,
                 connectServerStartTime, toServer, center, forgotten, faults>>

\* blockUntilResponse gives up after ten seconds; the callback stays.
blockUntilResponse(s) ==
  /\ \E q \in waiting[s] : waiting' = Set(waiting, s, waiting[s] \ {q})
  /\ UNCHANGED <<deployed, connected, connection, registering, appDynamicId,
                 connectServerStartTime, nodeMap, network, center, forgotten, faults>>

----------------------------------------------------------------------------
(* The center.                                                             *)

\* Fault: the answer keeps the seqId of its own packet.
ReplySeqIdOwn(m) == 1

\* packet.setSeqId(srcPacket.getSeqId()).
ReplySeqId(m) == m.seqId

\* Faults: every registration gets a new id; the center's start is not compared.
KnownNever(m) == FALSE
KnownByAnyCenter(m) == m.connectServerStartTime # 0

\* registerServer: the id is kept by a server that had it from this center.
Known(m) == m.connectServerStartTime = centerStartTime
\* geneAppDynamicId.
NextId(app) == [idGenMap EXCEPT ![app] = @ + 1]

\* appSessionMap.put.
Put(app, id, c) ==
  [sessionMap EXCEPT ![app] = [i \in DOMAIN @ \cup {id} |-> IF i = id THEN c ELSE @[i]]]

\* Fault: the answer goes to whatever connection the server has.
AnswerAnyway(c, m) ==
  toServer' = Set(toServer, c.server, Append(toServer[c.server], m))

\* writeAndFlush on the connection of a request: lost if it is dead.
Answer(c, m) ==
  toServer' = IF Alive(c) THEN Set(toServer, c.server, Append(toServer[c.server], m))
                          ELSE toServer

\* actionRegisterServer.
actionRegisterServer(s) ==
  LET m == Head(toCenter[s])
      id == IF Known(m) THEN m.appDynamicId ELSE idGenMap[App(s)]
  IN
  /\ centerUp
  /\ toCenter[s] # <<>>
  /\ m.kind = "register"
  /\ idGenMap' = IF Known(m) THEN idGenMap ELSE NextId(App(s))
  /\ sessionMap' = Put(App(s), id, m.connection)
  /\ Answer(m.connection, [kind |-> "register", seqId |-> ReplySeqId(m), appDynamicId |-> id,
                           centerStartTime |-> centerStartTime])
  /\ toCenter' = Set(toCenter, s, Tail(toCenter[s]))
  /\ forgotten' = IF Known(m) \/ Alive(m.connection) THEN forgotten
                                                     ELSE forgotten \cup {App(s)}
  /\ UNCHANGED <<netClient, centerUp, centerStartTime, faults>>

\* getMinLoadSession: all loads are 0 and the map is ordered by id.
getMinLoadSession(app) ==
  IF DOMAIN sessionMap[app] = {} THEN NULL ELSE sessionMap[app][Min(DOMAIN sessionMap[app])]
\* getServerSession.
getServerSession(app, id) ==
  IF id \in DOMAIN sessionMap[app] THEN sessionMap[app][id] ELSE NULL

\* actionDispatchGate: no gate, no answer.
actionDispatchGate(s) ==
  LET m == Head(toCenter[s]) IN
  /\ centerUp
  /\ toCenter[s] # <<>>
  /\ m.kind = "dispatch"
  /\ IF getMinLoadSession("gate") = NULL
     THEN UNCHANGED toServer
     ELSE Answer(m.connection, [kind |-> "dispatch", seqId |-> ReplySeqId(m), appDynamicId |-> 0,
                                centerStartTime |-> 0])
  /\ toCenter' = Set(toCenter, s, Tail(toCenter[s]))
  /\ UNCHANGED <<netClient, center, forgotten, faults>>

\* handPacket sends what is for a logic server to id 1 and the rest to the
\* first session; actionValidLogin sends a login to logic id 1.
SessionFor(app) == IF app = "logic" THEN getServerSession(app, 1) ELSE getMinLoadSession(app)

----------------------------------------------------------------------------
(* Faults.                                                                 *)

Fault == faults < MaxFaults /\ faults' = faults + 1

\* The servers of set dead lose their connections, those of set ended their
\* memory too.
Lose(dead, ended) ==
  /\ connected' = [s \in Servers |-> connected[s] /\ s \notin dead]
  /\ appDynamicId' = [s \in Servers |-> IF s \in ended THEN 0 ELSE appDynamicId[s]]
  /\ connectServerStartTime' =
       [s \in Servers |-> IF s \in ended THEN 0 ELSE connectServerStartTime[s]]
  /\ nodeMap' = [s \in Servers |-> IF s \in ended THEN <<>> ELSE nodeMap[s]]
  /\ waiting' = [s \in Servers |-> IF s \in ended THEN {} ELSE waiting[s]]
  /\ toServer' = [s \in Servers |-> IF s \in dead THEN <<>> ELSE toServer[s]]
  /\ registering' = registering \ ended
  /\ UNCHANGED <<deployed, connection>>

\* Does an id given by this center go with what s loses?
TellsNewId(s, m) == m.kind = "register" /\ ~(connectServerStartTime[s] = centerStartTime)
Forgets(s, ends) ==
  \/ \E i \in DOMAIN toServer[s] : TellsNewId(s, toServer[s][i])
  \/ ends /\ connectServerStartTime[s] = centerStartTime

\* Some of the requests have reached the actor's queue and stay.
LoseServer(s, ends) ==
  /\ Fault
  /\ Lose({s}, IF ends THEN {s} ELSE {})
  /\ \E n \in 0..Len(toCenter[s]) : toCenter' = Set(toCenter, s, SubSeq(toCenter[s], 1, n))
  /\ forgotten' = IF Forgets(s, ends) THEN forgotten \cup {App(s)} ELSE forgotten
  /\ UNCHANGED center

\* sessionInActive: the connection is lost; a logic server ends.
sessionInActive(s) ==
  /\ connected[s]
  /\ LoseServer(s, s \in Logics)

\* A process dies and is started again.
Crash(s) == s \in deployed /\ LoseServer(s, TRUE)

\* The center dies with all it knows, and is started again.
CenterCrash ==
  /\ centerUp
  /\ Fault
  /\ centerUp' = FALSE
  /\ Lose(Servers, {s \in Logics : connected[s]})
  /\ toCenter' = [s \in Servers |-> <<>>]
  /\ idGenMap' = [a \in Apps |-> 1]
  /\ sessionMap' = [a \in Apps |-> <<>>]
  /\ forgotten' = {}
  /\ UNCHANGED centerStartTime

CenterStart ==
  /\ ~centerUp
  /\ centerUp' = TRUE
  /\ centerStartTime' = centerStartTime + 1
  /\ UNCHANGED <<netClient, network, idGenMap, sessionMap, forgotten, faults>>

----------------------------------------------------------------------------
CenterStep(s) == actionRegisterServer(s) \/ actionDispatchGate(s)

Next ==
  \/ \E s \in Servers : \/ connectToServer(s)
                        \/ sessionCreated(s)
                        \/ messageReceived(s)
                        \/ sendRequestSync(s)
                        \/ blockUntilResponse(s)
                        \/ CenterStep(s)
                        \/ sessionInActive(s)
                        \/ Crash(s)
  \/ CenterCrash
  \/ CenterStart

\* Processes that ended and the center are started again, connecting is retried
\* for ever, event loops go on, what was written arrives, actors run, and
\* semaphores time out.
Fairness ==
  /\ WF_vars(CenterStart)
  /\ \A s \in Servers : /\ WF_vars(connectToServer(s))
                        /\ WF_vars(sessionCreated(s))
                        /\ WF_vars(CenterStep(s))
                        /\ WF_vars(messageReceived(s))
                        /\ WF_vars(blockUntilResponse(s))

Spec == Init /\ [][Next]_vars /\ Fairness

----------------------------------------------------------------------------
(* Properties.                                                             *)

\* Every variable holds a value of its kind, and only a connection that is
\* alive has answers on it.
TypeOK ==
  /\ deployed \in Deployments
  /\ connected \in [Servers -> BOOLEAN]
  /\ connection \in [Servers -> Nat]
  /\ registering \subseteq Servers
  /\ appDynamicId \in [Servers -> Nat]
  /\ connectServerStartTime \in [Servers -> Nat]
  /\ nodeMap \in [Servers -> Seq(Kinds)]
  /\ toCenter \in [Servers -> Seq(Requests)]
  /\ toServer \in [Servers -> Seq(Answers)]
  /\ waiting \in [Servers -> SUBSET Nat]
  /\ sessionMap = [a \in Apps |-> sessionMap[a]]
  /\ \A s \in Servers : /\ waiting[s] \subseteq DOMAIN nodeMap[s]
                        /\ toServer[s] # <<>> => connected[s]
                        /\ connectServerStartTime[s] <= centerStartTime
  /\ centerUp \in BOOLEAN
  /\ centerStartTime \in Nat \ {0}
  /\ idGenMap \in [Apps -> Nat \ {0}]
  /\ \A a \in Apps : \A id \in DOMAIN sessionMap[a] :
       sessionMap[a][id] \in Connections /\ App(sessionMap[a][id].server) = a
  /\ forgotten \subseteq Apps
  /\ faults \in 0..MaxFaults

\* Has s registered on its present connection, and is everything it asked for there
\* answered and received?
Settled(s) ==
  connected[s] /\ s \notin registering /\ toCenter[s] = <<>> /\ toServer[s] = <<>>

\* A server that has its answers holds an id of the present center, and what the
\* center sends to this id reaches it and not another: through losses, crashes on
\* either side and lost answers no two processes of a kind share an id.
RegisteredReachable ==
  \A s \in Servers : Settled(s) =>
    /\ connectServerStartTime[s] = centerStartTime
    /\ getServerSession(App(s), appDynamicId[s]) = Current(s)

\* An answer finds the callback of its own request, after reconnects and
\* restarts and after its thread gave up waiting too: seqIds of different
\* processes and runs never meet.
ReplyIsForRequest ==
  \A s \in Servers : \A i \in DOMAIN toServer[s] :
    LET m == toServer[s][i] IN
    m.seqId \in DOMAIN nodeMap[s] /\ nodeMap[s][m.seqId] = m.kind

\* When all servers of a kind are registered, what is for that kind reaches one
\* of them, unless a process forgot or never heard an id this center gave: the
\* session of a lost connection is replaced, not left in front.
RoutedUnlessForgotten ==
  \A a \in Apps :
    /\ centerUp /\ a \notin forgotten
    /\ \A s \in Servers : s \in deployed /\ App(s) = a => Settled(s)
    /\ \E s \in deployed : App(s) = a
    => SessionFor(a) # NULL /\ Alive(SessionFor(a))

\* Faults over, every server is registered and stays so.
EventuallyRegistered ==
  <>[](\A s \in deployed :
         /\ connected[s] /\ connectServerStartTime[s] = centerStartTime
         /\ getServerSession(App(s), appDynamicId[s]) = Current(s))

\* A player's requests reach the logic server once it is registered: the center
\* leaves the login to it ("let logic do the login").
LogicIsRouted ==
  \A s \in Logics : Settled(s) => SessionFor("logic") = Current(s)
=============================================================================
