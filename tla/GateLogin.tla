----------------------------- MODULE GateLogin -----------------------------
(***************************************************************************)
(* The gate's sessions: GateNetHandler, AgentManager, CocoAgent and        *)
(* GateClientHandler.  A client connects and sends ACCOUNT_LOGIN; the gate *)
(* passes it on to the center, makes an agent of the connection, and puts  *)
(* it into userMap and the connection's attribute.  The logic server's     *)
(* answer comes back through the center: the agent of its user becomes     *)
(* valid, gets its player id and is put into agentMap, through which       *)
(* messages for the player find the connection.                            *)
(*                                                                         *)
(* Each connection has its own netty thread, which runs channelRead and    *)
(* channelInactive one after the other; the connection to the center has   *)
(* another, which runs the answers and the loss of that connection.  The   *)
(* threads meet in the maps and in the agents' fields, statement by        *)
(* statement.                                                              *)
(***************************************************************************)
EXTENDS Integers, FiniteSets

CONSTANTS
  Conns,         \* client connections
  Users,
  userOf,        \* connection -> the user who logs in on it
  playerOf,      \* user -> player id, never 0
  MaxLogins,     \* bound: logins sent on one connection
  MaxLosses,     \* bound: losses of the connection to the center
  NULL

Players == {playerOf[u] : u \in Users}
Agents == [conn : Conns, login : 1..MaxLogins]

ASSUME GateAssumption ==
  /\ userOf \in [Conns -> Users]
  /\ playerOf \in [Users -> Nat \ {0}]
  /\ \A u, v \in Users : playerOf[u] = playerOf[v] => u = v
  /\ MaxLogins \in Nat /\ MaxLosses \in Nat
  /\ NULL \notin Agents

VARIABLES
  channel,     \* connection -> is it new, open, closing (inactive soon) or closed?
  reading,     \* connection -> where channelRead of a login is
  logins,      \* connection -> logins sent on it
  agent,       \* connection -> its attribute "agent"
  valid,       \* agent -> field
  playerId,    \* agent -> field
  userMap,     \* user -> agent
  agentMap,    \* player id -> agent
  requests,    \* user -> logins the center and the logic server work on
  answers,     \* user -> login results on their way to the gate
  result,      \* the agent whose result the center thread applies, and the step
  centerUp,    \* is there a connection to the center?
  losses,
  excused      \* users that logged in on two connections at a time, or of which
               \* a request or an answer was lost, turned down or came too early

clientVars == <<channel, reading, logins, agent>>
maps == <<valid, playerId, userMap, agentMap>>
centerVars == <<requests, answers, result, centerUp, losses>>
vars == <<clientVars, maps, centerVars, excused>>

Idle == [agent |-> NULL, step |-> "none"]

Init ==
  /\ channel = [c \in Conns |-> "new"]
  /\ reading = [c \in Conns |-> "none"]
  /\ logins = [c \in Conns |-> 0]
  /\ agent = [c \in Conns |-> NULL]
  /\ valid = [a \in Agents |-> FALSE]
  /\ playerId = [a \in Agents |-> 0]
  /\ userMap = [u \in Users |-> NULL]
  /\ agentMap = [p \in Players \cup {0} |-> NULL]
  /\ requests = [u \in Users |-> 0]
  /\ answers = [u \in Users |-> 0]
  /\ result = Idle
  /\ centerUp = TRUE
  /\ losses = 0
  /\ excused = {}

Set(f, x, v) == [f EXCEPT ![x] = v]
Excuse(us) == excused' = excused \cup us

----------------------------------------------------------------------------
(* The thread of a client connection.                                      *)

\* channelActive.  A second connection of a user excuses both.
channelActive(c) ==
  /\ channel[c] = "new"
  /\ channel' = Set(channel, c, "open")
  /\ Excuse({userOf[d] : d \in {e \in Conns \ {c} : /\ userOf[e] = userOf[c]
                                                   /\ channel[e] \in {"open", "closing"}}})
  /\ UNCHANGED <<reading, logins, agent, maps, centerVars>>

\* channelRead of ACCOUNT_LOGIN, up to sendRequest: the login is on its way
\* before there is an agent for it.
channelReadLogin(c) ==
  /\ channel[c] = "open"
  /\ reading[c] = "none"
  /\ logins[c] < MaxLogins
  /\ logins' = Set(logins, c, logins[c] + 1)
  /\ requests' = IF centerUp THEN Set(requests, userOf[c], requests[userOf[c]] + 1) ELSE requests
  /\ Excuse(IF centerUp THEN {} ELSE {userOf[c]})
  /\ reading' = Set(reading, c, "registerUserAgent")
  /\ UNCHANGED <<channel, agent, maps, answers, result, centerUp, losses>>

NewAgent(c) == [conn |-> c, login |-> logins[c]]

\* Fault: the agent of an earlier login stays.
registerUserAgentIfAbsent(c) ==
  /\ reading[c] = "registerUserAgent"
  /\ userMap' = IF userMap[userOf[c]] = NULL THEN Set(userMap, userOf[c], NewAgent(c)) ELSE userMap
  /\ reading' = Set(reading, c, "setAttribute")
  /\ UNCHANGED <<channel, logins, agent, valid, playerId, agentMap, centerVars, excused>>

registerUserAgent(c) ==
  /\ reading[c] = "registerUserAgent"
  /\ userMap' = Set(userMap, userOf[c], NewAgent(c))
  /\ reading' = Set(reading, c, "setAttribute")
  /\ UNCHANGED <<channel, logins, agent, valid, playerId, agentMap, centerVars, excused>>

setAttribute(c) ==
  /\ reading[c] = "setAttribute"
  /\ agent' = Set(agent, c, NewAgent(c))
  /\ reading' = Set(reading, c, "none")
  /\ UNCHANGED <<channel, logins, maps, centerVars, excused>>

\* Fault: the check of isValid is missing.
ForwardsUnchecked(c) == channel[c] = "open" /\ reading[c] = "none" /\ agent[c] # NULL

\* channelRead of another packet: once the agent is valid it is passed on, for
\* the agent's player.  Nothing changes in the gate.
Forwards(c) ==
  /\ channel[c] = "open" /\ reading[c] = "none"
  /\ agent[c] # NULL
  /\ valid[agent[c]]
channelRead(c) == Forwards(c) /\ UNCHANGED vars

\* The client leaves, or is idle for too long (userEventTriggered).
Disconnect(c) ==
  /\ channel[c] = "open"
  /\ channel' = Set(channel, c, "closing")
  /\ UNCHANGED <<reading, logins, agent, maps, centerVars, excused>>

\* channelInactive: removeAgent takes out whatever agent the player has.
channelInactive(c) ==
  /\ channel[c] = "closing"
  /\ reading[c] = "none"
  /\ channel' = Set(channel, c, "closed")
  /\ agentMap' = IF agent[c] = NULL THEN agentMap ELSE Set(agentMap, playerId[agent[c]], NULL)
  /\ UNCHANGED <<reading, logins, agent, valid, playerId, userMap, centerVars, excused>>

----------------------------------------------------------------------------
(* The center and the logic server, as the gate sees them.                 *)

\* Fault: a request that was answered is answered again.
AnswerLoginAgain(u) ==
  /\ requests[u] > 0
  /\ answers' = Set(answers, u, answers[u] + 1)
  /\ answers[u] <= MaxLogins * Cardinality(Conns)
  /\ UNCHANGED <<clientVars, maps, requests, result, centerUp, losses, excused>>

\* The character is loaded and the result is sent; it is lost while the gate
\* has no connection.
AnswerLogin(u) ==
  /\ requests[u] > 0
  /\ requests' = Set(requests, u, requests[u] - 1)
  /\ answers' = IF centerUp THEN Set(answers, u, answers[u] + 1) ELSE answers
  /\ Excuse(IF centerUp THEN {} ELSE {u})
  /\ UNCHANGED <<clientVars, maps, result, centerUp, losses>>

\* No answer: an unknown token, no logic server, or a load that failed.
TurnDown(u) ==
  /\ requests[u] > 0
  /\ requests' = Set(requests, u, requests[u] - 1)
  /\ Excuse({u})
  /\ UNCHANGED <<clientVars, maps, answers, result, centerUp, losses>>

----------------------------------------------------------------------------
(* The thread of the connection to the center.                             *)

\* Is the user's login on some connection without an agent yet?
Unregistered(u) == \E c \in Conns : userOf[c] = u /\ reading[c] = "registerUserAgent"

\* actionLoginResult: getAgentByUserId, then setValid, setPlayerId and
\* registerAgent.  (The message to the client changes nothing here.)
getAgentByUserId(u) ==
  /\ result = Idle
  /\ answers[u] > 0
  /\ answers' = Set(answers, u, answers[u] - 1)
  /\ result' = IF userMap[u] = NULL THEN Idle ELSE [agent |-> userMap[u], step |-> "setValid"]
  /\ Excuse(IF Unregistered(u) THEN {u} ELSE {})
  /\ UNCHANGED <<clientVars, maps, requests, centerUp, losses>>

setValid ==
  /\ result.step = "setValid"
  /\ valid' = Set(valid, result.agent, TRUE)
  /\ result' = [result EXCEPT !.step = "setPlayerId"]
  /\ UNCHANGED <<clientVars, playerId, userMap, agentMap, requests, answers, centerUp, losses,
                 excused>>

\* Fault: the player id is not set.
setPlayerIdNot ==
  /\ result.step = "setPlayerId"
  /\ result' = [result EXCEPT !.step = "registerAgent"]
  /\ UNCHANGED <<clientVars, maps, requests, answers, centerUp, losses, excused>>

setPlayerId ==
  /\ result.step = "setPlayerId"
  /\ playerId' = Set(playerId, result.agent, playerOf[userOf[result.agent.conn]])
  /\ result' = [result EXCEPT !.step = "registerAgent"]
  /\ UNCHANGED <<clientVars, valid, userMap, agentMap, requests, answers, centerUp, losses,
                 excused>>

\* Fault: the agent of an earlier connection stays.
registerAgentIfAbsent ==
  /\ result.step = "registerAgent"
  /\ agentMap' = IF agentMap[playerId[result.agent]] # NULL THEN agentMap
                 ELSE Set(agentMap, playerId[result.agent], result.agent)
  /\ result' = Idle
  /\ UNCHANGED <<clientVars, valid, playerId, userMap, requests, answers, centerUp, losses,
                 excused>>

registerAgent ==
  /\ result.step = "registerAgent"
  /\ agentMap' = Set(agentMap, playerId[result.agent], result.agent)
  /\ result' = Idle
  /\ UNCHANGED <<clientVars, valid, playerId, userMap, requests, answers, centerUp, losses,
                 excused>>

\* The connection to the center is lost: closeAll closes the connections of the
\* agents in agentMap, and no other.  Answers on their way are lost; what the
\* center and the logic server work on may be, too.
sessionInActive ==
  /\ result = Idle
  /\ centerUp
  /\ losses < MaxLosses
  /\ centerUp' = FALSE
  /\ losses' = losses + 1
  /\ channel' = [c \in Conns |->
                   IF channel[c] = "open" /\ \E p \in Players : /\ agentMap[p] # NULL
                                                               /\ agentMap[p].conn = c
                   THEN "closing" ELSE channel[c]]
  /\ answers' = [u \in Users |-> 0]
  /\ \E stay \in BOOLEAN :
       /\ requests' = IF stay THEN requests ELSE [u \in Users |-> 0]
       /\ Excuse({u \in Users : answers[u] > 0 \/ (~stay /\ requests[u] > 0)})
  /\ UNCHANGED <<reading, logins, agent, maps, result>>

Reconnect ==
  /\ ~centerUp
  /\ centerUp' = TRUE
  /\ UNCHANGED <<clientVars, maps, requests, answers, result, losses, excused>>

----------------------------------------------------------------------------
ConnThread(c) == registerUserAgent(c) \/ setAttribute(c) \/ channelInactive(c)
CenterThread ==
  \/ \E u \in Users : getAgentByUserId(u)
  \/ setValid
  \/ setPlayerId
  \/ registerAgent

Next ==
  \/ \E c \in Conns : \/ channelActive(c)
                      \/ channelReadLogin(c)
                      \/ channelRead(c)
                      \/ Disconnect(c)
                      \/ ConnThread(c)
  \/ \E u \in Users : AnswerLogin(u) \/ TurnDown(u)
  \/ CenterThread
  \/ sessionInActive
  \/ Reconnect

\* Threads run what they began; a login is answered or turned down in the end;
\* the gate connects again.  Nobody is made to connect, to log in or to leave.
Fairness ==
  /\ \A c \in Conns : WF_vars(ConnThread(c))
  /\ WF_vars(CenterThread)
  /\ \A u \in Users : WF_vars(AnswerLogin(u) \/ TurnDown(u))
  /\ WF_vars(Reconnect)

Spec == Init /\ [][Next]_vars /\ Fairness

----------------------------------------------------------------------------
(* Properties.                                                             *)

LoginsOf(u) == {a \in Agents : userOf[a.conn] = u /\ a.login <= logins[a.conn]}

\* Every variable holds a value of its kind, and there are no more requests and
\* answers about than logins were sent.
TypeOK ==
  /\ channel \in [Conns -> {"new", "open", "closing", "closed"}]
  /\ reading \in [Conns -> {"none", "registerUserAgent", "setAttribute"}]
  /\ logins \in [Conns -> 0..MaxLogins]
  /\ agent \in [Conns -> Agents \cup {NULL}]
  /\ valid \in [Agents -> BOOLEAN]
  /\ playerId \in [Agents -> Players \cup {0}]
  /\ userMap \in [Users -> Agents \cup {NULL}]
  /\ agentMap \in [Players \cup {0} -> Agents \cup {NULL}]
  /\ requests \in [Users -> Nat]
  /\ answers \in [Users -> Nat]
  /\ \A u \in Users : requests[u] + answers[u] <= Cardinality(LoginsOf(u))
  /\ result = Idle \/ result \in [agent : Agents, step : {"setValid", "setPlayerId", "registerAgent"}]
  /\ centerUp \in BOOLEAN
  /\ losses \in 0..MaxLosses
  /\ excused \subseteq Users

\* "Only game packets after the login was verified are sent to the center": a
\* packet is passed on for the connection's own player.  Only one that is read
\* while the result of the login is being applied can go out for player 0.
ForwardsOwnPlayer ==
  \A c \in Conns : Forwards(c) =>
    \/ playerId[agent[c]] = playerOf[userOf[c]]
    \/ playerId[agent[c]] = 0 /\ result.agent = agent[c]

\* A message for a player is written to a connection of its own user, whatever
\* logins and results of the two have crossed; nothing is kept for player 0.
AgentMapIsOwn ==
  /\ agentMap[0] = NULL
  /\ \A p \in Players : agentMap[p] # NULL =>
       /\ playerOf[userOf[agentMap[p].conn]] = p
       /\ valid[agentMap[p]]

\* While the player has one connection at a time, a client that is logged in gets
\* the messages for its player: results of an earlier connection that come late,
\* an earlier connection's end and further logins do not take the connection out
\* of agentMap.
LoggedInIsReachable ==
  \A c \in Conns :
    /\ channel[c] = "open" /\ userOf[c] \notin excused
    /\ agent[c] # NULL /\ valid[agent[c]]
    /\ result.agent # agent[c]
    => LET a == agentMap[playerOf[userOf[c]]] IN a # NULL /\ a.conn = c

\* A login whose agent is in place while its request or answer is about ends: the
\* agent becomes valid, unless the client leaves or logs in again, or the user
\* is excused.
LoginCompletes ==
  \A a \in Agents :
    LET c == a.conn
        u == userOf[c]
    IN  (agent[c] = a /\ requests[u] + answers[u] > 0)
          ~> (valid[a] \/ channel[c] # "open" \/ agent[c] # a \/ u \in excused)
============================================================================
