# wz_game: a TLA+ verification project

The repository holds a card-RPG game: a Unity client (`godsg/`), the servers in
Java (`game_server/`), an older generation of the same servers over a home-made
RMI (`server/`, `simple_rmi/`), copies of shared code (`common_util/`), tools and
vendored code (`db_tool/`, `conf/`, `sql/`). The program's own logic that is hard
to get right is in `game_server/`; this project specifies that part, checks it
with TLC on small instances and proves the central facts with TLAPS.

## 1. The system

    client --HTTP--> login_server --+
    client --TCP---> gate_server ---+--> center_server <--> logic_server --> MySQL
                                    log_server --^

Every server connects to the center and registers there. A login goes client →
gate → center → logic, which loads the character and answers along the same path.

| component | state | operations | interacts with | what makes it correct |
|---|---|---|---|---|
| **DbCache** (logic) | pool of nodes, hash table, LRU ring in two parts, dirty FIFO, three counters | occupy, query, setData, setDirty, getNextDirtyNodeAndClean | DataManager, from several threads, under `cache_mutex` | lists, counters and hash agree; a key is refused only when the pool is used up; unsaved and reserved nodes are never evicted |
| **DbRecord / CommonModule** | rows of one table of one character, each VALID, NEW or DELETE | load, update, getData, save | CharData, DBUtil | marks stay sound when a transaction fails; a save installs the last update |
| **DataManager, CharData, MulSearch** | chains of login callbacks per character, CharData objects, queues of loads and saves | loadChar, the load task, DB_CHECK, save_player, saveAll | netty thread, load_db, db_actor and db_check actors, database | every login is answered, every change is saved, one object per character, no reservation left behind |
| **Actor** | bounded queue, `running`, `stopWhenEmpty`, a thread | put (waiting, timed, immediate), callback to another actor, stop, stopWhenEmpty, waitForStop | everything | items run once and in order; a shutdown drains |
| ActorDispatcher, ActTimer | array of actors; scheduled tasks | getActor; register, cancel | actors | same id, same actor; ticks repeat |
| ServerManager, CenterModule, NetClient | sessions by application and dynamic id | register, reconnect, route | all servers | a request reaches a live server |
| Gate: AgentManager, GateNetHandler | agents by user and by player, an agent per connection | login, login result, packets, disconnect | clients, center | a packet is forwarded as the player of its connection |
| NetClient, SyncResponse | pending requests by sequence id | sendRequest, sendRequestSync, messageReceived | all servers | an answer reaches its request, once |
| codecs | partly received frame | decode | netty | any cut of the stream gives the same packets |
| login_server, log_server | none between requests | HTTP login; writing logs | center, database | |
| game entities | heroes, equipment, bag, resources | game messages | one character | resource arithmetic |

What is hard here: four kinds of threads work on one character (netty, load_db,
db_check, db_actor) and share its CharData and its cache node, each holding locks only
briefly; the cache evicts; a save has several transactions, each of which may fail;
the process is ended by `System.exit`; actors are shut down while others put tasks
into them; connections, servers and the center come and go while requests are on their
way; the gate's threads meet in agents and maps statement by statement; TCP cuts the
packets anywhere. `PROJECT.json` lists these hazards one by one with the line where
each bites.

## 2. Modules

| module | models | kind |
|---|---|---|
| `WriteBackCache` | what the character cache promises its callers | abstract |
| `DbCache` | `db/cache/DbCache.java` | component |
| `DbCacheRefinement` | the mapping from `DbCache` to `WriteBackCache` | refinement |
| `DbRecord` | `db/data/DbRecord.java`, `CommonModule.java`, the two transactions of `DBUtil` | component |
| `DataManager` | `DataManager`, `CharData`, `MulSearch`, `PlayerManager/Saver/Loader`, `LogicHandler`'s login, over `DbCache` | composition |
| `Actor` | `common/actor/Actor.java` | component |
| `ServerRegistry` | `NetClient`, `SyncResponse`, `ServerManager`, `CenterModule`, `CenterMessageHandler`, `LoginHandler`'s request | composition |
| `GateLogin` | `GateNetHandler`, `GateClientHandler`, `AgentManager`, `CocoAgent`, `GateApp`'s close callback | component |
| `FrameFifo` | what a connection promises to the code on both ends | abstract |
| `Codec` | `MessageDecoder/Encoder`, `GateDecoder`, `CocoPacket`, `PacketCreator`, `LittleEndianByteBufUtil`, the client's `Packet`, `LogicRecvHandler`, `TSocket`, `SocketSendBuf` | component, and its mapping to `FrameFifo` |
| `ListLemmas` | what `Tail`, `Append`, `Cons`, `RemoveAt` and concatenation do to membership and injectivity; induction over the numbers; lists of lists, one after another | lemmas |
| `DbCacheProofs`, `DbRecordProofs`, `DataManagerProofs`, `ActorProofs`, `ServerRegistryProofs`, `GateLoginProofs`, `CodecProofs` | theorems about the component each is named for | proofs |
| `MCDbCache`, `MCDbRecord`, `MCDataManager`, `MCActor`, `MCServerRegistry`, `MCGateLogin`, `MCCodec` | instances for TLC | |

Definitions named `...` after a comment "Fault:" are wrong variants of the
definition that follows. No specification uses them. Putting one in the place of
its original must make TLC report the property named with it in `PROJECT.json`;
that shows the property depends on that line of the code.

### DbCache

Each public method holds `cache_mutex` throughout and is one action (one action
per outcome: `OccupyFree`, `OccupyEvict`, `OccupyPresent`, `OccupyFail` are the
four ways through `occupy`). Linked lists are sequences: `mem`, the two parts of
the LRU ring around `lru_mid` (`lru_clean`, `lru_dirty`), `dirty_list`, and one
chain per hash bucket. The three counters are variables of their own, changed
where the code changes them, because `malloc` decides by `clean_size` and not by
the list. `DLIST_DEL` of a node that is in no list is harmless in the code (it
points to itself), which is what `Unlink` does.

`WriteBackCache` has none of that: a set of keys being loaded, a sequence of clean
keys in LRU order, a sequence of unsaved keys in FIFO order, and the object of each
key. `DbCacheRefinement` maps the lists of nodes to sequences of the nodes' keys
and what `hashFind` sees to the rest. Occupying a present or a refused key, and
querying an unsaved one, are stuttering steps.

### DbRecord

A row is identified by its key columns; its content is one value (the code
compares crc32 sums; two values are taken to have different sums). `save` is
three actions: both transactions commit, the first throws, the second throws.
`restart` is the end of the process followed by a load. `ReusesIds` says whether
the game may hand over, unchanged, a row it had removed since the last save: the
properties hold when it does not, and the run `record_reuse` shows what happens
when it does.

### DataManager

A character is a version number per module (table). A CharData object holds the
version last copied into each module (`content`) and whether it is marked NEW
(`fresh`); `DbRecord` says why that abstraction is right: an update marks exactly
what differs, a successful save writes exactly what is marked. Threads:

- netty: `LoadCharFirst`, `LoadCharJoin`, `LoadCharRefused` are the ways through
  `loadChar`, which holds the `queryCache` monitor; `Play` is any game message.
- load_db actors: `LoadAll` (or `LoadAllThrows`), `SetData`, then `Reply`,
  `ReplyNull` or `ReplyThrows` under the `queryCache` monitor. A failed SELECT is
  swallowed by `DataQueryHandler.onError` and leaves the module without rows
  (`NoRows`). All callbacks of a chain run in one step: they build the same
  character from the same object. The modules are read in one step as well; a
  concurrent save_player could change one between two reads, which no property
  here tells apart.
- db_check actor: `CheckTake`, `CheckPut`, `CheckEnd` are DB_CHECK's loop;
  `SavePlayerTick` and the `SaveModule…` steps are save_player, one step per
  module and per lock. Generating a module's data and the lookup in the cache are
  one step: the first only reads the character, the second only the cache.
- db_actor actors: `SaveModule`, `SaveModuleFails`, one module per step.
- `Crash` ends the process in any state; only the database survives.

The cache actions are those of `DbCache` itself, so its theorems are about the
very steps taken here. A queue of saves holds `capacity` tasks and a put waits,
as in `Actor`; load queues hold at most one task per character and need no bound.
A new CharData is any object nothing refers to; `HeapHasRoom` is the bound on
objects, a guard of `LoadAll`: a load waits while each of the instance's objects is
referred to.

The code takes no character out of `PlayerManager`, and eviction does not look there.
So whether characters fit in the cache is a matter of how many log in, and both cases
are run: `manager_live` has room for its character, `manager_tight` and
`manager_online` have one place for two.

### Actor

`put` is three steps (check `stopWhenEmpty`, check `running`, insert), because
the flags are read without a lock; a put by the actor's own thread runs the item
at once. The runner's loop is one step per read or write it does. An interrupt
(from `stop`) is seen by the next blocking call. `putGivesUp` covers the timed and
the immediate put (`Offered`) on a full queue. A task may throw at will. `capacity`
is a parameter of the constructor and so differs between actors. `stop()` is
called on the actors of `MayStop`, in two steps as in the code: `stop` clears
`running`, `stopInterrupt` interrupts the thread, and between them the runner may quit
by itself. `stopped` remembers on which actors it was called, because what
`stopWhenEmpty` promises it does not; `interrupting`, where the second step is due.
`enqueued` is bookkeeping: for each actor, the items put into its queue, in order.

A runner puts callbacks without a time limit. `Hung` is the state in which that lasts
for ever: the queue is full, and the actor it belongs to has ended, or is waiting in
the same way. The code does nothing against it, so `StopsWhenAsked` and `EarlyIsRun`
hold up to it and no further.

### ServerRegistry

A server's side is its NetClient: `connectToServer`, after which requests go out on
the new connection; `sessionCreated`, which sends the registration (a server in
`registering` is between the two, and an HTTP thread of the login server may be
faster); `messageReceived`, `sendRequestSync` of the login server
and its timeout `blockUntilResponse`. The center's side is `actionRegisterServer`,
`actionDispatchGate` and the two ways it looks up a session (`SessionFor`). A
connection is a server and a number: the center's `sessionMap` may hold a
connection that is dead, since `handleSessionInActive` does nothing, and what is
written to it is lost.

Faults: a connection is lost (`sessionInActive`; a logic server then ends itself,
the others reconnect after five seconds), a process dies (`Crash`), the center
dies (`CenterCrash`, `CenterStart`). Requests that have reached the center's actor
are run although their connection is gone; how many have is any number. Answers on
a lost connection are lost. `nodeMap` is never emptied, as in the code. The clock
(`centerStartTime`) only has to differ between two runs of the center. Loads are
always 0, so `getMinLoadSession` gives the lowest id (a `HashMap` of small integer
keys iterates in their order).

`forgotten` is bookkeeping: kinds of server for which the center gave an id that
its process lost, in a crash or because the answer was lost. Such an id stays in
front of `sessionMap` for ever; `RoutedUnlessForgotten` says that there is no
other way to be routed to a dead session once everybody is registered.

### GateLogin

Every connection has a netty thread and the connection to the center has another;
each statement that touches an agent's field, a map or the connection's attribute
is a step. The login request leaves first (`channelReadLogin`), then the agent is
put into `userMap` and into the attribute. `getAgentByUserId`, `setValid`,
`setPlayerId`, `registerAgent` are the statements of `actionLoginResult`. What the
center and the logic server do is `AnswerLogin` or `TurnDown` (an unknown token, a
load that failed). `sessionInActive` is the loss of the center with `closeAll`.

`excused` is bookkeeping: users who had two connections at a time, or of whose
login a request or an answer was lost, turned down or came before the agent was in
`userMap`. The code gives no promise to them: a second connection of a user takes
over `userMap`, and the end of the first removes the player from `agentMap`; a
result that overtakes the registration of the agent is dropped. The safety
properties that speak of them anyway (`ForwardsOwnPlayer`, `AgentMapIsOwn`) are not
weakened for excused users.

### Codec

One direction of one connection, of any of the three kinds. A byte has `Base`
values so that the carries, the sign of a short and a length of two bytes are
reached with packets of a few bytes. The header is the code alone; the other
fields of `MessageHeader` travel in the same way. `LittleReadShort` is the
expression of the code with Java's precedence and sign extension. The decoders'
`decode` is three actions by its outcome (a length and not enough bytes, a packet,
an exception), `ProcessPacket` is one turn of the client's loop. `Arrive` delivers
any part of what is on its way.

The client's side has more to it. A packet goes into the frame buffer (`PushPacket`;
its length is that of the whole buffer, `RequestBytes`), and once a frame the main
thread copies the buffer into the one `SocketSendBuf` (`SendToSocketBuf`), which
`GetBuf` clears even while a send of its bytes is under way, and sends it
(`SendBuffer`). A send completes on another thread (`OnSend`): its bytes are added to
the count of what the buffer holds by now, and if that is not the buffer's length the
whole buffer is sent again. A send that completes has sent its whole array. On the
way in, a response with a negative length or one below 4 does not stop
`ProcessPacket`: it goes on at a wrong place (`ProcessPacketLost`), which from then on
may drop bytes and hand over anything.

So there are four ways to write something that no decoder can take apart: two
requests for one flush, a flush while the send before is under way, a request whose
length needs its second byte, and a response with a negative length (and a message
whose length is -1, the mark for none). `intact` is bookkeeping: the number of
packets, from the first, before any of these happened (`Followed`, `IntactWith`).
`Channel` maps the connection to `FrameFifo`: the packets that are intact, up to the
first that does not fit a signed short, and as many of the packets handed over.

## 3. Runs

| run | asks | bounds and why they are enough |
|---|---|---|
| `cache` | consistency of lists, counters, hash, dirty queue; refusals; pinned nodes; refinement of `WriteBackCache` | 4 keys on 3 nodes, 2 buckets (collisions), bound 2 (below the pool, so eviction with free nodes left happens), 2 objects |
| `record` | marks, getData, save under failures | 3 rows, 2 contents: every transition of a row next to every other |
| `record_reuse` | violation: DELETE on a row the game holds | same, `ReusesIds` |
| `manager_online` | violation: a character that is online is evicted | 2 characters, 1 clean node of 2, no failure |
| `manager_live` | logins answered, changes saved, one object, what carries no mark is stored | 1 character, 2 logins per process (the second joins a pending load, or reloads a cached character that save_player still holds), 1 failing save, 1 crash |
| `manager_tight` | changes are scheduled, reservations, own data, chains are served | 2 characters, 2 modules (a torn save needs two), 1 node: every occupy evicts or fails; 1 failed read, 1 failed save |
| `actor` | once, in order, within capacity; drained, stops, early items run | 2 actors with 1 place each, 2 tasks: a callback to the other actor, one to itself; `stop` on either. A late put fills the queue of an actor that has ended, so `Hung` is reached |
| `registry` | ids, answers, routing, registration in the end | two gates, a gate and a login server, or a logic and a login server; 3 faults in any order and 1 request of the login server: an id, an answer or a session of one run meets those of the next |
| `registry_logic` | violation: a registered logic server gets no messages | 1 fault |
| `gate` | own player, own connection, reachable, logins complete | two connections of one user (a reconnect, or two at a time) and one of another, one login each, 1 loss of the center |
| `codec` | refinement of `FrameFifo`, in step while intact | bytes of 4 values, 3 packets; codes and lengths that use the second byte or its sign (a message and a response of a negative length), payloads that look like a length; 2 requests per flush, sends that overlap |
| `codec_gate` | violation: a request code is misread | 2 packets, a code of two bytes |

Bounds on counters (`MaxVersion`, `MaxLogins`, `MaxSaveFails`, `MaxReadFails`,
`MaxCrashes`) are guards of the actions they limit.

In `actor` one item put late, or left behind by `stop`, is enough to fill the queue of
an actor that has ended; the other's runner then waits there for ever with a callback.
With the 80000 places of the code the same takes a backlog. Cycles of actors that wait
for each other are part of `Hung` and of the model, but not of this instance, where
callbacks go to `act2` only. No server calls `Actor.stop()` itself (only
`stopWhenEmpty` and `waitForStop`, in `CenterActorManager`); it is a public method
beside `ActorDispatcher.stop`, which does.

**Fairness.** Actor threads run whenever they have work (weak fairness of load, db and
runner steps, of each put once begun). DB_CHECK and save_player are fired by a
fixed-rate timer for ever, but only when the db_check actor is idle, so their first
steps get strong fairness; save_player in the end covers every online character,
because one is skipped only in its first 30 seconds. Nobody is assumed to log in,
play, stop an actor or put a task. Servers and the center are started again after they
ended, and connecting is retried every five seconds for ever (`connectToServer`
schedules itself), so connecting, the registration that follows and everything that is
under way on a live connection get weak fairness; a semaphore with a timeout always
ends. Faults are bounded, never assumed. At the gate a request is answered or turned
down in the end (`manager_live` is about that), threads finish what they began, and
the gate reconnects. In `Codec` the client's frame loop flushes, TCP delivers, and a
decoder is called as long as it makes progress; that a send completes is not assumed.
An actor on which `stop` was called is interrupted in the end.

### What the violations show

1. `DeleteMeansRemoved`: `DbRecord.update` leaves DELETE on a row that comes back
   unchanged; the next save deletes it.
2. `OnlineIsCached`: characters are never removed from `PlayerManager`, and eviction
   does not know who is online. With one more character online than clean nodes
   (`max_clean_size`, 2000 in the code) the least recently used one is evicted;
   `saveModule` prints "the player is null in cache  why " and what this player does
   from then on is not saved.
3. `LogicIsRouted`: the center sends every login and game message to the logic
   server with id 1. A logic server that ends and comes back while the center runs
   is given id 2; the session of id 1 is dead and stays. A restart of the center
   is the only way out.
4. `DecodesWhatWasSent`: `LittleEndianByteBufUtil.readShort` applies its last mask
   to the sum and returns the low byte. `HERO_STRENGTHEN` (301) arrives as 45; a
   request of 256 bytes or more is cut at the wrong place.

### What passing properties leave out, and why

These are limits of the code that the models show when the condition is dropped:

- `ChainIsServed` excepts a character whose PLAYER rows could not be read: its
  callback throws before `DeleteKey`, the chain stays, and the character cannot log
  in until the process restarts.
- `max_clean_size` is the threshold from which `malloc` evicts, not, as its comment
  says, the largest number of clean nodes: `setData` and
  `getNextDirtyNodeAndClean` add clean nodes without looking at it.
- `DrainsEarly` and `EarlyIsRun` speak of items in the queue before
  `stopWhenEmpty()`. A put that passed its checks before and inserts after the
  runner saw an empty queue returns true, and its task is never run.
- `StopsWhenAsked` and `EarlyIsRun` except an actor whose runner hangs on the full
  queue of an actor that has ended, or that hangs itself (`Hung`).
- `StaysInStep` and `DeliversInOrder` speak of what is intact. Two requests pushed
  before one flush are not: the second one's length counts the first. Nor are two
  flushes of which the second comes before the first one's send has completed: the
  second's bytes are counted wrongly and it may be sent again. A response of 32768
  bytes or more makes the client lose its place for good.
- `ForwardsOwnPlayer` allows player 0 while the result of a login is being applied.
- `LoginCompletes` and `LoggedInIsReachable` except the excused users (above): those
  with two connections at a time, whose result was faster than `registerUserAgent`, or
  whose login was under way when the center was lost. For them the code has no answer
  and no timeout.
- `LoggedInIsReachable` says that `agentMap` leads to the connection of a logged-in
  player, not to the agent in the connection's attribute: with a second login on
  the same connection the two differ between `registerUserAgent` and the
  `setAttribute` that follows it.
- `OneCopy` and `UnmarkedIsStored` are checked where the character fits in the cache
  (`manager_live`). A character that is evicted and loaded again while save_player or
  a queue still refers to its old object has two; and an object that is evicted as
  clean while DB_CHECK has its save in hand is loaded again from the old rows, and
  then the save overtakes it.
- `UnsavedIsScheduled` speaks of objects that are in the cache. `saveModule` may copy
  a change into an object that is evicted before its `setDirty`, which nobody saves.

## 4. Proofs

TLAPS checks 49 theorems and 311 lemmas; 48 of the theorems are listed in
`PROJECT.json`. Each speaks of every value of the constants that satisfies the
component's assumption, and of the component's `Spec` without fairness. Every
component has one inductive invariant, with one lemma per action; the properties
follow from it. `ListLemmas` says what `Tail`, `Append`, `Cons`, `RemoveAt` and
concatenation do to membership, injectivity and length, and it contains what the
proofs about `Codec` need of lists of lists. Its induction is over the subset of
numbers for which a fact fails: if that set were not empty it would have a least
element. In this form it needs no operator parameter, so the provers can use it.

The assumptions say no more than the code's own set-up does: sizes, capacities and
the numbers of actors are positive (`CacheAssumption`, `ManagerAssumption`,
`ActorAssumption`), keys are natural numbers (a negative key would index outside
the hash table), two users have two players (`GateAssumption`; the player id is the
key of the user's row), and a server is of one kind (`RegistryAssumption`). The
conjuncts about `NULL` keep it apart from the values it is used beside, as `null` is
in Java. A byte has an even number of values (`CodecAssumption`; 256 in the code), so
that half of them are negative in Java.

### DbCacheProofs

- `CacheInvariant`: `CacheInv` is inductive. It conjoins the type invariant, the
  partition of the pool, the counters, the dirty queue and the hash table. They
  need each other: that eviction removes the right hash entry needs the hash to
  hold exactly the nodes of the LRU with distinct keys; that the counters stay
  exact needs each node to be in one list only, once; that `setDirty` does not
  queue a node twice needs `dirty` to mirror the queue.
- `TypeCorrect`, `PoolPartitioned`, `SizesCorrect`, `DirtyQueueCorrect`,
  `HashCorrect`, `OccupyFailsCorrect` follow from it, and the action property
  `PinnedNodesSurvive` from it and one look at each action.
- `RefinesWriteBack`: `DbCache` implements `WriteBackCache`, whatever the keys, objects,
  sizes and bound. Each action maps to the step of the abstract cache that its name
  promises, or to a stutter. `View` turns a list of nodes into the list of their keys;
  the lemmas say what it makes of a tail, an appended node and an unlinked one. The
  last is where `CacheInv` is needed: unlinking one node takes one key out of the list
  only because no two nodes carry the same key. Since a node may be rewritten in the
  same step in which it changes list, a view is taken through the table before and
  the table after, and these agree on the nodes of the list (`ViewSame`).

### DbRecordProofs

For any rows and contents, `RecordInvariant` (the relation between record, table row
and module row, row by row: `RowInv`), and from it `RecordTypes`, `MarksSound` and,
when removed rows do not come back unchanged, `LoginSeesUpdate` and `SaveInstalls`.
The invariant has to speak of failed saves: a row whose insert was committed while
the delete failed is still marked NEW and already in the table.

### DataManagerProofs

`ManagerInvariant`, for any characters, modules, sizes, actors and failures, and
across restarts of the process. `ManagerInv` has three parts.

- `CacheInv` and `FreeIsFresh`: DataManager moves the cache by its public methods
  only (`CacheMoves`), so the lemmas of `DbCacheProofs` apply to the very steps taken
  here (`CacheUnderManager`).
- `LoadInv`: a character's load is queued once, at its actor, and has a chain
  (`LoadsOnce`); a reserved node has a load that has not run its callbacks yet
  (`RepliesFilled`). The second is what makes `ReservedIsLoading` hold when a load
  ends, the first when another character's load ends. `ChainIsServed` needs
  `RowsKnown`: the only object without PLAYER rows is that of a character whose
  SELECT failed.
- `DataInv`: what nodes, loads, the checker and the save queues hold are objects of
  characters, and of the right one (`OwnData`). A load takes an object nothing refers
  to, so it cannot change the owner of one in use.

From it follow `ManagerTypeCorrect`, `ReservedHasLoad`, `DataIsOwn` and `ChainHasLoad`.
They hold with evictions, and so does `ChangesScheduled` (`UnsavedIsScheduled`): as
long as no save has failed, a change copied into an object of the cache is in
save_player's hand, in the dirty queue or queued at a db actor whose `saveAll` has its
module still to come. After a failed transaction the code waits for the next change of
the character. `ScheduleInv` adds what the proof needs: the object of a load that has
just read it is in nobody else's hand (`ReadIsPrivate`), so `setData` brings no
unscheduled change into the cache, and an idle checker holds nothing (`CheckerEmpty`).

Two more properties are false when a character can be evicted while it is in use (see
above). They are proved as long as `FewAsked`: since the process was started no more
characters were asked for than there are nodes and clean places (5000 and 2000 in the
code). This is a condition on the state, not on the constants; it says nothing of how
many characters there are. Every used node belongs to a character that was asked for
(`NodesAsked`), and `NoEviction` is the reason: a key that is not in the cache finds
nodes in use with different keys of the other characters, so by the pigeonhole
principle a node is free and `clean_size` is below the bound. Hence what is loaded
stays where it is (`StepKeepsLoaded`), and `FitInvariant` shows that every object in
hand, in a reply or in a save queue is the one the cache holds for its character.
In particular `OnlineIsCached`, which the run `manager_online` violates, can fail only
after `FewAsked` has (`OnlineFound`). The invariant gives

- `OneCopyHeld`: no two saves write different objects of a character (`OneCopy`),
  however many saves fail;
- `UnmarkedStored`: what carries no mark is in the database (`UnmarkedIsStored`),
  whatever saves fail and whenever the process ends. So a clean object can be
  dropped, and the end of the process takes only what save_player has not copied or
  what is still marked. It has an invariant of its own, `StoredInvariant`: an object
  is current if the cache has it for its character or, where the cache has none, a
  load has just read it, and a current object differs from the database by marks
  only. A load enters what it read because it read rows that no other object of that
  character can be writing (one copy), and it keeps it because such a save would need
  an object in the cache.

`ChangesScheduled` and `UnmarkedStored` together are the save pipeline end to end
(`PipelineSaves`): while no transaction has failed and `FewAsked` holds, an object
whose node is clean and which neither DB_CHECK nor a db actor has to do is in the
database, in every module that could be read. That an object gets there is
`EventuallySaved`, for TLC.

### ActorProofs

`ActorInvariant`, for any actors, tasks, threads and capacities, with `stop` called
on any of them. What an actor ran, what it has in hand and what is in its queue
form one list without repetition (`HeldOnce`) that keeps the order in which items
were put (`HeldInOrder`); a callback is put after its task ran (`CallbackAfterTask`),
once; an actor that ended without `stop` has run what was queued before
`stopWhenEmpty` (`StoppedDrained`, which needs `EarlyEnqueued`). From it:
`ActorsTypeCorrect`, `NothingLostOrRepeated` (`RunsWhatItQueued`),
and `StopWhenEmptyDrains` (`DrainsEarly`: an actor that stopped by itself has run what
it had to, and runs nothing more).

### GateLoginProofs

`GateInvariant`, for any connections, users and number of logins. That `agentMap`
is right for everybody (`AgentMapCorrect`, `ForwardsCorrect`) needs that an agent is
only found under its own user, and that a player id is only ever set from the
answer to that user's login (`ResultsApplied`). `LoggedInReached` is the deep one: a
user who is not excused has one live connection (`OneLive`), and once that
connection's agent is in `userMap`, agents of no other connection are found there,
so a result that is being applied is applied to it, and the end of an older
connection cannot take its player out of `agentMap` (`OneConnection`).

### ServerRegistryProofs

`RegistryInvariant`, for any servers, faults, timeouts and numbers of requests. For
each server (`ServerInv`): what is on its way is in order, with one registration on
each connection, not necessarily the first request (`InOrder`); every request and
answer on a live connection has its callback (`RequestsCalled`, `AnswersCalled`); ids
belong to the server they were given to (`IdsOwned`); and a live connection is in one
of four states (`Registration`): its registration is still to be sent, or on its way
to the center, or the answer is on its way back and the session is already there, or
it has been received. A server's requests reach the center in order, so once it has
been told its id no request of its past is left to replace its session. From it:
`RegistryTypeCorrect`, `ServersReached` (`RegisteredReachable`), `AnswersMatch`
(`ReplyIsForRequest`), and with `Remembered`, which follows each id of a kind of which
none was forgotten, `RoutingFindsServer` (`RoutedUnlessForgotten`).

### CodecProofs

For any size of a byte, any packets and any cuts of the stream. `CodecInvariant`:
`CodecInv` is inductive: types, who has a buffer (`OwnBuffers`), one send at a time
(`OneSend`), what is intact can be followed (`IntactFirst`), and what is pending
begins with the bytes of the intact packets to come (`InStep`). What a decoder has in
hand is cut off the front of the bytes still to come (`Cut`, `NextFrame`): a length
that has been read is the first packet's, and the bytes after it are that packet's
body, so the step that takes `PacketLength` bytes takes that packet and nothing else
(`PacketTaken`). This has two ingredients: what `writeShort` wrote, `readShort` reads
(`ReadsWhatWasWritten`, from division with remainder), and the bytes of a list of
packets are those of its first and those of its rest (`FlattenFirst`), by induction
over the list. From it: `CodecTypeCorrect` (`TypeOK`) and `DecoderStaysInStep`
(`StaysInStep`).

They assume nothing of the packets, of how many requests a flush collects or of when
sends complete: `StaysInStep` has its condition, `AllIntact`, in the state. The
invariant says what holds before that is lost, and after it, what holds of the packets
up to `intact`. While everything is intact at most one send is under way and the buffer
holds its bytes, so `OnSend` finds the count complete and sends nothing again.
A response with a negative length is not intact; what the client does with it
(`ProcessPacketLost`) keeps the types and no more.

Under `CodesFit` (the code field holds the code; for a request, in one byte):

- `SoundInvariant`: as many packets as are intact are handed over unchanged, in order,
  whatever comes after them.
- `SentIsDecoded`: while everything is intact, `DecodesWhatWasSent`. The run
  `codec_gate` shows it violated when a request's code needs two bytes; the theorem says
  that codes too large for their field as it is read, and what is not intact, are all
  that can go wrong.
- `CodecDelivers`: every step of `Codec` is a step of `FrameFifo` or a stutter, on
  the intact packets before the first that does not fit a signed short. It is
  `DeliversInOrder` without its fairness.

`RequestCodeCut` says what is left without `CodesFit`: the gate hands over the intact
requests in order, each with its own payload, and its code is the code sent modulo
`Base`, 256. What `codec_gate` shows on one code holds of every code, and it is all
that happens to such a request. It follows from what `readShort` returns for any two
bytes: the first (`LowByteRead`).

### Only model-checked

- Liveness (`LoginAnswered`, `EventuallySaved`, `StopsWhenAsked`, `EarlyIsRun`,
  `EventuallyRegistered`, `LoginCompletes`), and in `DeliversInOrder` that every packet
  that fits is handed over in the end: the prover handles neither fairness nor
  `ENABLED`.

## 5. Not modelled, and the plan

Not modelled: the Unity client apart from its packets and send buffers, the older
servers and `simple_rmi`, vendored and generated code (`conf/protobuf-3.1.0` and the
like, which is most of the repository's C and C++), the log server, the arithmetic of
game entities, login tokens, `ActorDispatcher` (a modulus) and `ActTimer` (a library
scheduler). Methods no server calls are left out where they occur: `kickAgent`,
`removeServerSession`, `clear`. `PROJECT.json` gives the reason for each.

Next: the client's ring of receive buffers, and the maps shared without a lock
(`NetClient.nodeMap`, `EntityStorage`), if their races are to be told apart.
