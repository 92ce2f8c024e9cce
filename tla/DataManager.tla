---------------------------- MODULE DataManager ----------------------------
(***************************************************************************)
(* Loading and saving characters on the logic server: db/DataManager.java  *)
(* over DbCache, with the queryCache of pending loads (MulSearch), the     *)
(* load_db, db_actor and db_check actors of LogicActorManager, the         *)
(* characters in PlayerManager, and the database.                          *)
(*                                                                         *)
(*   netty thread     login requests (loadChar), game messages (Play)      *)
(*   load_db actors   the task loadChar queues: read, setData, callbacks   *)
(*   db_check actor   DB_CHECK (hand dirty objects to the db actors) and   *)
(*                    save_player (copy characters into their CharData)    *)
(*   db_actor actors  CharData.saveAll, one module after the other         *)
(*                                                                         *)
(* A character is one version number per module (table).  A CharData       *)
(* object holds the versions last copied into it and, per module, whether  *)
(* a record is marked NEW; DbRecord models what happens inside a module.   *)
(***************************************************************************)
EXTENDS DbCache, FiniteSets

CONSTANTS
  num_modules,       \* PLAYER, HERO, EQUIP, FORMATION, in that order
  load_actors,       \* number of load_db actors
  db_actors,         \* number of db_actor actors
  capacity,          \* tasks a db_actor holds, the running one included
  SAVE_CHAR_PER_SEC, \* objects handed out by one DB_CHECK
  MaxVersion,        \* bound: game actions per character and process
  MaxLogins,         \* bound: login requests per character and process
  MaxSaveFails,      \* bound: module saves that throw
  MaxReadFails,      \* bound: loads that hit a database error
  MaxCrashes         \* bound: ends of the process

Modules == 1..num_modules
NoRows == -1         \* what a module holds when its SELECT failed
Versions == 0..MaxVersion

ASSUME ManagerAssumption ==
  /\ {num_modules, load_actors, db_actors, capacity, SAVE_CHAR_PER_SEC} \subseteq Nat \ {0}
  /\ {MaxVersion, MaxLogins, MaxSaveFails, MaxReadFails, MaxCrashes} \subseteq Nat
  /\ NULL \notin [Modules -> Versions]

VARIABLES
  db,          \* character -> module -> version in the database
  chars,       \* character -> module -> version in memory, NULL when offline
  content,     \* CharData object -> module -> version, or NoRows
  fresh,       \* CharData object -> module -> is it marked NEW?
  charId,      \* CharData object -> its character
  queryCache,  \* character -> number of callbacks chained for its load
  loads,       \* load actor -> its queue of characters to load
  stage,       \* load actor -> where the task at the head of its queue is
  saves,       \* db actor -> its queue of objects, each with its next module
  checker,     \* the db_check actor: its place in DB_CHECK or save_player
  oldChar,     \* character replaced while save_player still holds it
  logins,      \* counters for the bounds
  faults       \* and the characters whose PLAYER rows could not be read

gameVars == <<db, chars, content, fresh, charId>>
loadVars == <<queryCache, loads, stage>>
saveVars == <<saves, checker, oldChar>>
boundVars == <<logins, faults>>
vars == <<cacheVars, gameVars, loadVars, saveVars, boundVars>>

LoadActors == 0..(load_actors - 1)
DbActors == 0..(db_actors - 1)

\* ActorDispatcher.getActor.
LoadActor(k) == k % load_actors
DbActor(k) == k % db_actors

Idle == [pc |-> "idle", key |-> NULL, mod |-> 0, obj |-> NULL, val |-> 0,
         todo |-> {}, count |-> 0]
NoStage == [pc |-> "run", obj |-> NULL]

\* Objects something still refers to; new CharData() is any other one.
Referenced(d) ==
  \/ \E n \in Nodes : node[n].data = d
  \/ \E a \in LoadActors : stage[a].obj = d
  \/ \E a \in DbActors : \E i \in DOMAIN saves[a] : saves[a][i].obj = d
  \/ checker.obj = d
NewObject == CHOOSE d \in Data : ~Referenced(d)
\* Bound: Data is as many objects as there are at a time.
HeapHasRoom == \E d \in Data : ~Referenced(d)

Initial(k) == [m \in Modules |-> 0]

Volatile ==
  /\ chars = [k \in Keys |-> NULL]
  /\ content = [d \in Data |-> [m \in Modules |-> 0]]
  /\ fresh = [d \in Data |-> [m \in Modules |-> FALSE]]
  /\ charId = [d \in Data |-> NULL]
  /\ queryCache = [k \in Keys |-> 0]
  /\ loads = [a \in LoadActors |-> <<>>]
  /\ stage = [a \in LoadActors |-> NoStage]
  /\ saves = [a \in DbActors |-> <<>>]
  /\ checker = Idle
  /\ oldChar = [k \in Keys |-> NULL]
  /\ logins = [k \in Keys |-> 0]

Init ==
  /\ CacheInit
  /\ Volatile
  /\ db = [k \in Keys |-> Initial(k)]
  /\ faults = [save |-> 0, read |-> 0, crash |-> 0, player |-> {}]

----------------------------------------------------------------------------
(* The netty thread.                                                       *)

MayLogin(k) ==
  /\ logins[k] < MaxLogins
  /\ logins' = [logins EXCEPT ![k] = @ + 1]
  /\ UNCHANGED <<gameVars, stage, saveVars, faults>>

\* loadChar of a character with no load pending: reserve a node, queue a load.
LoadCharFirst(k) ==
  /\ MayLogin(k)
  /\ queryCache[k] = 0
  /\ OccupyFree(k) \/ OccupyEvict(k) \/ OccupyPresent(k)
  /\ queryCache' = [queryCache EXCEPT ![k] = 1]
  /\ loads' = [loads EXCEPT ![LoadActor(k)] = Append(@, k)]

\* Fault: the chain is not deleted.
LoadCharRefusedKeepsChain(k) ==
  /\ MayLogin(k)
  /\ queryCache[k] = 0
  /\ OccupyFail(k)
  /\ queryCache' = [queryCache EXCEPT ![k] = 1]
  /\ UNCHANGED loads

\* loadChar that gets no node: DeleteKey, and the callback is told at once.
LoadCharRefused(k) ==
  /\ MayLogin(k)
  /\ queryCache[k] = 0
  /\ OccupyFail(k)
  /\ UNCHANGED <<queryCache, loads>>

\* loadChar while a load is pending: the callback joins the chain.
LoadCharJoin(k) ==
  /\ MayLogin(k)
  /\ queryCache[k] > 0
  /\ queryCache' = [queryCache EXCEPT ![k] = @ + 1]
  /\ UNCHANGED <<cacheVars, loads>>

\* A game message changes one module of an online character.
Play(k, m) ==
  /\ chars[k] # NULL
  /\ chars[k][m] < MaxVersion
  /\ chars' = [chars EXCEPT ![k][m] = @ + 1]
  /\ UNCHANGED <<cacheVars, db, content, fresh, charId, loadVars, saveVars, boundVars>>

----------------------------------------------------------------------------
(* A load_db actor runs the task loadChar queued: loadAll, setData, then   *)
(* the callbacks.                                                          *)

\* loadAll: a SELECT per module.  An SQL error is logged and leaves the module
\* without rows; loadAll still returns true.
LoadAll(a) ==
  LET k == Head(loads[a])
      d == NewObject
  IN
  /\ HeapHasRoom
  /\ loads[a] # <<>>
  /\ stage[a].pc = "run"
  /\ \E failed \in {{}} \cup {{m} : m \in Modules} :
       /\ failed # {} => faults.read < MaxReadFails
       /\ faults' = [faults EXCEPT !.read = @ + Cardinality(failed),
                                   !.player = IF 1 \in failed THEN @ \cup {k} ELSE @]
       /\ content' = [content EXCEPT ![d] =
                        [m \in Modules |-> IF m \in failed THEN NoRows ELSE db[k][m]]]
  /\ fresh' = [fresh EXCEPT ![d] = [m \in Modules |-> FALSE]]
  /\ charId' = [charId EXCEPT ![d] = k]
  /\ stage' = [stage EXCEPT ![a] = [pc |-> "set", obj |-> d]]
  /\ UNCHANGED <<cacheVars, db, chars, queryCache, loads, saveVars, logins>>

\* loadAll throws, and the object is dropped.
LoadAllThrows(a) ==
  /\ loads[a] # <<>>
  /\ stage[a].pc = "run"
  /\ faults.read < MaxReadFails
  /\ faults' = [faults EXCEPT !.read = @ + 1]
  /\ stage' = [stage EXCEPT ![a] = [pc |-> "set", obj |-> NULL]]
  /\ UNCHANGED <<cacheVars, gameVars, queryCache, loads, saveVars, logins>>

\* Fault: a failed load does not call setData.
SetDataOnlyLoaded(a) ==
  LET k == Head(loads[a])
      d == stage[a].obj
  IN
  /\ stage[a].pc = "set"
  /\ \/ d # NULL /\ SetDataLoaded(k, d)
     \/ (d = NULL \/ Held(k) # NULL) /\ UNCHANGED cacheVars
  /\ stage' = [stage EXCEPT ![a].pc = "reply"]
  /\ UNCHANGED <<gameVars, queryCache, loads, saveVars, boundVars>>

\* setData, with the loaded object or with null; what it returns is passed on:
\* the object, or what the node held already, or null when the node is gone.
SetData(a) ==
  LET k == Head(loads[a])
      d == stage[a].obj
  IN
  /\ stage[a].pc = "set"
  /\ \/ /\ d # NULL
        /\ SetDataLoaded(k, d)
        /\ stage' = [stage EXCEPT ![a].pc = "reply"]
     \/ /\ d = NULL
        /\ SetDataEmpty(k)
        /\ stage' = [stage EXCEPT ![a].pc = "reply"]
     \/ /\ SetDataIgnored(k)
        /\ stage' = [stage EXCEPT ![a] = [pc |-> "reply", obj |-> Held(k)]]
  /\ UNCHANGED <<gameVars, queryCache, loads, saveVars, boundVars>>

TaskDone(a) ==
  /\ loads' = [loads EXCEPT ![a] = Tail(@)]
  /\ stage' = [stage EXCEPT ![a] = NoStage]
  /\ UNCHANGED <<cacheVars, db, content, fresh, charId, saves, checker, boundVars>>

\* The callbacks, told null, only log; DeleteKey drops the chain.
ReplyNull(a) ==
  /\ stage[a].pc = "reply"
  /\ stage[a].obj = NULL
  /\ queryCache' = [queryCache EXCEPT ![Head(loads[a])] = 0]
  /\ UNCHANGED <<chars, oldChar>>
  /\ TaskDone(a)

\* loadBaseData indexes the PLAYER rows: without one the first callback throws
\* out of the task and DeleteKey is not reached.
ReplyThrows(a) ==
  /\ stage[a].pc = "reply"
  /\ stage[a].obj # NULL
  /\ content[stage[a].obj][1] = NoRows
  /\ UNCHANGED <<chars, oldChar, queryCache>>
  /\ TaskDone(a)

\* save_player still holds the character k that a login replaces.
HeldBySaver(k) == checker.key = k \/ k \in checker.todo

\* Fault: the chain is not deleted.
ReplyKeepsChain(a) ==
  LET k == Head(loads[a])
      d == stage[a].obj
  IN
  /\ stage[a].pc = "reply"
  /\ d # NULL
  /\ content[d][1] # NoRows
  /\ chars' = [chars EXCEPT ![k] = content[d]]
  /\ UNCHANGED <<oldChar, queryCache>>
  /\ TaskDone(a)

\* Every callback builds the character anew and puts it into PlayerManager.
Reply(a) ==
  LET k == Head(loads[a])
      d == stage[a].obj
  IN
  /\ stage[a].pc = "reply"
  /\ d # NULL
  /\ content[d][1] # NoRows
  /\ chars' = [chars EXCEPT ![k] =
                 [m \in Modules |-> IF content[d][m] = NoRows THEN 0 ELSE content[d][m]]]
  /\ oldChar' = [oldChar EXCEPT ![k] = IF HeldBySaver(k) /\ @ = NULL THEN chars[k] ELSE @]
  /\ queryCache' = [queryCache EXCEPT ![k] = 0]
  /\ TaskDone(a)

----------------------------------------------------------------------------
(* The db_check actor: DB_CHECK every second, save_player every 30.        *)

\* DB_CHECK takes the oldest dirty object, which the cache now counts as clean,
CheckTake ==
  /\ checker.pc \in {"idle", "check"}
  /\ checker.count < SAVE_CHAR_PER_SEC
  /\ GetNextDirtyNodeAndClean
  /\ checker' = [Idle EXCEPT !.pc = "put", !.count = checker.count + 1,
                             !.obj = node[Head(dirty_list)].data]
  /\ UNCHANGED <<gameVars, loadVars, saves, oldChar, boundVars>>

\* and queues its saveAll at the db actor of its character, waiting for room.
CheckPut ==
  LET d == checker.obj
      a == DbActor(charId[d])
  IN
  /\ checker.pc = "put"
  /\ Len(saves[a]) < capacity
  /\ saves' = [saves EXCEPT ![a] = Append(@, [obj |-> d, next |-> 1])]
  /\ checker' = [Idle EXCEPT !.pc = "check", !.count = checker.count]
  /\ UNCHANGED <<cacheVars, gameVars, loadVars, oldChar, boundVars>>

CheckEnd ==
  /\ checker.pc \in {"idle", "check"}
  /\ checker.count = SAVE_CHAR_PER_SEC \/ dirty_list = <<>>
  /\ checker' = Idle
  /\ UNCHANGED <<cacheVars, gameVars, loadVars, saves, oldChar, boundVars>>

Online == {k \in Keys : chars[k] # NULL}

\* save_player goes through a snapshot of the online characters; one that
\* logged in less than SAVE_INTERNAL ago is skipped.
SavePlayerTick(chosen) ==
  /\ checker.pc = "idle"
  /\ chosen # {}
  /\ \E k \in chosen : checker' = [Idle EXCEPT !.pc = "query", !.key = k, !.mod = 1,
                                               !.todo = chosen \ {k}]
  /\ UNCHANGED <<cacheVars, gameVars, loadVars, saves, oldChar, boundVars>>

\* The module of the RyCharacter in hand that saveModule is called with.
Generated(k, m) == IF oldChar[k] # NULL THEN oldChar[k][m] ELSE chars[k][m]

\* On to the next module of this character, the next character, or the end.
NextModule ==
  IF checker.mod < num_modules
  THEN /\ checker' = [checker EXCEPT !.pc = "query", !.mod = @ + 1, !.obj = NULL, !.val = 0]
       /\ UNCHANGED oldChar
  ELSE /\ oldChar' = [oldChar EXCEPT ![checker.key] = NULL]
       /\ IF checker.todo = {} THEN checker' = Idle
          ELSE \E k \in checker.todo :
                 checker' = [Idle EXCEPT !.pc = "query", !.key = k, !.mod = 1,
                                         !.todo = checker.todo \ {k}]

\* saveModule: the module's data is generated and the object looked up,
SaveModuleQuery ==
  LET k == checker.key IN
  /\ checker.pc = "query"
  /\ QueryHit(k)
  /\ checker' = [checker EXCEPT !.pc = "update", !.obj = Held(k),
                                !.val = Generated(k, checker.mod)]
  /\ UNCHANGED <<gameVars, loadVars, saves, oldChar, boundVars>>

\* the module is dropped when the object is not cached,
SaveModuleMiss ==
  /\ checker.pc = "query"
  /\ QueryMiss(checker.key)
  /\ NextModule
  /\ UNCHANGED <<gameVars, loadVars, saves, boundVars>>

\* Fault: the module is compared after it was overwritten, so nothing is marked.
SaveModuleUpdateUnmarked ==
  /\ checker.pc = "update"
  /\ content' = [content EXCEPT ![checker.obj][checker.mod] = checker.val]
  /\ checker' = [checker EXCEPT !.pc = "dirty"]
  /\ UNCHANGED <<cacheVars, db, chars, fresh, charId, loadVars, saves, oldChar, boundVars>>

\* updateModuleData marks what differs,
SaveModuleUpdate ==
  LET d == checker.obj
      m == checker.mod
  IN
  /\ checker.pc = "update"
  /\ content' = [content EXCEPT ![d][m] = checker.val]
  /\ fresh' = [fresh EXCEPT ![d][m] = @ \/ content[d][m] # checker.val]
  /\ checker' = [checker EXCEPT !.pc = "dirty"]
  /\ UNCHANGED <<cacheVars, db, chars, charId, loadVars, saves, oldChar, boundVars>>

\* and setDirty queues the object, if its node is still there and clean.
SaveModuleDirty ==
  /\ checker.pc = "dirty"
  /\ SetDirty(checker.key) \/ SetDirtyRefused(checker.key)
  /\ NextModule
  /\ UNCHANGED <<gameVars, loadVars, saves, boundVars>>

----------------------------------------------------------------------------
(* A db_actor runs CharData.saveAll, one module per step.                  *)

\* Fault: saveAll goes on behind the last module.
ModuleDoneOneMore(a) ==
  /\ saves' = [saves EXCEPT ![a] =
                 IF Head(@).next > num_modules THEN Tail(@)
                 ELSE [saves[a] EXCEPT ![1].next = @ + 1]]
  /\ UNCHANGED <<cacheVars, chars, content, charId, loadVars, checker, oldChar, logins>>

\* Fault: saveAll returns after its first module.
ModuleDoneReturns(a) ==
  /\ saves' = [saves EXCEPT ![a] = Tail(@)]
  /\ UNCHANGED <<cacheVars, chars, content, charId, loadVars, checker, oldChar, logins>>

ModuleDone(a) ==
  /\ saves' = [saves EXCEPT ![a] =
                 IF Head(@).next = num_modules THEN Tail(@)
                 ELSE [saves[a] EXCEPT ![1].next = @ + 1]]
  /\ UNCHANGED <<cacheVars, chars, content, charId, loadVars, checker, oldChar, logins>>

SaveModule(a) ==
  LET d == Head(saves[a]).obj
      m == Head(saves[a]).next
  IN
  /\ saves[a] # <<>>
  /\ db' = [db EXCEPT ![charId[d]][m] = IF fresh[d][m] THEN content[d][m] ELSE @]
  /\ fresh' = [fresh EXCEPT ![d][m] = FALSE]
  /\ ModuleDone(a)
  /\ UNCHANGED faults

\* Fault: the marks are cleared although the transaction failed.
SaveModuleForgets(a) ==
  LET d == Head(saves[a]).obj
      m == Head(saves[a]).next
  IN
  /\ saves[a] # <<>>
  /\ fresh[d][m]
  /\ faults.save < MaxSaveFails
  /\ faults' = [faults EXCEPT !.save = @ + 1]
  /\ fresh' = [fresh EXCEPT ![d][m] = FALSE]
  /\ ModuleDone(a)
  /\ UNCHANGED db

\* The transaction fails: the marks stay, saveAll goes on with the next module.
SaveModuleFails(a) ==
  LET d == Head(saves[a]).obj
      m == Head(saves[a]).next
  IN
  /\ saves[a] # <<>>
  /\ fresh[d][m]
  /\ faults.save < MaxSaveFails
  /\ faults' = [faults EXCEPT !.save = @ + 1]
  /\ ModuleDone(a)
  /\ UNCHANGED <<db, fresh>>

----------------------------------------------------------------------------
(* The process ends (stop is System.exit, nothing is flushed) and restarts. *)

Crash ==
  /\ faults.crash < MaxCrashes
  /\ faults' = [faults EXCEPT !.crash = @ + 1, !.player = {}]
  /\ hash_ports' = [b \in Buckets |-> <<>>]
  /\ lru_clean' = <<>>
  /\ lru_dirty' = <<>>
  /\ dirty_list' = <<>>
  /\ mem' = [i \in 1..node_size |-> (node_size + 1) - i]
  /\ node' = [n \in Nodes |-> FreshNode]
  /\ curr_size' = 0
  /\ clean_size' = 0
  /\ dirty_size' = 0
  /\ chars' = [k \in Keys |-> NULL]
  /\ content' = [d \in Data |-> [m \in Modules |-> 0]]
  /\ fresh' = [d \in Data |-> [m \in Modules |-> FALSE]]
  /\ charId' = [d \in Data |-> NULL]
  /\ queryCache' = [k \in Keys |-> 0]
  /\ loads' = [a \in LoadActors |-> <<>>]
  /\ stage' = [a \in LoadActors |-> NoStage]
  /\ saves' = [a \in DbActors |-> <<>>]
  /\ checker' = Idle
  /\ oldChar' = [k \in Keys |-> NULL]
  /\ logins' = [k \in Keys |-> 0]
  /\ UNCHANGED db

----------------------------------------------------------------------------
LoadStep(a) == LoadAll(a) \/ LoadAllThrows(a) \/ SetData(a) \/ ReplyNull(a)
                 \/ ReplyThrows(a) \/ Reply(a)
CheckStep == CheckTake \/ CheckPut \/ CheckEnd
SavePlayerStep == SaveModuleQuery \/ SaveModuleMiss \/ SaveModuleUpdate \/ SaveModuleDirty
DbStep(a) == SaveModule(a) \/ SaveModuleFails(a)

Next ==
  \/ \E k \in Keys : \/ LoadCharFirst(k)
                     \/ LoadCharRefused(k)
                     \/ LoadCharJoin(k)
                     \/ \E m \in Modules : Play(k, m)
  \/ \E a \in LoadActors : LoadStep(a)
  \/ CheckStep
  \/ \E chosen \in SUBSET Online : SavePlayerTick(chosen)
  \/ SavePlayerStep
  \/ \E a \in DbActors : DbStep(a)
  \/ Crash

Spec == Init /\ [][Next]_vars

\* The threads of the actors keep running their tasks.  The timer fires DB_CHECK
\* and save_player again and again, and an online character is in the end older
\* than SAVE_INTERNAL.
Fairness ==
  /\ \A a \in LoadActors : WF_vars(LoadStep(a))
  /\ \A a \in DbActors : WF_vars(DbStep(a))
  /\ WF_vars(CheckPut \/ CheckEnd \/ SavePlayerStep)
  /\ SF_vars(CheckTake)
  /\ SF_vars(SavePlayerTick(Online))

FairSpec == Spec /\ Fairness

----------------------------------------------------------------------------
(* Properties.                                                             *)

CheckerRecord ==
  [pc : {"idle", "put", "check", "query", "update", "dirty"}, key : Keys \cup {NULL},
   mod : 0..num_modules, obj : Data \cup {NULL}, val : Versions, todo : SUBSET Keys,
   count : 0..SAVE_CHAR_PER_SEC]

\* Every variable holds a value of its kind.
TypeOK ==
  /\ CacheTypeOK
  /\ db \in [Keys -> [Modules -> Versions]]
  /\ chars \in [Keys -> {NULL} \cup [Modules -> Versions]]
  /\ content \in [Data -> [Modules -> Versions \cup {NoRows}]]
  /\ fresh \in [Data -> [Modules -> BOOLEAN]]
  /\ charId \in [Data -> Keys \cup {NULL}]
  /\ queryCache \in [Keys -> 0..MaxLogins]
  /\ loads \in [LoadActors -> Seq(Keys)]
  /\ stage \in [LoadActors -> [pc : {"run", "set", "reply"}, obj : Data \cup {NULL}]]
  /\ saves \in [DbActors -> Seq([obj : Data, next : Modules])]
  /\ checker \in CheckerRecord
  /\ oldChar \in [Keys -> {NULL} \cup [Modules -> Versions]]
  /\ logins \in [Keys -> 0..MaxLogins]
  /\ faults \in [save : 0..MaxSaveFails, read : 0..MaxReadFails, crash : 0..MaxCrashes,
                 player : SUBSET Keys]

Loading(k) == Contains(loads[LoadActor(k)], k)

\* A node reserved for a load is never left behind: as long as it is empty, the
\* load that will fill or release it is queued or running.  A reservation with
\* no load would pin its node and keep its character out for ever.
ReservedIsLoading == \A k \in Keys : Reserved(k) => Loading(k)

\* A change copied into a CharData object and not yet written is on its way to
\* the database when the object is in the cache as dirty, or in the hand of the
\* db_check actor, or queued at its db actor with that module still to come.
Scheduled(d, m) ==
  \/ \E n \in Nodes : node[n].data = d /\ node[n].dirty
  \/ checker.obj = d
  \/ \E i \in DOMAIN saves[DbActor(charId[d])] :
       LET t == saves[DbActor(charId[d])][i] IN t.obj = d /\ t.next <= m

\* As long as no transaction has failed, every change in an object of the cache is
\* on its way, through logins that replace the character and evictions around it.
\* (saveModule may copy into an object whose node is evicted before setDirty: that
\* one is not in the cache any more.)
UnsavedIsScheduled ==
  faults.save = 0 =>
    \A n \in Nodes, m \in Modules :
      node[n].data # NULL /\ fresh[node[n].data][m] => Scheduled(node[n].data, m)

\* The cache and the save queues never hold two CharData objects of the same
\* character, whose saves would overwrite one another.
Live(d) ==
  \/ \E n \in Nodes : node[n].data = d
  \/ \E a \in DbActors : \E i \in DOMAIN saves[a] : saves[a][i].obj = d
OneCopy == \A c, d \in Data : Live(c) /\ Live(d) /\ charId[c] = charId[d] => c = d

\* Where a CharData object in the cache, or in a save queue, carries no mark, the
\* database has what the object has: evicting it when it is clean, or the end of
\* the process, takes with it only what is marked, and a load never puts rows into
\* the cache that a save has overtaken.  (Of what could not be read, nothing is
\* known.)
UnmarkedIsStored ==
  \A d \in Data, m \in Modules :
    Live(d) /\ ~fresh[d][m] /\ content[d][m] # NoRows => db[charId[d]][m] = content[d][m]

\* Nobody gets another character's data: the object a node holds, the one a
\* login is answered with and the one save_player copies into are those of the
\* character they are filed under, through evictions and reused nodes.
OwnData ==
  /\ \A n \in Nodes : node[n].data # NULL => charId[node[n].data] = node[n].key
  /\ \A a \in LoadActors : stage[a].obj # NULL => charId[stage[a].obj] = Head(loads[a])
  /\ checker.pc \in {"update", "dirty"} => charId[checker.obj] = checker.key

\* An online character is cached, so save_player finds it: saveModule's miss
\* prints "the player is null in cache  why ".  Characters stay in PlayerManager
\* for good, and the cache evicts the clean ones beyond max_clean_size.
OnlineIsCached == \A k \in Online : Held(k) # NULL

\* A chain of callbacks has a load that will serve it, so a login that joins one
\* ("do nothing, it has joined the chain") is answered, however loads fail, get
\* no node or find their node evicted.  The one exception is a character whose
\* PLAYER rows could not be read: its callback throws and the chain stays.
ChainIsServed ==
  \A k \in Keys : queryCache[k] > 0 => Loading(k) \/ k \in faults.player

\* Every login is answered.
LoginAnswered == \A k \in Keys : queryCache[k] > 0 ~> queryCache[k] = 0

\* A change reaches the database, however saves fail, unless a login replaces
\* the character or the process ends first.
EventuallySaved ==
  \A k \in Keys, m \in Modules, v \in Versions :
    (chars[k] # NULL /\ chars[k][m] = v)
      ~> (db[k][m] >= v \/ chars[k] = NULL \/ chars[k][m] < v)
============================================================================
