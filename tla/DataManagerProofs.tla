------------------------- MODULE DataManagerProofs -------------------------
(* Proofs about DataManager: loads end as they should and nobody gets another *)
(* character's data, for any cache size, number of actors and bounds, and     *)
(* whatever is evicted; a copied change in the cache is on its way to the     *)
(* database; and as long as the characters asked for fit into the cache,      *)
(* there is one object of each, with what is stored or marked.                *)
EXTENDS DbCacheProofs, DataManager, FiniteSetTheorems

----------------------------------------------------------------------------
(* The inductive invariant.  The cache's own invariant comes first: DataManager *)
(* moves the cache by its public methods only.  A reserved node has a load      *)
(* because a character's load is queued once, while its chain is there, and a   *)
(* load does not end before its node is filled or given back (LoadsOnce,        *)
(* RepliesFilled).                                                              *)

\* What malloc takes is as initCashNode left it.
FreeIsFresh == \A n \in Nodes : Contains(mem, n) => node[n] = FreshNode

\* A character's load is queued once, at its actor, and has a chain.
LoadsOnce ==
  \A a \in LoadActors :
    /\ IsInjective(loads[a])
    /\ \A k \in Keys : Contains(loads[a], k) => LoadActor(k) = a /\ queryCache[k] > 0
    /\ stage[a].pc = "run" => stage[a].obj = NULL
    /\ stage[a].pc # "run" => loads[a] # <<>>

\* When the callbacks run, the node of the load is not reserved any more.
RepliesFilled ==
  \A a \in LoadActors : stage[a].pc = "reply" => ~Reserved(Head(loads[a]))

\* The checker holds online characters, and objects of characters.
CheckerHolds ==
  /\ checker.pc = "put" => checker.obj # NULL /\ charId[checker.obj] # NULL
  /\ checker.pc \in {"query", "update", "dirty"} =>
       checker.key # NULL /\ chars[checker.key] # NULL /\ checker.mod # 0
  /\ checker.pc \in {"update", "dirty"} => checker.obj # NULL
  /\ \A k \in checker.todo : chars[k] # NULL

SavesHold ==
  \A a \in DbActors : \A i \in DOMAIN saves[a] : charId[saves[a][i].obj] # NULL

\* What was not read is known, and is not written.
RowsKnown ==
  \A d \in Data :
    /\ content[d][1] = NoRows => charId[d] \in faults.player
    /\ \A m \in Modules : fresh[d][m] => content[d][m] # NoRows

ChainsCounted == \A k \in Keys : queryCache[k] <= logins[k]

LoadInv == LoadsOnce /\ ReservedIsLoading /\ RepliesFilled /\ ChainIsServed /\ ChainsCounted
DataInv == OwnData /\ CheckerHolds /\ SavesHold /\ RowsKnown
ManagerInv == CacheInv /\ FreeIsFresh /\ TypeOK /\ LoadInv /\ DataInv

----------------------------------------------------------------------------
(* The cache under DataManager.                                            *)

CacheHolds == CacheInv /\ FreeIsFresh

\* The hash table as the rest of DataManager sees it: a key finds the node that
\* carries it.
FiledByKey ==
  \A k \in Keys :
    /\ hashFind(k) # NULL => hashFind(k) \in Nodes /\ node[hashFind(k)].key = k
    /\ \A n \in Nodes : node[n].key = k => hashFind(k) = n
    /\ Reserved(k) <=> \E n \in Nodes : node[n].key = k /\ node[n].data = NULL
    /\ Held(k) # NULL => \E n \in Nodes : node[n].key = k /\ node[n].data = Held(k)

\* A key is on one node, and free nodes have none, so hashFind is exact.
LEMMA CacheFilesByKey == CacheHolds => FiledByKey
<1> SUFFICES ASSUME CacheHolds, NEW k \in Keys
             PROVE  /\ hashFind(k) # NULL => hashFind(k) \in Nodes /\ node[hashFind(k)].key = k
                    /\ \A n \in Nodes : node[n].key = k => hashFind(k) = n
                    /\ Reserved(k) <=> \E n \in Nodes : node[n].key = k /\ node[n].data = NULL
                    /\ Held(k) # NULL => \E n \in Nodes : node[n].key = k /\ node[n].data = Held(k)
  BY DEF FiledByKey
<1>1. hashFind(k) # NULL => hashFind(k) \in Nodes /\ node[hashFind(k)].key = k
  BY HashFindIs DEF CacheHolds
<1>2. ASSUME NEW n \in Nodes, node[n].key = k PROVE hashFind(k) = n /\ n # NULL
  <2>1. ~Contains(mem, n)
    BY <1>2, CacheAssumption DEF CacheHolds, FreeIsFresh, FreshNode
  <2>2. InLru(n)
    BY <2>1 DEF CacheHolds, CacheInv, PoolPartition
  <2> QED BY <2>2, <1>2, HashFindOf, CacheAssumption DEF CacheHolds
<1>3. Reserved(k) <=> \E n \in Nodes : node[n].key = k /\ node[n].data = NULL
  BY <1>1, <1>2 DEF Reserved
<1>4. Held(k) # NULL => \E n \in Nodes : node[n].key = k /\ node[n].data = Held(k)
  BY <1>1 DEF Held
<1> QED BY <1>1, <1>2, <1>3, <1>4

\* Each method of the cache keeps free nodes as initCashNode left them.
LEMMA CacheStepHolds == CacheHolds /\ [CacheNext]_cacheVars => CacheHolds'
<1> SUFFICES ASSUME CacheHolds, [CacheNext]_cacheVars PROVE FreeIsFresh'
  BY NextPreserves DEF CacheHolds
<1> USE DEF CacheHolds
<1>0. /\ node \in [Nodes -> NodeRecord]
      /\ mem \in Seq(Nodes) /\ IsInjective(mem)
      /\ \A n \in Nodes : InLru(n) => ~Contains(mem, n)
  BY DEF CacheInv, CacheTypeOK, PoolPartition
<1>1. CASE UNCHANGED cacheVars
  BY <1>1 DEF cacheVars, lists, FreeIsFresh
<1>2. ASSUME NEW k \in Keys, OccupyFree(k) PROVE FreeIsFresh'
  <2>1. \A m : Contains(Tail(mem), m) <=> Contains(mem, m) /\ m # Head(mem)
    BY <1>0, <1>2, TailIs DEF OccupyFree, MallocFromPool
  <2> QED BY <1>0, <1>2, <2>1 DEF OccupyFree, FreeIsFresh
<1>3. ASSUME NEW k \in Keys, OccupyEvict(k) PROVE FreeIsFresh'
  <2>1. Head(lru_clean) \in Nodes /\ Contains(lru_clean, Head(lru_clean))
    BY <1>3, TailIs DEF OccupyEvict, MallocByEviction, CacheInv, CacheTypeOK, PoolPartition
  <2> QED BY <1>0, <1>3, <2>1 DEF OccupyEvict, FreeIsFresh, InLru
<1>4. ASSUME NEW k \in Keys, QueryHit(k) PROVE FreeIsFresh'
  BY <1>4 DEF QueryHit, FreeIsFresh
<1>5. ASSUME NEW k \in Keys, NEW d \in Data, SetDataLoaded(k, d) PROVE FreeIsFresh'
  <2>1. hashFind(k) \in Nodes /\ ~Contains(mem, hashFind(k))
    BY <1>0, <1>5, HashFindIs DEF SetDataLoaded
  <2> QED BY <1>0, <1>5, <2>1 DEF SetDataLoaded, FreeIsFresh
<1>6. ASSUME NEW k \in Keys, SetDataEmpty(k) PROVE FreeIsFresh'
  <2>1. hashFind(k) \in Nodes /\ ~Contains(mem, hashFind(k))
    BY <1>0, <1>6, HashFindIs DEF SetDataEmpty
  <2>2. \A m : Contains(Cons(hashFind(k), mem), m) <=> Contains(mem, m) \/ m = hashFind(k)
    BY <1>0, <2>1, ConsIs
  <2> QED BY <1>0, <1>6, <2>1, <2>2 DEF SetDataEmpty, FreeIsFresh
<1>7. ASSUME NEW k \in Keys, SetDirty(k) PROVE FreeIsFresh'
  <2>1. hashFind(k) \in Nodes /\ ~Contains(mem, hashFind(k))
    BY <1>0, <1>7, HashFindIs DEF SetDirty
  <2> QED BY <1>0, <1>7, <2>1 DEF SetDirty, FreeIsFresh
<1>8. ASSUME GetNextDirtyNodeAndClean PROVE FreeIsFresh'
  <2>1. Head(dirty_list) \in Nodes /\ Contains(dirty_list, Head(dirty_list))
    BY <1>8, TailIs DEF GetNextDirtyNodeAndClean, CacheInv, CacheTypeOK, DirtyQueuedOnce
  <2>2. ~Contains(mem, Head(dirty_list))
    BY <2>1 DEF CacheInv, DirtyQueuedOnce
  <2> QED BY <1>0, <1>8, <2>2 DEF GetNextDirtyNodeAndClean, FreeIsFresh
<1>9. ASSUME NEW k \in Keys,
             OccupyPresent(k) \/ OccupyFail(k) \/ QueryMiss(k) \/ SetDataIgnored(k)
               \/ SetDirtyRefused(k)
      PROVE  FreeIsFresh'
  BY <1>1, <1>9 DEF OccupyPresent, OccupyFail, QueryMiss, SetDataIgnored, SetDirtyRefused
<1> QED BY <1>1, <1>2, <1>3, <1>4, <1>5, <1>6, <1>7, <1>8, <1>9 DEF CacheNext

\* A new cache has fresh nodes.
LEMMA CacheStartHolds == CacheInit => CacheHolds
<1> SUFFICES ASSUME CacheInit PROVE FreeIsFresh
  BY InitEstablishes DEF CacheHolds
<1> QED BY DEF CacheInit, FreeIsFresh

\* The calls of the logins, loads and of save_player; DB_CHECK makes the other.
CacheCalls ==
  \E k \in Keys : \/ OccupyFree(k)
                  \/ OccupyEvict(k)
                  \/ OccupyPresent(k)
                  \/ OccupyFail(k)
                  \/ QueryHit(k)
                  \/ QueryMiss(k)
                  \/ SetDataEmpty(k)
                  \/ SetDataIgnored(k)
                  \/ SetDirty(k)
                  \/ SetDirtyRefused(k)
                  \/ \E d \in Data : SetDataLoaded(k, d)

\* DataManager moves the cache by one call of a public method at a time, or
\* restarts it with the process.
LEMMA CacheMoves ==
  ASSUME ManagerInv, [Next]_vars
  PROVE  [CacheCalls]_cacheVars \/ CheckTake \/ Crash
<1>1. CASE UNCHANGED vars
  BY <1>1 DEF vars
<1>2. ASSUME NEW k \in Keys, LoadCharFirst(k) PROVE CacheCalls
  BY <1>2 DEF LoadCharFirst, CacheCalls
<1>3. ASSUME NEW k \in Keys, LoadCharRefused(k) PROVE CacheCalls
  BY <1>3 DEF LoadCharRefused, CacheCalls
<1>4. ASSUME NEW k \in Keys, LoadCharJoin(k) \/ \E m \in Modules : Play(k, m)
      PROVE  UNCHANGED cacheVars
  BY <1>4 DEF LoadCharJoin, Play
<1>5. ASSUME NEW a \in LoadActors, LoadStep(a) PROVE [CacheCalls]_cacheVars
  <2>1. CASE SetData(a)
    <3>1. Head(loads[a]) \in Keys
      <4>1. loads[a] \in Seq(Keys) /\ loads[a] # <<>>
        BY <2>1 DEF ManagerInv, TypeOK, LoadInv, LoadsOnce, SetData
      <4> QED BY <4>1, HeadTailProperties
    <3>2. stage[a].obj \in Data \cup {NULL}
      BY DEF ManagerInv, TypeOK
    <3> QED BY <2>1, <3>1, <3>2 DEF SetData, CacheCalls
  <2> QED BY <1>5, <2>1 DEF LoadStep, LoadAll, LoadAllThrows, ReplyNull, ReplyThrows, Reply,
                            TaskDone
<1>6. ASSUME CheckStep PROVE UNCHANGED cacheVars \/ CheckTake
  BY <1>6 DEF CheckStep, CheckPut, CheckEnd
<1>7. ASSUME \E chosen \in SUBSET Online : SavePlayerTick(chosen) PROVE UNCHANGED cacheVars
  BY <1>7 DEF SavePlayerTick
<1>8. ASSUME SavePlayerStep PROVE [CacheCalls]_cacheVars
  <2>1. checker.pc \in {"query", "dirty"} => checker.key \in Keys
    BY DEF ManagerInv, TypeOK, CheckerRecord, DataInv, CheckerHolds
  <2> QED BY <1>8, <2>1 DEF SavePlayerStep, SaveModuleQuery, SaveModuleMiss, SaveModuleUpdate,
                            SaveModuleDirty, CacheCalls
<1>9. ASSUME NEW a \in DbActors, DbStep(a) PROVE UNCHANGED cacheVars
  BY <1>9 DEF DbStep, SaveModule, SaveModuleFails, ModuleDone
<1> QED BY <1>1, <1>2, <1>3, <1>4, <1>5, <1>6, <1>7, <1>8, <1>9 DEF Next

\* The restarted cache is an empty one.
LEMMA CacheStep ==
  ASSUME ManagerInv, [Next]_vars
  PROVE  CacheHolds'
<1>1. Crash => CacheInit'
  BY DEF Crash, CacheInit
<1>2. CacheInit' => CacheHolds'
  BY CacheStartHolds, PTL
<1>3. [CacheCalls]_cacheVars \/ CheckTake => [CacheNext]_cacheVars
  BY DEF CacheCalls, CacheNext, CheckTake
<1> QED BY <1>1, <1>2, <1>3, CacheMoves, CacheStepHolds DEF CacheHolds, ManagerInv

----------------------------------------------------------------------------
(* What the calls of the cache do to the nodes.                            *)

\* No node changes its character or its object.
NodesSame == \A n \in Nodes : node'[n].key = node[n].key /\ node'[n].data = node[n].data

\* One node, which was free or clean, is k's now and waits for its object.
NodeReserved(k) ==
  \E n \in Nodes : node' = [node EXCEPT ![n] = [FreshNode EXCEPT !.key = k]]

\* The node reserved for k gets the object d.
NodeFilled(k, d) ==
  \E n \in Nodes : /\ node[n].key = k
                   /\ node[n].data = NULL
                   /\ node' = [node EXCEPT ![n].data = d]

\* The node reserved for k is given back.
NodeReleased(k) ==
  \E n \in Nodes : /\ node[n].key = k
                   /\ node[n].data = NULL
                   /\ node' = [node EXCEPT ![n] = FreshNode]

\* occupy either finds the character, or reserves a node for it.
LEMMA OccupyNodes ==
  ASSUME CacheInv, NEW k \in Keys, OccupyFree(k) \/ OccupyEvict(k) \/ OccupyPresent(k)
  PROVE  NodeReserved(k) \/ UNCHANGED node
<1>1. CASE OccupyFree(k)
  <2>1. Head(mem) \in Nodes
    BY <1>1, TailIs DEF OccupyFree, MallocFromPool, CacheInv, CacheTypeOK, PoolPartition
  <2> QED BY <1>1, <2>1 DEF OccupyFree, NodeReserved
<1>2. CASE OccupyEvict(k)
  <2>1. Head(lru_clean) \in Nodes
    BY <1>2, TailIs DEF OccupyEvict, MallocByEviction, CacheInv, CacheTypeOK, PoolPartition
  <2> QED BY <1>2, <2>1 DEF OccupyEvict, NodeReserved
<1> QED BY <1>1, <1>2 DEF OccupyPresent, cacheVars

\* setData fills or releases the node that is reserved for the character.
LEMMA SetDataNodes ==
  ASSUME FiledByKey, NEW k \in Keys
  PROVE  /\ \A d \in Data : SetDataLoaded(k, d) => NodeFilled(k, d)
         /\ SetDataEmpty(k) => NodeReleased(k)
         /\ SetDataIgnored(k) => ~Reserved(k) /\ UNCHANGED node
  BY DEF FiledByKey, SetDataLoaded, SetDataEmpty, SetDataIgnored, NodeFilled, NodeReleased,
         Reserved, cacheVars

\* The other calls keep the character and the object of every node.
LEMMA QueryNodes ==
  ASSUME CacheInv, NEW k \in Keys,
         \/ QueryHit(k) \/ QueryMiss(k)
         \/ SetDirty(k) \/ SetDirtyRefused(k) \/ GetNextDirtyNodeAndClean
         \/ UNCHANGED cacheVars
  PROVE  NodesSame
<1>1. node \in [Nodes -> NodeRecord]
  BY DEF CacheInv, CacheTypeOK
<1>2. CASE UNCHANGED cacheVars \/ QueryHit(k) \/ QueryMiss(k) \/ SetDirtyRefused(k)
  BY <1>2 DEF cacheVars, QueryHit, QueryMiss, SetDirtyRefused, NodesSame
<1>3. CASE SetDirty(k)
  BY <1>1, <1>3 DEF SetDirty, NodesSame, NodeRecord
<1>4. CASE GetNextDirtyNodeAndClean
  BY <1>1, <1>4 DEF GetNextDirtyNodeAndClean, NodesSame, NodeRecord
<1> QED BY <1>2, <1>3, <1>4

\* And what they do to the reservations.
LEMMA ReservedAfter ==
  ASSUME CacheInv, FiledByKey, FiledByKey', NEW k \in Keys
  PROVE  /\ NodesSame => \A j \in Keys : Reserved(j)' <=> Reserved(j)
         /\ NodeReserved(k) => \A j \in Keys : Reserved(j)' => Reserved(j) \/ j = k
         /\ \A d \in Data : NodeFilled(k, d) =>
              \A j \in Keys : Reserved(j)' => Reserved(j) /\ j # k
         /\ NodeReleased(k) => \A j \in Keys : Reserved(j)' => Reserved(j) /\ j # k
<1>1. node \in [Nodes -> NodeRecord]
  BY DEF CacheInv, CacheTypeOK
<1>2. \A j \in Keys : Reserved(j) <=> \E n \in Nodes : node[n].key = j /\ node[n].data = NULL
  BY DEF FiledByKey
<1>3. \A j \in Keys : Reserved(j)' <=> \E n \in Nodes : node'[n].key = j /\ node'[n].data = NULL
  BY DEF FiledByKey
<1>4. NodesSame => \A j \in Keys : Reserved(j)' <=> Reserved(j)
  BY <1>2, <1>3 DEF NodesSame
<1>5. ASSUME NodeReserved(k), NEW j \in Keys, Reserved(j)' PROVE Reserved(j) \/ j = k
  <2>1. PICK n \in Nodes : node'[n].key = j /\ node'[n].data = NULL
    BY <1>3, <1>5
  <2>2. PICK m \in Nodes : node' = [node EXCEPT ![m] = [FreshNode EXCEPT !.key = k]]
    BY <1>5 DEF NodeReserved
  <2>3. CASE n = m
    BY <1>1, <2>1, <2>2, <2>3 DEF FreshNode
  <2>4. CASE n # m
    BY <1>1, <1>2, <2>1, <2>2, <2>4
  <2> QED BY <2>3, <2>4
<1>6. \A m, n \in Nodes : node[m].key = k /\ node[n].key = k => m = n
  BY DEF FiledByKey
<1>7. ASSUME NEW d \in Data, NodeFilled(k, d), NEW j \in Keys, Reserved(j)'
      PROVE  Reserved(j) /\ j # k
  <2>1. PICK n \in Nodes : node'[n].key = j /\ node'[n].data = NULL
    BY <1>3, <1>7
  <2>2. PICK m \in Nodes : node[m].key = k /\ node' = [node EXCEPT ![m].data = d]
    BY <1>7 DEF NodeFilled
  <2>3. n # m
    BY <1>1, <2>1, <2>2, CacheAssumption DEF NodeRecord
  <2> QED BY <1>1, <1>2, <1>6, <2>1, <2>2, <2>3
<1>8. ASSUME NodeReleased(k), NEW j \in Keys, Reserved(j)'
      PROVE  Reserved(j) /\ j # k
  <2>1. PICK n \in Nodes : node'[n].key = j /\ node'[n].data = NULL
    BY <1>3, <1>8
  <2>2. PICK m \in Nodes : node[m].key = k /\ node' = [node EXCEPT ![m] = FreshNode]
    BY <1>8 DEF NodeReleased
  <2>3. n # m
    BY <1>1, <2>1, <2>2, CacheAssumption DEF FreshNode
  <2> QED BY <1>1, <1>2, <1>6, <2>1, <2>2, <2>3
<1> QED BY <1>4, <1>5, <1>7, <1>8

----------------------------------------------------------------------------
(* Every step keeps LoadInv.                                               *)

\* The constants are counts.
LEMMA CountsAre ==
  /\ num_modules \in Nat \ {0} /\ SAVE_CHAR_PER_SEC \in Nat \ {0}
  /\ MaxVersion \in Nat /\ MaxLogins \in Nat
  /\ MaxSaveFails \in Nat /\ MaxReadFails \in Nat /\ MaxCrashes \in Nat
<1>1. /\ {num_modules, load_actors, db_actors, capacity, SAVE_CHAR_PER_SEC} \subseteq Nat \ {0}
      /\ {MaxVersion, MaxLogins, MaxSaveFails, MaxReadFails, MaxCrashes} \subseteq Nat
  BY ManagerAssumption
<1> QED BY <1>1

\* ActorDispatcher gives a character to an actor there is.
LEMMA ActorsAre ==
  \A k \in Keys : LoadActor(k) \in LoadActors /\ DbActor(k) \in DbActors
<1> SUFFICES ASSUME NEW k \in Keys
             PROVE  LoadActor(k) \in LoadActors /\ DbActor(k) \in DbActors
  OBVIOUS
<1>1. k \in Int /\ load_actors \in Int /\ load_actors > 0 /\ db_actors \in Int /\ db_actors > 0
  BY CacheAssumption, ManagerAssumption
<1>2. k % load_actors \in 0..(load_actors - 1)
  BY <1>1
<1>3. k % db_actors \in 0..(db_actors - 1)
  BY <1>1
<1> QED BY <1>2, <1>3 DEF LoadActor, DbActor, LoadActors, DbActors

\* A step that leaves loads, chains and reservations alone.
LEMMA LoadsKept ==
  ASSUME ManagerInv, UNCHANGED <<queryCache, loads, stage>>,
         \A k \in Keys : Reserved(k)' => Reserved(k),
         faults.player \subseteq faults'.player,
         \A k \in Keys : logins[k] <= logins'[k],
         TypeOK'
  PROVE  LoadInv'
<1>1. LoadInv /\ TypeOK
  BY DEF ManagerInv
<1>2. LoadsOnce'
  BY <1>1 DEF LoadInv, LoadsOnce
<1>3. ReservedIsLoading'
  BY <1>1 DEF LoadInv, ReservedIsLoading, Loading
<1>4. RepliesFilled'
  <2> SUFFICES ASSUME NEW a \in LoadActors, stage[a].pc = "reply"
               PROVE  ~Reserved(Head(loads[a]))'
    BY DEF RepliesFilled
  <2>1. loads[a] \in Seq(Keys) /\ loads[a] # <<>>
    BY <1>1 DEF TypeOK, LoadInv, LoadsOnce
  <2>2. PICK h \in Keys : h = Head(loads[a])
    BY <2>1, HeadTailProperties
  <2>3. ~Reserved(h)'
    BY <1>1, <2>2 DEF LoadInv, RepliesFilled
  <2> QED BY <2>2, <2>3
<1>5. ChainIsServed'
  BY <1>1 DEF LoadInv, ChainIsServed, Loading
<1>6. ChainsCounted'
  BY <1>1 DEF LoadInv, ChainsCounted, TypeOK
<1> QED BY <1>2, <1>3, <1>4, <1>5, <1>6 DEF LoadInv

\* loadChar queues the load of a character that has no chain yet.
LEMMA LoadCharFirstLoads ==
  ASSUME ManagerInv, FiledByKey, FiledByKey', NEW k \in Keys, LoadCharFirst(k)
  PROVE  LoadInv'
<1> DEFINE b == LoadActor(k)
           s == loads[b]
<1>1. /\ queryCache \in [Keys -> 0..MaxLogins] /\ logins \in [Keys -> 0..MaxLogins]
      /\ loads \in [LoadActors -> Seq(Keys)] /\ b \in LoadActors
  BY ActorsAre DEF ManagerInv, TypeOK
<1>2. /\ queryCache[k] = 0
      /\ queryCache' = [queryCache EXCEPT ![k] = 1]
      /\ loads' = [loads EXCEPT ![b] = Append(s, k)]
      /\ logins' = [logins EXCEPT ![k] = @ + 1]
      /\ UNCHANGED <<stage, faults>>
  BY DEF LoadCharFirst, MayLogin, gameVars, saveVars
<1>3. LoadInv
  BY DEF ManagerInv
<1>4. \A j \in Keys : Reserved(j)' => Reserved(j) \/ j = k
  <2>1. NodeReserved(k) \/ UNCHANGED node
    BY OccupyNodes DEF LoadCharFirst, ManagerInv
  <2>2. UNCHANGED node => NodesSame
    BY DEF NodesSame
  <2> QED BY <2>1, <2>2, ReservedAfter DEF ManagerInv
<1>5. \A a \in LoadActors : ~Contains(loads[a], k)
  BY <1>1, <1>2, <1>3 DEF LoadInv, LoadsOnce
<1>6. /\ Append(s, k) \in Seq(Keys) /\ IsInjective(Append(s, k))
      /\ \A m : Contains(Append(s, k), m) <=> Contains(s, m) \/ m = k
      /\ Append(s, k) # <<>>
      /\ s # <<>> => Head(Append(s, k)) = Head(s) /\ Contains(s, Head(s))
  <2>1. s \in Seq(Keys) /\ IsInjective(s)
    BY <1>1, <1>3 DEF LoadInv, LoadsOnce
  <2>2. Len(s) \in Nat /\ Len(Append(s, k)) = Len(s) + 1 /\ Append(s, k) \in Seq(Keys)
    BY <2>1, <1>1, <1>5, AppendIs, LenProperties
  <2>3. ASSUME s # <<>> PROVE Head(Append(s, k)) = Head(s)
    BY <2>1, <2>2, <2>3, AppendProperties, HeadTailProperties, LenProperties, EmptySeq
  <2> QED BY <2>1, <2>2, <2>3, <1>1, <1>5, AppendIs, TailIs, EmptySeq
<1> HIDE DEF b, s
<1>7. LoadsOnce'
  <2> SUFFICES ASSUME NEW a \in LoadActors
      PROVE  /\ IsInjective(loads'[a])
             /\ \A j \in Keys : Contains(loads'[a], j) => LoadActor(j) = a /\ queryCache'[j] > 0
             /\ stage[a].pc = "run" => stage[a].obj = NULL
             /\ stage[a].pc # "run" => loads'[a] # <<>>
    BY <1>2 DEF LoadsOnce
  <2>1. CASE a = b
    BY <2>1, <1>1, <1>2, <1>3, <1>6 DEF LoadInv, LoadsOnce, b, s
  <2>2. CASE a # b
    BY <2>2, <1>1, <1>2, <1>3, <1>5 DEF LoadInv, LoadsOnce
  <2> QED BY <2>1, <2>2
<1>8. \A j \in Keys : Loading(j)' <=> Loading(j) \/ j = k
  <2> SUFFICES ASSUME NEW j \in Keys
               PROVE  Contains(loads'[LoadActor(j)], j) <=> Contains(loads[LoadActor(j)], j) \/ j = k
    BY DEF Loading
  <2>1. LoadActor(j) \in LoadActors /\ (j = k => LoadActor(j) = b)
    BY ActorsAre DEF b
  <2> QED BY <2>1, <1>1, <1>2, <1>6 DEF s
<1>9. ReservedIsLoading'
  BY <1>3, <1>4, <1>8 DEF LoadInv, ReservedIsLoading
<1>10. RepliesFilled'
  <2> SUFFICES ASSUME NEW a \in LoadActors, stage[a].pc = "reply"
               PROVE  ~Reserved(Head(loads[a]))'
    BY <1>2 DEF RepliesFilled
  <2>1. loads[a] \in Seq(Keys) /\ loads[a] # <<>> /\ IsInjective(loads[a])
    BY <1>1, <1>3 DEF LoadInv, LoadsOnce
  <2>2. PICK h \in Keys : h = Head(loads[a]) /\ h # k
    BY <2>1, <1>5, TailIs
  <2>3. Head(loads'[a]) = h
    BY <2>1, <2>2, <1>1, <1>2, <1>6 DEF s
  <2>4. ~Reserved(h)'
    BY <1>3, <1>4, <2>2 DEF LoadInv, RepliesFilled
  <2> QED BY <2>3, <2>4
<1>11. ChainIsServed'
  BY <1>1, <1>2, <1>3, <1>8 DEF LoadInv, ChainIsServed
<1>12. ChainsCounted'
  BY <1>1, <1>2, <1>3 DEF LoadInv, ChainsCounted
<1> QED BY <1>7, <1>9, <1>10, <1>11, <1>12 DEF LoadInv

\* A login that joins a chain makes it longer, at its own cost.
LEMMA LoadCharJoinLoads ==
  ASSUME ManagerInv, NEW k \in Keys, LoadCharJoin(k)
  PROVE  LoadInv'
<1>1. /\ queryCache \in [Keys -> 0..MaxLogins] /\ logins \in [Keys -> 0..MaxLogins]
      /\ LoadInv
  BY DEF ManagerInv, TypeOK
<1>2. /\ queryCache[k] > 0
      /\ queryCache' = [queryCache EXCEPT ![k] = @ + 1]
      /\ logins' = [logins EXCEPT ![k] = @ + 1]
      /\ UNCHANGED <<cacheVars, loads, stage, faults>>
  BY DEF LoadCharJoin, MayLogin, gameVars, saveVars
<1>3. \A j \in Keys : queryCache'[j] > 0 <=> queryCache[j] > 0
  BY <1>1, <1>2
<1>4. LoadsOnce'
  BY <1>1, <1>2, <1>3 DEF LoadInv, LoadsOnce
<1>5. ReservedIsLoading' /\ RepliesFilled'
  <2>1. \A j : (Reserved(j)' <=> Reserved(j)) /\ (Loading(j)' <=> Loading(j))
    BY <1>2 DEF Reserved, Loading, hashFind, cacheVars, Base
  <2> QED BY <2>1, <1>1, <1>2 DEF LoadInv, ReservedIsLoading, RepliesFilled
<1>6. ChainIsServed'
  BY <1>1, <1>2, <1>3 DEF LoadInv, ChainIsServed, Loading
<1>7. ChainsCounted'
  BY <1>1, <1>2 DEF LoadInv, ChainsCounted
<1> QED BY <1>4, <1>5, <1>6, <1>7 DEF LoadInv

\* loadAll goes on to setData, whatever it read.
LEMMA LoadAllLoads ==
  ASSUME ManagerInv, NEW a \in LoadActors, LoadAll(a) \/ LoadAllThrows(a), TypeOK'
  PROVE  LoadInv'
<1>1. /\ LoadInv
      /\ stage \in [LoadActors -> [pc : {"run", "set", "reply"}, obj : Data \cup {NULL}]]
      /\ faults.player \subseteq Keys
  BY DEF ManagerInv, TypeOK
<1>2. /\ loads[a] # <<>>
      /\ \E d : stage' = [stage EXCEPT ![a] = [pc |-> "set", obj |-> d]]
      /\ UNCHANGED <<cacheVars, queryCache, loads, logins>>
      /\ faults.player \subseteq faults'.player
  <2>1. CASE LoadAll(a)
    <3>1. /\ loads[a] # <<>>
          /\ stage' = [stage EXCEPT ![a] = [pc |-> "set", obj |-> NewObject]]
          /\ UNCHANGED <<cacheVars, queryCache, loads, logins>>
      BY <2>1 DEF LoadAll
    <3>2. PICK failed : faults' = [faults EXCEPT !.read = @ + Cardinality(failed),
                          !.player = IF 1 \in failed THEN @ \cup {Head(loads[a])} ELSE @]
      BY <2>1 DEF LoadAll
    <3>3. faults.player \subseteq faults'.player
      BY <3>2 DEF ManagerInv, TypeOK
    <3> QED BY <3>1, <3>3
  <2>2. CASE LoadAllThrows(a)
    <3>1. /\ loads[a] # <<>>
          /\ stage' = [stage EXCEPT ![a] = [pc |-> "set", obj |-> NULL]]
          /\ UNCHANGED <<cacheVars, queryCache, loads, logins>>
      BY <2>2 DEF LoadAllThrows
    <3>2. faults' = [faults EXCEPT !.read = @ + 1]
      BY <2>2 DEF LoadAllThrows
    <3>3. faults.player \subseteq faults'.player
      BY <3>2 DEF ManagerInv, TypeOK
    <3> QED BY <3>1, <3>3
  <2> QED BY <2>1, <2>2
<1>3. PICK d : stage' = [stage EXCEPT ![a] = [pc |-> "set", obj |-> d]]
  BY <1>2
<1>4. LoadsOnce'
  BY <1>1, <1>2, <1>3 DEF LoadInv, LoadsOnce
<1>5. ReservedIsLoading'
  <2>1. \A j : (Reserved(j)' <=> Reserved(j)) /\ (Loading(j)' <=> Loading(j))
    BY <1>2 DEF Reserved, Loading, hashFind, cacheVars, Base
  <2> QED BY <2>1, <1>1 DEF LoadInv, ReservedIsLoading
<1>6. RepliesFilled'
  <2>1. \A b \in LoadActors : stage'[b].pc = "reply" => stage[b].pc = "reply"
    BY <1>1, <1>3
  <2> SUFFICES ASSUME NEW b \in LoadActors, stage[b].pc = "reply"
               PROVE  ~Reserved(Head(loads[b]))'
    BY <2>1 DEF RepliesFilled
  <2>2. loads[b] \in Seq(Keys) /\ loads[b] # <<>>
    BY DEF ManagerInv, TypeOK, LoadInv, LoadsOnce
  <2>3. PICK h \in Keys : h = Head(loads[b])
    BY <2>2, HeadTailProperties
  <2>4. ~Reserved(h)'
    <3>1. Reserved(h)' <=> Reserved(h)
      BY <1>2 DEF Reserved, hashFind, cacheVars, Base
    <3> QED BY <3>1, <1>1, <2>3 DEF LoadInv, RepliesFilled
  <2>5. loads'[b] = loads[b]
    BY <1>2
  <2> QED BY <2>3, <2>4, <2>5
<1>7. ChainIsServed' /\ ChainsCounted'
  BY <1>1, <1>2 DEF LoadInv, ChainIsServed, ChainsCounted, Loading
<1> QED BY <1>4, <1>5, <1>6, <1>7 DEF LoadInv

\* setData leaves the node of the load filled, released, or taken already.
LEMMA SetDataLoads ==
  ASSUME ManagerInv, FiledByKey, FiledByKey', NEW a \in LoadActors, SetData(a)
  PROVE  LoadInv'
<1>1. /\ LoadInv /\ CacheInv
      /\ stage \in [LoadActors -> [pc : {"run", "set", "reply"}, obj : Data \cup {NULL}]]
      /\ loads \in [LoadActors -> Seq(Keys)]
  BY DEF ManagerInv, TypeOK
<1>2. /\ stage[a].pc = "set"
      /\ UNCHANGED <<queryCache, loads, logins, faults>>
  BY DEF SetData, boundVars
<1>3. loads[a] # <<>> /\ loads[a] \in Seq(Keys)
  BY <1>1, <1>2 DEF LoadInv, LoadsOnce
<1>4. PICK k \in Keys : k = Head(loads[a])
  BY <1>3, HeadTailProperties
<1>5. PICK d \in Data \cup {NULL} : stage' = [stage EXCEPT ![a] = [pc |-> "reply", obj |-> d]]
  <2>1. Held(k) \in Data \cup {NULL}
    <3>1. hashFind(k) # NULL => hashFind(k) \in Nodes
      BY DEF FiledByKey
    <3> QED BY <3>1, <1>1 DEF Held, CacheInv, CacheTypeOK, NodeRecord
  <2>2. \/ stage' = [stage EXCEPT ![a].pc = "reply"]
        \/ stage' = [stage EXCEPT ![a] = [pc |-> "reply", obj |-> Held(k)]]
    BY <1>4 DEF SetData
  <2>3. CASE stage' = [stage EXCEPT ![a].pc = "reply"]
    <3>1. stage[a].obj \in Data \cup {NULL}
      BY <1>1
    <3>2. [stage[a] EXCEPT !.pc = "reply"] = [pc |-> "reply", obj |-> stage[a].obj]
      BY <1>1
    <3>3. stage' = [stage EXCEPT ![a] = [stage[a] EXCEPT !.pc = "reply"]]
      BY <2>3
    <3> QED BY <3>1, <3>2, <3>3
  <2> QED BY <2>1, <2>2, <2>3
<1>6. \A j \in Keys : Reserved(j)' => Reserved(j) /\ j # k
  <2>1. \/ \E c \in Data : NodeFilled(k, c)
        \/ NodeReleased(k)
        \/ ~Reserved(k) /\ NodesSame
    <3>1. \/ \E c \in Data : SetDataLoaded(k, c)
          \/ SetDataEmpty(k)
          \/ SetDataIgnored(k)
      BY <1>1, <1>4 DEF SetData
    <3> QED BY <3>1, SetDataNodes DEF NodesSame
  <2> QED BY <2>1, <1>1, ReservedAfter
<1>7. LoadsOnce'
  BY <1>1, <1>2, <1>3, <1>5 DEF LoadInv, LoadsOnce
<1>8. ReservedIsLoading'
  BY <1>1, <1>2, <1>6 DEF LoadInv, ReservedIsLoading, Loading
<1>9. RepliesFilled'
  <2> SUFFICES ASSUME NEW b \in LoadActors, stage'[b].pc = "reply"
               PROVE  ~Reserved(Head(loads[b]))'
    BY <1>2 DEF RepliesFilled
  <2>1. CASE b = a
    BY <2>1, <1>2, <1>4, <1>6
  <2>2. CASE b # a
    <3>1. loads[b] \in Seq(Keys) /\ loads[b] # <<>> /\ stage[b].pc = "reply"
      BY <2>2, <1>1, <1>5 DEF LoadInv, LoadsOnce
    <3>2. PICK h \in Keys : h = Head(loads[b])
      BY <3>1, HeadTailProperties
    <3>3. ~Reserved(h)'
      BY <1>1, <1>6, <3>1, <3>2 DEF LoadInv, RepliesFilled
    <3> QED BY <3>2, <3>3, <1>2
  <2> QED BY <2>1, <2>2
<1>10. ChainIsServed' /\ ChainsCounted'
  BY <1>1, <1>2 DEF LoadInv, ChainIsServed, ChainsCounted, Loading
<1> QED BY <1>7, <1>8, <1>9, <1>10 DEF LoadInv

\* The load is done and leaves its queue; its chain is deleted unless the
\* character's PLAYER rows are missing.
LEMMA ReplyLoads ==
  ASSUME ManagerInv, NEW a \in LoadActors, ReplyNull(a) \/ ReplyThrows(a) \/ Reply(a)
  PROVE  LoadInv'
<1> DEFINE h == Head(loads[a])
<1>1. /\ LoadInv /\ DataInv
      /\ stage \in [LoadActors -> [pc : {"run", "set", "reply"}, obj : Data \cup {NULL}]]
      /\ loads \in [LoadActors -> Seq(Keys)]
      /\ queryCache \in [Keys -> 0..MaxLogins]
      /\ logins \in [Keys -> 0..MaxLogins]
  BY DEF ManagerInv, TypeOK
<1>2. /\ stage[a].pc = "reply"
      /\ loads' = [loads EXCEPT ![a] = Tail(loads[a])]
      /\ stage' = [stage EXCEPT ![a] = NoStage]
      /\ UNCHANGED <<cacheVars, logins, faults>>
  BY DEF ReplyNull, ReplyThrows, Reply, TaskDone, boundVars
<1>3. /\ loads[a] # <<>> /\ IsInjective(loads[a]) /\ loads[a] \in Seq(Keys)
  BY <1>1, <1>2 DEF LoadInv, LoadsOnce
<1>4. /\ h \in Keys /\ Contains(loads[a], h)
      /\ Tail(loads[a]) \in Seq(Keys) /\ IsInjective(Tail(loads[a]))
      /\ \A m : Contains(Tail(loads[a]), m) <=> Contains(loads[a], m) /\ m # h
  BY <1>3, TailIs
<1>5. /\ LoadActor(h) = a
      /\ \A j \in Keys : Contains(loads[LoadActor(j)], j) /\ j # h =>
                         Contains(loads'[LoadActor(j)], j)
      /\ \A b \in LoadActors, j \in Keys : Contains(loads'[b], j) =>
                         Contains(loads[b], j) /\ j # h
  <2>1. LoadActor(h) = a
    BY <1>1, <1>4 DEF LoadInv, LoadsOnce
  <2>2. ASSUME NEW j \in Keys, Contains(loads[LoadActor(j)], j), j # h
        PROVE  Contains(loads'[LoadActor(j)], j)
    BY <1>1, <1>2, <1>4, <2>2, ActorsAre
  <2>3. ASSUME NEW b \in LoadActors, NEW j \in Keys, Contains(loads'[b], j)
        PROVE  Contains(loads[b], j) /\ j # h
    <3>1. CASE b = a
      BY <1>1, <1>2, <1>4, <2>3, <3>1
    <3>2. CASE b # a
      <4>1. Contains(loads[b], j)
        BY <1>1, <1>2, <2>3, <3>2
      <4>2. LoadActor(j) = b
        BY <4>1, <1>1 DEF LoadInv, LoadsOnce
      <4> QED BY <4>1, <4>2, <2>1, <3>2
    <3> QED BY <3>1, <3>2
  <2> QED BY <2>1, <2>2, <2>3
<1>6. \A j \in Keys : Reserved(j)' <=> Reserved(j)
  BY <1>2 DEF Reserved, hashFind, cacheVars, Base
<1>7. \/ queryCache' = [queryCache EXCEPT ![h] = 0]
      \/ UNCHANGED queryCache /\ h \in faults.player
  <2>1. ASSUME ReplyThrows(a) PROVE h \in faults.player
    <3>1. /\ stage[a].obj \in Data
          /\ content[stage[a].obj][1] = NoRows
          /\ stage[a].obj # NULL
      BY <2>1, <1>1 DEF ReplyThrows
    <3>2. charId[stage[a].obj] = h
      BY <1>1, <3>1 DEF DataInv, OwnData
    <3> QED BY <1>1, <3>1, <3>2 DEF DataInv, RowsKnown
  <2> QED BY <2>1 DEF ReplyNull, ReplyThrows, Reply
<1>8. \A j \in Keys : j # h => queryCache'[j] = queryCache[j]
  BY <1>1, <1>7
<1> HIDE DEF h
<1>9. LoadsOnce'
  <2> SUFFICES ASSUME NEW b \in LoadActors
      PROVE  /\ IsInjective(loads'[b])
             /\ \A j \in Keys : Contains(loads'[b], j) => LoadActor(j) = b /\ queryCache'[j] > 0
             /\ stage'[b].pc = "run" => stage'[b].obj = NULL
             /\ stage'[b].pc # "run" => loads'[b] # <<>>
    BY DEF LoadsOnce
  <2>1. \A j \in Keys : Contains(loads'[b], j) => LoadActor(j) = b /\ queryCache'[j] > 0
    BY <1>1, <1>5, <1>8 DEF LoadInv, LoadsOnce
  <2>2. CASE b = a
    BY <2>1, <2>2, <1>1, <1>2, <1>4 DEF NoStage
  <2>3. CASE b # a
    BY <2>1, <2>3, <1>1, <1>2 DEF LoadInv, LoadsOnce
  <2> QED BY <2>2, <2>3
<1>10. ReservedIsLoading'
  <2> SUFFICES ASSUME NEW j \in Keys, Reserved(j) PROVE Contains(loads'[LoadActor(j)], j)
    BY <1>6 DEF ReservedIsLoading, Loading
  <2>1. Contains(loads[LoadActor(j)], j)
    BY <1>1 DEF LoadInv, ReservedIsLoading, Loading
  <2>2. j # h
    BY <1>1, <1>2 DEF LoadInv, RepliesFilled, h
  <2> QED BY <2>1, <2>2, <1>5
<1>11. RepliesFilled'
  <2> SUFFICES ASSUME NEW b \in LoadActors, stage'[b].pc = "reply"
               PROVE  ~Reserved(Head(loads[b]))'
    BY DEF RepliesFilled
  <2>1. b # a /\ stage[b].pc = "reply" /\ loads'[b] = loads[b]
    BY <1>1, <1>2 DEF NoStage
  <2>2. loads[b] \in Seq(Keys) /\ loads[b] # <<>>
    BY <1>1, <2>1 DEF LoadInv, LoadsOnce
  <2>3. PICK g \in Keys : g = Head(loads[b])
    BY <2>2, HeadTailProperties
  <2>4. ~Reserved(g)'
    BY <1>1, <1>6, <2>1, <2>3 DEF LoadInv, RepliesFilled
  <2> QED BY <2>1, <2>3, <2>4
<1>12. ChainIsServed'
  <2> SUFFICES ASSUME NEW j \in Keys, queryCache'[j] > 0
               PROVE  Contains(loads'[LoadActor(j)], j) \/ j \in faults'.player
    BY DEF ChainIsServed, Loading
  <2>1. CASE j = h
    BY <2>1, <1>1, <1>2, <1>7
  <2>2. CASE j # h
    BY <2>2, <1>1, <1>2, <1>5, <1>8 DEF LoadInv, ChainIsServed, Loading
  <2> QED BY <2>1, <2>2
<1>13. ChainsCounted'
  <2>1. \A j \in Keys : queryCache'[j] <= queryCache[j]
    <3>1. CASE UNCHANGED queryCache
      BY <3>1, <1>1
    <3>2. CASE queryCache' = [queryCache EXCEPT ![h] = 0]
      BY <3>2, <1>1
    <3> QED BY <3>1, <3>2, <1>7
  <2>2. queryCache' \in [Keys -> 0..MaxLogins]
    <3>1. 0 \in 0..MaxLogins
      BY CountsAre
    <3> QED BY <3>1, <1>1, <1>7
  <2> QED BY <2>1, <2>2, <1>1, <1>2 DEF LoadInv, ChainsCounted
<1> QED BY <1>9, <1>10, <1>11, <1>12, <1>13 DEF LoadInv

\* A restarted process has nothing to load.
LEMMA CrashLoads ==
  ASSUME FiledByKey', Crash
  PROVE  LoadInv'
<1>1. /\ queryCache' = [k \in Keys |-> 0]
      /\ loads' = [a \in LoadActors |-> <<>>]
      /\ stage' = [a \in LoadActors |-> NoStage]
      /\ logins' = [k \in Keys |-> 0]
      /\ node' = [n \in Nodes |-> FreshNode]
  BY DEF Crash
<1>2. IsInjective(<<>>) /\ \A m : ~Contains(<<>>, m)
  BY EmptySeq DEF IsInjective, Contains
<1>3. LoadsOnce'
  BY <1>1, <1>2 DEF LoadsOnce, NoStage
<1>4. \A k \in Keys : ~Reserved(k)'
  BY <1>1, CacheAssumption DEF FiledByKey, FreshNode
<1>5. ReservedIsLoading'
  BY <1>4 DEF ReservedIsLoading
<1>6. RepliesFilled'
  BY <1>1 DEF RepliesFilled, NoStage
<1>7. ChainIsServed' /\ ChainsCounted'
  BY <1>1 DEF ChainIsServed, ChainsCounted
<1> QED BY <1>3, <1>5, <1>6, <1>7 DEF LoadInv

----------------------------------------------------------------------------
(* Every step keeps DataInv.                                               *)

\* The parts of OwnData.
NodesOwn == \A n \in Nodes : node[n].data # NULL => charId[node[n].data] = node[n].key
LoadsOwn == \A a \in LoadActors : stage[a].obj # NULL => charId[stage[a].obj] = Head(loads[a])
CheckerOwns == checker.pc \in {"update", "dirty"} => charId[checker.obj] = checker.key

\* Where the nodes, the objects and the save queues stay, only the checker and
\* the characters it holds have to be looked at.
LEMMA DataKept ==
  ASSUME ManagerInv, NodesSame, UNCHANGED <<content, fresh, charId, stage, saves>>,
         \A a \in LoadActors : loads[a] # <<>> => Head(loads'[a]) = Head(loads[a]),
         faults.player \subseteq faults'.player,
         CheckerHolds', CheckerOwns'
  PROVE  DataInv'
<1>1. LoadInv /\ DataInv
  BY DEF ManagerInv
<1>2. NodesOwn'
  BY <1>1 DEF DataInv, OwnData, NodesOwn, NodesSame
<1>3. LoadsOwn'
  BY <1>1 DEF DataInv, OwnData, LoadsOwn, LoadInv, LoadsOnce, ManagerInv, TypeOK
<1>4. SavesHold'
  BY <1>1 DEF DataInv, SavesHold
<1>5. RowsKnown'
  BY <1>1 DEF DataInv, RowsKnown
<1> QED BY <1>2, <1>3, <1>4, <1>5 DEF DataInv, OwnData, NodesOwn, LoadsOwn, CheckerOwns

\* A reserved node has no object yet, and a load is queued behind the others.
LEMMA LoadCharData ==
  ASSUME ManagerInv, NEW k \in Keys, LoadCharFirst(k) \/ LoadCharRefused(k) \/ LoadCharJoin(k)
  PROVE  DataInv'
<1>1. LoadInv /\ DataInv /\ loads \in [LoadActors -> Seq(Keys)] /\ node \in [Nodes -> NodeRecord]
  BY DEF ManagerInv, TypeOK, CacheTypeOK
<1>2. UNCHANGED <<chars, content, fresh, charId, stage, saves, checker, faults>>
  BY DEF LoadCharFirst, LoadCharRefused, LoadCharJoin, MayLogin, gameVars, saveVars
<1>3. \A a \in LoadActors : loads[a] # <<>> => Head(loads'[a]) = Head(loads[a])
  <2>1. CASE UNCHANGED loads
    BY <2>1
  <2>2. CASE loads' = [loads EXCEPT ![LoadActor(k)] = Append(@, k)]
    <3> SUFFICES ASSUME NEW a \in LoadActors, loads[a] # <<>>
                 PROVE  Head(loads'[a]) = Head(loads[a])
      OBVIOUS
    <3>1. CASE a = LoadActor(k)
      <4>1. loads'[a] = Append(loads[a], k) /\ loads[a] \in Seq(Keys)
        BY <1>1, <2>2, <3>1
      <4> QED BY <4>1, AppendProperties, HeadTailProperties, LenProperties, EmptySeq
    <3>2. CASE a # LoadActor(k)
      BY <1>1, <2>2, <3>2
    <3> QED BY <3>1, <3>2
  <2> QED BY <2>1, <2>2 DEF LoadCharFirst, LoadCharRefused, LoadCharJoin
<1>4. NodeReserved(k) \/ UNCHANGED node
  BY OccupyNodes DEF LoadCharFirst, LoadCharRefused, LoadCharJoin, ManagerInv, OccupyFail, cacheVars
<1>5. NodesOwn'
  <2>1. \A n \in Nodes : node'[n] = node[n] \/ node'[n].data = NULL
    <3>1. CASE NodeReserved(k)
      <4>1. PICK n \in Nodes : node' = [node EXCEPT ![n] = [FreshNode EXCEPT !.key = k]]
        BY <3>1 DEF NodeReserved
      <4> QED BY <4>1, <1>1 DEF FreshNode
    <3> QED BY <3>1, <1>4
  <2> QED BY <2>1, <1>1, <1>2 DEF DataInv, OwnData, NodesOwn
<1>6. LoadsOwn'
  BY <1>1, <1>2, <1>3 DEF DataInv, OwnData, LoadsOwn, LoadInv, LoadsOnce, ManagerInv, TypeOK
<1>7. CheckerOwns' /\ CheckerHolds' /\ SavesHold' /\ RowsKnown'
  BY <1>1, <1>2 DEF DataInv, OwnData, CheckerOwns, CheckerHolds, SavesHold, RowsKnown
<1> QED BY <1>5, <1>6, <1>7 DEF DataInv, OwnData, NodesOwn, LoadsOwn, CheckerOwns

\* A game message leaves the character online.
LEMMA PlayData ==
  ASSUME ManagerInv, NEW k \in Keys, NEW m \in Modules, Play(k, m), TypeOK'
  PROVE  DataInv'
<1>1. DataInv /\ chars \in [Keys -> {NULL} \cup [Modules -> Versions]]
  BY DEF ManagerInv, TypeOK
<1>2. /\ chars[k] # NULL
      /\ chars' = [chars EXCEPT ![k][m] = @ + 1]
      /\ UNCHANGED <<cacheVars, content, fresh, charId, loads, stage, saves, checker, faults>>
  BY DEF Play, loadVars, saveVars, boundVars
<1>3. \A j \in Keys : chars[j] # NULL => chars'[j] # NULL
  <2>1. chars'[k] # NULL
    <3>1. chars[k] \in [Modules -> Versions]
      BY <1>1, <1>2
    <3>2. chars' = [chars EXCEPT ![k] = [chars[k] EXCEPT ![m] = chars[k][m] + 1]]
      BY <1>2
    <3>3. chars'[k] = [j \in Modules |-> IF j = m THEN chars[k][m] + 1 ELSE chars[k][j]]
      BY <1>1, <3>1, <3>2
    <3>4. chars[k][m] + 1 \in Versions
      BY <3>1, CountsAre DEF Play, Versions
    <3>5. chars'[k] \in [Modules -> Versions]
      BY <3>1, <3>3, <3>4
    <3> QED BY <3>5, ManagerAssumption
  <2> QED BY <1>1, <1>2, <2>1
<1>4. CheckerHolds'
  BY <1>1, <1>2, <1>3 DEF DataInv, CheckerHolds, CheckerRecord, ManagerInv, TypeOK
<1>5. CheckerOwns' /\ NodesSame
  BY <1>1, <1>2 DEF DataInv, OwnData, CheckerOwns, NodesSame, cacheVars
<1> QED BY <1>2, <1>4, <1>5, DataKept

\* The new object is nobody's yet, so it can be given to the character.
LEMMA LoadAllData ==
  ASSUME ManagerInv, NEW a \in LoadActors, LoadAll(a)
  PROVE  DataInv'
<1> DEFINE h == Head(loads[a])
<1>1. /\ LoadInv /\ DataInv
      /\ loads \in [LoadActors -> Seq(Keys)]
      /\ stage \in [LoadActors -> [pc : {"run", "set", "reply"}, obj : Data \cup {NULL}]]
      /\ charId \in [Data -> Keys \cup {NULL}]
      /\ content \in [Data -> [Modules -> Versions \cup {NoRows}]]
      /\ fresh \in [Data -> [Modules -> BOOLEAN]]
      /\ db \in [Keys -> [Modules -> Versions]]
      /\ saves \in [DbActors -> Seq([obj : Data, next : Modules])]
      /\ faults \in [save : 0..MaxSaveFails, read : 0..MaxReadFails, crash : 0..MaxCrashes,
                     player : SUBSET Keys]
  BY DEF ManagerInv, TypeOK
<1>2. PICK d : d = NewObject /\ d \in Data /\ ~Referenced(d)
  BY DEF LoadAll, HeapHasRoom, NewObject
<1>3. /\ fresh' = [fresh EXCEPT ![d] = [m \in Modules |-> FALSE]]
      /\ charId' = [charId EXCEPT ![d] = h]
      /\ stage' = [stage EXCEPT ![a] = [pc |-> "set", obj |-> d]]
      /\ UNCHANGED <<cacheVars, chars, loads, saves, checker>>
      /\ loads[a] # <<>>
  BY <1>2 DEF LoadAll, saveVars
<1>4. PICK failed :
        /\ faults' = [faults EXCEPT !.read = @ + Cardinality(failed),
                                    !.player = IF 1 \in failed THEN @ \cup {h} ELSE @]
        /\ content' = [content EXCEPT ![d] =
                        [m \in Modules |-> IF m \in failed THEN NoRows ELSE db[h][m]]]
  BY <1>2 DEF LoadAll
<1>5. h \in Keys
  BY <1>1, <1>3, HeadTailProperties
<1> HIDE DEF h
<1>6. /\ \A n \in Nodes : node[n].data # d
      /\ \A b \in LoadActors : stage[b].obj # d
      /\ \A b \in DbActors : \A i \in DOMAIN saves[b] : saves[b][i].obj # d
      /\ checker.obj # d
  BY <1>2 DEF Referenced
<1>7. NodesOwn'
  <2> SUFFICES ASSUME NEW n \in Nodes, node[n].data # NULL
               PROVE  charId'[node[n].data] = node[n].key
    BY <1>3 DEF NodesOwn, cacheVars
  <2>1. node[n].data \in Data
    BY DEF ManagerInv, TypeOK, CacheTypeOK, NodeRecord
  <2> QED BY <2>1, <1>1, <1>3, <1>6 DEF DataInv, OwnData
<1>8. LoadsOwn'
  <2> SUFFICES ASSUME NEW b \in LoadActors, stage'[b].obj # NULL
               PROVE  charId'[stage'[b].obj] = Head(loads[b])
    BY <1>3 DEF LoadsOwn
  <2>1. CASE b = a
    BY <2>1, <1>1, <1>2, <1>3 DEF h
  <2>2. CASE b # a
    BY <2>2, <1>1, <1>2, <1>3, <1>6 DEF DataInv, OwnData
  <2> QED BY <2>1, <2>2
<1>9. CheckerOwns'
  <2>1. checker.pc \in {"update", "dirty"} => checker.obj \in Data
    BY <1>1 DEF ManagerInv, TypeOK, CheckerRecord, DataInv, CheckerHolds
  <2> QED BY <2>1, <1>1, <1>3, <1>6 DEF DataInv, OwnData, CheckerOwns
<1>10. CheckerHolds'
  <2>1. checker.pc = "put" => checker.obj \in Data
    BY <1>1 DEF ManagerInv, TypeOK, CheckerRecord, DataInv, CheckerHolds
  <2>2. checker.pc = "put" => charId'[checker.obj] # NULL
    BY <2>1, <1>1, <1>3, <1>6 DEF DataInv, CheckerHolds
  <2> QED BY <2>2, <1>1, <1>3 DEF DataInv, CheckerHolds
<1>11. SavesHold'
  <2> SUFFICES ASSUME NEW b \in DbActors, NEW i \in DOMAIN saves[b]
               PROVE  charId'[saves[b][i].obj] # NULL
    BY <1>3 DEF SavesHold
  <2>1. saves[b][i] \in [obj : Data, next : Modules]
    <3>1. saves[b] \in Seq([obj : Data, next : Modules])
      BY <1>1
    <3>2. i \in 1..Len(saves[b])
      BY <3>1, LenProperties
    <3> QED BY <3>1, <3>2, ElementOfSeq
  <2> QED BY <2>1, <1>1, <1>3, <1>6 DEF DataInv, SavesHold
<1>12. RowsKnown'
  <2> SUFFICES ASSUME NEW c \in Data
      PROVE  /\ content'[c][1] = NoRows => charId'[c] \in faults'.player
             /\ \A m \in Modules : fresh'[c][m] => content'[c][m] # NoRows
    BY DEF RowsKnown
  <2>1. CASE c = d
    <3>1. \A m \in Modules : ~fresh'[c][m]
      BY <2>1, <1>1, <1>3
    <3>2. ASSUME content'[c][1] = NoRows PROVE charId'[c] \in faults'.player
      <4>1. 1 \in Modules
        BY CountsAre DEF Modules
      <4>2. content'[c][1] = IF 1 \in failed THEN NoRows ELSE db[h][1]
        BY <2>1, <1>1, <1>2, <1>4, <4>1
      <4>3. db[h][1] \in Versions /\ db[h][1] # NoRows
        BY <1>1, <1>5, <4>1, CountsAre DEF Versions, NoRows
      <4>4. 1 \in failed
        BY <4>2, <4>3, <3>2
      <4>5. h \in faults'.player
        BY <4>4, <1>1, <1>4
      <4> QED BY <4>5, <2>1, <1>1, <1>2, <1>3
    <3> QED BY <3>1, <3>2
  <2>2. CASE c # d
    <3>1. content'[c] = content[c] /\ fresh'[c] = fresh[c] /\ charId'[c] = charId[c]
      BY <2>2, <1>1, <1>3, <1>4
    <3>2. faults.player \subseteq faults'.player
      BY <1>1, <1>4
    <3> QED BY <3>1, <3>2, <1>1 DEF DataInv, RowsKnown
  <2> QED BY <2>1, <2>2
<1> QED BY <1>7, <1>8, <1>9, <1>10, <1>11, <1>12
        DEF DataInv, OwnData, NodesOwn, LoadsOwn, CheckerOwns

\* A load that threw has no object.
LEMMA LoadAllThrowsData ==
  ASSUME ManagerInv, NEW a \in LoadActors, LoadAllThrows(a)
  PROVE  DataInv'
<1>1. /\ DataInv
      /\ stage \in [LoadActors -> [pc : {"run", "set", "reply"}, obj : Data \cup {NULL}]]
      /\ faults \in [save : 0..MaxSaveFails, read : 0..MaxReadFails, crash : 0..MaxCrashes,
                     player : SUBSET Keys]
  BY DEF ManagerInv, TypeOK
<1>2. /\ stage' = [stage EXCEPT ![a] = [pc |-> "set", obj |-> NULL]]
      /\ faults' = [faults EXCEPT !.read = @ + 1]
      /\ UNCHANGED <<cacheVars, gameVars, loads, saveVars>>
  BY DEF LoadAllThrows
<1>3. faults'.player = faults.player
  BY <1>1, <1>2
<1>4. LoadsOwn'
  BY <1>1, <1>2 DEF DataInv, OwnData, LoadsOwn, gameVars
<1>5. NodesOwn' /\ CheckerOwns' /\ CheckerHolds' /\ SavesHold' /\ RowsKnown'
  BY <1>1, <1>2, <1>3 DEF DataInv, OwnData, NodesOwn, CheckerOwns, CheckerHolds, SavesHold,
                          RowsKnown, gameVars, saveVars, cacheVars
<1> QED BY <1>4, <1>5 DEF DataInv, OwnData, NodesOwn, LoadsOwn, CheckerOwns

\* setData files the object under its character, and hands on what is filed.
LEMMA SetDataData ==
  ASSUME ManagerInv, FiledByKey, NEW a \in LoadActors, SetData(a)
  PROVE  DataInv'
<1>1. /\ LoadInv /\ DataInv
      /\ loads \in [LoadActors -> Seq(Keys)]
      /\ stage \in [LoadActors -> [pc : {"run", "set", "reply"}, obj : Data \cup {NULL}]]
      /\ node \in [Nodes -> NodeRecord]
  BY DEF ManagerInv, TypeOK, CacheTypeOK
<1>2. /\ stage[a].pc = "set"
      /\ UNCHANGED <<gameVars, loads, saveVars, faults>>
  BY DEF SetData, boundVars
<1>3. PICK k \in Keys : k = Head(loads[a])
  <2>1. loads[a] \in Seq(Keys) /\ loads[a] # <<>>
    BY <1>1, <1>2 DEF LoadInv, LoadsOnce
  <2> QED BY <2>1, HeadTailProperties
<1>4. PICK d \in Data \cup {NULL} : d = stage[a].obj /\ (d # NULL => charId[d] = k)
  BY <1>1, <1>3 DEF DataInv, OwnData
<1>5. \/ d # NULL /\ NodeFilled(k, d) /\ stage' = [stage EXCEPT ![a].pc = "reply"]
      \/ NodeReleased(k) /\ stage' = [stage EXCEPT ![a].pc = "reply"]
      \/ UNCHANGED node /\ stage' = [stage EXCEPT ![a] = [pc |-> "reply", obj |-> Held(k)]]
  <2>1. \/ d # NULL /\ SetDataLoaded(k, d) /\ stage' = [stage EXCEPT ![a].pc = "reply"]
        \/ SetDataEmpty(k) /\ stage' = [stage EXCEPT ![a].pc = "reply"]
        \/ SetDataIgnored(k) /\ stage' = [stage EXCEPT ![a] = [pc |-> "reply", obj |-> Held(k)]]
    BY <1>3, <1>4 DEF SetData
  <2> QED BY <2>1, SetDataNodes
<1>6. NodesOwn'
  <2>1. CASE d # NULL /\ NodeFilled(k, d)
    <3>1. PICK n \in Nodes : node[n].key = k /\ node' = [node EXCEPT ![n].data = d]
      BY <2>1 DEF NodeFilled
    <3>2. node'[n].key = k /\ node'[n].data = d /\ \A m \in Nodes : m # n => node'[m] = node[m]
      BY <3>1, <1>1 DEF NodeRecord
    <3>3. ASSUME NEW m \in Nodes, node'[m].data # NULL
          PROVE  charId[node'[m].data] = node'[m].key
      <4>1. CASE m = n
        BY <4>1, <3>2, <1>4, <2>1
      <4>2. CASE m # n
        BY <4>2, <3>2, <3>3, <1>1 DEF DataInv, OwnData
      <4> QED BY <4>1, <4>2
    <3> QED BY <3>3, <1>2 DEF NodesOwn, gameVars
  <2>2. CASE NodeReleased(k)
    <3>1. PICK n \in Nodes : node' = [node EXCEPT ![n] = FreshNode]
      BY <2>2 DEF NodeReleased
    <3>2. \A m \in Nodes : node'[m] = node[m] \/ node'[m].data = NULL
      BY <3>1, <1>1 DEF FreshNode
    <3> QED BY <3>2, <1>1, <1>2 DEF DataInv, OwnData, NodesOwn, gameVars
  <2>3. CASE UNCHANGED node
    BY <2>3, <1>1, <1>2 DEF DataInv, OwnData, NodesOwn, gameVars
  <2> QED BY <1>5, <2>1, <2>2, <2>3
<1>7. LoadsOwn'
  <2>1. stage'[a].obj = d \/ stage'[a].obj = Held(k)
    BY <1>1, <1>4, <1>5
  <2>2. Held(k) # NULL => charId[Held(k)] = k
    BY <1>1 DEF FiledByKey, DataInv, OwnData
  <2>3. \A b \in LoadActors : b # a => stage'[b] = stage[b]
    BY <1>1, <1>5
  <2> SUFFICES ASSUME NEW b \in LoadActors, stage'[b].obj # NULL
               PROVE  charId[stage'[b].obj] = Head(loads[b])
    BY <1>2 DEF LoadsOwn, gameVars
  <2>4. CASE b = a
    BY <2>1, <2>2, <2>4, <1>3, <1>4
  <2>5. CASE b # a
    BY <2>3, <2>5, <1>1 DEF DataInv, OwnData
  <2> QED BY <2>4, <2>5
<1>8. CheckerOwns' /\ CheckerHolds' /\ SavesHold' /\ RowsKnown'
  BY <1>1, <1>2 DEF DataInv, OwnData, CheckerOwns, CheckerHolds, SavesHold, RowsKnown,
                    gameVars, saveVars
<1> QED BY <1>6, <1>7, <1>8 DEF DataInv, OwnData, NodesOwn, LoadsOwn, CheckerOwns

\* A callback puts its character into PlayerManager, or nothing.
LEMMA ReplyData ==
  ASSUME ManagerInv, NEW a \in LoadActors, ReplyNull(a) \/ ReplyThrows(a) \/ Reply(a), TypeOK'
  PROVE  DataInv'
<1>1. /\ LoadInv /\ DataInv
      /\ stage \in [LoadActors -> [pc : {"run", "set", "reply"}, obj : Data \cup {NULL}]]
      /\ loads \in [LoadActors -> Seq(Keys)]
      /\ chars \in [Keys -> {NULL} \cup [Modules -> Versions]]
      /\ chars' \in [Keys -> {NULL} \cup [Modules -> Versions]]
  BY DEF ManagerInv, TypeOK
<1>2. /\ loads' = [loads EXCEPT ![a] = Tail(loads[a])]
      /\ stage' = [stage EXCEPT ![a] = NoStage]
      /\ UNCHANGED <<cacheVars, content, fresh, charId, saves, checker, faults>>
  BY DEF ReplyNull, ReplyThrows, Reply, TaskDone, boundVars
<1>3. \A j \in Keys : chars[j] # NULL => chars'[j] # NULL
  <2>1. CASE UNCHANGED chars
    BY <2>1
  <2>2. CASE Reply(a)
    <3> DEFINE d == stage[a].obj
               new == [m \in Modules |-> IF content[d][m] = NoRows THEN 0 ELSE content[d][m]]
    <3>1. /\ chars' = [chars EXCEPT ![Head(loads[a])] = new]
          /\ d \in Data
      BY <2>2, <1>1 DEF Reply
    <3>2. new \in [Modules -> Versions]
      <4> SUFFICES ASSUME NEW m \in Modules
                   PROVE  (IF content[d][m] = NoRows THEN 0 ELSE content[d][m]) \in Versions
        OBVIOUS
      <4>1. content[d][m] \in Versions \cup {NoRows}
        BY <3>1 DEF ManagerInv, TypeOK
      <4>2. 0 \in Versions
        BY CountsAre DEF Versions
      <4> QED BY <4>1, <4>2
    <3>3. new # NULL
      BY <3>2, ManagerAssumption
    <3> HIDE DEF new
    <3> QED BY <3>1, <3>3, <1>1
  <2> QED BY <2>1, <2>2 DEF ReplyNull, ReplyThrows
<1>4. LoadsOwn'
  <2> SUFFICES ASSUME NEW b \in LoadActors, stage'[b].obj # NULL
               PROVE  charId[stage'[b].obj] = Head(loads'[b])
    BY <1>2 DEF LoadsOwn
  <2>1. b # a /\ stage'[b] = stage[b] /\ loads'[b] = loads[b]
    BY <1>1, <1>2 DEF NoStage
  <2> QED BY <2>1, <1>1 DEF DataInv, OwnData
<1>5. NodesOwn' /\ CheckerOwns' /\ SavesHold' /\ RowsKnown'
  BY <1>1, <1>2 DEF DataInv, OwnData, NodesOwn, CheckerOwns, SavesHold, RowsKnown, cacheVars
<1>6. CheckerHolds'
  BY <1>1, <1>2, <1>3 DEF DataInv, CheckerHolds, CheckerRecord, ManagerInv, TypeOK
<1> QED BY <1>4, <1>5, <1>6 DEF DataInv, OwnData, NodesOwn, LoadsOwn, CheckerOwns

\* The head of the dirty queue holds an object, of its node's character.
LEMMA DirtyHolds ==
  ASSUME ManagerInv, dirty_list # <<>>
  PROVE  LET d == node[Head(dirty_list)].data IN d \in Data /\ charId[d] \in Keys
<1> DEFINE n == Head(dirty_list)
<1>1. CacheInv /\ DataInv
  BY DEF ManagerInv
<1>2. n \in Nodes /\ Contains(dirty_list, n)
  BY <1>1, TailIs DEF CacheInv, CacheTypeOK, DirtyQueuedOnce
<1> HIDE DEF n
<1>3. node[n].dirty /\ ~Contains(mem, n) /\ ~Contains(lru_clean, n)
  BY <1>1, <1>2 DEF CacheInv, DirtyQueuedOnce
<1>4. Contains(lru_dirty, n) /\ InLru(n)
  BY <1>1, <1>2, <1>3 DEF CacheInv, PoolPartition, InLru
<1>5. node[n].data # NULL /\ node[n].key # NULL
  BY <1>1, <1>2, <1>3, <1>4 DEF CacheInv, DirtyQueuedOnce, HashExact
<1>6. node[n] \in NodeRecord
  BY <1>1, <1>2 DEF CacheInv, CacheTypeOK
<1>7. node[n].data \in Data /\ charId[node[n].data] = node[n].key /\ node[n].key \in Keys
  BY <1>1, <1>2, <1>5, <1>6 DEF DataInv, OwnData, NodeRecord
<1> QED BY <1>7 DEF n

\* DB_CHECK holds the object it took until it has queued its save.
LEMMA CheckData ==
  ASSUME ManagerInv, CheckTake \/ CheckPut \/ CheckEnd
  PROVE  DataInv'
<1>1. /\ DataInv /\ CacheInv
      /\ saves \in [DbActors -> Seq([obj : Data, next : Modules])]
      /\ checker \in CheckerRecord
  BY DEF ManagerInv, TypeOK
<1>2. UNCHANGED <<content, fresh, charId, chars, loads, stage, faults>>
  BY DEF CheckTake, CheckPut, CheckEnd, gameVars, loadVars, boundVars
<1>3. NodesSame
  <2>1. GetNextDirtyNodeAndClean => NodesSame
    <3>1. node \in [Nodes -> NodeRecord]
      BY <1>1 DEF CacheInv, CacheTypeOK
    <3> QED BY <3>1 DEF GetNextDirtyNodeAndClean, NodesSame, NodeRecord
  <2> QED BY <2>1 DEF CheckTake, CheckPut, CheckEnd, NodesSame, cacheVars
<1>4. CASE CheckTake
  <2>1. /\ dirty_list # <<>>
        /\ UNCHANGED saves
        /\ checker' = [Idle EXCEPT !.pc = "put", !.count = checker.count + 1,
                                   !.obj = node[Head(dirty_list)].data]
    BY <1>4 DEF CheckTake, GetNextDirtyNodeAndClean
  <2>2. PICK d \in Data : d = node[Head(dirty_list)].data /\ charId[d] \in Keys
    BY <2>1, DirtyHolds
  <2>3. /\ checker'.pc = "put" /\ checker'.obj = d /\ checker'.todo = {}
    BY <2>1, <2>2 DEF Idle
  <2>4. CheckerHolds' /\ CheckerOwns'
    BY <2>2, <2>3, <1>2, CacheAssumption DEF CheckerHolds, CheckerOwns
  <2> QED BY <2>1, <2>4, <1>2, <1>3, DataKept
<1>5. CASE CheckEnd
  <2>1. CheckerHolds' /\ CheckerOwns'
    BY <1>5, <1>2 DEF CheckEnd, CheckerHolds, CheckerOwns, Idle
  <2> QED BY <2>1, <1>2, <1>3, <1>5, DataKept DEF CheckEnd
<1>6. CASE CheckPut
  <2>1. PICK d \in Data : d = checker.obj /\ charId[d] # NULL
    BY <1>1, <1>6 DEF CheckPut, DataInv, CheckerHolds, CheckerRecord
  <2>2. charId[d] \in Keys
    BY <2>1 DEF ManagerInv, TypeOK
  <2>3. PICK b \in DbActors : b = DbActor(charId[d])
    BY <2>2, ActorsAre
  <2>4. /\ saves' = [saves EXCEPT ![b] = Append(saves[b], [obj |-> d, next |-> 1])]
        /\ checker' = [Idle EXCEPT !.pc = "check", !.count = checker.count]
    BY <1>6, <2>1, <2>3 DEF CheckPut
  <2>5. SavesHold'
    <3> SUFFICES ASSUME NEW c \in DbActors, NEW i \in DOMAIN saves'[c]
                 PROVE  charId[saves'[c][i].obj] # NULL
      BY <1>2 DEF SavesHold
    <3>1. CASE c # b
      BY <3>1, <2>4, <1>1 DEF DataInv, SavesHold
    <3>2. CASE c = b
      <4> DEFINE s == saves[b]  e == [obj |-> d, next |-> 1]
      <4>1. /\ s \in Seq([obj : Data, next : Modules]) /\ saves'[c] = Append(s, e)
            /\ \A j \in DOMAIN s : charId[s[j].obj] # NULL
        BY <3>2, <2>3, <2>4, <1>1 DEF DataInv, SavesHold
      <4>2. e \in [obj : Data, next : Modules]
        BY CountsAre DEF Modules
      <4>3. e.obj = d
        OBVIOUS
      <4> HIDE DEF s, e
      <4>4. /\ DOMAIN Append(s, e) = 1..(Len(s) + 1) /\ DOMAIN s = 1..Len(s) /\ Len(s) \in Nat
            /\ \A j \in 1..Len(s) : Append(s, e)[j] = s[j]
            /\ Append(s, e)[Len(s) + 1] = e
        BY <4>1, <4>2, AppendProperties, LenProperties
      <4>5. i \in 1..Len(s) \/ i = Len(s) + 1
        BY <4>1, <4>4
      <4> QED BY <4>1, <4>3, <4>4, <4>5, <2>1
    <3> QED BY <3>1, <3>2
  <2>6. CheckerHolds' /\ CheckerOwns'
    BY <2>4, <1>2 DEF CheckerHolds, CheckerOwns, Idle
  <2>7. NodesOwn' /\ LoadsOwn' /\ RowsKnown'
    BY <1>1, <1>2, <1>3 DEF DataInv, OwnData, NodesOwn, LoadsOwn, RowsKnown, NodesSame
  <2> QED BY <2>5, <2>6, <2>7 DEF DataInv, OwnData, NodesOwn, LoadsOwn, CheckerOwns
<1> QED BY <1>4, <1>5, <1>6

\* save_player goes from module to module and from one online character to the
\* next.
LEMMA NextModuleIs ==
  ASSUME checker \in CheckerRecord, checker.pc \in {"query", "dirty"}, CheckerHolds, NextModule
  PROVE  /\ checker' \in CheckerRecord
         /\ checker'.pc \in {"idle", "query"}
         /\ checker'.pc = "query" => /\ checker'.key # NULL
                                     /\ checker'.mod # 0
                                     /\ chars[checker'.key] # NULL
         /\ \A k \in checker'.todo : chars[k] # NULL
         /\ checker'.obj = NULL
         /\ \/ UNCHANGED oldChar
            \/ oldChar' = [oldChar EXCEPT ![checker.key] = NULL]
<1>0. /\ 0 \in Versions /\ 1 \in 0..num_modules /\ 0 \in 0..num_modules
      /\ 0 \in 0..SAVE_CHAR_PER_SEC /\ num_modules \in Nat
  BY CountsAre DEF Versions
<1>1. CASE checker.mod < num_modules
  <2>1. /\ checker' = [checker EXCEPT !.pc = "query", !.mod = @ + 1, !.obj = NULL, !.val = 0]
        /\ UNCHANGED oldChar
    BY <1>1 DEF NextModule
  <2>2. checker.mod + 1 \in 0..num_modules /\ checker.mod + 1 # 0
    BY <1>0, <1>1 DEF CheckerRecord
  <2> QED BY <2>1, <2>2, <1>0 DEF CheckerRecord, CheckerHolds
<1>2. CASE ~(checker.mod < num_modules)
  <2>1. oldChar' = [oldChar EXCEPT ![checker.key] = NULL]
    BY <1>2 DEF NextModule
  <2>2. CASE checker.todo = {}
    BY <2>1, <2>2, <1>2, <1>0 DEF NextModule, Idle, CheckerRecord
  <2>3. CASE checker.todo # {}
    <3>1. PICK k \in checker.todo :
            checker' = [Idle EXCEPT !.pc = "query", !.key = k, !.mod = 1,
                                    !.todo = checker.todo \ {k}]
      BY <2>3, <1>2 DEF NextModule
    <3>2. k \in Keys /\ k # NULL /\ checker.todo \subseteq Keys /\ chars[k] # NULL
      BY CacheAssumption DEF CheckerRecord, CheckerHolds
    <3>3. checker' = [pc |-> "query", key |-> k, mod |-> 1, obj |-> NULL, val |-> 0,
                      todo |-> checker.todo \ {k}, count |-> 0]
      BY <3>1 DEF Idle
    <3>4. checker' \in CheckerRecord
      BY <3>2, <3>3, <1>0 DEF CheckerRecord
    <3>5. \A j \in checker'.todo : chars[j] # NULL
      BY <3>3 DEF CheckerHolds
    <3> QED BY <2>1, <3>2, <3>3, <3>4, <3>5
  <2> QED BY <2>2, <2>3
<1> QED BY <1>1, <1>2

\* save_player holds online characters, and the objects their nodes hold.
LEMMA SavePlayerData ==
  ASSUME ManagerInv, FiledByKey,
         \/ \E chosen \in SUBSET Online : SavePlayerTick(chosen)
         \/ SaveModuleQuery \/ SaveModuleMiss \/ SaveModuleDirty
  PROVE  DataInv'
<1>1. /\ DataInv /\ CacheInv /\ checker \in CheckerRecord
      /\ checker.pc \in {"query", "update", "dirty"} => checker.key \in Keys
  BY DEF ManagerInv, TypeOK, DataInv, CheckerHolds, CheckerRecord
<1>2. UNCHANGED <<content, fresh, charId, chars, loads, stage, saves, faults>>
  BY DEF SavePlayerTick, SaveModuleQuery, SaveModuleMiss, SaveModuleDirty,
         gameVars, loadVars, boundVars
<1>3. NodesSame
  BY <1>1, QueryNodes DEF SavePlayerTick, SaveModuleQuery, SaveModuleMiss, SaveModuleDirty,
                          NodesSame, cacheVars
<1> SUFFICES CheckerHolds' /\ CheckerOwns'
  BY <1>2, <1>3, DataKept
<1>4. CASE \E chosen \in SUBSET Online : SavePlayerTick(chosen)
  <2>0. PICK chosen \in SUBSET Online : SavePlayerTick(chosen)
    BY <1>4
  <2>1. PICK k \in chosen :
          checker' = [Idle EXCEPT !.pc = "query", !.key = k, !.mod = 1, !.todo = chosen \ {k}]
    BY <2>0 DEF SavePlayerTick
  <2>2. /\ \A j \in chosen : j \in Keys /\ chars[j] # NULL
        /\ k # NULL
    BY CacheAssumption DEF Online
  <2>3. /\ checker'.pc = "query" /\ checker'.key = k /\ checker'.mod = 1
        /\ checker'.todo = chosen \ {k}
    BY <2>1 DEF Idle
  <2> QED BY <2>2, <2>3, <1>2 DEF CheckerHolds, CheckerOwns
<1>5. CASE SaveModuleQuery
  <2>1. PICK k \in Keys : k = checker.key
    BY <1>1, <1>5 DEF SaveModuleQuery
  <2>2. /\ Held(k) # NULL
        /\ checker.pc = "query"
        /\ checker' = [checker EXCEPT !.pc = "update", !.obj = Held(k),
                                      !.val = Generated(k, checker.mod)]
    BY <1>5, <2>1 DEF SaveModuleQuery, QueryHit, Held
  <2>3. charId[Held(k)] = k
    BY <1>1, <2>2 DEF FiledByKey, DataInv, OwnData
  <2>4. /\ checker'.pc = "update" /\ checker'.obj = Held(k) /\ checker'.key = k
        /\ checker'.mod = checker.mod /\ checker'.todo = checker.todo
    BY <2>1, <2>2, <1>1 DEF CheckerRecord
  <2> QED BY <2>1, <2>2, <2>3, <2>4, <1>1, <1>2 DEF DataInv, CheckerHolds, CheckerOwns
<1>6. CASE SaveModuleMiss \/ SaveModuleDirty
  <2>1. checker.pc \in {"query", "dirty"} /\ NextModule /\ CheckerHolds
    BY <1>1, <1>6 DEF SaveModuleMiss, SaveModuleDirty, DataInv
  <2> QED BY <2>1, <1>1, <1>2, NextModuleIs DEF CheckerHolds, CheckerOwns
<1> QED BY <1>4, <1>5, <1>6

\* updateModuleData copies what was read from a character in memory, so never a
\* module without rows.
LEMMA SaveModuleUpdateData ==
  ASSUME ManagerInv, SaveModuleUpdate
  PROVE  DataInv'
<1> DEFINE d == checker.obj  m == checker.mod  v == checker.val
<1>1. /\ DataInv /\ checker \in CheckerRecord /\ checker.pc = "update"
      /\ content \in [Data -> [Modules -> Versions \cup {NoRows}]]
      /\ fresh \in [Data -> [Modules -> BOOLEAN]]
  BY DEF ManagerInv, TypeOK, SaveModuleUpdate
<1>2. d \in Data /\ m \in Modules /\ v \in Versions
  BY <1>1 DEF DataInv, CheckerHolds, CheckerRecord, Modules
<1>3. /\ content' = [content EXCEPT ![d][m] = v]
      /\ fresh' = [fresh EXCEPT ![d][m] = @ \/ content[d][m] # v]
      /\ checker' = [checker EXCEPT !.pc = "dirty"]
      /\ UNCHANGED <<cacheVars, chars, charId, loads, stage, saves, faults>>
  BY DEF SaveModuleUpdate, loadVars, boundVars
<1>4. checker' = [pc |-> "dirty", key |-> checker.key, mod |-> m, obj |-> d, val |-> v,
                  todo |-> checker.todo, count |-> checker.count]
  BY <1>1, <1>3 DEF CheckerRecord
<1>5. v # NoRows
  BY <1>2, CountsAre DEF Versions, NoRows
<1> HIDE DEF d, m, v
<1>6. /\ content'[d][m] = v
      /\ \A j \in Modules : j # m => content'[d][j] = content[d][j] /\ fresh'[d][j] = fresh[d][j]
      /\ \A c \in Data : c # d => content'[c] = content[c] /\ fresh'[c] = fresh[c]
  BY <1>1, <1>2, <1>3
<1>7. RowsKnown'
  <2> SUFFICES ASSUME NEW c \in Data
      PROVE  /\ content'[c][1] = NoRows => charId[c] \in faults.player
             /\ \A j \in Modules : fresh'[c][j] => content'[c][j] # NoRows
    BY <1>3 DEF RowsKnown
  <2>1. CASE c # d
    BY <2>1, <1>1, <1>6 DEF DataInv, RowsKnown
  <2>2. CASE c = d
    <3>1. 1 \in Modules
      BY CountsAre DEF Modules
    <3>2. content'[c][1] = NoRows => content[c][1] = NoRows
      BY <2>2, <3>1, <1>5, <1>6
    <3>3. ASSUME NEW j \in Modules, fresh'[c][j] PROVE content'[c][j] # NoRows
      <4>1. CASE j = m
        BY <4>1, <2>2, <1>5, <1>6
      <4>2. CASE j # m
        BY <4>2, <2>2, <3>3, <1>1, <1>6 DEF DataInv, RowsKnown
      <4> QED BY <4>1, <4>2
    <3> QED BY <3>2, <3>3, <1>1 DEF DataInv, RowsKnown
  <2> QED BY <2>1, <2>2
<1>8. CheckerHolds' /\ CheckerOwns'
  BY <1>1, <1>3, <1>4 DEF DataInv, OwnData, CheckerHolds, CheckerOwns, d, m
<1>9. NodesOwn' /\ LoadsOwn' /\ SavesHold'
  BY <1>1, <1>3 DEF DataInv, OwnData, NodesOwn, LoadsOwn, SavesHold, cacheVars
<1> QED BY <1>7, <1>8, <1>9 DEF DataInv, OwnData, NodesOwn, LoadsOwn, CheckerOwns

\* saveAll goes on to the next module of its object, or to the next object.
LEMMA ModuleDoneIs ==
  ASSUME saves \in [DbActors -> Seq([obj : Data, next : Modules])],
         NEW a \in DbActors, saves[a] # <<>>, ModuleDone(a)
  PROVE  /\ saves' \in [DbActors -> Seq([obj : Data, next : Modules])]
         /\ \A b \in DbActors : \A i \in DOMAIN saves'[b] :
              \E j \in DOMAIN saves[b] : saves'[b][i].obj = saves[b][j].obj
         /\ \A j \in DOMAIN saves[a], m \in Modules :
              saves[a][j].next <= m /\ ~(j = 1 /\ m = saves[a][j].next) =>
                \E i \in DOMAIN saves'[a] : /\ saves'[a][i].obj = saves[a][j].obj
                                           /\ saves'[a][i].next <= m
         /\ Head(saves[a]) = saves[a][1]
         /\ Head(saves[a]).obj \in Data /\ Head(saves[a]).next \in Modules
<1> DEFINE T == [obj : Data, next : Modules]
           s == saves[a]
           r == [s EXCEPT ![1].next = @ + 1]
<1>0. s \in Seq(T) /\ s # <<>>
  OBVIOUS
<1>1. saves' = [saves EXCEPT ![a] = IF Head(s).next = num_modules THEN Tail(s) ELSE r]
  BY DEF ModuleDone
<1> HIDE DEF s
<1>2. /\ Head(s) \in T /\ Tail(s) \in Seq(T) /\ Head(s) = s[1]
      /\ Len(s) \in Nat \ {0} /\ DOMAIN s = 1..Len(s) /\ s[1] \in T
  <2>1. Head(s) \in T /\ Tail(s) \in Seq(T)
    BY <1>0, HeadTailProperties
  <2>2. Len(s) \in Nat \ {0} /\ DOMAIN s = 1..Len(s)
    BY <1>0, LenProperties, EmptySeq
  <2>3. Head(s) = s[1]
    BY <1>0
  <2> QED BY <2>1, <2>2, <2>3
<1>3. /\ \A i \in DOMAIN Tail(s) : i + 1 \in DOMAIN s /\ Tail(s)[i] = s[i + 1]
      /\ \A i \in DOMAIN s : i # 1 => i - 1 \in DOMAIN Tail(s) /\ Tail(s)[i - 1] = s[i]
  <2>1. /\ Len(Tail(s)) = Len(s) - 1
        /\ \A i \in 1..Len(Tail(s)) : Tail(s)[i] = s[i + 1]
    BY <1>0, HeadTailProperties
  <2>2. DOMAIN Tail(s) = 1..(Len(s) - 1)
    BY <2>1, <1>2, LenProperties
  <2> QED BY <2>1, <2>2, <1>2
<1>4. ASSUME Head(s).next # num_modules
      PROVE  /\ r \in Seq(T) /\ DOMAIN r = DOMAIN s
             /\ \A i \in DOMAIN s : /\ r[i].obj = s[i].obj
                                    /\ r[i].next = IF i = 1 THEN s[i].next + 1 ELSE s[i].next
  <2> DEFINE e == [obj |-> s[1].obj, next |-> s[1].next + 1]
  <2>2. s[1].next + 1 \in Modules
    BY <1>2, <1>4, CountsAre DEF Modules
  <2>3. [s[1] EXCEPT !.next = @ + 1] = e /\ e \in T /\ e.obj = s[1].obj /\ e.next = s[1].next + 1
    BY <1>2, <2>2
  <2>4. r = [s EXCEPT ![1] = e]
    BY <2>3
  <2> HIDE DEF e, r, T
  <2>5. 1 \in 1..Len(s)
    BY <1>2
  <2>6. /\ r \in Seq(T) /\ Len(r) = Len(s)
        /\ \A i \in 1..Len(s) : r[i] = IF i = 1 THEN e ELSE s[i]
    BY <2>3, <2>4, <2>5, <1>0, ExceptSeq
  <2>7. DOMAIN r = 1..Len(s)
    BY <2>6, LenProperties
  <2> QED BY <2>3, <2>6, <2>7, <1>2
<1> HIDE DEF r
<1>5. saves' \in [DbActors -> Seq(T)]
  BY <1>0, <1>1, <1>2, <1>4
<1>6. ASSUME NEW b \in DbActors, NEW i \in DOMAIN saves'[b]
      PROVE  \E j \in DOMAIN saves[b] : saves'[b][i].obj = saves[b][j].obj
  <2>1. CASE b # a
    BY <2>1, <1>1, <1>6
  <2>2. CASE b = a /\ Head(s).next = num_modules
    <3>1. saves'[b] = Tail(s)
      BY <2>2, <1>1
    <3>2. i + 1 \in DOMAIN s /\ Tail(s)[i] = s[i + 1]
      BY <3>1, <1>3, <1>6
    <3> QED BY <3>1, <3>2, <2>2 DEF s
  <2>3. CASE b = a /\ Head(s).next # num_modules
    <3>1. saves'[b] = r
      BY <2>3, <1>1
    <3>2. i \in DOMAIN s /\ r[i].obj = s[i].obj
      BY <3>1, <2>3, <1>4, <1>6
    <3> QED BY <3>1, <3>2, <2>3 DEF s
  <2> QED BY <2>1, <2>2, <2>3
<1>7. ASSUME NEW j \in DOMAIN s, NEW m \in Modules,
             s[j].next <= m, ~(j = 1 /\ m = s[j].next)
      PROVE  \E i \in DOMAIN saves'[a] : saves'[a][i].obj = s[j].obj /\ saves'[a][i].next <= m
  <2>0. s[j].next \in Modules /\ num_modules \in Nat
    <3>1. j \in 1..Len(s)
      BY <1>2, <1>7
    <3>2. s[j] \in T
      <4> HIDE DEF T
      <4> QED BY <1>0, <3>1, ElementOfSeq
    <3>3. s[j].next \in Modules
      BY <3>2
    <3> QED BY <3>3, CountsAre
  <2>1. CASE Head(s).next = num_modules
    <3>1. saves'[a] = Tail(s)
      BY <2>1, <1>1
    <3>2. j # 1
      BY <2>0, <2>1, <1>2, <1>7 DEF Modules
    <3>3. j - 1 \in DOMAIN Tail(s) /\ Tail(s)[j - 1] = s[j]
      BY <3>2, <1>3, <1>7
    <3>4. s[j].next <= m
      BY <1>7
    <3> QED BY <3>1, <3>3, <3>4
  <2>2. CASE Head(s).next # num_modules
    <3>1. saves'[a] = r
      BY <2>2, <1>1
    <3>2. r[j].obj = s[j].obj /\ r[j].next <= m /\ j \in DOMAIN r
      BY <2>0, <2>2, <1>4, <1>7 DEF Modules
    <3> QED BY <3>1, <3>2
  <2> QED BY <2>1, <2>2
<1> QED BY <1>2, <1>5, <1>6, <1>7 DEF s

\* A db actor clears marks, and its objects are still objects of characters.
LEMMA SaveModuleData ==
  ASSUME ManagerInv, NEW a \in DbActors, SaveModule(a) \/ SaveModuleFails(a)
  PROVE  DataInv'
<1>1. /\ DataInv
      /\ saves \in [DbActors -> Seq([obj : Data, next : Modules])]
      /\ fresh \in [Data -> [Modules -> BOOLEAN]]
      /\ faults \in [save : 0..MaxSaveFails, read : 0..MaxReadFails, crash : 0..MaxCrashes,
                     player : SUBSET Keys]
  BY DEF ManagerInv, TypeOK
<1>2. /\ saves[a] # <<>>
      /\ ModuleDone(a)
      /\ UNCHANGED <<cacheVars, chars, content, charId, loads, stage, checker>>
      /\ faults'.player = faults.player
  <2>1. faults' = faults \/ faults' = [faults EXCEPT !.save = @ + 1]
    BY DEF SaveModule, SaveModuleFails
  <2>2. faults'.player = faults.player
    BY <2>1, <1>1
  <2> QED BY <2>2 DEF SaveModule, SaveModuleFails, ModuleDone, loadVars
<1>3. SavesHold'
  <2> SUFFICES ASSUME NEW b \in DbActors, NEW i \in DOMAIN saves'[b]
               PROVE  charId[saves'[b][i].obj] # NULL
    BY <1>2 DEF SavesHold
  <2>1. PICK j \in DOMAIN saves[b] : saves'[b][i].obj = saves[b][j].obj
    BY <1>1, <1>2, ModuleDoneIs
  <2> QED BY <2>1, <1>1 DEF DataInv, SavesHold
<1>4. \A c \in Data, m \in Modules : fresh'[c][m] => fresh[c][m]
  <2>1. CASE UNCHANGED fresh
    BY <2>1
  <2>2. CASE SaveModule(a)
    <3>1. PICK d \in Data, j \in Modules : d = Head(saves[a]).obj /\ j = Head(saves[a]).next
      BY <1>1, <1>2, ModuleDoneIs
    <3>2. fresh' = [fresh EXCEPT ![d][j] = FALSE]
      BY <2>2, <3>1 DEF SaveModule
    <3> QED BY <3>2, <1>1
  <2> QED BY <2>1, <2>2 DEF SaveModuleFails
<1>5. RowsKnown'
  BY <1>1, <1>2, <1>4 DEF DataInv, RowsKnown
<1>6. NodesOwn' /\ LoadsOwn' /\ CheckerOwns' /\ CheckerHolds'
  BY <1>1, <1>2 DEF DataInv, OwnData, NodesOwn, LoadsOwn, CheckerOwns, CheckerHolds, cacheVars
<1> QED BY <1>3, <1>5, <1>6 DEF DataInv, OwnData, NodesOwn, LoadsOwn, CheckerOwns

\* A restarted process holds no objects.
LEMMA CrashData ==
  ASSUME Crash
  PROVE  DataInv'
<1>1. /\ node' = [n \in Nodes |-> FreshNode]
      /\ content' = [d \in Data |-> [m \in Modules |-> 0]]
      /\ fresh' = [d \in Data |-> [m \in Modules |-> FALSE]]
      /\ charId' = [d \in Data |-> NULL]
      /\ stage' = [a \in LoadActors |-> NoStage]
      /\ saves' = [a \in DbActors |-> <<>>]
      /\ checker' = Idle
  BY DEF Crash
<1>2. NodesOwn' /\ LoadsOwn' /\ CheckerOwns' /\ CheckerHolds' /\ SavesHold'
  BY <1>1 DEF NodesOwn, LoadsOwn, CheckerOwns, CheckerHolds, SavesHold, FreshNode, NoStage, Idle
<1>3. 1 \in Modules
  BY CountsAre DEF Modules
<1>4. RowsKnown'
  BY <1>1, <1>3 DEF RowsKnown, NoRows
<1> QED BY <1>2, <1>4 DEF DataInv, OwnData, NodesOwn, LoadsOwn, CheckerOwns

----------------------------------------------------------------------------
(* Every step keeps the types.                                             *)

\* A login takes one of the logins the bound allows.
LEMMA LoadCharTypes ==
  ASSUME ManagerInv, CacheTypeOK', NEW k \in Keys,
         LoadCharFirst(k) \/ LoadCharRefused(k) \/ LoadCharJoin(k)
  PROVE  TypeOK'
<1>1. /\ TypeOK /\ ChainsCounted
      /\ queryCache \in [Keys -> 0..MaxLogins] /\ logins \in [Keys -> 0..MaxLogins]
      /\ loads \in [LoadActors -> Seq(Keys)]
      /\ LoadActor(k) \in LoadActors /\ MaxLogins \in Nat
  BY ActorsAre, CountsAre DEF ManagerInv, TypeOK, LoadInv
<1>2. /\ logins[k] < MaxLogins
      /\ logins' = [logins EXCEPT ![k] = @ + 1]
      /\ UNCHANGED <<db, chars, content, fresh, charId, stage, saves, checker, oldChar, faults>>
      /\ UNCHANGED loads \/ loads' = [loads EXCEPT ![LoadActor(k)] = Append(@, k)]
      /\ \/ UNCHANGED queryCache
         \/ queryCache' = [queryCache EXCEPT ![k] = 1]
         \/ queryCache' = [queryCache EXCEPT ![k] = @ + 1]
  BY DEF LoadCharFirst, LoadCharRefused, LoadCharJoin, MayLogin, gameVars, saveVars
<1>3. /\ 1 \in 0..MaxLogins /\ logins[k] + 1 \in 0..MaxLogins
      /\ queryCache[k] + 1 \in 0..MaxLogins
  BY <1>1, <1>2 DEF ChainsCounted
<1>4. logins' \in [Keys -> 0..MaxLogins] /\ queryCache' \in [Keys -> 0..MaxLogins]
  BY <1>1, <1>2, <1>3
<1>5. loads' \in [LoadActors -> Seq(Keys)]
  <2>1. Append(loads[LoadActor(k)], k) \in Seq(Keys)
    BY <1>1, AppendProperties
  <2> QED BY <2>1, <1>1, <1>2
<1> QED BY <1>1, <1>2, <1>4, <1>5 DEF TypeOK

\* A game message makes the next version of a module.
LEMMA PlayTypes ==
  ASSUME ManagerInv, CacheTypeOK', NEW k \in Keys, NEW m \in Modules, Play(k, m)
  PROVE  TypeOK'
<1>1. TypeOK /\ chars \in [Keys -> {NULL} \cup [Modules -> Versions]] /\ MaxVersion \in Nat
  BY CountsAre DEF ManagerInv, TypeOK
<1>2. /\ chars[k] # NULL /\ chars[k][m] < MaxVersion
      /\ chars' = [chars EXCEPT ![k] = [chars[k] EXCEPT ![m] = chars[k][m] + 1]]
      /\ UNCHANGED <<db, content, fresh, charId, loadVars, saveVars, boundVars>>
  BY DEF Play
<1>3. chars[k] \in [Modules -> Versions]
  BY <1>1, <1>2
<1>4. chars[k][m] + 1 \in Versions
  BY <1>1, <1>2, <1>3 DEF Versions
<1>5. [chars[k] EXCEPT ![m] = chars[k][m] + 1] \in [Modules -> Versions]
  BY <1>3, <1>4
<1>6. chars' \in [Keys -> {NULL} \cup [Modules -> Versions]]
  BY <1>1, <1>2, <1>5
<1> QED BY <1>1, <1>2, <1>6 DEF TypeOK, loadVars, saveVars, boundVars

\* At most one SELECT of a load fails, and what the others read is a version.
LEMMA LoadAllTypes ==
  ASSUME ManagerInv, CacheTypeOK', NEW a \in LoadActors, LoadAll(a)
  PROVE  TypeOK'
<1> DEFINE h == Head(loads[a])
<1>1. /\ TypeOK
      /\ loads \in [LoadActors -> Seq(Keys)]
      /\ stage \in [LoadActors -> [pc : {"run", "set", "reply"}, obj : Data \cup {NULL}]]
      /\ charId \in [Data -> Keys \cup {NULL}]
      /\ content \in [Data -> [Modules -> Versions \cup {NoRows}]]
      /\ fresh \in [Data -> [Modules -> BOOLEAN]]
      /\ db \in [Keys -> [Modules -> Versions]]
      /\ faults \in [save : 0..MaxSaveFails, read : 0..MaxReadFails, crash : 0..MaxCrashes,
                     player : SUBSET Keys]
  BY DEF ManagerInv, TypeOK
<1>2. PICK d : d = NewObject /\ d \in Data
  BY DEF LoadAll, HeapHasRoom, NewObject
<1>3. /\ fresh' = [fresh EXCEPT ![d] = [m \in Modules |-> FALSE]]
      /\ charId' = [charId EXCEPT ![d] = h]
      /\ stage' = [stage EXCEPT ![a] = [pc |-> "set", obj |-> d]]
      /\ UNCHANGED <<db, chars, queryCache, loads, saves, checker, oldChar, logins>>
      /\ loads[a] # <<>>
  BY <1>2 DEF LoadAll, saveVars
<1>4. PICK failed \in {{}} \cup {{m} : m \in Modules} :
        /\ failed # {} => faults.read < MaxReadFails
        /\ faults' = [faults EXCEPT !.read = @ + Cardinality(failed),
                                    !.player = IF 1 \in failed THEN @ \cup {h} ELSE @]
        /\ content' = [content EXCEPT ![d] =
                        [m \in Modules |-> IF m \in failed THEN NoRows ELSE db[h][m]]]
  BY <1>2 DEF LoadAll
<1>5. h \in Keys
  BY <1>1, <1>3, HeadTailProperties
<1> HIDE DEF h
<1>6. faults.read + Cardinality(failed) \in 0..MaxReadFails
  <2>1. faults.read \in 0..MaxReadFails /\ MaxReadFails \in Nat
    BY <1>1, CountsAre
  <2>2. CASE failed = {}
    BY <2>1, <2>2, FS_EmptySet
  <2>3. CASE failed # {}
    <3>1. PICK m \in Modules : failed = {m}
      BY <2>3, <1>4
    <3>2. Cardinality(failed) = 1
      BY <3>1, FS_Singleton
    <3> QED BY <3>2, <2>1, <2>3, <1>4
  <2> QED BY <2>2, <2>3
<1>7. faults' \in [save : 0..MaxSaveFails, read : 0..MaxReadFails, crash : 0..MaxCrashes,
                   player : SUBSET Keys]
  <2>1. PICK c \in 0..MaxReadFails : c = faults.read + Cardinality(failed)
    BY <1>6
  <2>2. faults' = [faults EXCEPT !.read = c, !.player = IF 1 \in failed THEN @ \cup {h} ELSE @]
    BY <1>4, <2>1
  <2> QED BY <2>2, <1>1, <1>5
<1>8. content' \in [Data -> [Modules -> Versions \cup {NoRows}]]
  <2>1. [m \in Modules |-> IF m \in failed THEN NoRows ELSE db[h][m]]
          \in [Modules -> Versions \cup {NoRows}]
    BY <1>1, <1>5
  <2> QED BY <2>1, <1>1, <1>4
<1>9. /\ fresh' \in [Data -> [Modules -> BOOLEAN]]
      /\ charId' \in [Data -> Keys \cup {NULL}]
      /\ stage' \in [LoadActors -> [pc : {"run", "set", "reply"}, obj : Data \cup {NULL}]]
  BY <1>1, <1>2, <1>3, <1>5
<1> QED BY <1>1, <1>3, <1>7, <1>8, <1>9 DEF TypeOK

\* A load passes on an object or none, and a callback makes a character of it.
LEMMA LoadStepTypes ==
  ASSUME ManagerInv, FiledByKey, CacheTypeOK', NEW a \in LoadActors,
         LoadAllThrows(a) \/ SetData(a) \/ ReplyNull(a) \/ ReplyThrows(a) \/ Reply(a)
  PROVE  TypeOK'
<1> DEFINE h == Head(loads[a])  d == stage[a].obj
           Stages == [pc : {"run", "set", "reply"}, obj : Data \cup {NULL}]
           Faults == [save : 0..MaxSaveFails, read : 0..MaxReadFails, crash : 0..MaxCrashes,
                      player : SUBSET Keys]
           Game == {NULL} \cup [Modules -> Versions]
<1>1. /\ TypeOK /\ LoadInv
      /\ loads \in [LoadActors -> Seq(Keys)]
      /\ stage \in [LoadActors -> Stages]
      /\ queryCache \in [Keys -> 0..MaxLogins]
      /\ chars \in [Keys -> Game] /\ oldChar \in [Keys -> Game]
      /\ faults \in Faults
  BY DEF ManagerInv, TypeOK
<1>2. /\ UNCHANGED <<db, content, fresh, charId, saves, checker, logins>>
  BY DEF LoadAllThrows, SetData, ReplyNull, ReplyThrows, Reply, TaskDone, gameVars, saveVars,
         boundVars
<1>3. loads[a] # <<>>
  BY <1>1 DEF LoadAllThrows, SetData, ReplyNull, ReplyThrows, Reply, LoadInv, LoadsOnce
<1>4. /\ h \in Keys /\ Tail(loads[a]) \in Seq(Keys) /\ d \in Data \cup {NULL}
  BY <1>1, <1>3, HeadTailProperties
<1>5. CASE LoadAllThrows(a)
  <2>1. /\ faults.read < MaxReadFails
        /\ faults' = [faults EXCEPT !.read = @ + 1]
        /\ stage' = [stage EXCEPT ![a] = [pc |-> "set", obj |-> NULL]]
        /\ UNCHANGED <<chars, oldChar, queryCache, loads>>
    BY <1>5 DEF LoadAllThrows, gameVars, saveVars
  <2>2. faults.read + 1 \in 0..MaxReadFails
    BY <2>1, <1>1, CountsAre
  <2>3. faults' \in Faults /\ stage' \in [LoadActors -> Stages]
    BY <2>1, <2>2, <1>1
  <2> QED BY <2>1, <2>3, <1>1, <1>2 DEF TypeOK
<1>6. CASE SetData(a)
  <2>1. UNCHANGED <<chars, oldChar, queryCache, loads, faults>>
    BY <1>6 DEF SetData, gameVars, saveVars, boundVars
  <2>2. Held(h) \in Data \cup {NULL}
    <3>1. hashFind(h) # NULL => hashFind(h) \in Nodes
      BY <1>4 DEF FiledByKey
    <3> QED BY <3>1 DEF Held, ManagerInv, TypeOK, CacheTypeOK, NodeRecord
  <2>3. \/ stage' = [stage EXCEPT ![a].pc = "reply"]
        \/ stage' = [stage EXCEPT ![a] = [pc |-> "reply", obj |-> Held(h)]]
    BY <1>6 DEF SetData
  <2>4. stage' \in [LoadActors -> Stages]
    <3>1. [stage[a] EXCEPT !.pc = "reply"] \in Stages
      <4>1. stage[a] \in Stages
        BY <1>1
      <4>2. [stage[a] EXCEPT !.pc = "reply"] = [pc |-> "reply", obj |-> stage[a].obj]
        BY <4>1
      <4>3. stage[a].obj \in Data \cup {NULL}
        BY <4>1
      <4> QED BY <4>2, <4>3
    <3>2. [pc |-> "reply", obj |-> Held(h)] \in Stages
      BY <2>2
    <3>3. \E e \in Stages : stage' = [stage EXCEPT ![a] = e]
      <4>1. CASE stage' = [stage EXCEPT ![a].pc = "reply"]
        BY <3>1, <4>1
      <4>2. CASE stage' = [stage EXCEPT ![a] = [pc |-> "reply", obj |-> Held(h)]]
        BY <3>2, <4>2
      <4> QED BY <4>1, <4>2, <2>3
    <3> HIDE DEF Stages
    <3> QED BY <3>3, <1>1
  <2> QED BY <2>1, <2>4, <1>1, <1>2 DEF TypeOK
<1>7. ASSUME ReplyNull(a) \/ ReplyThrows(a) \/ Reply(a)
      PROVE  /\ stage' \in [LoadActors -> Stages]
             /\ loads' \in [LoadActors -> Seq(Keys)]
             /\ queryCache' \in [Keys -> 0..MaxLogins]
             /\ UNCHANGED faults
  <2>1. /\ loads' = [loads EXCEPT ![a] = Tail(loads[a])]
        /\ stage' = [stage EXCEPT ![a] = NoStage]
        /\ UNCHANGED faults
        /\ UNCHANGED queryCache \/ queryCache' = [queryCache EXCEPT ![h] = 0]
    BY <1>7 DEF ReplyNull, ReplyThrows, Reply, TaskDone, boundVars
  <2>2. stage' \in [LoadActors -> Stages]
    BY <2>1, <1>1 DEF NoStage
  <2>3. loads' \in [LoadActors -> Seq(Keys)]
    BY <2>1, <1>1, <1>4
  <2>4. queryCache' \in [Keys -> 0..MaxLogins]
    <3>1. 0 \in 0..MaxLogins
      BY CountsAre
    <3> QED BY <3>1, <2>1, <1>1
  <2> QED BY <2>1, <2>2, <2>3, <2>4
<1>8. CASE ReplyNull(a) \/ ReplyThrows(a)
  <2>1. UNCHANGED <<chars, oldChar>>
    BY <1>8 DEF ReplyNull, ReplyThrows
  <2> QED BY <2>1, <1>1, <1>2, <1>7, <1>8 DEF TypeOK
<1>9. CASE Reply(a)
  <2> DEFINE new == [m \in Modules |-> IF content[d][m] = NoRows THEN 0 ELSE content[d][m]]
             old == IF HeldBySaver(h) /\ oldChar[h] = NULL THEN chars[h] ELSE oldChar[h]
  <2>1. /\ chars' = [chars EXCEPT ![h] = new]
        /\ oldChar' = [oldChar EXCEPT ![h] = old]
        /\ d \in Data
    BY <1>4, <1>9 DEF Reply
  <2>2. new \in [Modules -> Versions]
    <3> SUFFICES ASSUME NEW m \in Modules
                 PROVE  (IF content[d][m] = NoRows THEN 0 ELSE content[d][m]) \in Versions
      OBVIOUS
    <3>1. content[d][m] \in Versions \cup {NoRows}
      BY <2>1, <1>1 DEF TypeOK
    <3>2. 0 \in Versions
      BY CountsAre DEF Versions
    <3> QED BY <3>1, <3>2
  <2>3. old \in Game
    BY <1>1, <1>4
  <2> HIDE DEF new, old
  <2>4. chars' \in [Keys -> Game] /\ oldChar' \in [Keys -> Game]
    BY <2>1, <2>2, <2>3, <1>1
  <2> QED BY <2>4, <1>1, <1>2, <1>7, <1>9 DEF TypeOK
<1> QED BY <1>5, <1>6, <1>8, <1>9

\* The checker counts to SAVE_CHAR_PER_SEC, and holds versions.
LEMMA CheckerTypes ==
  ASSUME ManagerInv, FiledByKey, CacheTypeOK',
         \/ CheckTake \/ CheckPut \/ CheckEnd
         \/ \E chosen \in SUBSET Online : SavePlayerTick(chosen)
         \/ SaveModuleQuery \/ SaveModuleMiss \/ SaveModuleDirty
  PROVE  TypeOK'
<1> DEFINE Game == {NULL} \cup [Modules -> Versions]
           T == [obj : Data, next : Modules]
<1>1. /\ TypeOK /\ DataInv /\ checker \in CheckerRecord
      /\ chars \in [Keys -> Game] /\ oldChar \in [Keys -> Game]
      /\ saves \in [DbActors -> Seq(T)]
  BY DEF ManagerInv, TypeOK
<1>2. UNCHANGED <<db, chars, content, fresh, charId, queryCache, loads, stage, logins, faults>>
  BY DEF CheckTake, CheckPut, CheckEnd, SavePlayerTick, SaveModuleQuery, SaveModuleMiss,
         SaveModuleDirty, gameVars, loadVars, boundVars
<1>3. /\ 0 \in Versions /\ {0, 1} \subseteq 0..num_modules /\ 1 \in Modules
      /\ 0 \in 0..SAVE_CHAR_PER_SEC
  BY CountsAre DEF Versions, Modules
<1> SUFFICES /\ checker' \in CheckerRecord
             /\ oldChar' \in [Keys -> Game]
             /\ saves' \in [DbActors -> Seq(T)]
  BY <1>1, <1>2 DEF TypeOK
<1>4. CASE CheckTake
  <2>1. /\ dirty_list # <<>> /\ checker.count < SAVE_CHAR_PER_SEC
        /\ checker' = [Idle EXCEPT !.pc = "put", !.count = checker.count + 1,
                                   !.obj = node[Head(dirty_list)].data]
        /\ UNCHANGED <<saves, oldChar>>
    BY <1>4 DEF CheckTake, GetNextDirtyNodeAndClean
  <2>2. PICK d \in Data : d = node[Head(dirty_list)].data
    BY <2>1, DirtyHolds
  <2>3. PICK c \in 0..SAVE_CHAR_PER_SEC : c = checker.count + 1
    BY <2>1, <1>1, CountsAre DEF CheckerRecord
  <2>4. checker' = [pc |-> "put", key |-> NULL, mod |-> 0, obj |-> d, val |-> 0,
                    todo |-> {}, count |-> c]
    BY <2>1, <2>2, <2>3 DEF Idle
  <2>5. checker' \in CheckerRecord
    BY <2>4, <1>3 DEF CheckerRecord
  <2> QED BY <2>1, <2>5, <1>1
<1>5. CASE CheckEnd
  BY <1>1, <1>3, <1>5 DEF CheckEnd, CheckerRecord, Idle
<1>6. CASE CheckPut
  <2>1. PICK d \in Data : d = checker.obj /\ charId[d] # NULL
    BY <1>1, <1>6 DEF CheckPut, DataInv, CheckerHolds, CheckerRecord
  <2>2. charId[d] \in Keys
    BY <2>1, <1>1 DEF TypeOK
  <2>3. PICK b \in DbActors : b = DbActor(charId[d])
    BY <2>2, ActorsAre
  <2>4. /\ saves' = [saves EXCEPT ![b] = Append(saves[b], [obj |-> d, next |-> 1])]
        /\ checker' = [Idle EXCEPT !.pc = "check", !.count = checker.count]
        /\ UNCHANGED oldChar
    BY <1>6, <2>1, <2>3 DEF CheckPut
  <2>5. Append(saves[b], [obj |-> d, next |-> 1]) \in Seq(T)
    <3>1. [obj |-> d, next |-> 1] \in T
      BY <1>3
    <3> HIDE DEF T
    <3> QED BY <3>1, <1>1, AppendProperties
  <2>6. saves' \in [DbActors -> Seq(T)]
    BY <2>4, <2>5, <1>1
  <2>7. checker' \in CheckerRecord
    BY <2>4, <1>1, <1>3 DEF CheckerRecord, Idle
  <2> QED BY <2>4, <2>6, <2>7, <1>1
<1>7. CASE \E chosen \in SUBSET Online : SavePlayerTick(chosen)
  <2>1. PICK chosen \in SUBSET Online : SavePlayerTick(chosen)
    BY <1>7
  <2>2. PICK k \in chosen :
          checker' = [Idle EXCEPT !.pc = "query", !.key = k, !.mod = 1, !.todo = chosen \ {k}]
    BY <2>1 DEF SavePlayerTick
  <2>3. k \in Keys /\ chosen \ {k} \subseteq Keys
    BY DEF Online
  <2>4. checker' = [pc |-> "query", key |-> k, mod |-> 1, obj |-> NULL, val |-> 0,
                    todo |-> chosen \ {k}, count |-> 0]
    BY <2>2 DEF Idle
  <2> QED BY <2>1, <2>3, <2>4, <1>1, <1>3 DEF CheckerRecord, SavePlayerTick
<1>8. CASE SaveModuleQuery
  <2>1. PICK k \in Keys : k = checker.key /\ chars[k] # NULL /\ checker.mod \in Modules
    BY <1>1, <1>8 DEF SaveModuleQuery, DataInv, CheckerHolds, CheckerRecord, Modules
  <2>2. Generated(k, checker.mod) \in Versions
    BY <2>1, <1>1 DEF Generated
  <2>3. Held(k) \in Data \cup {NULL}
    <3>1. hashFind(k) # NULL => hashFind(k) \in Nodes
      BY <2>1 DEF FiledByKey
    <3> QED BY <3>1, <1>1 DEF Held, TypeOK, CacheTypeOK, NodeRecord
  <2>4. /\ checker' = [checker EXCEPT !.pc = "update", !.obj = Held(k),
                                      !.val = Generated(k, checker.mod)]
        /\ UNCHANGED <<saves, oldChar>>
    BY <1>8, <2>1 DEF SaveModuleQuery
  <2> QED BY <2>2, <2>3, <2>4, <1>1 DEF CheckerRecord
<1>9. CASE SaveModuleMiss \/ SaveModuleDirty
  <2>1. checker.pc \in {"query", "dirty"} /\ NextModule /\ CheckerHolds /\ UNCHANGED saves
    BY <1>1, <1>9 DEF SaveModuleMiss, SaveModuleDirty, DataInv
  <2>2. /\ checker' \in CheckerRecord
        /\ UNCHANGED oldChar \/ oldChar' = [oldChar EXCEPT ![checker.key] = NULL]
    BY <2>1, <1>1, NextModuleIs
  <2>3. oldChar' \in [Keys -> Game]
    BY <2>2, <1>1
  <2> QED BY <2>1, <2>2, <2>3, <1>1
<1> QED BY <1>4, <1>5, <1>6, <1>7, <1>8, <1>9

\* What the checker copies, and what a db actor writes, are versions.
LEMMA SaveTypes ==
  ASSUME ManagerInv, CacheTypeOK',
         \/ SaveModuleUpdate
         \/ \E a \in DbActors : SaveModule(a) \/ SaveModuleFails(a)
  PROVE  TypeOK'
<1> DEFINE Faults == [save : 0..MaxSaveFails, read : 0..MaxReadFails, crash : 0..MaxCrashes,
                      player : SUBSET Keys]
<1>1. /\ TypeOK /\ DataInv /\ checker \in CheckerRecord
      /\ content \in [Data -> [Modules -> Versions \cup {NoRows}]]
      /\ fresh \in [Data -> [Modules -> BOOLEAN]]
      /\ db \in [Keys -> [Modules -> Versions]]
      /\ saves \in [DbActors -> Seq([obj : Data, next : Modules])]
      /\ charId \in [Data -> Keys \cup {NULL}]
      /\ faults \in Faults
  BY DEF ManagerInv, TypeOK
<1>2. CASE SaveModuleUpdate
  <2>1. PICK d \in Data, m \in Modules, v \in Versions :
          d = checker.obj /\ m = checker.mod /\ v = checker.val
    BY <1>1, <1>2 DEF SaveModuleUpdate, DataInv, CheckerHolds, CheckerRecord, Modules
  <2>2. /\ content' = [content EXCEPT ![d][m] = v]
        /\ fresh' = [fresh EXCEPT ![d][m] = @ \/ content[d][m] # v]
        /\ checker' = [checker EXCEPT !.pc = "dirty"]
        /\ UNCHANGED <<db, chars, charId, loadVars, saves, oldChar, boundVars>>
    BY <1>2, <2>1 DEF SaveModuleUpdate
  <2>3. content' \in [Data -> [Modules -> Versions \cup {NoRows}]]
    BY <2>2, <1>1
  <2>4. fresh' \in [Data -> [Modules -> BOOLEAN]]
    <3>1. PICK f \in BOOLEAN : f = (fresh[d][m] \/ content[d][m] # v)
      OBVIOUS
    <3>2. fresh' = [fresh EXCEPT ![d][m] = f]
      BY <2>2, <3>1
    <3> QED BY <3>2, <1>1
  <2>5. checker' \in CheckerRecord
    BY <2>2, <1>1 DEF CheckerRecord
  <2> QED BY <2>2, <2>3, <2>4, <2>5, <1>1 DEF TypeOK, loadVars, boundVars
<1>3. ASSUME NEW a \in DbActors, SaveModule(a) \/ SaveModuleFails(a) PROVE TypeOK'
  <2>1. /\ saves[a] # <<>> /\ ModuleDone(a)
        /\ UNCHANGED <<chars, content, charId, queryCache, loads, stage, checker, oldChar, logins>>
    BY <1>3 DEF SaveModule, SaveModuleFails, ModuleDone, loadVars
  <2>2. saves' \in [DbActors -> Seq([obj : Data, next : Modules])]
    BY <2>1, <1>1, ModuleDoneIs
  <2>3. PICK d \in Data, m \in Modules : d = Head(saves[a]).obj /\ m = Head(saves[a]).next
    BY <2>1, <1>1, ModuleDoneIs
  <2>4. CASE SaveModule(a)
    <3>1. /\ fresh' = [fresh EXCEPT ![d][m] = FALSE]
          /\ db' = [db EXCEPT ![charId[d]][m] = IF fresh[d][m] THEN content[d][m] ELSE @]
          /\ UNCHANGED faults
      BY <2>3, <2>4 DEF SaveModule
    <3>2. PICK k \in Keys : k = charId[d]
      <4>1. 1 \in DOMAIN saves[a] /\ Head(saves[a]) = saves[a][1]
        <5>1. saves[a] \in Seq([obj : Data, next : Modules])
          BY <1>1
        <5>2. Len(saves[a]) \in Nat \ {0} /\ DOMAIN saves[a] = 1..Len(saves[a])
          BY <5>1, <2>1, LenProperties, EmptySeq
        <5> QED BY <5>1, <5>2, <2>1
      <4>2. charId[d] # NULL
        BY <4>1, <2>3, <1>1 DEF DataInv, SavesHold
      <4> QED BY <4>2, <1>1
    <3>3. fresh[d][m] => content[d][m] \in Versions
      BY <1>1 DEF DataInv, RowsKnown
    <3>4. PICK v \in Versions : v = IF fresh[d][m] THEN content[d][m] ELSE db[k][m]
      BY <3>3, <1>1
    <3>5. db' = [db EXCEPT ![k][m] = v]
      BY <3>1, <3>2, <3>4
    <3>6. db' \in [Keys -> [Modules -> Versions]]
      BY <3>5, <1>1
    <3>7. fresh' \in [Data -> [Modules -> BOOLEAN]]
      BY <3>1, <1>1
    <3> QED BY <2>1, <2>2, <3>1, <3>6, <3>7, <1>1 DEF TypeOK
  <2>5. CASE SaveModuleFails(a)
    <3>1. /\ faults.save < MaxSaveFails
          /\ faults' = [faults EXCEPT !.save = @ + 1]
          /\ UNCHANGED <<db, fresh>>
      BY <2>5 DEF SaveModuleFails
    <3>2. faults.save + 1 \in 0..MaxSaveFails
      BY <3>1, <1>1, CountsAre
    <3>3. faults' \in Faults
      BY <3>1, <3>2, <1>1
    <3> QED BY <2>1, <2>2, <3>1, <3>3, <1>1 DEF TypeOK
  <2> QED BY <2>4, <2>5, <1>3
<1> QED BY <1>2, <1>3

\* What a process starts with.
LEMMA VolatileTypes ==
  /\ [k \in Keys |-> NULL] \in [Keys -> {NULL} \cup [Modules -> Versions]]
  /\ [d \in Data |-> [m \in Modules |-> 0]] \in [Data -> [Modules -> Versions \cup {NoRows}]]
  /\ [d \in Data |-> [m \in Modules |-> FALSE]] \in [Data -> [Modules -> BOOLEAN]]
  /\ [d \in Data |-> NULL] \in [Data -> Keys \cup {NULL}]
  /\ [k \in Keys |-> 0] \in [Keys -> 0..MaxLogins]
  /\ [a \in LoadActors |-> <<>>] \in [LoadActors -> Seq(Keys)]
  /\ [a \in LoadActors |-> NoStage]
       \in [LoadActors -> [pc : {"run", "set", "reply"}, obj : Data \cup {NULL}]]
  /\ [a \in DbActors |-> <<>>] \in [DbActors -> Seq([obj : Data, next : Modules])]
  /\ Idle \in CheckerRecord
  /\ \A k \in Keys : Initial(k) \in [Modules -> Versions]
<1>1. /\ 0 \in Versions /\ 0 \in 0..MaxLogins /\ 0 \in 0..num_modules
      /\ 0 \in 0..SAVE_CHAR_PER_SEC
  BY CountsAre DEF Versions
<1>2. <<>> \in Seq(Keys) /\ <<>> \in Seq([obj : Data, next : Modules])
  BY EmptySeq
<1>3. NoStage \in [pc : {"run", "set", "reply"}, obj : Data \cup {NULL}]
  BY DEF NoStage
<1>4. Idle \in CheckerRecord
  BY <1>1 DEF Idle, CheckerRecord
<1>5. [d \in Data |-> [m \in Modules |-> 0]] \in [Data -> [Modules -> Versions \cup {NoRows}]]
  BY <1>1
<1>6. \A k \in Keys : Initial(k) \in [Modules -> Versions]
  BY <1>1 DEF Initial
<1> HIDE DEF NoStage, Idle
<1> QED BY <1>1, <1>2, <1>3, <1>4, <1>5, <1>6

\* The restart of the process keeps the database only.
LEMMA CrashTypes ==
  ASSUME ManagerInv, CacheTypeOK', Crash
  PROVE  TypeOK'
<1> DEFINE Faults == [save : 0..MaxSaveFails, read : 0..MaxReadFails, crash : 0..MaxCrashes,
                      player : SUBSET Keys]
<1>1. faults \in Faults /\ db \in [Keys -> [Modules -> Versions]]
  BY DEF ManagerInv, TypeOK
<1>2. /\ faults.crash < MaxCrashes
      /\ faults' = [faults EXCEPT !.crash = @ + 1, !.player = {}]
      /\ UNCHANGED db
  BY DEF Crash
<1>3. faults.crash + 1 \in 0..MaxCrashes
  BY <1>1, <1>2, CountsAre
<1>4. faults' \in Faults
  BY <1>1, <1>2, <1>3
<1> HIDE DEF Faults
<1>5. /\ chars' \in [Keys -> {NULL} \cup [Modules -> Versions]]
      /\ oldChar' \in [Keys -> {NULL} \cup [Modules -> Versions]]
      /\ content' \in [Data -> [Modules -> Versions \cup {NoRows}]]
      /\ fresh' \in [Data -> [Modules -> BOOLEAN]]
      /\ charId' \in [Data -> Keys \cup {NULL}]
      /\ queryCache' \in [Keys -> 0..MaxLogins]
      /\ logins' \in [Keys -> 0..MaxLogins]
  BY VolatileTypes DEF Crash
<1>6. /\ loads' \in [LoadActors -> Seq(Keys)]
      /\ stage' \in [LoadActors -> [pc : {"run", "set", "reply"}, obj : Data \cup {NULL}]]
      /\ saves' \in [DbActors -> Seq([obj : Data, next : Modules])]
      /\ checker' \in CheckerRecord
  BY VolatileTypes DEF Crash
<1> QED BY <1>1, <1>2, <1>4, <1>5, <1>6 DEF TypeOK, Faults

----------------------------------------------------------------------------
(* The invariant.                                                          *)

\* A started process satisfies it.
LEMMA ManagerStarts ==
  ASSUME Init
  PROVE  ManagerInv
<1>1. /\ CacheInit
      /\ chars = [k \in Keys |-> NULL]
      /\ content = [d \in Data |-> [m \in Modules |-> 0]]
      /\ fresh = [d \in Data |-> [m \in Modules |-> FALSE]]
      /\ charId = [d \in Data |-> NULL]
      /\ queryCache = [k \in Keys |-> 0]
      /\ loads = [a \in LoadActors |-> <<>>]
      /\ stage = [a \in LoadActors |-> NoStage]
      /\ saves = [a \in DbActors |-> <<>>]
      /\ checker = Idle
      /\ oldChar = [k \in Keys |-> NULL]
      /\ logins = [k \in Keys |-> 0]
      /\ db = [k \in Keys |-> Initial(k)]
      /\ faults = [save |-> 0, read |-> 0, crash |-> 0, player |-> {}]
      /\ node = [n \in Nodes |-> FreshNode]
  BY DEF Init, Volatile, CacheInit
<1>2. CacheHolds /\ FiledByKey
  BY <1>1, CacheStartHolds, CacheFilesByKey
<1>3. TypeOK
  <2>1. faults \in [save : 0..MaxSaveFails, read : 0..MaxReadFails, crash : 0..MaxCrashes,
                    player : SUBSET Keys]
    BY <1>1, CountsAre
  <2>2. db \in [Keys -> [Modules -> Versions]]
    BY <1>1, VolatileTypes
  <2>3. /\ CacheTypeOK
        /\ chars \in [Keys -> {NULL} \cup [Modules -> Versions]]
        /\ content \in [Data -> [Modules -> Versions \cup {NoRows}]]
        /\ fresh \in [Data -> [Modules -> BOOLEAN]]
        /\ charId \in [Data -> Keys \cup {NULL}]
        /\ queryCache \in [Keys -> 0..MaxLogins]
        /\ loads \in [LoadActors -> Seq(Keys)]
        /\ stage \in [LoadActors -> [pc : {"run", "set", "reply"}, obj : Data \cup {NULL}]]
        /\ saves \in [DbActors -> Seq([obj : Data, next : Modules])]
        /\ checker \in CheckerRecord
        /\ oldChar \in [Keys -> {NULL} \cup [Modules -> Versions]]
        /\ logins \in [Keys -> 0..MaxLogins]
    BY <1>1, <1>2, VolatileTypes DEF CacheHolds, CacheInv
  <2> QED BY <2>1, <2>2, <2>3 DEF TypeOK
<1>4. LoadInv
  <2>1. IsInjective(<<>>) /\ \A m : ~Contains(<<>>, m)
    BY EmptySeq DEF IsInjective, Contains
  <2>2. LoadsOnce
    BY <2>1, <1>1 DEF LoadsOnce, NoStage
  <2>3. \A k \in Keys : ~Reserved(k)
    BY <1>1, <1>2, CacheAssumption DEF FiledByKey, FreshNode
  <2>4. ReservedIsLoading
    BY <2>3 DEF ReservedIsLoading
  <2>5. RepliesFilled
    BY <1>1 DEF RepliesFilled, NoStage
  <2>6. ChainIsServed /\ ChainsCounted
    BY <1>1 DEF ChainIsServed, ChainsCounted
  <2> QED BY <2>2, <2>4, <2>5, <2>6 DEF LoadInv
<1>5. DataInv
  <2>1. NodesOwn /\ LoadsOwn /\ CheckerOwns /\ CheckerHolds /\ SavesHold
    BY <1>1 DEF NodesOwn, LoadsOwn, CheckerOwns, CheckerHolds, SavesHold, FreshNode, NoStage, Idle
  <2>2. 1 \in Modules
    BY CountsAre DEF Modules
  <2>3. RowsKnown
    BY <1>1, <2>2 DEF RowsKnown, NoRows
  <2> QED BY <2>1, <2>3 DEF DataInv, OwnData, NodesOwn, LoadsOwn, CheckerOwns
<1> QED BY <1>2, <1>3, <1>4, <1>5 DEF ManagerInv, CacheHolds

\* And every step keeps it.
LEMMA ManagerStep ==
  ASSUME ManagerInv, FiledByKey, CacheHolds', FiledByKey', [Next]_vars
  PROVE  ManagerInv'
<1>1. CacheTypeOK' /\ CacheInv' /\ FreeIsFresh'
  BY DEF CacheHolds, CacheInv
<1>2. CacheInv
  BY DEF ManagerInv
<1> SUFFICES TypeOK' /\ LoadInv' /\ DataInv'
  BY <1>1 DEF ManagerInv
<1>3. ASSUME UNCHANGED <<cacheVars, queryCache, loads, stage, faults, logins>>, TypeOK'
      PROVE  LoadInv'
  <2>1. \A k \in Keys : Reserved(k)' => Reserved(k)
    BY <1>3 DEF Reserved, hashFind, cacheVars, Base
  <2>2. \A k \in Keys : logins[k] <= logins'[k]
    BY <1>3 DEF ManagerInv, TypeOK
  <2> QED BY <2>1, <2>2, <1>3, LoadsKept
<1>4. CASE UNCHANGED vars
  <2>1. TypeOK'
    BY <1>1, <1>4 DEF ManagerInv, TypeOK, vars, gameVars, loadVars, saveVars, boundVars
  <2>2. LoadInv'
    BY <2>1, <1>3, <1>4 DEF vars, loadVars, boundVars
  <2>3. NodesOwn' /\ LoadsOwn' /\ CheckerOwns' /\ CheckerHolds' /\ SavesHold' /\ RowsKnown'
    BY <1>4 DEF ManagerInv, DataInv, OwnData, NodesOwn, LoadsOwn, CheckerOwns, CheckerHolds,
                SavesHold, RowsKnown, vars, cacheVars, gameVars, loadVars, saveVars, boundVars
  <2> QED BY <2>1, <2>2, <2>3 DEF DataInv, OwnData, NodesOwn, LoadsOwn, CheckerOwns
<1>5. ASSUME NEW k \in Keys, LoadCharFirst(k) PROVE TypeOK' /\ LoadInv' /\ DataInv'
  BY <1>1, <1>5, LoadCharTypes, LoadCharFirstLoads, LoadCharData
<1>6. ASSUME NEW k \in Keys, LoadCharRefused(k) PROVE TypeOK' /\ LoadInv' /\ DataInv'
  <2>1. TypeOK' /\ DataInv'
    BY <1>1, <1>6, LoadCharTypes, LoadCharData
  <2>2. /\ UNCHANGED <<cacheVars, queryCache, loads, stage, faults>>
        /\ logins' = [logins EXCEPT ![k] = @ + 1]
    BY <1>6 DEF LoadCharRefused, MayLogin, OccupyFail
  <2>3. \A j \in Keys : Reserved(j)' => Reserved(j)
    BY <2>2 DEF Reserved, hashFind, cacheVars, Base
  <2>4. \A j \in Keys : logins[j] <= logins'[j]
    <3>1. logins \in [Keys -> 0..MaxLogins] /\ MaxLogins \in Nat
      BY CountsAre DEF ManagerInv, TypeOK
    <3> QED BY <3>1, <2>2
  <2>5. LoadInv'
    BY <2>1, <2>2, <2>3, <2>4, LoadsKept
  <2> QED BY <2>1, <2>5
<1>7. ASSUME NEW k \in Keys, LoadCharJoin(k) PROVE TypeOK' /\ LoadInv' /\ DataInv'
  BY <1>1, <1>7, LoadCharTypes, LoadCharJoinLoads, LoadCharData
<1>8. ASSUME NEW k \in Keys, NEW m \in Modules, Play(k, m) PROVE TypeOK' /\ LoadInv' /\ DataInv'
  <2>1. TypeOK'
    BY <1>1, <1>8, PlayTypes
  <2>2. LoadInv'
    BY <2>1, <1>3, <1>8 DEF Play, loadVars, boundVars
  <2> QED BY <2>1, <2>2, <1>8, PlayData
<1>9. ASSUME NEW a \in LoadActors, LoadStep(a) PROVE TypeOK' /\ LoadInv' /\ DataInv'
  <2>1. TypeOK'
    BY <1>1, <1>9, LoadAllTypes, LoadStepTypes DEF LoadStep
  <2>2. LoadInv'
    BY <2>1, <1>9, LoadAllLoads, SetDataLoads, ReplyLoads DEF LoadStep
  <2>3. DataInv'
    BY <2>1, <1>9, LoadAllData, LoadAllThrowsData, SetDataData, ReplyData DEF LoadStep
  <2> QED BY <2>1, <2>2, <2>3
<1>10. ASSUME \/ CheckStep
              \/ \E chosen \in SUBSET Online : SavePlayerTick(chosen)
              \/ SaveModuleQuery \/ SaveModuleMiss \/ SaveModuleDirty
       PROVE  TypeOK' /\ LoadInv' /\ DataInv'
  <2>1. TypeOK'
    BY <1>1, <1>10, CheckerTypes DEF CheckStep
  <2>2. DataInv'
    BY <1>10, CheckData, SavePlayerData DEF CheckStep
  <2>3. UNCHANGED <<queryCache, loads, stage, logins, faults>>
    BY <1>10 DEF CheckStep, CheckTake, CheckPut, CheckEnd, SavePlayerTick, SaveModuleQuery,
                 SaveModuleMiss, SaveModuleDirty, loadVars, boundVars
  <2>4. NodesSame \/ UNCHANGED cacheVars
    <3>1. checker.pc \in {"query", "dirty"} => checker.key \in Keys
      BY DEF ManagerInv, TypeOK, CheckerRecord, DataInv, CheckerHolds
    <3>2. \/ UNCHANGED cacheVars
          \/ GetNextDirtyNodeAndClean
          \/ \E k \in Keys : QueryHit(k) \/ QueryMiss(k) \/ SetDirty(k) \/ SetDirtyRefused(k)
      BY <1>10, <3>1 DEF CheckStep, CheckTake, CheckPut, CheckEnd, SavePlayerTick,
                         SaveModuleQuery, SaveModuleMiss, SaveModuleDirty
    <3>3. ASSUME GetNextDirtyNodeAndClean PROVE NodesSame
      <4>1. node \in [Nodes -> NodeRecord]
        BY <1>2 DEF CacheInv, CacheTypeOK
      <4> QED BY <4>1, <3>3 DEF GetNextDirtyNodeAndClean, NodesSame, NodeRecord
    <3> QED BY <3>2, <3>3, <1>2, QueryNodes
  <2>5. \A j \in Keys : Reserved(j)' => Reserved(j)
    <3>1. CASE NodesSame
      BY <3>1, <1>2, ReservedAfter
    <3>2. CASE UNCHANGED cacheVars
      BY <3>2 DEF Reserved, hashFind, cacheVars, Base
    <3> QED BY <3>1, <3>2, <2>4
  <2>6. \A j \in Keys : logins[j] <= logins'[j]
    BY <2>3 DEF ManagerInv, TypeOK
  <2>7. LoadInv'
    BY <2>1, <2>3, <2>5, <2>6, LoadsKept
  <2> QED BY <2>1, <2>2, <2>7
<1>11. CASE SaveModuleUpdate
  <2>1. TypeOK' /\ DataInv'
    BY <1>1, <1>11, SaveTypes, SaveModuleUpdateData
  <2>2. LoadInv'
    BY <2>1, <1>3, <1>11 DEF SaveModuleUpdate, loadVars, boundVars
  <2> QED BY <2>1, <2>2
<1>12. ASSUME NEW a \in DbActors, DbStep(a) PROVE TypeOK' /\ LoadInv' /\ DataInv'
  <2>1. TypeOK' /\ DataInv'
    BY <1>1, <1>12, SaveTypes, SaveModuleData DEF DbStep
  <2>2. UNCHANGED <<cacheVars, queryCache, loads, stage, logins>>
    BY <1>12 DEF DbStep, SaveModule, SaveModuleFails, ModuleDone, loadVars
  <2>3. faults'.player = faults.player
    <3>1. faults' = faults \/ faults' = [faults EXCEPT !.save = @ + 1]
      BY <1>12 DEF DbStep, SaveModule, SaveModuleFails
    <3> QED BY <3>1 DEF ManagerInv, TypeOK
  <2>4. \A k \in Keys : Reserved(k)' => Reserved(k)
    BY <2>2 DEF Reserved, hashFind, cacheVars, Base
  <2>5. \A k \in Keys : logins[k] <= logins'[k]
    BY <2>2 DEF ManagerInv, TypeOK
  <2>6. LoadInv'
    BY <2>1, <2>2, <2>3, <2>4, <2>5, LoadsKept
  <2> QED BY <2>1, <2>6
<1>13. CASE Crash
  BY <1>1, <1>13, CrashTypes, CrashLoads, CrashData
<1> QED BY <1>4, <1>5, <1>6, <1>7, <1>8, <1>9, <1>10, <1>11, <1>12, <1>13
        DEF Next, SavePlayerStep

\* For any number of characters, nodes, modules and actors, and whatever loads
\* and saves fail.
THEOREM ManagerInvariant == Spec => []ManagerInv
<1>1. Init => ManagerInv
  BY ManagerStarts
<1>2. ManagerInv /\ [Next]_vars => CacheHolds'
  BY CacheStep
<1>3. ManagerInv => FiledByKey
  BY CacheFilesByKey DEF ManagerInv, CacheHolds
<1>4. CacheHolds' => FiledByKey'
  BY CacheFilesByKey, PTL
<1>5. ManagerInv /\ FiledByKey /\ CacheHolds' /\ FiledByKey' /\ [Next]_vars => ManagerInv'
  BY ManagerStep
<1> QED BY <1>1, <1>2, <1>3, <1>4, <1>5, PTL DEF Spec

\* The maps, queues and stages of DataManager and its actors hold what their
\* types say.
THEOREM ManagerTypeCorrect == Spec => []TypeOK
<1>1. ManagerInv => TypeOK
  BY DEF ManagerInv
<1> QED BY <1>1, ManagerInvariant, PTL

\* A reserved node has a load that fills or releases it.
THEOREM ReservedHasLoad == Spec => []ReservedIsLoading
<1>1. ManagerInv => ReservedIsLoading
  BY DEF ManagerInv, LoadInv
<1> QED BY <1>1, ManagerInvariant, PTL

\* Through evictions and reused nodes, nobody gets another character's data.
THEOREM DataIsOwn == Spec => []OwnData
<1>1. ManagerInv => OwnData
  BY DEF ManagerInv, DataInv
<1> QED BY <1>1, ManagerInvariant, PTL

\* A login that joins a chain has a load to wait for, unless its character's
\* PLAYER rows could not be read.
THEOREM ChainHasLoad == Spec => []ChainIsServed
<1>1. ManagerInv => ChainIsServed
  BY DEF ManagerInv, LoadInv
<1> QED BY <1>1, ManagerInvariant, PTL

\* Under DataManager the cache is still a write-back cache: its calls keep the
\* lists, counters, dirty queue and hash table consistent across restarts.
THEOREM CacheUnderManager == Spec => []CacheInv
<1>1. ManagerInv => CacheInv
  BY DEF ManagerInv
<1> QED BY <1>1, ManagerInvariant, PTL

----------------------------------------------------------------------------
(* A change on its way: what save_player has copied into an object of the    *)
(* cache and no db actor has written yet is in the hand of db_check, dirty,  *)
(* or queued.  A dirty node is not evicted, and db_check lets go of an       *)
(* object only where the next station has it.                                *)

\* Until it comes into the cache, only its load refers to what was read.
ReadIsPrivate ==
  \A a \in LoadActors :
    stage[a].pc = "set" /\ stage[a].obj # NULL =>
      /\ \A m \in Modules : ~fresh[stage[a].obj][m]
      /\ \A n \in Nodes : node[n].data # stage[a].obj
      /\ checker.obj # stage[a].obj
      /\ \A b \in LoadActors : b # a => stage[b].obj # stage[a].obj

CheckerEmpty == checker.pc \in {"idle", "check", "query"} => checker.obj = NULL

ScheduleInv == ReadIsPrivate /\ CheckerEmpty /\ UnsavedIsScheduled

\* A CharData object belongs to its character as long as something refers to it.
LEMMA OwnersStay ==
  ASSUME ManagerInv, [Next]_vars, ~Crash
  PROVE  \A d \in Data : Referenced(d) => charId'[d] = charId[d]
<1> SUFFICES ASSUME NEW d \in Data, Referenced(d) PROVE charId'[d] = charId[d]
  OBVIOUS
<1>1. CASE UNCHANGED charId
  BY <1>1
<1>2. CASE \E a \in LoadActors : LoadAll(a)
  <2>1. PICK a \in LoadActors : LoadAll(a)
    BY <1>2
  <2>2. HeapHasRoom /\ charId' = [charId EXCEPT ![NewObject] = Head(loads[a])]
    BY <2>1 DEF LoadAll
  <2>3. ~Referenced(NewObject)
    BY <2>2 DEF HeapHasRoom, NewObject
  <2>4. NewObject # d
    BY <2>3
  <2>5. charId \in [Data -> Keys \cup {NULL}]
    BY DEF ManagerInv, TypeOK
  <2> QED BY <2>2, <2>4, <2>5
<1> QED BY <1>1, <1>2
        DEF Next, vars, LoadCharFirst, LoadCharRefused, LoadCharJoin, MayLogin, Play, LoadStep,
            LoadAllThrows, SetData, ReplyNull, ReplyThrows, Reply, TaskDone, CheckStep,
            CheckTake, CheckPut, CheckEnd, SavePlayerTick, SavePlayerStep, SaveModuleQuery,
            SaveModuleMiss, SaveModuleUpdate, SaveModuleDirty, DbStep, SaveModule,
            SaveModuleFails, ModuleDone, gameVars

\* Failures of saves are counted.
LEMMA FailuresCounted ==
  ASSUME ManagerInv, [Next]_vars, ~Crash, faults'.save = 0
  PROVE  faults.save = 0 /\ \A a \in DbActors : ~SaveModuleFails(a)
<1>1. faults \in [save : 0..MaxSaveFails, read : 0..MaxReadFails, crash : 0..MaxCrashes,
                  player : SUBSET Keys]
  BY DEF ManagerInv, TypeOK
<1>2. MaxSaveFails \in Nat
  BY CountsAre
<1>3. ASSUME NEW a \in DbActors, SaveModuleFails(a) PROVE FALSE
  BY <1>1, <1>2, <1>3 DEF SaveModuleFails
<1>4. ASSUME NEW a \in LoadActors, LoadAll(a) PROVE faults'.save = faults.save
  <2>1. \E r, p : faults' = [faults EXCEPT !.read = r, !.player = p]
    BY <1>4 DEF LoadAll
  <2> QED BY <1>1, <2>1
<1>5. ASSUME NEW a \in LoadActors, LoadAllThrows(a) PROVE faults'.save = faults.save
  BY <1>1, <1>5 DEF LoadAllThrows
<1> QED BY <1>3, <1>4, <1>5
        DEF Next, vars, LoadCharFirst, LoadCharRefused, LoadCharJoin, MayLogin, Play, LoadStep,
            SetData, ReplyNull, ReplyThrows, Reply, TaskDone, CheckStep,
            CheckTake, CheckPut, CheckEnd, SavePlayerTick, SavePlayerStep, SaveModuleQuery,
            SaveModuleMiss, SaveModuleUpdate, SaveModuleDirty, DbStep, SaveModule, boundVars

\* CheckPut adds a task for the checker's object, to start with its first module.
LEMMA CheckPutIs ==
  ASSUME ManagerInv, CheckPut
  PROVE  LET b == DbActor(charId[checker.obj]) IN
         /\ b \in DbActors
         /\ checker.obj \in Data
         /\ \A a \in DbActors : a # b => saves'[a] = saves[a]
         /\ \A j \in DOMAIN saves[b] : j \in DOMAIN saves'[b] /\ saves'[b][j] = saves[b][j]
         /\ \E i \in DOMAIN saves'[b] : saves'[b][i] = [obj |-> checker.obj, next |-> 1]
         /\ \A i \in DOMAIN saves'[b] :
              \/ i \in DOMAIN saves[b] /\ saves'[b][i] = saves[b][i]
              \/ saves'[b][i] = [obj |-> checker.obj, next |-> 1]
<1>1. PICK d \in Data : d = checker.obj /\ charId[d] \in Keys
  BY DEF ManagerInv, TypeOK, CheckPut, DataInv, CheckerHolds, CheckerRecord
<1>2. PICK b \in DbActors : b = DbActor(charId[d])
  BY <1>1, ActorsAre
<1> DEFINE s == saves[b]  e == [obj |-> d, next |-> 1]
<1>3. /\ saves \in [DbActors -> Seq([obj : Data, next : Modules])]
      /\ s \in Seq([obj : Data, next : Modules])
      /\ saves' = [saves EXCEPT ![b] = Append(s, e)]
  BY <1>1, <1>2 DEF ManagerInv, TypeOK, CheckPut
<1>4. e \in [obj : Data, next : Modules]
  BY CountsAre DEF Modules
<1>5. saves'[b] = Append(s, e) /\ \A a \in DbActors : a # b => saves'[a] = saves[a]
  BY <1>3
<1> HIDE DEF s, e
<1>6. /\ DOMAIN Append(s, e) = 1..(Len(s) + 1) /\ DOMAIN s = 1..Len(s) /\ Len(s) \in Nat
      /\ \A j \in 1..Len(s) : Append(s, e)[j] = s[j]
      /\ Append(s, e)[Len(s) + 1] = e
  BY <1>3, <1>4, AppendProperties, LenProperties
<1>7. /\ \A j \in DOMAIN s : j \in DOMAIN Append(s, e) /\ Append(s, e)[j] = s[j]
      /\ \E i \in DOMAIN Append(s, e) : Append(s, e)[i] = e
      /\ \A i \in DOMAIN Append(s, e) :
           (i \in DOMAIN s /\ Append(s, e)[i] = s[i]) \/ Append(s, e)[i] = e
  BY <1>6
<1>8. s = saves[b] /\ e = [obj |-> checker.obj, next |-> 1]
  BY <1>1 DEF s, e
<1>9. /\ \A j \in DOMAIN saves[b] : j \in DOMAIN saves'[b] /\ saves'[b][j] = saves[b][j]
      /\ \E i \in DOMAIN saves'[b] : saves'[b][i] = [obj |-> checker.obj, next |-> 1]
      /\ \A i \in DOMAIN saves'[b] :
           \/ i \in DOMAIN saves[b] /\ saves'[b][i] = saves[b][i]
           \/ saves'[b][i] = [obj |-> checker.obj, next |-> 1]
  BY <1>5, <1>7, <1>8, Zenon
<1> QED BY <1>1, <1>2, <1>5, <1>9, Zenon

\* What is queued at a db actor stays queued until its module is saved.
LEMMA QueuedStays ==
  ASSUME ManagerInv, [Next]_vars, ~Crash,
         NEW a \in DbActors, NEW j \in DOMAIN saves[a], NEW m \in Modules, saves[a][j].next <= m,
         ~(DbStep(a) /\ saves[a][j].obj = Head(saves[a]).obj /\ m = Head(saves[a]).next)
  PROVE  \E i \in DOMAIN saves'[a] :
           saves'[a][i].obj = saves[a][j].obj /\ saves'[a][i].next <= m
<1>1. CASE saves'[a] = saves[a]
  BY <1>1
<1>2. CASE CheckPut
  <2>1. CASE a = DbActor(charId[checker.obj])
    BY <1>2, <2>1, CheckPutIs
  <2>2. CASE a # DbActor(charId[checker.obj])
    BY <1>1, <1>2, <2>2, CheckPutIs
  <2> QED BY <2>1, <2>2
<1>3. ASSUME NEW b \in DbActors, DbStep(b)
      PROVE  \E i \in DOMAIN saves'[a] :
               saves'[a][i].obj = saves[a][j].obj /\ saves'[a][i].next <= m
  <2>1. saves[b] # <<>> /\ ModuleDone(b)
    BY <1>3 DEF DbStep, SaveModule, SaveModuleFails
  <2>2. saves \in [DbActors -> Seq([obj : Data, next : Modules])]
    BY DEF ManagerInv, TypeOK
  <2>3. CASE a = b
    <3>1. ~(j = 1 /\ m = saves[a][j].next)
      BY <1>3, <2>1, <2>2, <2>3, ModuleDoneIs
    <3> QED BY <2>1, <2>2, <2>3, <3>1, ModuleDoneIs
  <2>4. CASE a # b
    BY <1>1, <2>1, <2>2, <2>4 DEF ModuleDone
  <2> QED BY <2>3, <2>4
<1> QED BY <1>1, <1>2, <1>3
        DEF Next, vars, LoadCharFirst, LoadCharRefused, LoadCharJoin, MayLogin, Play, LoadStep,
            LoadAll, LoadAllThrows, SetData, ReplyNull, ReplyThrows, Reply, TaskDone, CheckStep,
            CheckTake, CheckEnd, SavePlayerTick, SavePlayerStep, SaveModuleQuery,
            SaveModuleMiss, SaveModuleUpdate, SaveModuleDirty, saveVars

\* A mark is new only where save_player updates the object it has in hand.
LEMMA MarksAre ==
  ASSUME ManagerInv, [Next]_vars, ~Crash, NEW d \in Data, NEW m \in Modules, fresh'[d][m]
  PROVE  \/ SaveModuleUpdate /\ checker.obj = d /\ checker'.obj = d
         \/ /\ fresh[d][m]
            /\ \A a \in DbActors :
                 SaveModule(a) => ~(d = Head(saves[a]).obj /\ m = Head(saves[a]).next)
<1>1. /\ fresh \in [Data -> [Modules -> BOOLEAN]] /\ checker \in CheckerRecord
      /\ saves \in [DbActors -> Seq([obj : Data, next : Modules])]
  BY DEF ManagerInv, TypeOK
<1>2. ASSUME NEW a \in DbActors, SaveModule(a)
      PROVE  fresh[d][m] /\ ~(d = Head(saves[a]).obj /\ m = Head(saves[a]).next)
  <2>1. PICK h, n : h = Head(saves[a]).obj /\ n = Head(saves[a]).next
    OBVIOUS
  <2>2. fresh' = [fresh EXCEPT ![h][n] = FALSE] /\ h \in Data /\ n \in Modules
    <3>1. saves[a] # <<>> /\ ModuleDone(a)
      BY <1>2 DEF SaveModule
    <3> QED BY <1>1, <1>2, <2>1, <3>1, ModuleDoneIs DEF SaveModule
  <2> QED BY <1>1, <2>1, <2>2
<1>3. CASE SaveModuleUpdate
  <2>1. PICK h, n : h = checker.obj /\ n = checker.mod
    OBVIOUS
  <2>2. /\ \E v : fresh' = [fresh EXCEPT ![h][n] = v]
        /\ checker'.obj = h
    BY <1>1, <1>3, <2>1 DEF SaveModuleUpdate, CheckerRecord
  <2>3. CASE d = h
    BY <1>3, <2>1, <2>2, <2>3
  <2>4. CASE d # h
    <3>1. fresh[d][m]
      BY <1>1, <2>2, <2>4
    <3> QED BY <1>2, <3>1
  <2> QED BY <2>3, <2>4
<1>4. ASSUME NEW a \in LoadActors, LoadAll(a) PROVE fresh[d][m]
  <2>1. fresh' = [fresh EXCEPT ![NewObject] = [n \in Modules |-> FALSE]]
    BY <1>4 DEF LoadAll
  <2>2. d # NewObject
    BY <1>1, <2>1
  <2> QED BY <1>1, <2>1, <2>2
<1>5. CASE UNCHANGED fresh
  BY <1>2, <1>5
<1> QED BY <1>2, <1>3, <1>4, <1>5
        DEF Next, vars, LoadCharFirst, LoadCharRefused, LoadCharJoin, MayLogin, Play, LoadStep,
            LoadAllThrows, SetData, ReplyNull, ReplyThrows, Reply, TaskDone, CheckStep,
            CheckTake, CheckPut, CheckEnd, SavePlayerTick, SavePlayerStep, SaveModuleQuery,
            SaveModuleMiss, SaveModuleDirty, DbStep, SaveModuleFails, gameVars

\* An object comes into the cache from the load that read it.
LEMMA DataComes ==
  ASSUME ManagerInv, FiledByKey, [Next]_vars, ~Crash,
         NEW n \in Nodes, NEW d \in Data, node'[n].data = d, node[n].data # d
  PROVE  \E a \in LoadActors : SetData(a) /\ stage[a].pc = "set" /\ stage[a].obj = d
<1>1. CacheInv /\ node \in [Nodes -> NodeRecord] /\ d # NULL
  BY CacheAssumption DEF ManagerInv, CacheInv, CacheTypeOK
<1>2. ~NodesSame /\ node' # node
  BY <1>1 DEF NodesSame
<1>3. ASSUME NEW j \in Keys PROVE ~NodeReserved(j) /\ ~NodeReleased(j)
  BY <1>1 DEF NodeReserved, NodeReleased, FreshNode
<1>4. ASSUME NEW j \in Keys, NEW c \in Data, NodeFilled(j, c) PROVE c = d
  BY <1>1, <1>4 DEF NodeFilled
<1>5. ASSUME NEW a \in LoadActors, SetData(a) PROVE stage[a].obj = d
  <2>1. PICK j \in Keys : j = Head(loads[a])
    <3>1. loads[a] \in Seq(Keys) /\ loads[a] # <<>>
      BY <1>5 DEF ManagerInv, TypeOK, LoadInv, LoadsOnce, SetData
    <3> QED BY <3>1, HeadTailProperties
  <2>2. PICK c \in Data \cup {NULL} : c = stage[a].obj
    BY DEF ManagerInv, TypeOK
  <2>3. (c # NULL /\ SetDataLoaded(j, c)) \/ SetDataEmpty(j) \/ SetDataIgnored(j)
    BY <1>5, <2>1, <2>2 DEF SetData
  <2>4. ~SetDataEmpty(j) /\ ~SetDataIgnored(j)
    BY <1>2, <1>3, SetDataNodes
  <2>5. c \in Data /\ NodeFilled(j, c)
    BY <2>2, <2>3, <2>4, SetDataNodes
  <2> QED BY <1>4, <2>2, <2>5
<1>6. ASSUME NEW j \in Keys PROVE ~LoadCharFirst(j)
  BY <1>1, <1>2, <1>3, OccupyNodes DEF LoadCharFirst
<1>7. ~UNCHANGED cacheVars /\ ~GetNextDirtyNodeAndClean
  <2>1. UNCHANGED cacheVars => UNCHANGED node
    BY DEF cacheVars
  <2>2. GetNextDirtyNodeAndClean => NodesSame
    BY <1>1 DEF GetNextDirtyNodeAndClean, NodesSame, NodeRecord
  <2> QED BY <1>2, <2>1, <2>2
<1>8. ~SavePlayerStep
  <2>1. checker.pc \in {"query", "dirty"} => checker.key \in Keys
    BY DEF ManagerInv, TypeOK, CheckerRecord, DataInv, CheckerHolds
  <2>2. \A j \in Keys : ~QueryHit(j) /\ ~QueryMiss(j) /\ ~SetDirty(j) /\ ~SetDirtyRefused(j)
    BY <1>1, <1>2, QueryNodes
  <2> QED BY <1>7, <2>1, <2>2 DEF SavePlayerStep, SaveModuleQuery, SaveModuleMiss,
                                  SaveModuleUpdate, SaveModuleDirty
<1>9. ASSUME NEW a \in LoadActors, LoadStep(a) PROVE SetData(a)
  BY <1>7, <1>9 DEF LoadStep, LoadAll, LoadAllThrows, ReplyNull, ReplyThrows, Reply, TaskDone
<1>10. ~CheckStep
  BY <1>7 DEF CheckStep, CheckTake, CheckPut, CheckEnd
<1>11. \A a \in DbActors : ~DbStep(a)
  BY <1>7 DEF DbStep, SaveModule, SaveModuleFails, ModuleDone
<1>12. \A j \in Keys : ~LoadCharRefused(j) /\ ~LoadCharJoin(j) /\ \A m \in Modules : ~Play(j, m)
  BY <1>7 DEF LoadCharRefused, OccupyFail, LoadCharJoin, Play
<1>13. ~UNCHANGED vars /\ \A chosen : ~SavePlayerTick(chosen)
  BY <1>7 DEF vars, SavePlayerTick
<1>14. \A a \in LoadActors : SetData(a) => stage[a].pc = "set"
  BY DEF SetData
<1> QED BY <1>5, <1>6, <1>8, <1>9, <1>10, <1>11, <1>12, <1>13, <1>14 DEF Next

\* What db_check takes in hand is in the cache.
LEMMA CheckerTakes ==
  ASSUME ManagerInv, FiledByKey, [Next]_vars, ~Crash
  PROVE  \/ checker'.obj \in {checker.obj, NULL}
         \/ \E n \in Nodes : node[n].data = checker'.obj
<1>1. checker \in CheckerRecord /\ CheckerHolds /\ CacheInv
  BY DEF ManagerInv, TypeOK, DataInv
<1>2. CASE CheckTake
  <2>1. Head(dirty_list) \in Nodes
    BY <1>1, <1>2, TailIs DEF CheckTake, GetNextDirtyNodeAndClean, CacheInv, CacheTypeOK,
                              DirtyQueuedOnce
  <2> QED BY <1>2, <2>1 DEF CheckTake, Idle
<1>3. CASE SaveModuleQuery
  <2>1. PICK k \in Keys : k = checker.key
    BY <1>1, <1>3 DEF SaveModuleQuery, CheckerHolds, CheckerRecord
  <2>2. Held(k) # NULL /\ checker'.obj = Held(k)
    BY <1>1, <1>3, <2>1 DEF SaveModuleQuery, QueryHit, Held, CheckerRecord
  <2> QED BY <2>2 DEF FiledByKey
<1>4. CASE SaveModuleUpdate
  BY <1>1, <1>4 DEF SaveModuleUpdate, CheckerRecord
<1>5. CASE UNCHANGED checker
  BY <1>5
<1>6. CASE CheckPut \/ CheckEnd \/ \E chosen \in SUBSET Online : SavePlayerTick(chosen)
  <2>1. ASSUME NEW chosen \in SUBSET Online, SavePlayerTick(chosen) PROVE checker'.obj = NULL
    BY <2>1 DEF SavePlayerTick, Idle
  <2>2. CheckPut \/ CheckEnd => checker'.obj = NULL
    <3>1. CheckPut => checker'.obj = NULL
      BY DEF CheckPut, Idle
    <3> QED BY <3>1 DEF CheckEnd, Idle
  <2> QED BY <1>6, <2>1, <2>2
<1>7. CASE SaveModuleMiss \/ SaveModuleDirty
  <2>1. checker.pc \in {"query", "dirty"} /\ NextModule
    BY <1>7 DEF SaveModuleMiss, SaveModuleDirty
  <2> QED BY <1>1, <2>1, NextModuleIs
<1> QED BY <1>2, <1>3, <1>4, <1>5, <1>6, <1>7
        DEF Next, vars, LoadCharFirst, LoadCharRefused, LoadCharJoin, MayLogin, Play, LoadStep,
            LoadAll, LoadAllThrows, SetData, ReplyNull, ReplyThrows, Reply, TaskDone, CheckStep,
            SavePlayerStep, DbStep, SaveModule, SaveModuleFails, ModuleDone, saveVars

\* A load is at setData because it has read in this step, or was there before.
LEMMA AtSetData ==
  ASSUME ManagerInv, [Next]_vars, ~Crash,
         NEW a \in LoadActors, stage'[a].pc = "set", stage'[a].obj # NULL
  PROVE  LoadAll(a) \/ (~SetData(a) /\ stage[a] = stage'[a])
<1>1. stage \in [LoadActors -> [pc : {"run", "set", "reply"}, obj : Data \cup {NULL}]]
  BY DEF ManagerInv, TypeOK
<1>2. ASSUME NEW b \in LoadActors, SetData(b) PROVE ~SetData(a) /\ stage[a] = stage'[a]
  <2>1. stage'[b].pc = "reply"
    BY <1>1, <1>2 DEF SetData
  <2>2. stage'[b].pc = "reply" /\ SetData(a) => stage'[a].pc = "reply"
    BY <1>1 DEF SetData
  <2>3. \E s : stage' = [stage EXCEPT ![b] = s]
    BY <1>2 DEF SetData
  <2> QED BY <1>1, <2>1, <2>2, <2>3
<1>3. ~SetData(a)
  BY <1>2
<1>4. ASSUME NEW b \in LoadActors, LoadAllThrows(b) \/ TaskDone(b) PROVE stage[a] = stage'[a]
  <2>1. /\ \E s : stage' = [stage EXCEPT ![b] = s]
        /\ stage'[b].obj = NULL
    BY <1>1, <1>4 DEF LoadAllThrows, TaskDone, NoStage
  <2> QED BY <1>1, <2>1
<1>5. ASSUME NEW b \in LoadActors, LoadAll(b) PROVE b = a \/ stage[a] = stage'[a]
  <2>1. \E s : stage' = [stage EXCEPT ![b] = s]
    BY <1>5 DEF LoadAll
  <2> QED BY <1>1, <2>1
<1>6. CASE UNCHANGED stage
  BY <1>3, <1>6
<1> QED BY <1>2, <1>3, <1>4, <1>5, <1>6
        DEF Next, vars, LoadCharFirst, LoadCharRefused, LoadCharJoin, MayLogin, Play, LoadStep,
            ReplyNull, ReplyThrows, Reply, CheckStep,
            CheckTake, CheckPut, CheckEnd, SavePlayerTick, SavePlayerStep, SaveModuleQuery,
            SaveModuleMiss, SaveModuleUpdate, SaveModuleDirty, DbStep, SaveModule,
            SaveModuleFails, ModuleDone, loadVars

\* A load that has an object has read it, had it, or takes it from the cache.
LEMMA LoadTakes ==
  ASSUME ManagerInv, FiledByKey, [Next]_vars, ~Crash, NEW b \in LoadActors, stage'[b].obj # NULL
  PROVE  \/ LoadAll(b)
         \/ stage'[b].obj = stage[b].obj
         \/ \E n \in Nodes : node[n].data = stage'[b].obj
<1>1. stage \in [LoadActors -> [pc : {"run", "set", "reply"}, obj : Data \cup {NULL}]]
  BY DEF ManagerInv, TypeOK
<1>2. ASSUME NEW c \in LoadActors, SetData(c)
      PROVE  stage'[b].obj = stage[b].obj \/ \E n \in Nodes : node[n].data = stage'[b].obj
  <2>1. Head(loads[c]) \in Keys
    <3>1. loads[c] \in Seq(Keys) /\ loads[c] # <<>>
      BY <1>2 DEF ManagerInv, TypeOK, LoadInv, LoadsOnce, SetData
    <3> QED BY <3>1, HeadTailProperties
  <2>2. \/ stage' = [stage EXCEPT ![c].pc = "reply"]
        \/ stage' = [stage EXCEPT ![c] = [pc |-> "reply", obj |-> Held(Head(loads[c]))]]
    BY <1>2 DEF SetData
  <2>3. stage'[b].obj \in {stage[b].obj, Held(Head(loads[c]))}
    BY <1>1, <2>2
  <2> QED BY <2>1, <2>3 DEF FiledByKey
<1>3. ASSUME NEW c \in LoadActors, LoadAllThrows(c) \/ TaskDone(c)
      PROVE  stage'[b].obj = stage[b].obj
  <2>1. /\ \E s : stage' = [stage EXCEPT ![c] = s]
        /\ stage'[c].obj = NULL
    BY <1>1, <1>3 DEF LoadAllThrows, TaskDone, NoStage
  <2> QED BY <1>1, <2>1
<1>4. ASSUME NEW c \in LoadActors, LoadAll(c) PROVE c = b \/ stage'[b].obj = stage[b].obj
  <2>1. \E s : stage' = [stage EXCEPT ![c] = s]
    BY <1>4 DEF LoadAll
  <2> QED BY <1>1, <2>1
<1>5. CASE UNCHANGED stage
  BY <1>5
<1> QED BY <1>2, <1>3, <1>4, <1>5
        DEF Next, vars, LoadCharFirst, LoadCharRefused, LoadCharJoin, MayLogin, Play, LoadStep,
            ReplyNull, ReplyThrows, Reply, CheckStep,
            CheckTake, CheckPut, CheckEnd, SavePlayerTick, SavePlayerStep, SaveModuleQuery,
            SaveModuleMiss, SaveModuleUpdate, SaveModuleDirty, DbStep, SaveModule,
            SaveModuleFails, ModuleDone, loadVars

\* What is read stays private until setData.
LEMMA PrivateStays ==
  ASSUME ManagerInv, FiledByKey, ReadIsPrivate, [Next]_vars, ~Crash
  PROVE  ReadIsPrivate'
<1> SUFFICES ASSUME NEW a \in LoadActors, NEW d, d = stage'[a].obj,
                    stage'[a].pc = "set", d # NULL
             PROVE  /\ \A m \in Modules : ~fresh'[d][m]
                    /\ \A n \in Nodes : node'[n].data # d
                    /\ checker'.obj # d
                    /\ \A b \in LoadActors : b # a => stage'[b].obj # d
  BY DEF ReadIsPrivate
<1>1. /\ stage \in [LoadActors -> [pc : {"run", "set", "reply"}, obj : Data \cup {NULL}]]
      /\ fresh \in [Data -> [Modules -> BOOLEAN]]
  BY DEF ManagerInv, TypeOK
<1>2. CASE LoadAll(a)
  <2>1. /\ HeapHasRoom
        /\ stage' = [stage EXCEPT ![a] = [pc |-> "set", obj |-> NewObject]]
        /\ fresh' = [fresh EXCEPT ![NewObject] = [m \in Modules |-> FALSE]]
        /\ UNCHANGED <<node, checker>>
    BY <1>2 DEF LoadAll, cacheVars, saveVars
  <2>2. d = NewObject
    BY <1>1, <2>1
  <2>3. d \in Data /\ ~Referenced(d)
    BY <2>1, <2>2 DEF HeapHasRoom, NewObject
  <2>4. \A m \in Modules : ~fresh'[d][m]
    BY <1>1, <2>1, <2>2, <2>3
  <2>5. \A b \in LoadActors : b # a => stage'[b].obj # d
    BY <1>1, <2>1, <2>3 DEF Referenced
  <2> QED BY <2>1, <2>3, <2>4, <2>5 DEF Referenced
<1>3. CASE ~LoadAll(a)
  <2>1. stage[a].pc = "set" /\ stage[a].obj = d /\ ~SetData(a)
    BY <1>3, AtSetData
  <2>2. /\ d \in Data
        /\ \A m \in Modules : ~fresh[d][m]
        /\ \A n \in Nodes : node[n].data # d
        /\ checker.obj # d
        /\ \A b \in LoadActors : b # a => stage[b].obj # d
    BY <1>1, <2>1 DEF ReadIsPrivate
  <2>3. \A m \in Modules : ~fresh'[d][m]
    BY <2>2, MarksAre
  <2>4. \A n \in Nodes : node'[n].data # d
    BY <2>1, <2>2, DataComes
  <2>5. checker'.obj # d
    BY <2>2, CheckerTakes
  <2>6. ASSUME NEW b \in LoadActors, b # a, stage'[b].obj = d PROVE FALSE
    <3>1. LoadAll(b)
      BY <2>2, <2>6, LoadTakes
    <3>2. HeapHasRoom /\ stage' = [stage EXCEPT ![b] = [pc |-> "set", obj |-> NewObject]]
      BY <3>1 DEF LoadAll
    <3>3. ~Referenced(NewObject)
      BY <3>2 DEF HeapHasRoom, NewObject
    <3>4. NewObject = d
      BY <1>1, <2>6, <3>2
    <3> QED BY <2>1, <3>3, <3>4 DEF Referenced
  <2> QED BY <2>3, <2>4, <2>5, <2>6
<1> QED BY <1>2, <1>3

\* Between its rounds db_check has nothing in hand.
LEMMA CheckerEmptyStays ==
  ASSUME ManagerInv, CheckerEmpty, [Next]_vars, ~Crash
  PROVE  CheckerEmpty'
<1>1. checker \in CheckerRecord /\ CheckerHolds
  BY DEF ManagerInv, TypeOK, DataInv
<1>2. CASE UNCHANGED checker
  BY <1>2 DEF CheckerEmpty
<1>3. CASE CheckTake \/ SaveModuleQuery \/ SaveModuleUpdate
  <2>1. CheckTake => checker'.pc = "put"
    BY DEF CheckTake, Idle
  <2>2. SaveModuleQuery => checker'.pc = "update"
    BY <1>1 DEF SaveModuleQuery, CheckerRecord
  <2>3. SaveModuleUpdate => checker'.pc = "dirty"
    BY <1>1 DEF SaveModuleUpdate, CheckerRecord
  <2> QED BY <1>3, <2>1, <2>2, <2>3 DEF CheckerEmpty
<1>4. CASE CheckPut \/ CheckEnd \/ \E chosen \in SUBSET Online : SavePlayerTick(chosen)
  <2>1. ASSUME NEW chosen \in SUBSET Online, SavePlayerTick(chosen) PROVE checker'.obj = NULL
    BY <2>1 DEF SavePlayerTick, Idle
  <2>2. CheckPut => checker'.obj = NULL
    BY DEF CheckPut, Idle
  <2>3. CheckEnd => checker'.obj = NULL
    BY DEF CheckEnd, Idle
  <2> QED BY <1>4, <2>1, <2>2, <2>3 DEF CheckerEmpty
<1>5. CASE SaveModuleMiss \/ SaveModuleDirty
  <2>1. checker.pc \in {"query", "dirty"} /\ NextModule
    BY <1>5 DEF SaveModuleMiss, SaveModuleDirty
  <2> QED BY <1>1, <2>1, NextModuleIs DEF CheckerEmpty
<1> QED BY <1>2, <1>3, <1>4, <1>5
        DEF Next, vars, LoadCharFirst, LoadCharRefused, LoadCharJoin, MayLogin, Play, LoadStep,
            LoadAll, LoadAllThrows, SetData, ReplyNull, ReplyThrows, Reply, TaskDone, CheckStep,
            SavePlayerStep, DbStep, SaveModule, SaveModuleFails, ModuleDone, saveVars

\* Eviction takes clean nodes only.
LEMMA DirtyKept ==
  ASSUME CacheHolds, NEW n \in Nodes, node[n].data # NULL, node[n].dirty
  PROVE  /\ [CacheCalls]_cacheVars => node'[n].data = node[n].data /\ node'[n].dirty
         /\ GetNextDirtyNodeAndClean =>
              node'[n].data = node[n].data /\ (n # Head(dirty_list) => node'[n].dirty)
<1>1. /\ CacheInv /\ node \in [Nodes -> NodeRecord]
      /\ mem \in Seq(Nodes) /\ lru_clean \in Seq(Nodes)
  BY DEF CacheHolds, CacheInv, CacheTypeOK
<1> DEFINE Kept == node'[n].data = node[n].data /\ node'[n].dirty
<1>2. CASE UNCHANGED cacheVars
  BY <1>2 DEF cacheVars
<1>3. ASSUME NEW k \in Keys, OccupyFree(k) PROVE Kept
  <2>1. Head(mem) \in Nodes /\ node[Head(mem)].data = NULL
    BY <1>1, <1>3, TailIs DEF OccupyFree, MallocFromPool, CacheHolds, FreeIsFresh, FreshNode,
                              CacheInv, PoolPartition
  <2> QED BY <1>1, <1>3, <2>1 DEF OccupyFree
<1>4. ASSUME NEW k \in Keys, OccupyEvict(k) PROVE Kept
  <2>1. Head(lru_clean) \in Nodes /\ ~node[Head(lru_clean)].dirty
    BY <1>1, <1>4, TailIs DEF OccupyEvict, MallocByEviction, CacheInv, PoolPartition,
                              DirtyQueuedOnce
  <2> QED BY <1>1, <1>4, <2>1 DEF OccupyEvict
<1>5. ASSUME NEW k \in Keys, NEW d \in Data, SetDataLoaded(k, d) PROVE Kept
  <2>1. hashFind(k) \in Nodes
    BY <1>1, <1>5, HashFindIs DEF SetDataLoaded
  <2> QED BY <1>1, <1>5, <2>1 DEF SetDataLoaded
<1>6. ASSUME NEW k \in Keys, SetDataEmpty(k) PROVE Kept
  <2>1. hashFind(k) \in Nodes
    BY <1>1, <1>6, HashFindIs DEF SetDataEmpty
  <2> QED BY <1>1, <1>6, <2>1 DEF SetDataEmpty
<1>7. ASSUME NEW k \in Keys, SetDirty(k) PROVE Kept
  BY <1>1, <1>7 DEF SetDirty, NodeRecord
<1>8. ASSUME GetNextDirtyNodeAndClean
      PROVE  node'[n].data = node[n].data /\ (n # Head(dirty_list) => node'[n].dirty)
  BY <1>1, <1>8 DEF GetNextDirtyNodeAndClean, NodeRecord
<1>9. ASSUME NEW k \in Keys, QueryHit(k) PROVE Kept
  BY <1>9 DEF QueryHit
<1> QED BY <1>2, <1>3, <1>4, <1>5, <1>6, <1>7, <1>8, <1>9
        DEF CacheCalls, OccupyPresent, OccupyFail, QueryMiss, SetDataIgnored, SetDirtyRefused,
            cacheVars

\* A node that DB_CHECK takes from the dirty queue leaves its object in hand.
LEMMA TakenInHand ==
  ASSUME ManagerInv, [Next]_vars, ~Crash,
         NEW n \in Nodes, node[n].data # NULL, node[n].dirty
  PROVE  \/ node'[n].data = node[n].data /\ node'[n].dirty
         \/ checker'.obj = node[n].data
<1>1. CacheHolds
  BY DEF ManagerInv, CacheHolds
<1>2. CASE [CacheCalls]_cacheVars
  BY <1>1, <1>2, DirtyKept
<1>3. CASE CheckTake
  BY <1>1, <1>3, DirtyKept DEF CheckTake, Idle
<1> QED BY <1>2, <1>3, CacheMoves

\* An object in the checker's hand is queued, or dirty in the cache, when the
\* checker lets go of it.
LEMMA HandedOver ==
  ASSUME ManagerInv, FiledByKey, CheckerEmpty, [Next]_vars, ~Crash,
         NEW d \in Data, checker.obj = d,
         NEW n \in Nodes, node[n].data = d, node'[n].data = d
  PROVE  \/ checker'.obj = d
         \/ node'[n].dirty
         \/ \E i \in DOMAIN saves'[DbActor(charId[d])] :
              LET t == saves'[DbActor(charId[d])][i] IN t.obj = d /\ t.next = 1
<1>1. /\ checker \in CheckerRecord /\ node \in [Nodes -> NodeRecord]
      /\ checker.pc \in {"put", "update", "dirty"}
      /\ checker.pc \in {"update", "dirty"} => node[n].key = checker.key /\ checker.key \in Keys
      /\ d # NULL
  BY CacheAssumption DEF ManagerInv, TypeOK, CacheTypeOK, DataInv, OwnData, CheckerHolds,
     CheckerRecord, CheckerEmpty
<1>2. CASE UNCHANGED checker
  BY <1>2
<1>3. CASE CheckPut
  BY <1>3, CheckPutIs
<1>4. CASE SaveModuleUpdate
  BY <1>1, <1>4 DEF SaveModuleUpdate, CheckerRecord
<1>5. CASE SaveModuleDirty
  <2>1. PICK k \in Keys : k = checker.key /\ hashFind(k) = n
    BY <1>1, <1>5 DEF SaveModuleDirty, FiledByKey
  <2>2. CASE SetDirty(k)
    BY <1>1, <2>1, <2>2 DEF SetDirty, NodeRecord
  <2>3. CASE SetDirtyRefused(k)
    BY <1>1, <2>1, <2>3, CacheAssumption DEF SetDirtyRefused, cacheVars
  <2> QED BY <1>5, <2>1, <2>2, <2>3 DEF SaveModuleDirty
<1> QED BY <1>1, <1>2, <1>3, <1>4, <1>5
        DEF Next, vars, LoadCharFirst, LoadCharRefused, LoadCharJoin, MayLogin, Play, LoadStep,
            LoadAll, LoadAllThrows, SetData, ReplyNull, ReplyThrows, Reply, TaskDone, CheckStep,
            CheckTake, CheckEnd, SavePlayerTick, SavePlayerStep, SaveModuleQuery,
            SaveModuleMiss, DbStep, SaveModule, SaveModuleFails, ModuleDone, saveVars

\* A change that is on its way stays on its way until its module is saved.
LEMMA ScheduledStays ==
  ASSUME ManagerInv, FiledByKey, CheckerEmpty, [Next]_vars, ~Crash,
         NEW d \in Data, NEW m \in Modules, Scheduled(d, m), charId[d] \in Keys,
         NEW n \in Nodes, node[n].data = d, node'[n].data = d,
         \A a \in DbActors : ~(DbStep(a) /\ d = Head(saves[a]).obj /\ m = Head(saves[a]).next)
  PROVE  Scheduled(d, m)'
<1>1. d # NULL /\ 1 <= m
  BY CacheAssumption, CountsAre DEF Modules
<1>2. charId'[d] = charId[d]
  BY OwnersStay DEF Referenced
<1>3. PICK b \in DbActors : b = DbActor(charId[d])
  BY ActorsAre
<1>4. ASSUME NEW j \in Nodes, node[j].data = d, node[j].dirty PROVE Scheduled(d, m)'
  BY <1>1, <1>4, TakenInHand DEF Scheduled
<1>5. CASE checker.obj = d
  BY <1>1, <1>2, <1>3, <1>5, HandedOver DEF Scheduled
<1>6. ASSUME NEW j \in DOMAIN saves[b], saves[b][j].obj = d, saves[b][j].next <= m
      PROVE  Scheduled(d, m)'
  <2>1. \E i \in DOMAIN saves'[b] : saves'[b][i].obj = d /\ saves'[b][i].next <= m
    BY <1>6, QueuedStays
  <2> QED BY <1>2, <1>3, <2>1 DEF Scheduled
<1> QED BY <1>3, <1>4, <1>5, <1>6 DEF Scheduled

\* The object of a node belongs to a character.
LEMMA NodeOwner ==
  ASSUME ManagerInv, NEW n \in Nodes, NEW d \in Data, node[n].data = d
  PROVE  charId[d] = node[n].key /\ charId[d] \in Keys
<1>1. d # NULL
  BY CacheAssumption
<1>2. charId[d] = node[n].key
  BY <1>1 DEF ManagerInv, DataInv, OwnData
<1>3. InLru(n)
  BY <1>1 DEF ManagerInv, FreeIsFresh, FreshNode, CacheInv, PoolPartition
<1> QED BY <1>2, <1>3, HashFindOf DEF ManagerInv

\* While no save fails, no change in an object of the cache is left behind.
LEMMA UnsavedStays ==
  ASSUME ManagerInv, FiledByKey, ScheduleInv, [Next]_vars, ~Crash
  PROVE  UnsavedIsScheduled'
<1> SUFFICES ASSUME faults'.save = 0, NEW n \in Nodes, NEW m \in Modules, NEW d,
                    d = node'[n].data, d \in Data, fresh'[d][m]
             PROVE  Scheduled(d, m)'
  <2>1. CacheHolds'
    BY CacheStep
  <2>2. \A n \in Nodes : node'[n].data \in Data \cup {NULL}
    BY <2>1 DEF CacheHolds, CacheInv, CacheTypeOK, NodeRecord
  <2> QED BY <2>2 DEF UnsavedIsScheduled
<1>1. CASE checker'.obj = d
  BY <1>1 DEF Scheduled
<1>2. CASE checker'.obj # d
  <2>1. /\ fresh[d][m]
        /\ \A a \in DbActors :
             SaveModule(a) => ~(d = Head(saves[a]).obj /\ m = Head(saves[a]).next)
    BY <1>2, MarksAre
  <2>2. d # NULL
    BY CacheAssumption
  <2>3. node[n].data = d
    BY <2>1, <2>2, DataComes DEF ScheduleInv, ReadIsPrivate
  <2>4. charId[d] \in Keys
    BY <2>3, NodeOwner
  <2>5. Scheduled(d, m) /\ \A a \in DbActors : ~SaveModuleFails(a)
    BY <2>1, <2>2, <2>3, FailuresCounted DEF ScheduleInv, UnsavedIsScheduled
  <2> QED BY <2>1, <2>3, <2>4, <2>5, ScheduledStays DEF DbStep, ScheduleInv
<1> QED BY <1>1, <1>2

\* The invariant behind it, whatever is evicted.
THEOREM ScheduleInvariant == Spec => []ScheduleInv
<1>1. Init => ScheduleInv
  BY DEF Init, CacheInit, Volatile, ScheduleInv, ReadIsPrivate, CheckerEmpty,
         UnsavedIsScheduled, FreshNode, NoStage, Idle
<1>2. ASSUME ManagerInv, FiledByKey, ScheduleInv, [Next]_vars PROVE ScheduleInv'
  <2>1. CASE Crash
    BY <2>1 DEF Crash, ScheduleInv, ReadIsPrivate, CheckerEmpty, UnsavedIsScheduled,
                FreshNode, NoStage, Idle
  <2>2. CASE ~Crash
    BY <1>2, <2>2, PrivateStays, CheckerEmptyStays, UnsavedStays DEF ScheduleInv
  <2> QED BY <2>1, <2>2
<1>3. ManagerInv => FiledByKey
  BY CacheFilesByKey DEF ManagerInv, CacheHolds
<1> QED BY <1>1, <1>2, <1>3, ManagerInvariant, PTL DEF Spec

\* As long as no transaction has failed, a change that save_player copied into an
\* object of the cache is in its hand, in the dirty queue, or queued at the db
\* actor of its character with its module to come.
THEOREM ChangesScheduled == Spec => []UnsavedIsScheduled
<1>1. ScheduleInv => UnsavedIsScheduled
  BY DEF ScheduleInv
<1> QED BY <1>1, ScheduleInvariant, PTL

----------------------------------------------------------------------------
(* As long as no more characters have been asked for than the cache has room *)
(* for, nothing is evicted, and the object of a character stays where        *)
(* save_player and the queues expect it.                                     *)

\* The characters this process has got a login for.
Asked == {k \in Keys : logins[k] > 0}

FewAsked ==
  /\ IsFiniteSet(Asked)
  /\ Cardinality(Asked) <= node_size
  /\ Cardinality(Asked) <= max_clean_size

\* A node is used for a character that has been asked for.
NodesAsked == \A n \in Nodes, k \in Keys : node[n].key = k => logins[k] > 0

\* A load that has its object has put it into the cache.
RepliesHeld ==
  \A a \in LoadActors, k \in Keys :
    stage[a].pc = "reply" /\ stage[a].obj # NULL /\ Head(loads[a]) = k
      => Held(k) = stage[a].obj

\* What the checker has in hand, or a db actor in its queue, is the object the
\* cache has for that character.
CheckerHeld ==
  /\ checker.pc \in {"idle", "check", "query"} => checker.obj = NULL
  /\ \A k \in Keys :
       checker.obj # NULL /\ charId[checker.obj] = k => Held(k) = checker.obj
SavesHeld ==
  \A a \in DbActors, k \in Keys : \A i \in DOMAIN saves[a] :
    charId[saves[a][i].obj] = k => Held(k) = saves[a][i].obj

FitInv == OnlineIsCached /\ RepliesHeld /\ CheckerHeld /\ SavesHeld

\* A login is counted before a node is occupied for it, and the counts only grow
\* until the process ends.
LEMMA LoginsGrow ==
  ASSUME ManagerInv, [Next]_vars, ~Crash
  PROVE  \A k \in Keys : logins[k] > 0 => logins'[k] > 0
<1>1. logins \in [Keys -> 0..MaxLogins] /\ MaxLogins \in Nat
  BY CountsAre DEF ManagerInv, TypeOK
<1>2. CASE UNCHANGED logins
  BY <1>2
<1>3. ASSUME NEW j \in Keys, MayLogin(j)
      PROVE  \A k \in Keys : logins[k] > 0 => logins'[k] > 0
  BY <1>1, <1>3 DEF MayLogin
<1> QED BY <1>2, <1>3
        DEF Next, vars, LoadCharFirst, LoadCharRefused, LoadCharJoin, Play, LoadStep,
            LoadAll, LoadAllThrows, SetData, ReplyNull, ReplyThrows, Reply, TaskDone, CheckStep,
            CheckTake, CheckPut, CheckEnd, SavePlayerTick, SavePlayerStep, SaveModuleQuery,
            SaveModuleMiss, SaveModuleUpdate, SaveModuleDirty, DbStep, SaveModule,
            SaveModuleFails, ModuleDone, boundVars

\* The calls of the cache but occupy give no node another character.
LEMMA KeysKept ==
  ASSUME CacheInv, FiledByKey, NEW k \in Keys,
         \/ QueryHit(k) \/ QueryMiss(k)
         \/ SetDirty(k) \/ SetDirtyRefused(k) \/ GetNextDirtyNodeAndClean
         \/ SetDataEmpty(k) \/ SetDataIgnored(k) \/ OccupyPresent(k) \/ OccupyFail(k)
         \/ \E d \in Data : SetDataLoaded(k, d)
         \/ UNCHANGED cacheVars
  PROVE  \A n \in Nodes : node'[n].key \in {node[n].key, NULL}
<1>1. node \in [Nodes -> NodeRecord]
  BY DEF CacheInv, CacheTypeOK
<1>2. CASE NodesSame
  BY <1>2 DEF NodesSame
<1>3. CASE NodeReleased(k)
  BY <1>1, <1>3 DEF NodeReleased, FreshNode, NodeRecord
<1>4. ASSUME NEW d \in Data, NodeFilled(k, d)
      PROVE  \A n \in Nodes : node'[n].key \in {node[n].key, NULL}
  BY <1>1, <1>4 DEF NodeFilled, NodeRecord
<1>5. CASE UNCHANGED node
  BY <1>5
<1> QED BY <1>2, <1>3, <1>4, <1>5, QueryNodes, SetDataNodes DEF OccupyPresent, OccupyFail, cacheVars

\* What the cache has, and what it takes in, has been asked for.
LEMMA NodesAskedStay ==
  ASSUME ManagerInv, FiledByKey, NodesAsked, [Next]_vars
  PROVE  NodesAsked'
<1>1. CacheInv /\ node \in [Nodes -> NodeRecord]
  BY DEF ManagerInv, CacheInv, CacheTypeOK
<1>2. CASE Crash
  BY <1>2, CacheAssumption DEF Crash, NodesAsked, FreshNode
<1> SUFFICES ASSUME ~Crash, NEW n \in Nodes, NEW k \in Keys, node'[n].key = k
             PROVE  logins'[k] > 0
  BY <1>2 DEF NodesAsked
<1>3. CASE node'[n].key \in {node[n].key, NULL}
  BY <1>3, CacheAssumption, LoginsGrow DEF NodesAsked
<1>4. ASSUME NEW j \in Keys, LoadCharFirst(j) PROVE logins'[k] > 0
  <2>1. logins'[j] > 0
    <3>1. logins \in [Keys -> 0..MaxLogins] /\ MaxLogins \in Nat
      BY CountsAre DEF ManagerInv, TypeOK
    <3> QED BY <1>4, <3>1 DEF LoadCharFirst, MayLogin
  <2>2. NodeReserved(j) \/ UNCHANGED node
    BY <1>1, <1>4, OccupyNodes DEF LoadCharFirst
  <2>3. node'[n].key \in {node[n].key, j}
    BY <1>1, <2>2 DEF NodeReserved, FreshNode
  <2> QED BY <1>3, <2>1, <2>3
<1>5. CASE CheckTake
  <2>1. \E j \in Keys : TRUE
    BY DEF NodesAsked
  <2> QED BY <1>1, <1>3, <1>5, <2>1, KeysKept DEF CheckTake
<1>6. ASSUME NEW a \in LoadActors, SetData(a) PROVE logins'[k] > 0
  <2>1. PICK j \in Keys : j = Head(loads[a])
    <3>1. loads[a] \in Seq(Keys) /\ loads[a] # <<>>
      BY <1>6 DEF ManagerInv, TypeOK, LoadInv, LoadsOnce, SetData
    <3> QED BY <3>1, HeadTailProperties
  <2>2. stage[a].obj \in Data \cup {NULL}
    BY DEF ManagerInv, TypeOK
  <2>3. SetDataEmpty(j) \/ SetDataIgnored(j) \/ \E d \in Data : SetDataLoaded(j, d)
    BY <1>6, <2>1, <2>2 DEF SetData
  <2> QED BY <1>1, <1>3, <2>3, KeysKept
<1>7. CASE SavePlayerStep
  <2>1. checker.pc \in {"query", "dirty"} => checker.key \in Keys
    BY DEF ManagerInv, TypeOK, CheckerRecord, DataInv, CheckerHolds
  <2>2. \/ UNCHANGED cacheVars
        \/ \E j \in Keys : QueryHit(j) \/ QueryMiss(j) \/ SetDirty(j) \/ SetDirtyRefused(j)
    BY <1>7, <2>1 DEF SavePlayerStep, SaveModuleQuery, SaveModuleMiss, SaveModuleUpdate,
                      SaveModuleDirty
  <2> QED BY <1>1, <1>3, <2>2, KeysKept
<1>8. CASE UNCHANGED node
  BY <1>3, <1>8
<1> QED BY <1>4, <1>5, <1>6, <1>7, <1>8
        DEF Next, vars, LoadCharRefused, OccupyFail, LoadCharJoin, Play, LoadStep, LoadAll,
            LoadAllThrows, ReplyNull, ReplyThrows, Reply, TaskDone, CheckStep, CheckPut,
            CheckEnd, SavePlayerTick, DbStep, SaveModule, SaveModuleFails, ModuleDone, cacheVars

\* The characters asked for become more only.
LEMMA FewBefore ==
  ASSUME ManagerInv, [Next]_vars, ~Crash, FewAsked'
  PROVE  FewAsked /\ Asked \subseteq Asked'
<1>1. Asked \subseteq Asked'
  BY LoginsGrow DEF Asked
<1>2. IsFiniteSet(Asked') /\ Cardinality(Asked') <= node_size /\ Cardinality(Asked') <= max_clean_size
  BY DEF FewAsked
<1>3. IsFiniteSet(Asked) /\ Cardinality(Asked) <= Cardinality(Asked')
  BY <1>1, <1>2, FS_Subset
<1>4. Cardinality(Asked) \in Nat /\ Cardinality(Asked') \in Nat
  BY <1>2, <1>3, FS_CardinalityType
<1> QED BY <1>1, <1>2, <1>3, <1>4, CacheAssumption DEF FewAsked

\* A map without collisions does not lead into a smaller set.
LEMMA NoCollisions ==
  ASSUME NEW S, IsFiniteSet(S), NEW T, IsFiniteSet(T), NEW f \in [S -> T],
         \A x, y \in S : f[x] = f[y] => x = y
  PROVE  Cardinality(S) <= Cardinality(T)
<1>1. Cardinality(S) \in Nat /\ Cardinality(T) \in Nat
  BY FS_CardinalityType
<1> SUFFICES ASSUME Cardinality(T) < Cardinality(S) PROVE FALSE
  BY <1>1
<1> QED BY FS_PigeonHole

\* A key that is absent finds a free node: the nodes in use have different keys
\* of the others, so they are fewer than the nodes and than the clean bound.
LEMMA NoEviction ==
  ASSUME CacheInv, NodesAsked, NEW A, Asked \subseteq A, IsFiniteSet(A),
         Cardinality(A) <= node_size, Cardinality(A) <= max_clean_size,
         NEW k \in A, k \in Keys, hashFind(k) = NULL
  PROVE  MallocFromPool
<1> DEFINE K == A \ {k}
<1>1. /\ IsFiniteSet(K)
      /\ Cardinality(A) \in Nat
      /\ Cardinality(K) = Cardinality(A) - 1
  BY FS_RemoveElement, FS_CardinalityType
<1>2. \A n \in Nodes : InLru(n) => node[n].key \in K
  BY HashFindIs, HashFindOf DEF NodesAsked, Asked
<1>3. \A m, n \in Nodes : InLru(m) /\ InLru(n) /\ node[m].key = node[n].key => m = n
  BY DEF CacheInv, HashExact
<1> HIDE DEF K
<1>4. clean_size < max_clean_size
  <2>1. /\ lru_clean \in Seq(Nodes) /\ IsInjective(lru_clean)
        /\ clean_size = Len(lru_clean)
    BY DEF CacheInv, CacheTypeOK, SizesExact, PoolPartition
  <2>2. Len(lru_clean) \in Nat /\ DOMAIN lru_clean = 1..Len(lru_clean)
    BY <2>1, LenProperties
  <2>3. \A i \in 1..Len(lru_clean) : lru_clean[i] \in Nodes /\ InLru(lru_clean[i])
    BY <2>1, <2>2, ElementOfSeq DEF InLru, Contains
  <2>4. \A i, j \in 1..Len(lru_clean) : lru_clean[i] = lru_clean[j] => i = j
    BY <2>1, <2>2 DEF IsInjective
  <2>5. IsFiniteSet(1..Len(lru_clean)) /\ Cardinality(1..Len(lru_clean)) = Len(lru_clean)
    <3>1. 1 \in Int /\ Len(lru_clean) \in Int
      BY <2>2
    <3>2. /\ IsFiniteSet(1..Len(lru_clean))
          /\ Cardinality(1..Len(lru_clean))
               = IF 1 > Len(lru_clean) THEN 0 ELSE Len(lru_clean) - 1 + 1
      BY <3>1, FS_Interval
    <3> QED BY <3>2, <2>2
  <2> DEFINE I == 1..Len(lru_clean)
  <2>6. PICK f : f = [i \in I |-> node[lru_clean[i]].key]
    OBVIOUS
  <2>7. f \in [I -> K] /\ \A i, j \in I : f[i] = f[j] => i = j
    BY <1>2, <1>3, <2>3, <2>4, <2>6
  <2> HIDE DEF I
  <2>8. Cardinality(I) <= Cardinality(K)
    BY <1>1, <2>5, <2>7, NoCollisions DEF I
  <2> QED BY <1>1, <2>1, <2>2, <2>5, <2>8, CacheAssumption DEF I
<1>5. mem # <<>>
  <2> SUFFICES ASSUME mem = <<>> PROVE FALSE
    OBVIOUS
  <2>1. \A n \in Nodes : InLru(n)
    BY DEF CacheInv, PoolPartition, Contains
  <2>2. IsFiniteSet(Nodes) /\ Cardinality(Nodes) = node_size
    BY CacheAssumption, FS_Interval DEF Nodes
  <2>3. PICK f : f = [n \in Nodes |-> node[n].key]
    OBVIOUS
  <2>4. f \in [Nodes -> K] /\ \A m, n \in Nodes : f[m] = f[n] => m = n
    BY <1>2, <1>3, <2>1, <2>3
  <2>5. Cardinality(Nodes) <= Cardinality(K)
    BY <1>1, <2>2, <2>4, NoCollisions
  <2> QED BY <1>1, <2>2, <2>5, CacheAssumption
<1> QED BY <1>4, <1>5 DEF MallocFromPool

\* Nodes with an object keep it,
LoadedStay ==
  \A n \in Nodes : node[n].data # NULL =>
    node'[n].key = node[n].key /\ node'[n].data = node[n].data

\* and stay dirty when they are.
DirtyStay ==
  \A n \in Nodes : node[n].data # NULL /\ node[n].dirty => node'[n].dirty

\* Without evictions the cache's methods keep what is loaded, and only DB_CHECK
\* cleans a node.
LEMMA CacheKeepsLoaded ==
  ASSUME CacheHolds, \A k \in Keys : ~OccupyEvict(k)
  PROVE  /\ [CacheCalls]_cacheVars => LoadedStay /\ DirtyStay
         /\ GetNextDirtyNodeAndClean => LoadedStay
<1>1. /\ CacheInv /\ node \in [Nodes -> NodeRecord]
      /\ \A n \in Nodes : Contains(mem, n) => node[n] = FreshNode
      /\ mem \in Seq(Nodes)
  BY DEF CacheHolds, FreeIsFresh, CacheInv, CacheTypeOK
<1> USE DEF LoadedStay, DirtyStay
<1>2. CASE UNCHANGED cacheVars
  BY <1>2 DEF cacheVars
<1>3. ASSUME NEW k \in Keys, OccupyFree(k) PROVE LoadedStay /\ DirtyStay
  <2>1. Head(mem) \in Nodes /\ node[Head(mem)].data = NULL
    BY <1>1, <1>3, TailIs DEF OccupyFree, MallocFromPool, FreshNode, CacheInv, PoolPartition
  <2> QED BY <1>1, <1>3, <2>1 DEF OccupyFree
<1>5. ASSUME NEW k \in Keys, NEW d \in Data, SetDataLoaded(k, d) PROVE LoadedStay /\ DirtyStay
  <2>1. hashFind(k) \in Nodes
    BY <1>1, <1>5, HashFindIs DEF SetDataLoaded
  <2> QED BY <1>1, <1>5, <2>1 DEF SetDataLoaded
<1>6. ASSUME NEW k \in Keys, SetDataEmpty(k) PROVE LoadedStay /\ DirtyStay
  <2>1. hashFind(k) \in Nodes
    BY <1>1, <1>6, HashFindIs DEF SetDataEmpty
  <2> QED BY <1>1, <1>6, <2>1 DEF SetDataEmpty
<1>7. ASSUME NEW k \in Keys, SetDirty(k) PROVE LoadedStay /\ DirtyStay
  BY <1>1, <1>7 DEF SetDirty, NodeRecord
<1>8. ASSUME GetNextDirtyNodeAndClean PROVE LoadedStay
  BY <1>1, <1>8 DEF GetNextDirtyNodeAndClean, NodeRecord
<1>9. ASSUME NEW k \in Keys, QueryHit(k) PROVE LoadedStay /\ DirtyStay
  BY <1>9 DEF QueryHit
<1> QED BY <1>2, <1>3, <1>5, <1>6, <1>7, <1>8, <1>9
        DEF CacheCalls, OccupyPresent, OccupyFail, QueryMiss, SetDataIgnored, SetDirtyRefused

\* So what the cache has for a character, it keeps.
LEMMA HeldStays ==
  ASSUME CacheHolds, FiledByKey, FiledByKey', LoadedStay
  PROVE  \A k \in Keys : Held(k) # NULL => Held(k)' = Held(k)
<1> SUFFICES ASSUME NEW k \in Keys, Held(k) # NULL PROVE Held(k)' = Held(k)
  OBVIOUS
<1>1. PICK n \in Nodes : node[n].key = k /\ node[n].data = Held(k)
  BY DEF FiledByKey
<1>2. node'[n].key = k /\ node'[n].data = Held(k)
  BY <1>1 DEF LoadedStay
<1>3. hashFind(k)' = n
  BY <1>2 DEF FiledByKey
<1>4. n # NULL
  BY CacheAssumption
<1> QED BY <1>2, <1>3, <1>4 DEF Held

HeldStay == \A k \in Keys : Held(k) # NULL => Held(k)' = Held(k)

\* No step of a process that has been asked for few takes an object out of the
\* cache.
LEMMA StepKeepsLoaded ==
  ASSUME ManagerInv, FiledByKey, FiledByKey', NodesAsked, NodesAsked', FewAsked',
         [Next]_vars, ~Crash
  PROVE  LoadedStay /\ HeldStay /\ (~CheckTake => DirtyStay)
<1>1. CacheHolds
  BY DEF ManagerInv, CacheHolds
<1>2. CheckTake => GetNextDirtyNodeAndClean
  BY DEF CheckTake
<1>3. ASSUME NEW k \in Keys, OccupyEvict(k) PROVE FALSE
  <2>1. CacheInv /\ node \in [Nodes -> NodeRecord] /\ Head(lru_clean) \in Nodes
    BY <1>3, TailIs DEF OccupyEvict, MallocByEviction, ManagerInv, CacheInv, CacheTypeOK,
                        PoolPartition
  <2>2. node'[Head(lru_clean)].key = k
    BY <1>3, <2>1 DEF OccupyEvict, FreshNode
  <2>3. k \in Asked'
    BY <2>1, <2>2 DEF NodesAsked, Asked
  <2>4. /\ IsFiniteSet(Asked') /\ Asked \subseteq Asked'
        /\ Cardinality(Asked') <= node_size /\ Cardinality(Asked') <= max_clean_size
    BY FewBefore DEF FewAsked
  <2>5. hashFind(k) = NULL /\ ~MallocFromPool
    BY <1>3 DEF OccupyEvict, MallocByEviction
  <2> QED BY <2>1, <2>3, <2>4, <2>5, NoEviction
<1>4. LoadedStay /\ (~CheckTake => DirtyStay)
  BY <1>1, <1>2, <1>3, CacheMoves, CacheKeepsLoaded
<1> QED BY <1>1, <1>4, HeldStays DEF HeldStay

\* A character comes online with the object its login found in the cache.
LEMMA OnlineStays ==
  ASSUME ManagerInv, OnlineIsCached, RepliesHeld, HeldStay, [Next]_vars, ~Crash
  PROVE  OnlineIsCached'
<1> SUFFICES ASSUME NEW k \in Keys, chars'[k] # NULL PROVE Held(k)' # NULL
  BY DEF OnlineIsCached, Online
<1>1. CASE chars[k] # NULL
  BY <1>1 DEF OnlineIsCached, Online, HeldStay
<1>2. CASE chars[k] = NULL
  <2>1. chars \in [Keys -> {NULL} \cup [Modules -> Versions]]
    BY DEF ManagerInv, TypeOK
  <2>2. ASSUME NEW j \in Keys, NEW m \in Modules, Play(j, m) PROVE FALSE
    BY <1>2, <2>1, <2>2 DEF Play
  <2>3. ASSUME NEW a \in LoadActors, Reply(a) PROVE Held(k)' # NULL
    <3>1. /\ stage[a].pc = "reply" /\ stage[a].obj # NULL
          /\ \E c : chars' = [chars EXCEPT ![Head(loads[a])] = c]
      BY <2>3 DEF Reply
    <3>2. Head(loads[a]) = k
      BY <1>2, <2>1, <3>1
    <3>3. Held(k) # NULL
      BY <3>1, <3>2 DEF RepliesHeld
    <3> QED BY <3>3 DEF HeldStay
  <2>4. ~UNCHANGED chars
    BY <1>2
  <2> QED BY <2>2, <2>3, <2>4
          DEF Next, vars, LoadCharFirst, LoadCharRefused, LoadCharJoin, MayLogin, LoadStep,
              LoadAll, LoadAllThrows, SetData, ReplyNull, ReplyThrows, CheckStep,
              CheckTake, CheckPut, CheckEnd, SavePlayerTick, SavePlayerStep, SaveModuleQuery,
              SaveModuleMiss, SaveModuleUpdate, SaveModuleDirty, DbStep, SaveModule,
              SaveModuleFails, ModuleDone, gameVars
<1> QED BY <1>1, <1>2

\* setData answers with the object that is then in the cache.
LEMMA RepliesStay ==
  ASSUME ManagerInv, FiledByKey, FiledByKey', RepliesHeld, HeldStay, [Next]_vars, ~Crash
  PROVE  RepliesHeld'
<1>1. /\ stage \in [LoadActors -> [pc : {"run", "set", "reply"}, obj : Data \cup {NULL}]]
      /\ loads \in [LoadActors -> Seq(Keys)]
      /\ node \in [Nodes -> NodeRecord]
      /\ \A a \in LoadActors : stage[a].pc # "run" => loads[a] # <<>>
  BY DEF ManagerInv, TypeOK, CacheTypeOK, LoadInv, LoadsOnce
<1> SUFFICES ASSUME NEW a \in LoadActors, NEW k \in Keys, stage'[a].pc = "reply",
                    stage'[a].obj # NULL, Head(loads'[a]) = k
             PROVE  Held(k)' = stage'[a].obj
  BY DEF RepliesHeld
<1>2. ASSUME stage'[a] = stage[a], Head(loads'[a]) = Head(loads[a])
      PROVE  Held(k)' = stage'[a].obj
  <2>1. Held(k) = stage[a].obj
    BY <1>2 DEF RepliesHeld
  <2> QED BY <1>2, <2>1 DEF HeldStay
<1>3. CASE UNCHANGED <<stage, loads>>
  BY <1>2, <1>3
<1>4. ASSUME NEW j \in Keys, LoadCharFirst(j) PROVE Held(k)' = stage'[a].obj
  <2>1. UNCHANGED stage /\ loads' = [loads EXCEPT ![LoadActor(j)] = Append(loads[LoadActor(j)], j)]
    BY <1>4 DEF LoadCharFirst, MayLogin
  <2>2. loads[a] # <<>> /\ loads[a] \in Seq(Keys)
    BY <1>1, <2>1
  <2>3. Head(Append(loads[a], j)) = Head(loads[a])
    BY <2>2
  <2>4. Head(loads'[a]) = Head(loads[a])
    BY <1>1, <2>1, <2>3
  <2> QED BY <1>2, <2>1, <2>4
<1>5. ASSUME NEW b \in LoadActors, LoadAll(b) \/ LoadAllThrows(b) \/ TaskDone(b)
      PROVE  Held(k)' = stage'[a].obj
  <2>1. /\ stage' = [stage EXCEPT ![b] = stage'[b]]
        /\ stage'[b].pc # "reply"
    <3>1. CASE LoadAll(b)
      <4>1. stage' = [stage EXCEPT ![b] = [pc |-> "set", obj |-> NewObject]]
        BY <3>1 DEF LoadAll
      <4> QED BY <1>1, <4>1
    <3>2. CASE LoadAllThrows(b)
      <4>1. stage' = [stage EXCEPT ![b] = [pc |-> "set", obj |-> NULL]]
        BY <3>2 DEF LoadAllThrows
      <4> QED BY <1>1, <4>1
    <3>3. CASE TaskDone(b)
      <4>1. stage' = [stage EXCEPT ![b] = [pc |-> "run", obj |-> NULL]]
        BY <3>3 DEF TaskDone, NoStage
      <4> QED BY <1>1, <4>1
    <3> QED BY <1>5, <3>1, <3>2, <3>3
  <2>2. a # b
    BY <2>1
  <2>3. loads'[a] = loads[a]
    BY <1>1, <1>5, <2>2 DEF LoadAll, LoadAllThrows, TaskDone
  <2> QED BY <1>1, <1>2, <2>1, <2>2, <2>3
<1>6. ASSUME NEW b \in LoadActors, SetData(b) PROVE Held(k)' = stage'[a].obj
  <2>1. UNCHANGED loads
    BY <1>6 DEF SetData
  <2>2. CASE a # b
    <3>1. stage'[a] = stage[a]
      BY <1>1, <1>6, <2>2 DEF SetData
    <3> QED BY <1>2, <2>1, <3>1
  <2>3. CASE a = b
    <3>1. stage[a].pc = "set"
      BY <1>6, <2>3 DEF SetData
    <3>2. k = Head(loads[a])
      BY <2>1
    <3>3. CASE /\ stage[a].obj # NULL
               /\ SetDataLoaded(k, stage[a].obj)
               /\ stage' = [stage EXCEPT ![a].pc = "reply"]
      <4>1. stage[a].obj \in Data /\ stage'[a].obj = stage[a].obj
        BY <1>1, <3>3
      <4>2. PICK n \in Nodes : node[n].key = k /\ node' = [node EXCEPT ![n].data = stage[a].obj]
        BY <3>3, <4>1, SetDataNodes DEF NodeFilled
      <4>3. node'[n].key = k /\ node'[n].data = stage[a].obj
        BY <1>1, <4>2 DEF NodeRecord
      <4>4. hashFind(k)' = n
        BY <4>3 DEF FiledByKey
      <4>5. Held(k)' = stage[a].obj
        BY <4>3, <4>4, CacheAssumption DEF Held
      <4> QED BY <2>1, <3>2, <4>1, <4>5
    <3>4. CASE stage[a].obj = NULL /\ stage' = [stage EXCEPT ![a].pc = "reply"]
      BY <1>1, <3>4
    <3>5. CASE stage' = [stage EXCEPT ![a] = [pc |-> "reply", obj |-> Held(k)]]
      <4>1. stage'[a].obj = Held(k) /\ Held(k) # NULL
        BY <1>1, <3>5
      <4> QED BY <2>1, <3>2, <4>1 DEF HeldStay
    <3> QED BY <1>6, <2>3, <3>2, <3>3, <3>4, <3>5 DEF SetData
  <2> QED BY <2>2, <2>3
<1> QED BY <1>3, <1>4, <1>5, <1>6
        DEF Next, vars, LoadCharRefused, LoadCharJoin, MayLogin, Play, LoadStep,
            ReplyNull, ReplyThrows, Reply, CheckStep,
            CheckTake, CheckPut, CheckEnd, SavePlayerTick, SavePlayerStep, SaveModuleQuery,
            SaveModuleMiss, SaveModuleUpdate, SaveModuleDirty, DbStep, SaveModule,
            SaveModuleFails, ModuleDone, loadVars

\* An object that is queued for saving was queued already, or is the checker's.
LEMMA SavesAre ==
  ASSUME ManagerInv, [Next]_vars, ~Crash, NEW a \in DbActors, NEW i \in DOMAIN saves'[a]
  PROVE  \/ \E j \in DOMAIN saves[a] : saves'[a][i].obj = saves[a][j].obj
         \/ checker.obj \in Data /\ saves'[a][i].obj = checker.obj
<1>1. CASE UNCHANGED saves
  BY <1>1
<1>2. CASE CheckPut
  <2>1. CASE a = DbActor(charId[checker.obj])
    BY <1>2, <2>1, CheckPutIs
  <2>2. CASE a # DbActor(charId[checker.obj])
    BY <1>2, <2>2, CheckPutIs
  <2> QED BY <2>1, <2>2
<1>3. ASSUME NEW b \in DbActors, DbStep(b)
      PROVE  \E j \in DOMAIN saves[a] : saves'[a][i].obj = saves[a][j].obj
  <2>1. saves[b] # <<>> /\ ModuleDone(b)
    BY <1>3 DEF DbStep, SaveModule, SaveModuleFails
  <2>2. saves \in [DbActors -> Seq([obj : Data, next : Modules])]
    BY DEF ManagerInv, TypeOK
  <2> QED BY <2>1, <2>2, ModuleDoneIs
<1> QED BY <1>1, <1>2, <1>3
        DEF Next, vars, LoadCharFirst, LoadCharRefused, LoadCharJoin, MayLogin, Play, LoadStep,
            LoadAll, LoadAllThrows, SetData, ReplyNull, ReplyThrows, Reply, TaskDone, CheckStep,
            CheckTake, CheckEnd, SavePlayerTick, SavePlayerStep, SaveModuleQuery,
            SaveModuleMiss, SaveModuleUpdate, SaveModuleDirty, saveVars

\* What the checker has in hand is an object of a character.
LEMMA CheckerOwned ==
  ASSUME ManagerInv, CheckerHeld, checker.obj # NULL
  PROVE  /\ checker.pc \in {"put", "update", "dirty"}
         /\ checker.obj \in Data /\ charId[checker.obj] \in Keys
         /\ Held(charId[checker.obj]) = checker.obj
         /\ checker.pc \in {"update", "dirty"} => charId[checker.obj] = checker.key
  BY DEF ManagerInv, TypeOK, CheckerRecord, DataInv, OwnData, CheckerHolds, CheckerHeld

\* The db actors save what the cache holds.
LEMMA SavesStay ==
  ASSUME ManagerInv, CheckerHeld, SavesHeld, HeldStay, [Next]_vars, ~Crash
  PROVE  SavesHeld'
<1> SUFFICES ASSUME NEW a \in DbActors, NEW k \in Keys, NEW i \in DOMAIN saves'[a], NEW d,
                    d = saves'[a][i].obj, charId'[d] = k
             PROVE  Held(k)' = d
  BY DEF SavesHeld
<1>1. charId \in [Data -> Keys \cup {NULL}]
  BY DEF ManagerInv, TypeOK
<1> DEFINE HeldNow == /\ d \in Data /\ Referenced(d)
                      /\ charId[d] \in Keys
                      /\ \A j \in Keys : charId[d] = j => Held(j) = d
<1>2. HeldNow
  <2>1. ASSUME NEW j \in DOMAIN saves[a], d = saves[a][j].obj
        PROVE  HeldNow
    <3>1. saves[a] \in Seq([obj : Data, next : Modules])
      BY DEF ManagerInv, TypeOK
    <3>2. saves[a][j] \in [obj : Data, next : Modules]
      BY <2>1, <3>1, ElementOfSeq, LenProperties
    <3> QED BY <1>1, <2>1, <3>2 DEF Referenced, SavesHeld, ManagerInv, DataInv, SavesHold
  <2>2. ASSUME checker.obj \in Data, d = checker.obj
        PROVE  HeldNow
    BY <2>2, CacheAssumption, CheckerOwned DEF Referenced, CheckerHeld
  <2> QED BY <2>1, <2>2, SavesAre
<1>3. charId[d] = k
  BY <1>2, OwnersStay
<1> QED BY <1>2, <1>3, CacheAssumption DEF HeldStay

\* save_player and DB_CHECK hold what the cache holds.
LEMMA CheckerStays ==
  ASSUME ManagerInv, FiledByKey, CheckerHeld, HeldStay, [Next]_vars, ~Crash
  PROVE  CheckerHeld'
<1>1. /\ checker \in CheckerRecord /\ CheckerHolds
      /\ charId \in [Data -> Keys \cup {NULL}]
      /\ CacheInv /\ OwnData
  BY DEF ManagerInv, TypeOK, DataInv
<1>2. CASE checker'.obj = NULL
  BY <1>2 DEF CheckerHeld
<1>3. CASE checker'.obj = checker.obj /\ checker.obj # NULL
           /\ checker'.pc \notin {"idle", "check", "query"}
  <2>1. PICK d \in Data : d = checker.obj /\ Referenced(d)
    BY <1>3, CheckerOwned DEF Referenced
  <2>2. ASSUME NEW k \in Keys, charId'[d] = k PROVE Held(k)' = d
    <3>1. charId[d] = k
      BY <2>1, <2>2, OwnersStay
    <3>2. Held(k) = d
      BY <1>3, <2>1, <3>1 DEF CheckerHeld
    <3> QED BY <1>3, <2>1, <3>2 DEF HeldStay
  <2> QED BY <1>3, <2>1, <2>2 DEF CheckerHeld
<1>4. CASE CheckTake
  <2>1. /\ dirty_list # <<>>
        /\ UNCHANGED charId
        /\ checker'.pc = "put" /\ checker'.obj = node[Head(dirty_list)].data
    BY <1>4 DEF CheckTake, GetNextDirtyNodeAndClean, gameVars, Idle
  <2>2. PICK d \in Data : d = node[Head(dirty_list)].data /\ charId[d] \in Keys
    BY <2>1, DirtyHolds
  <2>3. Head(dirty_list) \in Nodes
    BY <1>1, <2>1, TailIs DEF CacheInv, CacheTypeOK, DirtyQueuedOnce
  <2>4. PICK k \in Keys : charId[d] = k
    BY <2>2
  <2>5. node[Head(dirty_list)].key = k
    BY <1>1, <2>2, <2>3, <2>4, CacheAssumption DEF OwnData
  <2>6. Held(k) = d
    BY <2>2, <2>3, <2>5, CacheAssumption DEF FiledByKey, Held
  <2>7. Held(k)' = d
    BY <2>2, <2>6, CacheAssumption DEF HeldStay
  <2> QED BY <2>1, <2>2, <2>4, <2>7 DEF CheckerHeld
<1>5. CASE SaveModuleQuery
  <2>1. PICK k \in Keys : k = checker.key
    BY <1>1, <1>5 DEF SaveModuleQuery, CheckerHolds, CheckerRecord
  <2>2. /\ Held(k) # NULL
        /\ UNCHANGED charId
        /\ checker'.pc = "update" /\ checker'.obj = Held(k)
    BY <1>1, <1>5, <2>1 DEF SaveModuleQuery, QueryHit, Held, gameVars, CheckerRecord
  <2>3. charId[Held(k)] = k
    BY <1>1, <2>2 DEF FiledByKey, OwnData
  <2> QED BY <2>2, <2>3 DEF CheckerHeld, HeldStay
<1>6. CASE SaveModuleUpdate
  <2>1. checker'.obj = checker.obj /\ checker'.pc = "dirty" /\ checker.obj # NULL
    BY <1>1, <1>6 DEF SaveModuleUpdate, CheckerRecord, CheckerHolds
  <2> QED BY <1>3, <2>1
<1>7. CASE UNCHANGED checker
  BY <1>2, <1>3, <1>7 DEF CheckerHeld
<1>8. CASE CheckPut \/ CheckEnd \/ \E chosen \in SUBSET Online : SavePlayerTick(chosen)
  <2>1. ASSUME NEW chosen \in SUBSET Online, SavePlayerTick(chosen) PROVE checker'.obj = NULL
    BY <2>1 DEF SavePlayerTick, Idle
  <2>2. CASE CheckPut
    <3>1. checker'.obj = NULL
      BY <2>2 DEF CheckPut, Idle
    <3> QED BY <1>2, <3>1
  <2>3. CASE CheckEnd
    <3>1. checker'.obj = NULL
      BY <2>3 DEF CheckEnd, Idle
    <3> QED BY <1>2, <3>1
  <2> QED BY <1>2, <1>8, <2>1, <2>2, <2>3
<1>9. CASE SaveModuleMiss \/ SaveModuleDirty
  <2>1. checker.pc \in {"query", "dirty"} /\ NextModule
    BY <1>9 DEF SaveModuleMiss, SaveModuleDirty
  <2> QED BY <1>1, <1>2, <2>1, NextModuleIs
<1> QED BY <1>4, <1>5, <1>6, <1>7, <1>8, <1>9
        DEF Next, vars, LoadCharFirst, LoadCharRefused, LoadCharJoin, MayLogin, Play, LoadStep,
            LoadAll, LoadAllThrows, SetData, ReplyNull, ReplyThrows, Reply, TaskDone, CheckStep,
            SavePlayerStep, DbStep, SaveModule, SaveModuleFails, ModuleDone, saveVars

\* A process starts with nothing in hand.
LEMMA FitStarts ==
  ASSUME Volatile
  PROVE  FitInv
  BY CacheAssumption DEF Volatile, FitInv, OnlineIsCached, Online, RepliesHeld, CheckerHeld,
     SavesHeld, NoStage, Idle

\* So does the one after a crash.
LEMMA CrashFits ==
  ASSUME Crash
  PROVE  FitInv'
  BY CacheAssumption DEF Crash, FitInv, OnlineIsCached, Online, RepliesHeld, CheckerHeld,
     SavesHeld, NoStage, Idle

\* For any number of characters, as long as those asked for fit into the cache.
THEOREM FitInvariant == Spec => [](NodesAsked /\ (FewAsked => FitInv))
<1>1. Init => NodesAsked /\ FitInv
  BY FitStarts, CacheAssumption DEF Init, CacheInit, NodesAsked, FreshNode
<1>2. ASSUME ManagerInv, FiledByKey, FiledByKey', NodesAsked, NodesAsked',
             FewAsked => FitInv, [Next]_vars
      PROVE  (FewAsked => FitInv)'
  <2>1. CASE Crash
    BY <2>1, CrashFits
  <2>2. ASSUME ~Crash, FewAsked' PROVE FitInv'
    <3>1. LoadedStay /\ HeldStay
      BY <1>2, <2>2, StepKeepsLoaded
    <3>2. FitInv
      BY <1>2, <2>2, FewBefore
    <3>3. OnlineIsCached' /\ RepliesHeld'
      BY <1>2, <2>2, <3>1, <3>2, OnlineStays, RepliesStay DEF FitInv
    <3>4. CheckerHeld' /\ SavesHeld'
      BY <1>2, <2>2, <3>1, <3>2, CheckerStays, SavesStay DEF FitInv
    <3> QED BY <3>3, <3>4 DEF FitInv
  <2> QED BY <2>1, <2>2
<1>3. ManagerInv => FiledByKey
  BY CacheFilesByKey DEF ManagerInv, CacheHolds
<1>4. ManagerInv' => FiledByKey'
  BY <1>3, PTL
<1>5. ManagerInv /\ FiledByKey /\ NodesAsked /\ [Next]_vars => NodesAsked'
  BY NodesAskedStay
<1> QED BY <1>1, <1>2, <1>3, <1>4, <1>5, ManagerInvariant, PTL DEF Spec

\* saveModule finds each online character in the cache, as long as this process has
\* not been asked for more characters than the pool or its clean part holds.
THEOREM OnlineFound == Spec => [](FewAsked => OnlineIsCached)
<1>1. FitInv => OnlineIsCached
  BY DEF FitInv
<1> QED BY <1>1, FitInvariant, PTL

\* What is in the cache or queued is what the cache has for its character.
LEMMA LiveIsHeld ==
  ASSUME ManagerInv, FiledByKey, FitInv, NEW d \in Data, Live(d)
  PROVE  charId[d] \in Keys /\ Held(charId[d]) = d
<1>1. charId[d] \in Keys \cup {NULL} /\ d # NULL
  BY CacheAssumption DEF ManagerInv, TypeOK
<1>2. ASSUME NEW n \in Nodes, node[n].data = d
      PROVE  charId[d] \in Keys /\ Held(charId[d]) = d
  <2>1. charId[d] = node[n].key /\ node[n].key \in Keys
    BY <1>2, NodeOwner
  <2>2. hashFind(node[n].key) = n
    BY <2>1 DEF FiledByKey
  <2> QED BY <1>2, <2>1, <2>2, CacheAssumption DEF Held
<1>3. ASSUME NEW a \in DbActors, NEW i \in DOMAIN saves[a], saves[a][i].obj = d
      PROVE  charId[d] \in Keys /\ Held(charId[d]) = d
  BY <1>1, <1>3 DEF ManagerInv, DataInv, SavesHold, FitInv, SavesHeld
<1> QED BY <1>2, <1>3 DEF Live

\* Cache and save queues never hold two CharData objects of a character, so two
\* saves cannot write different versions of it.
THEOREM OneCopyHeld == Spec => [](FewAsked => OneCopy)
<1>1. ASSUME ManagerInv, FiledByKey, FitInv PROVE OneCopy
  BY <1>1, LiveIsHeld DEF OneCopy
<1>2. ManagerInv => FiledByKey
  BY CacheFilesByKey DEF ManagerInv, CacheHolds
<1> QED BY <1>1, <1>2, FitInvariant, ManagerInvariant, PTL
----------------------------------------------------------------------------
(* What carries no mark is in the database.  An object that is current, that *)
(* is the one the cache has for its character or, where it has none yet, one  *)
(* a load has read, is written by nobody else: so what it has and what the    *)
(* database has differ by marks only.                                         *)

Current(d) ==
  \E k \in Keys :
    /\ charId[d] = k
    /\ \/ Held(k) = d
       \/ Held(k) = NULL /\ \E a \in LoadActors : stage[a].obj = d

Stored(d, m) ==
  ~fresh[d][m] /\ content[d][m] # NoRows => db[charId[d]][m] = content[d][m]

StoredInv == \A d \in Data : Current(d) => \A m \in Modules : Stored(d, m)

\* So what the cache has of a character it had, or a load has read.
LEMMA HeldAre ==
  ASSUME ManagerInv, FiledByKey, FiledByKey', LoadedStay, HeldStay, [Next]_vars, ~Crash,
         NEW d \in Data, NEW k \in Keys, Held(k)' = d
  PROVE  \/ Held(k) = d
         \/ Held(k) = NULL /\ \E a \in LoadActors : stage[a].obj = d
<1>1. CASE Held(k) # NULL
  BY <1>1 DEF HeldStay
<1>2. CASE Held(k) = NULL
  <2>1. CacheInv /\ node \in [Nodes -> NodeRecord] /\ d # NULL
    BY CacheAssumption DEF ManagerInv, CacheInv, CacheTypeOK
  <2>2. PICK n \in Nodes : node'[n].key = k /\ node'[n].data = d
    BY <2>1 DEF FiledByKey
  <2>3. node[n].data = NULL
    <3> SUFFICES ASSUME node[n].data # NULL PROVE FALSE
      OBVIOUS
    <3>1. node[n].key = k /\ node[n].data = d
      BY <2>2 DEF LoadedStay
    <3>2. hashFind(k) = n /\ n # NULL
      BY <3>1, CacheAssumption DEF FiledByKey
    <3> QED BY <1>2, <2>1, <3>1, <3>2 DEF Held
  <2> QED BY <1>2, <2>1, <2>2, <2>3, DataComes
<1> QED BY <1>1, <1>2

\* A load that has read an object of a character the cache has nothing for read it
\* in an earlier step, unless it reads now.
LEMMA ReadAre ==
  ASSUME ManagerInv, FiledByKey, HeldStay, [Next]_vars, ~Crash,
         NEW d \in Data, NEW k \in Keys, charId[d] = k, Held(k)' = NULL,
         NEW a \in LoadActors, stage'[a].obj = d, ~LoadAll(a)
  PROVE  Held(k) = NULL /\ stage[a].obj = d
<1>1. Held(k) = NULL /\ d # NULL
  BY CacheAssumption DEF HeldStay
<1>2. /\ stage \in [LoadActors -> [pc : {"run", "set", "reply"}, obj : Data \cup {NULL}]]
      /\ OwnData
  BY DEF ManagerInv, TypeOK, DataInv
<1>3. CASE stage'[a] = stage[a]
  BY <1>1, <1>3
<1>4. ASSUME NEW b \in LoadActors, \E s : stage' = [stage EXCEPT ![b] = s], b # a
      PROVE  stage'[a] = stage[a]
  BY <1>2, <1>4
<1>5. ASSUME NEW b \in LoadActors, LoadAllThrows(b) \/ TaskDone(b) PROVE stage'[a] = stage[a]
  <2>1. /\ \E s : stage' = [stage EXCEPT ![b] = s]
        /\ stage'[b].obj = NULL
    BY <1>2, <1>5 DEF LoadAllThrows, TaskDone, NoStage
  <2> QED BY <1>1, <1>4, <2>1
<1>6. ASSUME NEW b \in LoadActors, LoadAll(b) PROVE stage'[a] = stage[a]
  <2>1. b # a
    BY <1>6
  <2>2. \E s : stage' = [stage EXCEPT ![b] = s]
    BY <1>6 DEF LoadAll
  <2> QED BY <1>4, <2>1, <2>2
<1>7. ASSUME NEW b \in LoadActors, SetData(b) PROVE stage[a].obj = d
  <2>1. \E s : stage' = [stage EXCEPT ![b] = s]
    BY <1>7 DEF SetData
  <2>2. CASE a # b
    BY <1>3, <1>4, <2>1, <2>2
  <2>3. CASE a = b
    <3>1. CASE stage' = [stage EXCEPT ![b].pc = "reply"]
      BY <1>2, <2>3, <3>1
    <3>2. CASE stage' = [stage EXCEPT ![b] = [pc |-> "reply", obj |-> Held(Head(loads[b]))]]
      <4>1. Held(Head(loads[b])) = d
        BY <1>2, <2>3, <3>2
      <4>2. Head(loads[b]) \in Keys
        <5>1. loads[b] \in Seq(Keys) /\ loads[b] # <<>>
          BY <1>7 DEF ManagerInv, TypeOK, LoadInv, LoadsOnce, SetData
        <5> QED BY <5>1, HeadTailProperties
      <4>3. charId[d] = Head(loads[b])
        BY <1>1, <1>2, <4>1, <4>2 DEF FiledByKey, OwnData
      <4> QED BY <1>1, <4>1, <4>3
    <3> QED BY <1>7, <3>1, <3>2 DEF SetData
  <2> QED BY <2>2, <2>3
<1>8. CASE UNCHANGED stage
  BY <1>3, <1>8
<1> QED BY <1>1, <1>3, <1>5, <1>6, <1>7, <1>8
        DEF Next, vars, LoadCharFirst, LoadCharRefused, LoadCharJoin, MayLogin, Play, LoadStep,
            ReplyNull, ReplyThrows, Reply, CheckStep,
            CheckTake, CheckPut, CheckEnd, SavePlayerTick, SavePlayerStep, SaveModuleQuery,
            SaveModuleMiss, SaveModuleUpdate, SaveModuleDirty, DbStep, SaveModule,
            SaveModuleFails, ModuleDone, loadVars
\* Only save_player and the db actors change what is stored or marked.
LEMMA StoredMoves ==
  ASSUME [Next]_vars, ~Crash, \A a \in LoadActors : ~LoadAll(a)
  PROVE  /\ UNCHANGED charId
         /\ \/ UNCHANGED <<db, content, fresh>>
            \/ SaveModuleUpdate
            \/ \E a \in DbActors : SaveModule(a)
  BY DEF Next, vars, LoadCharFirst, LoadCharRefused, LoadCharJoin, MayLogin, Play, LoadStep,
         LoadAllThrows, SetData, ReplyNull, ReplyThrows, Reply, TaskDone, CheckStep,
         CheckTake, CheckPut, CheckEnd, SavePlayerTick, SavePlayerStep, SaveModuleQuery,
         SaveModuleMiss, SaveModuleUpdate, SaveModuleDirty, DbStep, SaveModule,
         SaveModuleFails, ModuleDone, gameVars

\* save_player marks what it changes.
LEMMA UpdateMarks ==
  ASSUME ManagerInv, SaveModuleUpdate, NEW d \in Data, NEW m \in Modules, Stored(d, m)
  PROVE  Stored(d, m)'
<1>1. /\ content \in [Data -> [Modules -> Versions \cup {NoRows}]]
      /\ fresh \in [Data -> [Modules -> BOOLEAN]]
  BY DEF ManagerInv, TypeOK
<1>2. PICK h, n, v : /\ content' = [content EXCEPT ![h][n] = v]
                     /\ fresh' = [fresh EXCEPT ![h][n] = @ \/ content[h][n] # v]
                     /\ UNCHANGED <<db, charId>>
  BY DEF SaveModuleUpdate
<1>3. CASE d = h /\ m = n
  <2>1. content'[d][m] = v /\ fresh'[d][m] = (fresh[d][m] \/ content[d][m] # v)
    BY <1>1, <1>2, <1>3
  <2> QED BY <1>2, <2>1 DEF Stored
<1>4. CASE ~(d = h /\ m = n)
  <2>1. content'[d][m] = content[d][m] /\ fresh'[d][m] = fresh[d][m]
    BY <1>1, <1>2, <1>4
  <2> QED BY <1>2, <2>1 DEF Stored
<1> QED BY <1>3, <1>4

\* A db actor writes the only current object of a character.
LEMMA SaveStores ==
  ASSUME ManagerInv, SavesHeld, NEW a \in DbActors, SaveModule(a),
         NEW d \in Data, Current(d), NEW m \in Modules, Stored(d, m)
  PROVE  Stored(d, m)'
<1>1. /\ db \in [Keys -> [Modules -> Versions]]
      /\ fresh \in [Data -> [Modules -> BOOLEAN]]
      /\ charId \in [Data -> Keys \cup {NULL}]
      /\ saves \in [DbActors -> Seq([obj : Data, next : Modules])]
  BY DEF ManagerInv, TypeOK
<1>2. saves[a] # <<>> /\ ModuleDone(a)
  BY DEF SaveModule
<1>3. Head(saves[a]) = saves[a][1] /\ Head(saves[a]).obj \in Data /\ Head(saves[a]).next \in Modules
  BY <1>1, <1>2, ModuleDoneIs
<1>4. PICK h \in Data, n \in Modules : h = Head(saves[a]).obj /\ n = Head(saves[a]).next
  BY <1>3
<1>5. /\ db' = [db EXCEPT ![charId[h]][n] = IF fresh[h][n] THEN content[h][n] ELSE @]
      /\ fresh' = [fresh EXCEPT ![h][n] = FALSE]
      /\ UNCHANGED <<content, charId>>
  BY <1>4 DEF SaveModule, ModuleDone
<1>6. PICK k \in Keys : charId[h] = k /\ Held(k) = h
  <2>1. 1 \in DOMAIN saves[a]
    BY <1>1, <1>2, LenProperties, EmptySeq
  <2>2. charId[h] # NULL
    BY <1>3, <1>4, <2>1 DEF ManagerInv, DataInv, SavesHold
  <2>3. charId[h] \in Keys
    BY <1>1, <2>2
  <2> QED BY <1>3, <1>4, <2>1, <2>3 DEF SavesHeld
<1>7. d # h => charId[d] # k /\ charId[d] \in Keys
  BY <1>6, CacheAssumption DEF Current
<1>8. CASE d = h /\ m = n
  <2>1. db'[k][m] = (IF fresh[d][m] THEN content[d][m] ELSE db[k][m])
    BY <1>1, <1>5, <1>6, <1>8
  <2> QED BY <1>5, <1>6, <1>8, <2>1 DEF Stored
<1>9. CASE ~(d = h /\ m = n)
  <2>1. fresh'[d][m] = fresh[d][m]
    BY <1>1, <1>5, <1>9
  <2>2. db'[charId[d]][m] = db[charId[d]][m]
    BY <1>1, <1>5, <1>6, <1>7, <1>9
  <2> QED BY <1>5, <2>1, <2>2 DEF Stored
<1> QED BY <1>8, <1>9

\* What is read is what is stored; other objects are as they were.
LEMMA LoadReads ==
  ASSUME ManagerInv, StoredInv, NEW a \in LoadActors, LoadAll(a),
         NEW d \in Data, Current(d)', NEW m \in Modules
  PROVE  Stored(d, m)'
<1>1. /\ content \in [Data -> [Modules -> Versions \cup {NoRows}]]
      /\ fresh \in [Data -> [Modules -> BOOLEAN]]
      /\ charId \in [Data -> Keys \cup {NULL}]
      /\ stage \in [LoadActors -> [pc : {"run", "set", "reply"}, obj : Data \cup {NULL}]]
  BY DEF ManagerInv, TypeOK
<1>2. PICK h, k, failed :
        /\ content' = [content EXCEPT ![h] =
                         [n \in Modules |-> IF n \in failed THEN NoRows ELSE db[k][n]]]
        /\ fresh' = [fresh EXCEPT ![h] = [n \in Modules |-> FALSE]]
        /\ charId' = [charId EXCEPT ![h] = k]
        /\ stage' = [stage EXCEPT ![a] = [pc |-> "set", obj |-> h]]
        /\ UNCHANGED <<cacheVars, db>>
  BY DEF LoadAll
<1>3. CASE d = h
  <2>1. charId'[d] = k /\ content'[d][m] = (IF m \in failed THEN NoRows ELSE db[k][m])
    BY <1>1, <1>2, <1>3
  <2> QED BY <1>2, <2>1 DEF Stored
<1>4. CASE d # h
  <2>1. charId'[d] = charId[d] /\ content'[d] = content[d] /\ fresh'[d] = fresh[d]
    BY <1>1, <1>2, <1>4
  <2>2. \A b \in LoadActors : stage'[b].obj = d => stage[b].obj = d
    BY <1>1, <1>2, <1>4
  <2>3. \A j : Held(j)' = Held(j)
    BY <1>2 DEF cacheVars, lists, Held, hashFind
  <2>4. Current(d)
    BY <2>1, <2>2, <2>3 DEF Current
  <2> QED BY <1>2, <2>1, <2>4 DEF Stored, StoredInv
<1> QED BY <1>3, <1>4

\* Every step of a running process keeps it.
LEMMA StoredStays ==
  ASSUME ManagerInv, FiledByKey, FiledByKey', SavesHeld, StoredInv, LoadedStay, HeldStay,
         [Next]_vars, ~Crash
  PROVE  StoredInv'
<1> SUFFICES ASSUME NEW d \in Data, Current(d)', NEW m \in Modules PROVE Stored(d, m)'
  BY DEF StoredInv
<1>1. CASE \E a \in LoadActors : LoadAll(a)
  BY <1>1, LoadReads
<1>2. CASE \A a \in LoadActors : ~LoadAll(a)
  <2>1. PICK k \in Keys : /\ charId'[d] = k
                          /\ \/ Held(k)' = d
                             \/ Held(k)' = NULL /\ \E a \in LoadActors : stage'[a].obj = d
    BY DEF Current
  <2>2. charId[d] = k
    BY <1>2, <2>1, StoredMoves
  <2>3. Current(d)
    <3>1. CASE Held(k)' = d
      BY <2>2, <3>1, HeldAre DEF Current
    <3>2. ASSUME NEW a \in LoadActors, Held(k)' = NULL, stage'[a].obj = d
          PROVE  Held(k) = NULL /\ stage[a].obj = d
      BY <1>2, <2>2, <3>2, ReadAre
    <3> QED BY <2>1, <2>2, <3>1, <3>2 DEF Current
  <2>4. Stored(d, m)
    BY <2>3 DEF StoredInv
  <2>5. CASE UNCHANGED <<db, content, fresh>>
    BY <1>2, <2>4, <2>5, StoredMoves DEF Stored
  <2>6. CASE SaveModuleUpdate
    BY <2>4, <2>6, UpdateMarks
  <2>7. ASSUME NEW a \in DbActors, SaveModule(a) PROVE Stored(d, m)'
    BY <2>3, <2>4, <2>7, SaveStores
  <2> QED BY <1>2, <2>5, <2>6, <2>7, StoredMoves
<1> QED BY <1>1, <1>2

\* The invariant behind it: a current object differs from the database by marks only.
THEOREM StoredInvariant == Spec => [](FewAsked => StoredInv)
<1>1. Init => StoredInv
  BY CacheAssumption DEF Init, Volatile, StoredInv, Current
<1>2. ASSUME ManagerInv, FiledByKey, FiledByKey', NodesAsked, NodesAsked',
             FewAsked => FitInv, FewAsked => StoredInv, [Next]_vars
      PROVE  (FewAsked => StoredInv)'
  <2>1. CASE Crash
    BY <2>1, CacheAssumption DEF Crash, StoredInv, Current
  <2>2. ASSUME ~Crash, FewAsked' PROVE StoredInv'
    <3>1. LoadedStay /\ HeldStay
      BY <1>2, <2>2, StepKeepsLoaded
    <3>2. FitInv /\ StoredInv
      BY <1>2, <2>2, FewBefore
    <3> QED BY <1>2, <2>2, <3>1, <3>2, StoredStays DEF FitInv
  <2> QED BY <2>1, <2>2
<1>3. ManagerInv => FiledByKey
  BY CacheFilesByKey DEF ManagerInv, CacheHolds
<1>4. ManagerInv' => FiledByKey'
  BY <1>3, PTL
<1> QED BY <1>1, <1>2, <1>3, <1>4, ManagerInvariant, FitInvariant, PTL DEF Spec

\* What carries no mark in an object of the cache or of a save queue is in the
\* database: whatever saves fail and whenever the process ends, a change that
\* save_player has copied is lost only while it is marked.
THEOREM UnmarkedStored == Spec => [](FewAsked => UnmarkedIsStored)
<1>1. ASSUME ManagerInv, FiledByKey, FitInv, StoredInv PROVE UnmarkedIsStored
  <2>1. ASSUME NEW d \in Data, Live(d) PROVE Current(d)
    BY <1>1, <2>1, LiveIsHeld DEF Current
  <2> QED BY <1>1, <2>1 DEF StoredInv, Stored, UnmarkedIsStored
<1>2. ManagerInv => FiledByKey
  BY CacheFilesByKey DEF ManagerInv, CacheHolds
<1> QED BY <1>1, <1>2, FitInvariant, StoredInvariant, ManagerInvariant, PTL

\* An object is settled when its node is clean and neither save_player, DB_CHECK
\* nor a db actor has it to do.
Settled(n) ==
  /\ node[n].data # NULL
  /\ ~node[n].dirty
  /\ checker.obj # node[n].data
  /\ \A a \in DbActors : \A i \in DOMAIN saves[a] : saves[a][i].obj # node[n].data

SettledIsStored ==
  \A n \in Nodes, m \in Modules :
    Settled(n) => content[node[n].data][m] \in {db[node[n].key][m], NoRows}

\* The save pipeline as a whole: as long as no transaction has failed, an object
\* the pipeline is done with is in the database in every module that could be read.
THEOREM PipelineSaves ==
  Spec => [](FewAsked /\ faults.save = 0 => SettledIsStored)
<1>1. ASSUME ManagerInv, FiledByKey, FitInv, UnmarkedIsStored, UnsavedIsScheduled,
             faults.save = 0,
             NEW n \in Nodes, NEW m \in Modules, Settled(n)
      PROVE  content[node[n].data][m] \in {db[node[n].key][m], NoRows}
  <2>1. PICK d \in Data : d = node[n].data
    BY <1>1 DEF Settled, ManagerInv, TypeOK, CacheTypeOK, NodeRecord
  <2>2. charId[d] = node[n].key /\ Live(d) /\ charId[d] \in Keys
    BY <1>1, <2>1, LiveIsHeld DEF Settled, Live, ManagerInv, DataInv, OwnData
  <2>3. \A j \in Nodes : node[j].data = d => ~node[j].dirty
    <3> SUFFICES ASSUME NEW j \in Nodes, node[j].data = d PROVE j = n
      BY <1>1 DEF Settled
    <3>1. node[j].key = node[n].key
      BY <1>1, <2>1, <2>2 DEF Settled, ManagerInv, DataInv, OwnData
    <3> QED BY <1>1, <2>2, <3>1 DEF FiledByKey
  <2>4. DbActor(charId[d]) \in DbActors
    BY <2>2, ActorsAre
  <2>5. ~Scheduled(d, m)
    BY <1>1, <2>1, <2>3, <2>4 DEF Scheduled, Settled
  <2>6. ~fresh[d][m]
    BY <1>1, <2>1, <2>5, CacheAssumption DEF UnsavedIsScheduled
  <2> QED BY <1>1, <2>1, <2>2, <2>6 DEF UnmarkedIsStored
<1>2. ManagerInv /\ FiledByKey /\ FitInv /\ UnmarkedIsStored /\ UnsavedIsScheduled
        => (faults.save = 0 => SettledIsStored)
  BY <1>1 DEF SettledIsStored
<1>3. ManagerInv => FiledByKey
  BY CacheFilesByKey DEF ManagerInv, CacheHolds
<1> QED BY <1>2, <1>3, FitInvariant, UnmarkedStored, ChangesScheduled, ManagerInvariant, PTL
=============================================================================
