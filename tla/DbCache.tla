------------------------------ MODULE DbCache ------------------------------
(***************************************************************************)
(* The character cache of the logic server, db/cache/DbCache.java: a fixed *)
(* pool of nodes, a hash table with chains, one LRU ring cut by lru_mid    *)
(* into a clean and a dirty part, and a FIFO of the nodes waiting to be    *)
(* saved.  Every public method holds cache_mutex from its first to its     *)
(* last statement, so a method is one action.                              *)
(*                                                                         *)
(* A doubly linked list is the sequence of its nodes; a list header is not *)
(* an element.  The LRU ring is the two sequences between its headers:     *)
(* lru_clean from lru_head.next to lru_mid.prev, lru_dirty from            *)
(* lru_mid.next to lru_head.prev.  Node fields are the record node[n].     *)
(***************************************************************************)
EXTENDS Integers, Sequences, SequencesExt

CONSTANTS
  Keys,            \* character ids (the long keys callers pass)
  Data,            \* the CharData objects a node can hold
  NULL,            \* Java's null
  hash_size,       \* number of hash buckets
  node_size,       \* number of nodes in the pool (max_size)
  max_clean_size   \* bound on clean nodes that malloc consults

Nodes == 1..node_size
Buckets == 0..(hash_size - 1)

\* init refuses hash_size <= 0 and node_size <= 0; DataManager.start passes
\* the bound 2000, and a non-positive bound would make every occupy fail.
\* A negative key would index hash_ports out of range.
ASSUME CacheAssumption ==
  /\ Keys \subseteq Nat
  /\ hash_size \in Nat \ {0}
  /\ node_size \in Nat \ {0}
  /\ max_clean_size \in Nat \ {0}
  /\ NULL \notin Data
  /\ NULL \notin Keys
  /\ NULL \notin Nodes

VARIABLES
  hash_ports,   \* bucket -> chain of nodes, the newest first
  lru_clean,    \* clean part of the LRU ring, the least recently used first
  lru_dirty,    \* the part of the ring behind lru_mid
  dirty_list,   \* nodes waiting to be saved, the oldest first
  mem,          \* free nodes, mem_head first
  node,         \* node -> its key, data and dirty fields
  curr_size,    \* the three counters the code keeps beside the lists
  clean_size,
  dirty_size

lists == <<lru_clean, lru_dirty, dirty_list, mem>>
sizes == <<curr_size, clean_size, dirty_size>>
cacheVars == <<hash_ports, lists, node, sizes>>

----------------------------------------------------------------------------
(* The linked lists.                                                       *)

\* DLIST_DEL and DIRTY_DEL: take n out of a list it may not be in.
Unlink(s, n) ==
  IF Contains(s, n)
  THEN RemoveAt(s, CHOOSE i \in 1..Len(s) : s[i] = n)
  ELSE s

\* Fault: the key is reset to -1.
FreshNodeMinusOne == [key |-> -1, data |-> NULL, dirty |-> FALSE]

\* initCashNode.
FreshNode == [key |-> NULL, data |-> NULL, dirty |-> FALSE]

----------------------------------------------------------------------------
(* The hash table.                                                         *)

Base(k) == k % hash_size

\* The first node of k's chain with key k, or NULL.
hashFind(k) ==
  LET chain == hash_ports[Base(k)]
      match(i) == node[chain[i]].key = k
  IN  IF \E i \in DOMAIN chain : match(i)
      THEN chain[CHOOSE i \in DOMAIN chain :
                   match(i) /\ \A j \in DOMAIN chain : match(j) => i <= j]
      ELSE NULL

\* Fault: hashDel forgets to unlink.
HashWithoutNothing(ports, k) == ports

\* The table after hashDel of k, then hashAdd of n: both link at the head.
HashWithout(ports, k) ==
  [ports EXCEPT ![Base(k)] = Unlink(@, hashFind(k))]
HashWith(ports, k, n) ==
  [ports EXCEPT ![Base(k)] = Cons(n, @)]

----------------------------------------------------------------------------
(* Allocation: malloc takes a free node while the clean part is below its  *)
(* bound, else it recycles the least recently used clean node, else fails. *)

\* Fault: the bound is applied to all nodes in use.
MallocFromPoolByCurrSize == mem # <<>> /\ curr_size < max_clean_size

MallocFromPool == mem # <<>> /\ clean_size < max_clean_size
MallocByEviction == ~MallocFromPool /\ lru_clean # <<>>
MallocFails == ~MallocFromPool /\ lru_clean = <<>>

\* Fault: the node in use goes to the end that is evicted first.
LruSortCleanFirst(n) ==
  /\ lru_clean' = Cons(n, Unlink(lru_clean, n))
  /\ lru_dirty' = Unlink(lru_dirty, n)

\* lruSortClean and lruSortDirty move n, wherever it is, to the tail of a part.
LruSortClean(n) ==
  /\ lru_clean' = Append(Unlink(lru_clean, n), n)
  /\ lru_dirty' = Unlink(lru_dirty, n)
LruSortDirty(n) ==
  /\ lru_clean' = Unlink(lru_clean, n)
  /\ lru_dirty' = Append(Unlink(lru_dirty, n), n)

----------------------------------------------------------------------------
(* The public methods.                                                     *)

CacheInit ==
  /\ hash_ports = [b \in Buckets |-> <<>>]
  /\ lru_clean = <<>>
  /\ lru_dirty = <<>>
  /\ dirty_list = <<>>
  /\ mem = [i \in 1..node_size |-> (node_size + 1) - i]
  /\ node = [n \in Nodes |-> FreshNode]
  /\ curr_size = 0
  /\ clean_size = 0
  /\ dirty_size = 0

\* occupy of an absent key with a node from the free list.
OccupyFree(k) ==
  LET n == Head(mem) IN
  /\ hashFind(k) = NULL
  /\ MallocFromPool
  /\ mem' = Tail(mem)
  /\ node' = [node EXCEPT ![n] = [FreshNode EXCEPT !.key = k]]
  /\ hash_ports' = HashWith(hash_ports, k, n)
  /\ lru_dirty' = Append(lru_dirty, n)
  /\ curr_size' = curr_size + 1
  /\ dirty_size' = dirty_size + 1
  /\ UNCHANGED <<lru_clean, dirty_list, clean_size>>

\* Fault: the oldest unsaved node is recycled before the clean ones.
OccupyEvictUnsaved(k) ==
  LET n == Head(dirty_list \o lru_clean) IN
  /\ hashFind(k) = NULL
  /\ MallocByEviction
  /\ node' = [node EXCEPT ![n] = [FreshNode EXCEPT !.key = k]]
  /\ hash_ports' = HashWith(HashWithout(hash_ports, node[n].key), k, n)
  /\ lru_clean' = Unlink(lru_clean, n)
  /\ lru_dirty' = Append(Unlink(lru_dirty, n), n)
  /\ dirty_list' = Unlink(dirty_list, n)
  /\ clean_size' = IF node[n].dirty THEN clean_size ELSE clean_size - 1
  /\ dirty_size' = IF node[n].dirty THEN dirty_size ELSE dirty_size + 1
  /\ UNCHANGED <<mem, curr_size>>

\* Fault: the recycled node keeps the object of its former character.
OccupyEvictKeepsData(k) ==
  LET n == Head(lru_clean) IN
  /\ hashFind(k) = NULL
  /\ MallocByEviction
  /\ node' = [node EXCEPT ![n].key = k]
  /\ hash_ports' = HashWith(HashWithout(hash_ports, node[n].key), k, n)
  /\ lru_clean' = Tail(lru_clean)
  /\ lru_dirty' = Append(lru_dirty, n)
  /\ clean_size' = clean_size - 1
  /\ dirty_size' = dirty_size + 1
  /\ UNCHANGED <<dirty_list, mem, curr_size>>

\* occupy of an absent key that evicts the least recently used clean node.
OccupyEvict(k) ==
  LET n == Head(lru_clean) IN
  /\ hashFind(k) = NULL
  /\ MallocByEviction
  /\ node' = [node EXCEPT ![n] = [FreshNode EXCEPT !.key = k]]
  /\ hash_ports' = HashWith(HashWithout(hash_ports, node[n].key), k, n)
  /\ lru_clean' = Tail(lru_clean)
  /\ lru_dirty' = Append(lru_dirty, n)
  /\ clean_size' = clean_size - 1
  /\ dirty_size' = dirty_size + 1
  /\ UNCHANGED <<dirty_list, mem, curr_size>>

\* occupy of a key that is present (TRUE), or that finds no node (FALSE).
OccupyPresent(k) == hashFind(k) # NULL /\ UNCHANGED cacheVars
OccupyFail(k) == hashFind(k) = NULL /\ MallocFails /\ UNCHANGED cacheVars

\* query: a hit on a clean node refreshes its place in the LRU.
QueryHit(k) ==
  LET n == hashFind(k) IN
  /\ n # NULL
  /\ node[n].data # NULL
  /\ IF node[n].dirty THEN UNCHANGED <<lru_clean, lru_dirty>>
                      ELSE LruSortClean(n)
  /\ UNCHANGED <<hash_ports, dirty_list, mem, node, sizes>>

QueryMiss(k) ==
  /\ hashFind(k) # NULL => node[hashFind(k)].data = NULL
  /\ UNCHANGED cacheVars

\* Fault: an object that is there already is replaced.
SetDataReplaces(k, d) ==
  LET n == hashFind(k) IN
  /\ n # NULL
  /\ node' = [node EXCEPT ![n].data = d]
  /\ IF node[n].data = NULL
     THEN /\ LruSortClean(n)
          /\ dirty_size' = dirty_size - 1
          /\ clean_size' = clean_size + 1
     ELSE UNCHANGED <<lru_clean, lru_dirty, dirty_size, clean_size>>
  /\ UNCHANGED <<hash_ports, dirty_list, mem, curr_size>>

\* setData with the loaded object: the reserved node becomes clean.
SetDataLoaded(k, d) ==
  LET n == hashFind(k) IN
  /\ n # NULL
  /\ node[n].data = NULL
  /\ node' = [node EXCEPT ![n].data = d]
  /\ LruSortClean(n)
  /\ dirty_size' = dirty_size - 1
  /\ clean_size' = clean_size + 1
  /\ UNCHANGED <<hash_ports, dirty_list, mem, curr_size>>

\* Fault: the node is not put back into the pool.
SetDataEmptyLeaks(k) ==
  LET n == hashFind(k) IN
  /\ n # NULL
  /\ node[n].data = NULL
  /\ hash_ports' = HashWithout(hash_ports, k)
  /\ lru_clean' = Unlink(lru_clean, n)
  /\ lru_dirty' = Unlink(lru_dirty, n)
  /\ node' = [node EXCEPT ![n] = FreshNode]
  /\ curr_size' = curr_size - 1
  /\ dirty_size' = dirty_size - 1
  /\ UNCHANGED <<mem, dirty_list, clean_size>>

\* setData with null: the load failed and the node goes back to the pool.
SetDataEmpty(k) ==
  LET n == hashFind(k) IN
  /\ n # NULL
  /\ node[n].data = NULL
  /\ hash_ports' = HashWithout(hash_ports, k)
  /\ lru_clean' = Unlink(lru_clean, n)
  /\ lru_dirty' = Unlink(lru_dirty, n)
  /\ node' = [node EXCEPT ![n] = FreshNode]
  /\ mem' = Cons(n, mem)
  /\ curr_size' = curr_size - 1
  /\ dirty_size' = dirty_size - 1
  /\ UNCHANGED <<dirty_list, clean_size>>

\* setData that finds no node, or data already there: nothing is written.
SetDataIgnored(k) ==
  /\ hashFind(k) # NULL => node[hashFind(k)].data # NULL
  /\ UNCHANGED cacheVars

\* Fault: clean_size is not adjusted.
SetDirtyMiscounts(k) ==
  LET n == hashFind(k) IN
  /\ n # NULL
  /\ node[n].data # NULL
  /\ ~node[n].dirty
  /\ node' = [node EXCEPT ![n].dirty = TRUE]
  /\ dirty_list' = Append(dirty_list, n)
  /\ LruSortDirty(n)
  /\ dirty_size' = dirty_size + 1
  /\ UNCHANGED <<hash_ports, mem, curr_size, clean_size>>

\* setDirty of a clean node.
SetDirty(k) ==
  LET n == hashFind(k) IN
  /\ n # NULL
  /\ node[n].data # NULL
  /\ ~node[n].dirty
  /\ node' = [node EXCEPT ![n].dirty = TRUE]
  /\ dirty_list' = Append(dirty_list, n)
  /\ LruSortDirty(n)
  /\ dirty_size' = dirty_size + 1
  /\ clean_size' = clean_size - 1
  /\ UNCHANGED <<hash_ports, mem, curr_size>>

\* setDirty that returns without a change: no node, no data, or dirty already.
SetDirtyRefused(k) ==
  LET n == hashFind(k) IN
  /\ n # NULL /\ node[n].data # NULL => node[n].dirty
  /\ UNCHANGED cacheVars

\* Fault: the dirty flag is left set.
GetNextDirtyNodeStaysDirty ==
  LET n == Head(dirty_list) IN
  /\ dirty_list # <<>>
  /\ dirty_list' = Unlink(dirty_list, n)
  /\ LruSortClean(n)
  /\ dirty_size' = dirty_size - 1
  /\ clean_size' = clean_size + 1
  /\ UNCHANGED <<hash_ports, mem, node, curr_size>>

\* getNextDirtyNodeAndClean: the oldest dirty node is handed out as clean.
GetNextDirtyNodeAndClean ==
  LET n == Head(dirty_list) IN
  /\ dirty_list # <<>>
  /\ dirty_list' = Unlink(dirty_list, n)
  /\ node' = [node EXCEPT ![n].dirty = FALSE]
  /\ LruSortClean(n)
  /\ dirty_size' = dirty_size - 1
  /\ clean_size' = clean_size + 1
  /\ UNCHANGED <<hash_ports, mem, curr_size>>

CacheNext ==
  \/ \E k \in Keys : \/ OccupyFree(k)
                     \/ OccupyEvict(k)
                     \/ OccupyPresent(k)
                     \/ OccupyFail(k)
                     \/ QueryHit(k)
                     \/ QueryMiss(k)
                     \/ SetDataEmpty(k)
                     \/ SetDataIgnored(k)
                     \/ SetDirty(k)
                     \/ SetDirtyRefused(k)
                     \/ \E d \in Data : SetDataLoaded(k, d)
  \/ GetNextDirtyNodeAndClean

CacheSpec == CacheInit /\ [][CacheNext]_cacheVars

----------------------------------------------------------------------------
(* Properties.                                                             *)

NodeRecord == [key : Keys \cup {NULL}, data : Data \cup {NULL}, dirty : BOOLEAN]

\* Every variable holds a value of its Java type.
CacheTypeOK ==
  /\ hash_ports \in [Buckets -> Seq(Nodes)]
  /\ lru_clean \in Seq(Nodes)
  /\ lru_dirty \in Seq(Nodes)
  /\ dirty_list \in Seq(Nodes)
  /\ mem \in Seq(Nodes)
  /\ node \in [Nodes -> NodeRecord]
  /\ curr_size \in Int
  /\ clean_size \in Int
  /\ dirty_size \in Int

InLru(n) == Contains(lru_clean, n) \/ Contains(lru_dirty, n)

\* A node is in exactly one of the free list, the clean and the dirty part of
\* the LRU, once, and no node is ever lost: malloc, release and the two
\* lruSort moves neither leak a node nor link it twice.
PoolPartition ==
  /\ IsInjective(mem)
  /\ IsInjective(lru_clean)
  /\ IsInjective(lru_dirty)
  /\ \A n \in Nodes : /\ Contains(mem, n) <=> ~InLru(n)
                      /\ ~(Contains(lru_clean, n) /\ Contains(lru_dirty, n))
  /\ Len(mem) + Len(lru_clean) + Len(lru_dirty) = node_size

\* The counters, which malloc's choice depends on and which are adjusted by
\* hand in six methods, are the lengths of the lists they stand for.
SizesExact ==
  /\ clean_size = Len(lru_clean)
  /\ dirty_size = Len(lru_dirty)
  /\ curr_size = clean_size + dirty_size

\* A node is dirty exactly when it is queued for saving, once; the clean part
\* holds only loaded nodes with nothing to save, so eviction loses no change.
DirtyQueuedOnce ==
  /\ IsInjective(dirty_list)
  /\ \A n \in Nodes :
       /\ Contains(dirty_list, n) <=> node[n].dirty
       /\ Contains(lru_clean, n) => node[n].data # NULL /\ ~node[n].dirty
       /\ Contains(lru_dirty, n) => (node[n].data # NULL <=> node[n].dirty)
       /\ Contains(mem, n) => ~node[n].dirty

\* The hash table holds the nodes of the LRU and no other, each in the bucket
\* of its key, and no two with the same key: hashAdd relies on it ("there is
\* certainly no equal key") and hashDel removes one match only.
HashExact ==
  /\ \A b \in Buckets : IsInjective(hash_ports[b])
  /\ \A b \in Buckets, n \in Nodes :
       Contains(hash_ports[b], n) <=> /\ InLru(n)
                                /\ node[n].key # NULL
                                /\ b = Base(node[n].key)
  /\ \A n \in Nodes : InLru(n) => node[n].key # NULL
  /\ \A m, n \in Nodes :
       InLru(m) /\ InLru(n) /\ node[m].key = node[n].key => m = n

\* occupy refuses a key only when every node of the pool is reserved for a
\* load or waiting to be saved: free nodes beyond the clean bound are reached
\* because a clean node is then there to evict.
OccupyFailsOnlyWhenFull == MallocFails => Len(lru_dirty) = node_size

\* The data of a key as a caller sees it.
Reserved(k) == hashFind(k) # NULL /\ node[hashFind(k)].data = NULL
Unsaved(k) == hashFind(k) # NULL /\ node[hashFind(k)].dirty
Held(k) == IF hashFind(k) = NULL THEN NULL ELSE node[hashFind(k)].data

\* A step never takes away a node that must not go: an unsaved object stays
\* cached until it has been handed out for saving, and even then for that
\* step; a node reserved for a load goes only when that load reports failure.
PinnedSurvives ==
  [][\A k \in Keys :
       /\ Unsaved(k) => Held(k)' = Held(k)
       /\ Reserved(k) => \/ hashFind(k)' # NULL
                         \/ SetDataEmpty(k)]_cacheVars
============================================================================
