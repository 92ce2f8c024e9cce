--------------------------- MODULE DbCacheProofs ---------------------------
(* Proofs about DbCache: its invariants, what a step may not do, and that it *)
(* implements WriteBackCache.                                              *)
EXTENDS DbCacheRefinement, ListLemmas, FiniteSetTheorems

\* Unlinking from a list without repetitions removes exactly that node.
LEMMA UnlinkIs ==
  ASSUME NEW S, NEW s \in Seq(S), NEW n, IsInjective(s)
  PROVE  /\ Unlink(s, n) \in Seq(S)
         /\ IsInjective(Unlink(s, n))
         /\ \A m : Contains(Unlink(s, n), m) <=> Contains(s, m) /\ m # n
         /\ Len(Unlink(s, n)) = IF Contains(s, n) THEN Len(s) - 1 ELSE Len(s)
<1>1. CASE ~Contains(s, n)
  BY <1>1 DEF Unlink, Contains
<1>2. CASE Contains(s, n)
  <2> DEFINE p == CHOOSE i \in 1..Len(s) : s[i] = n
             u == RemoveAt(s, p)
  <2>1. p \in 1..Len(s) /\ s[p] = n
    BY <1>2 DEF Contains
  <2>2. Unlink(s, n) = u
    BY <1>2 DEF Unlink
  <2> HIDE DEF p
  <2>3. /\ u \in Seq(S)
        /\ Len(u) = Len(s) - 1
        /\ \A j \in 1..(Len(s) - 1) : u[j] = IF j < p THEN s[j] ELSE s[j + 1]
    BY <2>1, RemoveAtIs
  <2> HIDE DEF u
  <2>4. DOMAIN u = 1..(Len(s) - 1) /\ DOMAIN s = 1..Len(s) /\ Len(s) \in Nat
    BY <2>3, LenProperties
  <2> DEFINE from(j) == IF j < p THEN j ELSE j + 1
  <2>5. \A j \in 1..(Len(s) - 1) : from(j) \in 1..Len(s) /\ from(j) # p /\ u[j] = s[from(j)]
    BY <2>1, <2>3, <2>4
  <2>6. \A j, k \in 1..(Len(s) - 1) : from(j) = from(k) => j = k
    BY <2>1, <2>4
  <2>7. \A i, j \in 1..Len(s) : s[i] = s[j] => i = j
    BY <2>4 DEF IsInjective
  <2> HIDE DEF from
  <2>8. IsInjective(u)
    <3> SUFFICES ASSUME NEW j \in 1..(Len(s) - 1), NEW k \in 1..(Len(s) - 1), u[j] = u[k]
                 PROVE  j = k
      BY <2>4 DEF IsInjective
    <3>1. from(j) = from(k)
      BY <2>5, <2>7
    <3> QED BY <3>1, <2>6
  <2>9. ASSUME NEW m, Contains(u, m) PROVE Contains(s, m) /\ m # n
    <3>1. PICK j \in 1..(Len(s) - 1) : u[j] = m
      BY <2>3, <2>9 DEF Contains
    <3>2. s[from(j)] = m /\ from(j) \in 1..Len(s) /\ from(j) # p
      BY <3>1, <2>5
    <3>3. m # n
      BY <3>2, <2>1, <2>7
    <3> QED BY <3>2, <3>3 DEF Contains
  <2>10. ASSUME NEW m, Contains(s, m), m # n PROVE Contains(u, m)
    <3>1. PICK i \in 1..Len(s) : s[i] = m
      BY <2>10 DEF Contains
    <3>2. CASE i < p
      BY <3>1, <3>2, <2>1, <2>3, <2>4 DEF Contains
    <3>3. CASE i > p
      <4>1. (i - 1) \in 1..(Len(s) - 1) /\ ~(i - 1 < p) /\ (i - 1) + 1 = i
        BY <3>3, <2>1, <2>4
      <4>2. u[i - 1] = m
        BY <4>1, <3>1, <2>3
      <4> QED BY <4>1, <4>2, <2>3 DEF Contains
    <3> QED BY <3>1, <3>2, <3>3, <2>1, <2>4, <2>10
  <2> QED BY <2>2, <2>3, <2>8, <2>9, <2>10, <1>2
<1> QED BY <1>1, <1>2

----------------------------------------------------------------------------
(* The inductive invariant: the five facts support one another.  The       *)
(* counters are right because a method finds its node in the list it       *)
(* counts it out of (DirtyQueuedOnce); it finds the right node because the *)
(* hash table mirrors the LRU (HashExact); and a node is linked into one   *)
(* list only because it was in one list only (PoolPartition).              *)
CacheInv ==
  /\ CacheTypeOK
  /\ PoolPartition
  /\ SizesExact
  /\ DirtyQueuedOnce
  /\ HashExact

\* A key hashes to a bucket of the table.
LEMMA BaseIs == \A k \in Keys : Base(k) \in Buckets
<1> SUFFICES ASSUME NEW k \in Keys PROVE Base(k) \in Buckets
  OBVIOUS
<1>1. k \in Int /\ hash_size \in Int /\ hash_size > 0
  BY CacheAssumption
<1>2. k % hash_size \in 0..(hash_size - 1)
  BY <1>1
<1> QED BY <1>2 DEF Base, Buckets

\* hashFind returns the one node in the LRU with that key, if there is one.
LEMMA HashFindIs ==
  ASSUME CacheInv, NEW k \in Keys
  PROVE  /\ hashFind(k) # NULL => /\ hashFind(k) \in Nodes
                                  /\ node[hashFind(k)].key = k
                                  /\ InLru(hashFind(k))
         /\ hashFind(k) = NULL => \A n \in Nodes : InLru(n) => node[n].key # k
<1> DEFINE chain == hash_ports[Base(k)]
           match(i) == node[chain[i]].key = k
           first == CHOOSE i \in DOMAIN chain :
                      match(i) /\ \A j \in DOMAIN chain : match(j) => i <= j
<1>1. /\ Base(k) \in Buckets
      /\ chain \in Seq(Nodes)
      /\ DOMAIN chain = 1..Len(chain)
      /\ Len(chain) \in Nat
      /\ \A i \in 1..Len(chain) : chain[i] \in Nodes
      /\ IsInjective(chain)
  BY BaseIs, LenProperties, ElementOfSeq DEF CacheInv, CacheTypeOK, HashExact
<1>2. \A i \in 1..Len(chain) : InLru(chain[i])
  BY <1>1 DEF CacheInv, HashExact, Contains
<1>3. k # NULL /\ \A n \in Nodes : n # NULL
  BY CacheAssumption
<1>4. CASE \E i \in DOMAIN chain : match(i)
  <2>1. PICK i \in DOMAIN chain : match(i)
    BY <1>4
  <2>2. \A j \in DOMAIN chain : match(j) => i = j
    BY <2>1, <1>1, <1>2 DEF CacheInv, HashExact, IsInjective
  <2>3. match(i) /\ \A j \in DOMAIN chain : match(j) => i <= j
    BY <2>1, <2>2, <1>1
  <2>4. first \in DOMAIN chain /\ match(first)
    BY <2>3
  <2>5. hashFind(k) = chain[first]
    BY <1>4 DEF hashFind
  <2> HIDE DEF first
  <2> QED BY <2>4, <2>5, <1>1, <1>2, <1>3
<1>5. CASE ~\E i \in DOMAIN chain : match(i)
  <2>1. hashFind(k) = NULL
    BY <1>5 DEF hashFind
  <2>2. ASSUME NEW n \in Nodes, InLru(n), node[n].key = k PROVE FALSE
    <3>1. Contains(chain, n)
      BY <2>2, <1>1, <1>3 DEF CacheInv, HashExact
    <3> QED BY <3>1, <2>2, <1>1, <1>5 DEF Contains
  <2> QED BY <2>1, <2>2
<1> QED BY <1>4, <1>5

\* Conversely the node of a key in the LRU is the one hashFind returns.
LEMMA HashFindOf ==
  ASSUME CacheInv, NEW n \in Nodes, InLru(n)
  PROVE  node[n].key \in Keys /\ hashFind(node[n].key) = n
<1>1. node[n].key \in Keys
  BY DEF CacheInv, CacheTypeOK, HashExact, NodeRecord
<1> QED BY <1>1, HashFindIs DEF CacheInv, HashExact

\* What the two LRU moves do to the ring.
LEMMA LruSortCleanIs ==
  ASSUME CacheInv, NEW n \in Nodes, LruSortClean(n)
  PROVE  /\ lru_clean' \in Seq(Nodes) /\ lru_dirty' \in Seq(Nodes)
         /\ IsInjective(lru_clean') /\ IsInjective(lru_dirty')
         /\ \A m : Contains(lru_clean', m) <=> Contains(lru_clean, m) \/ m = n
         /\ \A m : Contains(lru_dirty', m) <=> Contains(lru_dirty, m) /\ m # n
         /\ Len(lru_clean') = IF Contains(lru_clean, n) THEN Len(lru_clean)
                                                        ELSE Len(lru_clean) + 1
         /\ Len(lru_dirty') = IF Contains(lru_dirty, n) THEN Len(lru_dirty) - 1
                                                        ELSE Len(lru_dirty)
<1> DEFINE u == Unlink(lru_clean, n)
<1>1. /\ lru_clean \in Seq(Nodes) /\ lru_dirty \in Seq(Nodes)
      /\ IsInjective(lru_clean) /\ IsInjective(lru_dirty)
      /\ Len(lru_clean) \in Nat
  BY LenProperties DEF CacheInv, CacheTypeOK, PoolPartition
<1>2. /\ u \in Seq(Nodes) /\ IsInjective(u)
      /\ \A m : Contains(u, m) <=> Contains(lru_clean, m) /\ m # n
      /\ Len(u) = IF Contains(lru_clean, n) THEN Len(lru_clean) - 1 ELSE Len(lru_clean)
  BY <1>1, UnlinkIs
<1> HIDE DEF u
<1>3. /\ Append(u, n) \in Seq(Nodes) /\ IsInjective(Append(u, n))
      /\ \A m : Contains(Append(u, n), m) <=> Contains(u, m) \/ m = n
      /\ Len(Append(u, n)) = Len(u) + 1
  BY <1>2, AppendIs
<1>4. lru_clean' = Append(u, n) /\ lru_dirty' = Unlink(lru_dirty, n)
  BY DEF LruSortClean, u
<1>5. /\ lru_dirty' \in Seq(Nodes) /\ IsInjective(lru_dirty')
      /\ \A m : Contains(lru_dirty', m) <=> Contains(lru_dirty, m) /\ m # n
      /\ Len(lru_dirty') = IF Contains(lru_dirty, n) THEN Len(lru_dirty) - 1
                                                     ELSE Len(lru_dirty)
  BY <1>1, <1>4, UnlinkIs
<1> QED BY <1>1, <1>2, <1>3, <1>4, <1>5

\* lruSortDirty, likewise.
LEMMA LruSortDirtyIs ==
  ASSUME CacheInv, NEW n \in Nodes, LruSortDirty(n)
  PROVE  /\ lru_clean' \in Seq(Nodes) /\ lru_dirty' \in Seq(Nodes)
         /\ IsInjective(lru_clean') /\ IsInjective(lru_dirty')
         /\ \A m : Contains(lru_clean', m) <=> Contains(lru_clean, m) /\ m # n
         /\ \A m : Contains(lru_dirty', m) <=> Contains(lru_dirty, m) \/ m = n
         /\ Len(lru_clean') = IF Contains(lru_clean, n) THEN Len(lru_clean) - 1
                                                        ELSE Len(lru_clean)
         /\ Len(lru_dirty') = IF Contains(lru_dirty, n) THEN Len(lru_dirty)
                                                        ELSE Len(lru_dirty) + 1
<1> DEFINE u == Unlink(lru_dirty, n)
<1>1. /\ lru_clean \in Seq(Nodes) /\ lru_dirty \in Seq(Nodes)
      /\ IsInjective(lru_clean) /\ IsInjective(lru_dirty)
      /\ Len(lru_dirty) \in Nat
  BY LenProperties DEF CacheInv, CacheTypeOK, PoolPartition
<1>2. /\ u \in Seq(Nodes) /\ IsInjective(u)
      /\ \A m : Contains(u, m) <=> Contains(lru_dirty, m) /\ m # n
      /\ Len(u) = IF Contains(lru_dirty, n) THEN Len(lru_dirty) - 1 ELSE Len(lru_dirty)
  BY <1>1, UnlinkIs
<1> HIDE DEF u
<1>3. /\ Append(u, n) \in Seq(Nodes) /\ IsInjective(Append(u, n))
      /\ \A m : Contains(Append(u, n), m) <=> Contains(u, m) \/ m = n
      /\ Len(Append(u, n)) = Len(u) + 1
  BY <1>2, AppendIs
<1>4. lru_dirty' = Append(u, n) /\ lru_clean' = Unlink(lru_clean, n)
  BY DEF LruSortDirty, u
<1>5. /\ lru_clean' \in Seq(Nodes) /\ IsInjective(lru_clean')
      /\ \A m : Contains(lru_clean', m) <=> Contains(lru_clean, m) /\ m # n
      /\ Len(lru_clean') = IF Contains(lru_clean, n) THEN Len(lru_clean) - 1
                                                     ELSE Len(lru_clean)
  BY <1>1, <1>4, UnlinkIs
<1> QED BY <1>1, <1>2, <1>3, <1>4, <1>5

\* A step that moves nodes inside the LRU and keeps their keys leaves the
\* hash table exact.
LEMMA KeepsHash ==
  ASSUME CacheInv, UNCHANGED hash_ports,
         \A m \in Nodes : InLru(m)' <=> InLru(m),
         \A m \in Nodes : node'[m].key = node[m].key
  PROVE  HashExact'
<1> USE DEF CacheInv, HashExact
<1>1. (\A b \in Buckets : IsInjective(hash_ports[b]))'
  OBVIOUS
<1>2. (\A b \in Buckets, n \in Nodes :
         Contains(hash_ports[b], n) <=> /\ InLru(n)
                                        /\ node[n].key # NULL
                                        /\ b = Base(node[n].key))'
  BY DEF Base
<1>3. (\A n \in Nodes : InLru(n) => node[n].key # NULL)'
  OBVIOUS
<1>4. (\A m, n \in Nodes :
         InLru(m) /\ InLru(n) /\ node[m].key = node[n].key => m = n)'
  OBVIOUS
<1> QED BY <1>1, <1>2, <1>3, <1>4

\* A query hit only reorders the clean part.
LEMMA QueryHitKeeps ==
  ASSUME CacheInv, NEW k \in Keys, QueryHit(k)
  PROVE  CacheInv'
<1> DEFINE n == hashFind(k)
<1>1. /\ n \in Nodes /\ InLru(n) /\ node[n].data # NULL
      /\ UNCHANGED <<hash_ports, dirty_list, mem, node, sizes>>
  BY HashFindIs DEF QueryHit
<1> HIDE DEF n
<1>2. CASE UNCHANGED <<lru_clean, lru_dirty>>
  <2>1. \A m \in Nodes : InLru(m)' <=> InLru(m)
    BY <1>2 DEF InLru
  <2>2. HashExact'
    BY <1>1, <2>1, KeepsHash
  <2> QED BY <1>1, <1>2, <2>1, <2>2
       DEF CacheInv, CacheTypeOK, PoolPartition, SizesExact, DirtyQueuedOnce, sizes
<1>3. CASE ~node[n].dirty /\ LruSortClean(n)
  <2>1. Contains(lru_clean, n) /\ ~Contains(lru_dirty, n)
    BY <1>1, <1>3 DEF CacheInv, DirtyQueuedOnce, PoolPartition, InLru
  <2>2. /\ lru_clean' \in Seq(Nodes) /\ lru_dirty' \in Seq(Nodes)
        /\ IsInjective(lru_clean') /\ IsInjective(lru_dirty')
        /\ \A m : Contains(lru_clean', m) <=> Contains(lru_clean, m) \/ m = n
        /\ \A m : Contains(lru_dirty', m) <=> Contains(lru_dirty, m) /\ m # n
        /\ Len(lru_clean') = Len(lru_clean)
        /\ Len(lru_dirty') = Len(lru_dirty)
    BY <1>1, <1>3, <2>1, LruSortCleanIs
  <2>3. \A m \in Nodes : InLru(m)' <=> InLru(m)
    BY <2>1, <2>2 DEF InLru
  <2>4. HashExact'
    BY <1>1, <2>3, KeepsHash
  <2>5. CacheTypeOK' /\ SizesExact'
    BY <1>1, <2>2 DEF CacheInv, CacheTypeOK, SizesExact, sizes
  <2>6. PoolPartition'
    BY <1>1, <2>1, <2>2, <2>3 DEF CacheInv, PoolPartition
  <2>7. DirtyQueuedOnce'
    BY <1>1, <2>1, <2>2 DEF CacheInv, DirtyQueuedOnce
  <2> QED BY <2>4, <2>5, <2>6, <2>7 DEF CacheInv
<1> QED BY <1>2, <1>3 DEF QueryHit, n

\* A loaded object moves its node from the dirty to the clean part.
LEMMA SetDataLoadedKeeps ==
  ASSUME CacheInv, NEW k \in Keys, NEW d \in Data, SetDataLoaded(k, d)
  PROVE  CacheInv'
<1> DEFINE n == hashFind(k)
<1>1. /\ n \in Nodes /\ InLru(n) /\ node[n].data = NULL
      /\ node' = [node EXCEPT ![n].data = d]
      /\ LruSortClean(n)
      /\ dirty_size' = dirty_size - 1
      /\ clean_size' = clean_size + 1
      /\ UNCHANGED <<hash_ports, dirty_list, mem, curr_size>>
  BY HashFindIs DEF SetDataLoaded
<1> HIDE DEF n
<1>2. ~Contains(lru_clean, n) /\ Contains(lru_dirty, n)
  BY <1>1 DEF CacheInv, DirtyQueuedOnce, InLru
<1>3. /\ lru_clean' \in Seq(Nodes) /\ lru_dirty' \in Seq(Nodes)
      /\ IsInjective(lru_clean') /\ IsInjective(lru_dirty')
      /\ \A m : Contains(lru_clean', m) <=> Contains(lru_clean, m) \/ m = n
      /\ \A m : Contains(lru_dirty', m) <=> Contains(lru_dirty, m) /\ m # n
      /\ Len(lru_clean') = Len(lru_clean) + 1
      /\ Len(lru_dirty') = Len(lru_dirty) - 1
  BY <1>1, <1>2, LruSortCleanIs
<1>4. \A m \in Nodes : InLru(m)' <=> InLru(m)
  BY <1>2, <1>3 DEF InLru
<1>5. /\ node' \in [Nodes -> NodeRecord]
      /\ \A m \in Nodes : /\ node'[m].key = node[m].key
                          /\ node'[m].dirty = node[m].dirty
                          /\ node'[m].data = IF m = n THEN d ELSE node[m].data
  BY <1>1 DEF CacheInv, CacheTypeOK, NodeRecord
<1>6. HashExact'
  BY <1>1, <1>4, <1>5, KeepsHash
<1>7. CacheTypeOK'
  BY <1>1, <1>3, <1>5 DEF CacheInv, CacheTypeOK
<1>8. SizesExact'
  BY <1>1, <1>3, LenProperties DEF CacheInv, CacheTypeOK, SizesExact
<1>9. PoolPartition'
  BY <1>1, <1>2, <1>3, <1>4, LenProperties DEF CacheInv, CacheTypeOK, PoolPartition, InLru
<1>10. DirtyQueuedOnce'
  BY <1>1, <1>2, <1>3, <1>5, CacheAssumption DEF CacheInv, DirtyQueuedOnce
<1> QED BY <1>6, <1>7, <1>8, <1>9, <1>10 DEF CacheInv

\* setDirty moves a clean node to the dirty part and queues it once.
LEMMA SetDirtyKeeps ==
  ASSUME CacheInv, NEW k \in Keys, SetDirty(k)
  PROVE  CacheInv'
<1> DEFINE n == hashFind(k)
<1>1. /\ n \in Nodes /\ InLru(n) /\ node[n].data # NULL /\ ~node[n].dirty
      /\ node' = [node EXCEPT ![n].dirty = TRUE]
      /\ dirty_list' = Append(dirty_list, n)
      /\ LruSortDirty(n)
      /\ dirty_size' = dirty_size + 1
      /\ clean_size' = clean_size - 1
      /\ UNCHANGED <<hash_ports, mem, curr_size>>
  BY HashFindIs DEF SetDirty
<1> HIDE DEF n
<1>2. Contains(lru_clean, n) /\ ~Contains(lru_dirty, n) /\ ~Contains(dirty_list, n)
  BY <1>1 DEF CacheInv, DirtyQueuedOnce, PoolPartition, InLru
<1>3. /\ lru_clean' \in Seq(Nodes) /\ lru_dirty' \in Seq(Nodes)
      /\ IsInjective(lru_clean') /\ IsInjective(lru_dirty')
      /\ \A m : Contains(lru_clean', m) <=> Contains(lru_clean, m) /\ m # n
      /\ \A m : Contains(lru_dirty', m) <=> Contains(lru_dirty, m) \/ m = n
      /\ Len(lru_clean') = Len(lru_clean) - 1
      /\ Len(lru_dirty') = Len(lru_dirty) + 1
  BY <1>1, <1>2, LruSortDirtyIs
<1>4. \A m \in Nodes : InLru(m)' <=> InLru(m)
  BY <1>2, <1>3 DEF InLru
<1>5. /\ node' \in [Nodes -> NodeRecord]
      /\ \A m \in Nodes : /\ node'[m].key = node[m].key
                          /\ node'[m].dirty = IF m = n THEN TRUE ELSE node[m].dirty
                          /\ node'[m].data = node[m].data
  BY <1>1 DEF CacheInv, CacheTypeOK, NodeRecord
<1>6. /\ dirty_list' \in Seq(Nodes) /\ IsInjective(dirty_list')
      /\ \A m : Contains(dirty_list', m) <=> Contains(dirty_list, m) \/ m = n
  BY <1>1, <1>2, AppendIs DEF CacheInv, CacheTypeOK, DirtyQueuedOnce
<1>7. HashExact'
  BY <1>1, <1>4, <1>5, KeepsHash
<1>8. CacheTypeOK'
  BY <1>1, <1>3, <1>5, <1>6 DEF CacheInv, CacheTypeOK
<1>9. SizesExact'
  BY <1>1, <1>3, LenProperties DEF CacheInv, CacheTypeOK, SizesExact
<1>10. PoolPartition'
  BY <1>1, <1>2, <1>3, <1>4, LenProperties DEF CacheInv, CacheTypeOK, PoolPartition, InLru
<1>11. DirtyQueuedOnce'
  BY <1>1, <1>2, <1>3, <1>5, <1>6 DEF CacheInv, DirtyQueuedOnce, PoolPartition, InLru
<1> QED BY <1>7, <1>8, <1>9, <1>10, <1>11 DEF CacheInv

\* The oldest queued node goes back to the clean part.
LEMMA GetNextDirtyKeeps ==
  ASSUME CacheInv, GetNextDirtyNodeAndClean
  PROVE  CacheInv'
<1> DEFINE n == Head(dirty_list)
<1>0. dirty_list \in Seq(Nodes) /\ dirty_list # <<>> /\ IsInjective(dirty_list)
  BY DEF CacheInv, CacheTypeOK, DirtyQueuedOnce, GetNextDirtyNodeAndClean
<1>1. /\ n \in Nodes /\ Contains(dirty_list, n)
      /\ dirty_list' = Unlink(dirty_list, n)
      /\ node' = [node EXCEPT ![n].dirty = FALSE]
      /\ LruSortClean(n)
      /\ dirty_size' = dirty_size - 1
      /\ clean_size' = clean_size + 1
      /\ UNCHANGED <<hash_ports, mem, curr_size>>
  BY <1>0, TailIs DEF GetNextDirtyNodeAndClean
<1> HIDE DEF n
<1>2. node[n].dirty /\ ~Contains(lru_clean, n) /\ ~Contains(mem, n)
  BY <1>1 DEF CacheInv, DirtyQueuedOnce
<1>3. Contains(lru_dirty, n) /\ node[n].data # NULL
  BY <1>1, <1>2 DEF CacheInv, PoolPartition, DirtyQueuedOnce, InLru
<1>4. /\ lru_clean' \in Seq(Nodes) /\ lru_dirty' \in Seq(Nodes)
      /\ IsInjective(lru_clean') /\ IsInjective(lru_dirty')
      /\ \A m : Contains(lru_clean', m) <=> Contains(lru_clean, m) \/ m = n
      /\ \A m : Contains(lru_dirty', m) <=> Contains(lru_dirty, m) /\ m # n
      /\ Len(lru_clean') = Len(lru_clean) + 1
      /\ Len(lru_dirty') = Len(lru_dirty) - 1
  BY <1>1, <1>2, <1>3, LruSortCleanIs
<1>5. \A m \in Nodes : InLru(m)' <=> InLru(m)
  BY <1>3, <1>4 DEF InLru
<1>6. /\ node' \in [Nodes -> NodeRecord]
      /\ \A m \in Nodes : /\ node'[m].key = node[m].key
                          /\ node'[m].dirty = IF m = n THEN FALSE ELSE node[m].dirty
                          /\ node'[m].data = node[m].data
  BY <1>1 DEF CacheInv, CacheTypeOK, NodeRecord
<1>7. /\ dirty_list' \in Seq(Nodes) /\ IsInjective(dirty_list')
      /\ \A m : Contains(dirty_list', m) <=> Contains(dirty_list, m) /\ m # n
  BY <1>0, <1>1, UnlinkIs
<1>8. HashExact'
  BY <1>1, <1>5, <1>6, KeepsHash
<1>9. CacheTypeOK'
  BY <1>1, <1>4, <1>6, <1>7 DEF CacheInv, CacheTypeOK
<1>10. SizesExact'
  BY <1>1, <1>4, LenProperties DEF CacheInv, CacheTypeOK, SizesExact
<1>11. PoolPartition'
  BY <1>1, <1>2, <1>3, <1>4, <1>5, LenProperties
     DEF CacheInv, CacheTypeOK, PoolPartition, InLru
<1>12. DirtyQueuedOnce'
  BY <1>1, <1>2, <1>3, <1>4, <1>6, <1>7 DEF CacheInv, DirtyQueuedOnce
<1> QED BY <1>8, <1>9, <1>10, <1>11, <1>12 DEF CacheInv

\* What hashDel of a node in the LRU and hashAdd of a node outside it do.
LEMMA HashWithoutIs ==
  ASSUME CacheInv, NEW n \in Nodes, InLru(n)
  PROVE  LET H == HashWithout(hash_ports, node[n].key) IN
         /\ H \in [Buckets -> Seq(Nodes)]
         /\ \A b \in Buckets : IsInjective(H[b])
         /\ \A b \in Buckets, m \in Nodes :
              Contains(H[b], m) <=> Contains(hash_ports[b], m) /\ m # n
<1> DEFINE k == node[n].key
           H == HashWithout(hash_ports, k)
<1>1. k \in Keys /\ hashFind(k) = n
  BY HashFindOf
<1>2. hash_ports \in [Buckets -> Seq(Nodes)] /\ Base(k) \in Buckets
  BY <1>1, BaseIs DEF CacheInv, CacheTypeOK
<1>3. H = [hash_ports EXCEPT ![Base(k)] = Unlink(hash_ports[Base(k)], n)]
  BY <1>1 DEF HashWithout
<1>4. \A b \in Buckets : b # Base(k) => ~Contains(hash_ports[b], n)
  BY DEF CacheInv, HashExact
<1>5. /\ Unlink(hash_ports[Base(k)], n) \in Seq(Nodes)
      /\ IsInjective(Unlink(hash_ports[Base(k)], n))
      /\ \A m : Contains(Unlink(hash_ports[Base(k)], n), m)
                  <=> Contains(hash_ports[Base(k)], m) /\ m # n
  BY <1>2, UnlinkIs DEF CacheInv, HashExact
<1> HIDE DEF k, H
<1>6. ASSUME NEW b \in Buckets
      PROVE  /\ H[b] \in Seq(Nodes) /\ IsInjective(H[b])
             /\ \A m \in Nodes :
                  Contains(H[b], m) <=> Contains(hash_ports[b], m) /\ m # n
  <2>1. CASE b = Base(k)
    BY <2>1, <1>2, <1>3, <1>5
  <2>2. CASE b # Base(k)
    BY <2>2, <1>2, <1>3, <1>4 DEF CacheInv, HashExact
  <2> QED BY <2>1, <2>2
<1>7. H \in [Buckets -> Seq(Nodes)]
  BY <1>2, <1>3, <1>5
<1> QED BY <1>6, <1>7 DEF H, k

\* hashAdd links the node into the chain of its key only.
LEMMA HashWithIs ==
  ASSUME NEW ports \in [Buckets -> Seq(Nodes)], NEW k \in Keys, NEW n \in Nodes,
         \A b \in Buckets : IsInjective(ports[b]) /\ ~Contains(ports[b], n)
  PROVE  LET H == HashWith(ports, k, n) IN
         /\ H \in [Buckets -> Seq(Nodes)]
         /\ \A b \in Buckets : IsInjective(H[b])
         /\ \A b \in Buckets, m \in Nodes :
              Contains(H[b], m) <=> Contains(ports[b], m) \/ (m = n /\ b = Base(k))
<1> DEFINE H == HashWith(ports, k, n)
<1>1. Base(k) \in Buckets
  BY BaseIs
<1>2. H = [ports EXCEPT ![Base(k)] = Cons(n, ports[Base(k)])]
  BY DEF HashWith
<1>3. /\ Cons(n, ports[Base(k)]) \in Seq(Nodes)
      /\ IsInjective(Cons(n, ports[Base(k)]))
      /\ \A m : Contains(Cons(n, ports[Base(k)]), m)
                  <=> Contains(ports[Base(k)], m) \/ m = n
  BY <1>1, ConsIs
<1> HIDE DEF H
<1>4. ASSUME NEW b \in Buckets
      PROVE  /\ IsInjective(H[b])
             /\ \A m \in Nodes : Contains(H[b], m)
                  <=> Contains(ports[b], m) \/ (m = n /\ b = Base(k))
  <2>1. CASE b = Base(k)
    BY <2>1, <1>1, <1>2, <1>3
  <2>2. CASE b # Base(k)
    BY <2>2, <1>1, <1>2
  <2> QED BY <2>1, <2>2
<1>5. H \in [Buckets -> Seq(Nodes)]
  BY <1>1, <1>2, <1>3
<1> QED BY <1>4, <1>5 DEF H

\* A reservation from the free list.
LEMMA OccupyFreeKeeps ==
  ASSUME CacheInv, NEW k \in Keys, OccupyFree(k)
  PROVE  CacheInv'
<1> DEFINE n == Head(mem)
<1>0. mem \in Seq(Nodes) /\ mem # <<>> /\ IsInjective(mem)
  BY DEF CacheInv, CacheTypeOK, PoolPartition, OccupyFree, MallocFromPool
<1>1. /\ mem' = Tail(mem)
      /\ node' = [node EXCEPT ![n] = [FreshNode EXCEPT !.key = k]]
      /\ hash_ports' = HashWith(hash_ports, k, n)
      /\ lru_dirty' = Append(lru_dirty, n)
      /\ curr_size' = curr_size + 1
      /\ dirty_size' = dirty_size + 1
      /\ UNCHANGED <<lru_clean, dirty_list, clean_size>>
      /\ hashFind(k) = NULL
  BY DEF OccupyFree
<1>2. /\ n \in Nodes /\ Contains(mem, n)
      /\ mem' \in Seq(Nodes) /\ IsInjective(mem')
      /\ \A m : Contains(mem', m) <=> Contains(mem, m) /\ m # n
      /\ Len(mem') = Len(mem) - 1
  BY <1>0, <1>1, TailIs
<1> HIDE DEF n
<1>3. ~InLru(n) /\ ~Contains(lru_clean, n) /\ ~Contains(lru_dirty, n) /\ ~node[n].dirty
  BY <1>2 DEF CacheInv, PoolPartition, DirtyQueuedOnce, InLru
<1>4. /\ lru_dirty' \in Seq(Nodes) /\ IsInjective(lru_dirty')
      /\ \A m : Contains(lru_dirty', m) <=> Contains(lru_dirty, m) \/ m = n
      /\ Len(lru_dirty') = Len(lru_dirty) + 1
  BY <1>1, <1>2, <1>3, AppendIs DEF CacheInv, CacheTypeOK, PoolPartition
<1>5. \A m \in Nodes : InLru(m)' <=> InLru(m) \/ m = n
  BY <1>1, <1>4 DEF InLru
<1>6. /\ node' \in [Nodes -> NodeRecord]
      /\ \A m \in Nodes \ {n} : node'[m] = node[m]
      /\ node'[n].key = k /\ node'[n].data = NULL /\ node'[n].dirty = FALSE
  BY <1>1, <1>2 DEF CacheInv, CacheTypeOK, NodeRecord, FreshNode
<1>7. /\ hash_ports' \in [Buckets -> Seq(Nodes)]
      /\ \A b \in Buckets : IsInjective(hash_ports'[b])
      /\ \A b \in Buckets, m \in Nodes :
           Contains(hash_ports'[b], m)
             <=> Contains(hash_ports[b], m) \/ (m = n /\ b = Base(k))
  <2>1. \A b \in Buckets : ~Contains(hash_ports[b], n)
    BY <1>2, <1>3 DEF CacheInv, HashExact
  <2> QED BY <1>1, <1>2, <2>1, HashWithIs DEF CacheInv, CacheTypeOK, HashExact
<1>8. \A m \in Nodes : InLru(m) => node[m].key # k
  BY <1>1, HashFindIs
<1>9. HashExact'
  <2>1. ASSUME NEW b \in Buckets, NEW m \in Nodes
        PROVE  Contains(hash_ports'[b], m) <=> /\ InLru(m)'
                                               /\ node'[m].key # NULL
                                               /\ b = Base(node'[m].key)
    <3>1. CASE m = n
      BY <3>1, <1>2, <1>3, <1>5, <1>6, <1>7, CacheAssumption DEF CacheInv, HashExact
    <3>2. CASE m # n
      BY <3>2, <1>5, <1>6, <1>7 DEF CacheInv, HashExact
    <3> QED BY <3>1, <3>2
  <2>2. ASSUME NEW m \in Nodes, InLru(m)' PROVE node'[m].key # NULL
    BY <2>2, <1>5, <1>6, CacheAssumption DEF CacheInv, HashExact
  <2>3. ASSUME NEW m \in Nodes, NEW p \in Nodes, InLru(m)', InLru(p)',
               node'[m].key = node'[p].key
        PROVE  m = p
    BY <2>3, <1>5, <1>6, <1>8 DEF CacheInv, HashExact
  <2> QED BY <1>7, <2>1, <2>2, <2>3 DEF HashExact, Base
<1>10. CacheTypeOK'
  BY <1>1, <1>2, <1>4, <1>6, <1>7 DEF CacheInv, CacheTypeOK
<1>11. SizesExact'
  BY <1>1, <1>4, LenProperties DEF CacheInv, CacheTypeOK, SizesExact
<1>12. PoolPartition'
  BY <1>0, <1>1, <1>2, <1>3, <1>4, <1>5, LenProperties
     DEF CacheInv, CacheTypeOK, PoolPartition, InLru
<1>13. DirtyQueuedOnce'
  BY <1>1, <1>2, <1>3, <1>4, <1>6 DEF CacheInv, DirtyQueuedOnce
<1> QED BY <1>9, <1>10, <1>11, <1>12, <1>13 DEF CacheInv

\* A reservation that recycles the least recently used clean node.
LEMMA OccupyEvictKeeps ==
  ASSUME CacheInv, NEW k \in Keys, OccupyEvict(k)
  PROVE  CacheInv'
<1> DEFINE n == Head(lru_clean)
           H == HashWithout(hash_ports, node[n].key)
<1>0. lru_clean \in Seq(Nodes) /\ lru_clean # <<>> /\ IsInjective(lru_clean)
  BY DEF CacheInv, CacheTypeOK, PoolPartition, OccupyEvict, MallocByEviction
<1>1. /\ node' = [node EXCEPT ![n] = [FreshNode EXCEPT !.key = k]]
      /\ hash_ports' = HashWith(H, k, n)
      /\ lru_clean' = Tail(lru_clean)
      /\ lru_dirty' = Append(lru_dirty, n)
      /\ clean_size' = clean_size - 1
      /\ dirty_size' = dirty_size + 1
      /\ UNCHANGED <<dirty_list, mem, curr_size>>
      /\ hashFind(k) = NULL
  BY DEF OccupyEvict
<1>2. /\ n \in Nodes /\ Contains(lru_clean, n)
      /\ lru_clean' \in Seq(Nodes) /\ IsInjective(lru_clean')
      /\ \A m : Contains(lru_clean', m) <=> Contains(lru_clean, m) /\ m # n
      /\ Len(lru_clean') = Len(lru_clean) - 1
  BY <1>0, <1>1, TailIs
<1> HIDE DEF n
<1>3. InLru(n) /\ ~Contains(mem, n) /\ ~Contains(lru_dirty, n) /\ ~node[n].dirty
  BY <1>2 DEF CacheInv, PoolPartition, DirtyQueuedOnce, InLru
<1>4. /\ lru_dirty' \in Seq(Nodes) /\ IsInjective(lru_dirty')
      /\ \A m : Contains(lru_dirty', m) <=> Contains(lru_dirty, m) \/ m = n
      /\ Len(lru_dirty') = Len(lru_dirty) + 1
  BY <1>1, <1>2, <1>3, AppendIs DEF CacheInv, CacheTypeOK, PoolPartition
<1>5. \A m \in Nodes : InLru(m)' <=> InLru(m)
  BY <1>1, <1>2, <1>4 DEF InLru
<1>6. /\ node' \in [Nodes -> NodeRecord]
      /\ \A m \in Nodes \ {n} : node'[m] = node[m]
      /\ node'[n].key = k /\ node'[n].data = NULL /\ node'[n].dirty = FALSE
  BY <1>1, <1>2 DEF CacheInv, CacheTypeOK, NodeRecord, FreshNode
<1>7. /\ H \in [Buckets -> Seq(Nodes)]
      /\ \A b \in Buckets : IsInjective(H[b])
      /\ \A b \in Buckets, m \in Nodes :
           Contains(H[b], m) <=> Contains(hash_ports[b], m) /\ m # n
  BY <1>2, <1>3, HashWithoutIs
<1> HIDE DEF H
<1>8. /\ hash_ports' \in [Buckets -> Seq(Nodes)]
      /\ \A b \in Buckets : IsInjective(hash_ports'[b])
      /\ \A b \in Buckets, m \in Nodes :
           Contains(hash_ports'[b], m)
             <=> Contains(H[b], m) \/ (m = n /\ b = Base(k))
  BY <1>1, <1>2, <1>7, HashWithIs
<1>9. \A m \in Nodes : InLru(m) => node[m].key # k
  BY <1>1, HashFindIs
<1>10. HashExact'
  <2>1. ASSUME NEW b \in Buckets, NEW m \in Nodes
        PROVE  Contains(hash_ports'[b], m) <=> /\ InLru(m)'
                                               /\ node'[m].key # NULL
                                               /\ b = Base(node'[m].key)
    <3>1. CASE m = n
      BY <3>1, <1>2, <1>3, <1>5, <1>6, <1>7, <1>8, CacheAssumption
    <3>2. CASE m # n
      BY <3>2, <1>5, <1>6, <1>7, <1>8 DEF CacheInv, HashExact
    <3> QED BY <3>1, <3>2
  <2>2. ASSUME NEW m \in Nodes, InLru(m)' PROVE node'[m].key # NULL
    BY <2>2, <1>5, <1>6, CacheAssumption DEF CacheInv, HashExact
  <2>3. ASSUME NEW m \in Nodes, NEW p \in Nodes, InLru(m)', InLru(p)',
               node'[m].key = node'[p].key
        PROVE  m = p
    BY <2>3, <1>5, <1>6, <1>9 DEF CacheInv, HashExact
  <2> QED BY <1>8, <2>1, <2>2, <2>3 DEF HashExact, Base
<1>11. CacheTypeOK'
  BY <1>1, <1>2, <1>4, <1>6, <1>8 DEF CacheInv, CacheTypeOK
<1>12. SizesExact'
  BY <1>1, <1>2, <1>4, LenProperties DEF CacheInv, CacheTypeOK, SizesExact
<1>13. PoolPartition'
  BY <1>0, <1>1, <1>2, <1>3, <1>4, <1>5, LenProperties
     DEF CacheInv, CacheTypeOK, PoolPartition, InLru
<1>14. DirtyQueuedOnce'
  BY <1>1, <1>2, <1>3, <1>4, <1>6 DEF CacheInv, DirtyQueuedOnce
<1> QED BY <1>10, <1>11, <1>12, <1>13, <1>14 DEF CacheInv

\* A failed load gives its node back to the pool.
LEMMA SetDataEmptyKeeps ==
  ASSUME CacheInv, NEW k \in Keys, SetDataEmpty(k)
  PROVE  CacheInv'
<1> DEFINE n == hashFind(k)
<1>1. /\ n \in Nodes /\ InLru(n) /\ node[n].data = NULL /\ node[n].key = k
      /\ hash_ports' = HashWithout(hash_ports, node[n].key)
      /\ lru_clean' = Unlink(lru_clean, n)
      /\ lru_dirty' = Unlink(lru_dirty, n)
      /\ node' = [node EXCEPT ![n] = FreshNode]
      /\ mem' = Cons(n, mem)
      /\ curr_size' = curr_size - 1
      /\ dirty_size' = dirty_size - 1
      /\ UNCHANGED <<dirty_list, clean_size>>
  BY HashFindIs DEF SetDataEmpty
<1> HIDE DEF n
<1>2. ~Contains(lru_clean, n) /\ Contains(lru_dirty, n) /\ ~Contains(mem, n) /\ ~node[n].dirty
  BY <1>1 DEF CacheInv, PoolPartition, DirtyQueuedOnce, InLru
<1>3. /\ lru_clean' \in Seq(Nodes) /\ IsInjective(lru_clean')
      /\ \A m : Contains(lru_clean', m) <=> Contains(lru_clean, m) /\ m # n
      /\ Len(lru_clean') = Len(lru_clean)
  BY <1>1, <1>2, UnlinkIs DEF CacheInv, CacheTypeOK, PoolPartition
<1>4. /\ lru_dirty' \in Seq(Nodes) /\ IsInjective(lru_dirty')
      /\ \A m : Contains(lru_dirty', m) <=> Contains(lru_dirty, m) /\ m # n
      /\ Len(lru_dirty') = Len(lru_dirty) - 1
  BY <1>1, <1>2, UnlinkIs DEF CacheInv, CacheTypeOK, PoolPartition
<1>5. /\ mem' \in Seq(Nodes) /\ IsInjective(mem')
      /\ \A m : Contains(mem', m) <=> Contains(mem, m) \/ m = n
      /\ Len(mem') = Len(mem) + 1
  BY <1>1, <1>2, ConsIs DEF CacheInv, CacheTypeOK, PoolPartition
<1>6. \A m \in Nodes : InLru(m)' <=> InLru(m) /\ m # n
  BY <1>3, <1>4 DEF InLru
<1>7. /\ node' \in [Nodes -> NodeRecord]
      /\ \A m \in Nodes \ {n} : node'[m] = node[m]
      /\ node'[n].key = NULL /\ node'[n].data = NULL /\ node'[n].dirty = FALSE
  BY <1>1 DEF CacheInv, CacheTypeOK, NodeRecord, FreshNode
<1>8. /\ hash_ports' \in [Buckets -> Seq(Nodes)]
      /\ \A b \in Buckets : IsInjective(hash_ports'[b])
      /\ \A b \in Buckets, m \in Nodes :
           Contains(hash_ports'[b], m) <=> Contains(hash_ports[b], m) /\ m # n
  BY <1>1, HashWithoutIs
<1>9. HashExact'
  <2>1. ASSUME NEW b \in Buckets, NEW m \in Nodes
        PROVE  Contains(hash_ports'[b], m) <=> /\ InLru(m)'
                                               /\ node'[m].key # NULL
                                               /\ b = Base(node'[m].key)
    BY <1>6, <1>7, <1>8 DEF CacheInv, HashExact
  <2>2. ASSUME NEW m \in Nodes, InLru(m)' PROVE node'[m].key # NULL
    BY <2>2, <1>6, <1>7 DEF CacheInv, HashExact
  <2>3. ASSUME NEW m \in Nodes, NEW p \in Nodes, InLru(m)', InLru(p)',
               node'[m].key = node'[p].key
        PROVE  m = p
    BY <2>3, <1>6, <1>7 DEF CacheInv, HashExact
  <2> QED BY <1>8, <2>1, <2>2, <2>3 DEF HashExact, Base
<1>10. CacheTypeOK'
  BY <1>1, <1>3, <1>4, <1>5, <1>7, <1>8 DEF CacheInv, CacheTypeOK
<1>11. SizesExact'
  BY <1>1, <1>3, <1>4, LenProperties DEF CacheInv, CacheTypeOK, SizesExact
<1>12. PoolPartition'
  BY <1>1, <1>2, <1>3, <1>4, <1>5, <1>6, LenProperties
     DEF CacheInv, CacheTypeOK, PoolPartition, InLru
<1>13. DirtyQueuedOnce'
  BY <1>1, <1>2, <1>3, <1>4, <1>5, <1>7 DEF CacheInv, DirtyQueuedOnce
<1> QED BY <1>9, <1>10, <1>11, <1>12, <1>13 DEF CacheInv

----------------------------------------------------------------------------

\* An empty cache satisfies the invariant ...
LEMMA InitEstablishes == CacheInit => CacheInv
<1> SUFFICES ASSUME CacheInit PROVE CacheInv
  OBVIOUS
<1>1. /\ mem \in Seq(Nodes)
      /\ Len(mem) = node_size
      /\ \A i \in 1..node_size : mem[i] = (node_size + 1) - i
      /\ DOMAIN mem = 1..node_size
  <2>1. mem \in [1..node_size -> Nodes]
    BY CacheAssumption DEF CacheInit, Nodes
  <2> QED BY <2>1, IsASeq, LenProperties, CacheAssumption DEF CacheInit
<1>2. /\ <<>> \in Seq(Nodes) /\ Len(<<>>) = 0
      /\ IsInjective(<<>>) /\ \A m : ~Contains(<<>>, m)
  BY EmptySeq DEF IsInjective, Contains
<1>3. \A n \in Nodes : Contains(mem, n)
  <2> SUFFICES ASSUME NEW n \in Nodes PROVE Contains(mem, n)
    OBVIOUS
  <2>1. /\ (node_size + 1) - n \in 1..node_size
        /\ (node_size + 1) - ((node_size + 1) - n) = n
    BY CacheAssumption DEF Nodes
  <2> QED BY <1>1, <2>1 DEF Contains
<1>4. IsInjective(mem)
  BY <1>1, CacheAssumption DEF IsInjective
<1>5. \A n \in Nodes : ~InLru(n)
  BY <1>2 DEF InLru, CacheInit
<1>6. /\ node \in [Nodes -> NodeRecord]
      /\ \A n \in Nodes : node[n].key = NULL /\ node[n].data = NULL /\ node[n].dirty = FALSE
  BY DEF CacheInit, FreshNode, NodeRecord
<1>7. CacheTypeOK
  BY <1>1, <1>2, <1>6 DEF CacheInit, CacheTypeOK
<1>8. PoolPartition
  BY <1>1, <1>2, <1>3, <1>4, <1>5, CacheAssumption DEF CacheInit, PoolPartition
<1>9. SizesExact
  BY <1>2 DEF CacheInit, SizesExact
<1>10. DirtyQueuedOnce
  BY <1>2, <1>6 DEF CacheInit, DirtyQueuedOnce
<1>11. HashExact
  BY <1>2, <1>5 DEF CacheInit, HashExact
<1> QED BY <1>7, <1>8, <1>9, <1>10, <1>11 DEF CacheInv

\* ... and every method preserves it.
LEMMA NextPreserves == CacheInv /\ [CacheNext]_cacheVars => CacheInv'
<1> SUFFICES ASSUME CacheInv, [CacheNext]_cacheVars PROVE CacheInv'
  OBVIOUS
<1>1. CASE UNCHANGED cacheVars
  BY <1>1 DEF cacheVars, lists, sizes, CacheInv, CacheTypeOK, PoolPartition, SizesExact,
              DirtyQueuedOnce, HashExact, InLru, Base
<1>2. ASSUME NEW k \in Keys, OccupyFree(k) PROVE CacheInv'
  BY <1>2, OccupyFreeKeeps
<1>3. ASSUME NEW k \in Keys, OccupyEvict(k) PROVE CacheInv'
  BY <1>3, OccupyEvictKeeps
<1>4. ASSUME NEW k \in Keys, QueryHit(k) PROVE CacheInv'
  BY <1>4, QueryHitKeeps
<1>5. ASSUME NEW k \in Keys, NEW d \in Data, SetDataLoaded(k, d) PROVE CacheInv'
  BY <1>5, SetDataLoadedKeeps
<1>6. ASSUME NEW k \in Keys, SetDataEmpty(k) PROVE CacheInv'
  BY <1>6, SetDataEmptyKeeps
<1>7. ASSUME NEW k \in Keys, SetDirty(k) PROVE CacheInv'
  BY <1>7, SetDirtyKeeps
<1>8. CASE GetNextDirtyNodeAndClean
  BY <1>8, GetNextDirtyKeeps
<1>9. ASSUME NEW k \in Keys,
             OccupyPresent(k) \/ OccupyFail(k) \/ QueryMiss(k)
               \/ SetDataIgnored(k) \/ SetDirtyRefused(k)
      PROVE  CacheInv'
  BY <1>1, <1>9 DEF OccupyPresent, OccupyFail, QueryMiss, SetDataIgnored, SetDirtyRefused
<1> QED BY <1>1, <1>2, <1>3, <1>4, <1>5, <1>6, <1>7, <1>8, <1>9 DEF CacheNext

\* Every call sequence on a cache of any size, with any keys and any number of
\* buckets, keeps the lists, counters, dirty queue and hash table consistent.
THEOREM CacheInvariant == CacheSpec => []CacheInv
<1>1. CacheInit => CacheInv
  BY InitEstablishes
<1>2. CacheInv /\ [CacheNext]_cacheVars => CacheInv'
  BY NextPreserves
<1> QED BY <1>1, <1>2, PTL DEF CacheSpec

\* The variables keep the types of their Java fields.
THEOREM TypeCorrect == CacheSpec => []CacheTypeOK
<1>1. CacheInv => CacheTypeOK
  BY DEF CacheInv
<1> QED BY <1>1, CacheInvariant, PTL

\* No node is leaked or linked twice.
THEOREM PoolPartitioned == CacheSpec => []PoolPartition
<1>1. CacheInv => PoolPartition
  BY DEF CacheInv
<1> QED BY <1>1, CacheInvariant, PTL

\* The counters count what they are named for.
THEOREM SizesCorrect == CacheSpec => []SizesExact
<1>1. CacheInv => SizesExact
  BY DEF CacheInv
<1> QED BY <1>1, CacheInvariant, PTL

\* Dirty nodes are queued once and are out of eviction's reach.
THEOREM DirtyQueueCorrect == CacheSpec => []DirtyQueuedOnce
<1>1. CacheInv => DirtyQueuedOnce
  BY DEF CacheInv
<1> QED BY <1>1, CacheInvariant, PTL

\* The hash table never holds two nodes with one key.
THEOREM HashCorrect == CacheSpec => []HashExact
<1>1. CacheInv => HashExact
  BY DEF CacheInv
<1> QED BY <1>1, CacheInvariant, PTL

\* occupy fails only when every node is reserved or unsaved.
THEOREM OccupyFailsCorrect == CacheSpec => []OccupyFailsOnlyWhenFull
<1>1. ASSUME CacheInv PROVE OccupyFailsOnlyWhenFull
  <2> SUFFICES ASSUME MallocFails PROVE Len(lru_dirty) = node_size
    BY DEF OccupyFailsOnlyWhenFull
  <2>1. Len(lru_clean) = 0
    BY EmptySeq DEF MallocFails
  <2>2. clean_size < max_clean_size
    BY <1>1, <2>1, CacheAssumption DEF CacheInv, SizesExact
  <2>3. mem = <<>>
    BY <2>2 DEF MallocFails, MallocFromPool
  <2>4. Len(mem) = 0
    BY <2>3, EmptySeq
  <2> QED BY <1>1, <2>1, <2>4, LenProperties DEF CacheInv, CacheTypeOK, PoolPartition
<1> QED BY <1>1, CacheInvariant, PTL

----------------------------------------------------------------------------
(* Pinned nodes survive every step.                                        *)

\* hashFind is exact, as one formula that can be used in the next state too.
FindExact ==
  \A k \in Keys :
    /\ hashFind(k) # NULL => /\ hashFind(k) \in Nodes
                             /\ node[hashFind(k)].key = k
                             /\ InLru(hashFind(k))
    /\ hashFind(k) = NULL => \A n \in Nodes : InLru(n) => node[n].key # k

\* The invariant makes hashFind exact.
LEMMA FindIsExact == CacheInv => FindExact
  BY HashFindIs DEF FindExact

\* A node that is not free after a step and kept its key is still found.
LEMMA StillFound ==
  ASSUME CacheInv', FindExact', NEW n \in Nodes, NEW k \in Keys,
         ~Contains(mem', n), node'[n].key = k
  PROVE  hashFind(k)' = n
<1>1. InLru(n)'
  BY DEF CacheInv, PoolPartition
<1>2. hashFind(k)' # NULL
  BY <1>1 DEF FindExact
<1>3. /\ hashFind(k)' \in Nodes
      /\ node'[hashFind(k)'].key = k
      /\ InLru(hashFind(k))'
  BY <1>2 DEF FindExact
<1> QED BY <1>1, <1>3 DEF CacheInv, HashExact, InLru

\* A reserved or unsaved node stays in the table with its data, except that a
\* reserved one gets its data or leaves with its own failed load.
LEMMA PinnedStep ==
  ASSUME CacheInv, CacheInv', FindExact', CacheNext, NEW k \in Keys
  PROVE  /\ Unsaved(k) => Held(k)' = Held(k)
         /\ Reserved(k) => hashFind(k)' # NULL \/ SetDataEmpty(k)
<1> DEFINE n == hashFind(k)
<1> SUFFICES ASSUME n # NULL, node[n].dirty \/ node[n].data = NULL,
                    ~SetDataEmpty(k)
             PROVE  hashFind(k)' = n /\ (node[n].dirty => node'[n].data = node[n].data)
  <2>1. ASSUME Unsaved(k), SetDataEmpty(k) PROVE FALSE
    <3>1. node[n].dirty /\ node[n].data = NULL /\ n \in Nodes /\ InLru(n)
      BY <2>1, HashFindIs DEF Unsaved, SetDataEmpty
    <3> QED BY <3>1 DEF CacheInv, DirtyQueuedOnce, InLru
  <2>2. n # NULL => n \in Nodes
    BY HashFindIs
  <2>3. \A m \in Nodes : m # NULL
    BY CacheAssumption
  <2> QED BY <2>1, <2>2, <2>3 DEF Unsaved, Reserved, Held
<1>1. /\ n \in Nodes /\ node[n].key = k /\ InLru(n)
      /\ Contains(lru_dirty, n) /\ ~Contains(lru_clean, n) /\ ~Contains(mem, n)
  BY HashFindIs DEF CacheInv, DirtyQueuedOnce, PoolPartition, InLru
<1>2. node \in [Nodes -> NodeRecord]
  BY DEF CacheInv, CacheTypeOK
<1> HIDE DEF n
<1> SUFFICES /\ ~Contains(mem', n) /\ node'[n].key = k
             /\ node[n].dirty => node'[n].data = node[n].data
  BY <1>1, StillFound
<1>3. ASSUME NEW j \in Keys, OccupyFree(j)
      PROVE  /\ ~Contains(mem', n) /\ node'[n].key = k
             /\ node[n].dirty => node'[n].data = node[n].data
  <2>1. /\ Contains(mem, Head(mem))
        /\ \A m : Contains(Tail(mem), m) <=> Contains(mem, m) /\ m # Head(mem)
    BY <1>3, TailIs DEF OccupyFree, MallocFromPool, CacheInv, CacheTypeOK, PoolPartition
  <2>2. n # Head(mem)
    BY <2>1, <1>1
  <2> QED BY <1>1, <1>2, <1>3, <2>1, <2>2 DEF OccupyFree
<1>4. ASSUME NEW j \in Keys, OccupyEvict(j)
      PROVE  /\ ~Contains(mem', n) /\ node'[n].key = k
             /\ node[n].dirty => node'[n].data = node[n].data
  <2>1. Contains(lru_clean, Head(lru_clean))
    BY <1>4, TailIs DEF OccupyEvict, MallocByEviction, CacheInv, CacheTypeOK, PoolPartition
  <2>2. n # Head(lru_clean)
    BY <2>1, <1>1
  <2> QED BY <1>1, <1>2, <1>4, <2>2 DEF OccupyEvict
<1>5. ASSUME NEW j \in Keys, SetDataEmpty(j)
      PROVE  /\ ~Contains(mem', n) /\ node'[n].key = k
             /\ node[n].dirty => node'[n].data = node[n].data
  <2>1. /\ hashFind(j) \in Nodes /\ node[hashFind(j)].key = j /\ InLru(hashFind(j))
        /\ j # k
    BY <1>5, HashFindIs DEF SetDataEmpty
  <2>2. hashFind(j) # n /\ ~Contains(mem, hashFind(j))
    BY <2>1, <1>1 DEF CacheInv, PoolPartition
  <2>3. \A m : Contains(Cons(hashFind(j), mem), m) <=> Contains(mem, m) \/ m = hashFind(j)
    BY <2>1, <2>2, ConsIs DEF CacheInv, CacheTypeOK, PoolPartition
  <2> QED BY <1>1, <1>2, <1>5, <2>2, <2>3 DEF SetDataEmpty
<1>6. ASSUME NEW j \in Keys, NEW d \in Data, SetDataLoaded(j, d)
      PROVE  /\ ~Contains(mem', n) /\ node'[n].key = k
             /\ node[n].dirty => node'[n].data = node[n].data
  <2>1. hashFind(j) \in Nodes /\ InLru(hashFind(j)) /\ node[hashFind(j)].data = NULL
    BY <1>6, HashFindIs DEF SetDataLoaded
  <2>2. ~node[hashFind(j)].dirty
    BY <2>1 DEF CacheInv, DirtyQueuedOnce, InLru
  <2> QED BY <1>1, <1>2, <1>6, <2>1, <2>2 DEF SetDataLoaded, NodeRecord
<1>7. ASSUME NEW j \in Keys, SetDirty(j)
      PROVE  /\ ~Contains(mem', n) /\ node'[n].key = k
             /\ node[n].dirty => node'[n].data = node[n].data
  BY <1>1, <1>2, <1>7, HashFindIs DEF SetDirty, NodeRecord
<1>8. ASSUME GetNextDirtyNodeAndClean
      PROVE  /\ ~Contains(mem', n) /\ node'[n].key = k
             /\ node[n].dirty => node'[n].data = node[n].data
  <2>1. Head(dirty_list) \in Nodes
    BY <1>8, TailIs DEF GetNextDirtyNodeAndClean, CacheInv, CacheTypeOK, DirtyQueuedOnce
  <2> QED BY <1>1, <1>2, <1>8, <2>1 DEF GetNextDirtyNodeAndClean, NodeRecord
<1>9. ASSUME NEW j \in Keys, QueryHit(j) \/ OccupyPresent(j) \/ OccupyFail(j)
               \/ QueryMiss(j) \/ SetDataIgnored(j) \/ SetDirtyRefused(j)
      PROVE  /\ ~Contains(mem', n) /\ node'[n].key = k
             /\ node[n].dirty => node'[n].data = node[n].data
  BY <1>1, <1>9 DEF QueryHit, OccupyPresent, OccupyFail, QueryMiss, SetDataIgnored,
                    SetDirtyRefused, cacheVars, lists
<1> QED BY <1>3, <1>4, <1>5, <1>6, <1>7, <1>8, <1>9 DEF CacheNext

\* Neither an unsaved nor a reserved node is ever evicted, in any cache.
THEOREM PinnedNodesSurvive == CacheSpec => PinnedSurvives
<1>1. CacheInv /\ CacheInv' /\ FindExact' /\ [CacheNext]_cacheVars =>
        [\A k \in Keys :
           /\ Unsaved(k) => Held(k)' = Held(k)
           /\ Reserved(k) => \/ hashFind(k)' # NULL
                             \/ SetDataEmpty(k)]_cacheVars
  BY PinnedStep
<1>2. CacheInv' => FindExact'
  BY FindIsExact, PTL
<1> QED BY <1>1, <1>2, CacheInvariant, PTL DEF CacheSpec, PinnedSurvives

----------------------------------------------------------------------------
(* DbCache implements WriteBackCache: every method, seen through the keys of *)
(* the nodes, is one step of the abstract cache or changes nothing of it.    *)

(* A list of nodes seen through a node table f.                            *)

View(f, s) == [i \in DOMAIN s |-> f[s[i]].key]

KeyTables == [Nodes -> NodeRecord]

\* A view is a list of keys as long as the list of nodes.
LEMMA ViewIs ==
  ASSUME NEW f \in KeyTables, NEW s \in Seq(Nodes)
  PROVE  /\ View(f, s) \in Seq(Keys \cup {NULL})
         /\ Len(View(f, s)) = Len(s)
         /\ DOMAIN View(f, s) = 1..Len(s)
         /\ \A i \in 1..Len(s) : View(f, s)[i] = f[s[i]].key
<1>1. DOMAIN s = 1..Len(s) /\ Len(s) \in Nat
  BY LenProperties
<1>2. \A i \in 1..Len(s) : s[i] \in Nodes
  BY ElementOfSeq
<1>3. \A i \in 1..Len(s) : f[s[i]].key \in Keys \cup {NULL}
  BY <1>2 DEF KeyTables, NodeRecord
<1> QED BY <1>1, <1>3 DEF View

\* Two tables that agree on the nodes of a list give the same view.
LEMMA ViewSame ==
  ASSUME NEW f, NEW g, NEW s \in Seq(Nodes),
         \A n \in Nodes : Contains(s, n) => f[n].key = g[n].key
  PROVE  View(f, s) = View(g, s)
<1>1. DOMAIN s = 1..Len(s)
  BY LenProperties
<1>2. \A i \in 1..Len(s) : s[i] \in Nodes /\ Contains(s, s[i])
  BY ElementOfSeq DEF Contains
<1> QED BY <1>1, <1>2 DEF View

\* The view of a tail is the tail of the view.
LEMMA ViewTail ==
  ASSUME NEW f \in KeyTables, NEW s \in Seq(Nodes), s # <<>>
  PROVE  /\ View(f, s) # <<>>
         /\ Head(View(f, s)) = f[Head(s)].key
         /\ View(f, Tail(s)) = Tail(View(f, s))
<1> DEFINE v == View(f, s)  w == View(f, Tail(s))  K == Keys \cup {NULL}
<1>1. /\ Tail(s) \in Seq(Nodes) /\ Len(Tail(s)) = Len(s) - 1
      /\ \A i \in 1..(Len(s) - 1) : Tail(s)[i] = s[i + 1]
      /\ Head(s) = s[1] /\ Len(s) \in Nat \ {0}
  BY HeadTailProperties, LenProperties, EmptySeq
<1>2. /\ v \in Seq(K) /\ Len(v) = Len(s)
      /\ \A i \in 1..Len(s) : v[i] = f[s[i]].key
  BY ViewIs
<1>3. /\ w \in Seq(K) /\ Len(w) = Len(s) - 1
      /\ \A i \in 1..(Len(s) - 1) : w[i] = f[s[i + 1]].key
  <2> DEFINE t == Tail(s)
  <2> HIDE DEF t
  <2>1. t \in Seq(Nodes) /\ Len(t) = Len(s) - 1
    BY <1>1 DEF t
  <2>2. /\ View(f, t) \in Seq(K) /\ Len(View(f, t)) = Len(t)
        /\ \A i \in 1..Len(t) : View(f, t)[i] = f[t[i]].key
    BY <2>1, ViewIs
  <2> QED BY <1>1, <2>1, <2>2 DEF t
<1> HIDE DEF v, w, K
<1>4. v # <<>> /\ Head(v) = v[1]
  BY <1>1, <1>2, EmptySeq, LenProperties
<1>5. /\ Tail(v) \in Seq(K) /\ Len(Tail(v)) = Len(s) - 1
      /\ \A i \in 1..(Len(s) - 1) : Tail(v)[i] = v[i + 1]
  BY <1>2, <1>4, HeadTailProperties
<1>6. \A i \in 1..(Len(s) - 1) : w[i] = Tail(v)[i]
  BY <1>1, <1>2, <1>3, <1>5
<1>7. w = Tail(v)
  BY <1>3, <1>5, <1>6, SeqEqual
<1> QED BY <1>1, <1>2, <1>4, <1>7 DEF v, w

\* The view of an appended list has the new key at its end.
LEMMA ViewAppend ==
  ASSUME NEW f \in KeyTables, NEW s \in Seq(Nodes), NEW n \in Nodes
  PROVE  View(f, Append(s, n)) = Append(View(f, s), f[n].key)
<1> DEFINE v == View(f, s)  w == View(f, Append(s, n))  K == Keys \cup {NULL}
           x == f[n].key
<1>1. /\ Append(s, n) \in Seq(Nodes) /\ Len(Append(s, n)) = Len(s) + 1
      /\ \A i \in 1..Len(s) : Append(s, n)[i] = s[i]
      /\ Append(s, n)[Len(s) + 1] = n
      /\ Len(s) \in Nat
  BY AppendProperties, LenProperties
<1>2. /\ v \in Seq(K) /\ Len(v) = Len(s)
      /\ \A i \in 1..Len(s) : v[i] = f[s[i]].key
  BY ViewIs
<1>3. /\ w \in Seq(K) /\ Len(w) = Len(s) + 1
      /\ \A i \in 1..(Len(s) + 1) : w[i] = f[Append(s, n)[i]].key
  BY <1>1, ViewIs
<1>4. x \in K
  BY DEF KeyTables, NodeRecord
<1> HIDE DEF v, w, K, x
<1>5. /\ Append(v, x) \in Seq(K) /\ Len(Append(v, x)) = Len(s) + 1
      /\ \A i \in 1..Len(s) : Append(v, x)[i] = v[i]
      /\ Append(v, x)[Len(s) + 1] = x
  BY <1>2, <1>4, AppendProperties
<1>6. \A i \in 1..(Len(s) + 1) : w[i] = Append(v, x)[i]
  BY <1>1, <1>2, <1>3, <1>5 DEF x
<1>7. w = Append(v, x)
  BY <1>3, <1>5, <1>6, SeqEqual
<1> QED BY <1>7 DEF v, w, x

\* Unlinking the only node with a key takes that key out of the view.
LEMMA ViewUnlink ==
  ASSUME NEW f \in KeyTables, NEW s \in Seq(Nodes), NEW n \in Nodes,
         Contains(s, n),
         \A m \in Nodes : Contains(s, m) /\ f[m].key = f[n].key => m = n
  PROVE  View(f, Unlink(s, n)) = Promised!Without(View(f, s), f[n].key)
<1> DEFINE v == View(f, s)  K == Keys \cup {NULL}
           x == f[n].key
           p == CHOOSE i \in 1..Len(s) : s[i] = n
           q == CHOOSE i \in 1..Len(v) : v[i] = x
           u == RemoveAt(s, p)
           w == View(f, u)
<1>1. /\ v \in Seq(K) /\ Len(v) = Len(s)
      /\ \A i \in 1..Len(s) : v[i] = f[s[i]].key
  BY ViewIs
<1>2. Len(s) \in Nat /\ \A i \in 1..Len(s) : s[i] \in Nodes /\ Contains(s, s[i])
  BY LenProperties, ElementOfSeq DEF Contains
<1>3. \A i \in 1..Len(s) : v[i] = x <=> s[i] = n
  BY <1>1, <1>2
<1>4. p = q
  BY <1>1, <1>3
<1>5. p \in 1..Len(s)
  BY DEF Contains
<1> HIDE DEF v, x, p, q, K, u, w
<1>6. /\ u \in Seq(Nodes) /\ Len(u) = Len(s) - 1
      /\ \A j \in 1..(Len(s) - 1) : u[j] = IF j < p THEN s[j] ELSE s[j + 1]
  BY <1>5, RemoveAtIs DEF u
<1>7. /\ RemoveAt(v, p) \in Seq(K) /\ Len(RemoveAt(v, p)) = Len(s) - 1
      /\ \A j \in 1..(Len(s) - 1) : RemoveAt(v, p)[j] = IF j < p THEN v[j] ELSE v[j + 1]
  <2>1. v \in Seq(K) /\ Len(v) = Len(s) /\ p \in 1..Len(v)
    BY <1>1, <1>5
  <2>2. /\ RemoveAt(v, p) \in Seq(K) /\ Len(RemoveAt(v, p)) = Len(v) - 1
        /\ \A j \in 1..(Len(v) - 1) : RemoveAt(v, p)[j] = IF j < p THEN v[j] ELSE v[j + 1]
    BY <2>1, RemoveAtIs
  <2> QED BY <2>1, <2>2
<1>8. /\ w \in Seq(K) /\ Len(w) = Len(s) - 1
      /\ \A i \in 1..(Len(s) - 1) : w[i] = f[u[i]].key
  BY <1>6, ViewIs DEF w, K
<1>9. \A i \in 1..(Len(s) - 1) : w[i] = RemoveAt(v, p)[i]
  <2> SUFFICES ASSUME NEW i \in 1..(Len(s) - 1) PROVE w[i] = RemoveAt(v, p)[i]
    OBVIOUS
  <2>1. i \in 1..Len(s) /\ i + 1 \in 1..Len(s)
    BY <1>2
  <2> QED BY <2>1, <1>1, <1>6, <1>7, <1>8
<1>10. w = RemoveAt(v, p)
  BY <1>7, <1>8, <1>9, SeqEqual
<1>11. Unlink(s, n) = u
  BY DEF Unlink, u, p
<1>12. Promised!Without(v, x) = RemoveAt(v, q)
  BY DEF Promised!Without, Promised!RemoveAt, RemoveAt, q
<1> QED BY <1>4, <1>10, <1>11, <1>12 DEF w, v, x

----------------------------------------------------------------------------
(* The abstract state, read off the nodes.                                 *)

LoadingKeys == {k \in Keys : Reserved(k)}
Objects == [k \in Keys |-> Held(k)]
Clean == View(node, lru_clean)
Waiting == View(node, dirty_list)

\* The node hashFind returns, if any, is the one in the ring with that key.
FoundExact ==
  \A k \in Keys :
    /\ hashFind(k) = NULL \/ hashFind(k) \in Nodes
    /\ \A n \in Nodes : hashFind(k) = n <=> InLru(n) /\ node[n].key = k

\* The three kinds of keys are those of the three kinds of nodes.
KindsExact ==
  \A k \in Keys :
    /\ Reserved(k) <=> hashFind(k) # NULL /\ ~Contains(lru_clean, hashFind(k))
                                          /\ ~Contains(dirty_list, hashFind(k))
    /\ Contains(Clean, k) <=> hashFind(k) # NULL /\ Contains(lru_clean, hashFind(k))
    /\ Contains(Waiting, k) <=> hashFind(k) # NULL /\ Contains(dirty_list, hashFind(k))

\* There are as many reserved keys as nodes of the dirty part not to be saved.
CountExact == Cardinality(LoadingKeys) = Len(lru_dirty) - Len(dirty_list)

\* What a step is proved from, before it and after it.
Seen == CacheInv /\ FoundExact /\ KindsExact /\ CountExact

\* hashFind finds the node of a key and nothing else.
LEMMA FoundIs == CacheInv => FoundExact
<1> SUFFICES ASSUME CacheInv, NEW k \in Keys
             PROVE  /\ hashFind(k) = NULL \/ hashFind(k) \in Nodes
                    /\ \A n \in Nodes : hashFind(k) = n <=> InLru(n) /\ node[n].key = k
  BY DEF FoundExact
<1>1. \A n \in Nodes : n # NULL
  BY CacheAssumption
<1>2. FindExact
  BY FindIsExact
<1> QED BY <1>1, <1>2 DEF FindExact, CacheInv, HashExact

\* The three kinds of keys are those of the three kinds of nodes.
LEMMA KindsOfKeys ==
  ASSUME CacheInv, NEW k \in Keys
  PROVE  /\ Reserved(k) <=> hashFind(k) # NULL /\ ~Contains(lru_clean, hashFind(k))
                                               /\ ~Contains(dirty_list, hashFind(k))
         /\ Contains(Clean, k) <=> hashFind(k) # NULL /\ Contains(lru_clean, hashFind(k))
         /\ Contains(Waiting, k) <=> hashFind(k) # NULL /\ Contains(dirty_list, hashFind(k))
<1> DEFINE h == hashFind(k)
<1>1. /\ h = NULL \/ h \in Nodes
      /\ \A n \in Nodes : h = n <=> InLru(n) /\ node[n].key = k
      /\ NULL \notin Nodes
  BY FoundIs, CacheAssumption DEF FoundExact
<1> HIDE DEF h
<1>2. /\ node \in KeyTables
      /\ lru_clean \in Seq(Nodes) /\ dirty_list \in Seq(Nodes)
  BY DEF CacheInv, CacheTypeOK, KeyTables
<1>3. \A n \in Nodes : Contains(dirty_list, n) => Contains(lru_dirty, n)
  BY DEF CacheInv, DirtyQueuedOnce, PoolPartition, InLru
<1>4. Contains(Clean, k) <=> \E n \in Nodes : Contains(lru_clean, n) /\ node[n].key = k
  <2>1. /\ Len(Clean) = Len(lru_clean)
        /\ \A i \in 1..Len(lru_clean) : Clean[i] = node[lru_clean[i]].key
    BY <1>2, ViewIs DEF Clean
  <2>2. \A i \in 1..Len(lru_clean) : lru_clean[i] \in Nodes
    BY <1>2, ElementOfSeq
  <2> QED BY <2>1, <2>2 DEF Contains
<1>5. Contains(Waiting, k) <=> \E n \in Nodes : Contains(dirty_list, n) /\ node[n].key = k
  <2>1. /\ Len(Waiting) = Len(dirty_list)
        /\ \A i \in 1..Len(dirty_list) : Waiting[i] = node[dirty_list[i]].key
    BY <1>2, ViewIs DEF Waiting
  <2>2. \A i \in 1..Len(dirty_list) : dirty_list[i] \in Nodes
    BY <1>2, ElementOfSeq
  <2> QED BY <2>1, <2>2 DEF Contains
<1>6. Contains(Clean, k) <=> h # NULL /\ Contains(lru_clean, h)
  BY <1>1, <1>4 DEF InLru
<1>7. Contains(Waiting, k) <=> h # NULL /\ Contains(dirty_list, h)
  BY <1>1, <1>3, <1>5 DEF InLru
<1>8. Reserved(k) <=> h # NULL /\ ~Contains(lru_clean, h) /\ ~Contains(dirty_list, h)
  BY <1>1 DEF Reserved, h, InLru, CacheInv, DirtyQueuedOnce
<1> QED BY <1>6, <1>7, <1>8 DEF h

\* A list without repetitions has as many nodes as places.
LEMMA ListCardinality ==
  ASSUME NEW s \in Seq(Nodes), IsInjective(s)
  PROVE  LET S == {n \in Nodes : Contains(s, n)} IN
         IsFiniteSet(S) /\ Cardinality(S) = Len(s)
<1> DEFINE S == {n \in Nodes : Contains(s, n)}
<1>1. Len(s) \in Nat /\ DOMAIN s = 1..Len(s)
  BY LenProperties
<1>2. \A i \in 1..Len(s) : s[i] \in S
  BY ElementOfSeq DEF Contains
<1>3. s \in [1..Len(s) -> S]
  BY <1>1, <1>2, LenProperties
<1>4. \A n \in S : \E i \in 1..Len(s) : s[i] = n
  BY DEF Contains
<1> HIDE DEF S
<1>5. s \in Bijection(1..Len(s), S)
  BY <1>1, <1>3, <1>4 DEF Bijection, Injection, Surjection, IsInjective
<1>6. ExistsBijection(1..Len(s), S)
  BY <1>5 DEF ExistsBijection
<1>7. Cardinality(S) = Len(s)
  BY <1>1, <1>6, FS_CountingElements
<1>8. IsFiniteSet(S)
  BY <1>1, <1>6, FS_NatBijection
<1> QED BY <1>7, <1>8 DEF S

\* There are as many reserved keys as nodes of the dirty part not to be saved.
LEMMA LoadingCardinality ==
  ASSUME CacheInv
  PROVE  Cardinality(LoadingKeys) = Len(lru_dirty) - Len(dirty_list)
<1> DEFINE D == {n \in Nodes : Contains(lru_dirty, n)}
           W == {n \in Nodes : Contains(dirty_list, n)}
           f == [n \in D \ W |-> node[n].key]
<1>1. /\ lru_dirty \in Seq(Nodes) /\ IsInjective(lru_dirty)
      /\ dirty_list \in Seq(Nodes) /\ IsInjective(dirty_list)
  BY DEF CacheInv, CacheTypeOK, PoolPartition, DirtyQueuedOnce
<1>2. /\ IsFiniteSet(D) /\ Cardinality(D) = Len(lru_dirty)
      /\ IsFiniteSet(W) /\ Cardinality(W) = Len(dirty_list)
  BY <1>1, ListCardinality
<1>3. D \cap W = W
  BY DEF CacheInv, DirtyQueuedOnce, PoolPartition, InLru
<1>4. IsFiniteSet(D \ W) /\ Cardinality(D \ W) = Len(lru_dirty) - Len(dirty_list)
  <2> HIDE DEF D, W
  <2>1. IsFiniteSet(D \ W) /\ Cardinality(D \ W) = Cardinality(D) - Cardinality(D \cap W)
    BY <1>2, FS_Difference
  <2> QED BY <1>2, <1>3, <2>1
<1>5. \A n \in D \ W : /\ node[n].key \in Keys
                       /\ hashFind(node[n].key) = n
                       /\ Reserved(node[n].key)
  <2> SUFFICES ASSUME NEW n \in D \ W
               PROVE  /\ node[n].key \in Keys
                      /\ hashFind(node[n].key) = n
                      /\ Reserved(node[n].key)
    OBVIOUS
  <2>1. n \in Nodes /\ InLru(n) /\ ~Contains(lru_clean, n) /\ ~Contains(dirty_list, n)
    BY DEF CacheInv, PoolPartition, InLru
  <2>2. node[n].key \in Keys /\ hashFind(node[n].key) = n
    BY <2>1, HashFindOf
  <2> QED BY <2>1, <2>2, KindsOfKeys, CacheAssumption
<1>6. \A k \in LoadingKeys : hashFind(k) \in D \ W /\ node[hashFind(k)].key = k
  <2> SUFFICES ASSUME NEW k \in Keys, Reserved(k)
               PROVE  hashFind(k) \in D \ W /\ node[hashFind(k)].key = k
    BY DEF LoadingKeys
  <2> QED BY FoundIs, KindsOfKeys DEF FoundExact, InLru
<1>7. f \in Bijection(D \ W, LoadingKeys)
  <2>1. f \in [D \ W -> LoadingKeys]
    BY <1>5 DEF LoadingKeys
  <2>2. \A m, n \in D \ W : f[m] = f[n] => m = n
    BY <1>5
  <2>3. \A k \in LoadingKeys : \E n \in D \ W : f[n] = k
    BY <1>6
  <2> HIDE DEF f, D, W
  <2> QED BY <2>1, <2>2, <2>3 DEF Bijection, Injection, Surjection, IsInjective
<1> HIDE DEF D, W, f
<1>8. ExistsBijection(D \ W, LoadingKeys)
  BY <1>7 DEF ExistsBijection
<1> QED BY <1>4, <1>8, FS_Bijection

\* All of it follows from the invariant.
LEMMA SeenFromInv == CacheInv => Seen
  BY FoundIs, KindsOfKeys, LoadingCardinality DEF Seen, KindsExact, CountExact

----------------------------------------------------------------------------
(* The steps.                                                              *)

\* The mapping's lists are the views above, before and after a step.
LEMMA ViewsAre ==
  /\ KeysOf(lru_clean) = Clean /\ KeysOf(lru_clean)' = View(node', lru_clean')
  /\ KeysOf(dirty_list) = Waiting /\ KeysOf(dirty_list)' = View(node', dirty_list')
  BY DEF KeysOf, View, Clean, Waiting

\* A step that changes one node only changes nothing for the keys which that
\* node has neither before nor after.
LEMMA OtherKeys ==
  ASSUME Seen, Seen', NEW n \in Nodes, NEW j \in Keys,
         \A m \in Nodes \ {n} : node'[m] = node[m] /\ (InLru(m)' <=> InLru(m)),
         ~(InLru(n) /\ node[n].key = j),
         ~(InLru(n)' /\ node'[n].key = j)
  PROVE  /\ hashFind(j)' = hashFind(j)
         /\ Reserved(j)' <=> Reserved(j)
         /\ Held(j)' = Held(j)
<1>1. hashFind(j)' = hashFind(j) /\ hashFind(j) # n
  BY CacheAssumption DEF Seen, FoundExact
<1>2. hashFind(j) # NULL => node'[hashFind(j)] = node[hashFind(j)]
  BY <1>1 DEF Seen, FoundExact
<1> QED BY <1>1, <1>2 DEF Reserved, Held

\* The abstract guard of a reservation.
LEMMA AbsentIs ==
  ASSUME Seen, NEW k \in Keys
  PROVE  Promised!Absent(k) <=> hashFind(k) = NULL
<1>1. Contains(KeysOf(lru_clean), k) <=> hashFind(k) # NULL /\ Contains(lru_clean, hashFind(k))
  BY ViewsAre DEF Seen, KindsExact
<1>2. Contains(KeysOf(dirty_list), k) <=> hashFind(k) # NULL /\ Contains(dirty_list, hashFind(k))
  BY ViewsAre DEF Seen, KindsExact
<1>3. Promised!Absent(k) <=> /\ ~Reserved(k)
                             /\ ~Contains(KeysOf(lru_clean), k)
                             /\ ~Contains(KeysOf(dirty_list), k)
  BY DEF Promised!Absent, Promised!Contains, Contains
<1> QED BY <1>1, <1>2, <1>3 DEF Seen, KindsExact

\* There is room for one more key exactly when a node is free.
LEMMA RoomIs ==
  ASSUME Seen
  PROVE  /\ Promised!Room <=> mem # <<>>
         /\ Len(KeysOf(lru_clean)) = clean_size
         /\ KeysOf(lru_clean) = <<>> <=> lru_clean = <<>>
<1>1. /\ node \in KeyTables
      /\ lru_clean \in Seq(Nodes) /\ dirty_list \in Seq(Nodes)
      /\ lru_dirty \in Seq(Nodes) /\ mem \in Seq(Nodes)
      /\ Len(mem) + Len(lru_clean) + Len(lru_dirty) = node_size
      /\ Len(lru_clean) = clean_size
  BY DEF Seen, CacheInv, CacheTypeOK, KeyTables, PoolPartition, SizesExact
<1>2. /\ KeysOf(lru_clean) \in Seq(Keys \cup {NULL})
      /\ Len(KeysOf(lru_clean)) = Len(lru_clean)
      /\ Len(KeysOf(dirty_list)) = Len(dirty_list)
  BY <1>1, ViewsAre, ViewIs DEF Clean, Waiting
<1>3. Promised!Room <=> Cardinality(LoadingKeys) + Len(KeysOf(lru_clean)) + Len(KeysOf(dirty_list)) < node_size
  BY DEF Promised!Room, Promised!Cardinality, Cardinality, LoadingKeys
<1>4. mem = <<>> <=> Len(mem) = 0
  BY <1>1, EmptySeq
<1>5. /\ Len(mem) \in Nat /\ Len(lru_clean) \in Nat /\ Len(lru_dirty) \in Nat
      /\ Len(dirty_list) \in Nat /\ node_size \in Nat
  BY <1>1, LenProperties, CacheAssumption
<1>6. KeysOf(lru_clean) = <<>> <=> Len(KeysOf(lru_clean)) = 0
  BY <1>2, EmptySeq
<1>7. lru_clean = <<>> <=> Len(lru_clean) = 0
  BY <1>1, EmptySeq
<1> QED BY <1>1, <1>2, <1>3, <1>4, <1>5, <1>6, <1>7 DEF Seen, CountExact

\* occupy with a free node is Reserve with room.
LEMMA OccupyFreeReserves ==
  ASSUME Seen, Seen', NEW k \in Keys, OccupyFree(k)
  PROVE  Promised!Reserve(k)
<1>0. PICK n \in Nodes : n = Head(mem)
  BY TailIs DEF OccupyFree, MallocFromPool, Seen, CacheInv, CacheTypeOK, PoolPartition
<1>1. /\ Contains(mem, n) /\ mem # <<>>
      /\ clean_size < max_clean_size /\ hashFind(k) = NULL
      /\ node' = [node EXCEPT ![n] = [FreshNode EXCEPT !.key = k]]
      /\ lru_dirty' = Append(lru_dirty, n)
      /\ lru_clean' = lru_clean /\ dirty_list' = dirty_list
  BY <1>0, TailIs DEF OccupyFree, MallocFromPool, Seen, CacheInv, CacheTypeOK, PoolPartition
<1>2. /\ ~Contains(lru_clean, n) /\ ~Contains(lru_dirty, n) /\ ~Contains(dirty_list, n)
      /\ ~InLru(n)
  BY <1>1 DEF Seen, CacheInv, PoolPartition, DirtyQueuedOnce, InLru
<1>3. \A m : Contains(lru_dirty', m) <=> Contains(lru_dirty, m) \/ m = n
  BY <1>1, <1>2, AppendIs DEF Seen, CacheInv, CacheTypeOK, PoolPartition
<1>4. /\ \A m \in Nodes \ {n} : node'[m] = node[m] /\ (InLru(m)' <=> InLru(m))
      /\ node'[n].key = k /\ node'[n].data = NULL /\ InLru(n)'
      /\ lru_clean \in Seq(Nodes) /\ dirty_list \in Seq(Nodes)
  <2>1. InLru(n)' /\ \A m \in Nodes \ {n} : InLru(m)' <=> InLru(m)
    BY <1>1, <1>3 DEF InLru
  <2>2. \A m \in Nodes \ {n} : node'[m] = node[m]
    BY <1>1 DEF Seen, CacheInv, CacheTypeOK
  <2>3. node'[n].key = k /\ node'[n].data = NULL
    BY <1>1 DEF Seen, CacheInv, CacheTypeOK, FreshNode
  <2> QED BY <2>1, <2>2, <2>3 DEF Seen, CacheInv, CacheTypeOK
<1>5. hashFind(k)' = n /\ n # NULL
  <2>1. n # NULL
    BY <1>1, CacheAssumption
  <2>2. hashFind(k)' = n
    BY <1>1, <1>4 DEF Seen, FoundExact
  <2> QED BY <2>1, <2>2
<1>6. \A j \in Keys \ {k} : (Reserved(j)' <=> Reserved(j)) /\ Held(j)' = Held(j)
  BY <1>1, <1>2, <1>4, OtherKeys
<1>7. Reserved(k)' /\ Held(k)' = NULL /\ Held(k) = NULL
  BY <1>1, <1>4, <1>5 DEF Reserved, Held
<1>8. {j \in Keys : Reserved(j)}' = {j \in Keys : Reserved(j)} \cup {k}
  BY <1>6, <1>7
<1>9. [j \in Keys |-> Held(j)]' = [j \in Keys |-> Held(j)]
  BY <1>6, <1>7
<1>10. View(node', lru_clean) = View(node, lru_clean)
  BY <1>2, <1>4, ViewSame
<1>11. View(node', dirty_list) = View(node, dirty_list)
  BY <1>2, <1>4, ViewSame
<1>12. KeysOf(lru_clean)' = KeysOf(lru_clean) /\ KeysOf(dirty_list)' = KeysOf(dirty_list)
  BY <1>1, <1>10, <1>11, ViewsAre DEF Clean, Waiting
<1>13. Promised!Absent(k) /\ Promised!Room /\ Len(KeysOf(lru_clean)) < max_clean_size
  BY <1>1, AbsentIs, RoomIs
<1> QED BY <1>8, <1>9, <1>12, <1>13 DEF Promised!Reserve

\* occupy by eviction is Reserve without room: the least recently used goes.
LEMMA OccupyEvictReserves ==
  ASSUME Seen, Seen', NEW k \in Keys, OccupyEvict(k)
  PROVE  Promised!Reserve(k)
<1>0. PICK n \in Nodes : n = Head(lru_clean)
  BY TailIs DEF OccupyEvict, MallocByEviction, Seen, CacheInv, CacheTypeOK, PoolPartition
<1>1. /\ Contains(lru_clean, n) /\ lru_clean # <<>>
      /\ ~(mem # <<>> /\ clean_size < max_clean_size) /\ hashFind(k) = NULL
      /\ node' = [node EXCEPT ![n] = [FreshNode EXCEPT !.key = k]]
      /\ lru_dirty' = Append(lru_dirty, n)
      /\ lru_clean' = Tail(lru_clean) /\ dirty_list' = dirty_list
      /\ \A m : Contains(Tail(lru_clean), m) <=> Contains(lru_clean, m) /\ m # n
      /\ Tail(lru_clean) \in Seq(Nodes)
  BY <1>0, TailIs DEF OccupyEvict, MallocByEviction, MallocFromPool, Seen, CacheInv,
                      CacheTypeOK, PoolPartition
<1>2. ~Contains(lru_dirty, n) /\ ~Contains(dirty_list, n) /\ InLru(n)
  BY <1>1 DEF Seen, CacheInv, PoolPartition, DirtyQueuedOnce, InLru
<1>3. PICK o \in Keys : o = node[n].key /\ hashFind(o) = n
  BY <1>1, <1>2, HashFindOf DEF Seen
<1>4. View(node, lru_clean) # <<>> /\ Head(View(node, lru_clean)) = o
      /\ View(node, Tail(lru_clean)) = Tail(View(node, lru_clean))
  BY <1>0, <1>1, <1>3, ViewTail DEF Seen, CacheInv, CacheTypeOK, KeyTables
<1>5. \A m : Contains(lru_dirty', m) <=> Contains(lru_dirty, m) \/ m = n
  BY <1>1, <1>2, AppendIs DEF Seen, CacheInv, CacheTypeOK, PoolPartition
<1>6. /\ \A m \in Nodes \ {n} : node'[m] = node[m] /\ (InLru(m)' <=> InLru(m))
      /\ node'[n].key = k /\ node'[n].data = NULL /\ InLru(n)' /\ node[n].key = o
      /\ dirty_list \in Seq(Nodes)
  <2>1. InLru(n)' /\ \A m \in Nodes \ {n} : InLru(m)' <=> InLru(m)
    BY <1>1, <1>5 DEF InLru
  <2>2. \A m \in Nodes \ {n} : node'[m] = node[m]
    BY <1>1 DEF Seen, CacheInv, CacheTypeOK
  <2>3. node'[n].key = k /\ node'[n].data = NULL
    BY <1>1 DEF Seen, CacheInv, CacheTypeOK, FreshNode
  <2> QED BY <2>1, <2>2, <2>3, <1>3 DEF Seen, CacheInv, CacheTypeOK
<1>7. hashFind(k)' = n /\ n # NULL /\ o # k
  <2>1. n # NULL
    BY <1>1, CacheAssumption
  <2>2. hashFind(k)' = n
    BY <1>1, <1>6 DEF Seen, FoundExact
  <2> QED BY <2>1, <2>2, <1>1, <1>3
<1>8. \A j \in Keys \ {k, o} : (Reserved(j)' <=> Reserved(j)) /\ Held(j)' = Held(j)
  BY <1>1, <1>6, OtherKeys
<1>9. Reserved(k)' /\ Held(k)' = NULL /\ Held(k) = NULL
  BY <1>1, <1>6, <1>7 DEF Reserved, Held
<1>10. hashFind(o)' = NULL
  <2>1. ASSUME NEW m \in Nodes, InLru(m)', node'[m].key = o PROVE FALSE
    <3>1. m # n
      BY <2>1, <1>6, <1>7
    <3>2. InLru(m) /\ node[m].key = o
      BY <3>1, <2>1, <1>6
    <3>3. hashFind(o) = m
      BY <3>2, <1>3 DEF Seen, FoundExact
    <3> QED BY <3>1, <3>3, <1>3
  <2>2. hashFind(o)' = NULL \/ hashFind(o)' \in Nodes
    BY <1>3 DEF Seen, FoundExact
  <2>3. ASSUME NEW m \in Nodes, hashFind(o)' = m PROVE FALSE
    <3>1. InLru(m)' /\ node'[m].key = o
      BY <2>3, <1>3 DEF Seen, FoundExact
    <3> QED BY <3>1, <2>1
  <2> QED BY <2>2, <2>3
<1>11. ~Reserved(o)' /\ ~Reserved(o) /\ Held(o)' = NULL
  BY <1>1, <1>3, <1>10 DEF Reserved, Held, Seen, CacheInv, DirtyQueuedOnce
<1>12. {j \in Keys : Reserved(j)}' = {j \in Keys : Reserved(j)} \cup {k}
  <2>1. \A j \in Keys : Reserved(j)' <=> Reserved(j) \/ j = k
    BY <1>8, <1>9, <1>11
  <2> QED BY <2>1
<1>13. [j \in Keys |-> Held(j)]' = [[j \in Keys |-> Held(j)] EXCEPT ![o] = NULL]
  <2>1. \A j \in Keys : Held(j)' = IF j = o THEN NULL ELSE Held(j)
    BY <1>8, <1>9, <1>11
  <2> QED BY <2>1, <1>3
<1>14. View(node', Tail(lru_clean)) = View(node, Tail(lru_clean))
  <2> DEFINE t == Tail(lru_clean)
  <2>1. t \in Seq(Nodes) /\ \A m \in Nodes : Contains(t, m) => m # n
    BY <1>1
  <2> HIDE DEF t
  <2>2. View(node', t) = View(node, t)
    BY <2>1, <1>6, ViewSame
  <2> QED BY <2>2 DEF t
<1>15. View(node', dirty_list) = View(node, dirty_list)
  BY <1>2, <1>6, ViewSame
<1>16. /\ KeysOf(lru_clean)' = Tail(KeysOf(lru_clean)) /\ Head(KeysOf(lru_clean)) = o
       /\ KeysOf(dirty_list)' = KeysOf(dirty_list)
  BY <1>1, <1>4, <1>14, <1>15, ViewsAre DEF Clean, Waiting
<1>17. /\ Promised!Absent(k) /\ ~(Promised!Room /\ Len(KeysOf(lru_clean)) < max_clean_size)
       /\ KeysOf(lru_clean) # <<>>
  BY <1>1, AbsentIs, RoomIs
<1> QED BY <1>12, <1>13, <1>16, <1>17 DEF Promised!Reserve

\* A step that moves no node in or out of the LRU and changes no key finds
\* what was found before.
LEMMA SameFinds ==
  ASSUME Seen, Seen',
         \A m \in Nodes : node'[m].key = node[m].key /\ (InLru(m)' <=> InLru(m))
  PROVE  \A j \in Keys : hashFind(j)' = hashFind(j)
<1> SUFFICES ASSUME NEW j \in Keys PROVE hashFind(j)' = hashFind(j)
  OBVIOUS
<1>1. CASE hashFind(j) \in Nodes
  BY <1>1 DEF Seen, FoundExact
<1>2. CASE hashFind(j)' \in Nodes
  BY <1>2 DEF Seen, FoundExact
<1>3. CASE hashFind(j) = NULL /\ hashFind(j)' = NULL
  BY <1>3
<1> QED BY <1>1, <1>2, <1>3 DEF Seen, FoundExact

\* setData with an object is Loaded.
LEMMA SetDataLoadedLoads ==
  ASSUME Seen, Seen', NEW k \in Keys, NEW d \in Data, SetDataLoaded(k, d)
  PROVE  Promised!Loaded(k, d)
<1>0. PICK n \in Nodes : n = hashFind(k)
  BY DEF SetDataLoaded, Seen, FoundExact
<1>1. /\ n # NULL /\ node[n].data = NULL /\ node[n].key = k /\ InLru(n)
      /\ node' = [node EXCEPT ![n].data = d]
      /\ LruSortClean(n) /\ dirty_list' = dirty_list
  BY <1>0 DEF SetDataLoaded, Seen, FoundExact
<1>2. ~Contains(lru_clean, n) /\ Contains(lru_dirty, n) /\ ~Contains(dirty_list, n)
  BY <1>1 DEF Seen, CacheInv, DirtyQueuedOnce, InLru
<1>3. /\ lru_clean' = Append(lru_clean, n)
      /\ \A m \in Nodes : InLru(m)' <=> InLru(m)
  <2>1. lru_clean' = Append(lru_clean, n)
    BY <1>1, <1>2 DEF LruSortClean, Unlink
  <2>2. /\ \A m : Contains(lru_clean', m) <=> Contains(lru_clean, m) \/ m = n
        /\ \A m : Contains(lru_dirty', m) <=> Contains(lru_dirty, m) /\ m # n
    BY <1>1, LruSortCleanIs DEF Seen
  <2> QED BY <2>1, <2>2, <1>1 DEF InLru
<1>4. /\ \A m \in Nodes \ {n} : node'[m] = node[m]
      /\ node'[n].key = k /\ node'[n].data = d
      /\ node \in KeyTables /\ node' \in KeyTables
      /\ lru_clean \in Seq(Nodes) /\ dirty_list \in Seq(Nodes)
      /\ \A m \in Nodes : node'[m].key = node[m].key
  BY <1>1 DEF Seen, CacheInv, CacheTypeOK, KeyTables, NodeRecord
<1>5. \A j \in Keys : hashFind(j)' = hashFind(j)
  BY <1>1, <1>3, <1>4, SameFinds
<1>6. \A j \in Keys \ {k} : (Reserved(j)' <=> Reserved(j)) /\ Held(j)' = Held(j)
  BY <1>1, <1>3, <1>4, OtherKeys
<1>7. Reserved(k) /\ ~Reserved(k)' /\ Held(k)' = d
  BY <1>0, <1>1, <1>4, <1>5, CacheAssumption DEF Reserved, Held
<1>8. {j \in Keys : Reserved(j)}' = {j \in Keys : Reserved(j)} \ {k}
  BY <1>6, <1>7
<1>9. [j \in Keys |-> Held(j)]' = [[j \in Keys |-> Held(j)] EXCEPT ![k] = d]
  <2>1. \A j \in Keys : Held(j)' = IF j = k THEN d ELSE Held(j)
    BY <1>6, <1>7
  <2> QED BY <2>1
<1>10. View(node', Append(lru_clean, n)) = Append(View(node', lru_clean), k)
  BY <1>4, ViewAppend
<1>11. View(node', lru_clean) = View(node, lru_clean)
  BY <1>4, ViewSame
<1>12. View(node', dirty_list) = View(node, dirty_list)
  BY <1>4, ViewSame
<1>13. /\ KeysOf(lru_clean)' = Append(KeysOf(lru_clean), k)
       /\ KeysOf(dirty_list)' = KeysOf(dirty_list)
  BY <1>1, <1>3, <1>10, <1>11, <1>12, ViewsAre DEF Clean, Waiting
<1> QED BY <1>7, <1>8, <1>9, <1>13 DEF Promised!Loaded

\* setData with null is LoadFailed.
LEMMA SetDataEmptyFails ==
  ASSUME Seen, Seen', NEW k \in Keys, SetDataEmpty(k)
  PROVE  Promised!LoadFailed(k)
<1>0. PICK n \in Nodes : n = hashFind(k)
  BY DEF SetDataEmpty, Seen, FoundExact
<1>1. /\ n # NULL /\ node[n].data = NULL /\ node[n].key = k /\ InLru(n)
      /\ node' = [node EXCEPT ![n] = FreshNode]
      /\ lru_clean' = Unlink(lru_clean, n) /\ lru_dirty' = Unlink(lru_dirty, n)
      /\ dirty_list' = dirty_list
  BY <1>0 DEF SetDataEmpty, Seen, FoundExact
<1>2. ~Contains(lru_clean, n) /\ ~Contains(dirty_list, n)
  BY <1>1 DEF Seen, CacheInv, DirtyQueuedOnce, InLru
<1>3. /\ lru_clean' = lru_clean
      /\ \A m \in Nodes : InLru(m)' <=> InLru(m) /\ m # n
  <2>1. lru_clean' = lru_clean
    BY <1>1, <1>2 DEF Unlink
  <2>2. \A m : Contains(lru_dirty', m) <=> Contains(lru_dirty, m) /\ m # n
    BY <1>1, UnlinkIs DEF Seen, CacheInv, CacheTypeOK, PoolPartition
  <2> QED BY <2>1, <2>2, <1>2 DEF InLru
<1>4. /\ \A m \in Nodes \ {n} : node'[m] = node[m]
      /\ lru_clean \in Seq(Nodes) /\ dirty_list \in Seq(Nodes)
  BY <1>1 DEF Seen, CacheInv, CacheTypeOK
<1>5. hashFind(k)' = NULL
  <2>1. ASSUME NEW m \in Nodes, hashFind(k)' = m PROVE FALSE
    <3>1. InLru(m)' /\ node'[m].key = k
      BY <2>1 DEF Seen, FoundExact
    <3>2. m # n /\ InLru(m) /\ node[m].key = k
      BY <3>1, <1>3, <1>4
    <3> QED BY <3>2, <1>0 DEF Seen, FoundExact
  <2> QED BY <2>1 DEF Seen, FoundExact
<1>6. \A j \in Keys \ {k} : (Reserved(j)' <=> Reserved(j)) /\ Held(j)' = Held(j)
  BY <1>1, <1>3, <1>4, OtherKeys
<1>7. Reserved(k) /\ ~Reserved(k)' /\ Held(k)' = NULL /\ Held(k) = NULL
  BY <1>0, <1>1, <1>5 DEF Reserved, Held
<1>8. {j \in Keys : Reserved(j)}' = {j \in Keys : Reserved(j)} \ {k}
  BY <1>6, <1>7
<1>9. [j \in Keys |-> Held(j)]' = [j \in Keys |-> Held(j)]
  BY <1>6, <1>7
<1>10. View(node', lru_clean) = View(node, lru_clean)
  BY <1>2, <1>4, ViewSame
<1>11. View(node', dirty_list) = View(node, dirty_list)
  BY <1>2, <1>4, ViewSame
<1>12. KeysOf(lru_clean)' = KeysOf(lru_clean) /\ KeysOf(dirty_list)' = KeysOf(dirty_list)
  BY <1>1, <1>3, <1>10, <1>11, ViewsAre DEF Clean, Waiting
<1> QED BY <1>7, <1>8, <1>9, <1>12 DEF Promised!LoadFailed

\* A step that keeps hashFind and every node's data and queueing keeps what is
\* reserved and held.
LEMMA SameObjects ==
  ASSUME Seen,
         \A j \in Keys : hashFind(j)' = hashFind(j),
         \A m \in Nodes : node'[m].data = node[m].data
  PROVE  /\ {j \in Keys : Reserved(j)}' = {j \in Keys : Reserved(j)}
         /\ [j \in Keys |-> Held(j)]' = [j \in Keys |-> Held(j)]
<1>1. \A j \in Keys : (Reserved(j)' <=> Reserved(j)) /\ Held(j)' = Held(j)
  BY DEF Seen, FoundExact, Reserved, Held
<1> QED BY <1>1

\* query that finds the object of a clean key is Use; a key that waits to be
\* saved keeps its place.
LEMMA QueryHitUses ==
  ASSUME Seen, Seen', NEW k \in Keys, QueryHit(k)
  PROVE  Promised!Use(k) \/ UNCHANGED cacheVars
<1> SUFFICES ASSUME ~node[hashFind(k)].dirty PROVE Promised!Use(k)
  BY DEF QueryHit, cacheVars, lists
<1>0. PICK n \in Nodes : n = hashFind(k)
  BY DEF QueryHit, Seen, FoundExact
<1>1. /\ n # NULL /\ node[n].data # NULL /\ node[n].key = k /\ InLru(n)
      /\ ~node[n].dirty /\ LruSortClean(n)
      /\ node' = node /\ dirty_list' = dirty_list
  BY <1>0 DEF QueryHit, Seen, FoundExact
<1>2. Contains(lru_clean, n)
  BY <1>1 DEF Seen, CacheInv, DirtyQueuedOnce, InLru
<1>3. /\ Unlink(lru_clean, n) \in Seq(Nodes)
      /\ lru_clean' = Append(Unlink(lru_clean, n), n)
      /\ \A m \in Nodes : InLru(m)' <=> InLru(m)
  <2>1. Unlink(lru_clean, n) \in Seq(Nodes) /\ lru_clean' = Append(Unlink(lru_clean, n), n)
    BY <1>1, UnlinkIs DEF LruSortClean, Seen, CacheInv, CacheTypeOK, PoolPartition
  <2>2. /\ \A m : Contains(lru_clean', m) <=> Contains(lru_clean, m) \/ m = n
        /\ \A m : Contains(lru_dirty', m) <=> Contains(lru_dirty, m) /\ m # n
    BY <1>1, LruSortCleanIs DEF Seen
  <2> QED BY <2>1, <2>2, <1>1 DEF InLru
<1>4. \A j \in Keys : hashFind(j)' = hashFind(j)
  BY <1>1, <1>3, SameFinds
<1>5. /\ {j \in Keys : Reserved(j)}' = {j \in Keys : Reserved(j)}
      /\ [j \in Keys |-> Held(j)]' = [j \in Keys |-> Held(j)]
  BY <1>1, <1>4, SameObjects
<1>6. View(node, Unlink(lru_clean, n)) = Promised!Without(View(node, lru_clean), k)
  <2>1. \A m \in Nodes : Contains(lru_clean, m) /\ node[m].key = node[n].key => m = n
    BY <1>1 DEF Seen, CacheInv, HashExact, InLru
  <2>2. node \in KeyTables /\ lru_clean \in Seq(Nodes)
    BY DEF Seen, CacheInv, CacheTypeOK, KeyTables
  <2> QED BY <2>1, <2>2, <1>1, <1>2, ViewUnlink
<1>7. View(node, Append(Unlink(lru_clean, n), n)) = Append(View(node, Unlink(lru_clean, n)), k)
  BY <1>1, <1>3, ViewAppend DEF Seen, CacheInv, CacheTypeOK, KeyTables
<1>8. /\ KeysOf(lru_clean)' = Append(Promised!Without(KeysOf(lru_clean), k), k)
      /\ KeysOf(dirty_list)' = KeysOf(dirty_list)
  BY <1>1, <1>3, <1>6, <1>7, ViewsAre DEF Clean, Waiting
<1>9. Promised!Contains(KeysOf(lru_clean), k)
  <2>1. Contains(Clean, k)
    BY <1>0, <1>1, <1>2 DEF Seen, KindsExact
  <2> QED BY <2>1, ViewsAre DEF Promised!Contains, Contains
<1> QED BY <1>5, <1>8, <1>9 DEF Promised!Use

\* setDirty of a clean key is Change.
LEMMA SetDirtyChanges ==
  ASSUME Seen, Seen', NEW k \in Keys, SetDirty(k)
  PROVE  Promised!Change(k)
<1>0. PICK n \in Nodes : n = hashFind(k)
  BY DEF SetDirty, Seen, FoundExact
<1>1. /\ n # NULL /\ node[n].data # NULL /\ node[n].key = k /\ InLru(n)
      /\ ~node[n].dirty /\ LruSortDirty(n)
      /\ node' = [node EXCEPT ![n].dirty = TRUE]
      /\ dirty_list' = Append(dirty_list, n)
  BY <1>0 DEF SetDirty, Seen, FoundExact
<1>2. Contains(lru_clean, n)
  BY <1>1 DEF Seen, CacheInv, DirtyQueuedOnce, InLru
<1>3. /\ Unlink(lru_clean, n) \in Seq(Nodes)
      /\ lru_clean' = Unlink(lru_clean, n)
      /\ \A m \in Nodes : InLru(m)' <=> InLru(m)
  <2>1. Unlink(lru_clean, n) \in Seq(Nodes) /\ lru_clean' = Unlink(lru_clean, n)
    BY <1>1, UnlinkIs DEF LruSortDirty, Seen, CacheInv, CacheTypeOK, PoolPartition
  <2>2. /\ \A m : Contains(lru_clean', m) <=> Contains(lru_clean, m) /\ m # n
        /\ \A m : Contains(lru_dirty', m) <=> Contains(lru_dirty, m) \/ m = n
    BY <1>1, LruSortDirtyIs DEF Seen
  <2> QED BY <2>1, <2>2, <1>1 DEF InLru
<1>4. /\ \A m \in Nodes : node'[m].key = node[m].key /\ node'[m].data = node[m].data
      /\ node \in KeyTables /\ node' \in KeyTables
      /\ lru_clean \in Seq(Nodes) /\ dirty_list \in Seq(Nodes)
  BY <1>1 DEF Seen, CacheInv, CacheTypeOK, KeyTables, NodeRecord
<1>5. \A j \in Keys : hashFind(j)' = hashFind(j)
  BY <1>3, <1>4, SameFinds
<1>6. /\ {j \in Keys : Reserved(j)}' = {j \in Keys : Reserved(j)}
      /\ [j \in Keys |-> Held(j)]' = [j \in Keys |-> Held(j)]
  BY <1>4, <1>5, SameObjects
<1>7. View(node, Unlink(lru_clean, n)) = Promised!Without(View(node, lru_clean), k)
  <2>1. \A m \in Nodes : Contains(lru_clean, m) /\ node[m].key = node[n].key => m = n
    BY <1>1 DEF Seen, CacheInv, HashExact, InLru
  <2> QED BY <2>1, <1>1, <1>2, <1>4, ViewUnlink
<1>8. View(node', Unlink(lru_clean, n)) = View(node, Unlink(lru_clean, n))
  <2> DEFINE u == Unlink(lru_clean, n)
  <2>1. u \in Seq(Nodes)
    BY <1>3
  <2> HIDE DEF u
  <2>2. View(node', u) = View(node, u)
    BY <2>1, <1>4, ViewSame
  <2> QED BY <2>2 DEF u
<1>9. View(node', Append(dirty_list, n)) = Append(View(node', dirty_list), k)
  <2>1. node'[n].key = k
    BY <1>1, <1>4
  <2> QED BY <2>1, <1>4, ViewAppend
<1>10. View(node', dirty_list) = View(node, dirty_list)
  BY <1>4, ViewSame
<1>11. /\ KeysOf(lru_clean)' = Promised!Without(KeysOf(lru_clean), k)
       /\ KeysOf(dirty_list)' = Append(KeysOf(dirty_list), k)
  BY <1>1, <1>3, <1>7, <1>8, <1>9, <1>10, ViewsAre DEF Clean, Waiting
<1>12. Promised!Contains(KeysOf(lru_clean), k)
  <2>1. Contains(Clean, k)
    BY <1>0, <1>1, <1>2 DEF Seen, KindsExact
  <2> QED BY <2>1, ViewsAre DEF Promised!Contains, Contains
<1> QED BY <1>6, <1>11, <1>12 DEF Promised!Change

\* Unlinking the head of a list leaves its tail.
LEMMA UnlinkHead ==
  ASSUME NEW s \in Seq(Nodes), s # <<>>, IsInjective(s)
  PROVE  Unlink(s, Head(s)) = Tail(s)
<1> DEFINE p == CHOOSE i \in 1..Len(s) : s[i] = Head(s)
<1>1. /\ Head(s) = s[1] /\ Len(s) \in Nat \ {0} /\ DOMAIN s = 1..Len(s)
      /\ Tail(s) \in Seq(Nodes) /\ Len(Tail(s)) = Len(s) - 1
      /\ \A i \in 1..(Len(s) - 1) : Tail(s)[i] = s[i + 1]
  BY HeadTailProperties, LenProperties, EmptySeq
<1>2. p = 1
  <2>1. 1 \in 1..Len(s) /\ s[1] = Head(s)
    BY <1>1
  <2>2. p \in 1..Len(s) /\ s[p] = Head(s)
    BY <2>1
  <2> QED BY <2>1, <2>2, <1>1 DEF IsInjective
<1>3. Unlink(s, Head(s)) = RemoveAt(s, 1)
  <2>1. Contains(s, Head(s))
    BY <1>1 DEF Contains
  <2> QED BY <2>1, <1>2 DEF Unlink
<1>4. /\ RemoveAt(s, 1) \in Seq(Nodes) /\ Len(RemoveAt(s, 1)) = Len(s) - 1
      /\ \A j \in 1..(Len(s) - 1) : RemoveAt(s, 1)[j] = s[j + 1]
  <2>1. 1 \in 1..Len(s)
    BY <1>1
  <2>2. /\ RemoveAt(s, 1) \in Seq(Nodes) /\ Len(RemoveAt(s, 1)) = Len(s) - 1
        /\ \A j \in 1..(Len(s) - 1) :
             RemoveAt(s, 1)[j] = IF j < 1 THEN s[j] ELSE s[j + 1]
    BY <2>1, RemoveAtIs
  <2> QED BY <2>2
<1>5. RemoveAt(s, 1) = Tail(s)
  BY <1>1, <1>4, SeqEqual
<1> QED BY <1>3, <1>5

\* getNextDirtyNodeAndClean is HandOut.
LEMMA GetNextDirtyHandsOut ==
  ASSUME Seen, Seen', GetNextDirtyNodeAndClean
  PROVE  Promised!HandOut
<1>0. PICK n \in Nodes : n = Head(dirty_list)
  BY TailIs DEF GetNextDirtyNodeAndClean, Seen, CacheInv, CacheTypeOK, DirtyQueuedOnce
<1>1. /\ dirty_list # <<>> /\ Contains(dirty_list, n)
      /\ dirty_list' = Tail(dirty_list) /\ Tail(dirty_list) \in Seq(Nodes)
      /\ LruSortClean(n)
      /\ node' = [node EXCEPT ![n].dirty = FALSE]
  BY <1>0, TailIs, UnlinkHead
     DEF GetNextDirtyNodeAndClean, Seen, CacheInv, CacheTypeOK, DirtyQueuedOnce
<1>2. ~Contains(lru_clean, n) /\ InLru(n)
  BY <1>1 DEF Seen, CacheInv, DirtyQueuedOnce, PoolPartition
<1>3. PICK k \in Keys : k = node[n].key
  BY <1>2, HashFindOf DEF Seen
<1>4. /\ lru_clean' = Append(lru_clean, n)
      /\ \A m \in Nodes : InLru(m)' <=> InLru(m)
  <2>1. lru_clean' = Append(lru_clean, n)
    BY <1>1, <1>2 DEF LruSortClean, Unlink
  <2>2. /\ \A m : Contains(lru_clean', m) <=> Contains(lru_clean, m) \/ m = n
        /\ \A m : Contains(lru_dirty', m) <=> Contains(lru_dirty, m) /\ m # n
    BY <1>1, LruSortCleanIs DEF Seen
  <2> QED BY <2>1, <2>2, <1>2 DEF InLru
<1>5. /\ \A m \in Nodes : node'[m].key = node[m].key /\ node'[m].data = node[m].data
      /\ node \in KeyTables /\ node' \in KeyTables
      /\ lru_clean \in Seq(Nodes) /\ dirty_list \in Seq(Nodes)
  BY <1>1 DEF Seen, CacheInv, CacheTypeOK, KeyTables, NodeRecord
<1>6. \A j \in Keys : hashFind(j)' = hashFind(j)
  BY <1>4, <1>5, SameFinds
<1>7. /\ {j \in Keys : Reserved(j)}' = {j \in Keys : Reserved(j)}
      /\ [j \in Keys |-> Held(j)]' = [j \in Keys |-> Held(j)]
  BY <1>5, <1>6, SameObjects
<1>8. /\ View(node, dirty_list) # <<>> /\ Head(View(node, dirty_list)) = k
      /\ View(node, Tail(dirty_list)) = Tail(View(node, dirty_list))
  BY <1>0, <1>1, <1>3, <1>5, ViewTail
<1>9. View(node', Tail(dirty_list)) = View(node, Tail(dirty_list))
  <2> DEFINE u == Tail(dirty_list)
  <2>1. u \in Seq(Nodes)
    BY <1>1
  <2> HIDE DEF u
  <2>2. View(node', u) = View(node, u)
    BY <2>1, <1>5, ViewSame
  <2> QED BY <2>2 DEF u
<1>10. View(node', Append(lru_clean, n)) = Append(View(node', lru_clean), k)
  <2>1. node'[n].key = k
    BY <1>3, <1>5
  <2> QED BY <2>1, <1>5, ViewAppend
<1>11. View(node', lru_clean) = View(node, lru_clean)
  BY <1>5, ViewSame
<1>12. /\ KeysOf(dirty_list) # <<>> /\ Head(KeysOf(dirty_list)) = k
       /\ KeysOf(dirty_list)' = Tail(KeysOf(dirty_list))
       /\ KeysOf(lru_clean)' = Append(KeysOf(lru_clean), k)
  BY <1>1, <1>4, <1>8, <1>9, <1>10, <1>11, ViewsAre DEF Clean, Waiting
<1> QED BY <1>7, <1>12 DEF Promised!HandOut

\* The empty cache is the empty map.
LEMMA InitMaps == ASSUME CacheInit, CacheInv PROVE Promised!Init
<1>1. Seen
  BY SeenFromInv
<1>2. \A n \in Nodes : ~InLru(n)
  BY DEF CacheInit, InLru, Contains
<1>3. \A k \in Keys : hashFind(k) = NULL
  BY <1>1, <1>2 DEF Seen, FoundExact
<1>4. {k \in Keys : Reserved(k)} = {} /\ [k \in Keys |-> Held(k)] = [k \in Keys |-> NULL]
  BY <1>3 DEF Reserved, Held
<1>5. KeysOf(lru_clean) = <<>> /\ KeysOf(dirty_list) = <<>>
  BY EmptySeq DEF CacheInit, KeysOf
<1> QED BY <1>4, <1>5 DEF Promised!Init

\* A step of the cache is a step of the map, or none.
LEMMA StepMaps ==
  ASSUME Seen, Seen', [CacheNext]_cacheVars
  PROVE  [Promised!Next]_(Promised!vars)
<1>1. ASSUME UNCHANGED cacheVars PROVE UNCHANGED Promised!vars
  <2>1. UNCHANGED <<node, lru_clean, dirty_list, hash_ports>>
    BY <1>1 DEF cacheVars, lists
  <2>2. KeysOf(lru_clean)' = KeysOf(lru_clean) /\ KeysOf(dirty_list)' = KeysOf(dirty_list)
    BY <2>1 DEF KeysOf
  <2>3. \A j \in Keys : hashFind(j)' = hashFind(j)
    BY <2>1 DEF hashFind
  <2>4. /\ {j \in Keys : Reserved(j)}' = {j \in Keys : Reserved(j)}
        /\ [j \in Keys |-> Held(j)]' = [j \in Keys |-> Held(j)]
    BY <2>1, <2>3, SameObjects
  <2> QED BY <2>2, <2>4 DEF Promised!vars
<1>2. ASSUME NEW k \in Keys, OccupyFree(k) \/ OccupyEvict(k) PROVE Promised!Next
  BY <1>2, OccupyFreeReserves, OccupyEvictReserves DEF Promised!Next
<1>3. ASSUME NEW k \in Keys, NEW d \in Data, SetDataLoaded(k, d) PROVE Promised!Next
  BY <1>3, SetDataLoadedLoads DEF Promised!Next
<1>4. ASSUME NEW k \in Keys, SetDataEmpty(k) PROVE Promised!Next
  BY <1>4, SetDataEmptyFails DEF Promised!Next
<1>5. ASSUME NEW k \in Keys, QueryHit(k) PROVE Promised!Next \/ UNCHANGED cacheVars
  BY <1>5, QueryHitUses DEF Promised!Next
<1>6. ASSUME NEW k \in Keys, SetDirty(k) PROVE Promised!Next
  BY <1>6, SetDirtyChanges DEF Promised!Next
<1>7. ASSUME GetNextDirtyNodeAndClean PROVE Promised!Next
  BY <1>7, GetNextDirtyHandsOut DEF Promised!Next
<1>8. ASSUME NEW k \in Keys,
             OccupyPresent(k) \/ OccupyFail(k) \/ QueryMiss(k)
               \/ SetDataIgnored(k) \/ SetDirtyRefused(k)
      PROVE  UNCHANGED cacheVars
  BY <1>8 DEF OccupyPresent, OccupyFail, QueryMiss, SetDataIgnored, SetDirtyRefused
<1>9. CASE CacheNext
  BY <1>9, <1>1, <1>2, <1>3, <1>4, <1>5, <1>6, <1>7, <1>8 DEF CacheNext
<1> QED BY <1>1, <1>9

\* The pool, the table, the ring and the counters are a write-back cache.
THEOREM RefinesWriteBack == CacheSpec => ImplementsWriteBack
<1>1. CacheInit /\ CacheInv => Promised!Init
  BY InitMaps
<1>2. Seen /\ Seen' /\ [CacheNext]_cacheVars => [Promised!Next]_(Promised!vars)
  BY StepMaps
<1>3. CacheInv => Seen
  BY SeenFromInv
<1> QED BY <1>1, <1>2, <1>3, CacheInvariant, PTL DEF CacheSpec, ImplementsWriteBack, Promised!Spec
============================================================================
