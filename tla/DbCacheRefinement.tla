------------------------- MODULE DbCacheRefinement -------------------------
(* DbCache seen through its keys, as the write-back cache it implements.   *)
EXTENDS DbCache

KeysOf(s) == [i \in DOMAIN s |-> node[s[i]].key]

Promised == INSTANCE WriteBackCache WITH
  loading <- {k \in Keys : Reserved(k)},
  clean <- KeysOf(lru_clean),
  unsaved <- KeysOf(dirty_list),
  held <- [k \in Keys |-> Held(k)]

\* The pool, the hash table, the LRU ring around lru_mid, the dirty list and the
\* hand-kept counters together are a write-back cache: every call changes the
\* keys as one step of WriteBackCache, or not at all.  In particular what is
\* evicted is the least recently used clean key, what is handed out for saving
\* is the oldest unsaved one, and a key gets a place only where there is one.
ImplementsWriteBack == Promised!Spec
============================================================================
