--------------------------- MODULE WriteBackCache ---------------------------
(***************************************************************************)
(* What the character cache promises its callers, without nodes, buckets,  *)
(* linked lists or counters: a bounded map from keys to objects.  A key is *)
(* absent, being loaded, clean or unsaved.  Clean keys are evicted in      *)
(* least recently used order, unsaved ones are handed out in the order     *)
(* they were marked, and only clean keys are ever evicted.                 *)
(***************************************************************************)
EXTENDS Integers, Sequences, SequencesExt, FiniteSets

CONSTANTS Keys, Data, NULL, node_size, max_clean_size

VARIABLES
  loading,   \* keys reserved for a load
  clean,     \* keys with nothing to save, the least recently used first
  unsaved,   \* keys to be saved, the oldest first
  held       \* key -> its object

vars == <<loading, clean, unsaved, held>>

Init ==
  /\ loading = {}
  /\ clean = <<>>
  /\ unsaved = <<>>
  /\ held = [k \in Keys |-> NULL]

Room == Cardinality(loading) + Len(clean) + Len(unsaved) < node_size
\* The list s without its element k.
Without(s, k) == RemoveAt(s, CHOOSE i \in 1..Len(s) : s[i] = k)

Absent(k) == k \notin loading /\ ~Contains(clean, k) /\ ~Contains(unsaved, k)

\* A place for k: a free one, else the one of the least recently used clean key.
Reserve(k) ==
  /\ Absent(k)
  /\ loading' = loading \cup {k}
  /\ IF Room /\ Len(clean) < max_clean_size
     THEN UNCHANGED <<clean, held>>
     ELSE /\ clean # <<>>
          /\ clean' = Tail(clean)
          /\ held' = [held EXCEPT ![Head(clean)] = NULL]
  /\ UNCHANGED unsaved

Loaded(k, d) ==
  /\ k \in loading
  /\ loading' = loading \ {k}
  /\ clean' = Append(clean, k)
  /\ held' = [held EXCEPT ![k] = d]
  /\ UNCHANGED unsaved

LoadFailed(k) ==
  /\ k \in loading
  /\ loading' = loading \ {k}
  /\ UNCHANGED <<clean, unsaved, held>>

Use(k) ==
  /\ Contains(clean, k)
  /\ clean' = Append(Without(clean, k), k)
  /\ UNCHANGED <<loading, unsaved, held>>

Change(k) ==
  /\ Contains(clean, k)
  /\ clean' = Without(clean, k)
  /\ unsaved' = Append(unsaved, k)
  /\ UNCHANGED <<loading, held>>

HandOut ==
  /\ unsaved # <<>>
  /\ unsaved' = Tail(unsaved)
  /\ clean' = Append(clean, Head(unsaved))
  /\ UNCHANGED <<loading, held>>

Next ==
  \/ \E k \in Keys : \/ Reserve(k)
                     \/ LoadFailed(k)
                     \/ Use(k)
                     \/ Change(k)
                     \/ \E d \in Data : Loaded(k, d)
  \/ HandOut

Spec == Init /\ [][Next]_vars
=============================================================================
