----------------------------- MODULE FifoCache -----------------------------
(***************************************************************************)
(* The bounded "have I seen this key" cache of mesh_txrx.py: the classes   *)
(* SeenRoutes (routing deduplication) and ReplayWindow (AEAD replays) run  *)
(* the same algorithm.  The code keeps a set for lookups and a deque for   *)
(* the order of insertion; both always hold the same keys, so one sequence *)
(* of distinct keys, oldest first, stands for the pair.                    *)
(***************************************************************************)
EXTENDS Naturals, Sequences

(* key in self._seen *)
Known(cache, key) == \E i \in 1..Len(cache) : cache[i] = key

(* The last `limit` elements of a sequence, or all of them. *)
Newest(s, limit) == IF Len(s) <= limit THEN s ELSE SubSeq(s, Len(s) - limit + 1, Len(s))

(* A cache whose eviction loop also runs when it is exactly full. *)
RememberEvictingEarly(cache, key, limit) ==
    IF Known(cache, key) THEN cache ELSE Newest(Append(cache, key), limit - 1)

(***************************************************************************)
(* remember(key): no change when the key is known (it keeps its old place  *)
(* in the eviction order); otherwise append, then evict the oldest keys    *)
(* while there are more than `limit`.                                      *)
(***************************************************************************)
Remember(cache, key, limit) ==
    IF Known(cache, key) THEN cache ELSE Newest(Append(cache, key), limit)

(* Equal elements of s are more than `limit` places apart. *)
MinGap(s, limit) == \A i, j \in 1..Len(s) : i < j /\ s[i] = s[j] => j - i > limit
=============================================================================
