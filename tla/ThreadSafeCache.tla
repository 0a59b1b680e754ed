-------------------------- MODULE ThreadSafeCache --------------------------
(***************************************************************************)
(* ThreadSafeCache of util/inc/WireCellUtil/ThreadSafeCache.h: bounded     *)
(* caches that evict the least recently used key, each under one mutex     *)
(* that a thread keeps while it computes a missing value.  A value is a    *)
(* function of its key and is left out.  An operation that does not        *)
(* compute is one critical section, hence one action.                      *)
(***************************************************************************)
EXTENDS Threads, Sequences, SequencesExt

CONSTANTS
  Cache, Key,
  SizeT    \* how many values a size_t has
ASSUME CacheAssumption == /\ SizeT \in Nat /\ IsFiniteSet(Key)
                          /\ SizeT > Cardinality(Key) + 1

VARIABLES
  index,      \* index[c], the keys of cache_map_
  list,       \* list[c], the keys of cache_list_, most recently used first
  capacity,   \* capacity[c], capacity_
  making,     \* making[t], the calls <<cache, key>> of t that found no value
              \* and compute one with the mutex held, the innermost last
  recent      \* history: recent[c], all keys used and not removed since, the
              \* latest first, as if nothing were ever evicted

cachevars == <<index, list, capacity, making, recent>>

CacheTypeOK ==
  /\ index \in [Cache -> SUBSET Key]
  /\ list \in [Cache -> Seq(Key)]
  /\ capacity \in [Cache -> Nat]
  /\ making \in [Thread -> Seq(Cache \X Key)]
  /\ recent \in [Cache -> Seq(Key)]

CacheInit(caps) ==
  /\ index = [c \in Cache |-> {}]
  /\ list = [c \in Cache |-> <<>>]
  /\ capacity \in [Cache -> caps]
  /\ making = [t \in Thread |-> <<>>]
  /\ recent = [c \in Cache |-> <<>>]

-----------------------------------------------------------------------------
Holders(c) == {t \in Thread : \E i \in DOMAIN making[t] : making[t][i][1] = c}

\* Mutation: the mutex is taken shared.
SharedLock(c) == TRUE
\* The mutex can be taken (unique_lock).
Unlocked(c) == Holders(c) = {}

\* s without the entry of k, found through the map.
Without(s, k) == IF k \in ToSet(s) THEN RemoveAt(s, CHOOSE i \in DOMAIN s : s[i] = k) ELSE s

\* Mutation: an entry that is found stays where it is.
NoSplice(s, k) == s
\* cache_list_.splice(begin(), it): k becomes the most recently used.
ToFront(s, k) == <<k>> \o Without(s, k)
Used(c, k) == recent' = [recent EXCEPT ![c] = <<k>> \o Without(@, k)]

\* Mutation: no room is made for the entry that follows.
RoomForget(size, cap) == IF size = 0 THEN cap ELSE size
\* The size shrink(size) leaves: 0 stands for capacity_ - 1, computed in
\* size_t, which for a capacity of 0 is the largest number there is.
Room(size, cap) == IF size = 0 THEN (cap + SizeT - 1) % SizeT ELSE size

\* What shrink() keeps of a list: it pops the back while the map is larger.
Kept(c, room) == LET n == Cardinality(index[c]) - room
                 IN  IF n > 0 THEN SubSeq(list[c], 1, Len(list[c]) - n) ELSE list[c]

\* shrink() and emplace_front(): a key that was missing.
Insert(c, k) ==
  LET kept == Kept(c, Room(0, capacity[c])) IN
    /\ list' = [list EXCEPT ![c] = <<k>> \o kept]
    /\ index' = [index EXCEPT ![c] = (@ \ (ToSet(list[c]) \ ToSet(kept))) \cup {k}]
    /\ Used(c, k)
    /\ UNCHANGED capacity

\* A key that is there.
Touch(c, k) ==
  /\ list' = [list EXCEPT ![c] = ToFront(@, k)]
  /\ Used(c, k)
  /\ UNCHANGED <<index, capacity>>

\* get(), get_or_lock() and get_or_compute() that find the key.
Hit(c, k) == Unlocked(c) /\ k \in index[c] /\ Touch(c, k) /\ UNCHANGED making

\* get_or_lock() and get_or_compute() that do not: the mutex stays locked.
LockMissing(t, c, k) ==
  /\ Unlocked(c) /\ k \notin index[c]
  /\ making' = [making EXCEPT ![t] = Append(@, <<c, k>>)]
  /\ UNCHANGED <<index, list, capacity, recent>>

\* Their end, put_and_release() for the former: insert, return, unlock.
PutAndRelease(t) ==
  /\ making[t] # <<>>
  /\ LET top == Last(making[t]) IN Insert(top[1], top[2])
  /\ making' = [making EXCEPT ![t] = Front(@)]

\* compute_func() raises, or the lock is dropped unused: its destructor unlocks.
Unwind(t) ==
  /\ making[t] # <<>>
  /\ making' = [making EXCEPT ![t] = Front(@)]
  /\ UNCHANGED <<index, list, capacity, recent>>

Put(c, k) ==
  /\ Unlocked(c)
  /\ \/ k \in index[c] /\ Touch(c, k)
     \/ k \notin index[c] /\ Insert(c, k)
  /\ UNCHANGED making

RemoveKey(c, k) ==
  /\ Unlocked(c) /\ k \in index[c]
  /\ list' = [list EXCEPT ![c] = Without(@, k)]
  /\ index' = [index EXCEPT ![c] = @ \ {k}]
  /\ recent' = [recent EXCEPT ![c] = Without(@, k)]
  /\ UNCHANGED <<capacity, making>>

Clear(c) ==
  /\ Unlocked(c)
  /\ list' = [list EXCEPT ![c] = <<>>]
  /\ index' = [index EXCEPT ![c] = {}]
  /\ recent' = [recent EXCEPT ![c] = <<>>]
  /\ UNCHANGED <<capacity, making>>

\* reset_capacity() takes no lock: it is called by configure(), before any
\* thread uses the cache.
ResetCapacity(c, n) ==
  LET kept == Kept(c, Room(n, n)) IN
    /\ \A t \in Thread : making[t] = <<>>
    /\ capacity' = [capacity EXCEPT ![c] = n]
    /\ list' = [list EXCEPT ![c] = kept]
    /\ index' = [index EXCEPT ![c] = @ \ (ToSet(list[c]) \ ToSet(kept))]
    /\ UNCHANGED <<making, recent>>

\* What a thread may call.  A cache that it has locked itself it cannot enter.
CacheCall(t, caches, caps) ==
  \/ \E c \in caches :
       \/ \E k \in Key : Hit(c, k) \/ LockMissing(t, c, k) \/ Put(c, k) \/ RemoveKey(c, k)
       \/ Clear(c)
       \/ \E n \in caps : ResetCapacity(c, n)
  \/ PutAndRelease(t)
  \/ Unwind(t)

\* Any threads call any caches of any capacity, whatever they do with the values.
CacheNext == \E t \in Thread : CacheCall(t, Cache, Nat)
CacheSpec == CacheInit(Nat) /\ [][CacheNext]_cachevars

-----------------------------------------------------------------------------
(* Properties.                                                             *)

\* Map and list hold the same keys, each once, and no more than the capacity
\* (a capacity of 0 is none, because of what shrink(0) makes of it).
Consistent ==
  \A c \in Cache :
    /\ index[c] = ToSet(list[c])
    /\ IsInjective(list[c])
    /\ capacity[c] # 0 => Len(list[c]) <= capacity[c]

\* What was evicted was used before anything that is still kept: the list is
\* the beginning of the list of all keys in the order of their last use.
LeastRecentlyUsed == \A c \in Cache : IsPrefix(list[c], recent[c])

\* Only one thread computes the value of a missing key, and the key stays
\* missing until it is done.
OneMaker ==
  \A t, u \in Thread : \A i \in DOMAIN making[t], j \in DOMAIN making[u] :
    /\ making[t][i][2] \notin index[making[t][i][1]]
    /\ making[t][i] = making[u][j] => t = u /\ i = j
=============================================================================
