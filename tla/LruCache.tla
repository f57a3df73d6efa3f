------------------------------ MODULE LruCache ------------------------------
(***************************************************************************)
(* The LRU cache of common/cache_utils.hpp, the template behind the        *)
(* primitive cache, the kernel cache and the compiled partition cache.     *)
(*                                                                         *)
(* A call of get_or_create or get is identified by its thread and its key: *)
(* a thread has at most one call in progress per key, because a creation   *)
(* only makes nested calls for other keys.  The promise of a call is known *)
(* by the call itself, so a shared future is either a call (pending) or    *)
(* what that call has set: an object, or Failed for {nullptr, status}.     *)
(*                                                                         *)
(* A section under the reader/writer lock is one step, except that         *)
(* remove_if_invalidated may wait on a future inside its section: `writer' *)
(* is the call that does so, and no other section runs meanwhile.          *)
(*                                                                         *)
(* Timestamps are abstracted to the order they put the entries in; readers *)
(* that store them under the shared lock are taken to be ordered.          *)
(***************************************************************************)
EXTENDS Naturals, FiniteSets

CONSTANTS
    Threads,          \* application threads
    Keys,             \* cache keys, equal as primitive_hashing::key_t compares
    Objects,          \* addresses of created objects; reused once free
    MaxCapacity,      \* bound on the capacities the cache is given
    Nested,           \* Nested[k]: keys of the objects the creation of k creates
    Failing,          \* keys whose own creation may fail
    CacheBlobs,       \* whether objects are also created from cache blobs
    KeyMerge,         \* whether the key_merge template argument is given
    WithoutClearing,  \* whether set_capacity_without_clearing is used
    Failed,           \* the value {nullptr, status}
    NoCall            \* no call

Calls == Threads \X Keys

ASSUME ConstantsAssumption ==
    /\ IsFiniteSet(Keys)
    /\ MaxCapacity \in Nat
    /\ Nested \in [Keys -> SUBSET Keys]
    /\ Failing \subseteq Keys
    /\ CacheBlobs \in BOOLEAN
    /\ KeyMerge \in BOOLEAN
    /\ WithoutClearing \in BOOLEAN

\* The values a future can hold are told apart from a pending future.
ASSUME DistinctAssumption ==
    /\ Objects \cap Calls = {}
    /\ Failed \notin Objects \cup Calls
    /\ NoCall \notin Objects \cup Calls \cup {Failed}

\* Creations nest without cycles.
ASSUME NestingAssumption ==
    \A S \in SUBSET Keys : S # {} => \E k \in S : Nested[k] \cap S = {}

VARIABLES
    capacity,  \* capacity_
    mapper,    \* cache_mapper_: a function from the resident keys to entries
    older,     \* timestamp order of entries: <<j, k>> if j was used before k
    writer,    \* the call that waits while it holds the write lock, or NoCall
    pc,        \* where each call is
    mode,      \* how it was made
    caller,    \* the call whose creation made it, or NoCall
    todo,      \* nested keys its creation has still to request
    fut        \* the future or value a call holds, NoCall if none

cacheVars == <<capacity, mapper, older>>
vars == <<capacity, mapper, older, writer, pc, mode, caller, todo, fut>>

Values == Objects \cup {Failed}
Futures == Calls \cup Values

\* "plain": get_or_create without a cache blob.  "blob": a top-level creation
\* from a cache blob, which is not forced.  "forced": a creation nested in one,
\* with force_create.  "get": get.
Modes == {"plain", "blob", "forced", "get"}

Steps == {"idle", "lookup", "insert", "wait", "create", "nested", "abort",
          "update", "remove", "removing"}

\* value_ of timed_entry_t; thread_id_ and the op_desc_ and attr_ pointers of
\* the key, which point into the caller's descriptor (a call) or an object.
Entries == [value : Futures, tid : Threads, ptr : Calls \cup Objects]

\* Types of the state; capacities stay within the bound.
TypeOK ==
    /\ capacity \in 0..MaxCapacity
    /\ DOMAIN mapper \subseteq Keys
    /\ mapper \in [DOMAIN mapper -> Entries]
    /\ older \subseteq Keys \X Keys
    /\ writer \in Calls \cup {NoCall}
    /\ pc \in [Calls -> Steps]
    /\ mode \in [Calls -> Modes]
    /\ caller \in [Calls -> Calls \cup {NoCall}]
    /\ todo \in [Calls -> SUBSET Keys]
    /\ fut \in [Calls -> Futures \cup {NoCall}]

Init ==
    /\ capacity \in 0..MaxCapacity
    /\ mapper = [k \in {} |-> NoCall]
    /\ older = {}
    /\ writer = NoCall
    /\ pc = [c \in Calls |-> "idle"]
    /\ mode = [c \in Calls |-> "plain"]
    /\ caller = [c \in Calls |-> NoCall]
    /\ todo = [c \in Calls |-> {}]
    /\ fut = [c \in Calls |-> NoCall]

-----------------------------------------------------------------------------
(* Helpers of lru_cache_t.  They describe the map and the timestamp order.  *)

Resident == DOMAIN mapper
Size == Cardinality(Resident)

\* get_future stores a new timestamp: the entry becomes the most recent one.
Touched(k) ==
    {p \in older : k \notin {p[1], p[2]}} \cup ((Resident \ {k}) \X {k})

\* The timestamp order once the entries of S are gone.
Forgotten(S) == {p \in older : p[1] \notin S /\ p[2] \notin S}

Kept(S) == [k \in Resident \ S |-> mapper[k]]

\* evict(n): the sets of keys it may erase when the capacity is cap.  Every
\* entry goes when n is the capacity, the n least recently used otherwise.
Victims(n, cap) ==
    IF n = cap
    THEN {Resident}
    ELSE {S \in SUBSET Resident :
            /\ Cardinality(S) = n
            /\ \A j \in S, k \in Resident \ S : <<j, k>> \in older}

\* Mutant of Add: the entry is emplaced without evicting one first.
AddNoEvict(c) ==
    /\ mapper' = [j \in Resident \cup {c[2]} |->
                    IF j = c[2] THEN [value |-> c, tid |-> c[1], ptr |-> c]
                                ELSE mapper[j]]
    /\ older' = older \cup (Resident \X {c[2]})

\* add: evict(1) if the cache is full, then emplace.
Add(c) ==
    LET k == c[2]
        entry == [value |-> c, tid |-> c[1], ptr |-> c]
    IN  \E S \in (IF Size = capacity THEN Victims(1, capacity) ELSE {{}}) :
            /\ mapper' = [j \in (Resident \ S) \cup {k} |->
                            IF j = k THEN entry ELSE mapper[j]]
            /\ older' = Forgotten(S) \cup ((Resident \ S) \X {k})

-----------------------------------------------------------------------------
(* Calls.                                                                   *)

Unlocked == writer = NoCall

At(c, step) == pc[c] = step

Goto(c, step) == pc' = [pc EXCEPT ![c] = step]

\* The call is over.  The creation that made it goes on, or fails with it:
\* nested creations are under CHECK.
Return(c, value) ==
    /\ pc' = [d \in Calls |->
                IF d = c THEN "idle"
                ELSE IF d # caller[c] THEN pc[d]
                ELSE IF value = Failed THEN "abort" ELSE "create"]
    /\ mode' = [mode EXCEPT ![c] = "plain"]
    /\ caller' = [caller EXCEPT ![c] = NoCall]
    /\ todo' = [todo EXCEPT ![c] = {}]
    /\ fut' = [fut EXCEPT ![c] = NoCall]

\* An idle thread calls get_or_create or get.
Start(c, m) ==
    /\ \A k \in Keys : At(<<c[1], k>>, "idle")
    /\ m = "blob" => CacheBlobs
    /\ Goto(c, "lookup")
    /\ mode' = [mode EXCEPT ![c] = m]
    /\ UNCHANGED <<cacheVars, writer, caller, todo, fut>>

\* A creation calls get_or_create for a nested object.
StartNested(c, j) ==
    LET d == <<c[1], j>> IN
    /\ At(c, "create")
    /\ j \in todo[c]
    /\ At(d, "idle")
    /\ pc' = [pc EXCEPT ![c] = "nested", ![d] = "lookup"]
    /\ mode' = [mode EXCEPT ![d] = IF mode[c] = "plain" THEN "plain" ELSE "forced"]
    /\ caller' = [caller EXCEPT ![d] = c]
    /\ todo' = [todo EXCEPT ![c] = @ \ {j}]
    /\ UNCHANGED <<cacheVars, writer, fut>>

\* Start create(create_context).
Create(c) ==
    /\ Goto(c, "create")
    /\ todo' = [todo EXCEPT ![c] = Nested[c[2]]]

\* The future that get_or_add returned, or the one get found, is valid.
Found(c) ==
    /\ older' = Touched(c[2])
    /\ UNCHANGED <<capacity, mapper, writer, mode, caller>>
    /\ IF mode[c] = "forced"
       THEN Create(c) /\ UNCHANGED fut
       ELSE /\ Goto(c, "wait")
            /\ fut' = [fut EXCEPT ![c] = mapper[c[2]].value]
            /\ UNCHANGED todo

\* The cache is disabled, or get has missed: the future has no shared state.
NotFound(c) ==
    /\ UNCHANGED <<cacheVars, writer>>
    /\ IF mode[c] = "get"
       THEN Return(c, Failed)
       ELSE Create(c) /\ UNCHANGED <<mode, caller, fut>>

\* get, and the section of get_or_add with shared access.
Lookup(c) ==
    /\ At(c, "lookup")
    /\ Unlocked
    /\ \/ capacity = 0 /\ NotFound(c)
       \/ capacity # 0 /\ c[2] \in Resident /\ Found(c)
       \/ /\ capacity # 0 /\ c[2] \notin Resident
          /\ \/ mode[c] = "get" /\ NotFound(c)
             \/ /\ mode[c] # "get"
                /\ Goto(c, "insert")
                /\ UNCHANGED <<cacheVars, writer, mode, caller, todo, fut>>

\* Mutant of Insert: the key is not looked up again under the exclusive lock.
InsertUnchecked(c) ==
    /\ At(c, "insert")
    /\ Unlocked
    /\ \/ capacity = 0 /\ NotFound(c)
       \/ /\ capacity # 0
          /\ Add(c)
          /\ Create(c)
          /\ UNCHANGED <<capacity, writer, mode, caller, fut>>

\* The section of get_or_add with exclusive access.
Insert(c) ==
    /\ At(c, "insert")
    /\ Unlocked
    /\ \/ capacity = 0 /\ NotFound(c)
       \/ capacity # 0 /\ c[2] \in Resident /\ Found(c)
       \/ /\ capacity # 0 /\ c[2] \notin Resident
          /\ Add(c)
          /\ Create(c)
          /\ UNCHANGED <<capacity, writer, mode, caller, fut>>

\* p_future.get()
Wait(c) ==
    /\ At(c, "wait")
    /\ fut[c] \in Values
    /\ Return(c, fut[c])
    /\ UNCHANGED <<cacheVars, writer>>

\* p_promise.set_value(v): whoever shares the future now sees the value.
SetValue(c, v) ==
    /\ mapper' = [k \in Resident |->
                    IF mapper[k].value = c
                    THEN [value |-> v, tid |-> mapper[k].tid, ptr |-> mapper[k].ptr]
                    ELSE mapper[k]]
    /\ fut' = [d \in Calls |-> IF d = c \/ fut[d] = c THEN v ELSE fut[d]]

\* Objects something still refers to: an entry or a call.
Live == Objects \cap ({mapper[k].value : k \in Resident} \cup {fut[c] : c \in Calls})

\* Mutant of CreateDone: the promise is not set.
CreateDoneUnset(c) ==
    /\ At(c, "create")
    /\ todo[c] = {}
    /\ Goto(c, "update")
    /\ UNCHANGED <<cacheVars, writer, mode, caller, todo, fut>>

\* create succeeds, in a new object.
CreateDone(c) ==
    /\ At(c, "create")
    /\ todo[c] = {}
    /\ \E o \in Objects \ Live : SetValue(c, o)
    /\ Goto(c, "update")
    /\ UNCHANGED <<capacity, older, writer, mode, caller, todo>>

\* Mutant of CreateFail: the error is not communicated.
CreateFailUnset(c) ==
    /\ At(c, "abort") \/ (At(c, "create") /\ c[2] \in Failing)
    /\ Goto(c, "remove")
    /\ UNCHANGED <<cacheVars, writer, mode, caller, todo, fut>>

\* create fails, by itself or because a nested creation failed.
CreateFail(c) ==
    /\ At(c, "abort") \/ (At(c, "create") /\ c[2] \in Failing)
    /\ SetValue(c, Failed)
    /\ Goto(c, "remove")
    /\ UNCHANGED <<capacity, older, writer, mode, caller, todo>>

\* Mutant of UpdateEntry: the thread that inserted the entry is not compared.
UpdateEntryOfAnyThread(c) ==
    LET k == c[2] IN
    /\ At(c, "update")
    /\ KeyMerge => Unlocked
    /\ mapper' = IF KeyMerge /\ capacity # 0 /\ k \in Resident
                 THEN [mapper EXCEPT ![k] =
                         [value |-> @.value, tid |-> @.tid, ptr |-> fut[c]]]
                 ELSE mapper
    /\ Return(c, fut[c])
    /\ UNCHANGED <<capacity, older, writer>>

\* update_entry; key_merge makes the pointers of the key point into the object.
UpdateEntry(c) ==
    LET k == c[2] IN
    /\ At(c, "update")
    /\ KeyMerge => Unlocked
    /\ mapper' = IF KeyMerge /\ capacity # 0 /\ k \in Resident
                    /\ mapper[k].tid = c[1]
                 THEN [mapper EXCEPT ![k] =
                         [value |-> @.value, tid |-> @.tid, ptr |-> fut[c]]]
                 ELSE mapper
    /\ Return(c, fut[c])
    /\ UNCHANGED <<capacity, older, writer>>

Erase(S) == mapper' = Kept(S) /\ older' = Forgotten(S)

\* Mutant of RemoveEnd: the invalidated entry stays.
RemoveEndKeeps(c) ==
    /\ writer' = NoCall
    /\ Return(c, Failed)
    /\ UNCHANGED cacheVars

\* The end of remove_if_invalidated, once value.get() has returned.
RemoveEnd(c) ==
    /\ Erase({k \in {c[2]} : mapper[k].value = Failed})
    /\ writer' = NoCall
    /\ Return(c, Failed)
    /\ UNCHANGED capacity

\* remove_if_invalidated
Remove(c) ==
    /\ At(c, "remove")
    /\ Unlocked
    /\ IF capacity = 0 \/ c[2] \notin Resident
       THEN Return(c, Failed) /\ UNCHANGED <<cacheVars, writer>>
       ELSE \/ mapper[c[2]].value \in Values /\ RemoveEnd(c)
            \/ /\ mapper[c[2]].value \in Calls
               /\ writer' = c
               /\ Goto(c, "removing")
               /\ UNCHANGED <<cacheVars, mode, caller, todo, fut>>

\* value.get() returns in remove_if_invalidated.
Removing(c) ==
    /\ At(c, "removing")
    /\ mapper[c[2]].value \in Values
    /\ RemoveEnd(c)

-----------------------------------------------------------------------------
(* Capacity.                                                                *)

\* set_capacity(n)
SetCapacity(n) ==
    /\ Unlocked
    /\ capacity' = n
    /\ \E S \in (IF Size > n THEN Victims(Size - n, n) ELSE {{}}) : Erase(S)
    /\ UNCHANGED <<writer, pc, mode, caller, todo, fut>>

\* set_capacity_without_clearing(n), used for testing
SetCapacityWithoutClearing(n) ==
    /\ WithoutClearing
    /\ Unlocked
    /\ capacity' = n
    /\ UNCHANGED <<mapper, older, writer, pc, mode, caller, todo, fut>>

-----------------------------------------------------------------------------
\* A step of a call that has started.
Step(c) ==
    \/ Lookup(c) \/ Insert(c) \/ Wait(c)
    \/ \E j \in Keys : StartNested(c, j)
    \/ CreateDone(c) \/ CreateFail(c)
    \/ UpdateEntry(c) \/ Remove(c) \/ Removing(c)

Next ==
    \/ \E c \in Calls : Step(c)
    \/ \E c \in Calls, m \in {"plain", "blob", "get"} : Start(c, m)
    \/ \E n \in 0..MaxCapacity : SetCapacity(n)
    \/ \E n \in 0..MaxCapacity : SetCapacityWithoutClearing(n)

Spec == Init /\ [][Next]_vars

\* The operating system runs every thread that can take a step of its call.
FairSpec == Spec /\ \A t \in Threads : WF_vars(\E k \in Keys : Step(<<t, k>>))

-----------------------------------------------------------------------------
(* Properties.                                                              *)

\* A call whose promise has not been set: it is in its creation.
Creating(c) == pc[c] \in {"create", "nested", "abort"}

\* The call that inserted the entry of k.
Owner(k) == <<mapper[k].tid, k>>

\* Whoever shares a pending future, an entry or a waiting call, shares the one
\* of a call that is still in create() and so will set it, for the same key
\* (get_or_create, get_or_add).
PendingHasCreator ==
    /\ \A k \in Resident : mapper[k].value \in Calls =>
            /\ Creating(mapper[k].value)
            /\ mapper[k].value = Owner(k)
    /\ \A c \in Calls : fut[c] \in Calls =>
            At(c, "wait") /\ Creating(fut[c]) /\ fut[c][2] = c[2]

\* The cache never holds more entries than its capacity, whatever evictions,
\* insertions and capacity changes interleave (add, evict, set_capacity).
SizeWithinCapacity == ~WithoutClearing => Size <= capacity

\* An error is not cached: an invalidated future is in the cache only while
\* the call that inserted it has still to run remove_if_invalidated, so no call
\* that starts after a failed one has returned is given its error.
FailureNotCached ==
    ~WithoutClearing =>
        \A k \in Resident : mapper[k].value = Failed =>
            pc[Owner(k)] \in {"remove", "removing"}

\* The pointers of a cached key lead into the descriptor of a call that has not
\* returned, or into the object stored in the entry (update_entry).
KeyPointersInStoredObject ==
    KeyMerge =>
        \A k \in Resident :
            LET e == mapper[k] IN
            \/ e.ptr \in Calls /\ ~At(e.ptr, "idle")
            \/ e.ptr = e.value

\* Every call of get_or_create or get returns: a thread in a call, and in the
\* calls nested in it, is one day in none.
EveryCallReturns ==
    \A t \in Threads :
        (\E k \in Keys : ~At(<<t, k>>, "idle")) ~> (\A k \in Keys : At(<<t, k>>, "idle"))
=============================================================================
