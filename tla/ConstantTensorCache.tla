------------------------ MODULE ConstantTensorCache -------------------------
(***************************************************************************)
(* The constant tensor cache of the graph component                        *)
(* (graph/interface/constant_tensor_cache.cpp) and the kernels that use it *)
(* (graph/backend/dnnl/kernels): a compiled kernel computes its constant   *)
(* tensors once, into a buffer that it shares through the cache.           *)
(*                                                                         *)
(* The buffer a future stands for is pending, and known by the thread that *)
(* fills it, until that thread sets it.  A section under the reader/writer *)
(* lock is one step, except that get_size and remove_if_exist wait for     *)
(* pending buffers inside theirs: `writer' is the thread that does so.     *)
(* Keys stand for kernels: encode_constant_cache_key has no collisions.    *)
(***************************************************************************)
EXTENDS Naturals, FiniteSets, FiniteSetsExt

CONSTANTS
    Threads,
    Keys,           \* kernels, each with one encoded key
    SizeOf,         \* total_internal_persistent_size of a kernel
    Copies,         \* distinguishes the buffers of a kernel
    Capacities,     \* capacities an application sets
    Failing,        \* kernels whose constant operations may throw
    Broken,         \* a promise destroyed before it was set, a call that threw
    NoThread,       \* no thread
    NoBuffer        \* a null pointer

ASSUME SizeAssumption == SizeOf \in [Keys -> Nat \ {0}]
ASSUME CapacityAssumption == Capacities \subseteq Nat
ASSUME FailingAssumption == Failing \subseteq Keys

\* There is memory for a buffer more of each kernel than there are threads.
ASSUME MemoryAssumption ==
    /\ IsFiniteSet(Threads) /\ IsFiniteSet(Copies)
    /\ Cardinality(Copies) > Cardinality(Threads)

\* A buffer holds the constants of a kernel.
Buffers == Keys \X Copies

\* What a future stands for is told apart: pending, set or broken, or nothing.
ASSUME DistinctAssumption ==
    /\ Threads \cap Buffers = {}
    /\ Broken \notin Threads \cup Buffers \cup {NoThread, NoBuffer}
    /\ NoBuffer \notin Threads \cup Buffers
    /\ NoThread \notin Threads

VARIABLES
    user,      \* user_capacities[eng_kind]
    capacity,  \* capacity_in_bytes_
    map,       \* constant_map_: key -> pending (a thread), a buffer, or broken
    writer,    \* the thread that holds the write lock between two steps
    constant,  \* whether a kernel was compiled, and with constant operations
    pc,        \* where each thread is
    arg,       \* the kernel it executes, or the capacity it sets
    fut,       \* the future it waits for
    buf,       \* c_buffer: the buffer its execution owns
    handle     \* the persistent memory of its resource for each kernel

cacheVars == <<user, capacity, map, writer>>
threadVars == <<pc, arg, fut, buf, handle>>
vars == <<cacheVars, constant, threadVars>>

Steps == {"idle", "lookup", "insert", "sizing", "wait", "fill", "use",
          "read", "set", "flush", "evict"}

\* Types; every capacity is one the application has set.
TypeOK ==
    /\ user \in Capacities
    /\ capacity \in Capacities
    /\ DOMAIN map \subseteq Keys
    /\ map \in [DOMAIN map -> Threads \cup Buffers \cup {Broken}]
    /\ writer \in Threads \cup {NoThread, Broken}
    /\ constant \in [Keys -> {"unknown", "yes", "no"}]
    /\ pc \in [Threads -> Steps]
    /\ \A t \in Threads :
          arg[t] \in IF pc[t] = "set" THEN Capacities ELSE Keys \cup {NoBuffer}
    /\ fut \in [Threads -> Threads \cup Buffers \cup {Broken, NoBuffer}]
    /\ buf \in [Threads -> Buffers \cup {NoBuffer}]
    /\ handle \in [Threads -> [Keys -> Buffers \cup {NoBuffer}]]

Init ==
    /\ user \in Capacities
    /\ capacity = user
    /\ map = [k \in {} |-> NoBuffer]
    /\ writer = NoThread
    /\ constant = [k \in Keys |-> "unknown"]
    /\ pc = [t \in Threads |-> "idle"]
    /\ arg = [t \in Threads |-> NoBuffer]
    /\ fut = [t \in Threads |-> NoBuffer]
    /\ buf = [t \in Threads |-> NoBuffer]
    /\ handle = [t \in Threads |-> [k \in Keys |-> NoBuffer]]

-----------------------------------------------------------------------------
Unlocked == writer = NoThread

Goto(t, step) == pc' = [pc EXCEPT ![t] = step]

Pending == {k \in DOMAIN map : map[k] \in Threads}
BrokenKeys == {k \in DOMAIN map : map[k] = Broken}

\* get_size, once every future is ready.
TotalSize == MapThenSumSet(LAMBDA k : SizeOf[k], DOMAIN map)

\* shared_ptr: a buffer lives while an entry, a future or an execution owns it.
Alive(b) ==
    \/ \E k \in DOMAIN map : map[k] = b
    \/ \E t \in Threads : b \in {fut[t], buf[t]}

\* The memory of a buffer that is no more.
malloc(k) == CHOOSE b \in {k} \X Copies : ~Alive(b)

-----------------------------------------------------------------------------
(* Kernels.                                                                 *)

\* compile: constant_propagation runs if the cache is enabled.  It is asked
\* twice; operations are constant if either answer is yes.
Compile(k) ==
    /\ constant[k] = "unknown"
    /\ constant' = [constant EXCEPT ![k] = IF capacity # 0 THEN "yes" ELSE "no"]
    /\ UNCHANGED <<cacheVars, threadVars>>

\* execute_impl; a kernel without constants has no persistent memory, and
\* get_or_add returns at once for a size of zero.
Execute(t, k) ==
    /\ pc[t] = "idle"
    /\ constant[k] = "yes"
    /\ arg' = [arg EXCEPT ![t] = k]
    /\ Goto(t, IF capacity = 0 THEN "use" ELSE "lookup")
    /\ UNCHANGED <<cacheVars, constant, fut, buf, handle>>

\* The future that get_or_add returns: valid, or without a shared state.
Got(t, k) ==
    IF capacity # 0 /\ k \in DOMAIN map
    THEN Goto(t, "wait") /\ fut' = [fut EXCEPT ![t] = map[k]]
    ELSE Goto(t, "fill") /\ UNCHANGED fut

\* get_or_add: the section with shared access.
Lookup(t) ==
    LET k == arg[t] IN
    /\ pc[t] = "lookup"
    /\ Unlocked
    /\ IF capacity # 0 /\ k \notin DOMAIN map
       THEN Goto(t, "insert") /\ UNCHANGED fut
       ELSE Got(t, k)
    /\ UNCHANGED <<cacheVars, constant, arg, buf, handle>>

\* get_or_add: the section with exclusive access.  add waits for all buffers.
Insert(t) ==
    LET k == arg[t] IN
    /\ pc[t] = "insert"
    /\ Unlocked
    /\ IF capacity # 0 /\ k \notin DOMAIN map
       THEN Goto(t, "sizing") /\ writer' = t /\ UNCHANGED fut
       ELSE Got(t, k) /\ UNCHANGED writer
    /\ UNCHANGED <<user, capacity, map, constant, arg, buf, handle>>

\* Mutant of Add: the size of the new tensor is not taken into account.
AddAnySize(t) ==
    /\ pc[t] = "sizing"
    /\ Pending = {} /\ BrokenKeys = {}
    /\ map' = IF TotalSize > capacity
              THEN map
              ELSE [j \in DOMAIN map \cup {arg[t]} |->
                      IF j = arg[t] THEN t ELSE map[j]]
    /\ writer' = NoThread
    /\ Goto(t, "fill")
    /\ UNCHANGED <<user, capacity, constant, arg, fut, buf, handle>>

\* add: a tensor the cache has no room for is ignored.
Add(t) ==
    LET k == arg[t] IN
    /\ pc[t] = "sizing"
    /\ Pending = {} /\ BrokenKeys = {}
    /\ map' = IF TotalSize + SizeOf[k] > capacity
              THEN map
              ELSE [j \in DOMAIN map \cup {k} |-> IF j = k THEN t ELSE map[j]]
    /\ writer' = NoThread
    /\ Goto(t, "fill")
    /\ UNCHANGED <<user, capacity, constant, arg, fut, buf, handle>>

\* The persistent memory of the resource is that of b, owned until the return.
Use(t, b) ==
    /\ buf' = [buf EXCEPT ![t] = b]
    /\ handle' = [handle EXCEPT ![t][arg[t]] = b]
    /\ Goto(t, "use")

\* Mutant of Wait: the buffer of an earlier execution is used again.
WaitKeepsHandle(t) ==
    /\ pc[t] = "wait"
    /\ fut[t] \in Buffers
    /\ IF handle[t][arg[t]] = NoBuffer
       THEN Use(t, fut[t])
       ELSE Goto(t, "use") /\ UNCHANGED <<buf, handle>>
    /\ fut' = [fut EXCEPT ![t] = NoBuffer]
    /\ UNCHANGED <<cacheVars, constant, arg>>

\* cached_value.get()
Wait(t) ==
    /\ pc[t] = "wait"
    /\ fut[t] \in Buffers
    /\ Use(t, fut[t])
    /\ fut' = [fut EXCEPT ![t] = NoBuffer]
    /\ UNCHANGED <<cacheVars, constant, arg>>

\* Mutant of Fill: the promise is not set.
FillUnset(t) ==
    /\ pc[t] = "fill"
    /\ Use(t, malloc(arg[t]))
    /\ UNCHANGED <<cacheVars, constant, arg, fut>>

\* The constant operations run, then c_promise.set_value(c_buffer).
Fill(t) ==
    LET b == malloc(arg[t]) IN
    /\ pc[t] = "fill"
    /\ Use(t, b)
    /\ map' = [k \in DOMAIN map |-> IF map[k] = t THEN b ELSE map[k]]
    /\ fut' = [u \in Threads |-> IF fut[u] = t THEN b ELSE fut[u]]
    /\ UNCHANGED <<user, capacity, writer, constant, arg>>

\* A constant operation throws: the persistent memory was set already, c_buffer
\* and c_promise are destroyed, and whoever has the future finds it broken.
FillThrows(t) ==
    /\ pc[t] = "fill"
    /\ arg[t] \in Failing
    /\ handle' = [handle EXCEPT ![t][arg[t]] = malloc(arg[t])]
    /\ map' = [k \in DOMAIN map |-> IF map[k] = t THEN Broken ELSE map[k]]
    /\ fut' = [u \in Threads |-> IF fut[u] = t THEN Broken ELSE fut[u]]
    /\ Goto(t, "idle")
    /\ arg' = [arg EXCEPT ![t] = NoBuffer]
    /\ UNCHANGED <<user, capacity, writer, constant, buf>>

\* cached_value.get() throws in the thread that waited.
WaitThrows(t) ==
    /\ pc[t] = "wait"
    /\ fut[t] = Broken
    /\ fut' = [fut EXCEPT ![t] = NoBuffer]
    /\ Goto(t, "idle")
    /\ arg' = [arg EXCEPT ![t] = NoBuffer]
    /\ UNCHANGED <<cacheVars, constant, buf, handle>>

\* get_size or remove_if_exist meets a broken future, in any order of the map,
\* and throws past unlock_write: the lock is held by a call that is no more.
SectionThrows(t) ==
    /\ \/ pc[t] \in {"sizing", "flush"} /\ BrokenKeys # {}
       \/ pc[t] = "evict" /\ arg[t] \in BrokenKeys
    /\ writer' = Broken
    /\ Goto(t, "idle")
    /\ arg' = [arg EXCEPT ![t] = NoBuffer]
    /\ UNCHANGED <<user, capacity, map, constant, fut, buf, handle>>

\* The other operations have run: the execution returns.
Finish(t) ==
    /\ pc[t] = "use"
    /\ Goto(t, "idle")
    /\ arg' = [arg EXCEPT ![t] = NoBuffer]
    /\ buf' = [buf EXCEPT ![t] = NoBuffer]
    /\ UNCHANGED <<cacheVars, constant, fut, handle>>

-----------------------------------------------------------------------------
(* Capacity.                                                                *)

\* dnnl_graph_set_constant_tensor_cache_capacity
SetUserCapacity(t, n) ==
    /\ pc[t] = "idle"
    /\ user' = n
    /\ Goto(t, "read")
    /\ UNCHANGED <<capacity, map, writer, constant, arg, fut, buf, handle>>

\* It reads the capacity back for the call of set_capacity.
ReadUserCapacity(t) ==
    /\ pc[t] = "read"
    /\ arg' = [arg EXCEPT ![t] = user]
    /\ Goto(t, "set")
    /\ UNCHANGED <<cacheVars, constant, fut, buf, handle>>

\* Mutant of SetCapacity: one more than the application asked for.
SetCapacityPlusOne(t) ==
    /\ pc[t] = "set"
    /\ Unlocked
    /\ capacity' = arg[t] + 1
    /\ writer' = t
    /\ arg' = [arg EXCEPT ![t] = NoBuffer]
    /\ Goto(t, "flush")
    /\ UNCHANGED <<user, map, constant, fut, buf, handle>>

\* set_capacity takes the lock; get_size waits for all buffers.
SetCapacity(t) ==
    /\ pc[t] = "set"
    /\ Unlocked
    /\ capacity' = arg[t]
    /\ writer' = t
    /\ arg' = [arg EXCEPT ![t] = NoBuffer]
    /\ Goto(t, "flush")
    /\ UNCHANGED <<user, map, constant, fut, buf, handle>>

\* set_capacity evicts everything.
Flush(t) ==
    /\ pc[t] = "flush"
    /\ Pending = {} /\ BrokenKeys = {}
    /\ map' = [k \in {} |-> NoBuffer]
    /\ writer' = NoThread
    /\ Goto(t, "idle")
    /\ UNCHANGED <<user, capacity, constant, arg, fut, buf, handle>>

\* remove_if_exist takes the lock and waits for the buffer.
RemoveIfExist(t, k) ==
    /\ pc[t] = "idle"
    /\ Unlocked
    /\ k \in DOMAIN map
    /\ writer' = t
    /\ arg' = [arg EXCEPT ![t] = k]
    /\ Goto(t, "evict")
    /\ UNCHANGED <<user, capacity, map, constant, fut, buf, handle>>

Evict(t) ==
    /\ pc[t] = "evict"
    /\ arg[t] \notin Pending \cup BrokenKeys
    /\ map' = [k \in DOMAIN map \ {arg[t]} |-> map[k]]
    /\ writer' = NoThread
    /\ arg' = [arg EXCEPT ![t] = NoBuffer]
    /\ Goto(t, "idle")
    /\ UNCHANGED <<user, capacity, constant, fut, buf, handle>>

-----------------------------------------------------------------------------
\* A step of a call that has started.
Step(t) ==
    \/ Lookup(t) \/ Insert(t) \/ Add(t) \/ Wait(t) \/ Fill(t) \/ Finish(t)
    \/ ReadUserCapacity(t) \/ SetCapacity(t) \/ Flush(t) \/ Evict(t)
    \/ FillThrows(t) \/ WaitThrows(t) \/ SectionThrows(t)

Next ==
    \/ \E k \in Keys : Compile(k)
    \/ \E t \in Threads : Step(t)
    \/ \E t \in Threads, k \in Keys : Execute(t, k) \/ RemoveIfExist(t, k)
    \/ \E t \in Threads, n \in Capacities : SetUserCapacity(t, n)

Spec == Init /\ [][Next]_vars

\* The operating system runs every thread that can take a step of its call.
FairSpec == Spec /\ \A t \in Threads : WF_vars(Step(t))

-----------------------------------------------------------------------------
\* Whoever takes the write lock gives it back before the call returns, also when
\* it throws (set_capacity, get_or_add, remove_if_exist).
LockGivenBack == writer # Broken

\* The cached tensors fit in the capacity, except while set_capacity waits to
\* flush them, or has thrown before it could (add, set_capacity).
TotalWithinCapacity ==
    LockGivenBack /\ (\A t \in Threads : pc[t] # "flush") => TotalSize <= capacity

\* A pending entry, or a future someone waits for, is that of a thread which is
\* filling the buffer of the same kernel and needs no lock for it.
PendingIsFilled ==
    /\ \A k \in Pending : pc[map[k]] = "fill" /\ arg[map[k]] = k
    /\ \A t \in Threads : fut[t] \in Threads =>
            pc[fut[t]] = "fill" /\ arg[fut[t]] = arg[t]

\* Whoever runs the other operations of a kernel has its constants in a buffer
\* that it owns, whatever was evicted since it asked (execute_impl).
ConstantsReady ==
    \A t \in Threads : pc[t] = "use" =>
        LET b == handle[t][arg[t]] IN b # NoBuffer /\ b = buf[t]

\* The capacity the application is told is the one the cache works with, when
\* no call that sets it is in progress
\* (dnnl_graph_get_constant_tensor_cache_capacity).
ReportedCapacity ==
    (\A t \in Threads : pc[t] \notin {"read", "set"}) => capacity = user

\* As long as no call has left with the lock, a call hangs only if another thread
\* takes it again and again: waiting for a buffer under the lock does not block
\* the thread that fills it.
NoCallHangs ==
    \A t \in Threads :
        \/ <>~LockGivenBack
        \/ []<>(pc[t] = "idle")
        \/ \E u \in Threads \ {t} : []<>(pc[u] = "idle") /\ []<>(pc[u] # "idle")
=============================================================================
