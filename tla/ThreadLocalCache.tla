-------------------------- MODULE ThreadLocalCache --------------------------
(***************************************************************************)
(* thread_local_cache_t of graph/backend/dnnl: every thread keeps, for     *)
(* each kernel it executes, a resource of its own.  A global table owns    *)
(* the resources (shared_ptr), a thread-local table finds them (weak_ptr). *)
(* The key of a kernel is its address, used again by later kernels.        *)
(*                                                                         *)
(* A section under the mutex of the global table is one step; between the  *)
(* lock() of a weak pointer and the section that uses it other threads run.*)
(* A kernel is destroyed only while nobody executes it.                    *)
(***************************************************************************)
EXTENDS Naturals, FiniteSets

CONSTANTS
    Threads,
    Kernels,    \* addresses of kernels
    MaxEpoch,   \* how many kernels have the same address, one after the other
    Copies,     \* distinguishes resources a thread creates for the same kernel
    NoKernel    \* no kernel

ASSUME EpochAssumption == MaxEpoch \in Nat
ASSUME FiniteAssumption == IsFiniteSet(Threads) /\ IsFiniteSet(Kernels)

\* Memory can be allocated for a resource.
ASSUME CopiesAssumption == Copies # {}

\* A resource is known by the thread and the kernel it was created for: the
\* address of the kernel, and which of the kernels at that address.
Resources == Threads \X Kernels \X (1..MaxEpoch) \X Copies

VARIABLES
    gdata,    \* data_ of the global table: address -> resources it owns
    ldata,    \* data_ of each thread's table: address -> weak pointer
    counter,  \* counter_ of the global table
    static,   \* whether the static pointer to the global table is alive
    table,    \* whether the thread has constructed its table
    pc,       \* where each thread is
    key,      \* the kernel it executes, or whose resource it removes
    held,     \* the resources its local shared_ptr owns
    todo,     \* entries of its table that it has still to visit
    kernel,   \* state of the kernel at each address
    epoch     \* which kernel at that address it is

cacheVars == <<gdata, ldata, counter, static, table>>
threadVars == <<pc, key, held, todo>>
kernelVars == <<kernel, epoch>>
vars == <<cacheVars, threadVars, kernelVars>>

Steps == {"idle", "add", "use", "clear", "exit", "exited", "assert"}

\* Types; counter_ is bounded by the number of those who retain the table.
TypeOK ==
    /\ DOMAIN gdata \subseteq Kernels
    /\ gdata \in [DOMAIN gdata -> SUBSET Resources]
    /\ \A t \in Threads : /\ DOMAIN ldata[t] \subseteq Kernels
                          /\ ldata[t] \in [DOMAIN ldata[t] -> Resources]
    /\ counter \in 0..(1 + Cardinality(Threads) + Cardinality(Kernels))
    /\ static \in BOOLEAN
    /\ table \in [Threads -> BOOLEAN]
    /\ pc \in [Threads -> Steps]
    /\ key \in [Threads -> Kernels \cup {NoKernel}]
    /\ held \in [Threads -> SUBSET Resources]
    /\ todo \in [Threads -> SUBSET Kernels]
    /\ kernel \in [Kernels -> {"none", "live", "dying"}]
    /\ epoch \in [Kernels -> 0..MaxEpoch]

Init ==
    /\ gdata = [k \in {} |-> {}]
    /\ ldata = [t \in Threads |-> [k \in {} |-> NoKernel]]
    /\ counter = 1
    /\ static = TRUE
    /\ table = [t \in Threads |-> FALSE]
    /\ pc = [t \in Threads |-> "idle"]
    /\ key = [t \in Threads |-> NoKernel]
    /\ held = [t \in Threads |-> {}]
    /\ todo = [t \in Threads |-> {}]
    /\ kernel = [k \in Kernels |-> "none"]
    /\ epoch = [k \in Kernels |-> 0]

-----------------------------------------------------------------------------
\* shared_ptr: a resource lives while the global table or a thread owns it.
Alive(r) ==
    \/ \E k \in DOMAIN gdata : r \in gdata[k]
    \/ \E t \in Threads : r \in held[t]

\* weak_ptr: the control block is there while a table refers to it.
Referred(r) == \E t \in Threads : \E k \in DOMAIN ldata[t] : ldata[t][k] = r

\* A resource that nothing refers to.
creator(t, k) ==
    CHOOSE r \in {t} \X {k} \X {epoch[k]} \X Copies : ~Alive(r) /\ ~Referred(r)

has_resource(t, k) == k \in DOMAIN ldata[t] /\ Alive(ldata[t][k])

\* Mutant of GetTable: every use of the table retains the global one.
GetTableRetains(t) ==
    /\ table' = [table EXCEPT ![t] = TRUE]
    /\ counter' = counter + 1

\* Mutant of GetTable: the table does not retain the global one.
GetTableNoRetain(t) ==
    /\ table' = [table EXCEPT ![t] = TRUE]
    /\ counter' = counter

\* The table of the thread is constructed when it is first used.
GetTable(t) ==
    /\ table' = [table EXCEPT ![t] = TRUE]
    /\ counter' = IF table[t] THEN counter ELSE counter + 1

-----------------------------------------------------------------------------
(* Kernels.                                                                 *)

\* The constructor of a kernel.
Construct(k) ==
    /\ static
    /\ kernel[k] = "none"
    /\ epoch[k] < MaxEpoch
    /\ kernel' = [kernel EXCEPT ![k] = "live"]
    /\ epoch' = [epoch EXCEPT ![k] = @ + 1]
    /\ counter' = counter + 1
    /\ UNCHANGED <<gdata, ldata, static, table, threadVars>>

Executing(t, k) == pc[t] \in {"add", "use"} /\ key[t] = k

\* Mutant of RemoveIfExist: the values stay, as the kernel is gone anyway.
RemoveIfExistKeeps(k) ==
    /\ kernel[k] = "live"
    /\ \A t \in Threads : ~Executing(t, k)
    /\ kernel' = [kernel EXCEPT ![k] = "dying"]
    /\ UNCHANGED <<cacheVars, threadVars, epoch>>

\* The destructor of a kernel: remove_if_exist.
RemoveIfExist(k) ==
    /\ kernel[k] = "live"
    /\ \A t \in Threads : ~Executing(t, k)
    /\ gdata' = [j \in DOMAIN gdata |-> IF j = k THEN {} ELSE gdata[j]]
    /\ kernel' = [kernel EXCEPT ![k] = "dying"]
    /\ UNCHANGED <<ldata, counter, static, table, threadVars, epoch>>

\* The destructor of a kernel: release.
Release(k) ==
    /\ kernel[k] = "dying"
    /\ kernel' = [kernel EXCEPT ![k] = "none"]
    /\ counter' = counter - 1
    /\ UNCHANGED <<gdata, ldata, static, table, threadVars, epoch>>

-----------------------------------------------------------------------------
(* Threads.                                                                 *)

\* execute of a kernel: get_or_add hits, or creates a resource.
Execute(t, k) ==
    /\ pc[t] = "idle"
    /\ kernel[k] = "live"
    /\ key' = [key EXCEPT ![t] = k]
    /\ GetTable(t)
    /\ \/ /\ has_resource(t, k)
          /\ pc' = [pc EXCEPT ![t] = "use"]
          /\ UNCHANGED held
       \/ /\ ~has_resource(t, k)
          /\ held' = [held EXCEPT ![t] = {creator(t, k)}]
          /\ pc' = [pc EXCEPT ![t] = "add"]
    /\ UNCHANGED <<gdata, ldata, static, todo, kernel, epoch>>

\* get_or_add: the resource goes to both tables.
Add(t) ==
    LET k == key[t]
        r == CHOOSE x \in held[t] : TRUE
    IN  /\ pc[t] = "add"
        /\ gdata' = [j \in DOMAIN gdata \cup {k} |->
                       IF j # k THEN gdata[j]
                       ELSE IF k \in DOMAIN gdata THEN gdata[k] \cup {r} ELSE {r}]
        /\ ldata' = [ldata EXCEPT ![t] =
                       [j \in DOMAIN @ \cup {k} |-> IF j = k THEN r ELSE @[j]]]
        /\ held' = [held EXCEPT ![t] = {}]
        /\ pc' = [pc EXCEPT ![t] = "use"]
        /\ UNCHANGED <<counter, static, table, key, todo, kernelVars>>

\* The execution ends.
Finish(t) ==
    /\ pc[t] = "use"
    /\ pc' = [pc EXCEPT ![t] = "idle"]
    /\ key' = [key EXCEPT ![t] = NoKernel]
    /\ UNCHANGED <<cacheVars, held, todo, kernelVars>>

\* clear() starts to visit the table. No kernel need be alive, so the static
\* pointer must be.
Clear(t) ==
    /\ pc[t] = "idle"
    /\ static
    /\ GetTable(t)
    /\ pc' = [pc EXCEPT ![t] = "clear"]
    /\ todo' = [todo EXCEPT ![t] = DOMAIN ldata[t]]
    /\ UNCHANGED <<gdata, ldata, static, key, held, kernelVars>>

\* The thread ends; the destructor of its table starts to visit it.
Exit(t) ==
    /\ pc[t] = "idle"
    /\ pc' = [pc EXCEPT ![t] = IF table[t] THEN "exit" ELSE "exited"]
    /\ todo' = [todo EXCEPT ![t] = DOMAIN ldata[t]]
    /\ UNCHANGED <<cacheVars, key, held, kernelVars>>

\* An entry is visited: nothing is done if its resource has expired.
Visit(t, k) ==
    /\ pc[t] \in {"clear", "exit"}
    /\ held[t] = {}
    /\ k \in todo[t]
    /\ todo' = [todo EXCEPT ![t] = @ \ {k}]
    /\ IF Alive(ldata[t][k])
       THEN /\ held' = [held EXCEPT ![t] = {ldata[t][k]}]
            /\ key' = [key EXCEPT ![t] = k]
       ELSE UNCHANGED <<held, key>>
    /\ UNCHANGED <<cacheVars, pc, kernelVars>>

\* Mutant of Erase: the resource is not erased from the global table.
EraseNot(t) ==
    /\ pc[t] \in {"clear", "exit"}
    /\ held[t] # {}
    /\ held' = [held EXCEPT ![t] = {}]
    /\ key' = [key EXCEPT ![t] = NoKernel]
    /\ UNCHANGED <<cacheVars, pc, todo, kernelVars>>

\* The resource is erased from the global table, where it must be if its key is.
Erase(t) ==
    LET k == key[t] IN
    /\ pc[t] \in {"clear", "exit"}
    /\ held[t] # {}
    /\ IF k \in DOMAIN gdata => held[t] \subseteq gdata[k]
       THEN /\ gdata' = [j \in DOMAIN gdata |->
                           IF j = k THEN gdata[j] \ held[t] ELSE gdata[j]]
            /\ UNCHANGED pc
       ELSE /\ pc' = [pc EXCEPT ![t] = "assert"]
            /\ UNCHANGED gdata
    /\ held' = [held EXCEPT ![t] = {}]
    /\ key' = [key EXCEPT ![t] = NoKernel]
    /\ UNCHANGED <<ldata, counter, static, table, todo, kernelVars>>

\* Every entry has been visited.
EndVisit(t) ==
    /\ pc[t] \in {"clear", "exit"}
    /\ held[t] = {} /\ todo[t] = {}
    /\ ldata' = [ldata EXCEPT ![t] = [k \in {} |-> NoKernel]]
    /\ IF pc[t] = "clear"
       THEN /\ pc' = [pc EXCEPT ![t] = "idle"]
            /\ UNCHANGED <<counter, table>>
       ELSE /\ pc' = [pc EXCEPT ![t] = "exited"]
            /\ table' = [table EXCEPT ![t] = FALSE]
            /\ counter' = counter - 1
    /\ UNCHANGED <<gdata, static, key, held, todo, kernelVars>>

\* Static objects are destroyed while threads and kernels may be left.
DestroyStatic ==
    /\ static
    /\ static' = FALSE
    /\ counter' = counter - 1
    /\ UNCHANGED <<gdata, ldata, table, threadVars, kernelVars>>

-----------------------------------------------------------------------------
Next ==
    \/ \E k \in Kernels : Construct(k) \/ RemoveIfExist(k) \/ Release(k)
    \/ \E t \in Threads, k \in Kernels : Execute(t, k) \/ Visit(t, k)
    \/ \E t \in Threads :
          Add(t) \/ Finish(t) \/ Clear(t) \/ Exit(t) \/ Erase(t) \/ EndVisit(t)
    \/ DestroyStatic

Spec == Init /\ [][Next]_vars

-----------------------------------------------------------------------------
\* The resource an execution uses is alive, and was created by this thread for
\* this kernel: never for an earlier kernel at the same address, and never for
\* another thread, which could write to it at the same time (get_or_add).
OwnFreshResource ==
    \A t \in Threads : pc[t] = "use" =>
        LET k == key[t] IN
        /\ k \in DOMAIN ldata[t]
        /\ Alive(ldata[t][k])
        /\ ldata[t][k] \in {t} \X {k} \X {epoch[k]} \X Copies

\* Nothing leaks: what the global table owns belongs to a live kernel and is
\* found in the table of the thread it was created for (clear, the destructors
\* of tables and kernels).
NoOrphan ==
    \A k \in DOMAIN gdata : \A r \in gdata[k] :
        /\ kernel[k] = "live"
        /\ \E t \in Threads : k \in DOMAIN ldata[t] /\ ldata[t][k] = r

\* The global table is deleted after its last user, and not before (retain and
\* release of tables, kernels and the static pointer).
CacheOutlivesUsers ==
    counter = 0 <=>
        /\ ~static
        /\ \A t \in Threads : ~table[t]
        /\ \A k \in Kernels : kernel[k] = "none"

\* The assertion of clear and ~cache_type_t: expected value to exist in cache.
ExpectedValueExists == \A t \in Threads : pc[t] # "assert"
=============================================================================
