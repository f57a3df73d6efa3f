----------------------- MODULE ThreadLocalCacheProofs -----------------------
(***************************************************************************)
(* For any threads, kernels and number of kernels per address: resources   *)
(* are never shared, stale or leaked, and the global table goes with its   *)
(* last user.                                                              *)
(*                                                                         *)
(* The argument: a resource says for which thread, address and kernel it   *)
(* was made, so that only one entry of one thread's table can refer to it. *)
(* While a thread is not going through its table, what the table has for a *)
(* live kernel is in the global table; while it is, that holds for the     *)
(* entries it has still to visit, and those visited are not in it.         *)
(***************************************************************************)
EXTENDS ThreadLocalCache, FiniteSetTheorems, TLAPS

\* A resource some kernel at address k, up to the present one, got in thread t.
MadeFor(r, t, k) ==
    /\ r \in Resources
    /\ r[1] = t /\ r[2] = k /\ r[3] <= epoch[k]

\* The thread goes through its table, or an assertion has stopped it there.
Visiting(t) == pc[t] \in {"clear", "exit", "assert"}

\* The entries whose resources the thread has left alone so far.
Unvisited(t) ==
    IF Visiting(t) THEN todo[t] \cup (IF held[t] = {} THEN {} ELSE {key[t]})
    ELSE DOMAIN ldata[t]

\* TypeOK without the bound on counter_.
Types ==
    /\ DOMAIN gdata \subseteq Kernels
    /\ gdata \in [DOMAIN gdata -> SUBSET Resources]
    /\ \A t \in Threads : /\ DOMAIN ldata[t] \subseteq Kernels
                          /\ ldata[t] \in [DOMAIN ldata[t] -> Resources]
    /\ static \in BOOLEAN
    /\ table \in [Threads -> BOOLEAN]
    /\ pc \in [Threads -> Steps]
    /\ key \in [Threads -> Kernels \cup {NoKernel}]
    /\ held \in [Threads -> SUBSET Resources]
    /\ todo \in [Threads -> SUBSET Kernels]
    /\ kernel \in [Kernels -> {"none", "live", "dying"}]
    /\ epoch \in [Kernels -> 0..MaxEpoch]

\* A live kernel exists; every kernel executed is live, in a thread that has a
\* table.
KernelInv ==
    /\ \A k \in Kernels : kernel[k] # "none" => epoch[k] >= 1
    /\ \A t \in Threads : pc[t] \in {"add", "use"} =>
          key[t] \in Kernels /\ kernel[key[t]] = "live"
    /\ \A t \in Threads : pc[t] \in {"add", "use", "clear", "exit"} => table[t]

\* A table refers to resources of its own thread, under their addresses.
LocalInv ==
    /\ ldata = [t \in Threads |-> ldata[t]]
    /\ \A t \in Threads : \A k \in DOMAIN ldata[t] : MadeFor(ldata[t][k], t, k)
    /\ \A t \in Threads : Visiting(t) => todo[t] \subseteq DOMAIN ldata[t]

\* What a thread owns outside the global table: a new resource, or the one of
\* the entry it visits.
HeldInv ==
    \A t \in Threads : \A r \in held[t] :
        \/ /\ pc[t] = "add"
           /\ MadeFor(r, t, key[t]) /\ r[3] = epoch[key[t]]
        \/ /\ Visiting(t)
           /\ key[t] \in DOMAIN ldata[t] \ todo[t]
           /\ r = ldata[t][key[t]]

\* Only resources of present, live kernels are in the global table, and the
\* tables of their threads refer to them.
GlobalInv ==
    \A k \in DOMAIN gdata : \A r \in gdata[k] :
        /\ kernel[k] = "live"
        /\ r \in Resources
        /\ r[2] = k /\ r[3] = epoch[k]
        /\ k \in Unvisited(r[1]) /\ k \in DOMAIN ldata[r[1]] /\ ldata[r[1]][k] = r

\* An entry for a live kernel that was not visited is in the global table.
PresentInv ==
    \A t \in Threads : \A k \in DOMAIN ldata[t] :
        k \in Unvisited(t) /\ kernel[k] = "live" /\ ldata[t][k][3] = epoch[k] =>
            k \in DOMAIN gdata /\ ldata[t][k] \in gdata[k]

\* A thread about to add a resource has none for the kernel, one that uses a
\* resource has it.
ExecuteInv ==
    \A t \in Threads :
        /\ pc[t] = "add" /\ key[t] \in DOMAIN ldata[t] =>
              ldata[t][key[t]][3] # epoch[key[t]]
        /\ pc[t] = "add" => held[t] # {}
        /\ pc[t] = "use" =>
              key[t] \in DOMAIN ldata[t] /\ ldata[t][key[t]][3] = epoch[key[t]]

Tables == {t \in Threads : table[t]}
Built == {k \in Kernels : kernel[k] # "none"}

\* counter_ counts the tables, the kernels and the static pointer.
CounterInv ==
    counter = (IF static THEN 1 ELSE 0) + Cardinality(Tables) + Cardinality(Built)

IInv ==
    /\ Types /\ KernelInv /\ LocalInv /\ HeldInv /\ GlobalInv /\ PresentInv
    /\ ExecuteInv /\ CounterInv

-----------------------------------------------------------------------------
(* Facts used in several steps. *)

(* A resource lives only in the thread it was made for, in the entry of its
   address: an entry that was not visited and lives is that of the kernel at
   its address, which is live. *)
LEMMA LivesInTable ==
    ASSUME IInv, NEW t \in Threads, held[t] = {},
           NEW k \in DOMAIN ldata[t], Alive(ldata[t][k])
    PROVE  /\ kernel[k] = "live" /\ ldata[t][k][3] = epoch[k]
           /\ k \in DOMAIN gdata /\ ldata[t][k] \in gdata[k]
<1> DEFINE r == ldata[t][k]
<1>1. r \in Resources /\ r[1] = t /\ r[2] = k
  BY DEF IInv, LocalInv, MadeFor
<1>2. ASSUME NEW u \in Threads, r \in held[u] PROVE FALSE
  BY <1>1, <1>2 DEF IInv, HeldInv, LocalInv, MadeFor
<1>3. PICK j \in DOMAIN gdata : r \in gdata[j]
  BY <1>2 DEF Alive
<1>4. kernel[j] = "live" /\ r[2] = j /\ r[3] = epoch[j]
  BY <1>3 DEF IInv, GlobalInv
<1> QED
  BY <1>1, <1>3, <1>4

(* get_or_add finds memory for a new resource, which belongs to the thread and
   to the kernel it executes. *)
LEMMA CreatorMakes ==
    ASSUME IInv, NEW t \in Threads, NEW k \in Kernels,
           pc[t] = "idle", kernel[k] = "live", ~has_resource(t, k)
    PROVE  creator(t, k) \in {t} \X {k} \X {epoch[k]} \X Copies
<1> DEFINE S == {t} \X {k} \X {epoch[k]} \X Copies
<1>1. PICK c \in Copies : TRUE
  BY CopiesAssumption
<1> DEFINE r == <<t, k, epoch[k], c>>
<1>2. r \in S /\ r[1] = t /\ r[2] = k /\ r[3] = epoch[k]
  OBVIOUS
<1>3. held[t] = {}
  BY DEF IInv, HeldInv, Visiting
<1>4. ~Referred(r)
  <2> SUFFICES ASSUME NEW u \in Threads, NEW j \in DOMAIN ldata[u], ldata[u][j] = r
               PROVE  FALSE
    BY DEF Referred
  <2>1. u = t /\ j = k
    BY <1>2 DEF IInv, LocalInv, MadeFor
  <2>2. k \in DOMAIN gdata /\ r \in gdata[k]
    BY <1>2, <2>1 DEF IInv, PresentInv, Unvisited, Visiting
  <2> QED
    BY <2>1, <2>2 DEF has_resource, Alive
<1>5. ~Alive(r)
  <2>1. ASSUME NEW u \in Threads, r \in held[u] PROVE FALSE
    <3>1. u = t
      BY <1>2, <2>1 DEF IInv, HeldInv, LocalInv, MadeFor
    <3> QED
      BY <1>3, <2>1, <3>1
  <2>2. ASSUME NEW j \in DOMAIN gdata, r \in gdata[j] PROVE FALSE
    <3>1. j \in DOMAIN ldata[t] /\ ldata[t][j] = r
      BY <1>2, <2>2 DEF IInv, GlobalInv
    <3> QED
      BY <1>4, <3>1 DEF Referred
  <2> QED
    BY <2>1, <2>2 DEF Alive
<1> HIDE DEF S, r
<1>6. \E x \in S : ~Alive(x) /\ ~Referred(x)
  BY <1>2, <1>4, <1>5
<1> QED
  BY <1>6 DEF creator, S

(* The resources counter_ counts are finitely many. *)
LEMMA CountedFinite ==
    ASSUME NEW S \in SUBSET Threads, NEW K \in SUBSET Kernels
    PROVE  /\ IsFiniteSet(S) /\ Cardinality(S) \in Nat
           /\ Cardinality(S) <= Cardinality(Threads)
           /\ IsFiniteSet(K) /\ Cardinality(K) \in Nat
           /\ Cardinality(K) <= Cardinality(Kernels)
           /\ Cardinality(Threads) \in Nat /\ Cardinality(Kernels) \in Nat
           /\ Cardinality(S) = 0 <=> S = {}
           /\ Cardinality(K) = 0 <=> K = {}
<1>1. IsFiniteSet(S) /\ Cardinality(S) <= Cardinality(Threads)
  BY FiniteAssumption, FS_Subset
<1>2. IsFiniteSet(K) /\ Cardinality(K) <= Cardinality(Kernels)
  BY FiniteAssumption, FS_Subset
<1> QED
  BY <1>1, <1>2, FiniteAssumption, FS_CardinalityType, FS_EmptySet

(* The table of a thread counts once. *)
LEMMA TableCounted ==
    ASSUME Types, CounterInv, NEW t \in Threads, GetTable(t),
           UNCHANGED <<static, kernel>>
    PROVE  CounterInv'
<1>1. Tables' = Tables \cup {t} /\ Built' = Built /\ Tables \subseteq Threads
  BY DEF Types, GetTable, Tables, Built
<1>2. /\ Cardinality(Tables \cup {t}) =
            IF t \in Tables THEN Cardinality(Tables) ELSE Cardinality(Tables) + 1
      /\ Cardinality(Tables) \in Nat /\ Cardinality(Built) \in Nat
  BY <1>1, CountedFinite, FS_AddElement DEF Built
<1>3. counter' = IF t \in Tables THEN counter ELSE counter + 1
  BY DEF GetTable, Tables
<1> QED
  BY <1>1, <1>2, <1>3 DEF CounterInv

-----------------------------------------------------------------------------
(* The invariant is kept, action by action. *)

(* The constructor of a kernel: an address gets a new kernel. *)
LEMMA ConstructPreserves ==
    ASSUME IInv, NEW k \in Kernels, Construct(k)
    PROVE  IInv'
<1> USE DEF IInv, Types, Steps, KernelInv, LocalInv, HeldInv, GlobalInv, PresentInv,
          ExecuteInv, Visiting, Construct,
          cacheVars, threadVars, kernelVars
<1>1. Types'
  BY EpochAssumption
<1>2. KernelInv'
  OBVIOUS
<1>3. LocalInv'
  BY DEF MadeFor, Resources
<1>4. HeldInv'
  BY DEF MadeFor
<1>5. GlobalInv'
  BY DEF Unvisited
<1>6. PresentInv'
  BY DEF Unvisited, MadeFor
<1>7. ExecuteInv'
  BY DEF MadeFor
<1>8. CounterInv'
  <2>1. /\ Tables' = Tables /\ Built' = Built \cup {k} /\ k \notin Built
        /\ counter' = counter + 1 /\ static' = static
    BY DEF Tables, Built
  <2>2. CounterInv /\ Tables \in SUBSET Threads /\ Built \in SUBSET Kernels
    BY DEF Tables, Built
  <2>3. /\ IsFiniteSet(Tables) /\ Cardinality(Tables) \in Nat
        /\ IsFiniteSet(Built) /\ Cardinality(Built) \in Nat
    BY <2>2, CountedFinite
  <2>4. Cardinality(Built \cup {k}) = Cardinality(Built) + 1
    BY ONLY <2>1, <2>3, FS_AddElement
  <2> QED
    BY ONLY <2>1, <2>2, <2>3, <2>4 DEF CounterInv
<1> QED
  BY ONLY <1>1, <1>2, <1>3, <1>4, <1>5, <1>6, <1>7, <1>8 DEF IInv

(* remove_if_exist of a dying kernel. *)
LEMMA RemoveIfExistPreserves ==
    ASSUME IInv, NEW k \in Kernels, RemoveIfExist(k)
    PROVE  IInv'
<1> USE DEF IInv, Types, Steps, KernelInv, LocalInv, HeldInv, GlobalInv, PresentInv,
          ExecuteInv, Visiting, RemoveIfExist,
          cacheVars, threadVars, kernelVars
<1>1. Types'
  OBVIOUS
<1>2. KernelInv'
  BY DEF Executing
<1>3. LocalInv'
  BY DEF MadeFor
<1>4. HeldInv'
  BY DEF MadeFor
<1>5. GlobalInv'
  BY DEF Unvisited
<1>6. PresentInv'
  BY DEF Unvisited, MadeFor
<1>7. ExecuteInv'
  BY DEF MadeFor
<1>8. CounterInv'
  <2>1. Tables' = Tables /\ Built' = Built
    BY DEF Tables, Built
  <2> QED
    BY <2>1 DEF CounterInv
<1> QED
  BY ONLY <1>1, <1>2, <1>3, <1>4, <1>5, <1>6, <1>7, <1>8 DEF IInv

(* A dying kernel releases the global table. *)
LEMMA ReleasePreserves ==
    ASSUME IInv, NEW k \in Kernels, Release(k)
    PROVE  IInv'
<1> USE DEF IInv, Types, Steps, KernelInv, LocalInv, HeldInv, GlobalInv, PresentInv,
          ExecuteInv, Visiting, Release,
          cacheVars, threadVars, kernelVars
<1>1. Types'
  OBVIOUS
<1>2. KernelInv'
  OBVIOUS
<1>3. LocalInv'
  BY DEF MadeFor
<1>4. HeldInv'
  BY DEF MadeFor
<1>5. GlobalInv'
  BY DEF Unvisited
<1>6. PresentInv'
  BY DEF Unvisited, MadeFor
<1>7. ExecuteInv'
  BY DEF MadeFor
<1>8. CounterInv'
  <2>1. /\ Tables' = Tables /\ Built' = Built \ {k} /\ k \in Built
        /\ counter' = counter - 1 /\ static' = static
    BY DEF Tables, Built
  <2>2. CounterInv /\ Tables \in SUBSET Threads /\ Built \in SUBSET Kernels
    BY DEF Tables, Built
  <2>3. /\ IsFiniteSet(Tables) /\ Cardinality(Tables) \in Nat
        /\ IsFiniteSet(Built) /\ Cardinality(Built) \in Nat
    BY <2>2, CountedFinite
  <2>4. Cardinality(Built \ {k}) = Cardinality(Built) - 1
    BY ONLY <2>1, <2>3, FS_RemoveElement
  <2> QED
    BY ONLY <2>1, <2>2, <2>3, <2>4 DEF CounterInv
<1> QED
  BY ONLY <1>1, <1>2, <1>3, <1>4, <1>5, <1>6, <1>7, <1>8 DEF IInv

(* get_or_add hits, or creates a resource. *)
LEMMA ExecutePreserves ==
    ASSUME IInv, NEW t \in Threads, NEW k \in Kernels, Execute(t, k)
    PROVE  IInv'
<1> USE DEF IInv, cacheVars, threadVars, kernelVars
<1>a. /\ held[t] = {} /\ pc[t] = "idle" /\ kernel[k] = "live" /\ GetTable(t)
      /\ table' = [table EXCEPT ![t] = TRUE] /\ key' = [key EXCEPT ![t] = k]
      /\ UNCHANGED <<gdata, ldata, static, todo, kernel, epoch>>
  BY DEF Execute, GetTable, HeldInv, Visiting
<1>b. /\ held' = [held EXCEPT ![t] = held'[t]]
      /\ pc' = [pc EXCEPT ![t] = pc'[t]] /\ pc'[t] \in {"add", "use"}
      /\ \A r \in held'[t] :
            r \in Resources /\ MadeFor(r, t, k) /\ r[3] = epoch[k] /\ pc'[t] = "add"
      /\ pc'[t] = "add" =>
            held'[t] # {} /\ (k \in DOMAIN ldata[t] => ldata[t][k][3] # epoch[k])
      /\ pc'[t] = "use" => k \in DOMAIN ldata[t] /\ ldata[t][k][3] = epoch[k]
  <2>1. CASE has_resource(t, k)
    <3>1. k \in DOMAIN ldata[t] /\ Alive(ldata[t][k])
      BY <2>1 DEF has_resource
    <3>2. ldata[t][k][3] = epoch[k]
      BY <1>a, <3>1, LivesInTable
    <3> QED
      BY <1>a, <2>1, <3>1, <3>2 DEF Execute, Types
  <2>2. CASE ~has_resource(t, k)
    <3>1. creator(t, k) \in {t} \X {k} \X {epoch[k]} \X Copies
      BY <1>a, <2>2, CreatorMakes
    <3>2. /\ creator(t, k) \in Resources
          /\ MadeFor(creator(t, k), t, k) /\ creator(t, k)[3] = epoch[k]
      BY <1>a, <3>1, EpochAssumption DEF Resources, MadeFor, Types, KernelInv
    <3>3. k \in DOMAIN ldata[t] => ldata[t][k][3] # epoch[k]
      BY <1>a, <2>2 DEF has_resource, Alive, Unvisited, Visiting, PresentInv, Types
    <3>4. /\ held' = [held EXCEPT ![t] = {creator(t, k)}]
          /\ pc' = [pc EXCEPT ![t] = "add"]
      BY <2>2 DEF Execute
    <3> QED
      BY <3>2, <3>3, <3>4 DEF Types
  <2> QED
    BY <2>1, <2>2
<1>1. Types'
  <2>1. held'[t] \in SUBSET Resources
    BY <1>b
  <2>2. held' \in [Threads -> SUBSET Resources]
    BY <1>b, <2>1 DEF Types
  <2>3. /\ pc' \in [Threads -> Steps] /\ table' \in [Threads -> BOOLEAN]
        /\ key' \in [Threads -> Kernels \cup {NoKernel}]
    BY <1>a, <1>b DEF Types, Steps
  <2> QED
    BY <1>a, <2>2, <2>3 DEF Types
<1>2. KernelInv'
  BY <1>a, <1>b DEF Types, KernelInv
<1>3. LocalInv'
  BY <1>a, <1>b DEF Types, LocalInv, MadeFor, Visiting
<1>4. HeldInv'
  BY <1>a, <1>b DEF Types, HeldInv, MadeFor, Visiting
<1>5. GlobalInv'
  BY <1>a, <1>b DEF Types, GlobalInv, Unvisited, Visiting, Resources
<1>6. PresentInv'
  BY <1>a, <1>b DEF Types, PresentInv, Unvisited, Visiting
<1>7. ExecuteInv'
  BY <1>a, <1>b DEF Types, ExecuteInv
<1>8. CounterInv'
  BY <1>a, TableCounted
<1> QED
  BY ONLY <1>1, <1>2, <1>3, <1>4, <1>5, <1>6, <1>7, <1>8 DEF IInv

(* get_or_add puts the resource in both tables. *)
LEMMA AddPreserves ==
    ASSUME IInv, NEW t \in Threads, Add(t)
    PROVE  IInv'
<1> USE DEF IInv, Types, Steps, KernelInv, LocalInv, HeldInv, GlobalInv, PresentInv,
          ExecuteInv, Visiting, Add,
          cacheVars, threadVars, kernelVars
<1> DEFINE j == key[t]
           r == CHOOSE x \in held[t] : TRUE
<1>a. /\ j \in Kernels /\ kernel[j] = "live" /\ held[t] # {}
      /\ j \in DOMAIN ldata[t] => ldata[t][j][3] # epoch[j]
  OBVIOUS
<1>b. r \in held[t]
  BY <1>a
<1>c. r \in Resources /\ MadeFor(r, t, j) /\ r[3] = epoch[j]
  <2> HIDE DEF r
  <2> QED
    BY <1>b
<1>d. /\ gdata' = [i \in DOMAIN gdata \cup {j} |->
                     IF i # j THEN gdata[i]
                     ELSE IF j \in DOMAIN gdata THEN gdata[j] \cup {r} ELSE {r}]
      /\ ldata' = [ldata EXCEPT ![t] =
                     [i \in DOMAIN @ \cup {j} |-> IF i = j THEN r ELSE @[i]]]
      /\ held' = [held EXCEPT ![t] = {}]
      /\ pc' = [pc EXCEPT ![t] = "use"]
      /\ pc[t] = "add"
      /\ UNCHANGED <<counter, static, table, key, todo, kernelVars>>
  OBVIOUS
<1> HIDE DEF r, j, Add
<1>e. /\ DOMAIN gdata' = DOMAIN gdata \cup {j}
      /\ \A i \in DOMAIN gdata : i # j => gdata'[i] = gdata[i]
      /\ gdata'[j] = IF j \in DOMAIN gdata THEN gdata[j] \cup {r} ELSE {r}
      /\ DOMAIN ldata'[t] = DOMAIN ldata[t] \cup {j}
      /\ ldata'[t][j] = r
      /\ \A i \in DOMAIN ldata[t] : i # j => ldata'[t][i] = ldata[t][i]
      /\ \A u \in Threads \ {t} : ldata'[u] = ldata[u]
  BY <1>d
<1>f. ldata' = [u \in Threads |-> ldata'[u]]
  BY <1>d
<1>g. ASSUME j \in DOMAIN gdata, NEW x \in gdata[j] PROVE x[1] # t
  BY <1>a, <1>g
<1>1. Types'
  <2>1. DOMAIN gdata' \subseteq Kernels /\ gdata' \in [DOMAIN gdata' -> SUBSET Resources]
    BY <1>a, <1>c, <1>d
  <2>2. \A u \in Threads : /\ DOMAIN ldata'[u] \subseteq Kernels
                           /\ ldata'[u] \in [DOMAIN ldata'[u] -> Resources]
    BY <1>a, <1>c, <1>d
  <2> QED
    BY <1>d, <2>1, <2>2
<1>2. KernelInv'
  BY <1>a, <1>d DEF j
<1>3. LocalInv'
  BY <1>c, <1>d, <1>e, <1>f DEF MadeFor
<1>4. HeldInv'
  BY <1>d, <1>e DEF MadeFor
<1>5. GlobalInv'
  <2> SUFFICES ASSUME NEW i \in DOMAIN gdata', NEW x \in gdata'[i]
               PROVE  /\ kernel'[i] = "live" /\ x \in Resources
                      /\ x[2] = i /\ x[3] = epoch'[i]
                      /\ i \in Unvisited(x[1])' /\ i \in DOMAIN ldata'[x[1]]
                      /\ ldata'[x[1]][i] = x
    OBVIOUS
  <2>1. CASE i = j /\ x = r
    BY <1>a, <1>c, <1>d, <1>e, <2>1 DEF MadeFor, Unvisited
  <2>2. CASE ~(i = j /\ x = r)
    <3>1. i \in DOMAIN gdata /\ x \in gdata[i]
      BY <1>e, <2>2
    <3>2. /\ kernel[i] = "live" /\ x \in Resources /\ x[2] = i /\ x[3] = epoch[i]
          /\ i \in Unvisited(x[1]) /\ i \in DOMAIN ldata[x[1]] /\ ldata[x[1]][i] = x
          /\ x[1] \in Threads
      BY <3>1 DEF Resources
    <3>3. CASE x[1] = t
      BY <1>d, <1>e, <1>g, <3>1, <3>2, <3>3 DEF Unvisited
    <3>4. CASE x[1] # t
      BY <1>d, <1>e, <3>2, <3>4 DEF Unvisited
    <3> QED
      BY <3>3, <3>4
  <2> QED
    BY <2>1, <2>2
<1>6. PresentInv'
  BY <1>d, <1>e DEF Unvisited
<1>7. ExecuteInv'
  BY <1>a, <1>c, <1>d, <1>e DEF j
<1>8. CounterInv'
  BY <1>d DEF CounterInv, Tables, Built
<1> QED
  BY ONLY <1>1, <1>2, <1>3, <1>4, <1>5, <1>6, <1>7, <1>8 DEF IInv

(* An execution ends. *)
LEMMA FinishPreserves ==
    ASSUME IInv, NEW t \in Threads, Finish(t)
    PROVE  IInv'
<1> USE DEF IInv, Types, Steps, KernelInv, LocalInv, HeldInv, GlobalInv, PresentInv,
          ExecuteInv, Visiting, Finish,
          cacheVars, threadVars, kernelVars
<1>1. Types'
  OBVIOUS
<1>2. KernelInv'
  OBVIOUS
<1>3. LocalInv'
  BY DEF MadeFor
<1>4. HeldInv'
  BY DEF MadeFor
<1>5. GlobalInv'
  BY DEF Unvisited
<1>6. PresentInv'
  BY DEF Unvisited, MadeFor
<1>7. ExecuteInv'
  BY DEF MadeFor
<1>8. CounterInv'
  BY DEF CounterInv, Tables, Built
<1> QED
  BY ONLY <1>1, <1>2, <1>3, <1>4, <1>5, <1>6, <1>7, <1>8 DEF IInv

(* clear starts. *)
LEMMA ClearPreserves ==
    ASSUME IInv, NEW t \in Threads, Clear(t)
    PROVE  IInv'
<1> USE DEF IInv, Types, Steps, KernelInv, LocalInv, HeldInv, GlobalInv, PresentInv,
          ExecuteInv, Visiting, Clear,
          cacheVars, threadVars, kernelVars
<1>a. table' = [table EXCEPT ![t] = TRUE]
  BY DEF GetTable
<1>1. Types'
  BY <1>a
<1>2. KernelInv'
  BY <1>a
<1>3. LocalInv'
  BY DEF MadeFor
<1>4. HeldInv'
  BY DEF MadeFor
<1>5. GlobalInv'
  BY DEF Unvisited
<1>6. PresentInv'
  BY DEF Unvisited, MadeFor
<1>7. ExecuteInv'
  BY DEF MadeFor
<1>8. CounterInv'
  BY TableCounted
<1> QED
  BY ONLY <1>1, <1>2, <1>3, <1>4, <1>5, <1>6, <1>7, <1>8 DEF IInv

(* A thread ends. *)
LEMMA ExitPreserves ==
    ASSUME IInv, NEW t \in Threads, Exit(t)
    PROVE  IInv'
<1> USE DEF IInv, Types, Steps, KernelInv, LocalInv, HeldInv, GlobalInv, PresentInv,
          ExecuteInv, Visiting, Exit,
          cacheVars, threadVars, kernelVars
<1>1. Types'
  OBVIOUS
<1>2. KernelInv'
  OBVIOUS
<1>3. LocalInv'
  BY DEF MadeFor
<1>4. HeldInv'
  BY DEF MadeFor
<1>5. GlobalInv'
  BY DEF Unvisited
<1>6. PresentInv'
  BY DEF Unvisited, MadeFor
<1>7. ExecuteInv'
  BY DEF MadeFor
<1>8. CounterInv'
  BY DEF CounterInv, Tables, Built
<1> QED
  BY ONLY <1>1, <1>2, <1>3, <1>4, <1>5, <1>6, <1>7, <1>8 DEF IInv

(* An entry is visited. *)
LEMMA VisitPreserves ==
    ASSUME IInv, NEW t \in Threads, NEW k \in Kernels, Visit(t, k)
    PROVE  IInv'
<1> USE DEF IInv, cacheVars, threadVars, kernelVars
<1>a. /\ held' = [held EXCEPT ![t] = held'[t]]
      /\ key' = [key EXCEPT ![t] = key'[t]]
      /\ IF Alive(ldata[t][k]) THEN held'[t] = {ldata[t][k]} /\ key'[t] = k
         ELSE held'[t] = {} /\ key'[t] = key[t]
      /\ held[t] = {} /\ k \in DOMAIN ldata[t]
  BY DEF Visit, Types, LocalInv, Visiting
<1>b. /\ pc[t] \in {"clear", "exit"} /\ k \in todo[t]
      /\ todo' = [todo EXCEPT ![t] = todo[t] \ {k}]
      /\ UNCHANGED <<cacheVars, pc, kernelVars>>
  BY DEF Visit
<1>1. Types'
  <2>1. held'[t] \in SUBSET Resources /\ key'[t] \in Kernels \cup {NoKernel}
    BY <1>a, <1>b DEF Types
  <2> QED
    BY <1>a, <1>b, <2>1 DEF Types
<1>2. KernelInv'
  BY <1>a, <1>b DEF Types, KernelInv
<1>3. LocalInv'
  BY <1>b DEF Types, LocalInv, MadeFor, Visiting
<1>4. HeldInv'
  BY <1>a, <1>b DEF Types, HeldInv, MadeFor, Visiting
<1>5. GlobalInv'
  <2>1. \A u \in Threads \ {t} : Unvisited(u)' = Unvisited(u)
    BY <1>a, <1>b DEF Unvisited, Visiting, Types
  <2>2. Unvisited(t)' = IF Alive(ldata[t][k]) THEN Unvisited(t) ELSE Unvisited(t) \ {k}
    <3>1. Visiting(t) /\ Visiting(t)' /\ Unvisited(t) = todo[t]
      BY <1>a, <1>b DEF Unvisited, Visiting
    <3>2. Unvisited(t)' = todo'[t] \cup (IF held'[t] = {} THEN {} ELSE {key'[t]})
      BY <3>1 DEF Unvisited
    <3>3. todo'[t] = todo[t] \ {k}
      BY <1>b DEF Types
    <3> QED
      BY <1>a, <1>b, <3>1, <3>2, <3>3
  <2>3. ASSUME NEW j \in DOMAIN gdata, NEW r \in gdata[j], ~Alive(ldata[t][k])
        PROVE  r # ldata[t][k]
    BY <2>3 DEF Alive
  <2> QED
    BY <1>b, <2>1, <2>2, <2>3 DEF GlobalInv, Resources
<1>6. PresentInv'
  BY <1>a, <1>b DEF Types, PresentInv, Unvisited, Visiting, LocalInv, MadeFor
<1>7. ExecuteInv'
  BY <1>a, <1>b DEF Types, ExecuteInv
<1>8. CounterInv'
  BY <1>b DEF CounterInv, Tables, Built
<1> QED
  BY ONLY <1>1, <1>2, <1>3, <1>4, <1>5, <1>6, <1>7, <1>8 DEF IInv

(* Its resource is erased from the global table. *)
LEMMA ErasePreserves ==
    ASSUME IInv, NEW t \in Threads, Erase(t)
    PROVE  IInv'
<1> USE DEF IInv, cacheVars, threadVars, kernelVars
<1> DEFINE k == key[t]
<1>a. /\ pc[t] \in {"clear", "exit"}
      /\ held[t] = {ldata[t][k]} /\ k \in DOMAIN ldata[t] \ todo[t]
  BY DEF Erase, HeldInv, Visiting
<1>b. /\ held' = [held EXCEPT ![t] = {}] /\ key' = [key EXCEPT ![t] = NoKernel]
      /\ UNCHANGED <<ldata, counter, static, table, todo, kernelVars>>
      /\ pc' = [pc EXCEPT ![t] = pc'[t]] /\ pc'[t] \in {pc[t], "assert"}
      /\ DOMAIN gdata' = DOMAIN gdata
      /\ gdata' = [j \in DOMAIN gdata |->
                     IF j = k THEN gdata[j] \ {ldata[t][k]} ELSE gdata[j]]
  <2>1. CASE k \in DOMAIN gdata => held[t] \subseteq gdata[k]
    BY <1>a, <2>1 DEF Erase, Types
  <2>2. CASE ~(k \in DOMAIN gdata => held[t] \subseteq gdata[k])
    <3>1. ldata[t][k] \notin gdata[k]
      BY <1>a, <2>2
    <3>2. gdata' = gdata /\ pc' = [pc EXCEPT ![t] = "assert"]
      BY <2>2 DEF Erase
    <3> QED
      BY <2>2, <3>1, <3>2 DEF Erase, Types
  <2> QED
    BY <2>1, <2>2
<1> HIDE DEF k
<1>c. \A u \in Threads \ {t} : Unvisited(u)' = Unvisited(u)
  BY <1>b DEF Unvisited, Visiting, Types
<1>d. Unvisited(t)' = Unvisited(t) \ {k}
  BY <1>a, <1>b DEF Unvisited, Visiting, Types, k
<1>1. Types'
  <2>1. DOMAIN gdata' \subseteq Kernels /\ gdata' \in [DOMAIN gdata' -> SUBSET Resources]
    BY <1>b DEF Types
  <2> QED
    BY <1>b, <2>1 DEF Types, Steps
<1>2. KernelInv'
  BY <1>a, <1>b DEF Types, KernelInv
<1>3. LocalInv'
  BY <1>a, <1>b DEF Types, LocalInv, MadeFor, Visiting
<1>4. HeldInv'
  BY <1>a, <1>b DEF Types, HeldInv, MadeFor, Visiting
<1>5. GlobalInv'
  <2> SUFFICES ASSUME NEW j \in DOMAIN gdata', NEW r \in gdata'[j]
               PROVE  /\ kernel'[j] = "live" /\ r \in Resources
                      /\ r[2] = j /\ r[3] = epoch'[j]
                      /\ j \in Unvisited(r[1])' /\ j \in DOMAIN ldata'[r[1]]
                      /\ ldata'[r[1]][j] = r
    BY DEF GlobalInv
  <2>1. j \in DOMAIN gdata /\ r \in gdata[j] /\ (j = k => r # ldata[t][k])
    BY <1>b
  <2>2. /\ kernel[j] = "live" /\ r \in Resources /\ r[2] = j /\ r[3] = epoch[j]
        /\ j \in Unvisited(r[1]) /\ j \in DOMAIN ldata[r[1]] /\ ldata[r[1]][j] = r
        /\ r[1] \in Threads
    BY <2>1 DEF GlobalInv, Resources
  <2> QED
    BY <1>b, <1>c, <1>d, <2>1, <2>2
<1>6. PresentInv'
  <2>1. \A u \in Threads : \A j \in DOMAIN ldata[u] :
           u # t => ldata[u][j] # ldata[t][k]
    BY <1>a DEF LocalInv, MadeFor
  <2> QED
    BY <1>b, <1>c, <1>d, <2>1 DEF PresentInv
<1>7. ExecuteInv'
  BY <1>a, <1>b DEF Types, ExecuteInv
<1>8. CounterInv'
  BY <1>b DEF CounterInv, Tables, Built
<1> QED
  BY ONLY <1>1, <1>2, <1>3, <1>4, <1>5, <1>6, <1>7, <1>8 DEF IInv

(* The local table is emptied. *)
LEMMA EndVisitPreserves ==
    ASSUME IInv, NEW t \in Threads, EndVisit(t)
    PROVE  IInv'
<1> USE DEF IInv, cacheVars, threadVars, kernelVars
<1>a. /\ pc[t] \in {"clear", "exit"} /\ held[t] = {} /\ todo[t] = {}
      /\ ldata' = [ldata EXCEPT ![t] = [k \in {} |-> NoKernel]]
      /\ pc' = [pc EXCEPT ![t] = pc'[t]]
      /\ pc'[t] = IF pc[t] = "clear" THEN "idle" ELSE "exited"
      /\ table' = [table EXCEPT ![t] = table'[t]] /\ table'[t] \in BOOLEAN
      /\ UNCHANGED <<gdata, static, key, held, todo, kernelVars>>
  BY DEF EndVisit, Types
<1>1. Types'
  <2>1. pc' \in [Threads -> Steps] /\ table' \in [Threads -> BOOLEAN]
    BY <1>a DEF Types, Steps
  <2>2. \A u \in Threads : /\ DOMAIN ldata'[u] \subseteq Kernels
                           /\ ldata'[u] \in [DOMAIN ldata'[u] -> Resources]
    BY <1>a DEF Types, LocalInv
  <2> QED
    BY <1>a, <2>1, <2>2 DEF Types
<1>2. KernelInv'
  BY <1>a DEF Types, KernelInv
<1>3. LocalInv'
  BY <1>a DEF Types, LocalInv, MadeFor, Visiting
<1>4. HeldInv'
  BY <1>a DEF Types, HeldInv, MadeFor, Visiting
<1>5. GlobalInv'
  <2>1. \A j \in DOMAIN gdata : \A r \in gdata[j] : r[1] \in Threads /\ r[1] # t
    BY <1>a DEF GlobalInv, Unvisited, Visiting, Resources
  <2> QED
    BY <1>a, <2>1 DEF GlobalInv, Unvisited, Visiting, Types, LocalInv
<1>6. PresentInv'
  BY <1>a DEF Types, PresentInv, Unvisited, Visiting, LocalInv
<1>7. ExecuteInv'
  BY <1>a DEF Types, ExecuteInv
<1>8. CounterInv'
  <2>1. CASE pc[t] = "clear"
    BY <2>1 DEF EndVisit, CounterInv, Tables, Built
  <2>2. CASE pc[t] = "exit"
    <3>1. /\ Tables' = Tables \ {t} /\ t \in Tables /\ Built' = Built
          /\ counter' = counter - 1 /\ static' = static
      BY <2>2 DEF EndVisit, Types, KernelInv, Tables, Built
    <3>2. CounterInv /\ Tables \in SUBSET Threads /\ Built \in SUBSET Kernels
      BY DEF Tables, Built
    <3>3. /\ IsFiniteSet(Tables) /\ Cardinality(Tables) \in Nat
          /\ IsFiniteSet(Built) /\ Cardinality(Built) \in Nat
      BY <3>2, CountedFinite
    <3>4. Cardinality(Tables \ {t}) = Cardinality(Tables) - 1
      BY <3>1, <3>3, FS_RemoveElement
    <3> QED
      BY <3>1, <3>2, <3>3, <3>4 DEF CounterInv
  <2> QED
    BY <1>a, <2>1, <2>2
<1> QED
  BY ONLY <1>1, <1>2, <1>3, <1>4, <1>5, <1>6, <1>7, <1>8 DEF IInv

(* The static pointer releases the global table. *)
LEMMA DestroyStaticPreserves ==
    ASSUME IInv, DestroyStatic
    PROVE  IInv'
<1> USE DEF IInv, Types, Steps, KernelInv, LocalInv, HeldInv, GlobalInv, PresentInv,
          ExecuteInv, Visiting, DestroyStatic,
          cacheVars, threadVars, kernelVars
<1>1. Types'
  OBVIOUS
<1>2. KernelInv'
  OBVIOUS
<1>3. LocalInv'
  BY DEF MadeFor
<1>4. HeldInv'
  BY DEF MadeFor
<1>5. GlobalInv'
  BY DEF Unvisited
<1>6. PresentInv'
  BY DEF Unvisited, MadeFor
<1>7. ExecuteInv'
  BY DEF MadeFor
<1>8. CounterInv'
  <2>1. /\ Tables' = Tables /\ Built' = Built
    BY DEF Tables, Built
  <2>2. CounterInv /\ Tables \in SUBSET Threads /\ Built \in SUBSET Kernels
    BY DEF Tables, Built
  <2>3. /\ IsFiniteSet(Tables) /\ Cardinality(Tables) \in Nat
        /\ IsFiniteSet(Built) /\ Cardinality(Built) \in Nat
    BY <2>2, CountedFinite
  <2> QED
    BY <2>1, <2>3 DEF CounterInv
<1> QED
  BY ONLY <1>1, <1>2, <1>3, <1>4, <1>5, <1>6, <1>7, <1>8 DEF IInv

(* Initially nobody but the static pointer uses the global table. *)
LEMMA InitEstablishes == Init => IInv
<1> SUFFICES ASSUME Init PROVE IInv
  OBVIOUS
<1>1. Types
  BY EpochAssumption DEF Init, Types, Steps
<1>2. KernelInv /\ LocalInv /\ HeldInv /\ GlobalInv /\ PresentInv /\ ExecuteInv
  BY DEF Init, KernelInv, LocalInv, HeldInv, GlobalInv, PresentInv, ExecuteInv, Visiting
<1>3. CounterInv
  <2>1. Tables = {} /\ Built = {}
    BY DEF Init, Tables, Built
  <2> QED
    BY <2>1, FS_EmptySet DEF Init, CounterInv
<1> QED
  BY <1>1, <1>2, <1>3 DEF IInv

(* A step that changes nothing. *)
LEMMA StutterPreserves == IInv /\ UNCHANGED vars => IInv'
<1> SUFFICES ASSUME IInv, UNCHANGED vars PROVE IInv'
  OBVIOUS
<1> USE DEF IInv, vars, cacheVars, threadVars, kernelVars
<1>1. Types' /\ KernelInv' /\ ExecuteInv'
  BY DEF Types, KernelInv, ExecuteInv
<1>2. LocalInv' /\ HeldInv'
  BY DEF LocalInv, HeldInv, MadeFor, Visiting
<1>3. GlobalInv' /\ PresentInv'
  BY DEF GlobalInv, PresentInv, Unvisited, Visiting
<1>4. CounterInv'
  BY DEF CounterInv, Tables, Built
<1> QED
  BY <1>1, <1>2, <1>3, <1>4

(* The inductive invariant holds of every state of the caches, whatever the
   threads and however their executions, clears and ends interleave with the
   construction and the destruction of kernels. *)
THEOREM TablesInvariant == Spec => []IInv
<1>1. IInv /\ [Next]_vars => IInv'
  <2> SUFFICES ASSUME IInv, [Next]_vars PROVE IInv'
    OBVIOUS
  <2>1. ASSUME NEW k \in Kernels, Construct(k) \/ RemoveIfExist(k) \/ Release(k)
        PROVE  IInv'
    BY <2>1, ConstructPreserves, RemoveIfExistPreserves, ReleasePreserves
  <2>2. ASSUME NEW t \in Threads, NEW k \in Kernels, Execute(t, k) \/ Visit(t, k)
        PROVE  IInv'
    BY <2>2, ExecutePreserves, VisitPreserves
  <2>3. ASSUME NEW t \in Threads, Add(t) \/ Finish(t) \/ Clear(t)
        PROVE  IInv'
    BY <2>3, AddPreserves, FinishPreserves, ClearPreserves
  <2>4. ASSUME NEW t \in Threads, Exit(t) \/ Erase(t) \/ EndVisit(t)
        PROVE  IInv'
    BY <2>4, ExitPreserves, ErasePreserves, EndVisitPreserves
  <2>5. CASE DestroyStatic
    BY <2>5, DestroyStaticPreserves
  <2>6. CASE UNCHANGED vars
    BY <2>6, StutterPreserves
  <2> QED
    BY <2>1, <2>2, <2>3, <2>4, <2>5, <2>6 DEF Next
<1> QED
  BY <1>1, InitEstablishes, PTL DEF Spec

(* Types are correct, and counter_ never exceeds the number of those who
   retain the global table, nor falls below zero. *)
THEOREM TablesTypeCorrect == Spec => []TypeOK
<1>1. IInv => TypeOK
  <2> SUFFICES ASSUME IInv PROVE TypeOK
    OBVIOUS
  <2>1. Tables \in SUBSET Threads /\ Built \in SUBSET Kernels
    BY DEF Tables, Built
  <2>2. counter \in 0..(1 + Cardinality(Threads) + Cardinality(Kernels))
    BY <2>1, CountedFinite DEF IInv, CounterInv
  <2> QED
    BY <2>2 DEF IInv, Types, TypeOK
<1> QED
  BY <1>1, TablesInvariant, PTL

(* get_or_add returns a resource that is alive and that this thread made for
   this very kernel, although the address of an earlier kernel is the same and
   other threads clear, end and destroy kernels meanwhile. *)
THEOREM ResourceIsOwnAndFresh == Spec => []OwnFreshResource
<1>1. IInv => OwnFreshResource
  <2> SUFFICES ASSUME IInv, NEW t \in Threads, pc[t] = "use"
               PROVE  /\ key[t] \in DOMAIN ldata[t]
                      /\ Alive(ldata[t][key[t]])
                      /\ ldata[t][key[t]] \in {t} \X {key[t]} \X {epoch[key[t]]} \X Copies
    BY DEF OwnFreshResource
  <2>1. /\ key[t] \in DOMAIN ldata[t] /\ ldata[t][key[t]][3] = epoch[key[t]]
        /\ kernel[key[t]] = "live"
    BY DEF IInv, ExecuteInv, KernelInv
  <2>2. Alive(ldata[t][key[t]])
    BY <2>1 DEF IInv, PresentInv, Unvisited, Visiting, Alive
  <2>3. MadeFor(ldata[t][key[t]], t, key[t])
    BY <2>1 DEF IInv, LocalInv
  <2> QED
    BY <2>1, <2>2, <2>3 DEF MadeFor, Resources
<1> QED
  BY <1>1, TablesInvariant, PTL

(* The global table owns nothing that no thread's table finds, and nothing of
   a kernel that is gone. *)
THEOREM NothingLeaks == Spec => []NoOrphan
<1>1. IInv => NoOrphan
  BY DEF IInv, GlobalInv, NoOrphan, Resources
<1> QED
  BY <1>1, TablesInvariant, PTL

(* counter_ is zero exactly when no table, no kernel and not the static pointer
   uses the global table: release deletes it then, and not before. *)
THEOREM CacheOutlivesItsUsers == Spec => []CacheOutlivesUsers
<1>1. IInv => CacheOutlivesUsers
  <2> SUFFICES ASSUME IInv PROVE CacheOutlivesUsers
    OBVIOUS
  <2>1. Tables \in SUBSET Threads /\ Built \in SUBSET Kernels
    BY DEF Tables, Built
  <2>2. counter = 0 <=> ~static /\ Tables = {} /\ Built = {}
    BY <2>1, CountedFinite DEF IInv, CounterInv
  <2> QED
    BY <2>2 DEF CacheOutlivesUsers, Tables, Built
<1> QED
  BY <1>1, TablesInvariant, PTL

=============================================================================
