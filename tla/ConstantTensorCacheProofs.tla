---------------------- MODULE ConstantTensorCacheProofs ----------------------
(***************************************************************************)
(* For any threads, kernels, sizes and capacities: the constant tensors    *)
(* stay within the capacity, whoever waits for a buffer waits for a thread *)
(* that fills it, and whoever uses a buffer owns it.                       *)
(*                                                                         *)
(* The argument: at most one thread is in the section of the write lock,   *)
(* and the key it found missing stays missing until it adds it.  A pending *)
(* entry or future is that of a thread filling a buffer for the same       *)
(* kernel, and is replaced in the step that ends the filling.  A thread    *)
(* owns at most one buffer besides those in the map, so there is memory    *)
(* for a new one.                                                          *)
(***************************************************************************)
EXTENDS ConstantTensorCache, FiniteSetTheorems, TLAPS

-----------------------------------------------------------------------------
(* The inductive invariant.                                                 *)

\* The thread that holds the write lock between two steps is the one that waits
\* for buffers in its section.
LockInv ==
    \A t \in Threads : pc[t] \in {"sizing", "flush", "evict"} <=> writer = t

\* A call that executes or evicts a kernel knows it; the kernel that a thread
\* will add has no entry.
ArgInv ==
    /\ arg = [t \in Threads |-> arg[t]]
    /\ \A t \in Threads :
          /\ pc[t] \in {"lookup", "insert", "sizing", "wait", "fill", "use", "evict"} =>
                arg[t] \in Keys
          /\ pc[t] = "sizing" => arg[t] \notin DOMAIN map

\* A thread has a future only while it waits, and owns a buffer only while it
\* uses it; both are of the kernel it executes.
OwnInv ==
    \A t \in Threads :
        /\ fut[t] # NoBuffer => pc[t] = "wait"
        /\ fut[t] \in Buffers => fut[t][1] = arg[t]
        /\ buf[t] # NoBuffer =>
              pc[t] = "use" /\ buf[t][1] = arg[t] /\ handle[t][arg[t]] = buf[t]

\* An entry has a buffer of its own kernel.
MapInv ==
    /\ IsFiniteSet(DOMAIN map)
    /\ \A k \in DOMAIN map : map[k] \in Buffers => map[k][1] = k

\* Unless the cache can be turned off, no kernel is executed without constants.
ReadyInv ==
    0 \notin Capacities => \A t \in Threads : pc[t] = "use" => buf[t] # NoBuffer

IInv ==
    /\ TypeOK /\ LockInv /\ ArgInv /\ OwnInv /\ MapInv /\ PendingIsFilled
    /\ ReadyInv /\ TotalWithinCapacity

-----------------------------------------------------------------------------
(* get_size. *)

\* The total size of the tensors of some kernels.
TotalOf(S) == MapThenSumSet(LAMBDA k : SizeOf[k], S)

\* The bytes of some tensors.
Bytes(S) == UNION {{k} \X (1..SizeOf[k]) : k \in S}

\* f adds up the sizes of subsets of S, element by element.
Sums(f, S) ==
    f = [s \in SUBSET S |->
           IF s = {} THEN 0
           ELSE SizeOf[CHOOSE x \in s : TRUE] + f[s \ {CHOOSE x \in s : TRUE}]]

(* The tensors of finitely many kernels have finitely many bytes. *)
LEMMA BytesFinite ==
    ASSUME NEW S \in SUBSET Keys, IsFiniteSet(S)
    PROVE  IsFiniteSet(Bytes(S)) /\ Cardinality(Bytes(S)) \in Nat
<1> DEFINE T == {{k} \X (1..SizeOf[k]) : k \in S}
           f == [k \in S |-> {k} \X (1..SizeOf[k])]
<1>1. ASSUME NEW k \in S PROVE IsFiniteSet({k} \X (1..SizeOf[k]))
  <2>1. 1 \in Int /\ SizeOf[k] \in Int
    BY SizeAssumption
  <2>2. IsFiniteSet({k}) /\ IsFiniteSet(1..SizeOf[k])
    BY <2>1, FS_Singleton, FS_Interval
  <2> QED
    BY <2>2, FS_Product
<1>2. f \in Surjection(S, T)
  BY DEF Surjection
<1>3. IsFiniteSet(T)
  BY <1>2, FS_Surjection
<1> HIDE DEF T
<1>4. \A U \in T : IsFiniteSet(U)
  BY <1>1 DEF T
<1> QED
  BY <1>3, <1>4, FS_UNION, FS_CardinalityType DEF Bytes, T

(* One more tensor adds its size. *)
LEMMA BytesAdd ==
    ASSUME NEW S \in SUBSET Keys, IsFiniteSet(S), NEW k \in Keys \ S
    PROVE  Cardinality(Bytes(S \cup {k})) = Cardinality(Bytes(S)) + SizeOf[k]
<1> DEFINE B == {k} \X (1..SizeOf[k])
<1>1. SizeOf[k] \in Nat
  BY SizeAssumption
<1>2. IsFiniteSet({k}) /\ Cardinality({k}) = 1
  BY FS_Singleton
<1>3. IsFiniteSet(1..SizeOf[k]) /\ Cardinality(1..SizeOf[k]) = SizeOf[k]
  BY <1>1, SizeAssumption, FS_Interval
<1>4. IsFiniteSet(B) /\ Cardinality(B) = SizeOf[k]
  <2>1. IsFiniteSet(B) /\ Cardinality(B) = Cardinality({k}) * Cardinality(1..SizeOf[k])
    BY <1>2, <1>3, FS_Product
  <2> QED
    BY <1>1, <1>2, <1>3, <2>1
<1>5. Bytes(S \cup {k}) = Bytes(S) \cup B /\ Bytes(S) \cap B = {}
  BY DEF Bytes
<1> HIDE DEF B
<1>6. IsFiniteSet(Bytes(S)) /\ Cardinality(Bytes(S)) \in Nat
  BY BytesFinite
<1>7. Cardinality(Bytes(S) \cup B) = Cardinality(Bytes(S)) + Cardinality(B) - Cardinality(Bytes(S) \cap B)
  BY <1>4, <1>6, FS_Union
<1>8. Cardinality(Bytes(S) \cap B) = 0
  BY <1>5, FS_EmptySet
<1>9. Cardinality(Bytes(S) \cup B) = Cardinality(Bytes(S)) + SizeOf[k]
  BY <1>1, <1>4, <1>6, <1>7, <1>8
<1> QED
  BY <1>5, <1>9

(* The number of bytes satisfies the equation that get_size adds up by. *)
LEMMA BytesSum ==
    ASSUME NEW S \in SUBSET Keys, IsFiniteSet(S)
    PROVE  Sums([s \in SUBSET S |-> Cardinality(Bytes(s))], S)
<1> DEFINE h == [s \in SUBSET S |-> Cardinality(Bytes(s))]
           c(s) == CHOOSE x \in s : TRUE
<1>1. Bytes({}) = {}
  BY DEF Bytes
<1>2. ASSUME NEW s \in SUBSET S, s # {}
      PROVE  h[s] = SizeOf[c(s)] + h[s \ {c(s)}]
  <2>1. c(s) \in s
    BY <1>2
  <2> HIDE DEF c
  <2>2. IsFiniteSet(s \ {c(s)}) /\ s \ {c(s)} \in SUBSET S /\ (s \ {c(s)}) \cup {c(s)} = s
    BY <2>1, FS_Subset
  <2>3. Cardinality(Bytes(s)) = Cardinality(Bytes(s \ {c(s)})) + SizeOf[c(s)]
    BY <2>1, <2>2, BytesAdd
  <2>4. Cardinality(Bytes(s \ {c(s)})) \in Nat /\ SizeOf[c(s)] \in Nat
    BY <2>1, <2>2, BytesFinite, SizeAssumption
  <2> QED
    BY <2>2, <2>3, <2>4
<1>3. h[{}] = 0
  BY <1>1, FS_EmptySet
<1> QED
  BY <1>2, <1>3, Zenon DEF Sums

(* There is one function that satisfies it, as a smallest set on which two
   functions differ would not be one. *)
LEMMA SumUnique ==
    ASSUME NEW S, IsFiniteSet(S), NEW f, NEW g, Sums(f, S), Sums(g, S)
    PROVE  f = g
<1> DEFINE T == {s \in SUBSET S : f[s] # g[s]}
           c(s) == CHOOSE x \in s : TRUE
<1>1. T = {}
  <2> SUFFICES ASSUME T # {} PROVE FALSE
    OBVIOUS
  <2>1. IsWellFoundedOn(StrictSubsetOrdering(S), FiniteSubsetsOf(S))
    BY FS_StrictSubsetOrderingWellFounded
  <2>2. T \subseteq FiniteSubsetsOf(S)
    BY FS_FiniteSubsetsOfFinite
  <2>3. \E s \in T : \A r \in T : ~(<<r, s>> \in StrictSubsetOrdering(S))
    <3> HIDE DEF T
    <3> QED
      BY <2>1, <2>2, WFMin
  <2>4. PICK s \in T : \A r \in T : ~(<<r, s>> \in StrictSubsetOrdering(S))
    BY <2>3
  <2>5. s # {}
    BY DEF Sums
  <2>6. c(s) \in s
    BY <2>5
  <2>7. /\ f[s] = SizeOf[c(s)] + f[s \ {c(s)}]
        /\ g[s] = SizeOf[c(s)] + g[s \ {c(s)}]
    BY <2>5 DEF Sums
  <2> HIDE DEF c
  <2>8. s \ {c(s)} \notin T
    <3> DEFINE r == s \ {c(s)}
    <3>1. r \in SUBSET S /\ s \in SUBSET S /\ r \subseteq s /\ r # s
      BY <2>6
    <3> HIDE DEF r
    <3>2. <<r, s>> \in StrictSubsetOrdering(S)
      BY <3>1 DEF StrictSubsetOrdering
    <3> QED
      BY <2>4, <3>2 DEF r
  <2> QED
    BY <2>7, <2>8
<1>2. f = [s \in SUBSET S |-> f[s]] /\ g = [s \in SUBSET S |-> g[s]]
  BY DEF Sums
<1> QED
  BY <1>1, <1>2

(* get_size returns the number of bytes of the tensors, in whatever order it
   goes through the map. *)
LEMMA TotalIsBytes ==
    ASSUME NEW S \in SUBSET Keys, IsFiniteSet(S)
    PROVE  TotalOf(S) = Cardinality(Bytes(S))
<1> DEFINE iter == CHOOSE f : Sums(f, S)
           h == [s \in SUBSET S |-> Cardinality(Bytes(s))]
<1>1. TotalOf(S) = iter[S]
  BY DEF TotalOf, MapThenSumSet, MapThenFoldSet, Sums
<1>2. Sums(h, S)
  BY BytesSum
<1> HIDE DEF h
<1>3. Sums(iter, S)
  BY <1>2
<1>4. iter = h
  <2> HIDE DEF iter
  <2> QED
    BY <1>2, <1>3, SumUnique
<1> QED
  BY <1>1, <1>4 DEF h

(* The total size depends on which kernels have an entry only. *)
LEMMA TotalSizeOf ==
    TotalSize = TotalOf(DOMAIN map) /\ TotalSize' = TotalOf(DOMAIN map')
BY DEF TotalSize, TotalOf, MapThenSumSet, MapThenFoldSet

-----------------------------------------------------------------------------
(* malloc. *)

(* There is memory for a new buffer: besides the entry of the kernel, only
   other threads own its buffers, each of them one. *)
LEMMA MallocFinds ==
    ASSUME IInv, NEW t \in Threads, pc[t] = "fill"
    PROVE  malloc(arg[t]) \in {arg[t]} \X Copies /\ malloc(arg[t]) \in Buffers
<1> DEFINE k == arg[t]
           S == {k} \X Copies
<1>1. k \in Keys /\ S \subseteq Buffers
  BY DEF IInv, ArgInv, Buffers
<1>2. IsFiniteSet(S) /\ Cardinality(S) > Cardinality(Threads)
  <2>1. IsFiniteSet({k}) /\ Cardinality({k}) = 1
    BY FS_Singleton
  <2>2. IsFiniteSet(S) /\ Cardinality(S) = Cardinality({k}) * Cardinality(Copies)
    BY <2>1, MemoryAssumption, FS_Product
  <2>3. Cardinality(Copies) \in Nat
    BY MemoryAssumption, FS_CardinalityType
  <2> QED
    BY <2>1, <2>2, <2>3, MemoryAssumption
<1> HIDE DEF S
<1>3. ASSUME \A b \in S : Alive(b) PROVE FALSE
  <2> DEFINE g == [b \in S |-> IF k \in DOMAIN map /\ map[k] = b THEN t
                               ELSE CHOOSE u \in Threads : b \in {fut[u], buf[u]}]
  <2>1. ASSUME NEW b \in S, ~(k \in DOMAIN map /\ map[k] = b)
        PROVE  g[b] \in Threads /\ b \in {fut[g[b]], buf[g[b]]}
    <3>1. b \in Buffers /\ b[1] = k
      BY <1>1 DEF S
    <3>2. \E u \in Threads : b \in {fut[u], buf[u]}
      <4>1. ASSUME NEW j \in DOMAIN map, map[j] = b PROVE FALSE
        BY <2>1, <3>1, <4>1 DEF IInv, MapInv
      <4> QED
        BY <1>3, <4>1 DEF Alive
    <3> QED
      BY <2>1, <3>2
  <2>2. g \in [S -> Threads]
    <3>1. \A b \in S : g[b] \in Threads
      BY <2>1
    <3> QED
      BY <3>1
  <2>3. PICK b, c \in S : b # c /\ g[b] = g[c]
    <3> HIDE DEF g
    <3> QED
      BY <1>2, <2>2, MemoryAssumption, FS_PigeonHole
  <2>4. b \in Buffers /\ c \in Buffers /\ b # NoBuffer /\ c # NoBuffer
    BY <1>1, DistinctAssumption
  <2>5. \A x \in S : g[x] = t => k \in DOMAIN map /\ map[k] = x
    <3> SUFFICES ASSUME NEW x \in S, g[x] = t, ~(k \in DOMAIN map /\ map[k] = x)
                 PROVE  FALSE
      OBVIOUS
    <3>1. x \in {fut[t], buf[t]} /\ x # NoBuffer
      <4> HIDE DEF g
      <4> QED
        BY <1>1, <2>1, DistinctAssumption
    <3> QED
      BY <3>1 DEF IInv, OwnInv
  <2>6. g[b] # t
    BY <2>3, <2>5
  <2>7. b \in {fut[g[b]], buf[g[b]]} /\ c \in {fut[g[b]], buf[g[b]]} /\ g[b] \in Threads
    <3>1. ~(k \in DOMAIN map /\ map[k] = b) /\ ~(k \in DOMAIN map /\ map[k] = c)
      BY <2>3, <2>6
    <3> HIDE DEF g
    <3> QED
      BY <2>1, <2>3, <3>1
  <2> HIDE DEF g
  <2> QED
    BY <2>3, <2>4, <2>7 DEF IInv, OwnInv
<1>4. \E b \in S : ~Alive(b)
  BY <1>3
<1>5. malloc(k) \in S
  BY <1>4 DEF malloc, S
<1> QED
  BY <1>1, <1>5 DEF S

-----------------------------------------------------------------------------
(* The invariant is kept, action by action. *)

(* compile decides whether a kernel has constants. *)
LEMMA CompilePreserves ==
    ASSUME IInv, NEW k \in Keys, Compile(k)
    PROVE  IInv'
<1> USE DEF IInv, Compile, Goto, cacheVars, threadVars
<1>1. TypeOK'
  BY DEF TypeOK, Steps
<1>2. LockInv'
  BY DistinctAssumption DEF TypeOK, LockInv
<1>3. ArgInv'
  BY DEF TypeOK, ArgInv
<1>4. OwnInv'
  BY DistinctAssumption DEF TypeOK, OwnInv
<1>5. MapInv'
  BY DEF TypeOK, MapInv
<1>6. PendingIsFilled'
  BY DistinctAssumption DEF TypeOK, PendingIsFilled, Pending, OwnInv
<1>7. ReadyInv'
  BY DEF TypeOK, ReadyInv
<1>8. TotalWithinCapacity'
  BY TotalSizeOf, DistinctAssumption DEF TypeOK, TotalWithinCapacity, LockGivenBack
<1> QED
  BY ONLY <1>1, <1>2, <1>3, <1>4, <1>5, <1>6, <1>7, <1>8 DEF IInv

(* execute_impl starts. *)
LEMMA ExecutePreserves ==
    ASSUME IInv, NEW t \in Threads, NEW k \in Keys, Execute(t, k)
    PROVE  IInv'
<1> USE DEF IInv, Execute, Goto, cacheVars, threadVars
<1>1. TypeOK'
  BY DEF TypeOK, Steps
<1>2. LockInv'
  BY DistinctAssumption DEF TypeOK, LockInv
<1>3. ArgInv'
  BY DEF TypeOK, ArgInv
<1>4. OwnInv'
  BY DistinctAssumption DEF TypeOK, OwnInv
<1>5. MapInv'
  BY DEF TypeOK, MapInv
<1>6. PendingIsFilled'
  BY DistinctAssumption DEF TypeOK, PendingIsFilled, Pending, OwnInv
<1>7. ReadyInv'
  BY DEF TypeOK, ReadyInv
<1>8. TotalWithinCapacity'
  BY TotalSizeOf, DistinctAssumption DEF TypeOK, TotalWithinCapacity, LockGivenBack
<1> QED
  BY ONLY <1>1, <1>2, <1>3, <1>4, <1>5, <1>6, <1>7, <1>8 DEF IInv

(* get_or_add looks the kernel up. *)
LEMMA LookupPreserves ==
    ASSUME IInv, NEW t \in Threads, Lookup(t)
    PROVE  IInv'
<1> USE DEF IInv, Lookup, Goto, cacheVars, threadVars
<1>a. /\ pc[t] = "lookup" /\ writer = NoThread /\ arg[t] \in Keys
      /\ pc' = [pc EXCEPT ![t] = pc'[t]]
      /\ \/ pc'[t] \in {"insert", "fill"} /\ fut' = fut
         \/ /\ pc'[t] = "wait" /\ arg[t] \in DOMAIN map
            /\ fut' = [fut EXCEPT ![t] = map[arg[t]]]
      /\ UNCHANGED cacheVars
      /\ UNCHANGED <<constant, arg, buf, handle>>
  BY DEF Got, Unlocked, TypeOK, ArgInv
<1> HIDE DEF Lookup
<1>b. ASSUME pc'[t] = "wait"
      PROVE  /\ fut' = [fut EXCEPT ![t] = map[arg[t]]] /\ arg[t] \in DOMAIN map
             /\ map[arg[t]] \in Threads \cup Buffers \cup {Broken}
  BY <1>a, <1>b DEF TypeOK
<1>c. ASSUME pc'[t] # "wait" PROVE fut' = fut
  BY <1>a, <1>c
<1>1. TypeOK'
  <2>1. fut' \in [Threads -> Threads \cup Buffers \cup {Broken, NoBuffer}]
    BY <1>b, <1>c DEF TypeOK
  <2>2. pc' \in [Threads -> Steps] /\ pc'[t] # "set"
    BY <1>a DEF TypeOK, Steps
  <2>3. \A u \in Threads :
           arg'[u] \in IF pc'[u] = "set" THEN Capacities ELSE Keys \cup {NoBuffer}
    BY <1>a, <2>2 DEF TypeOK
  <2>4. writer' \in Threads \cup {NoThread, Broken}
    BY <1>a DEF TypeOK
  <2> QED
    BY <1>a, <2>1, <2>2, <2>3, <2>4 DEF TypeOK
<1>2. LockInv'
  BY <1>a, DistinctAssumption DEF TypeOK, LockInv
<1>3. ArgInv'
  BY <1>a DEF TypeOK, ArgInv
<1>4. OwnInv'
  <2>1. CASE pc'[t] = "wait"
    BY <1>a, <1>b, <2>1, DistinctAssumption DEF TypeOK, OwnInv, MapInv
  <2>2. CASE pc'[t] # "wait"
    BY <1>a, <1>c, <2>2, DistinctAssumption DEF TypeOK, OwnInv
  <2> QED
    BY <2>1, <2>2
<1>5. MapInv'
  BY <1>a DEF TypeOK, MapInv
<1>6. PendingIsFilled'
  <2>1. CASE pc'[t] = "wait"
    BY <1>a, <1>b, <2>1, DistinctAssumption DEF TypeOK, PendingIsFilled, Pending, OwnInv
  <2>2. CASE pc'[t] # "wait"
    BY <1>a, <1>c, <2>2, DistinctAssumption DEF TypeOK, PendingIsFilled, Pending, OwnInv
  <2> QED
    BY <2>1, <2>2
<1>7. ReadyInv'
  BY <1>a DEF TypeOK, ReadyInv
<1>8. TotalWithinCapacity'
  BY <1>a, TotalSizeOf, DistinctAssumption DEF TypeOK, TotalWithinCapacity, LockGivenBack
<1> QED
  BY ONLY <1>1, <1>2, <1>3, <1>4, <1>5, <1>6, <1>7, <1>8 DEF IInv

(* get_or_add looks it up again, and waits in add. *)
LEMMA InsertPreserves ==
    ASSUME IInv, NEW t \in Threads, Insert(t)
    PROVE  IInv'
<1> USE DEF IInv, Insert, Goto, cacheVars, threadVars
<1>a. /\ pc[t] = "insert" /\ writer = NoThread /\ arg[t] \in Keys
      /\ pc' = [pc EXCEPT ![t] = pc'[t]]
      /\ \/ pc'[t] \in {"sizing", "fill"} /\ fut' = fut
         \/ /\ pc'[t] = "wait" /\ arg[t] \in DOMAIN map
            /\ fut' = [fut EXCEPT ![t] = map[arg[t]]]
      /\ UNCHANGED <<user, capacity, map>>
      /\ writer' = IF pc'[t] = "sizing" THEN t ELSE writer
      /\ pc'[t] = "sizing" => arg[t] \notin DOMAIN map
      /\ UNCHANGED <<constant, arg, buf, handle>>
  BY DEF Got, Unlocked, TypeOK, ArgInv
<1> HIDE DEF Insert
<1>b. ASSUME pc'[t] = "wait"
      PROVE  /\ fut' = [fut EXCEPT ![t] = map[arg[t]]] /\ arg[t] \in DOMAIN map
             /\ map[arg[t]] \in Threads \cup Buffers \cup {Broken}
  BY <1>a, <1>b DEF TypeOK
<1>c. ASSUME pc'[t] # "wait" PROVE fut' = fut
  BY <1>a, <1>c
<1>1. TypeOK'
  <2>1. fut' \in [Threads -> Threads \cup Buffers \cup {Broken, NoBuffer}]
    BY <1>b, <1>c DEF TypeOK
  <2>2. pc' \in [Threads -> Steps] /\ pc'[t] # "set"
    BY <1>a DEF TypeOK, Steps
  <2>3. \A u \in Threads :
           arg'[u] \in IF pc'[u] = "set" THEN Capacities ELSE Keys \cup {NoBuffer}
    BY <1>a, <2>2 DEF TypeOK
  <2>4. writer' \in Threads \cup {NoThread, Broken}
    BY <1>a DEF TypeOK
  <2> QED
    BY <1>a, <2>1, <2>2, <2>3, <2>4 DEF TypeOK
<1>2. LockInv'
  BY <1>a, DistinctAssumption DEF TypeOK, LockInv
<1>3. ArgInv'
  BY <1>a DEF TypeOK, ArgInv
<1>4. OwnInv'
  <2>1. CASE pc'[t] = "wait"
    BY <1>a, <1>b, <2>1, DistinctAssumption DEF TypeOK, OwnInv, MapInv
  <2>2. CASE pc'[t] # "wait"
    BY <1>a, <1>c, <2>2, DistinctAssumption DEF TypeOK, OwnInv
  <2> QED
    BY <2>1, <2>2
<1>5. MapInv'
  BY <1>a DEF TypeOK, MapInv
<1>6. PendingIsFilled'
  <2>1. CASE pc'[t] = "wait"
    BY <1>a, <1>b, <2>1, DistinctAssumption DEF TypeOK, PendingIsFilled, Pending, OwnInv
  <2>2. CASE pc'[t] # "wait"
    BY <1>a, <1>c, <2>2, DistinctAssumption DEF TypeOK, PendingIsFilled, Pending, OwnInv
  <2> QED
    BY <2>1, <2>2
<1>7. ReadyInv'
  BY <1>a DEF TypeOK, ReadyInv
<1>8. TotalWithinCapacity'
  BY <1>a, TotalSizeOf, DistinctAssumption DEF TypeOK, TotalWithinCapacity, LockGivenBack
<1> QED
  BY ONLY <1>1, <1>2, <1>3, <1>4, <1>5, <1>6, <1>7, <1>8 DEF IInv

(* add puts a pending entry in the map if there is room for it. *)
LEMMA AddPreserves ==
    ASSUME IInv, NEW t \in Threads, Add(t)
    PROVE  IInv'
<1> USE DEF IInv, Add, Goto, cacheVars, threadVars
<1> DEFINE k == arg[t]
           D == DOMAIN map
<1>a. /\ pc[t] = "sizing" /\ writer = t /\ k \in Keys /\ k \notin D
      /\ pc' = [pc EXCEPT ![t] = "fill"] /\ writer' = NoThread
      /\ Pending = {}
      /\ UNCHANGED <<user, capacity, constant, arg, fut, buf, handle>>
  BY DEF LockInv, ArgInv
<1>b. \/ map' = map /\ TotalSize + SizeOf[k] > capacity
      \/ /\ map' = [j \in D \cup {k} |-> IF j = k THEN t ELSE map[j]]
         /\ ~(TotalSize + SizeOf[k] > capacity)
  OBVIOUS
<1> HIDE DEF k, Add
<1>c. /\ DOMAIN map' = D \/ DOMAIN map' = D \cup {k}
      /\ \A j \in DOMAIN map' : (j \in D /\ map'[j] = map[j]) \/ (j = k /\ map'[j] = t)
      /\ map' = [j \in DOMAIN map' |-> map'[j]]
  BY <1>b DEF TypeOK
<1>1. TypeOK'
  <2>1. /\ DOMAIN map' \subseteq Keys
        /\ map' \in [DOMAIN map' -> Threads \cup Buffers \cup {Broken}]
    BY <1>a, <1>c DEF TypeOK
  <2> QED
    BY <1>a, <2>1 DEF TypeOK, Steps
<1>2. LockInv'
  BY <1>a, DistinctAssumption DEF TypeOK, LockInv
<1>3. ArgInv'
  BY <1>a, DistinctAssumption DEF TypeOK, ArgInv, LockInv
<1>4. OwnInv'
  BY <1>a, DistinctAssumption DEF TypeOK, OwnInv
<1>5. MapInv'
  <2>1. IsFiniteSet(D) /\ IsFiniteSet(D \cup {k})
    BY FS_AddElement DEF MapInv
  <2>2. IsFiniteSet(DOMAIN map')
    BY <1>c, <2>1
  <2>3. t \notin Buffers
    BY DistinctAssumption
  <2> QED
    BY <1>c, <2>2, <2>3 DEF MapInv
<1>6. PendingIsFilled'
  BY <1>a, <1>c, DistinctAssumption DEF TypeOK, PendingIsFilled, Pending, OwnInv, k
<1>7. ReadyInv'
  BY <1>a DEF TypeOK, ReadyInv
<1>8. TotalWithinCapacity'
  <2>1. D \in SUBSET Keys /\ IsFiniteSet(D) /\ k \in Keys \ D /\ IsFiniteSet(D \cup {k})
    BY <1>a, FS_AddElement DEF TypeOK, MapInv
  <2>2. TotalOf(D) = Cardinality(Bytes(D)) /\ TotalOf(D) \in Nat
    BY <2>1, TotalIsBytes, BytesFinite
  <2>3. TotalOf(D \cup {k}) = TotalOf(D) + SizeOf[k]
    <3>1. D \cup {k} \in SUBSET Keys
      BY <2>1
    <3>2. TotalOf(D \cup {k}) = Cardinality(Bytes(D \cup {k}))
      BY <2>1, <3>1, TotalIsBytes
    <3>3. Cardinality(Bytes(D \cup {k})) = Cardinality(Bytes(D)) + SizeOf[k]
      BY <2>1, BytesAdd
    <3> QED
      BY <2>2, <3>2, <3>3
  <2>4. capacity \in Nat /\ SizeOf[k] \in Nat
    BY <1>a, SizeAssumption, CapacityAssumption DEF TypeOK
  <2>5. TotalSize <= capacity
    <3>1. LockGivenBack /\ \A u \in Threads : pc[u] # "flush"
      BY <1>a, DistinctAssumption DEF LockGivenBack, LockInv
    <3> QED
      BY <3>1 DEF TotalWithinCapacity
  <2>6. TotalSize' <= capacity
    <3>1. CASE map' = map
      BY <2>5, <3>1, TotalSizeOf
    <3>2. CASE map' # map
      <4>1. DOMAIN map' = D \cup {k} /\ ~(TotalSize + SizeOf[k] > capacity)
        BY <1>b, <3>2
      <4>2. TotalSize' = TotalOf(D \cup {k}) /\ TotalSize = TotalOf(D)
        BY <4>1, TotalSizeOf
      <4> QED
        BY <2>2, <2>3, <2>4, <4>1, <4>2
    <3> QED
      BY <3>1, <3>2
  <2> QED
    BY <1>a, <2>6 DEF TotalWithinCapacity
<1> QED
  BY ONLY <1>1, <1>2, <1>3, <1>4, <1>5, <1>6, <1>7, <1>8 DEF IInv

(* A thread gets the buffer it waited for. *)
LEMMA WaitPreserves ==
    ASSUME IInv, NEW t \in Threads, Wait(t)
    PROVE  IInv'
<1> USE DEF IInv, Wait, Goto, cacheVars, threadVars
<1>a. /\ pc[t] = "wait" /\ fut[t] \in Buffers /\ fut[t] # NoBuffer /\ arg[t] \in Keys
      /\ fut[t][1] = arg[t]
      /\ buf' = [buf EXCEPT ![t] = fut[t]] /\ fut' = [fut EXCEPT ![t] = NoBuffer]
      /\ pc' = [pc EXCEPT ![t] = "use"]
      /\ UNCHANGED <<cacheVars, constant, arg>>
  BY DistinctAssumption DEF Use, ArgInv, OwnInv
<1>b. /\ handle' = [handle EXCEPT ![t] = [handle[t] EXCEPT ![arg[t]] = fut[t]]]
      /\ handle'[t][arg[t]] = fut[t]
      /\ \A u \in Threads \ {t} : handle'[u] = handle[u]
  BY <1>a DEF TypeOK, Use
<1> HIDE DEF Wait
<1>1. TypeOK'
  <2>1. [handle[t] EXCEPT ![arg[t]] = fut[t]] \in [Keys -> Buffers \cup {NoBuffer}]
    BY <1>a DEF TypeOK
  <2>2. handle' \in [Threads -> [Keys -> Buffers \cup {NoBuffer}]]
    BY <1>b, <2>1 DEF TypeOK
  <2> QED
    BY <1>a, <2>2 DEF TypeOK, Steps
<1>2. LockInv'
  BY <1>a, DistinctAssumption DEF TypeOK, LockInv
<1>3. ArgInv'
  BY <1>a DEF TypeOK, ArgInv
<1>4. OwnInv'
  BY <1>a, <1>b, DistinctAssumption DEF TypeOK, OwnInv
<1>5. MapInv'
  BY <1>a DEF TypeOK, MapInv
<1>6. PendingIsFilled'
  BY <1>a, DistinctAssumption DEF TypeOK, PendingIsFilled, Pending, OwnInv
<1>7. ReadyInv'
  BY <1>a DEF TypeOK, ReadyInv
<1>8. TotalWithinCapacity'
  BY <1>a, TotalSizeOf, DistinctAssumption DEF TypeOK, TotalWithinCapacity, LockGivenBack
<1> QED
  BY ONLY <1>1, <1>2, <1>3, <1>4, <1>5, <1>6, <1>7, <1>8 DEF IInv

(* A thread fills a buffer, for all that wait for it at once. *)
LEMMA FillPreserves ==
    ASSUME IInv, NEW t \in Threads, Fill(t)
    PROVE  IInv'
<1> USE DEF IInv, Fill, Goto, cacheVars, threadVars
<1> DEFINE k == arg[t]
           b == malloc(arg[t])
<1>a. /\ pc[t] = "fill" /\ k \in Keys
      /\ b \in Buffers /\ b[1] = k /\ b # NoBuffer
      /\ buf' = [buf EXCEPT ![t] = b]
      /\ pc' = [pc EXCEPT ![t] = "use"]
      /\ UNCHANGED <<user, capacity, writer, constant, arg>>
  BY MallocFinds, DistinctAssumption DEF Use, ArgInv
<1>b. /\ map' = [j \in DOMAIN map |-> IF map[j] = t THEN b ELSE map[j]]
      /\ fut' = [u \in Threads |-> IF fut[u] = t THEN b ELSE fut[u]]
      /\ handle' = [handle EXCEPT ![t] = [handle[t] EXCEPT ![k] = b]]
  BY DEF TypeOK, Use
<1> HIDE DEF b, k, Fill
<1>c. /\ handle'[t][k] = b
      /\ \A u \in Threads \ {t} : handle'[u] = handle[u]
      /\ DOMAIN map' = DOMAIN map
  BY <1>a, <1>b DEF TypeOK
<1>d. /\ \A j \in DOMAIN map : map[j] = t => j = k
      /\ \A u \in Threads : fut[u] = t => arg[u] = k /\ pc[u] = "wait"
      /\ fut[t] = NoBuffer /\ fut[t] # t
  BY <1>a, DistinctAssumption DEF PendingIsFilled, Pending, OwnInv, k
<1>1. TypeOK'
  <2>1. [handle[t] EXCEPT ![k] = b] \in [Keys -> Buffers \cup {NoBuffer}]
    BY <1>a DEF TypeOK
  <2>2. handle' \in [Threads -> [Keys -> Buffers \cup {NoBuffer}]]
    BY <1>b, <2>1 DEF TypeOK
  <2>3. /\ DOMAIN map' \subseteq Keys
        /\ map' \in [DOMAIN map' -> Threads \cup Buffers \cup {Broken}]
        /\ fut' \in [Threads -> Threads \cup Buffers \cup {Broken, NoBuffer}]
    BY <1>a, <1>b DEF TypeOK
  <2> QED
    BY <1>a, <2>2, <2>3 DEF TypeOK, Steps
<1>2. LockInv'
  BY <1>a, DistinctAssumption DEF TypeOK, LockInv
<1>3. ArgInv'
  BY <1>a, <1>c DEF TypeOK, ArgInv
<1>4. OwnInv'
  BY <1>a, <1>b, <1>c, <1>d, DistinctAssumption DEF TypeOK, OwnInv, k
<1>5. MapInv'
  BY <1>a, <1>b, <1>c, <1>d DEF TypeOK, MapInv
<1>6. PendingIsFilled'
  BY <1>a, <1>b, <1>c, <1>d, DistinctAssumption DEF TypeOK, PendingIsFilled, Pending, OwnInv
<1>7. ReadyInv'
  BY <1>a DEF TypeOK, ReadyInv
<1>8. TotalWithinCapacity'
  BY <1>a, <1>c, TotalSizeOf, DistinctAssumption DEF TypeOK, TotalWithinCapacity, LockGivenBack
<1> QED
  BY ONLY <1>1, <1>2, <1>3, <1>4, <1>5, <1>6, <1>7, <1>8 DEF IInv

(* The filling throws: nobody waits for the thread any more. *)
LEMMA FillThrowsPreserves ==
    ASSUME IInv, NEW t \in Threads, FillThrows(t)
    PROVE  IInv'
<1> USE DEF IInv, FillThrows, Goto, cacheVars, threadVars
<1> DEFINE k == arg[t]
           b == malloc(arg[t])
<1>a. /\ pc[t] = "fill" /\ k \in Keys /\ b \in Buffers /\ b[1] = k
      /\ pc' = [pc EXCEPT ![t] = "idle"] /\ arg' = [arg EXCEPT ![t] = NoBuffer]
      /\ buf[t] = NoBuffer
      /\ UNCHANGED <<user, capacity, writer, constant, buf>>
  BY MallocFinds DEF ArgInv, OwnInv
<1>b. /\ map' = [j \in DOMAIN map |-> IF map[j] = t THEN Broken ELSE map[j]]
      /\ fut' = [u \in Threads |-> IF fut[u] = t THEN Broken ELSE fut[u]]
      /\ handle' = [handle EXCEPT ![t] = [handle[t] EXCEPT ![k] = b]]
  BY DEF TypeOK
<1> HIDE DEF b, k, FillThrows
<1>c. /\ \A u \in Threads \ {t} : handle'[u] = handle[u]
      /\ DOMAIN map' = DOMAIN map
  BY <1>a, <1>b DEF TypeOK
<1>d. /\ \A j \in DOMAIN map : map[j] = t => j = k
      /\ \A u \in Threads : fut[u] = t => arg[u] = k /\ pc[u] = "wait"
      /\ fut[t] = NoBuffer /\ fut[t] # t
  BY <1>a, DistinctAssumption DEF PendingIsFilled, Pending, OwnInv, k
<1>1. TypeOK'
  <2>1. [handle[t] EXCEPT ![k] = b] \in [Keys -> Buffers \cup {NoBuffer}]
    BY <1>a DEF TypeOK
  <2>2. handle' \in [Threads -> [Keys -> Buffers \cup {NoBuffer}]]
    BY <1>b, <2>1 DEF TypeOK
  <2>3. /\ DOMAIN map' \subseteq Keys
        /\ map' \in [DOMAIN map' -> Threads \cup Buffers \cup {Broken}]
        /\ fut' \in [Threads -> Threads \cup Buffers \cup {Broken, NoBuffer}]
    BY <1>a, <1>b DEF TypeOK
  <2>4. \A u \in Threads :
           arg'[u] \in IF pc'[u] = "set" THEN Capacities ELSE Keys \cup {NoBuffer}
    BY <1>a DEF TypeOK, ArgInv
  <2> QED
    BY <1>a, <2>2, <2>3, <2>4 DEF TypeOK, Steps
<1>2. LockInv'
  BY <1>a, <1>b, <1>c, <1>d, DistinctAssumption DEF TypeOK, LockInv
<1>3. ArgInv'
  BY <1>a, <1>c DEF TypeOK, ArgInv
<1>4. OwnInv'
  BY <1>a, <1>b, <1>c, <1>d, DistinctAssumption DEF TypeOK, OwnInv
<1>5. MapInv'
  BY <1>a, <1>b, <1>c, <1>d, DistinctAssumption DEF TypeOK, MapInv
<1>6. PendingIsFilled'
  BY <1>a, <1>b, <1>c, <1>d, DistinctAssumption DEF TypeOK, PendingIsFilled, Pending, OwnInv
<1>7. ReadyInv'
  BY <1>a, <1>b, <1>c, <1>d DEF TypeOK, ReadyInv
<1>8. TotalWithinCapacity'
  BY <1>a, <1>b, <1>c, <1>d, TotalSizeOf, DistinctAssumption DEF TypeOK, TotalWithinCapacity, LockGivenBack
<1> QED
  BY ONLY <1>1, <1>2, <1>3, <1>4, <1>5, <1>6, <1>7, <1>8 DEF IInv

(* A thread finds its future broken. *)
LEMMA WaitThrowsPreserves ==
    ASSUME IInv, NEW t \in Threads, WaitThrows(t)
    PROVE  IInv'
<1> USE DEF IInv, WaitThrows, Goto, cacheVars, threadVars
<1>1. TypeOK'
  BY DEF TypeOK, Steps
<1>2. LockInv'
  BY DistinctAssumption DEF TypeOK, LockInv
<1>3. ArgInv'
  BY DEF TypeOK, ArgInv
<1>4. OwnInv'
  BY DistinctAssumption DEF TypeOK, OwnInv
<1>5. MapInv'
  BY DEF TypeOK, MapInv
<1>6. PendingIsFilled'
  BY DistinctAssumption DEF TypeOK, PendingIsFilled, Pending, OwnInv
<1>7. ReadyInv'
  BY DEF TypeOK, ReadyInv
<1>8. TotalWithinCapacity'
  BY TotalSizeOf, DistinctAssumption DEF TypeOK, TotalWithinCapacity, LockGivenBack
<1> QED
  BY ONLY <1>1, <1>2, <1>3, <1>4, <1>5, <1>6, <1>7, <1>8 DEF IInv

(* A section throws, and the lock is lost. *)
LEMMA SectionThrowsPreserves ==
    ASSUME IInv, NEW t \in Threads, SectionThrows(t)
    PROVE  IInv'
<1> USE DEF IInv, SectionThrows, Goto, cacheVars, threadVars
<1>1. TypeOK'
  BY DEF TypeOK, Steps
<1>2. LockInv'
  BY DistinctAssumption DEF TypeOK, LockInv
<1>3. ArgInv'
  BY DEF TypeOK, ArgInv
<1>4. OwnInv'
  BY DistinctAssumption DEF TypeOK, OwnInv
<1>5. MapInv'
  BY DEF TypeOK, MapInv
<1>6. PendingIsFilled'
  BY DistinctAssumption DEF TypeOK, PendingIsFilled, Pending, OwnInv
<1>7. ReadyInv'
  BY DEF TypeOK, ReadyInv
<1>8. TotalWithinCapacity'
  BY TotalSizeOf, DistinctAssumption DEF TypeOK, TotalWithinCapacity, LockGivenBack
<1> QED
  BY ONLY <1>1, <1>2, <1>3, <1>4, <1>5, <1>6, <1>7, <1>8 DEF IInv

(* An execution returns. *)
LEMMA FinishPreserves ==
    ASSUME IInv, NEW t \in Threads, Finish(t)
    PROVE  IInv'
<1> USE DEF IInv, Finish, Goto, cacheVars, threadVars
<1>1. TypeOK'
  BY DEF TypeOK, Steps
<1>2. LockInv'
  BY DistinctAssumption DEF TypeOK, LockInv
<1>3. ArgInv'
  BY DEF TypeOK, ArgInv
<1>4. OwnInv'
  BY DistinctAssumption DEF TypeOK, OwnInv
<1>5. MapInv'
  BY DEF TypeOK, MapInv
<1>6. PendingIsFilled'
  BY DistinctAssumption DEF TypeOK, PendingIsFilled, Pending, OwnInv
<1>7. ReadyInv'
  BY DEF TypeOK, ReadyInv
<1>8. TotalWithinCapacity'
  BY TotalSizeOf, DistinctAssumption DEF TypeOK, TotalWithinCapacity, LockGivenBack
<1> QED
  BY ONLY <1>1, <1>2, <1>3, <1>4, <1>5, <1>6, <1>7, <1>8 DEF IInv

(* An application sets the capacity. *)
LEMMA SetUserCapacityPreserves ==
    ASSUME IInv, NEW t \in Threads, NEW n \in Capacities, SetUserCapacity(t, n)
    PROVE  IInv'
<1> USE DEF IInv, SetUserCapacity, Goto, cacheVars, threadVars
<1>1. TypeOK'
  BY DEF TypeOK, Steps
<1>2. LockInv'
  BY DistinctAssumption DEF TypeOK, LockInv
<1>3. ArgInv'
  BY DEF TypeOK, ArgInv
<1>4. OwnInv'
  BY DistinctAssumption DEF TypeOK, OwnInv
<1>5. MapInv'
  BY DEF TypeOK, MapInv
<1>6. PendingIsFilled'
  BY DistinctAssumption DEF TypeOK, PendingIsFilled, Pending, OwnInv
<1>7. ReadyInv'
  BY DEF TypeOK, ReadyInv
<1>8. TotalWithinCapacity'
  BY TotalSizeOf, DistinctAssumption DEF TypeOK, TotalWithinCapacity, LockGivenBack
<1> QED
  BY ONLY <1>1, <1>2, <1>3, <1>4, <1>5, <1>6, <1>7, <1>8 DEF IInv

(* It is read back. *)
LEMMA ReadUserCapacityPreserves ==
    ASSUME IInv, NEW t \in Threads, ReadUserCapacity(t)
    PROVE  IInv'
<1> USE DEF IInv, ReadUserCapacity, Goto, cacheVars, threadVars
<1>1. TypeOK'
  <2>1. \A u \in Threads :
           arg'[u] \in IF pc'[u] = "set" THEN Capacities ELSE Keys \cup {NoBuffer}
    BY DEF TypeOK, ArgInv
  <2> QED
    BY <2>1 DEF TypeOK, Steps
<1>2. LockInv'
  BY DistinctAssumption DEF TypeOK, LockInv
<1>3. ArgInv'
  BY DEF TypeOK, ArgInv
<1>4. OwnInv'
  BY DistinctAssumption DEF TypeOK, OwnInv
<1>5. MapInv'
  BY DEF TypeOK, MapInv
<1>6. PendingIsFilled'
  BY DistinctAssumption DEF TypeOK, PendingIsFilled, Pending, OwnInv
<1>7. ReadyInv'
  BY DEF TypeOK, ReadyInv
<1>8. TotalWithinCapacity'
  BY TotalSizeOf, DistinctAssumption DEF TypeOK, TotalWithinCapacity, LockGivenBack
<1> QED
  BY ONLY <1>1, <1>2, <1>3, <1>4, <1>5, <1>6, <1>7, <1>8 DEF IInv

(* set_capacity takes the lock. *)
LEMMA SetCapacityPreserves ==
    ASSUME IInv, NEW t \in Threads, SetCapacity(t)
    PROVE  IInv'
<1> USE DEF IInv, SetCapacity, Goto, cacheVars, threadVars, Unlocked
<1>1. TypeOK'
  <2>1. \A u \in Threads :
           arg'[u] \in IF pc'[u] = "set" THEN Capacities ELSE Keys \cup {NoBuffer}
    BY DEF TypeOK, ArgInv
  <2> QED
    BY <2>1 DEF TypeOK, Steps
<1>2. LockInv'
  BY DistinctAssumption DEF TypeOK, LockInv
<1>3. ArgInv'
  BY DEF TypeOK, ArgInv
<1>4. OwnInv'
  BY DistinctAssumption DEF TypeOK, OwnInv
<1>5. MapInv'
  BY DEF TypeOK, MapInv
<1>6. PendingIsFilled'
  BY DistinctAssumption DEF TypeOK, PendingIsFilled, Pending, OwnInv
<1>7. ReadyInv'
  BY DEF TypeOK, ReadyInv
<1>8. TotalWithinCapacity'
  BY TotalSizeOf, DistinctAssumption DEF TypeOK, TotalWithinCapacity, LockGivenBack
<1> QED
  BY ONLY <1>1, <1>2, <1>3, <1>4, <1>5, <1>6, <1>7, <1>8 DEF IInv

(* set_capacity evicts everything. *)
LEMMA FlushPreserves ==
    ASSUME IInv, NEW t \in Threads, Flush(t)
    PROVE  IInv'
<1> USE DEF IInv, Flush, Goto, cacheVars, threadVars
<1>1. TypeOK'
  BY DEF TypeOK, Steps
<1>2. LockInv'
  BY DistinctAssumption DEF TypeOK, LockInv
<1>3. ArgInv'
  BY DEF TypeOK, ArgInv
<1>4. OwnInv'
  BY DistinctAssumption DEF TypeOK, OwnInv
<1>5. MapInv'
  <2>1. DOMAIN map' = {}
    OBVIOUS
  <2> QED
    BY <2>1, FS_EmptySet DEF MapInv
<1>6. PendingIsFilled'
  BY DistinctAssumption DEF TypeOK, PendingIsFilled, Pending, OwnInv
<1>7. ReadyInv'
  BY DEF TypeOK, ReadyInv
<1>8. TotalWithinCapacity'
  <2>1. DOMAIN map' = {} /\ {} \in SUBSET Keys
    OBVIOUS
  <2>2. TotalOf({}) = Cardinality(Bytes({}))
    BY <2>1, FS_EmptySet, TotalIsBytes
  <2>3. Bytes({}) = {}
    BY DEF Bytes
  <2>4. TotalSize' = 0
    BY <2>1, <2>2, <2>3, FS_EmptySet, TotalSizeOf
  <2>5. capacity' \in Nat
    BY CapacityAssumption DEF TypeOK
  <2> QED
    BY <2>4, <2>5 DEF TotalWithinCapacity
<1> QED
  BY ONLY <1>1, <1>2, <1>3, <1>4, <1>5, <1>6, <1>7, <1>8 DEF IInv

(* remove_if_exist takes the lock. *)
LEMMA RemoveIfExistPreserves ==
    ASSUME IInv, NEW t \in Threads, NEW k \in Keys, RemoveIfExist(t, k)
    PROVE  IInv'
<1> USE DEF IInv, RemoveIfExist, Goto, cacheVars, threadVars, Unlocked
<1>1. TypeOK'
  BY DEF TypeOK, Steps
<1>2. LockInv'
  BY DistinctAssumption DEF TypeOK, LockInv
<1>3. ArgInv'
  BY DEF TypeOK, ArgInv
<1>4. OwnInv'
  BY DistinctAssumption DEF TypeOK, OwnInv
<1>5. MapInv'
  BY DEF TypeOK, MapInv
<1>6. PendingIsFilled'
  BY DistinctAssumption DEF TypeOK, PendingIsFilled, Pending, OwnInv
<1>7. ReadyInv'
  BY DEF TypeOK, ReadyInv
<1>8. TotalWithinCapacity'
  BY TotalSizeOf, DistinctAssumption DEF TypeOK, TotalWithinCapacity, LockGivenBack
<1> QED
  BY ONLY <1>1, <1>2, <1>3, <1>4, <1>5, <1>6, <1>7, <1>8 DEF IInv

(* remove_if_exist evicts the entry. *)
LEMMA EvictPreserves ==
    ASSUME IInv, NEW t \in Threads, Evict(t)
    PROVE  IInv'
<1> USE DEF IInv, Evict, Goto, cacheVars, threadVars
<1>1. TypeOK'
  BY DEF TypeOK, Steps
<1>2. LockInv'
  BY DistinctAssumption DEF TypeOK, LockInv
<1>3. ArgInv'
  BY DEF TypeOK, ArgInv
<1>4. OwnInv'
  BY DistinctAssumption DEF TypeOK, OwnInv
<1>5. MapInv'
  <2>1. DOMAIN map' = DOMAIN map \ {arg[t]}
    OBVIOUS
  <2>2. IsFiniteSet(DOMAIN map')
    BY <2>1, FS_RemoveElement DEF MapInv
  <2> QED
    BY <2>2 DEF MapInv
<1>6. PendingIsFilled'
  BY DistinctAssumption DEF TypeOK, PendingIsFilled, Pending, OwnInv
<1>7. ReadyInv'
  BY DEF TypeOK, ReadyInv
<1>8. TotalWithinCapacity'
  <2> DEFINE D == DOMAIN map
             k == arg[t]
             E == D \ {k}
  <2>1. D \in SUBSET Keys /\ E \in SUBSET Keys /\ IsFiniteSet(D) /\ IsFiniteSet(E)
    BY FS_RemoveElement DEF TypeOK, MapInv
  <2>2. writer = t
    BY DEF LockInv
  <2>3. TotalSize = TotalOf(D) /\ TotalSize' = TotalOf(E)
    BY TotalSizeOf
  <2>4. TotalSize <= capacity
    <3>1. LockGivenBack /\ \A u \in Threads : pc[u] # "flush"
      BY <2>2, DistinctAssumption DEF LockGivenBack, LockInv
    <3> QED
      BY <3>1 DEF TotalWithinCapacity
  <2> HIDE DEF Evict
  <2>5. TotalOf(E) <= TotalOf(D) /\ TotalOf(E) \in Nat /\ TotalOf(D) \in Nat
    <3>1. /\ TotalOf(D) = Cardinality(Bytes(D)) /\ TotalOf(E) = Cardinality(Bytes(E))
          /\ IsFiniteSet(Bytes(D)) /\ TotalOf(E) \in Nat /\ TotalOf(D) \in Nat
      BY <2>1, TotalIsBytes, BytesFinite
    <3>2. Bytes(E) \in SUBSET Bytes(D)
      BY DEF Bytes
    <3>3. Cardinality(Bytes(E)) <= Cardinality(Bytes(D))
      BY <3>1, <3>2, FS_Subset
    <3> QED
      BY <3>1, <3>3
  <2>6. capacity' = capacity /\ capacity \in Nat
    BY CapacityAssumption DEF TypeOK, Evict
  <2> QED
    BY <2>3, <2>4, <2>5, <2>6 DEF TotalWithinCapacity
<1> QED
  BY ONLY <1>1, <1>2, <1>3, <1>4, <1>5, <1>6, <1>7, <1>8 DEF IInv

(* Initially no kernel was compiled and the map is empty. *)
LEMMA InitEstablishes == Init => IInv
<1> SUFFICES ASSUME Init PROVE IInv
  OBVIOUS
<1>1. TypeOK
  BY DEF Init, TypeOK, Steps
<1>2. LockInv /\ ArgInv /\ OwnInv /\ ReadyInv
  BY DistinctAssumption DEF Init, LockInv, ArgInv, OwnInv, ReadyInv
<1>3. DOMAIN map = {}
  BY DEF Init
<1>4. MapInv /\ PendingIsFilled
  BY <1>3, FS_EmptySet, DistinctAssumption DEF Init, MapInv, PendingIsFilled, Pending
<1>5. TotalWithinCapacity
  <2>1. TotalOf({}) = Cardinality(Bytes({}))
    BY FS_EmptySet, TotalIsBytes
  <2>2. Bytes({}) = {}
    BY DEF Bytes
  <2>3. TotalSize = 0
    BY <1>3, <2>1, <2>2, FS_EmptySet, TotalSizeOf
  <2>4. capacity \in Nat
    BY CapacityAssumption DEF Init
  <2> QED
    BY <2>3, <2>4 DEF TotalWithinCapacity
<1> QED
  BY <1>1, <1>2, <1>4, <1>5 DEF IInv

(* A step that changes nothing. *)
LEMMA StutterPreserves == IInv /\ UNCHANGED vars => IInv'
<1> SUFFICES ASSUME IInv, UNCHANGED vars PROVE IInv'
  OBVIOUS
<1> USE DEF IInv, vars, cacheVars, threadVars
<1>1. TypeOK' /\ LockInv' /\ ArgInv'
  BY DEF TypeOK, LockInv, ArgInv
<1>2. OwnInv' /\ MapInv' /\ PendingIsFilled' /\ ReadyInv'
  BY DEF OwnInv, MapInv, PendingIsFilled, Pending, ReadyInv
<1>3. TotalWithinCapacity'
  BY TotalSizeOf DEF TotalWithinCapacity, LockGivenBack
<1> QED
  BY <1>1, <1>2, <1>3

(* The inductive invariant holds of every state of the cache, however the
   executions, capacity changes, evictions and exceptions of any number of
   threads interleave. *)
THEOREM ConstantsInvariant == Spec => []IInv
<1>1. IInv /\ [Next]_vars => IInv'
  <2> SUFFICES ASSUME IInv, [Next]_vars PROVE IInv'
    OBVIOUS
  <2>1. ASSUME NEW k \in Keys, Compile(k) PROVE IInv'
    BY <2>1, CompilePreserves
  <2>2. ASSUME NEW t \in Threads, Lookup(t) \/ Insert(t) \/ Add(t) \/ Wait(t)
        PROVE  IInv'
    BY <2>2, LookupPreserves, InsertPreserves, AddPreserves, WaitPreserves
  <2>3. ASSUME NEW t \in Threads, Fill(t) \/ Finish(t) \/ ReadUserCapacity(t)
        PROVE  IInv'
    BY <2>3, FillPreserves, FinishPreserves, ReadUserCapacityPreserves
  <2>4. ASSUME NEW t \in Threads, SetCapacity(t) \/ Flush(t) \/ Evict(t)
        PROVE  IInv'
    BY <2>4, SetCapacityPreserves, FlushPreserves, EvictPreserves
  <2>5. ASSUME NEW t \in Threads, FillThrows(t) \/ WaitThrows(t) \/ SectionThrows(t)
        PROVE  IInv'
    BY <2>5, FillThrowsPreserves, WaitThrowsPreserves, SectionThrowsPreserves
  <2>6. ASSUME NEW t \in Threads, NEW k \in Keys, Execute(t, k) \/ RemoveIfExist(t, k)
        PROVE  IInv'
    BY <2>6, ExecutePreserves, RemoveIfExistPreserves
  <2>7. ASSUME NEW t \in Threads, NEW n \in Capacities, SetUserCapacity(t, n)
        PROVE  IInv'
    BY <2>7, SetUserCapacityPreserves
  <2>8. CASE UNCHANGED vars
    BY <2>8, StutterPreserves
  <2>9. ASSUME NEW t \in Threads, Step(t) PROVE IInv'
    BY <2>2, <2>3, <2>4, <2>5, <2>9 DEF Step
  <2> QED
    BY <2>1, <2>6, <2>7, <2>8, <2>9 DEF Next
<1> QED
  BY <1>1, InitEstablishes, PTL DEF Spec

(* Types are correct, and malloc returns a buffer of the kernel. *)
THEOREM ConstantsTypeCorrect == Spec => []TypeOK
<1>1. IInv => TypeOK
  BY DEF IInv
<1> QED
  BY <1>1, ConstantsInvariant, PTL

(* The tensors in the cache fit in its capacity, whatever their sizes: add
   counts the buffers that others are still filling, and set_capacity flushes
   before it gives the lock back. *)
THEOREM CacheWithinCapacity == Spec => []TotalWithinCapacity
<1>1. IInv => TotalWithinCapacity
  BY DEF IInv
<1> QED
  BY <1>1, ConstantsInvariant, PTL

(* Whoever waits for a buffer, under the write lock or not, waits for a thread
   that is filling it and needs no lock to finish. *)
THEOREM PendingBuffersAreFilled == Spec => []PendingIsFilled
<1>1. IInv => PendingIsFilled
  BY DEF IInv
<1> QED
  BY <1>1, ConstantsInvariant, PTL

(* If no application sets the capacity to zero, a kernel runs with constants in
   a buffer that its execution owns, whatever was evicted or has thrown since it
   asked for them. *)
THEOREM ConstantsAreReady ==
    ASSUME 0 \notin Capacities
    PROVE  Spec => []ConstantsReady
<1>1. IInv => ConstantsReady
  <2> SUFFICES ASSUME IInv, NEW t \in Threads, pc[t] = "use"
               PROVE  handle[t][arg[t]] # NoBuffer /\ handle[t][arg[t]] = buf[t]
    BY DEF ConstantsReady
  <2>1. buf[t] # NoBuffer
    BY DEF IInv, ReadyInv
  <2> QED
    BY <2>1 DEF IInv, OwnInv
<1> QED
  BY <1>1, ConstantsInvariant, PTL

=============================================================================
