--------------------------- MODULE LruCacheProofs ---------------------------
(***************************************************************************)
(* Proofs about LruCache for any threads, keys, objects, nesting and       *)
(* capacities.                                                             *)
(***************************************************************************)
EXTENDS LruCacheRefinement, FiniteSetTheorems, TLAPS

-----------------------------------------------------------------------------
(* The inductive invariant.                                                 *)

\* The call that holds the write lock across steps is the one that waits in
\* remove_if_invalidated, and the entry it waits on stays in the cache.
LockInv ==
    /\ \A c \in Calls : At(c, "removing") => writer = c
    /\ writer \in Calls =>
            At(writer, "removing") /\ writer[2] \in Resident /\ capacity # 0

\* A nested call has one caller, which is suspended in its creation, and no two
\* calls share it.
CallerInv ==
    /\ \A c \in Calls : caller[c] \in Calls =>
            At(caller[c], "nested") /\ ~At(c, "idle")
    /\ \A c, d \in Calls : caller[c] \in Calls /\ caller[c] = caller[d] => c = d

\* What a call holds follows from where it is.
FutInv ==
    \A c \in Calls :
        /\ At(c, "update") => fut[c] \in Objects
        /\ pc[c] \in {"remove", "removing"} => fut[c] = Failed
        /\ At(c, "wait") => fut[c] \in Futures
        /\ pc[c] \notin {"wait", "update", "remove", "removing"} => fut[c] = NoCall

\* get does not create, and creations are forced only when a cache blob is given.
ModeInv ==
    \A c \in Calls :
        /\ mode[c] = "get" => pc[c] \in {"lookup", "wait"}
        /\ ~CacheBlobs => mode[c] \in {"plain", "get"}

\* Without cache blobs and the testing interface: the entry a thread inserted
\* stores what the thread's call for that key produces, and once its pointers
\* were merged the thread is no longer creating an object for that key.
OwnEntry(k) ==
    LET e == mapper[k]
        c == Owner(k)
    IN  \/ /\ e.ptr = c
           /\ \/ Creating(c) /\ e.value = c
              \/ At(c, "update") /\ e.value = fut[c]
              \/ pc[c] \in {"remove", "removing"} /\ e.value = Failed
        \/ /\ e.ptr \in Objects
           /\ e.value = e.ptr
           /\ ~Creating(c)
           /\ ~At(c, "update")

OwnEntryInv ==
    KeyMerge /\ ~CacheBlobs /\ ~WithoutClearing =>
        \A k \in Resident : OwnEntry(k)

IInv ==
    /\ TypeOK
    /\ LockInv
    /\ CallerInv
    /\ FutInv
    /\ PendingHasCreator
    /\ SizeWithinCapacity
    /\ FailureNotCached
    /\ ModeInv
    /\ OwnEntryInv

-----------------------------------------------------------------------------
(* Types.                                                                   *)

\* What Return leaves has its type.
LEMMA ReturnType ==
    ASSUME TypeOK, NEW c \in Calls, NEW v, Return(c, v)
    PROVE  /\ pc' \in [Calls -> Steps]
           /\ mode' \in [Calls -> Modes]
           /\ caller' \in [Calls -> Calls \cup {NoCall}]
           /\ todo' \in [Calls -> SUBSET Keys]
           /\ fut' \in [Calls -> Futures \cup {NoCall}]
<1>1. pc' \in [Calls -> Steps]
  BY DEF Return, TypeOK, Steps
<1>2. /\ mode' \in [Calls -> Modes]
      /\ caller' \in [Calls -> Calls \cup {NoCall}]
      /\ todo' \in [Calls -> SUBSET Keys]
      /\ fut' \in [Calls -> Futures \cup {NoCall}]
  BY DEF Return, TypeOK, Modes
<1> QED BY <1>1, <1>2

\* The entries left after an eviction are entries.
LEMMA EraseType ==
    ASSUME TypeOK, NEW S, Erase(S)
    PROVE  /\ DOMAIN mapper' \subseteq Keys
           /\ mapper' \in [DOMAIN mapper' -> Entries]
           /\ older' \subseteq Keys \X Keys
BY DEF TypeOK, Erase, Kept, Forgotten, Resident

\* A call of the cache is its thread and its key.
LEMMA CallIsPair ==
    ASSUME NEW c \in Calls
    PROVE  c[1] \in Threads /\ c[2] \in Keys /\ c = <<c[1], c[2]>>
BY DEF Calls

\* A step from well-typed variables leaves them well typed.
LEMMA TypeStep ==
    TypeOK /\ FutInv /\ [Next]_vars => TypeOK'
<1> SUFFICES ASSUME TypeOK, FutInv, [Next]_vars PROVE TypeOK'
  OBVIOUS
<1> USE CallIsPair
<1>1. ASSUME NEW c \in Calls, NotFound(c)
      PROVE  TypeOK'
  <2>1. CASE mode[c] = "get"
    BY <1>1, <2>1, ReturnType DEF NotFound, TypeOK, cacheVars
  <2>2. CASE mode[c] # "get"
    BY <1>1, <2>2, ConstantsAssumption
    DEF NotFound, TypeOK, cacheVars, Create, Goto, Steps
  <2> QED BY <2>1, <2>2
<1>2. ASSUME NEW c \in Calls, Found(c), c[2] \in Resident
      PROVE  TypeOK'
  <2>1. older' \subseteq Keys \X Keys
    BY <1>2 DEF Found, Touched, TypeOK, Resident
  <2>2. mapper[c[2]].value \in Futures
    BY <1>2 DEF TypeOK, Resident, Entries
  <2>3. CASE mode[c] = "forced"
    BY <1>2, <2>1, <2>3, ConstantsAssumption
    DEF Found, TypeOK, Create, Goto, Steps
  <2>4. CASE mode[c] # "forced"
    BY <1>2, <2>1, <2>2, <2>4 DEF Found, TypeOK, Goto, Steps
  <2> QED BY <2>3, <2>4
<1>3. ASSUME NEW c \in Calls, Lookup(c)
      PROVE  TypeOK'
  BY <1>1, <1>2, <1>3 DEF Lookup, TypeOK, cacheVars, Goto, Steps
<1>4. ASSUME NEW c \in Calls, Insert(c)
      PROVE  TypeOK'
  <2>1. CASE Add(c) /\ Create(c) /\ UNCHANGED <<capacity, writer, mode, caller, fut>>
    <3> DEFINE entry == [value |-> c, tid |-> c[1], ptr |-> c]
    <3>1. entry \in Entries
      BY DEF Entries, Futures
    <3>2. PICK S : /\ mapper' = [j \in (Resident \ S) \cup {c[2]} |->
                                   IF j = c[2] THEN entry ELSE mapper[j]]
                   /\ older' = Forgotten(S) \cup ((Resident \ S) \X {c[2]})
      BY <2>1 DEF Add
    <3>3. /\ DOMAIN mapper' \subseteq Keys
          /\ mapper' \in [DOMAIN mapper' -> Entries]
      BY <3>1, <3>2 DEF TypeOK, Resident
    <3>4. older' \subseteq Keys \X Keys
      BY <3>2 DEF TypeOK, Forgotten, Resident
    <3> QED
      BY <2>1, <3>3, <3>4, ConstantsAssumption
      DEF TypeOK, Create, Goto, Steps
  <2> QED BY <1>1, <1>2, <1>4, <2>1 DEF Insert
<1>5. ASSUME NEW c \in Calls, Wait(c)
      PROVE  TypeOK'
  BY <1>5, ReturnType DEF Wait, TypeOK, cacheVars
<1>6. ASSUME NEW c \in Calls, NEW j \in Keys, StartNested(c, j)
      PROVE  TypeOK'
  BY <1>6 DEF StartNested, TypeOK, cacheVars, Steps, Modes, Calls
<1>7. ASSUME NEW c \in Calls, NEW v \in Values, SetValue(c, v)
      PROVE  /\ DOMAIN mapper' \subseteq Keys
             /\ mapper' \in [DOMAIN mapper' -> Entries]
             /\ fut' \in [Calls -> Futures \cup {NoCall}]
  BY <1>7 DEF SetValue, TypeOK, Entries, Futures, Resident
<1>8. ASSUME NEW c \in Calls, CreateDone(c)
      PROVE  TypeOK'
  BY <1>7, <1>8 DEF CreateDone, TypeOK, Values, Goto, Steps
<1>9. ASSUME NEW c \in Calls, CreateFail(c)
      PROVE  TypeOK'
  BY <1>7, <1>9 DEF CreateFail, TypeOK, Values, Goto, Steps
<1>10. ASSUME NEW c \in Calls, UpdateEntry(c)
       PROVE  TypeOK'
  <2>1. Return(c, fut[c]) /\ UNCHANGED <<capacity, older, writer>>
    BY <1>10 DEF UpdateEntry
  <2>2. CASE mapper' = mapper
    BY <2>1, <2>2, ReturnType DEF TypeOK
  <2>3. CASE c[2] \in Resident /\ mapper' = [mapper EXCEPT ![c[2]] =
                             [value |-> @.value, tid |-> @.tid, ptr |-> fut[c]]]
    <3>1. fut[c] \in Objects
      BY <1>10 DEF UpdateEntry, FutInv
    <3> QED BY <2>1, <2>3, <3>1, ReturnType DEF TypeOK, Entries, Resident
  <2> QED BY <1>10, <2>2, <2>3 DEF UpdateEntry
<1>11. ASSUME NEW c \in Calls, RemoveEnd(c)
       PROVE  TypeOK'
  BY <1>11, ReturnType, EraseType DEF RemoveEnd, TypeOK
<1>12. ASSUME NEW c \in Calls, Remove(c)
       PROVE  TypeOK'
  BY <1>11, <1>12, ReturnType DEF Remove, TypeOK, cacheVars, Goto, Steps
<1>13. ASSUME NEW c \in Calls, Removing(c)
       PROVE  TypeOK'
  BY <1>11, <1>13 DEF Removing
<1>14. ASSUME NEW c \in Calls, NEW m \in {"plain", "blob", "get"}, Start(c, m)
       PROVE  TypeOK'
  BY <1>14 DEF Start, TypeOK, cacheVars, Goto, Steps, Modes
<1>15. ASSUME NEW n \in 0..MaxCapacity, SetCapacity(n)
       PROVE  TypeOK'
  BY <1>15, EraseType DEF SetCapacity, TypeOK
<1>16. ASSUME NEW n \in 0..MaxCapacity, SetCapacityWithoutClearing(n)
       PROVE  TypeOK'
  BY <1>16 DEF SetCapacityWithoutClearing, TypeOK
<1>17. CASE UNCHANGED vars
  BY <1>17 DEF vars, TypeOK
<1> QED
  BY <1>3, <1>4, <1>5, <1>6, <1>8, <1>9, <1>10, <1>12, <1>13, <1>14, <1>15,
     <1>16, <1>17 DEF Next, Step

-----------------------------------------------------------------------------
(* Locks, callers and what calls hold.                                      *)

\* Outside of remove_if_invalidated nobody holds the lock across steps, so a
\* section changes the cache only while no call waits in one.
LEMMA LockStep ==
    IInv /\ [Next]_vars => LockInv'
<1> SUFFICES ASSUME IInv, [Next]_vars PROVE LockInv'
  OBVIOUS
<1> USE CallIsPair DEF IInv, TypeOK, LockInv, At, Unlocked, Resident
<1>1. ASSUME NEW c \in Calls, NotFound(c), pc[c] \in {"lookup", "insert"}
      PROVE  LockInv'
  BY <1>1 DEF NotFound, Return, Create, Goto, cacheVars, CallerInv
<1>2. ASSUME NEW c \in Calls, Found(c), pc[c] \in {"lookup", "insert"}
      PROVE  LockInv'
  BY <1>2 DEF Found, Create, Goto
<1>3. ASSUME NEW c \in Calls, Lookup(c)
      PROVE  LockInv'
  BY <1>1, <1>2, <1>3 DEF Lookup, Goto, cacheVars
<1>4. ASSUME NEW c \in Calls, Insert(c)
      PROVE  LockInv'
  BY <1>1, <1>2, <1>4, DistinctAssumption DEF Insert, Create, Goto
<1>5. ASSUME NEW c \in Calls, Wait(c)
      PROVE  LockInv'
  BY <1>5 DEF Wait, Return, cacheVars, CallerInv
<1>6. ASSUME NEW c \in Calls, NEW j \in Keys, StartNested(c, j)
      PROVE  LockInv'
  BY <1>6 DEF StartNested, cacheVars
<1>7. ASSUME NEW c \in Calls, CreateDone(c) \/ CreateFail(c)
      PROVE  LockInv'
  BY <1>7 DEF CreateDone, CreateFail, SetValue, Goto
<1>8. ASSUME NEW c \in Calls, UpdateEntry(c)
      PROVE  LockInv'
  BY <1>8 DEF UpdateEntry, Return, CallerInv
<1>9. ASSUME NEW c \in Calls, RemoveEnd(c), writer \in {c, NoCall},
             pc[c] \in {"remove", "removing"}
      PROVE  LockInv'
  BY <1>9, DistinctAssumption DEF RemoveEnd, Return, CallerInv
<1>10. ASSUME NEW c \in Calls, Remove(c)
       PROVE  LockInv'
  BY <1>9, <1>10, DistinctAssumption DEF Remove, Return, Goto, cacheVars, CallerInv
<1>11. ASSUME NEW c \in Calls, Removing(c)
       PROVE  LockInv'
  BY <1>9, <1>11 DEF Removing
<1>12. ASSUME NEW c \in Calls, NEW m \in {"plain", "blob", "get"}, Start(c, m)
       PROVE  LockInv'
  BY <1>12 DEF Start, Goto, cacheVars
<1>13. ASSUME NEW n \in 0..MaxCapacity,
              SetCapacity(n) \/ SetCapacityWithoutClearing(n)
       PROVE  LockInv'
  BY <1>13, DistinctAssumption DEF SetCapacity, SetCapacityWithoutClearing
<1>14. CASE UNCHANGED vars
  BY <1>14 DEF vars
<1> QED
  BY <1>3, <1>4, <1>5, <1>6, <1>7, <1>8, <1>10, <1>11, <1>12, <1>13, <1>14
  DEF Next, Step

\* A call is nested in at most one creation, which waits for it.
LEMMA CallerStep ==
    IInv /\ [Next]_vars => CallerInv'
<1> SUFFICES ASSUME IInv, [Next]_vars PROVE CallerInv'
  OBVIOUS
<1> USE CallIsPair, DistinctAssumption DEF IInv, TypeOK, CallerInv, At, LockInv
<1>1. ASSUME NEW c \in Calls, NotFound(c), pc[c] \in {"lookup", "insert"},
             capacity = 0 \/ mode[c] = "get"
      PROVE  CallerInv'
  <2>1. CASE Create(c) /\ UNCHANGED caller
    BY <1>1, <2>1 DEF Create, Goto
  <2>2. CASE Return(c, Failed)
    BY <1>1, <2>2 DEF Return
  <2> QED BY <1>1, <2>1, <2>2 DEF NotFound
<1>2. ASSUME NEW c \in Calls, Found(c), pc[c] \in {"lookup", "insert"},
             c[2] \in Resident
      PROVE  CallerInv'
  BY <1>2 DEF Found, Create, Goto
<1>3. ASSUME NEW c \in Calls, Lookup(c)
      PROVE  CallerInv'
  BY <1>1, <1>2, <1>3 DEF Lookup, Goto, cacheVars
<1>4. ASSUME NEW c \in Calls, Insert(c)
      PROVE  CallerInv'
  BY <1>1, <1>2, <1>4 DEF Insert, Create, Goto
<1>5. ASSUME NEW c \in Calls, Wait(c)
      PROVE  CallerInv'
  BY <1>5 DEF Wait, Return, cacheVars
<1>6. ASSUME NEW c \in Calls, NEW j \in Keys, StartNested(c, j)
      PROVE  CallerInv'
  BY <1>6 DEF StartNested, cacheVars
<1>7. ASSUME NEW c \in Calls, CreateDone(c)
      PROVE  CallerInv'
  BY <1>7 DEF CreateDone, SetValue, Goto
<1>8. ASSUME NEW c \in Calls, CreateFail(c)
      PROVE  CallerInv'
  BY <1>8 DEF CreateFail, SetValue, Goto
<1>9. ASSUME NEW c \in Calls, UpdateEntry(c)
      PROVE  CallerInv'
  BY <1>9 DEF UpdateEntry, Return
<1>10. ASSUME NEW c \in Calls, RemoveEnd(c), pc[c] \in {"remove", "removing"},
              c[2] \in Resident, mapper[c[2]].value \in Values
       PROVE  CallerInv'
  BY <1>10 DEF RemoveEnd, Return
<1>11. ASSUME NEW c \in Calls, Remove(c)
       PROVE  CallerInv'
  BY <1>10, <1>11 DEF Remove, Return, Goto, cacheVars
<1>12. ASSUME NEW c \in Calls, Removing(c)
       PROVE  CallerInv'
  BY <1>10, <1>12 DEF Removing, LockInv
<1>13. ASSUME NEW c \in Calls, NEW m \in {"plain", "blob", "get"}, Start(c, m)
       PROVE  CallerInv'
  BY <1>13 DEF Start, Goto, cacheVars
<1>14. ASSUME NEW n \in 0..MaxCapacity, SetCapacity(n)
       PROVE  CallerInv'
  BY <1>14 DEF SetCapacity
<1>15. ASSUME NEW n \in 0..MaxCapacity, SetCapacityWithoutClearing(n)
       PROVE  CallerInv'
  BY <1>15 DEF SetCapacityWithoutClearing
<1>16. CASE UNCHANGED vars
  BY <1>16 DEF vars
<1> QED
  BY <1>3, <1>4, <1>5, <1>6, <1>7, <1>8, <1>9, <1>11, <1>12, <1>13, <1>14,
     <1>15, <1>16 DEF Next, Step

\* set_value changes what a call holds only if it shares the future.
LEMMA FutStep ==
    IInv /\ [Next]_vars => FutInv'
<1> SUFFICES ASSUME IInv, [Next]_vars PROVE FutInv'
  OBVIOUS
<1> USE CallIsPair, DistinctAssumption DEF IInv, TypeOK, FutInv, At, CallerInv, LockInv
<1>1. ASSUME NEW c \in Calls, NotFound(c), pc[c] \in {"lookup", "insert"},
             capacity = 0 \/ mode[c] = "get"
      PROVE  FutInv'
  BY <1>1 DEF NotFound, Return, Create, Goto, cacheVars
<1>2. ASSUME NEW c \in Calls, Found(c), pc[c] \in {"lookup", "insert"},
             c[2] \in Resident
      PROVE  FutInv'
  <2>1. mapper[c[2]].value \in Futures
    BY <1>2 DEF Resident, Entries
  <2>2. CASE mode[c] = "forced"
    BY <1>2, <2>2 DEF Found, Create, Goto
  <2>3. CASE mode[c] # "forced"
    BY <1>2, <2>1, <2>3 DEF Found, Goto
  <2> QED BY <2>2, <2>3
<1>3. ASSUME NEW c \in Calls, Lookup(c)
      PROVE  FutInv'
  BY <1>1, <1>2, <1>3 DEF Lookup, Goto, cacheVars
<1>4. ASSUME NEW c \in Calls, Insert(c)
      PROVE  FutInv'
  BY <1>1, <1>2, <1>4 DEF Insert, Create, Goto
<1>5. ASSUME NEW c \in Calls, Wait(c)
      PROVE  FutInv'
  BY <1>5 DEF Wait, Return, cacheVars
<1>6. ASSUME NEW c \in Calls, NEW j \in Keys, StartNested(c, j)
      PROVE  FutInv'
  BY <1>6 DEF StartNested, cacheVars
<1>7. ASSUME NEW c \in Calls, CreateDone(c)
      PROVE  FutInv'
  BY <1>7 DEF CreateDone, SetValue, Goto, Values, Futures
<1>8. ASSUME NEW c \in Calls, CreateFail(c)
      PROVE  FutInv'
  BY <1>8 DEF CreateFail, SetValue, Goto, Values, Futures
<1>9. ASSUME NEW c \in Calls, UpdateEntry(c)
      PROVE  FutInv'
  BY <1>9 DEF UpdateEntry, Return
<1>10. ASSUME NEW c \in Calls, RemoveEnd(c), pc[c] \in {"remove", "removing"},
              c[2] \in Resident, mapper[c[2]].value \in Values
       PROVE  FutInv'
  BY <1>10 DEF RemoveEnd, Return
<1>11. ASSUME NEW c \in Calls, Remove(c)
       PROVE  FutInv'
  BY <1>10, <1>11 DEF Remove, Return, Goto, cacheVars
<1>12. ASSUME NEW c \in Calls, Removing(c)
       PROVE  FutInv'
  BY <1>10, <1>12 DEF Removing
<1>13. ASSUME NEW c \in Calls, NEW m \in {"plain", "blob", "get"}, Start(c, m)
       PROVE  FutInv'
  BY <1>13 DEF Start, Goto, cacheVars
<1>14. ASSUME NEW n \in 0..MaxCapacity, SetCapacity(n)
       PROVE  FutInv'
  BY <1>14 DEF SetCapacity
<1>15. ASSUME NEW n \in 0..MaxCapacity, SetCapacityWithoutClearing(n)
       PROVE  FutInv'
  BY <1>15 DEF SetCapacityWithoutClearing
<1>16. CASE UNCHANGED vars
  BY <1>16 DEF vars
<1> QED
  BY <1>3, <1>4, <1>5, <1>6, <1>7, <1>8, <1>9, <1>11, <1>12, <1>13, <1>14,
     <1>15, <1>16 DEF Next, Step

-----------------------------------------------------------------------------
(* The size of the cache.                                                   *)

\* The cache holds finitely many entries, so its size is a number.
LEMMA ResidentFinite ==
    ASSUME TypeOK
    PROVE  IsFiniteSet(Resident) /\ Size \in Nat
BY ConstantsAssumption, FS_Subset, FS_CardinalityType DEF TypeOK, Resident, Size

\* A disabled cache is empty.
LEMMA DisabledEmpty ==
    ASSUME TypeOK, SizeWithinCapacity, ~WithoutClearing, capacity = 0
    PROVE  Resident = {}
BY ResidentFinite, FS_EmptySet DEF SizeWithinCapacity, Size

\* What evict(n) leaves: nothing if n is the capacity, n entries less otherwise.
LEMMA EvictedSize ==
    ASSUME TypeOK, NEW n \in Nat, NEW cap \in Nat, NEW S \in Victims(n, cap)
    PROVE  /\ S \subseteq Resident
           /\ IsFiniteSet(Resident \ S)
           /\ Cardinality(Resident \ S) = IF n = cap THEN 0 ELSE Size - n
<1>1. S \subseteq Resident
  BY DEF Victims
<1>2. CASE n = cap
  <2>1. Resident \ S = {}
    BY <1>2 DEF Victims
  <2> QED BY <1>1, <1>2, <2>1, FS_EmptySet
<1>3. CASE n # cap
  <2>1. Cardinality(S) = n /\ Resident \cap S = S
    BY <1>1, <1>3 DEF Victims
  <2>2. IsFiniteSet(Resident)
    BY ResidentFinite
  <2>3. /\ IsFiniteSet(Resident \ S)
        /\ Cardinality(Resident \ S)
             = Cardinality(Resident) - Cardinality(Resident \cap S)
    BY ONLY <2>2, FS_Difference
  <2> QED BY <1>1, <1>3, <2>1, <2>3 DEF Size
<1> QED BY <1>2, <1>3

\* Only add makes the cache larger, and it evicts first when the cache is full.
LEMMA SizeStep ==
    IInv /\ [Next]_vars => SizeWithinCapacity'
<1> SUFFICES ASSUME IInv, [Next]_vars PROVE SizeWithinCapacity'
  OBVIOUS
<1> USE CallIsPair DEF At
<1>0. /\ TypeOK /\ capacity \in Nat
      /\ IsFiniteSet(Resident) /\ Size \in Nat
      /\ ~WithoutClearing => Size <= capacity
  BY ResidentFinite, ConstantsAssumption DEF IInv, TypeOK, SizeWithinCapacity
<1> USE <1>0 DEF SizeWithinCapacity, Size, Resident
<1>1. ASSUME NEW c \in Calls, NotFound(c), pc[c] \in {"lookup", "insert"},
             capacity = 0 \/ mode[c] = "get"
      PROVE  SizeWithinCapacity'
  BY <1>1 DEF NotFound, Return, Create, Goto, cacheVars
<1>2. ASSUME NEW c \in Calls, Found(c), pc[c] \in {"lookup", "insert"},
             c[2] \in Resident
      PROVE  SizeWithinCapacity'
  BY <1>2 DEF Found, Create, Goto
<1>3. ASSUME NEW c \in Calls, Lookup(c)
      PROVE  SizeWithinCapacity'
  BY <1>1, <1>2, <1>3 DEF Lookup, Goto, cacheVars
<1>4. ASSUME NEW c \in Calls, Insert(c)
      PROVE  SizeWithinCapacity'
  <2>1. CASE /\ Add(c)
             /\ capacity # 0 /\ c[2] \notin Resident
             /\ UNCHANGED capacity
    <3> SUFFICES ASSUME ~WithoutClearing PROVE Size' <= capacity
      BY <2>1
    <3>1. PICK S \in (IF Size = capacity THEN Victims(1, capacity) ELSE {{}}) :
                DOMAIN mapper' = (Resident \ S) \cup {c[2]}
      BY <2>1 DEF Add
    <3>2. IsFiniteSet(Resident \ S) /\ Cardinality(Resident \ S) + 1 <= capacity
      <4>1. CASE Size = capacity
        <5>1. S \in Victims(1, capacity)
          BY <3>1, <4>1
        <5>2. /\ IsFiniteSet(Resident \ S)
              /\ Cardinality(Resident \ S) = IF 1 = capacity THEN 0 ELSE Size - 1
          BY ONLY <1>0, <5>1, EvictedSize, 1 \in Nat
        <5> QED BY <2>1, <4>1, <5>2
      <4>2. CASE Size # capacity
        <5>1. Resident \ S = Resident
          BY <3>1, <4>2
        <5> QED BY <4>2, <5>1
      <4> QED BY <4>1, <4>2
    <3>3. Cardinality((Resident \ S) \cup {c[2]}) = Cardinality(Resident \ S) + 1
      BY <2>1, <3>2, FS_AddElement
    <3> QED BY <3>1, <3>2, <3>3
  <2> QED BY <1>1, <1>2, <1>4, <2>1 DEF Insert
<1>5. ASSUME NEW c \in Calls, Wait(c)
      PROVE  SizeWithinCapacity'
  BY <1>5 DEF Wait, Return, cacheVars
<1>6. ASSUME NEW c \in Calls, NEW j \in Keys, StartNested(c, j)
      PROVE  SizeWithinCapacity'
  BY <1>6 DEF StartNested, cacheVars
<1>7. ASSUME NEW c \in Calls, CreateDone(c)
      PROVE  SizeWithinCapacity'
  BY <1>7 DEF CreateDone, SetValue
<1>8. ASSUME NEW c \in Calls, CreateFail(c)
      PROVE  SizeWithinCapacity'
  BY <1>8 DEF CreateFail, SetValue
<1>9. ASSUME NEW c \in Calls, UpdateEntry(c)
      PROVE  SizeWithinCapacity'
  BY <1>9 DEF UpdateEntry
<1>10. ASSUME NEW c \in Calls, RemoveEnd(c), pc[c] \in {"remove", "removing"},
              c[2] \in Resident, mapper[c[2]].value \in Values
       PROVE  SizeWithinCapacity'
  <2>1. DOMAIN mapper' \subseteq Resident
    BY <1>10 DEF RemoveEnd, Erase, Kept
  <2>2. Cardinality(DOMAIN mapper') \in Nat /\ Cardinality(DOMAIN mapper') <= Size
    BY <2>1, FS_Subset, FS_CardinalityType
  <2> QED BY <1>10, <2>2 DEF RemoveEnd
<1>11. ASSUME NEW c \in Calls, Remove(c)
       PROVE  SizeWithinCapacity'
  BY <1>10, <1>11 DEF Remove, Return, Goto, cacheVars
<1>12. ASSUME NEW c \in Calls, Removing(c)
       PROVE  SizeWithinCapacity'
  BY <1>10, <1>12 DEF Removing, LockInv, IInv
<1>13. ASSUME NEW c \in Calls, NEW m \in {"plain", "blob", "get"}, Start(c, m)
       PROVE  SizeWithinCapacity'
  BY <1>13 DEF Start, Goto, cacheVars
<1>14. ASSUME NEW n \in 0..MaxCapacity, SetCapacity(n)
       PROVE  SizeWithinCapacity'
  <2> SUFFICES ASSUME ~WithoutClearing PROVE Size' <= n
    BY <1>14 DEF SetCapacity
  <2>1. PICK S \in (IF Size > n THEN Victims(Size - n, n) ELSE {{}}) :
              DOMAIN mapper' = Resident \ S
    BY <1>14 DEF SetCapacity, Erase, Kept
  <2>2. CASE Size > n
    <3>1. n \in Nat /\ Size - n \in Nat /\ S \in Victims(Size - n, n)
      BY <2>1, <2>2, ConstantsAssumption
    <3>2. Cardinality(Resident \ S) = IF Size - n = n THEN 0 ELSE Size - (Size - n)
      BY ONLY <1>0, <3>1, EvictedSize
    <3> QED BY <2>1, <3>1, <3>2
  <2>3. CASE ~(Size > n)
    <3>1. Resident \ S = Resident
      BY <2>1, <2>3
    <3> QED BY <2>1, <2>3, <3>1, ConstantsAssumption
  <2> QED BY <2>2, <2>3
<1>15. ASSUME NEW n \in 0..MaxCapacity, SetCapacityWithoutClearing(n)
       PROVE  SizeWithinCapacity'
  BY <1>15 DEF SetCapacityWithoutClearing
<1>16. CASE UNCHANGED vars
  BY <1>16 DEF vars
<1> QED
  BY <1>3, <1>4, <1>5, <1>6, <1>7, <1>8, <1>9, <1>11, <1>12, <1>13, <1>14,
     <1>15, <1>16 DEF Next, Step

\* Only a creation from a cache blob forces the creations nested in it.
LEMMA ModeStep ==
    IInv /\ [Next]_vars => ModeInv'
<1> SUFFICES ASSUME IInv, [Next]_vars PROVE ModeInv'
  OBVIOUS
<1> USE CallIsPair DEF IInv, TypeOK, ModeInv, At, CallerInv
<1>1. ASSUME NEW c \in Calls, NotFound(c), pc[c] \in {"lookup", "insert"},
             capacity = 0 \/ mode[c] = "get"
      PROVE  ModeInv'
  BY <1>1 DEF NotFound, Return, Create, Goto, cacheVars
<1>2. ASSUME NEW c \in Calls, Found(c), pc[c] \in {"lookup", "insert"},
             c[2] \in Resident
      PROVE  ModeInv'
  BY <1>2 DEF Found, Create, Goto
<1>3. ASSUME NEW c \in Calls, Lookup(c)
      PROVE  ModeInv'
  BY <1>1, <1>2, <1>3 DEF Lookup, Goto, cacheVars
<1>4. ASSUME NEW c \in Calls, Insert(c)
      PROVE  ModeInv'
  BY <1>1, <1>2, <1>4 DEF Insert, Create, Goto
<1>5. ASSUME NEW c \in Calls, Wait(c)
      PROVE  ModeInv'
  BY <1>5 DEF Wait, Return, cacheVars
<1>6. ASSUME NEW c \in Calls, NEW j \in Keys, StartNested(c, j)
      PROVE  ModeInv'
  BY <1>6 DEF StartNested, cacheVars
<1>7. ASSUME NEW c \in Calls, CreateDone(c)
      PROVE  ModeInv'
  BY <1>7 DEF CreateDone, SetValue, Goto
<1>8. ASSUME NEW c \in Calls, CreateFail(c)
      PROVE  ModeInv'
  BY <1>8 DEF CreateFail, SetValue, Goto
<1>9. ASSUME NEW c \in Calls, UpdateEntry(c)
      PROVE  ModeInv'
  BY <1>9 DEF UpdateEntry, Return
<1>10. ASSUME NEW c \in Calls, RemoveEnd(c), pc[c] \in {"remove", "removing"},
              c[2] \in Resident, mapper[c[2]].value \in Values
       PROVE  ModeInv'
  BY <1>10 DEF RemoveEnd, Return
<1>11. ASSUME NEW c \in Calls, Remove(c)
       PROVE  ModeInv'
  BY <1>10, <1>11 DEF Remove, Return, Goto, cacheVars
<1>12. ASSUME NEW c \in Calls, Removing(c)
       PROVE  ModeInv'
  BY <1>10, <1>12 DEF Removing, LockInv
<1>13. ASSUME NEW c \in Calls, NEW m \in {"plain", "blob", "get"}, Start(c, m)
       PROVE  ModeInv'
  BY <1>13 DEF Start, Goto, cacheVars
<1>14. ASSUME NEW n \in 0..MaxCapacity, SetCapacity(n)
       PROVE  ModeInv'
  BY <1>14 DEF SetCapacity
<1>15. ASSUME NEW n \in 0..MaxCapacity, SetCapacityWithoutClearing(n)
       PROVE  ModeInv'
  BY <1>15 DEF SetCapacityWithoutClearing
<1>16. CASE UNCHANGED vars
  BY <1>16 DEF vars
<1> QED
  BY <1>3, <1>4, <1>5, <1>6, <1>7, <1>8, <1>9, <1>11, <1>12, <1>13, <1>14,
     <1>15, <1>16 DEF Next, Step

-----------------------------------------------------------------------------
(* Futures and entries.  A call is outside of its creation, in it, or past  *)
(* it on the way of success or of failure; most steps keep it where it is.  *)

Outside(c) == pc[c] \in {"idle", "lookup", "insert", "wait"}
Unwinding(c) == pc[c] \in {"remove", "removing"}

SamePhase(c) ==
    /\ Outside(c) <=> Outside(c)'
    /\ Creating(c) <=> Creating(c)'
    /\ Unwinding(c) <=> Unwinding(c)'
    /\ At(c, "update") <=> At(c, "update")'
    /\ At(c, "update") => fut'[c] = fut[c]

\* Entries may go, those that stay are the same.
SameEntries ==
    /\ Resident' \subseteq Resident
    /\ \A k \in Resident' : mapper'[k] = mapper[k]

\* The call that inserted an entry is a call for the key of the entry.
LEMMA OwnerIsCall ==
    ASSUME TypeOK, NEW k \in Resident
    PROVE  Owner(k) \in Calls /\ Owner(k)[2] = k /\ k \in Keys
BY DEF TypeOK, Resident, Owner, Entries, Calls

\* Return moves the call out of its creation and leaves the other calls in
\* their phase: the caller, if there is one, goes on creating.
LEMMA ReturnPhase ==
    ASSUME IInv, NEW c \in Calls, NEW v, Return(c, v)
    PROVE  /\ pc'[c] = "idle"
           /\ fut'[c] = NoCall
           /\ \A d \in Calls \ {c} :
                /\ fut'[d] = fut[d]
                /\ pc'[d] = pc[d] \/ (Creating(d) /\ Creating(d)')
                /\ SamePhase(d)
<1>1. /\ pc'[c] = "idle" /\ fut'[c] = NoCall
      /\ \A d \in Calls \ {c} : fut'[d] = fut[d]
  BY DEF IInv, TypeOK, Return
<1>2. ASSUME NEW d \in Calls \ {c}
      PROVE  pc'[d] = pc[d] \/ (Creating(d) /\ Creating(d)')
  BY <1>2 DEF IInv, TypeOK, Return, CallerInv, At, Creating
<1>3. ASSUME NEW d \in Calls \ {c}
      PROVE  SamePhase(d)
  BY <1>1, <1>2, <1>3 DEF SamePhase, Outside, Creating, Unwinding, At
<1> QED BY <1>1, <1>2, <1>3

\* Steps that keep the entries and the phase of the calls that own them.
LEMMA Frame ==
    ASSUME IInv, SameEntries,
           ~WithoutClearing => \A k \in Resident' : SamePhase(Owner(k))
    PROVE  FailureNotCached' /\ OwnEntryInv'
<1>1. FailureNotCached'
  BY DEF IInv, FailureNotCached, SameEntries, SamePhase, Unwinding, Owner
<1>2. ASSUME ~WithoutClearing, NEW k \in Resident', OwnEntry(k)
      PROVE  OwnEntry(k)'
  BY <1>2 DEF OwnEntry, SameEntries, SamePhase, Unwinding, Owner
<1>3. OwnEntryInv'
  BY <1>2 DEF IInv, OwnEntryInv, SameEntries
<1> QED BY <1>1, <1>3

\* A creation ends in the step that sets its promise.
LEMMA PendingStep ==
    IInv /\ [Next]_vars => PendingHasCreator'
<1> SUFFICES ASSUME IInv, [Next]_vars PROVE PendingHasCreator'
  OBVIOUS
<1> USE CallIsPair, DistinctAssumption DEF IInv, TypeOK, CallerInv, FutInv, At, Resident, Entries, Creating, PendingHasCreator, Owner
<1>1. ASSUME NEW c \in Calls, NotFound(c), pc[c] \in {"lookup", "insert"},
             capacity = 0 \/ mode[c] = "get"
      PROVE  PendingHasCreator'
  <2>1. UNCHANGED mapper
    BY <1>1 DEF NotFound, cacheVars
  <2>2. CASE Create(c) /\ UNCHANGED fut
    BY <1>1, <2>1, <2>2 DEF Create, Goto
  <2>3. CASE Return(c, Failed)
    BY <1>1, <2>1, <2>3, ReturnPhase
  <2> QED BY <1>1, <2>2, <2>3 DEF NotFound
<1>2. ASSUME NEW c \in Calls, Found(c), pc[c] \in {"lookup", "insert"},
             c[2] \in Resident
      PROVE  PendingHasCreator'
  <2>1. UNCHANGED mapper
    BY <1>2 DEF Found
  <2>2. CASE Create(c) /\ UNCHANGED fut
    BY <1>2, <2>1, <2>2 DEF Create, Goto
  <2>3. CASE Goto(c, "wait") /\ fut' = [fut EXCEPT ![c] = mapper[c[2]].value]
    BY <1>2, <2>1, <2>3 DEF Goto
  <2> QED BY <1>2, <2>2, <2>3 DEF Found
<1>3. ASSUME NEW c \in Calls, Lookup(c)
      PROVE  PendingHasCreator'
  <2>1. CASE Goto(c, "insert") /\ UNCHANGED <<mapper, fut>>
    <3>1. At(c, "lookup")
      BY <1>3 DEF Lookup
    <3> QED BY <2>1, <3>1 DEF Goto
  <2>2. CASE capacity = 0 /\ NotFound(c)
    BY <1>1, <1>3, <2>2 DEF Lookup
  <2>3. CASE c[2] \in Resident /\ Found(c)
    BY <1>2, <1>3, <2>3 DEF Lookup
  <2>4. CASE mode[c] = "get" /\ NotFound(c)
    BY <1>1, <1>3, <2>4 DEF Lookup
  <2> QED
    BY ONLY <1>3, <2>1, <2>2, <2>3, <2>4 DEF Lookup, cacheVars
<1>4. ASSUME NEW c \in Calls, Insert(c)
      PROVE  PendingHasCreator'
  <2>1. CASE /\ Add(c) /\ Create(c) /\ At(c, "insert")
             /\ UNCHANGED <<capacity, writer, mode, caller, fut>>
    <3>1. PICK S : mapper' = [j \in (Resident \ S) \cup {c[2]} |->
                        IF j = c[2] THEN [value |-> c, tid |-> c[1], ptr |-> c]
                                    ELSE mapper[j]]
      BY <2>1 DEF Add
    <3> QED BY <2>1, <3>1 DEF Create, Goto, Futures, Values
  <2> QED BY <1>1, <1>2, <1>4, <2>1 DEF Insert
<1>5. ASSUME NEW c \in Calls, Wait(c)
      PROVE  PendingHasCreator'
  BY <1>5 DEF Wait, Return, cacheVars
<1>6. ASSUME NEW c \in Calls, NEW j \in Keys, StartNested(c, j)
      PROVE  PendingHasCreator'
  BY <1>6 DEF StartNested, cacheVars, Calls
<1>7. ASSUME NEW c \in Calls, CreateDone(c)
      PROVE  PendingHasCreator'
  BY <1>7 DEF CreateDone, SetValue, Goto, Futures, Values
<1>8. ASSUME NEW c \in Calls, CreateFail(c)
      PROVE  PendingHasCreator'
  BY <1>8 DEF CreateFail, SetValue, Goto, Futures, Values
<1>9. ASSUME NEW c \in Calls, UpdateEntry(c)
      PROVE  PendingHasCreator'
  <2>1. /\ Resident' = Resident
        /\ \A k \in Resident : /\ mapper'[k].value = mapper[k].value
                             /\ mapper'[k].tid = mapper[k].tid
    BY <1>9 DEF UpdateEntry
  <2>2. Return(c, fut[c]) /\ At(c, "update")
    BY <1>9 DEF UpdateEntry
  <2>3. ~Creating(c) /\ ~Creating(c)'
        /\ \A d \in Calls \ {c} : (Creating(d)' <=> Creating(d)) /\ fut'[d] = fut[d]
    BY <2>2, ReturnPhase DEF SamePhase
  <2>4. ASSUME NEW k \in Resident', mapper'[k].value \in Calls
        PROVE  (Creating(mapper[k].value) /\ mapper[k].value = Owner(k))'
    <3>1. mapper[k].value \in Calls /\ k \in Resident
      BY <2>1, <2>4
    <3>2. Creating(mapper[k].value) /\ mapper[k].value = Owner(k)
      BY <3>1
    <3>3. mapper'[k].value = mapper[k].value /\ mapper'[k].tid = mapper[k].tid
      BY <2>1, <3>1
    <3>4. Creating(mapper[k].value) /\ mapper[k].value # c
      BY <2>3, <3>2
    <3>5. pc'[mapper[k].value] \in {"create", "nested", "abort"}
      BY <2>3, <3>1, <3>4
    <3> QED BY ONLY <3>2, <3>3, <3>5 DEF Creating, Owner
  <2>5. ASSUME NEW d \in Calls, fut'[d] \in Calls
        PROVE  (At(d, "wait") /\ Creating(fut[d]) /\ fut[d][2] = d[2])'
    <3>1. d # c
      BY <2>2, <2>5, ReturnPhase
    <3>2. At(d, "wait") /\ Creating(fut[d]) /\ fut[d][2] = d[2] /\ fut'[d] = fut[d]
      BY <2>3, <2>5, <3>1
    <3>3. At(d, "wait")'
      BY <2>2, <3>1, <3>2, ReturnPhase
    <3> QED BY <2>3, <2>5, <3>2, <3>3
  <2> QED BY <2>4, <2>5
<1>10. ASSUME NEW c \in Calls, RemoveEnd(c), pc[c] \in {"remove", "removing"},
              c[2] \in Resident, mapper[c[2]].value \in Values
       PROVE  PendingHasCreator'
  BY <1>10 DEF RemoveEnd, Return, Erase, Kept
<1>11. ASSUME NEW c \in Calls, Remove(c)
       PROVE  PendingHasCreator'
  <2>1. CASE Return(c, Failed) /\ UNCHANGED mapper
    BY <1>11, <2>1, ReturnPhase DEF Remove
  <2>2. CASE Goto(c, "removing") /\ UNCHANGED <<mapper, fut>>
    BY <1>11, <2>2 DEF Remove, Goto
  <2> QED BY <1>10, <1>11, <2>1, <2>2 DEF Remove, cacheVars
<1>12. ASSUME NEW c \in Calls, Removing(c)
       PROVE  PendingHasCreator'
  BY <1>10, <1>12 DEF Removing, LockInv
<1>13. ASSUME NEW c \in Calls, NEW m \in {"plain", "blob", "get"}, Start(c, m)
       PROVE  PendingHasCreator'
  BY <1>13 DEF Start, Goto, cacheVars
<1>14. ASSUME NEW n \in 0..MaxCapacity, SetCapacity(n)
       PROVE  PendingHasCreator'
  BY <1>14 DEF SetCapacity, Erase, Kept
<1>15. ASSUME NEW n \in 0..MaxCapacity, SetCapacityWithoutClearing(n)
       PROVE  PendingHasCreator'
  BY <1>15 DEF SetCapacityWithoutClearing
<1>16. CASE UNCHANGED vars
  BY <1>16 DEF vars
<1> HIDE DEF IInv, TypeOK, CallerInv, FutInv, At, Resident, Entries, Creating, PendingHasCreator, Owner
<1> QED
  BY <1>3, <1>4, <1>5, <1>6, <1>7, <1>8, <1>9, <1>11, <1>12, <1>13, <1>14,
     <1>15, <1>16 DEF Next, Step

\* A failed or finished creation accounts for its own entry before it returns.
LEMMA EntryStep ==
    IInv /\ [Next]_vars => FailureNotCached' /\ OwnEntryInv'
<1> DEFINE Goal == FailureNotCached' /\ OwnEntryInv'
<1> SUFFICES ASSUME IInv, [Next]_vars PROVE Goal
  OBVIOUS
<1>0. TypeOK
  BY DEF IInv
<1>a. ASSUME SameEntries, \A d \in Calls : SamePhase(d)
      PROVE  Goal
  BY <1>0, <1>a, Frame, OwnerIsCall DEF SameEntries
<1>b. ASSUME NEW c \in Calls, SameEntries, \A d \in Calls \ {c} : SamePhase(d),
             \A k \in Resident' : Owner(k) # c
      PROVE  Goal
  BY <1>0, <1>b, Frame, OwnerIsCall DEF SameEntries
<1>c. ASSUME NEW c \in Calls, UNCHANGED mapper, \A d \in Calls \ {c} : SamePhase(d),
             capacity = 0 \/ c[2] \notin Resident
      PROVE  Goal
  <2>1. SameEntries
    BY <1>c DEF SameEntries, Resident
  <2>2. CASE WithoutClearing
    BY <2>1, <2>2, Frame
  <2>3. CASE ~WithoutClearing
    <3>1. \A k \in Resident' : Owner(k) # c
      BY <1>0, <1>c, <2>1, <2>3, DisabledEmpty, OwnerIsCall DEF IInv, SameEntries
    <3> QED BY <1>b, <1>c, <2>1, <3>1
  <2> QED BY <2>2, <2>3
<1>d. ASSUME NEW c \in Calls, NEW p \in Steps, Goto(c, p), UNCHANGED fut
      PROVE  \A d \in Calls \ {c} : SamePhase(d)
  BY <1>0, <1>d DEF Goto, TypeOK, SamePhase, Outside, Creating, Unwinding, At
<1>e. ASSUME UNCHANGED mapper PROVE SameEntries
  BY <1>e DEF SameEntries, Resident
<1>1. ASSUME NEW c \in Calls, NotFound(c), pc[c] \in {"lookup", "insert"},
             capacity = 0 \/ c[2] \notin Resident
      PROVE  Goal
  <2>1. \A d \in Calls \ {c} : SamePhase(d)
    <3>1. CASE mode[c] = "get"
      BY <1>1, <3>1, ReturnPhase DEF NotFound
    <3>2. CASE mode[c] # "get"
      BY <1>1, <1>d, <3>2 DEF NotFound, Create, Steps
    <3> QED BY <3>1, <3>2
  <2> QED BY <1>1, <1>c, <2>1 DEF NotFound, cacheVars
<1>2. ASSUME NEW c \in Calls, Found(c), pc[c] \in {"lookup", "insert"}
      PROVE  Goal
  <2>1. SameEntries
    BY <1>2, <1>e DEF Found
  <2>2. CASE mode[c] # "forced"
    <3>1. pc' = [pc EXCEPT ![c] = "wait"] /\ \A d \in Calls \ {c} : fut'[d] = fut[d]
      BY <1>0, <1>2, <2>2 DEF Found, Goto, TypeOK
    <3>2. \A d \in Calls : SamePhase(d)
      BY <1>0, <1>2, <3>1 DEF TypeOK, SamePhase, Outside, Creating, Unwinding, At
    <3> QED BY <1>a, <2>1, <3>2
  <2>3. CASE mode[c] = "forced"
    <3>1. CacheBlobs
      BY <2>3 DEF IInv, ModeInv
    <3>2. \A d \in Calls : pc'[d] \notin {"remove", "removing"} =>
                           pc[d] \notin {"remove", "removing"}
      BY <1>0, <1>2, <2>3 DEF Found, Create, Goto, TypeOK
    <3>3. FailureNotCached'
      BY <1>0, <2>1, <3>2, OwnerIsCall
      DEF IInv, FailureNotCached, SameEntries, Owner
    <3> QED BY <3>1, <3>3 DEF OwnEntryInv
  <2> QED BY <2>2, <2>3
<1>3. ASSUME NEW c \in Calls, Lookup(c)
      PROVE  Goal
  <2>1. CASE Goto(c, "insert") /\ UNCHANGED <<mapper, fut>>
    <3>1. \A d \in Calls : SamePhase(d)
      BY <1>0, <1>3, <2>1
      DEF Lookup, Goto, TypeOK, SamePhase, Outside, Creating, Unwinding, At
    <3> QED BY <1>a, <1>e, <2>1, <3>1
  <2> QED BY <1>1, <1>2, <1>3, <2>1 DEF Lookup, At, cacheVars
<1>4. ASSUME NEW c \in Calls, Insert(c)
      PROVE  Goal
  <2>1. CASE /\ Add(c) /\ Create(c) /\ At(c, "insert") /\ UNCHANGED fut
             /\ c[2] \notin Resident
    <3>1. PICK S : mapper' = [j \in (Resident \ S) \cup {c[2]} |->
                        IF j = c[2] THEN [value |-> c, tid |-> c[1], ptr |-> c]
                                    ELSE mapper[j]]
      BY <2>1 DEF Add
    <3>2. \A d \in Calls \ {c} : SamePhase(d)
      BY <1>d, <2>1 DEF Create, Steps
    <3>3. pc'[c] = "create"
      BY <1>0, <2>1 DEF Create, Goto, TypeOK
    <3>4. ASSUME NEW k \in Resident', k # c[2]
          PROVE  /\ k \in Resident /\ mapper'[k] = mapper[k]
                 /\ Owner(k)' = Owner(k) /\ SamePhase(Owner(k))
      BY <1>0, <3>1, <3>2, <3>4, OwnerIsCall DEF Resident, Owner
    <3>5. ASSUME c[2] \in Resident'
          PROVE  /\ mapper'[c[2]] = [value |-> c, tid |-> c[1], ptr |-> c]
                 /\ Owner(c[2])' = c
      BY <3>1, CallIsPair DEF Resident, Owner
    <3>6. FailureNotCached'
      BY <3>4, <3>5, DistinctAssumption
      DEF IInv, FailureNotCached, SamePhase, Unwinding
    <3>7. ASSUME NEW k \in Resident', k # c[2], ~WithoutClearing, OwnEntry(k)
          PROVE  OwnEntry(k)'
      BY <3>4, <3>7 DEF OwnEntry, SamePhase, Unwinding
    <3>8. ASSUME c[2] \in Resident'
          PROVE  OwnEntry(c[2])'
      BY <3>3, <3>5, <3>8 DEF OwnEntry, Creating
    <3>9. OwnEntryInv'
      BY <3>4, <3>7, <3>8 DEF IInv, OwnEntryInv
    <3> QED BY <3>6, <3>9
  <2> QED BY <1>1, <1>2, <1>4, <2>1 DEF Insert, At
<1>5. ASSUME NEW c \in Calls, Wait(c)
      PROVE  Goal
  <2>1. \A d \in Calls : SamePhase(d)
    BY <1>5, ReturnPhase
    DEF Wait, SamePhase, Outside, Creating, Unwinding, At
  <2> QED BY <1>5, <1>a, <1>e, <2>1 DEF Wait, cacheVars
<1>6. ASSUME NEW c \in Calls, NEW j \in Keys, StartNested(c, j)
      PROVE  Goal
  <2>1. \A d \in Calls : SamePhase(d)
    BY <1>0, <1>6, CallIsPair
    DEF StartNested, TypeOK, Calls, SamePhase, Outside, Creating, Unwinding, At
  <2> QED BY <1>6, <1>a, <1>e, <2>1 DEF StartNested, cacheVars
<1>7. ASSUME NEW c \in Calls, NEW v \in Values, NEW p \in {"update", "remove"},
             SetValue(c, v), Goto(c, p), Creating(c),
             p = "update" => v \in Objects, p = "remove" => v = Failed
      PROVE  Goal
  <2>1. pc'[c] = p /\ fut'[c] = v /\ \A d \in Calls \ {c} : pc'[d] = pc[d]
    BY <1>0, <1>7 DEF TypeOK, Goto, SetValue
  <2>2. \A d \in Calls \ {c} : At(d, "update") => fut'[d] = fut[d]
    BY <1>7, DistinctAssumption DEF IInv, FutInv, SetValue
  <2>3. \A d \in Calls \ {c} : SamePhase(d)
    BY <2>1, <2>2 DEF SamePhase, Outside, Creating, Unwinding, At
  <2>4. Resident' = Resident
    BY <1>7 DEF SetValue, Resident
  <2>5. ASSUME NEW k \in Resident
        PROVE  /\ mapper'[k].tid = mapper[k].tid /\ mapper'[k].ptr = mapper[k].ptr
               /\ mapper'[k].value = IF mapper[k].value = c THEN v
                                                            ELSE mapper[k].value
               /\ Owner(k)' = Owner(k) /\ Owner(k) \in Calls
               /\ mapper[k].value = c => Owner(k) = c
    BY <1>0, <1>7, <2>5, OwnerIsCall
    DEF SetValue, Resident, Owner, IInv, PendingHasCreator
  <2>6. FailureNotCached'
    BY <1>7, <2>1, <2>3, <2>4, <2>5, DistinctAssumption
    DEF IInv, FailureNotCached, SamePhase, Unwinding, Creating
  <2>7. ASSUME NEW k \in Resident, OwnEntry(k), Owner(k) # c
        PROVE  OwnEntry(k)'
    BY <2>3, <2>5, <2>7 DEF OwnEntry, SamePhase, Unwinding
  <2>8. ASSUME NEW k \in Resident, OwnEntry(k), Owner(k) = c
        PROVE  OwnEntry(k)'
    BY <1>7, <2>1, <2>5, <2>8, DistinctAssumption DEF OwnEntry, Creating, At, Values
  <2>9. OwnEntryInv'
    BY <2>4, <2>7, <2>8 DEF IInv, OwnEntryInv
  <2> QED BY <2>6, <2>9
<1>8. ASSUME NEW c \in Calls, CreateDone(c) \/ CreateFail(c)
      PROVE  Goal
  BY <1>7, <1>8 DEF CreateDone, CreateFail, Values, Creating, At
<1>9. ASSUME NEW c \in Calls, UpdateEntry(c)
      PROVE  Goal
  <2> DEFINE k == c[2]
  <2>1. \A d \in Calls \ {c} : SamePhase(d)
    BY <1>9, ReturnPhase DEF UpdateEntry
  <2>2. pc'[c] = "idle" /\ At(c, "update") /\ fut[c] \in Objects
    BY <1>9, ReturnPhase DEF UpdateEntry, IInv, FutInv
  <2>3. Resident' = Resident
    BY <1>9 DEF UpdateEntry, Resident
  <2>4. ASSUME NEW j \in Resident
        PROVE  /\ mapper'[j].tid = mapper[j].tid
               /\ mapper'[j].value = mapper[j].value
               /\ Owner(j)' = Owner(j) /\ Owner(j) \in Calls
               /\ Owner(j) # c => mapper'[j].ptr = mapper[j].ptr
               /\ Owner(j) = c /\ KeyMerge /\ capacity # 0 => mapper'[j].ptr = fut[c]
    BY <1>0, <1>9, <2>4, OwnerIsCall, CallIsPair
    DEF UpdateEntry, Resident, Owner, TypeOK, Entries
  <2>5. FailureNotCached'
    BY <2>1, <2>2, <2>3, <2>4 DEF IInv, FailureNotCached, SamePhase, Unwinding, At
  <2>6. ASSUME NEW j \in Resident, OwnEntry(j), Owner(j) # c
        PROVE  OwnEntry(j)'
    BY <2>1, <2>4, <2>6 DEF OwnEntry, SamePhase, Unwinding
  <2>7. ASSUME NEW j \in Resident, OwnEntry(j), Owner(j) = c, KeyMerge, capacity # 0
        PROVE  OwnEntry(j)'
    BY <2>2, <2>4, <2>7 DEF OwnEntry, Creating, At
  <2>8. OwnEntryInv'
    <3> SUFFICES ASSUME KeyMerge, ~CacheBlobs, ~WithoutClearing, NEW j \in Resident
                 PROVE  OwnEntry(j)'
      BY <2>3 DEF OwnEntryInv
    <3>1. OwnEntry(j) /\ capacity # 0
      BY <1>0, DisabledEmpty DEF IInv, OwnEntryInv
    <3> QED BY <2>6, <2>7, <3>1
  <2> QED BY <2>5, <2>8
<1>10. ASSUME NEW c \in Calls, RemoveEnd(c), Unwinding(c)
       PROVE  Goal
  <2>1. \A d \in Calls \ {c} : SamePhase(d)
    BY <1>10, ReturnPhase DEF RemoveEnd
  <2>2. pc'[c] = "idle"
    BY <1>10, ReturnPhase DEF RemoveEnd
  <2>3. SameEntries /\ \A k \in Resident' : k = c[2] => mapper[k].value # Failed
    BY <1>10 DEF RemoveEnd, Erase, Kept, SameEntries, Resident
  <2>4. ASSUME NEW k \in Resident'
        PROVE  /\ Owner(k)' = Owner(k) /\ Owner(k) \in Calls
               /\ Owner(k) = c => mapper[k].value # Failed
    BY <1>0, <2>3, <2>4, OwnerIsCall DEF SameEntries, Owner
  <2>5. FailureNotCached'
    BY <2>1, <2>3, <2>4 DEF IInv, FailureNotCached, SameEntries, SamePhase, Unwinding
  <2>6. ASSUME NEW k \in Resident', OwnEntry(k), Owner(k) # c
        PROVE  OwnEntry(k)'
    BY <2>1, <2>3, <2>4, <2>6 DEF OwnEntry, SameEntries, SamePhase, Unwinding
  <2>7. ASSUME NEW k \in Resident', OwnEntry(k), Owner(k) = c
        PROVE  OwnEntry(k)'
    BY <1>10, <2>2, <2>3, <2>4, <2>7
    DEF OwnEntry, SameEntries, Unwinding, Creating, At
  <2>8. OwnEntryInv'
    BY <2>3, <2>6, <2>7 DEF IInv, OwnEntryInv, SameEntries
  <2> QED BY <2>5, <2>8
<1>11. ASSUME NEW c \in Calls, Remove(c)
       PROVE  Goal
  <2>1. CASE /\ capacity = 0 \/ c[2] \notin Resident
             /\ Return(c, Failed) /\ UNCHANGED mapper
    BY <1>c, <2>1, ReturnPhase
  <2>2. CASE Goto(c, "removing") /\ UNCHANGED <<mapper, fut>>
    <3>1. \A d \in Calls : SamePhase(d)
      BY <1>0, <1>11, <2>2
      DEF Remove, Goto, TypeOK, SamePhase, Outside, Creating, Unwinding, At
    <3> QED BY <1>a, <1>e, <2>2, <3>1
  <2> QED BY <1>10, <1>11, <2>1, <2>2 DEF Remove, cacheVars, At, Unwinding
<1>12. ASSUME NEW c \in Calls, Removing(c)
       PROVE  Goal
  BY <1>10, <1>12 DEF Removing, At, Unwinding
<1>13. ASSUME NEW c \in Calls, NEW m \in {"plain", "blob", "get"}, Start(c, m)
       PROVE  Goal
  <2>1. At(c, "idle")
    BY <1>13, CallIsPair DEF Start
  <2>2. \A d \in Calls : SamePhase(d)
    BY <1>0, <1>13, <2>1
    DEF Start, Goto, TypeOK, SamePhase, Outside, Creating, Unwinding, At
  <2> QED BY <1>13, <1>a, <1>e, <2>2 DEF Start, cacheVars
<1>14. ASSUME NEW n \in 0..MaxCapacity, SetCapacity(n)
       PROVE  Goal
  <2>1. \A d \in Calls : SamePhase(d)
    BY <1>14 DEF SetCapacity, SamePhase, Outside, Creating, Unwinding, At
  <2>2. SameEntries
    BY <1>14 DEF SetCapacity, Erase, Kept, SameEntries, Resident
  <2> QED BY <1>a, <2>1, <2>2
<1>15. ASSUME NEW n \in 0..MaxCapacity, SetCapacityWithoutClearing(n)
       PROVE  Goal
  BY <1>15 DEF SetCapacityWithoutClearing, FailureNotCached, OwnEntryInv
<1>16. CASE UNCHANGED vars
  <2>1. \A d \in Calls : SamePhase(d)
    BY <1>16 DEF vars, SamePhase, Outside, Creating, Unwinding, At
  <2> QED BY <1>16, <1>a, <1>e, <2>1 DEF vars
<1> QED
  BY <1>3, <1>4, <1>5, <1>6, <1>8, <1>9, <1>11, <1>12, <1>13, <1>14, <1>15,
     <1>16 DEF Next, Step

-----------------------------------------------------------------------------
(* The theorems.                                                            *)

\* The inductive invariant holds in every reachable state.
THEOREM Invariance == Spec => []IInv
<1>1. Init => IInv
  <2> SUFFICES ASSUME Init PROVE IInv
    OBVIOUS
  <2>1. TypeOK
    BY ConstantsAssumption DEF Init, TypeOK, Steps, Modes
  <2>2. Resident = {} /\ Size = 0
    BY FS_EmptySet DEF Init, Resident, Size
  <2>3. SizeWithinCapacity
    BY <2>1, <2>2, ConstantsAssumption DEF TypeOK, SizeWithinCapacity
  <2>4. LockInv /\ CallerInv /\ FutInv /\ ModeInv
    BY DistinctAssumption
    DEF Init, LockInv, CallerInv, FutInv, ModeInv, At
  <2>5. PendingHasCreator /\ FailureNotCached /\ OwnEntryInv
    BY <2>2, DistinctAssumption
    DEF Init, PendingHasCreator, FailureNotCached, OwnEntryInv
  <2> QED BY <2>1, <2>3, <2>4, <2>5 DEF IInv
<1>2. IInv /\ [Next]_vars => IInv'
  BY TypeStep, LockStep, CallerStep, FutStep, PendingStep, SizeStep, EntryStep,
     ModeStep DEF IInv
<1> QED BY <1>1, <1>2, PTL DEF Spec

\* The variables of the cache and of the calls always have their types.
THEOREM TypeCorrect == Spec => []TypeOK
<1>1. IInv => TypeOK
  BY DEF IInv
<1> QED BY <1>1, Invariance, PTL

\* However insertions, evictions and set_capacity interleave, the cache never
\* holds more entries than its capacity.
THEOREM SizeBounded == Spec => []SizeWithinCapacity
<1>1. IInv => SizeWithinCapacity
  BY DEF IInv
<1> QED BY <1>1, Invariance, PTL

\* No future in the cache or in the hands of a waiting thread is abandoned: the
\* call that has to set it is still creating its object.
THEOREM NoAbandonedFuture == Spec => []PendingHasCreator
<1>1. IInv => PendingHasCreator
  BY DEF IInv
<1> QED BY <1>1, Invariance, PTL

\* The error of a failed creation leaves the cache before get_or_create returns
\* it, even if the entry was evicted and inserted again in between.
THEOREM ErrorsNotCached == Spec => []FailureNotCached
<1>1. IInv => FailureNotCached
  BY DEF IInv
<1> QED BY <1>1, Invariance, PTL

\* Without cache blobs, the pointers of a cached key never outlive what they
\* point into: the caller's descriptor until update_entry, the object after it.
THEOREM KeyPointersValid ==
    ASSUME ~CacheBlobs, ~WithoutClearing
    PROVE  Spec => []KeyPointersInStoredObject
<1>1. IInv => KeyPointersInStoredObject
  <2> SUFFICES ASSUME IInv, KeyMerge, NEW k \in Resident
               PROVE  \/ mapper[k].ptr \in Calls /\ ~At(mapper[k].ptr, "idle")
                      \/ mapper[k].ptr = mapper[k].value
    BY DEF KeyPointersInStoredObject
  <2>1. Owner(k) \in Calls /\ OwnEntry(k)
    BY OwnerIsCall DEF IInv, OwnEntryInv
  <2> QED BY <2>1 DEF OwnEntry, Creating, At
<1> QED BY <1>1, Invariance, PTL

-----------------------------------------------------------------------------
(* The refinement.                                                          *)

\* The variables of MemoTable: what is in the table, and what the calls do.
Table == [k \in Resident |-> mapper[k].value]
Kind == [c \in Calls |-> IF mode[c] = "blob" THEN "plain" ELSE mode[c]]
Doing == [c \in Calls |-> DoingOf(pc[c])]

\* The beginning of a call, of a nested one too, is that of a call on the table.
LEMMA AskMaps ==
    ASSUME NEW c \in Calls, NEW k \in {"plain", "forced", "get"},
           Doing[c] = "idle",
           Doing' = [Doing EXCEPT ![c] = "asking"],
           Kind' = [Kind EXCEPT ![c] = k],
           UNCHANGED <<capacity, Table, fut>>
    PROVE  Memo!MemoNext
<1>1. Memo!Ask(c, k)
  BY DEF Memo!Ask, Memo!Become, Table, Kind, Doing
<1> QED BY <1>1 DEF Memo!MemoNext

\* A hit is a call that shares what is in the table.
LEMMA ShareMaps ==
    ASSUME NEW c \in Calls, Doing[c] = "asking", Kind[c] # "forced",
           capacity # 0, c[2] \in Resident,
           Doing' = [Doing EXCEPT ![c] = "sharing"],
           fut' = [fut EXCEPT ![c] = mapper[c[2]].value],
           UNCHANGED <<capacity, Table, Kind>>
    PROVE  Memo!MemoNext
<1>1. Memo!Share(c)
  BY DEF Memo!Share, Memo!Become, Memo!Known, Table, Kind, Doing
<1> QED BY <1>1 DEF Memo!MemoNext

\* add, with the evictions it makes, is a call that reserves its key.
LEMMA ReserveMaps ==
    ASSUME NEW c \in Calls, Doing[c] = "asking", Kind[c] # "get",
           capacity # 0, c[2] \notin Resident, NEW S \in SUBSET Resident,
           Doing' = [Doing EXCEPT ![c] = "making"],
           Table' = [k \in (Resident \ S) \cup {c[2]} |->
                       IF k = c[2] THEN c ELSE Table[k]],
           UNCHANGED <<capacity, Kind, fut>>
    PROVE  Memo!MemoNext
<1>1. Memo!Known = Resident
  BY DEF Memo!Known
<1>2. Memo!Reserve(c)
  BY <1>1 DEF Memo!Reserve, Memo!Become, Table, Kind, Doing
<1> QED BY <1>2 DEF Memo!MemoNext

\* A creation without an entry is one that bypasses the table.
LEMMA BypassMaps ==
    ASSUME NEW c \in Calls, Doing[c] = "asking",
           \/ Kind[c] # "get" /\ capacity = 0
           \/ Kind[c] = "forced" /\ c[2] \in Resident,
           Doing' = [Doing EXCEPT ![c] = "making"],
           UNCHANGED <<capacity, Table, Kind, fut>>
    PROVE  Memo!MemoNext
<1>1. Memo!Bypass(c)
  BY DEF Memo!Bypass, Memo!Become, Memo!Known, Table, Kind, Doing
<1> QED BY <1>1 DEF Memo!MemoNext

\* The promise of a creation is kept for all calls that share it, at once.
LEMMA FinishMaps ==
    ASSUME NEW c \in Calls, NEW v \in Values, Doing[c] = "making",
           v \in Objects => v \notin Live,
           SetValue(c, v),
           Doing' = [Doing EXCEPT ![c] = "made"],
           UNCHANGED <<capacity, Kind>>
    PROVE  Memo!MemoNext
<1>1. v \in Memo!Results
  BY DEF Memo!Results, Values
<1>2. v \in Objects => ~Memo!InUse(v)
  BY DEF Memo!InUse, Memo!Known, Live
<1>3. Table' = [k \in Resident |-> IF Table[k] = c THEN v ELSE Table[k]]
  BY DEF SetValue, Table, Resident
<1>4. Memo!Known = Resident
  BY DEF Memo!Known
<1>5. Memo!Finish(c, v)
  BY <1>2, <1>3, <1>4 DEF Memo!Finish, Memo!Become, SetValue, Table, Kind, Doing
<1> QED BY <1>1, <1>5 DEF Memo!MemoNext

\* A call that returns what it holds, or get that has missed.
LEMMA ReturnMaps ==
    ASSUME NEW c \in Calls,
           \/ Doing[c] \in {"sharing", "made"} /\ fut[c] \in Values
           \/ /\ Doing[c] = "asking" /\ Kind[c] = "get"
              /\ ~(capacity # 0 /\ c[2] \in Resident),
           Doing' = [Doing EXCEPT ![c] = "idle"],
           Kind' = [Kind EXCEPT ![c] = "plain"],
           fut' = [fut EXCEPT ![c] = NoCall],
           UNCHANGED <<capacity, Table>>
    PROVE  Memo!MemoNext
<1>1. Memo!Return(c)
  BY DEF Memo!Return, Memo!Leave, Memo!Become, Memo!Known, Memo!Results, Values,
         Table, Kind, Doing
<1> QED BY <1>1 DEF Memo!MemoNext

\* remove_if_invalidated takes a failure out of the table.
LEMMA WithdrawMaps ==
    ASSUME NEW c \in Calls, Doing[c] = "made", fut[c] = Failed,
           Table' = [k \in Resident \ {j \in Resident : j = c[2] /\ Table[j] = Failed} |->
                       Table[k]],
           Doing' = [Doing EXCEPT ![c] = "idle"],
           Kind' = [Kind EXCEPT ![c] = "plain"],
           fut' = [fut EXCEPT ![c] = NoCall],
           UNCHANGED capacity
    PROVE  Memo!MemoNext
<1>1. Memo!Known = Resident
  BY DEF Memo!Known
<1>2. Memo!Withdraw(c)
  BY <1>1 DEF Memo!Withdraw, Memo!Without, Memo!Leave, Memo!Become, Table, Kind, Doing
<1> QED BY <1>2 DEF Memo!MemoNext

\* A change of the capacity forgets some entries.
LEMMA ResizeMaps ==
    ASSUME NEW S \in SUBSET Resident,
           Table' = [k \in Resident \ S |-> Table[k]],
           UNCHANGED <<Kind, Doing, fut>>
    PROVE  Memo!MemoNext
<1>1. Memo!Known = Resident
  BY DEF Memo!Known
<1>2. Memo!Resize
  BY <1>1 DEF Memo!Resize, Memo!Without, Table, Kind, Doing
<1> QED BY <1>2 DEF Memo!MemoNext

\* What the table does not show.
LEMMA StutterMaps ==
    ASSUME UNCHANGED <<capacity, Table, Kind, Doing, fut>>
    PROVE  UNCHANGED Memo!tableVars
BY DEF Memo!tableVars, Table, Kind, Doing

\* A return is seen of the call that returns only: its caller is still making.
LEMMA ReturnOutside ==
    ASSUME IInv, NEW c \in Calls, NEW v, Return(c, v)
    PROVE  /\ Doing' = [Doing EXCEPT ![c] = "idle"]
           /\ Kind' = [Kind EXCEPT ![c] = "plain"]
           /\ fut' = [fut EXCEPT ![c] = NoCall]
<1>1. \A d \in Calls : d = caller[c] /\ d # c => pc[d] = "nested"
  BY DEF IInv, CallerInv, At
<1>2. \A d \in Calls : pc'[d] = IF d = c THEN "idle"
                                 ELSE IF d # caller[c] THEN pc[d]
                                 ELSE IF v = Failed THEN "abort" ELSE "create"
  BY DEF Return
<1>3. \A d \in Calls : DoingOf(pc'[d]) = IF d = c THEN "idle" ELSE DoingOf(pc[d])
  BY <1>1, <1>2 DEF DoingOf
<1>4. Doing' = [Doing EXCEPT ![c] = "idle"]
  BY <1>3 DEF Doing
<1>5. Kind' = [Kind EXCEPT ![c] = "plain"]
  BY DEF Return, Kind, IInv, TypeOK
<1> QED BY <1>4, <1>5 DEF Return

\* What a call does next, seen from outside.
LEMMA GotoOutside ==
    ASSUME TypeOK, NEW c \in Calls, NEW s, Goto(c, s)
    PROVE  Doing' = [Doing EXCEPT ![c] = DoingOf(s)]
BY DEF TypeOK, Goto, Doing

\* A call that finds the cache disabled, or get that misses.
LEMMA NotFoundMaps ==
    ASSUME IInv, NEW c \in Calls, Doing[c] = "asking", NotFound(c),
           capacity = 0 \/ (mode[c] = "get" /\ c[2] \notin Resident)
    PROVE  Memo!MemoNext
<1>1. UNCHANGED <<capacity, Table>>
  BY DEF NotFound, cacheVars, Table, Resident
<1>2. Kind[c] = "get" <=> mode[c] = "get"
  BY DEF Kind
<1>3. CASE mode[c] = "get"
  BY <1>1, <1>2, <1>3, ReturnOutside, ReturnMaps DEF NotFound
<1>4. CASE mode[c] # "get"
  <2>1. Doing' = [Doing EXCEPT ![c] = "making"]
    BY <1>4, GotoOutside DEF NotFound, Create, DoingOf, IInv
  <2>2. UNCHANGED <<Kind, fut>>
    BY <1>4 DEF NotFound, Kind
  <2> QED BY <1>1, <1>2, <1>4, <2>1, <2>2, BypassMaps
<1> QED BY <1>3, <1>4

\* A call that hits.
LEMMA FoundMaps ==
    ASSUME IInv, NEW c \in Calls, Doing[c] = "asking", Found(c),
           capacity # 0, c[2] \in Resident
    PROVE  Memo!MemoNext
<1>1. UNCHANGED <<capacity, Table, Kind>>
  BY DEF Found, Table, Resident, Kind
<1>2. Kind[c] = "forced" <=> mode[c] = "forced"
  BY DEF Kind
<1>3. CASE mode[c] = "forced"
  <2>1. Doing' = [Doing EXCEPT ![c] = "making"] /\ fut' = fut
    BY <1>3, GotoOutside DEF Found, Create, DoingOf, IInv
  <2> QED BY <1>1, <1>2, <1>3, <2>1, BypassMaps
<1>4. CASE mode[c] # "forced"
  <2>1. /\ Doing' = [Doing EXCEPT ![c] = "sharing"]
        /\ fut' = [fut EXCEPT ![c] = mapper[c[2]].value]
    BY <1>4, GotoOutside DEF Found, DoingOf, IInv
  <2> QED BY <1>1, <1>2, <1>4, <2>1, ShareMaps
<1> QED BY <1>3, <1>4

\* The section of remove_if_invalidated that erases.
LEMMA RemoveEndMaps ==
    ASSUME IInv, NEW c \in Calls, Doing[c] = "made", fut[c] = Failed,
           c[2] \in Resident, RemoveEnd(c)
    PROVE  Memo!MemoNext
<1>1. Table' = [k \in Resident \ {j \in Resident : j = c[2] /\ Table[j] = Failed} |->
                  Table[k]]
  BY DEF RemoveEnd, Erase, Kept, Table, Resident
<1> QED BY <1>1, ReturnOutside, WithdrawMaps DEF RemoveEnd

\* Every step of the cache is a step of the table, or none.
LEMMA StepMaps ==
    ASSUME IInv, [Next]_vars
    PROVE  [Memo!MemoNext]_(Memo!tableVars)
<1> USE CallIsPair
<1>1. ASSUME NEW c \in Calls, NEW m \in {"plain", "blob", "get"}, Start(c, m)
      PROVE  Memo!MemoNext
  <2>1. Doing[c] = "idle"
    BY <1>1 DEF Start, At, Doing, DoingOf
  <2>2. Doing' = [Doing EXCEPT ![c] = "asking"]
    BY <1>1, GotoOutside DEF Start, DoingOf, IInv
  <2>3. Kind' = [Kind EXCEPT ![c] = IF m = "blob" THEN "plain" ELSE m]
    BY <1>1 DEF Start, Kind, IInv, TypeOK
  <2>4. UNCHANGED <<capacity, Table, fut>>
    BY <1>1 DEF Start, cacheVars, Table, Resident
  <2> QED BY <2>1, <2>2, <2>3, <2>4, AskMaps
<1>2. ASSUME NEW c \in Calls, NEW j \in Keys, StartNested(c, j)
      PROVE  Memo!MemoNext
  <2> DEFINE d == <<c[1], j>>
  <2>1. d \in Calls /\ d # c /\ pc[c] = "create" /\ pc[d] = "idle"
    BY <1>2 DEF StartNested, At, Calls
  <2> HIDE DEF d
  <2>2. Doing[d] = "idle"
    BY <2>1 DEF Doing, DoingOf
  <2>3. \A x \in Calls : pc'[x] = IF x = d THEN "lookup"
                                   ELSE IF x = c THEN "nested" ELSE pc[x]
    BY <1>2, <2>1 DEF StartNested, IInv, TypeOK, d
  <2>4. Doing' = [Doing EXCEPT ![d] = "asking"]
    BY <2>1, <2>3 DEF Doing, DoingOf
  <2>5. PICK k \in {"plain", "forced"} : mode' = [mode EXCEPT ![d] = k]
    BY <1>2 DEF StartNested, d
  <2>6. Kind' = [Kind EXCEPT ![d] = k]
    BY <2>1, <2>5 DEF Kind, IInv, TypeOK
  <2>7. UNCHANGED <<capacity, Table, fut>>
    BY <1>2 DEF StartNested, cacheVars, Table, Resident
  <2> QED BY <2>1, <2>2, <2>4, <2>6, <2>7, AskMaps
<1>3. ASSUME NEW c \in Calls, Lookup(c)
      PROVE  [Memo!MemoNext]_(Memo!tableVars)
  <2>1. Doing[c] = "asking"
    BY <1>3 DEF Lookup, At, Doing, DoingOf
  <2>2. CASE /\ Goto(c, "insert")
             /\ UNCHANGED <<cacheVars, writer, mode, caller, todo, fut>>
    <3>1. Doing' = Doing
      <4>1. Doing' = [Doing EXCEPT ![c] = DoingOf("insert")]
        BY <2>2, GotoOutside DEF IInv
      <4>2. DoingOf("insert") = "asking"
        BY DEF DoingOf
      <4>3. Doing = [Doing EXCEPT ![c] = Doing[c]]
        BY DEF Doing
      <4> QED BY <2>1, <4>1, <4>2, <4>3
    <3>2. UNCHANGED <<capacity, Table, Kind, fut>>
      BY <2>2 DEF cacheVars, Table, Resident, Kind
    <3> QED BY <3>1, <3>2, StutterMaps
  <2> QED BY <1>3, <2>1, <2>2, NotFoundMaps, FoundMaps DEF Lookup
<1>4. ASSUME NEW c \in Calls, Insert(c)
      PROVE  Memo!MemoNext
  <2>1. Doing[c] = "asking" /\ Kind[c] # "get"
    BY <1>4 DEF Insert, At, Doing, DoingOf, Kind, IInv, ModeInv
  <2>2. CASE /\ capacity # 0 /\ c[2] \notin Resident
             /\ Add(c) /\ Create(c)
             /\ UNCHANGED <<capacity, writer, mode, caller, fut>>
    <3> DEFINE entry == [value |-> c, tid |-> c[1], ptr |-> c]
    <3>1. PICK S \in (IF Size = capacity THEN Victims(1, capacity) ELSE {{}}) :
             mapper' = [j \in (Resident \ S) \cup {c[2]} |->
                          IF j = c[2] THEN entry ELSE mapper[j]]
      BY <2>2 DEF Add
    <3>2. S \in SUBSET Resident
      BY <3>1 DEF Victims
    <3>3. Table' = [k \in (Resident \ S) \cup {c[2]} |->
                      IF k = c[2] THEN c ELSE Table[k]]
      BY <3>1 DEF Table, Resident
    <3>4. Doing' = [Doing EXCEPT ![c] = "making"]
      BY <2>2, GotoOutside DEF Create, DoingOf, IInv
    <3>5. UNCHANGED <<capacity, Kind, fut>>
      BY <2>2 DEF Kind
    <3> QED BY <2>1, <2>2, <3>2, <3>3, <3>4, <3>5, ReserveMaps
  <2> QED BY <1>4, <2>1, <2>2, NotFoundMaps, FoundMaps DEF Insert
<1>5. ASSUME NEW c \in Calls, Wait(c)
      PROVE  Memo!MemoNext
  <2>1. Doing[c] = "sharing"
    BY <1>5 DEF Wait, At, Doing, DoingOf
  <2>2. UNCHANGED <<capacity, Table>>
    BY <1>5 DEF Wait, cacheVars, Table, Resident
  <2> QED BY <1>5, <2>1, <2>2, ReturnOutside, ReturnMaps DEF Wait
<1>6. ASSUME NEW c \in Calls, CreateDone(c)
      PROVE  Memo!MemoNext
  <2>1. PICK o \in Objects \ Live : SetValue(c, o)
    BY <1>6 DEF CreateDone
  <2>2. Doing[c] = "making" /\ Doing' = [Doing EXCEPT ![c] = "made"]
    BY <1>6, GotoOutside DEF CreateDone, At, Doing, DoingOf, IInv
  <2>3. UNCHANGED <<capacity, Kind>> /\ o \in Values
    BY <1>6 DEF CreateDone, Kind, Values
  <2> QED BY <2>1, <2>2, <2>3, FinishMaps
<1>7. ASSUME NEW c \in Calls, CreateFail(c)
      PROVE  Memo!MemoNext
  <2>1. Doing[c] = "making" /\ Doing' = [Doing EXCEPT ![c] = "made"]
    BY <1>7, GotoOutside DEF CreateFail, At, Doing, DoingOf, IInv
  <2>2. UNCHANGED <<capacity, Kind>> /\ Failed \in Values /\ Failed \notin Objects
    BY <1>7, DistinctAssumption DEF CreateFail, Kind, Values
  <2> QED BY <1>7, <2>1, <2>2, FinishMaps DEF CreateFail
<1>8. ASSUME NEW c \in Calls, UpdateEntry(c)
      PROVE  Memo!MemoNext
  <2>1. Doing[c] = "made" /\ fut[c] \in Values
    BY <1>8 DEF UpdateEntry, At, Doing, DoingOf, IInv, FutInv, Values
  <2>2. UNCHANGED <<capacity, Table>>
    BY <1>8 DEF UpdateEntry, Table, Resident, IInv, TypeOK
  <2>3. Return(c, fut[c])
    BY <1>8 DEF UpdateEntry
  <2> QED BY <2>1, <2>2, <2>3, ReturnOutside, ReturnMaps
<1>9. ASSUME NEW c \in Calls, Remove(c)
      PROVE  [Memo!MemoNext]_(Memo!tableVars)
  <2>1. Doing[c] = "made" /\ fut[c] = Failed /\ Failed \in Values
    BY <1>9 DEF Remove, At, Doing, DoingOf, IInv, FutInv, Values
  <2>2. CASE Return(c, Failed) /\ UNCHANGED <<cacheVars, writer>>
    <3>1. UNCHANGED <<capacity, Table>>
      BY <2>2 DEF cacheVars, Table, Resident
    <3> QED BY <2>1, <2>2, <3>1, ReturnOutside, ReturnMaps
  <2>3. CASE Goto(c, "removing") /\ UNCHANGED <<cacheVars, mode, caller, todo, fut>>
    <3>1. Doing' = Doing
      <4>1. Doing' = [Doing EXCEPT ![c] = DoingOf("removing")]
        BY <2>3, GotoOutside DEF IInv
      <4>2. DoingOf("removing") = "made"
        BY DEF DoingOf
      <4>3. Doing = [Doing EXCEPT ![c] = Doing[c]]
        BY DEF Doing
      <4> QED BY <2>1, <4>1, <4>2, <4>3
    <3>2. UNCHANGED <<capacity, Table, Kind, fut>>
      BY <2>3 DEF cacheVars, Table, Resident, Kind
    <3> QED BY <3>1, <3>2, StutterMaps
  <2> QED BY <1>9, <2>1, <2>2, <2>3, RemoveEndMaps DEF Remove
<1>10. ASSUME NEW c \in Calls, Removing(c)
       PROVE  Memo!MemoNext
  <2>1. Doing[c] = "made" /\ fut[c] = Failed
    BY <1>10 DEF Removing, At, Doing, DoingOf, IInv, FutInv
  <2>2. c[2] \in Resident
    BY <1>10 DEF Removing, IInv, LockInv
  <2> QED BY <1>10, <2>1, <2>2, RemoveEndMaps DEF Removing
<1>11. ASSUME NEW n \in 0..MaxCapacity, SetCapacity(n)
       PROVE  Memo!MemoNext
  <2>1. PICK S \in (IF Size > n THEN Victims(Size - n, n) ELSE {{}}) : Erase(S)
    BY <1>11 DEF SetCapacity
  <2>2. S \in SUBSET Resident
    BY <2>1 DEF Victims
  <2>3. Table' = [k \in Resident \ S |-> Table[k]]
    BY <2>1 DEF Erase, Kept, Table, Resident
  <2>4. UNCHANGED <<Kind, Doing, fut>>
    BY <1>11 DEF SetCapacity, Kind, Doing
  <2> QED BY <2>2, <2>3, <2>4, ResizeMaps
<1>12. ASSUME NEW n \in 0..MaxCapacity, SetCapacityWithoutClearing(n)
       PROVE  Memo!MemoNext
  <2>1. Table' = [k \in Resident \ {} |-> Table[k]]
    BY <1>12 DEF SetCapacityWithoutClearing, Table, Resident
  <2>2. UNCHANGED <<Kind, Doing, fut>>
    BY <1>12 DEF SetCapacityWithoutClearing, Kind, Doing
  <2> QED BY <2>1, <2>2, ResizeMaps
<1>13. CASE UNCHANGED vars
  <2>1. UNCHANGED <<capacity, Table, Kind, Doing, fut>>
    BY <1>13 DEF vars, Table, Resident, Kind, Doing
  <2> QED BY <2>1, StutterMaps
<1> QED
  BY <1>1, <1>2, <1>3, <1>4, <1>5, <1>6, <1>7, <1>8, <1>9, <1>10, <1>11, <1>12,
     <1>13 DEF Next, Step

\* The cache implements the table of results that calls share: whatever locks,
\* evictions, timestamps and nested creations do, get_or_create and get behave
\* like calls on that table.
THEOREM CacheIsMemoTable == Spec => ImplementsMemoTable
<1>1. Init => Memo!MemoInit
  BY DEF Init, Memo!MemoInit, Resident, DoingOf
<1>2. IInv /\ [Next]_vars => [Memo!MemoNext]_(Memo!tableVars)
  BY StepMaps
<1> QED BY <1>1, <1>2, Invariance, PTL DEF Spec, ImplementsMemoTable, Memo!MemoSpec
=============================================================================
