------------------------- MODULE ReducerStepsProofs --------------------------
(***************************************************************************)
(* Theorems on the barrier and lemmas on the steps of the running reducer, *)
(* for any number of threads, rounds and executions.  The barrier          *)
(* separates rounds: its invariant relates the counter to the set of       *)
(* threads that have arrived and wait, and says that all threads have been *)
(* released from the same number of barriers.  The invariant of the        *)
(* running reducer relates what each thread has put in memory to where it  *)
(* is in the execution; every step keeps it, in the use of a reducer whose *)
(* layout is as UseFacts says.                                             *)
(***************************************************************************)
EXTENDS CpuReducer, FiniteSetTheorems, TLAPS


-----------------------------------------------------------------------------
(* The barrier.                                                             *)

\* The sense has changed since t saved it.
Released(t) == pc[t] = "spin" /\ tmp[t] # sense

\* Threads counted in the barrier in progress.
Arrived == {t \in Threads : pc[t] = "reset" \/ (pc[t] = "spin" /\ tmp[t] = sense)}

\* The barriers that have released t.
Passed(t) == IF Released(t) THEN round[t] + 1 ELSE round[t]

\* A thread inside the barrier in progress holds the current sense.
SenseInv ==
    \A t \in Threads : pc[t] \in {"arrive", "reset", "notify"} => tmp[t] = sense

\* The last thread to arrive finds all the others spinning.
LastInv ==
    \A t \in Threads : pc[t] \in {"reset", "notify"} =>
        \A u \in Threads \ {t} : pc[u] = "spin" /\ tmp[u] = sense

\* The counter is the number of threads that have arrived, until it is reset.
CtrInv ==
    IF \E t \in Threads : pc[t] = "notify"
    THEN ctr = 0
    ELSE ctr = Cardinality(Arrived)

PassedInv == \A t, u \in Threads : Passed(t) = Passed(u)

\* A thread enters a barrier only while it has rounds left.
RoundInv == \A t \in Threads : pc[t] # "work" => round[t] < MaxRounds

IInv == TypeOK /\ SenseInv /\ LastInv /\ CtrInv /\ PassedInv /\ RoundInv

\* The number of threads is a natural number, and a subset of the threads of
\* that size is all of them.
LEMMA ThreadsFinite ==
    /\ nthr \in Nat \ {0}
    /\ \A S \in SUBSET Threads : Cardinality(S) \in 0..nthr
    /\ \A S \in SUBSET Threads : Cardinality(S) = nthr => S = Threads
<1>1. IsFiniteSet(Threads) /\ Threads # {}
  BY ThreadsAssumption, Zenon
<1>2. nthr \in Nat /\ nthr # 0
  BY <1>1, FS_CardinalityType, FS_EmptySet, Zenon DEF nthr
<1>3. ASSUME NEW S \in SUBSET Threads
      PROVE  Cardinality(S) \in 0..nthr /\ (Cardinality(S) = nthr => S = Threads)
  <2>1. IsFiniteSet(S) /\ Cardinality(S) <= nthr
    BY <1>1, FS_Subset, Zenon DEF nthr
  <2>2. Cardinality(S) \in Nat
    BY <2>1, FS_CardinalityType, Zenon
  <2>3. Cardinality(S) = nthr => S = Threads
    BY <1>1, FS_Subset, Zenon DEF nthr
  <2> QED BY <1>2, <2>1, <2>2, <2>3
<1> QED BY <1>2, <1>3

\* Counting one more thread adds one to the number counted.
LEMMA CountOne ==
    ASSUME NEW S \in SUBSET Threads, NEW t \in Threads \ S
    PROVE  Cardinality(S \cup {t}) = Cardinality(S) + 1
<1>1. IsFiniteSet(S)
  BY ThreadsAssumption, FS_Subset, Zenon
<1> QED BY <1>1, FS_AddElement

\* The initial state satisfies the invariant: nobody has arrived.
LEMMA InitInv == Init => IInv
<1> SUFFICES ASSUME Init PROVE IInv
  BY Zenon
<1>1. TypeOK
  BY ThreadsFinite, RoundsAssumption DEF Init, TypeOK
<1>2. Arrived = {}
  BY Zenon DEF Init, Arrived
<1>3. CtrInv
  BY <1>2, FS_EmptySet, Zenon DEF Init, CtrInv
<1>4. SenseInv /\ LastInv /\ RoundInv /\ PassedInv
  BY Zenon DEF Init, SenseInv, LastInv, RoundInv, PassedInv, Passed, Released
<1> QED BY <1>1, <1>3, <1>4 DEF IInv

\* Entering the barrier, or passing it alone, keeps the invariant.
LEMMA EnterInv == ASSUME IInv, NEW t \in Threads, Enter(t) PROVE IInv'
<1> USE DEF IInv
<1>0. nthr \in Nat /\ MaxRounds \in Nat
  BY ThreadsFinite, RoundsAssumption, Zenon
<1>1. TypeOK'
  BY <1>0 DEF TypeOK, Enter, Leave, Goto
<1>2. CASE nthr > 1
  <2>1. /\ pc' = [pc EXCEPT ![t] = "take"] /\ pc[t] = "work"
        /\ round[t] < MaxRounds /\ UNCHANGED <<ctr, sense, tmp, round>>
    BY <1>0, <1>2 DEF Enter, Goto
  <2>2. Arrived' = Arrived
    BY <2>1, Zenon DEF Arrived, TypeOK
  <2>3. CtrInv'
    BY <2>1, <2>2, Zenon DEF CtrInv, TypeOK
  <2>4. SenseInv' /\ LastInv' /\ RoundInv'
    BY <2>1, Zenon DEF SenseInv, LastInv, RoundInv, TypeOK
  <2>5. PassedInv'
    BY <2>1, Zenon DEF PassedInv, Passed, Released, TypeOK
  <2> QED BY <1>1, <2>3, <2>4, <2>5
<1>3. CASE nthr <= 1
  <2>1. \A u \in Threads : u = t
    <3> SUFFICES ASSUME NEW u \in Threads, u # t PROVE FALSE
      BY Zenon
    <3>1. Cardinality({t}) = 1
      BY FS_Singleton, Zenon
    <3>2. Cardinality({t} \cup {u}) = 2
      BY <3>1, CountOne
    <3> QED BY <1>0, <1>3, <3>2, ThreadsFinite
  <2>2. /\ pc' = pc /\ pc[t] = "work"
        /\ round' = [round EXCEPT ![t] = @ + 1] /\ UNCHANGED <<ctr, sense, tmp>>
    BY <1>3, Zenon DEF Enter, Leave, Goto, TypeOK
  <2>3. Arrived' = Arrived
    BY <2>2, Zenon DEF Arrived
  <2>4. CtrInv' /\ SenseInv' /\ LastInv'
    BY <2>2, <2>3, Zenon DEF CtrInv, SenseInv, LastInv
  <2>5. RoundInv' /\ PassedInv'
    BY <2>1, <2>2, Zenon DEF RoundInv, PassedInv
  <2> QED BY <1>1, <2>4, <2>5
<1> QED BY <1>0, <1>2, <1>3

\* Saving the sense keeps the invariant.
LEMMA TakeInv == ASSUME IInv, NEW t \in Threads, TakeSense(t) PROVE IInv'
<1> USE DEF IInv
<1>1. /\ pc[t] = "take" /\ pc' = [pc EXCEPT ![t] = "arrive"]
      /\ tmp' = [tmp EXCEPT ![t] = sense] /\ UNCHANGED <<ctr, sense, round>>
  BY Zenon DEF TakeSense, Goto
<1>2. TypeOK'
  BY <1>1, Zenon DEF TypeOK
<1>3. Arrived' = Arrived
  BY <1>1, Zenon DEF Arrived, TypeOK
<1>4. CtrInv'
  BY <1>1, <1>3, Zenon DEF CtrInv, TypeOK
<1>5. SenseInv' /\ LastInv' /\ RoundInv'
  BY <1>1 DEF SenseInv, LastInv, RoundInv, TypeOK
<1>6. PassedInv'
  BY <1>1 DEF PassedInv, Passed, Released, TypeOK
<1> QED BY <1>2, <1>4, <1>5, <1>6

\* An arrival is counted; the last one finds everyone else waiting.
LEMMA ArriveInv == ASSUME IInv, NEW t \in Threads, Arrive(t) PROVE IInv'
<1> USE DEF IInv
<1>0. nthr \in Nat /\ MaxRounds \in Nat
  BY ThreadsFinite, RoundsAssumption, Zenon
<1>1. /\ pc[t] = "arrive" /\ ctr' = ctr + 1 /\ UNCHANGED <<sense, tmp, round>>
      /\ pc' = [pc EXCEPT ![t] = IF ctr + 1 = nthr THEN "reset" ELSE "spin"]
  BY Zenon DEF Arrive, Goto
<1>2. tmp[t] = sense /\ \A u \in Threads : pc[u] # "notify" /\ pc[u] # "reset"
  BY <1>1, Zenon DEF SenseInv, LastInv
<1>3. t \notin Arrived /\ Arrived' = Arrived \cup {t}
  BY <1>1, <1>2, Zenon DEF Arrived, TypeOK
<1>4. ctr = Cardinality(Arrived) /\ Arrived \in SUBSET Threads
  BY <1>2, Zenon DEF CtrInv, Arrived
<1>5. ctr + 1 = Cardinality(Arrived')
  BY <1>3, <1>4, CountOne, Zenon
<1>6. ctr + 1 \in 0..nthr /\ (ctr + 1 = nthr => Arrived' = Threads)
  <2>1. Arrived \cup {t} \in SUBSET Threads
    BY <1>4, Zenon
  <2> QED BY <2>1, <1>3, <1>5, ThreadsFinite
<1>7. TypeOK'
  BY <1>1, <1>6, Zenon DEF TypeOK
<1>8. CtrInv'
  <2>1. \A u \in Threads : pc'[u] # "notify"
    BY <1>1, <1>2, Zenon DEF TypeOK
  <2> QED BY <1>1, <1>5, <2>1 DEF CtrInv
<1>9. LastInv'
  <2> SUFFICES ASSUME NEW u \in Threads, pc'[u] \in {"reset", "notify"},
                      NEW v \in Threads \ {u}
               PROVE  pc'[v] = "spin" /\ tmp'[v] = sense'
    BY Zenon DEF LastInv
  <2>1. u = t /\ ctr + 1 = nthr
    BY <1>1, <1>2, Zenon DEF TypeOK
  <2>2. v \in Arrived
    BY <2>1, <1>3, <1>6, Zenon
  <2> QED BY <2>1, <2>2, <1>1, <1>2 DEF Arrived, TypeOK
<1>10. SenseInv' /\ RoundInv'
  BY <1>1, <1>2, Zenon DEF SenseInv, RoundInv, TypeOK
<1>11. PassedInv'
  BY <1>1, <1>2, Zenon DEF PassedInv, Passed, Released, TypeOK
<1> QED BY <1>7, <1>8, <1>9, <1>10, <1>11

\* The last thread resets the counter; nobody else can count meanwhile.
LEMMA ResetInv == ASSUME IInv, NEW t \in Threads, Reset(t) PROVE IInv'
<1> USE DEF IInv
<1>0. nthr \in Nat
  BY ThreadsFinite, Zenon
<1>1. /\ pc[t] = "reset" /\ ctr' = 0 /\ UNCHANGED <<sense, tmp, round>>
      /\ pc' = [pc EXCEPT ![t] = "notify"]
  BY Zenon DEF Reset, Goto
<1>2. TypeOK'
  BY <1>0, <1>1 DEF TypeOK
<1>3. CtrInv'
  BY <1>1, Zenon DEF CtrInv, TypeOK
<1>4. SenseInv' /\ RoundInv'
  BY <1>1, Zenon DEF SenseInv, RoundInv, TypeOK
<1>5. LastInv'
  BY <1>1, Zenon DEF LastInv, TypeOK
<1>6. PassedInv'
  BY <1>1, Zenon DEF PassedInv, Passed, Released, TypeOK
<1> QED BY <1>2, <1>3, <1>4, <1>5, <1>6

\* The new sense releases all the other threads at once.
LEMMA NotifyInv == ASSUME IInv, NEW t \in Threads, Notify(t) PROVE IInv'
<1> USE DEF IInv
<1>0. nthr \in Nat /\ MaxRounds \in Nat
  BY ThreadsFinite, RoundsAssumption, Zenon
<1>1. /\ pc[t] = "notify" /\ sense' = 1 - tmp[t] /\ UNCHANGED <<ctr, tmp>>
      /\ pc' = [pc EXCEPT ![t] = "work"]
      /\ round' = [round EXCEPT ![t] = @ + 1]
  BY Zenon DEF Notify, Leave, Goto
<1>2. /\ tmp[t] = sense /\ ctr = 0 /\ round[t] < MaxRounds
      /\ \A u \in Threads \ {t} : pc[u] = "spin" /\ tmp[u] = sense
  BY <1>1, Zenon DEF SenseInv, CtrInv, LastInv, RoundInv
<1>3. sense' \in {0, 1} /\ sense' # sense
  BY <1>1, <1>2 DEF TypeOK
<1>4. TypeOK'
  BY <1>0, <1>1, <1>2, <1>3 DEF TypeOK
<1>5. \A u \in Threads : pc'[u] = "work" \/ Released(u)'
  BY <1>1, <1>2, <1>3 DEF Released, TypeOK
<1>6. Arrived' = {}
  BY <1>5, Zenon DEF Arrived, Released
<1>7. CtrInv'
  BY <1>1, <1>2, <1>5, <1>6, FS_EmptySet, Zenon DEF CtrInv, Released
<1>8. SenseInv' /\ LastInv'
  BY <1>5, Zenon DEF SenseInv, LastInv, Released
<1>9. RoundInv'
  BY <1>1, <1>2, Zenon DEF RoundInv, TypeOK
<1>10. PassedInv'
  <2>1. \A u \in Threads \ {t} : Passed(u)' = round[u] + 1 /\ Passed(u) = round[u]
    BY <1>1, <1>2, <1>3, Zenon DEF Passed, Released, TypeOK
  <2>2. Passed(t)' = round[t] + 1 /\ Passed(t) = round[t]
    BY <1>1, Zenon DEF Passed, Released, TypeOK
  <2> QED BY <2>1, <2>2 DEF PassedInv
<1> QED BY <1>4, <1>7, <1>8, <1>9, <1>10

\* A released thread leaves; it is no longer counted anyway.
LEMMA SpinInv == ASSUME IInv, NEW t \in Threads, Spin(t) PROVE IInv'
<1> USE DEF IInv
<1>0. nthr \in Nat /\ MaxRounds \in Nat
  BY ThreadsFinite, RoundsAssumption, Zenon
<1>1. /\ pc[t] = "spin" /\ tmp[t] # sense /\ UNCHANGED <<ctr, sense, tmp>>
      /\ pc' = [pc EXCEPT ![t] = "work"]
      /\ round' = [round EXCEPT ![t] = @ + 1]
  BY Zenon DEF Spin, Leave, Goto
<1>2. round[t] < MaxRounds /\ \A u \in Threads : pc[u] \notin {"reset", "notify"}
  BY <1>1, Zenon DEF RoundInv, LastInv
<1>3. TypeOK'
  BY <1>0, <1>1, <1>2 DEF TypeOK
<1>4. Arrived' = Arrived
  BY <1>1, <1>2, Zenon DEF Arrived, TypeOK
<1>5. CtrInv'
  BY <1>1, <1>2, <1>4 DEF CtrInv, TypeOK
<1>6. SenseInv' /\ LastInv' /\ RoundInv'
  BY <1>1, <1>2, Zenon DEF SenseInv, LastInv, RoundInv, TypeOK
<1>7. PassedInv'
  BY <1>1 DEF PassedInv, Passed, Released, TypeOK
<1> QED BY <1>3, <1>5, <1>6, <1>7

\* Every behaviour of the barrier satisfies the inductive invariant.
THEOREM BarrierInvariance == Spec => []IInv
<1>1. IInv /\ [Next]_vars => IInv'
  <2> SUFFICES ASSUME IInv, [Next]_vars PROVE IInv'
    BY Zenon
  <2>1. ASSUME NEW t \in Threads, Step(t) PROVE IInv'
    BY <2>1, EnterInv, TakeInv, ArriveInv, ResetInv, NotifyInv, SpinInv DEF Step
  <2>2. CASE UNCHANGED vars
    BY <2>2 DEF IInv, TypeOK, SenseInv, LastInv, CtrInv, PassedInv, RoundInv,
                Passed, Released, Arrived, vars
  <2> QED BY <2>1, <2>2 DEF Next, Done
<1> QED BY <1>1, InitInv, PTL DEF Spec

\* The arrival counter stays between 0 and the number of threads.
THEOREM BarrierTypeCorrect == Spec => []TypeOK
<1>1. IInv => TypeOK
  BY Zenon DEF IInv
<1> QED BY <1>1, BarrierInvariance, PTL

\* No thread leaves a barrier before every thread has arrived at it, however
\* many threads there are and however often they meet.
THEOREM BarrierSeparatesRounds == Spec => []NoEarlyExit
<1>1. IInv => NoEarlyExit
  <2> SUFFICES ASSUME IInv, NEW t \in Threads, NEW u \in Threads,
                      round[u] < round[t]
               PROVE  round[u] + 1 = round[t] /\ pc[u] = "spin"
    BY Zenon DEF NoEarlyExit
  <2>1. Passed(t) = Passed(u) /\ round[t] \in Nat /\ round[u] \in Nat
    BY DEF IInv, PassedInv, TypeOK
  <2> QED BY <2>1 DEF Passed, Released
<1> QED BY <1>1, BarrierInvariance, PTL

-----------------------------------------------------------------------------
(* The sum of different terms.                                              *)

\* Sums of different terms.
LEMMA TermsAdd ==
    ASSUME NEW n, NEW V, NEW W, V \cap W = {}
    PROVE  Terms(n, V) (+) Terms(n, W) = Terms(n, V \cup W)
<1> DEFINE A == {<<n, r>> : r \in V}
           B == {<<n, r>> : r \in W}
           C == {<<n, r>> : r \in V \cup W}
<1>1. A \cap B = {}
  OBVIOUS
<1>2. C = A \cup B
  BY Zenon
<1>3. /\ Terms(n, V) = [e \in A |-> 1] /\ Terms(n, W) = [e \in B |-> 1]
      /\ Terms(n, V \cup W) = [e \in C |-> 1]
  BY Zenon DEF Terms, SetToBag
<1> HIDE DEF A, B, C
<1>4. [e \in A |-> 1] (+) [e \in B |-> 1] = [e \in A \cup B |-> 1]
  BY <1>1 DEF (+)
<1> QED
  BY <1>2, <1>3, <1>4, Zenon

\* The sum of no terms, which the driver starts from with nullify_dst.
LEMMA NoTerms == ASSUME NEW n PROVE EmptyBag = Terms(n, {})
BY Zenon DEF EmptyBag, Terms, SetToBag

\* The sum of src that the reduction driver adds to base.
SumUp(base, src) == FoldFunction(LAMBDA x, y : x (+) y, base, src)

\* The equation of the fold that the reduction driver is.
Folds(f, base, src) ==
    f = [s \in SUBSET (DOMAIN src) |->
            IF s = {} THEN base
            ELSE src[CHOOSE x \in s : TRUE] (+) f[s \ {CHOOSE x \in s : TRUE}]]

\* There is one function that satisfies it, as a smallest set on which two
\* functions differ would not be one.
LEMMA FoldUnique ==
    ASSUME NEW base, NEW src, IsFiniteSet(DOMAIN src), NEW f, NEW g,
           Folds(f, base, src), Folds(g, base, src)
    PROVE  f = g
<1> DEFINE S == DOMAIN src
           T == {s \in SUBSET S : f[s] # g[s]}
           c(s) == CHOOSE x \in s : TRUE
<1>1. T = {}
  <2> SUFFICES ASSUME T # {} PROVE FALSE
    BY Zenon
  <2>1. IsWellFoundedOn(StrictSubsetOrdering(S), FiniteSubsetsOf(S))
    BY FS_StrictSubsetOrderingWellFounded, Zenon
  <2>2. T \subseteq FiniteSubsetsOf(S)
    BY FS_FiniteSubsetsOfFinite, Zenon
  <2>3. \E s \in T : \A r \in T : ~(<<r, s>> \in StrictSubsetOrdering(S))
    <3> HIDE DEF T
    <3> QED
      BY <2>1, <2>2, WFMin, Zenon
  <2>4. PICK s \in T : \A r \in T : ~(<<r, s>> \in StrictSubsetOrdering(S))
    BY <2>3, Zenon
  <2>5. s # {}
    BY Zenon DEF Folds
  <2>6. c(s) \in s
    BY <2>5, Zenon
  <2>7. /\ f[s] = src[c(s)] (+) f[s \ {c(s)}]
        /\ g[s] = src[c(s)] (+) g[s \ {c(s)}]
    BY <2>5, Zenon DEF Folds
  <2> HIDE DEF c
  <2>8. s \ {c(s)} \notin T
    <3> DEFINE r == s \ {c(s)}
    <3>1. r \in SUBSET S /\ s \in SUBSET S /\ r \subseteq s /\ r # s
      BY <2>6, Zenon
    <3> HIDE DEF r
    <3>2. <<r, s>> \in StrictSubsetOrdering(S)
      BY <3>1, Zenon DEF StrictSubsetOrdering
    <3> QED
      BY <2>4, <3>2, Zenon DEF r
  <2>9. s \ {c(s)} \in SUBSET S
    BY Zenon
  <2> QED
    BY <2>7, <2>8, <2>9, Zenon
<1>2. f = [s \in SUBSET S |-> f[s]] /\ g = [s \in SUBSET S |-> g[s]]
  BY Zenon DEF Folds
<1> QED
  BY <1>1, <1>2, Zenon

\* The driver adds up partial results of different terms, in any order.
LEMMA FoldTerms ==
    ASSUME NEW n, NEW V0, NEW K, IsFiniteSet(K), NEW V,
           \A k \in K : V[k] \cap V0 = {},
           \A k, l \in K : k # l => V[k] \cap V[l] = {},
           NEW src, src = [k \in K |-> Terms(n, V[k])]
    PROVE  SumUp(Terms(n, V0), src) = Terms(n, V0 \cup UNION {V[k] : k \in K})
<1> DEFINE base == Terms(n, V0)
           iter == CHOOSE f : Folds(f, base, src)
           U(s) == V0 \cup UNION {V[k] : k \in s}
           h == [s \in SUBSET K |-> Terms(n, U(s))]
           c(s) == CHOOSE x \in s : TRUE
<1>1. SumUp(base, src) = iter[DOMAIN src]
  BY Zenon DEF SumUp, FoldFunction, FoldFunctionOnSet, MapThenFoldSet, Folds
<1>2. DOMAIN src = K
  BY Zenon
<1>3. h[{}] = base
  <2>1. U({}) = V0
    BY Zenon
  <2> HIDE DEF U
  <2> QED
    BY <2>1, Zenon
<1>4. ASSUME NEW s \in SUBSET K, s # {}
      PROVE  h[s] = src[c(s)] (+) h[s \ {c(s)}]
  <2>1. c(s) \in s
    BY <1>4, Zenon
  <2> HIDE DEF c
  <2>2. V[c(s)] \cap U(s \ {c(s)}) = {} /\ V[c(s)] \cup U(s \ {c(s)}) = U(s)
    BY <2>1, Zenon
  <2> HIDE DEF U
  <2>3. Terms(n, V[c(s)]) (+) Terms(n, U(s \ {c(s)})) = Terms(n, U(s))
    <3>1. PICK A, B : A = V[c(s)] /\ B = U(s \ {c(s)})
      BY Zenon
    <3>2. A \cap B = {} /\ A \cup B = U(s)
      BY ONLY <2>2, <3>1, Zenon
    <3>3. Terms(n, A) (+) Terms(n, B) = Terms(n, A \cup B)
      BY ONLY <3>2, TermsAdd, Zenon
    <3> QED
      BY ONLY <3>1, <3>2, <3>3, Zenon
  <2>4. s \ {c(s)} \in SUBSET K /\ src[c(s)] = Terms(n, V[c(s)])
    BY <2>1, Zenon
  <2> QED
    BY <2>3, <2>4, Zenon
<1>5. Folds(h, base, src)
  <2> HIDE DEF base
  <2>1. h = [s \in SUBSET K |-> h[s]]
    BY Zenon
  <2> HIDE DEF h
  <2>2. ASSUME NEW s \in SUBSET K
        PROVE  h[s] = IF s = {} THEN base ELSE src[c(s)] (+) h[s \ {c(s)}]
    BY <1>3, <1>4, Zenon
  <2> QED
    BY <1>2, <2>1, <2>2, Zenon DEF Folds
<1> HIDE DEF h
<1>6. Folds(iter, base, src)
  BY <1>5, Zenon
<1>7. iter = h
  <2> HIDE DEF iter, base
  <2> QED
    BY <1>2, <1>5, <1>6, FoldUnique, Zenon
<1>8. h[K] = Terms(n, U(K))
  BY Zenon DEF h
<1> QED
  BY <1>1, <1>2, <1>7, <1>8, Zenon

-----------------------------------------------------------------------------
(* The invariant of the running reducer.                                    *)

\* What is known of the use of a reducer.
UseFacts ==
    /\ WellWorked(use, Threads) /\ WellPlaced(use, Threads) /\ SharedOut(use, Threads)
    /\ use.kind \in {"1d", "2d"} /\ use.sync \in BOOLEAN
    /\ nthr \in Nat /\ nthr > 1 /\ use.g.nthr_per_group = nthr

\* It is known of every reducer in use.
UseInv == IsReducer => UseFacts

\* Where the threads of a reducer can be.
Stages == {"compute", "reduce", "done"} \cup (IF use.sync THEN {"meet"} ELSE {"joined"})

\* A thread in reduce_nolock, or past it, has left the barrier of this execution,
\* and then no thread is still computing.
StageInv ==
    /\ stage \in [Threads -> Stages]
    /\ \A t \in Threads : stage[t] # "meet" => pc[t] = "work"
    /\ \A t \in Threads :
            round[t] = IF stage[t] \in {"reduce", "done"} THEN exec ELSE exec - 1
    /\ \A t, v \in Threads : stage[t] \in {"reduce", "done"} => stage[v] # "compute"

\* What a thread has put in the scratchpad stays there until the next execution,
\* and so does what the master has put in an element of the result until it is
\* summed up.
MemoryInv ==
    /\ DOMAIN dst = 0..(DstSize(use) - 1) /\ DOMAIN space = 0..(SpaceSize(use) - 1)
    /\ \A t \in Threads : stage[t] # "compute" /\ ~OnResult(use, t) =>
            \A e \in Elems(use) : space[use.ptr[t].off + e] = Terms(exec, Work(use, t))
    /\ \A t \in Threads : stage[t] = "done" =>
            \A d \in DOMAIN use.sums[t] : dst[d] = Terms(exec, 0..(use.b.reduction_size - 1))
    /\ \A v \in Threads : stage[v] # "compute" /\ OnResult(use, v) =>
            \A t \in Threads : stage[t] # "done" =>
                \A d \in DOMAIN use.sums[t] : dst[d] = Terms(exec, Work(use, v))
    /\ \A d \in DOMAIN dst \ DOMAIN use.own : dst[d] = Stale

\* The barrier's own invariant holds throughout.
ReducerInv ==
    /\ IInv
    /\ exec \in 1..MaxRounds
    /\ IF IsReducer THEN StageInv /\ MemoryInv ELSE stage = [t \in Threads |-> "meet"]

\* The barrier's invariant is about its own variables.
LEMMA BarrierStays == ASSUME IInv, UNCHANGED vars PROVE IInv'
  BY DEF IInv, TypeOK, SenseInv, LastInv, CtrInv, PassedInv, RoundInv,
         Passed, Released, Arrived, vars

\* A step of the barrier keeps it.
LEMMA BarrierStep == ASSUME IInv, NEW t \in Threads, Step(t) PROVE IInv'
  BY EnterInv, TakeInv, ArriveInv, ResetInv, NotifyInv, SpinInv DEF Step

\* With nobody in the barrier and as many rounds for all, it is as new.
LEMMA BarrierIdle ==
    ASSUME pc' = [t \in Threads |-> "work"], ctr' = 0, sense' \in {0, 1},
           tmp' \in [Threads -> {0, 1}], NEW n \in 0..MaxRounds,
           round' = [t \in Threads |-> n]
    PROVE  IInv'
<1>1. TypeOK'
  BY ThreadsFinite DEF TypeOK
<1>2. Arrived' = {}
  BY Zenon DEF Arrived
<1>3. CtrInv'
  BY <1>2, FS_EmptySet, Zenon DEF CtrInv
<1>4. SenseInv' /\ LastInv' /\ RoundInv'
  BY Zenon DEF SenseInv, LastInv, RoundInv
<1>5. PassedInv'
  BY Zenon DEF PassedInv, Passed, Released
<1> QED
  BY <1>1, <1>3, <1>4, <1>5, Zenon DEF IInv

\* Before the first execution nobody has computed, and the memory is stale.
LEMMA ReducerInitInv == ASSUME ReducerInit PROVE ReducerInv
<1>1. IInv
  BY InitInv, Zenon DEF ReducerInit
<1>2. exec = 1 /\ exec \in 1..MaxRounds
  BY RoundsAssumption DEF ReducerInit
<1>3. CASE ~IsReducer
  <2>1. stage = [t \in Threads |-> "meet"]
    BY <1>3, Zenon DEF ReducerInit
  <2> QED
    BY <1>1, <1>2, <1>3, <2>1, Zenon DEF ReducerInv
<1>4. CASE IsReducer
  <2>1. /\ stage = [t \in Threads |-> "compute"]
        /\ dst = [e \in 0..(DstSize(use) - 1) |-> Stale]
        /\ space = [e \in 0..(SpaceSize(use) - 1) |-> Stale]
        /\ pc = [t \in Threads |-> "work"] /\ round = [t \in Threads |-> 0]
    BY <1>4, Zenon DEF ReducerInit, Init
  <2>2. StageInv
    BY <1>2, <2>1 DEF StageInv, Stages
  <2>3. MemoryInv
    BY <2>1, Zenon DEF MemoryInv
  <2> QED
    BY <1>1, <1>2, <1>4, <2>2, <2>3, Zenon DEF ReducerInv
<1> QED
  BY <1>3, <1>4, Zenon

\* A thread that has computed has its terms in its own place, and has disturbed
\* nobody else's.
LEMMA ComputeInv ==
    ASSUME UseInv, ReducerInv, NEW t \in Threads, Compute(t)
    PROVE  ReducerInv'
<1> DEFINE T == Terms(exec, Work(use, t))
           next == IF use.sync THEN "meet" ELSE "joined"
           Put(mem) == [x \in DOMAIN mem |->
                            IF x - use.ptr[t].off \in Elems(use) THEN T ELSE mem[x]]
<1>1. IsReducer /\ stage[t] = "compute"
  BY Zenon DEF Compute, ReducerInv
<1>2. UseFacts /\ StageInv /\ MemoryInv /\ IInv /\ exec \in 1..MaxRounds
  BY <1>1, Zenon DEF ReducerInv, UseInv
<1>3. /\ stage' = [stage EXCEPT ![t] = next]
      /\ use' = use /\ exec' = exec /\ UNCHANGED vars
      /\ UNCHANGED <<ctr, sense, pc, tmp, round>>
  BY Zenon DEF Compute, vars
<1>4. /\ Balance211(use.b.reduction_size, use.g.nthr_per_group, t)[1]
            # Balance211(use.b.reduction_size, use.g.nthr_per_group, t)[2]
      /\ use.ptr[t].mem = IF OnResult(use, t) THEN "dst" ELSE "space"
  BY <1>2, Zenon DEF UseFacts, WellWorked, WellPlaced
<1>5. /\ dst' = IF use.ptr[t].mem = "dst" THEN Put(dst) ELSE dst
      /\ space' = IF use.ptr[t].mem = "space" THEN Put(space) ELSE space
  BY <1>4, Zenon DEF Compute, Elems, Work
<1>6. StageInv'
  BY <1>1, <1>2, <1>3, Zenon DEF StageInv, Stages
<1>7. IInv'
  BY <1>2, <1>3, BarrierStays, Zenon
<1>8. \A v \in Threads : /\ v # t => stage'[v] = stage[v]
                         /\ stage[v] # "done" /\ stage'[v] # "done"
                         /\ stage'[v] # "compute" => v = t \/ stage[v] # "compute"
  BY <1>1, <1>2, <1>3, Zenon DEF StageInv
<1> HIDE DEF T
<1>9. CASE OnResult(use, t)
  <2>1. dst' = Put(dst) /\ space' = space
    BY <1>4, <1>5, <1>9
  <2>2. DOMAIN dst' = 0..(DstSize(use) - 1) /\ DOMAIN space' = 0..(SpaceSize(use) - 1)
    BY <1>2, <2>1, Zenon DEF MemoryInv
  <2>3. \A d \in 0..(DstSize(use) - 1) :
            dst'[d] = IF d \in DOMAIN use.own THEN T ELSE dst[d]
    BY <1>2, <1>9, <2>1, Zenon DEF MemoryInv, UseFacts, WellPlaced
  <2>4. \A v \in Threads : stage'[v] # "compute" /\ ~OnResult(use, v) =>
            \A e \in Elems(use) : space'[use.ptr[v].off + e] = Terms(exec, Work(use, v))
    BY <1>2, <1>8, <1>9, <2>1 DEF MemoryInv
  <2>5. \A v \in Threads : OnResult(use, v) =>
            \A w \in Threads : \A d \in DOMAIN use.sums[w] : dst'[d] = Terms(exec, Work(use, v))
    <3>1. \A v \in Threads : OnResult(use, v) => v = t
      BY <1>9, Zenon DEF OnResult
    <3>2. \A w \in Threads : \A d \in DOMAIN use.sums[w] :
                d \in DOMAIN use.own /\ d \in 0..(DstSize(use) - 1)
      BY <1>2, Zenon DEF UseFacts, SharedOut
    <3> QED
      BY <2>3, <3>1, <3>2 DEF T
  <2>6. \A d \in DOMAIN dst' \ DOMAIN use.own : dst'[d] = Stale
    BY <1>2, <2>2, <2>3, Zenon DEF MemoryInv
  <2>7. MemoryInv'
    BY <1>3, <1>8, <2>2, <2>4, <2>5, <2>6, Zenon DEF MemoryInv
  <2> QED
    BY <1>1, <1>2, <1>3, <1>6, <1>7, <2>7 DEF ReducerInv, IsReducer
<1>10. CASE ~OnResult(use, t)
  <2>1. dst' = dst /\ space' = Put(space)
    BY <1>4, <1>5, <1>10, Zenon
  <2>2. DOMAIN dst' = 0..(DstSize(use) - 1) /\ DOMAIN space' = 0..(SpaceSize(use) - 1)
    BY <1>2, <2>1, Zenon DEF MemoryInv
  <2>3. ASSUME NEW v \in Threads, ~OnResult(use, v), NEW e \in Elems(use)
        PROVE  space'[use.ptr[v].off + e]
                = IF v = t THEN T ELSE space[use.ptr[v].off + e]
    <3>1. use.ptr[v].off + e \in 0..(SpaceSize(use) - 1)
      BY <1>2, <2>3, Zenon DEF UseFacts, WellPlaced
    <3>2. (use.ptr[v].off + e) - use.ptr[t].off \in Elems(use) <=> t = v
      BY <1>2, <1>10, <2>3 DEF UseFacts, WellPlaced
    <3>3. PICK x : x = use.ptr[v].off + e
      BY Zenon
    <3>4. x \in DOMAIN space /\ (x - use.ptr[t].off \in Elems(use) <=> t = v)
      BY <1>2, <3>1, <3>2, <3>3, Zenon DEF MemoryInv
    <3>5. space'[x] = IF x - use.ptr[t].off \in Elems(use) THEN T ELSE space[x]
      BY ONLY <2>1, <3>4, Zenon
    <3> QED
      BY <3>3, <3>4, <3>5, Zenon
  <2>4. \A v \in Threads : stage'[v] # "compute" /\ ~OnResult(use, v) =>
            \A e \in Elems(use) : space'[use.ptr[v].off + e] = Terms(exec, Work(use, v))
    <3> SUFFICES ASSUME NEW v \in Threads, stage'[v] # "compute", ~OnResult(use, v),
                        NEW e \in Elems(use)
                 PROVE  space'[use.ptr[v].off + e] = Terms(exec, Work(use, v))
      BY Zenon
    <3>1. CASE v = t
      BY <2>3, <3>1, Zenon DEF T
    <3>2. CASE v # t
      <4>1. stage[v] # "compute"
        BY <1>8, <3>2, Zenon
      <4>2. space[use.ptr[v].off + e] = Terms(exec, Work(use, v))
        BY <1>2, <4>1, Zenon DEF MemoryInv
      <4> QED
        BY <2>3, <3>2, <4>2, Zenon
    <3> QED
      BY <3>1, <3>2, Zenon
  <2>5. \A v \in Threads : stage'[v] # "compute" /\ OnResult(use, v) =>
            \A w \in Threads : \A d \in DOMAIN use.sums[w] : dst'[d] = Terms(exec, Work(use, v))
    BY <1>2, <1>8, <1>10, <2>1 DEF MemoryInv
  <2>6. \A d \in DOMAIN dst' \ DOMAIN use.own : dst'[d] = Stale
    BY <1>2, <2>1, Zenon DEF MemoryInv
  <2>7. MemoryInv'
    BY <1>3, <1>8, <2>2, <2>4, <2>5, <2>6, Zenon DEF MemoryInv
  <2> QED
    BY <1>1, <1>2, <1>3, <1>6, <1>7, <2>7 DEF ReducerInv, IsReducer
<1> QED
  BY <1>9, <1>10, Zenon

\* A step of the barrier: a thread's round changes only when it leaves, released
\* by the last to arrive.
LEMMA StepRound ==
    ASSUME IInv, NEW t \in Threads, Step(t), nthr \in Nat, nthr > 1
    PROVE  /\ \A v \in Threads \ {t} : round'[v] = round[v] /\ pc'[v] = pc[v]
           /\ \/ round'[t] = round[t]
              \/ /\ round'[t] = round[t] + 1 /\ pc'[t] = "work"
                 /\ \A v \in Threads : pc[v] = "work" => round[v] = round[t] + 1
<1>0. TypeOK /\ PassedInv /\ LastInv
  BY Zenon DEF IInv
<1>1. CASE Enter(t) \/ TakeSense(t) \/ Arrive(t) \/ Reset(t)
  <2>1. round' = round /\ \E s : pc' = [pc EXCEPT ![t] = s]
    BY <1>1 DEF Enter, TakeSense, Arrive, Reset, Goto
  <2> QED
    BY <1>0, <2>1, Zenon DEF TypeOK
<1>2. CASE Notify(t)
  <2>1. /\ pc[t] = "notify" /\ pc' = [pc EXCEPT ![t] = "work"]
        /\ round' = [round EXCEPT ![t] = @ + 1]
    BY <1>2 DEF Notify, Leave, Goto
  <2>2. \A v \in Threads : pc[v] # "work"
    BY <1>0, <2>1 DEF LastInv
  <2> QED
    BY <1>0, <2>1, <2>2 DEF TypeOK
<1>3. CASE Spin(t)
  <2>1. /\ pc[t] = "spin" /\ tmp[t] # sense /\ pc' = [pc EXCEPT ![t] = "work"]
        /\ round' = [round EXCEPT ![t] = @ + 1]
    BY <1>3, Zenon DEF Spin, Leave, Goto
  <2>2. Passed(t) = round[t] + 1
    BY <2>1 DEF Passed, Released
  <2>3. \A v \in Threads : pc[v] = "work" => Passed(v) = round[v]
    BY Zenon DEF Passed, Released
  <2>4. \A v \in Threads : pc[v] = "work" => round[v] = round[t] + 1
    BY <1>0, <2>2, <2>3 DEF PassedInv
  <2> QED
    BY <1>0, <2>1, <2>4 DEF TypeOK
<1> QED
  BY <1>1, <1>2, <1>3 DEF Step

\* A thread leaves the barrier, to reduce_nolock, only when all have computed.
LEMMA MeetInv ==
    ASSUME UseInv, ReducerInv, NEW t \in Threads, Meet(t)
    PROVE  ReducerInv'
<1>1. /\ stage[t] = "meet" /\ Step(t)
      /\ stage' = [stage EXCEPT ![t] =
                        IF IsReducer /\ round'[t] # round[t] THEN "reduce" ELSE "meet"]
      /\ UNCHANGED <<use, exec, dst, space>>
  BY Zenon DEF Meet
<1>2. IInv /\ IInv' /\ exec \in 1..MaxRounds
  BY <1>1, BarrierStep DEF ReducerInv
<1>3. IsReducer' <=> IsReducer
  BY <1>1, Zenon DEF IsReducer
<1>4. CASE ~IsReducer
  <2>1. stage' = [v \in Threads |-> "meet"]
    BY <1>1, <1>4, Zenon DEF ReducerInv
  <2> QED
    BY <1>1, <1>2, <1>3, <1>4, <2>1, Zenon DEF ReducerInv
<1>5. CASE IsReducer
  <2>1. UseFacts /\ StageInv /\ MemoryInv
    BY <1>5, Zenon DEF ReducerInv, UseInv
  <2>2. /\ \A v \in Threads \ {t} : round'[v] = round[v] /\ pc'[v] = pc[v]
        /\ \/ round'[t] = round[t]
           \/ /\ round'[t] = round[t] + 1 /\ pc'[t] = "work"
              /\ \A v \in Threads : pc[v] = "work" => round[v] = round[t] + 1
    BY <1>1, <1>2, <2>1, StepRound DEF UseFacts
  <2>3. \A v \in Threads : round[v] \in Nat
    BY <1>2 DEF IInv, TypeOK
  <2>4. /\ \A v \in Threads \ {t} : stage'[v] = stage[v]
        /\ stage'[t] = IF round'[t] # round[t] THEN "reduce" ELSE "meet"
        /\ stage \in [Threads -> Stages] /\ stage' \in [Threads -> Stages]
        /\ Stages' = Stages
    BY <1>1, <1>5, <2>1 DEF StageInv, Stages
  <2>5. /\ round[t] = exec - 1 /\ exec \in Nat
        /\ \A v \in Threads : stage[v] = "compute" => pc[v] = "work" /\ round[v] = exec - 1
    BY <1>1, <1>2, <2>1, RoundsAssumption DEF StageInv
  <2>6. \A v \in Threads : stage'[v] # "meet" => pc'[v] = "work"
    BY <1>1, <2>1, <2>2, <2>4 DEF StageInv
  <2>7. \A v \in Threads :
            round'[v] = IF stage'[v] \in {"reduce", "done"} THEN exec ELSE exec - 1
    <3>1. ASSUME NEW v \in Threads \ {t}
          PROVE  round'[v] = IF stage'[v] \in {"reduce", "done"} THEN exec ELSE exec - 1
      BY <2>1, <2>2, <2>4 DEF StageInv
    <3>2. round'[t] = IF stage'[t] \in {"reduce", "done"} THEN exec ELSE exec - 1
      BY <2>2, <2>3, <2>4, <2>5
    <3> QED
      BY <3>1, <3>2
  <2>8. \A v, w \in Threads : stage'[v] \in {"reduce", "done"} => stage'[w] # "compute"
    <3>1. ASSUME stage'[t] = "reduce", NEW w \in Threads, stage[w] = "compute" PROVE FALSE
      BY <2>2, <2>3, <2>4, <2>5, <3>1
    <3> QED
      BY <1>1, <2>1, <2>4, <3>1 DEF StageInv
  <2>9. StageInv'
    BY <1>1, <2>4, <2>6, <2>7, <2>8 DEF StageInv
  <2>10. \A v \in Threads : /\ stage'[v] = "compute" <=> stage[v] = "compute"
                            /\ stage'[v] = "done" <=> stage[v] = "done"
    BY <1>1, <2>4, Zenon
  <2>11. MemoryInv'
    BY <1>1, <2>1, <2>10, Zenon DEF MemoryInv
  <2> QED
    BY <1>1, <1>2, <1>3, <1>5, <2>9, <2>11 DEF ReducerInv
<1> QED
  BY <1>4, <1>5, Zenon

\* The end of the parallel section is a barrier of its own.
LEMMA JoinInv ==
    ASSUME UseInv, ReducerInv, Join
    PROVE  ReducerInv'
<1>1. PICK t \in Threads : TRUE
  BY ThreadsAssumption, Zenon
<1>2. /\ \A v \in Threads : stage[v] = "joined"
      /\ stage' = [v \in Threads |-> "reduce"]
      /\ round' = [v \in Threads |-> round[v] + 1]
      /\ UNCHANGED <<ctr, sense, pc, tmp, use, exec, dst, space>>
  BY Zenon DEF Join
<1>3. IsReducer
  BY <1>1, <1>2, Zenon DEF ReducerInv
<1>4. StageInv /\ MemoryInv /\ IInv /\ exec \in 1..MaxRounds
  BY <1>3, Zenon DEF ReducerInv
<1>5. /\ pc = [v \in Threads |-> "work"] /\ round' = [v \in Threads |-> exec]
      /\ exec \in 0..MaxRounds
  <2>1. \A v \in Threads : pc[v] = "work" /\ round[v] + 1 = exec
    BY <1>2, <1>4, RoundsAssumption DEF StageInv
  <2>2. pc = [v \in Threads |-> pc[v]]
    BY <1>4, Zenon DEF IInv, TypeOK
  <2> QED
    BY <1>2, <1>4, <2>1, <2>2, RoundsAssumption
<1>6. ctr = 0 /\ sense \in {0, 1} /\ tmp \in [Threads -> {0, 1}]
  <2>1. Arrived = {}
    BY <1>5, Zenon DEF Arrived
  <2> QED
    BY <1>4, <1>5, <2>1, FS_EmptySet, Zenon DEF IInv, TypeOK, CtrInv
<1>7. IInv'
  BY <1>2, <1>5, <1>6, BarrierIdle, Zenon
<1>8. StageInv'
  BY <1>2, <1>5, Zenon DEF StageInv, Stages
<1>9. MemoryInv'
  <2>1. \A v \in Threads : /\ stage'[v] # "compute" /\ stage[v] # "compute"
                           /\ stage'[v] # "done" /\ stage[v] # "done"
    BY <1>2, Zenon
  <2> QED
    BY <1>2, <1>4, <2>1, Zenon DEF MemoryInv
<1> QED
  BY <1>2, <1>3, <1>4, <1>7, <1>8, <1>9 DEF ReducerInv, IsReducer

\* The next execution begins with a barrier that nobody is in.
LEMMA ExecuteInv ==
    ASSUME UseInv, ReducerInv, Execute
    PROVE  ReducerInv'
<1>1. /\ IsReducer /\ \A v \in Threads : stage[v] = "done"
      /\ exec < MaxRounds /\ exec' = exec + 1
      /\ stage' = [v \in Threads |-> "compute"]
      /\ IF use.sync THEN ctr' = 0 /\ sense' = 0 ELSE UNCHANGED <<ctr, sense>>
      /\ UNCHANGED <<pc, tmp, round, use, dst, space>>
  BY Zenon DEF Execute
<1>2. StageInv /\ MemoryInv /\ IInv /\ exec \in 1..MaxRounds
  BY <1>1, Zenon DEF ReducerInv
<1>3. /\ pc = [v \in Threads |-> "work"] /\ round = [v \in Threads |-> exec]
      /\ exec \in 0..MaxRounds
  <2>1. \A v \in Threads : pc[v] = "work" /\ round[v] = exec
    BY <1>1, <1>2, Zenon DEF StageInv
  <2>2. pc = [v \in Threads |-> pc[v]] /\ round = [v \in Threads |-> round[v]]
    BY <1>2, Zenon DEF IInv, TypeOK
  <2> QED
    BY <1>2, <2>1, <2>2, RoundsAssumption
<1>4. ctr = 0 /\ sense \in {0, 1} /\ tmp \in [Threads -> {0, 1}]
  <2>1. Arrived = {}
    BY <1>3, Zenon DEF Arrived
  <2> QED
    BY <1>2, <1>3, <2>1, FS_EmptySet, Zenon DEF IInv, TypeOK, CtrInv
<1>5. ctr' = 0 /\ sense' \in {0, 1}
  BY <1>1, <1>4, Zenon
<1>6. IInv'
  BY <1>1, <1>3, <1>4, <1>5, BarrierIdle, Zenon
<1>7. exec' \in 1..MaxRounds /\ exec = exec' - 1
  BY <1>1, <1>2, RoundsAssumption
<1>8. StageInv'
  BY <1>1, <1>3, <1>7, Zenon DEF StageInv, Stages
<1>9. MemoryInv'
  BY <1>1, <1>2, Zenon DEF MemoryInv
<1> QED
  BY <1>1, <1>6, <1>7, <1>8, <1>9, Zenon DEF ReducerInv, IsReducer

\* When all have computed, the reduction driver adds up all the terms.
LEMMA DriverSums ==
    ASSUME UseFacts, MemoryInv, \A v \in Threads : stage[v] # "compute",
           NEW t \in Threads, stage[t] # "done", NEW d \in DOMAIN use.sums[t]
    PROVE  Driver(d, use.sums[t][d]) = Terms(exec, 0..(use.b.reduction_size - 1))
<1> DEFINE e == use.sums[t][d]
           O == Owners(use)
           c == nthr - O
           K == 0..(O - 1)
           at(k) == use.ptr[c].off + e + k * SpacePerThread(use)
           src == [k \in K |-> IF at(k) \in DOMAIN space THEN space[at(k)] ELSE Stale]
           V == [k \in K |-> Work(use, c + k)]
           V0 == IF use.kind = "1d" THEN Work(use, 0) ELSE {}
           base == IF use.kind = "1d" THEN dst[d] ELSE EmptyBag
<1>1. e \in Elems(use)
  BY DEF UseFacts, SharedOut, Elems
<1>2. O \in Nat /\ IsFiniteSet(K)
  <2>1. O \in Nat
    BY DEF UseFacts, Owners
  <2> HIDE DEF O
  <2> QED
    BY <2>1, FS_Interval
<1>3. Driver(d, e) = SumUp(base, src)
  BY Zenon DEF Driver, SumUp
<1> HIDE DEF e
<1>4. ASSUME NEW k \in K
      PROVE  /\ c + k \in Threads /\ ~OnResult(use, c + k)
             /\ src[k] = Terms(exec, V[k])
  <2>1. /\ c + k \in Threads /\ ~OnResult(use, c + k)
        /\ at(k) = use.ptr[c + k].off + e
    BY <1>1, ZenonT(30) DEF UseFacts, WellPlaced
  <2>2. at(k) \in DOMAIN space
    <3>1. use.ptr[c + k].off + e \in 0..(SpaceSize(use) - 1)
      BY <1>1, <2>1, Zenon DEF UseFacts, WellPlaced
    <3>2. DOMAIN space = 0..(SpaceSize(use) - 1)
      BY Zenon DEF MemoryInv
    <3> QED
      BY <2>1, <3>1, <3>2, Zenon
  <2>3. space[at(k)] = Terms(exec, Work(use, c + k))
    BY <1>1, <2>1, Zenon DEF MemoryInv
  <2> HIDE DEF at, c
  <2> QED
    BY <2>1, <2>2, <2>3, Zenon
<1>5. src = [k \in K |-> Terms(exec, V[k])]
  <2> HIDE DEF V
  <2> QED
    BY <1>4, Zenon
<1>6. base = Terms(exec, V0)
  <2>1. CASE use.kind = "1d"
    <3>1. 0 \in Threads /\ OnResult(use, 0)
      BY <2>1, NumbersAssumption DEF UseFacts, OnResult
    <3>2. dst[d] = Terms(exec, Work(use, 0))
      BY <3>1, Zenon DEF MemoryInv
    <3> QED
      BY <2>1, <3>2, Zenon
  <2>2. CASE use.kind # "1d"
    BY <2>2, NoTerms, Zenon
  <2> QED
    BY <2>1, <2>2, Zenon
<1>7. /\ \A k \in K : V[k] \cap V0 = {}
      /\ \A k, l \in K : k # l => V[k] \cap V[l] = {}
  <2>1. c \in Int
    BY <1>2 DEF UseFacts
  <2> HIDE DEF O
  <2>2. ASSUME NEW k \in K PROVE V[k] \cap V0 = {}
    <3>1. CASE use.kind = "1d"
      <4>1. c + k # 0 /\ 0 \in Threads /\ c + k \in Threads
        BY <1>4, <3>1, NumbersAssumption DEF UseFacts, OnResult
      <4> HIDE DEF c
      <4> QED
        BY <3>1, <4>1, Zenon DEF UseFacts, WellWorked
    <3>2. CASE use.kind # "1d"
      BY <3>2, Zenon
    <3> QED
      BY <3>1, <3>2, Zenon
  <2>3. ASSUME NEW k \in K, NEW l \in K, k # l PROVE V[k] \cap V[l] = {}
    <3>1. c + k # c + l /\ c + k \in Threads /\ c + l \in Threads
      BY <1>2, <1>4, <2>1, <2>3
    <3> HIDE DEF c
    <3> QED
      BY <3>1, Zenon DEF UseFacts, WellWorked
  <2> QED
    BY <2>2, <2>3, Zenon
<1>8. V0 \cup UNION {V[k] : k \in K} = UNION {Work(use, v) : v \in Threads}
  <2>1. ASSUME NEW v \in Threads, ~OnResult(use, v) PROVE \E k \in K : v = c + k
    BY <2>1, Zenon DEF UseFacts, WellPlaced
  <2>2. use.kind = "1d" => 0 \in Threads
    BY NumbersAssumption DEF UseFacts
  <2>3. \A k \in K : c + k \in Threads
    BY <1>4, Zenon
  <2> HIDE DEF c, K
  <2>4. ASSUME NEW x \in V0 \cup UNION {V[k] : k \in K}
        PROVE  \E v \in Threads : x \in Work(use, v)
    BY <2>2, <2>3, Zenon
  <2>5. ASSUME NEW v \in Threads, NEW x \in Work(use, v)
        PROVE  x \in V0 \cup UNION {V[k] : k \in K}
    <3>1. CASE OnResult(use, v)
      BY <3>1, Zenon DEF OnResult
    <3>2. CASE ~OnResult(use, v)
      <4>1. PICK k \in K : v = c + k
        BY <2>1, <3>2, Zenon
      <4>2. x \in V[k]
        BY <4>1, Zenon
      <4> QED
        BY <4>2, Zenon
    <3> QED
      BY <3>1, <3>2, Zenon
  <2> HIDE DEF V, V0
  <2> QED
    BY <2>4, <2>5, Zenon
<1> HIDE DEF base, src, V, V0, K, O
<1>9. SumUp(Terms(exec, V0), src) = Terms(exec, V0 \cup UNION {V[k] : k \in K})
  BY <1>2, <1>5, <1>7, FoldTerms
<1>10. UNION {Work(use, v) : v \in Threads} = 0..(use.b.reduction_size - 1)
  BY Zenon DEF UseFacts, WellWorked
<1> QED
  BY <1>3, <1>6, <1>8, <1>9, <1>10, Zenon DEF e

\* A thread sums up its elements of the result and disturbs nobody else's.
LEMMA ReduceInv ==
    ASSUME UseInv, ReducerInv, NEW t \in Threads, reduce_nolock(t)
    PROVE  ReducerInv'
<1> DEFINE mine == DOMAIN use.sums[t]
           R == Terms(exec, 0..(use.b.reduction_size - 1))
<1>1. /\ stage[t] = "reduce"
      /\ dst' = [d \in DOMAIN dst |->
                    IF d \in mine THEN Driver(d, use.sums[t][d]) ELSE dst[d]]
      /\ stage' = [stage EXCEPT ![t] = "done"]
      /\ UNCHANGED <<vars, use, exec, space>>
      /\ UNCHANGED <<ctr, sense, pc, tmp, round>>
  BY Zenon DEF reduce_nolock, vars
<1>2. IsReducer
  BY <1>1, Zenon DEF ReducerInv
<1>3. UseFacts /\ StageInv /\ MemoryInv /\ IInv /\ exec \in 1..MaxRounds
  BY <1>2, Zenon DEF ReducerInv, UseInv
<1>4. IInv'
  BY <1>1, <1>3, BarrierStays, Zenon
<1>5. \A v \in Threads : stage[v] # "compute"
  BY <1>1, <1>3, Zenon DEF StageInv
<1>6. StageInv'
  BY <1>1, <1>3, <1>5, Zenon DEF StageInv, Stages
<1>7. \A d \in mine : Driver(d, use.sums[t][d]) = R
  BY <1>1, <1>3, <1>5, DriverSums, Zenon
<1> HIDE DEF R
<1>8. /\ DOMAIN dst' = 0..(DstSize(use) - 1) /\ DOMAIN dst = 0..(DstSize(use) - 1)
      /\ DOMAIN space' = 0..(SpaceSize(use) - 1)
  BY <1>1, <1>3, Zenon DEF MemoryInv
<1>9. \A d \in DOMAIN dst : dst'[d] = IF d \in mine THEN R ELSE dst[d]
  BY <1>1, <1>7, Zenon
<1>10. \A v \in Threads : v # t => stage'[v] = stage[v]
  BY <1>1, <1>3, Zenon DEF StageInv
<1>11. stage'[t] = "done"
  BY <1>1, <1>3, Zenon DEF StageInv
<1>12. ASSUME NEW v \in Threads, NEW d \in DOMAIN use.sums[v]
       PROVE  dst'[d] = IF v = t THEN R ELSE dst[d]
  <2>1. d \in DOMAIN dst
    BY <1>3, <1>8, Zenon DEF UseFacts, SharedOut
  <2>2. d \in mine <=> v = t
    BY <1>3, Zenon DEF UseFacts, SharedOut
  <2> QED
    BY <1>9, <2>1, <2>2, Zenon
<1>13. ASSUME NEW v \in Threads, stage'[v] # "compute", ~OnResult(use, v), NEW e \in Elems(use)
       PROVE  space'[use.ptr[v].off + e] = Terms(exec, Work(use, v))
  BY <1>1, <1>3, <1>5, <1>13, Zenon DEF MemoryInv
<1>14. ASSUME NEW v \in Threads, stage'[v] = "done", NEW d \in DOMAIN use.sums[v]
       PROVE  dst'[d] = R
  <2>1. CASE v = t
    BY <1>12, <2>1, Zenon
  <2>2. CASE v # t
    <3>1. stage[v] = "done"
      BY <1>10, <1>14, <2>2, Zenon
    <3>2. dst[d] = R
      BY <1>3, <3>1, Zenon DEF MemoryInv, R
    <3> QED
      BY <1>12, <2>2, <3>2, Zenon
  <2> QED
    BY <2>1, <2>2, Zenon
<1>15. ASSUME NEW w \in Threads, OnResult(use, w), NEW v \in Threads, stage'[v] # "done",
              NEW d \in DOMAIN use.sums[v]
       PROVE  dst'[d] = Terms(exec, Work(use, w))
  <2>1. v # t /\ stage[v] # "done"
    BY <1>10, <1>11, <1>15, Zenon
  <2>2. dst[d] = Terms(exec, Work(use, w))
    BY <1>3, <1>5, <1>15, <2>1, Zenon DEF MemoryInv
  <2> QED
    BY <1>12, <2>1, <2>2, Zenon
<1>16. ASSUME NEW d \in DOMAIN dst', d \notin DOMAIN use.own
       PROVE  dst'[d] = Stale
  <2>1. d \in DOMAIN dst /\ d \notin mine
    BY <1>3, <1>8, <1>16, Zenon DEF UseFacts, SharedOut
  <2>2. dst[d] = Stale
    BY <1>3, <1>16, <2>1, Zenon DEF MemoryInv
  <2> QED
    BY <1>9, <2>1, <2>2, Zenon
<1>17. MemoryInv'
  BY <1>1, <1>8, <1>13, <1>14, <1>15, <1>16, Zenon DEF MemoryInv, R
<1> QED
  BY <1>1, <1>2, <1>3, <1>4, <1>6, <1>17 DEF ReducerInv, IsReducer
=============================================================================
