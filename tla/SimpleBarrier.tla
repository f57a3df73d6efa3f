--------------------------- MODULE SimpleBarrier ----------------------------
(***************************************************************************)
(* The spin barrier of cpu/x64/cpu_barrier.cpp that jitted code injects:   *)
(* the threads of a parallel section meet on a context with an arrival     *)
(* counter and a sense that the last thread to arrive complements.  A step *)
(* is one access to the context.                                           *)
(***************************************************************************)
EXTENDS Naturals, FiniteSets

CONSTANTS
    Threads,   \* the threads that synchronize; nthr is their number
    MaxRounds  \* how many times each of them calls the barrier

ASSUME ThreadsAssumption == IsFiniteSet(Threads) /\ Threads # {}
ASSUME RoundsAssumption == MaxRounds \in Nat \ {0}

nthr == Cardinality(Threads)

VARIABLES
    ctr,    \* ctx->ctr
    sense,  \* ctx->sense: 0, or 1 for all ones
    pc,     \* where each thread is
    tmp,    \* the sense a thread has saved
    round   \* how many barriers a thread has left

vars == <<ctr, sense, pc, tmp, round>>

\* Types; the arrival counter never exceeds the number of threads.
TypeOK ==
    /\ ctr \in 0..nthr
    /\ sense \in {0, 1}
    /\ pc \in [Threads -> {"work", "take", "arrive", "reset", "notify", "spin"}]
    /\ tmp \in [Threads -> {0, 1}]
    /\ round \in [Threads -> 0..MaxRounds]

\* ctx_init
Init ==
    /\ ctr = 0
    /\ sense = 0
    /\ pc = [t \in Threads |-> "work"]
    /\ tmp = [t \in Threads |-> 0]
    /\ round = [t \in Threads |-> 0]

Goto(t, step) == pc' = [pc EXCEPT ![t] = step]

Leave(t) ==
    /\ Goto(t, "work")
    /\ round' = [round EXCEPT ![t] = @ + 1]

\* A thread reaches the barrier; alone it does not wait.
Enter(t) ==
    /\ pc[t] = "work"
    /\ round[t] < MaxRounds
    /\ IF nthr <= 1
       THEN Leave(t)
       ELSE Goto(t, "take") /\ UNCHANGED round
    /\ UNCHANGED <<ctr, sense, tmp>>

\* take and save current sense
TakeSense(t) ==
    /\ pc[t] = "take"
    /\ tmp' = [tmp EXCEPT ![t] = sense]
    /\ Goto(t, "arrive")
    /\ UNCHANGED <<ctr, sense, round>>

\* Mutant of Arrive: the thread before the last one takes itself for the last.
ArriveOneShort(t) ==
    /\ pc[t] = "arrive"
    /\ ctr' = ctr + 1
    /\ Goto(t, IF ctr + 2 = nthr THEN "reset" ELSE "spin")
    /\ UNCHANGED <<sense, tmp, round>>

\* lock xadd
Arrive(t) ==
    /\ pc[t] = "arrive"
    /\ ctr' = ctr + 1
    /\ Goto(t, IF ctr + 1 = nthr THEN "reset" ELSE "spin")
    /\ UNCHANGED <<sense, tmp, round>>

\* Mutant of Reset: the counter keeps its value.
ResetNot(t) ==
    /\ pc[t] = "reset"
    /\ Goto(t, "notify")
    /\ UNCHANGED <<ctr, sense, tmp, round>>

\* the last thread: reset ctx
Reset(t) ==
    /\ pc[t] = "reset"
    /\ ctr' = 0
    /\ Goto(t, "notify")
    /\ UNCHANGED <<sense, tmp, round>>

\* the last thread: notify waiting threads
Notify(t) ==
    /\ pc[t] = "notify"
    /\ sense' = 1 - tmp[t]
    /\ Leave(t)
    /\ UNCHANGED <<ctr, tmp>>

\* The loop at spin_label ends.
Spin(t) ==
    /\ pc[t] = "spin"
    /\ tmp[t] # sense
    /\ Leave(t)
    /\ UNCHANGED <<ctr, sense, tmp>>

Step(t) ==
    \/ Enter(t) \/ TakeSense(t) \/ Arrive(t)
    \/ Reset(t) \/ Notify(t) \/ Spin(t)

\* Every thread has made its calls.
Done ==
    /\ \A t \in Threads : round[t] = MaxRounds
    /\ UNCHANGED vars

Next == (\E t \in Threads : Step(t)) \/ Done

Spec == Init /\ [][Next]_vars

\* The threads of a parallel section all run.
FairSpec == Spec /\ \A t \in Threads : WF_vars(Step(t))

-----------------------------------------------------------------------------
\* No thread leaves a barrier before every thread has arrived at it: one that
\* is behind another has only to see that the sense has changed.
NoEarlyExit ==
    \A t, u \in Threads :
        round[u] < round[t] => round[u] + 1 = round[t] /\ pc[u] = "spin"

\* The barrier can be used again at once: every thread leaves every barrier.
EveryRoundEnds == <>(\A t \in Threads : round[t] = MaxRounds)
=============================================================================
