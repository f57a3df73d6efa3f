-------------------------- MODULE CountingBarrier ---------------------------
(***************************************************************************)
(* counting_barrier_t of common/counting_barrier.hpp, used once: a number  *)
(* of threads notify it and one waits for them.  The counter and the flag  *)
(* that somebody waits are packed in one unsigned word, and each operator  *)
(* below is one atomic access to it or one section under m_.               *)
(***************************************************************************)
EXTENDS Naturals

CONSTANT waiter_mask_  \* the high bit of the word

ASSUME MaskAssumption == waiter_mask_ \in Nat \ {0}

VARIABLES
    state_,    \* the word
    notified_  \* what the waiter sleeps on

barrierVars == <<state_, notified_>>

BarrierTypeOK ==
    /\ state_ \in 0..(2 * waiter_mask_ - 1)
    /\ notified_ \in BOOLEAN

\* init(size)
BarrierSet(size) ==
    /\ size < waiter_mask_
    /\ state_' = size
    /\ notified_' = FALSE

\* state_.fetch_sub(1), in the width of the word
Decremented == (state_ + (2 * waiter_mask_ - 1)) % (2 * waiter_mask_)

\* Mutant of NotifySub: the waiter is left to find out by itself.
NotifySubSilent(wake) ==
    /\ state_' = Decremented
    /\ wake = FALSE
    /\ UNCHANGED notified_

\* The first half of notify: whether the caller has to wake the waiter.
NotifySub(wake) ==
    /\ state_' = Decremented
    /\ wake = (Decremented = waiter_mask_)
    /\ UNCHANGED notified_

\* The second half, under m_.
NotifyWake ==
    /\ notified_' = TRUE
    /\ UNCHANGED state_

\* Mutant of WaitOr: a counter that others still have to bring to 0 is taken
\* for 0.
WaitOrEarly(over) ==
    /\ state_' = waiter_mask_ + (state_ % waiter_mask_)
    /\ over = (state_ <= 1)
    /\ UNCHANGED notified_

\* The first half of wait: whether it is over, nobody being left to notify.
WaitOr(over) ==
    /\ state_' = waiter_mask_ + (state_ % waiter_mask_)
    /\ over = (state_ = 0)
    /\ UNCHANGED notified_

\* The second half, under m_: the condition variable lets the waiter go.
Awake == notified_
=============================================================================
