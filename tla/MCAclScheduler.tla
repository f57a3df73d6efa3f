-------------------------- MODULE MCAclScheduler ----------------------------
(* Instances of AclScheduler for TLC.                                       *)
EXTENDS AclScheduler

CONSTANTS now, later, inline

\* A small synchronous pool, a larger asynchronous one, and one without threads
\* of its own.
Sizes == [p \in Pools |-> CASE p = now -> 2 [] p = later -> 3 [] p = inline -> 0]

\* A threadpool is active whenever a kernel is scheduled.
AlwaysActive == [c \in Callers |-> Pools]
=============================================================================
