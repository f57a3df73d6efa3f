----------------------------- MODULE MemoTable ------------------------------
(***************************************************************************)
(* What get_or_create and get of common/cache_utils.hpp promise, without   *)
(* locks, capacities, timestamps or nesting: a table of results that calls *)
(* in progress share.  Entries may be forgotten at any time; a key that is *)
(* in the table is created by nobody else, except by calls told to.        *)
(***************************************************************************)
CONSTANTS
    Calls,    \* <<thread, key>>
    Objects,  \* what creations make
    Failed,   \* what a failed creation yields
    Nothing   \* no result and no creation to wait for

VARIABLES
    enabled,  \* whether results are kept
    table,    \* a function from some keys to a result or to the call making it
    kind,     \* how each call was made: "plain", "forced" or "get"
    doing,    \* "idle", "asking", "sharing", "making" or "made"
    share     \* the result of a call, or the call whose result it shares

tableVars == <<enabled, table, kind, doing, share>>

Results == Objects \cup {Failed}
Known == DOMAIN table
Without(S) == [k \in Known \ S |-> table[k]]

InUse(o) == (\E k \in Known : table[k] = o) \/ (\E c \in Calls : share[c] = o)

Become(c, what) == doing' = [doing EXCEPT ![c] = what]

MemoInit ==
    /\ enabled \in BOOLEAN
    /\ table = [k \in {} |-> Nothing]
    /\ kind = [c \in Calls |-> "plain"]
    /\ doing = [c \in Calls |-> "idle"]
    /\ share = [c \in Calls |-> Nothing]

\* A call begins.
Ask(c, k) ==
    /\ doing[c] = "idle"
    /\ Become(c, "asking")
    /\ kind' = [kind EXCEPT ![c] = k]
    /\ UNCHANGED <<enabled, table, share>>

\* It takes what is in the table: a result, or one that is being made.
Share(c) ==
    /\ doing[c] = "asking" /\ kind[c] # "forced"
    /\ enabled /\ c[2] \in Known
    /\ Become(c, "sharing")
    /\ share' = [share EXCEPT ![c] = table[c[2]]]
    /\ UNCHANGED <<enabled, table, kind>>

\* It is the only one to make the result, and says so in the table.
Reserve(c) ==
    /\ doing[c] = "asking" /\ kind[c] # "get"
    /\ enabled /\ c[2] \notin Known
    /\ \E S \in SUBSET Known :
        table' = [k \in (Known \ S) \cup {c[2]} |->
                    IF k = c[2] THEN c ELSE table[k]]
    /\ Become(c, "making")
    /\ UNCHANGED <<enabled, kind, share>>

\* It makes a result of its own: nothing is kept, or it was told to.
Bypass(c) ==
    /\ doing[c] = "asking"
    /\ \/ kind[c] # "get" /\ ~enabled
       \/ kind[c] = "forced" /\ c[2] \in Known
    /\ Become(c, "making")
    /\ UNCHANGED <<enabled, table, kind, share>>

\* The result is there, in a new object, for all that share it at once.
Finish(c, v) ==
    /\ doing[c] = "making"
    /\ v \in Objects => ~InUse(v)
    /\ table' = [k \in Known |-> IF table[k] = c THEN v ELSE table[k]]
    /\ share' = [d \in Calls |-> IF d = c \/ share[d] = c THEN v ELSE share[d]]
    /\ Become(c, "made")
    /\ UNCHANGED <<enabled, kind>>

Leave(c) ==
    /\ Become(c, "idle")
    /\ kind' = [kind EXCEPT ![c] = "plain"]
    /\ share' = [share EXCEPT ![c] = Nothing]
    /\ UNCHANGED enabled

\* A call returns a result, never a promise of one; get may return nothing.
Return(c) ==
    /\ \/ doing[c] \in {"sharing", "made"} /\ share[c] \in Results
       \/ doing[c] = "asking" /\ kind[c] = "get" /\ ~(enabled /\ c[2] \in Known)
    /\ Leave(c)
    /\ UNCHANGED table

\* A call that failed takes the failure out of the table before it returns.
Withdraw(c) ==
    /\ doing[c] = "made" /\ share[c] = Failed
    /\ table' = Without({k \in Known : k = c[2] /\ table[k] = Failed})
    /\ Leave(c)

\* Entries are forgotten, and keeping them is turned on or off.
Resize ==
    /\ enabled' \in BOOLEAN
    /\ \E S \in SUBSET Known : table' = Without(S)
    /\ UNCHANGED <<kind, doing, share>>

MemoNext ==
    \/ \E c \in Calls :
        \/ \E k \in {"plain", "forced", "get"} : Ask(c, k)
        \/ Share(c) \/ Reserve(c) \/ Bypass(c)
        \/ \E v \in Results : Finish(c, v)
        \/ Return(c) \/ Withdraw(c)
    \/ Resize

MemoSpec == MemoInit /\ [][MemoNext]_tableVars
=============================================================================
