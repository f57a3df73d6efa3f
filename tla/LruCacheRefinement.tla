------------------------ MODULE LruCacheRefinement --------------------------
(* LruCache implements MemoTable.                                           *)
EXTENDS LruCache

\* What a call does, seen from outside.
DoingOf(step) ==
    CASE step = "idle" -> "idle"
      [] step \in {"lookup", "insert"} -> "asking"
      [] step = "wait" -> "sharing"
      [] step \in {"create", "nested", "abort"} -> "making"
      [] OTHER -> "made"

Memo == INSTANCE MemoTable WITH
    Nothing <- NoCall,
    enabled <- capacity # 0,
    table <- [k \in Resident |-> mapper[k].value],
    kind <- [c \in Calls |-> IF mode[c] = "blob" THEN "plain" ELSE mode[c]],
    doing <- [c \in Calls |-> DoingOf(pc[c])],
    share <- fut

\* get_or_create and get behave like calls on a shared table of results: a key
\* has one creator at a time unless a creation is forced or the cache is off, its
\* result reaches exactly the calls that share it, and what is returned is the
\* result of a creation for that key (get_or_create, get, get_or_add).
ImplementsMemoTable == Memo!MemoSpec
=============================================================================
