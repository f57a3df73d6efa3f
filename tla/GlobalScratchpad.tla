-------------------------- MODULE GlobalScratchpad --------------------------
(***************************************************************************)
(* The global scratchpad of common/scratchpad.cpp, as the creation and the *)
(* destruction of a primitive drive it (common/primitive_iface.cpp,        *)
(* common/primitive_desc_iface.cpp).                                       *)
(*                                                                         *)
(* Without DNNL_ENABLE_CONCURRENT_EXEC all CPU primitives created by one   *)
(* thread share one buffer, as large as the largest of them asked for.     *)
(* The three static members of global_scratchpad_t are thread_local, so a  *)
(* member is a function of the thread that runs the constructor or the     *)
(* destructor - which need not be the same thread for one scratchpad.      *)
(* Everything a creation or a destruction touches belongs to the calling   *)
(* thread, hence each is one step.                                         *)
(***************************************************************************)
EXTENDS Integers, FiniteSets

CONSTANTS
    Threads,        \* the application's threads
    Primitives,     \* primitive objects
    Sizes,          \* scratchpad sizes a primitive descriptor may book
    Wrap,           \* reference_count_ is an unsigned int: 2^32 in the code
    ExpandFails,    \* may the allocation of a larger buffer fail?
    RecreateFails,  \* may the allocation of the original capacity fail then?
    AnyThread,      \* may a primitive be destroyed by a thread other than its creator?
    None            \* the null pointer

ASSUME SizesAssumption == Sizes \subseteq Nat \ {0}
ASSUME PrimitivesAssumption == IsFiniteSet(Primitives)
ASSUME WrapAssumption == Wrap \in Nat /\ Cardinality(Primitives) < Wrap
ASSUME FlagsAssumption ==
    ExpandFails \in BOOLEAN /\ RecreateFails \in BOOLEAN /\ AnyThread \in BOOLEAN
ASSUME NoneAssumption == None \notin Nat /\ None \notin Threads

VARIABLES
    mem_storage,      \* thread -> size of the buffer allocated, or None
    size,             \* thread -> size_
    reference_count,  \* thread -> reference_count_
    home,             \* primitive -> the thread that created it, None if not alive
    need              \* primitive -> scratchpad size it was created with

vars == <<mem_storage, size, reference_count, home, need>>

(* The library with no primitive alive. *)
Init ==
    /\ mem_storage = [t \in Threads |-> None]
    /\ size = [t \in Threads |-> 0]
    /\ reference_count = [t \in Threads |-> 0]
    /\ home = [p \in Primitives |-> None]
    /\ need = [p \in Primitives |-> 0]

-----------------------------------------------------------------------------
(* create_scratchpad_memory_storage(engine, n): a buffer of size n, or null
   when the engine cannot allocate it. *)
Allocate(n, mayFail) == {n} \cup (IF mayFail THEN {None} ELSE {})

(* A constructor that does not recreate the buffer it deleted. *)
ConstructedNoRecreate(t, n) ==
    IF n > size[t]
    THEN {<<n, n>>} \cup (IF ExpandFails THEN {<<None, size[t]>>} ELSE {})
    ELSE {<<mem_storage[t], size[t]>>}

(* The pairs <<mem_storage_, size_>> the constructor can leave in thread t. *)
Constructed(t, n) ==
    IF n > size[t]
    THEN {<<n, n>>}
         \cup (IF ExpandFails
               THEN { <<m, IF m = None THEN 0 ELSE size[t]>> :
                         m \in Allocate(size[t], RecreateFails) }
               ELSE {})
    ELSE {<<mem_storage[t], size[t]>>}

(* A destructor that never deletes the buffer. *)
DestructorKeeps(t, st, c) ==
    /\ reference_count' = [reference_count EXCEPT ![t] = (c - 1) % Wrap]
    /\ mem_storage' = [mem_storage EXCEPT ![t] = st[1]]
    /\ size' = [size EXCEPT ![t] = st[2]]

(* The destructor run in thread t, from the members st = <<mem_storage_, size_>>
   and the count c: the last reference deletes the buffer. *)
Destructor(t, st, c) ==
    LET left == (c - 1) % Wrap
    IN  /\ reference_count' = [reference_count EXCEPT ![t] = left]
        /\ mem_storage' = [mem_storage EXCEPT ![t] = IF left = 0 THEN None ELSE st[1]]
        /\ size' = [size EXCEPT ![t] = IF left = 0 THEN 0 ELSE st[2]]

(* Thread t creates primitive p, whose descriptor booked n bytes, and init()
   succeeds: there is a buffer, and it is large enough. *)
Create(t, p, n) ==
    /\ home[p] = None
    /\ \E st \in Constructed(t, n) :
          /\ st[1] # None
          /\ st[2] >= n
          /\ mem_storage' = [mem_storage EXCEPT ![t] = st[1]]
          /\ size' = [size EXCEPT ![t] = st[2]]
          /\ reference_count' =
                [reference_count EXCEPT ![t] = (reference_count[t] + 1) % Wrap]
    /\ home' = [home EXCEPT ![p] = t]
    /\ need' = [need EXCEPT ![p] = n]

(* A failed init() after which create_primitive_iface forgets to release the
   primitive: the scratchpad it owns is never destroyed. *)
CreateFailsUnreleased(t, n) ==
    /\ \E st \in Constructed(t, n) :
          \/ /\ st[1] = None
             /\ Destructor(t, st, (reference_count[t] + 1) % Wrap)
          \/ /\ st[1] # None
             /\ mem_storage' = [mem_storage EXCEPT ![t] = st[1]]
             /\ size' = [size EXCEPT ![t] = st[2]]
             /\ reference_count' =
                   [reference_count EXCEPT ![t] = (reference_count[t] + 1) % Wrap]
    /\ UNCHANGED <<home, need>>

(* init() fails: no buffer, one that is too small, or create_resource reports
   an error. The scratchpad just constructed is destroyed by the same thread,
   directly or with the primitive that owns it. *)
CreateFails(t, n) ==
    /\ \E st \in Constructed(t, n) :
          Destructor(t, st, (reference_count[t] + 1) % Wrap)
    /\ UNCHANGED <<home, need>>

(* Thread t destroys primitive p. *)
Destroy(t, p) ==
    /\ home[p] # None
    /\ AnyThread \/ home[p] = t
    /\ Destructor(t, <<mem_storage[t], size[t]>>, reference_count[t])
    /\ home' = [home EXCEPT ![p] = None]
    /\ need' = [need EXCEPT ![p] = 0]

Next ==
    \E t \in Threads :
        \/ \E p \in Primitives, n \in Sizes : Create(t, p, n)
        \/ \E n \in Sizes : CreateFails(t, n)
        \/ \E p \in Primitives : Destroy(t, p)

Spec == Init /\ [][Next]_vars

-----------------------------------------------------------------------------
(* Types of the thread_local members and of the primitives; the range of the
   count is that of an unsigned int, and ReferencesCounted says what it is. *)
TypeOK ==
    /\ mem_storage \in [Threads -> Nat \cup {None}]
    /\ size \in [Threads -> Nat]
    /\ reference_count \in [Threads -> 0 .. Wrap - 1]
    /\ home \in [Primitives -> Threads \cup {None}]
    /\ need \in [Primitives -> Sizes \cup {0}]

LiveIn(t) == {p \in Primitives : home[p] = t}

(* Between calls, reference_count_ of a thread is the number of live primitives
   that thread created: a creation that fails gives its reference back, a
   successful one keeps it until the primitive is destroyed, and the unsigned
   count neither falls below zero nor wraps around. *)
ReferencesCounted ==
    \A t \in Threads : reference_count[t] = Cardinality(LiveIn(t))

(* A primitive that was created successfully can be executed by its creating
   thread at any time: dnnl_primitive::execute reads mem_storage_ of that
   thread, and the buffer holds what the primitive booked, whatever other
   primitives were created, failed to be created or were destroyed since. *)
StorageCoversPrimitive ==
    \A t \in Threads : \A p \in LiveIn(t) :
        mem_storage[t] # None /\ mem_storage[t] >= need[p]

(* The buffer is freed when all the primitives referencing it are destroyed
   (attributes_scratchpad.md): a thread none of whose primitives is alive
   holds no buffer. *)
FreedWhenUnreferenced ==
    \A t \in Threads : LiveIn(t) = {} => mem_storage[t] = None
=============================================================================
