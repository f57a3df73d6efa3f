------------------------- MODULE PrimitiveScratchpad -------------------------
(***************************************************************************)
(* From the bookings of a primitive descriptor to the memory its primitive *)
(* gets: the registries of common/memory_tracking.hpp, filled while the    *)
(* descriptors are initialized, composed with the two scratchpads of       *)
(* common/scratchpad.cpp that dnnl_primitive::init chooses from.           *)
(*                                                                         *)
(* A descriptor books its pieces one after the other in init(); a piece of *)
(* a nested primitive is as large as that primitive's registry, which is   *)
(* complete by then. dnnl_primitive::init then asks for size() bytes: from *)
(* the global scratchpad of its thread, or from a concurrent_scratchpad_t  *)
(* of its own - always from the latter in a build with memory debugging.   *)
(***************************************************************************)
EXTENDS GlobalScratchpad, MemoryTracking

CONSTANTS
    Descs,      \* primitive descriptors
    Bookings,   \* descriptor -> the sequence of bookings its init() makes
    Bases,      \* base addresses of a scratchpad
    CacheLine   \* platform::get_cache_line_size()

(* A booking: the prefixes and the key, the bytes (nelems * data_size) or the
   descriptor of the nested primitive whose registry is booked, and the two
   alignments. *)
Booking ==
    [path : Seq(Nat), key : Nat, bytes : Nat, nested : Descs \cup {None},
     data_align : Nat \ {0}, perf_align : Nat \ {0}]

ASSUME BookingsAssumption == Bookings \in [Descs -> Seq(Booking)]
ASSUME BasesAssumption == Bases \subseteq Nat /\ CacheLine \in Nat \ {0}
ASSUME NoDescAssumption == None \notin Descs

VARIABLES
    build,     \* the build of the library
    registry,  \* descriptor -> scratchpad_registry_
    booked,    \* descriptor -> how many of its bookings init() has made
    desc,      \* primitive -> its descriptor, None if not alive
    own        \* primitive -> size of the scratchpad it owns, None if it has none

trackVars == <<build, registry, booked, desc, own>>

padVars == <<vars, trackVars>>

PadInit ==
    /\ Init
    /\ build \in Builds
    /\ registry = [d \in Descs |-> EmptyRegistry]
    /\ booked = [d \in Descs |-> 0]
    /\ desc = [p \in Primitives |-> None]
    /\ own = [p \in Primitives |-> None]

Complete(d) == booked[d] = Len(Bookings[d])

(* dnnl_primitive::init creates a scratchpad only if its size is not 0. *)
NeedsScratchpad(d) == Complete(d) /\ registry[d].size # 0

-----------------------------------------------------------------------------
(* registrar_t::book: the key gets the registrar's prefix, and a nested
   registry is booked with its size and the default alignment. *)
registrar_book(r, b) ==
    LET key == make_key(prefix_of(b.path), b.key)
    IN  IF b.nested = None
        THEN book(build, r, key, b.bytes, b.data_align, b.perf_align)
        ELSE book(build, r, key, registry[b.nested].size,
                  default_alignment, b.perf_align)

(* The next booking in init() of descriptor d; the descriptor of a nested
   primitive was initialized before. *)
Book(d) ==
    /\ ~ Complete(d)
    /\ LET b == Bookings[d][booked[d] + 1]
       IN  /\ (b.nested # None => Complete(b.nested))
           /\ registry' = [registry EXCEPT ![d] = registrar_book(@, b)]
    /\ booked' = [booked EXCEPT ![d] = @ + 1]
    /\ UNCHANGED <<vars, build, desc, own>>

(* dnnl_primitive::init with the global scratchpad, which create_scratchpad
   returns only if the implementation wants it and memory is not debugged. *)
CreateGlobal(t, p, d) ==
    /\ ~ is_mem_debug(build)
    /\ NeedsScratchpad(d)
    /\ own[p] = None
    /\ Create(t, p, registry[d].size)
    /\ desc' = [desc EXCEPT ![p] = d]
    /\ UNCHANGED <<build, registry, booked, own>>

CreateGlobalFails(t, d) ==
    /\ ~ is_mem_debug(build)
    /\ NeedsScratchpad(d)
    /\ CreateFails(t, registry[d].size)
    /\ UNCHANGED trackVars

(* dnnl_primitive::init with a concurrent_scratchpad_t; when its allocation
   fails no state changes. *)
CreateConcurrent(p, d) ==
    /\ NeedsScratchpad(d)
    /\ desc[p] = None
    /\ own' = [own EXCEPT ![p] = registry[d].size]
    /\ desc' = [desc EXCEPT ![p] = d]
    /\ UNCHANGED <<vars, build, registry, booked>>

DestroyGlobal(t, p) ==
    /\ Destroy(t, p)
    /\ desc' = [desc EXCEPT ![p] = None]
    /\ UNCHANGED <<build, registry, booked, own>>

DestroyConcurrent(p) ==
    /\ own[p] # None
    /\ own' = [own EXCEPT ![p] = None]
    /\ desc' = [desc EXCEPT ![p] = None]
    /\ UNCHANGED <<vars, build, registry, booked>>

PadNext ==
    \/ \E d \in Descs : Book(d)
    \/ \E t \in Threads, d \in Descs :
          \/ \E p \in Primitives : CreateGlobal(t, p, d)
          \/ CreateGlobalFails(t, d)
    \/ \E p \in Primitives, d \in Descs : CreateConcurrent(p, d)
    \/ \E t \in Threads, p \in Primitives : DestroyGlobal(t, p)
    \/ \E p \in Primitives : DestroyConcurrent(p)

PadSpec == PadInit /\ [][PadNext]_padVars

-----------------------------------------------------------------------------
Entries(d) == registry[d].offset_map

Piece(d, k, base) == compute_ptr(build, Entries(d)[k], base)

(* Challenges 1 and 2 of memory_tracking.hpp: wherever the scratchpad of a
   descriptor starts, the pieces a grantor hands out lie inside size() bytes
   and no two of them overlap, although each was moved up to its alignment at
   an offset that was computed without knowing the base address. *)
PiecesApart ==
    \A d \in Descs, base \in Bases : \A k \in DOMAIN Entries(d) :
        LET a == Piece(d, k, base)
            n == Entries(d)[k].size
        IN  /\ base <= a
            /\ a + n <= base + registry[d].size
            /\ \A l \in DOMAIN Entries(d) \ {k} :
                  LET c == Piece(d, l, base)
                  IN  a + n <= c \/ c + Entries(d)[l].size <= a

(* Every booking made so far can be got back: the entry under its prefixes and
   key has the size it asked for and, for a nested primitive, is still as
   large as that primitive's registry; the piece is aligned as booked, from
   every base address. No other booking, of whatever level, took its key. *)
BookingsKept ==
    \A d \in Descs : \A i \in 1 .. booked[d] :
        LET b == Bookings[d][i]
            e == get_entry(registry[d], make_key(prefix_of(b.path), b.key))
            asked == IF b.nested = None THEN b.bytes ELSE registry[b.nested].size
        IN  /\ e.size = asked
            /\ asked > 0 => \A base \in Bases :
                  LET a == compute_ptr(build, e, base)
                  IN  /\ a % b.data_align = 0
                      /\ build = "release" => a % b.perf_align = 0

(* An executing primitive gets its pieces from the storage it has: whatever
   was booked, created, destroyed or failed since, the buffer of its thread or
   its own is as large as its descriptor's registry says now, and the pieces
   lie inside. *)
PiecesInStorage ==
    \A p \in Primitives : desc[p] # None =>
        LET storage == IF own[p] # None THEN own[p] ELSE mem_storage[home[p]]
        IN  /\ storage # None
            /\ storage >= registry[desc[p]].size
            /\ \A base \in Bases : \A k \in DOMAIN Entries(desc[p]) :
                  Piece(desc[p], k, base) + Entries(desc[p])[k].size
                      <= base + storage

Guards(d, k, base) == guarded(build, Piece(d, k, base), Entries(d)[k].size)

(* The pages protected around a piece lie inside the scratchpad and off the
   pages of every other piece. *)
PieceGuardsApart ==
    \A d \in Descs, base \in Bases : \A k \in DOMAIN Entries(d) :
        LET g == Guards(d, k, base)
        IN  /\ base <= g.below
            /\ g.above <= base + registry[d].size
            /\ \A l \in DOMAIN Entries(d) \ {k} :
                  LET h == Guards(d, l, base)
                  IN  g.above <= h.first \/ h.end <= g.below

(* The scratchpad a primitive owns, which cpu_memory_storage_t allocates with
   malloc, and the pages protected around it lie in what was asked of
   posix_memalign, with room below for the tag free() reads; it is aligned to
   a cache line. *)
StorageGuarded ==
    \A p \in Primitives : own[p] # None =>
        LET mem_start == larger(CacheLine, PageSize)
            s == debug_malloc(build, own[p], CacheLine, mem_start)
            g == guarded(build, s.ptr, s.size)
        IN  /\ mem_start <= g.below
            /\ g.above <= mem_start + s.asked
            /\ own[p] <= s.size
            /\ s.ptr % CacheLine = 0

(* What protect_buffer assumes ("the input buffer is allocated such that there
   is num_protect_pages() pages surrounding the buffer") holds of every buffer
   in a build with memory debugging: of the pieces, so that a nested primitive
   never protects memory of its parent or of another piece, and of the
   scratchpads they are cut from. *)
GuardsApart == is_mem_debug(build) => PieceGuardsApart /\ StorageGuarded
=============================================================================
