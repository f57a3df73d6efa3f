--------------------------- MODULE MemoryTracking ---------------------------
(***************************************************************************)
(* The ledger of scratchpad memory, common/memory_tracking.{hpp,cpp}: a    *)
(* primitive descriptor books pieces in its registry_t, and an execution   *)
(* that knows only the base address of the scratchpad asks a grantor_t for *)
(* them. The builds with DNNL_ENABLE_MEM_DEBUG also surround each piece    *)
(* with pages nobody may touch (common/memory_debug.cpp).                  *)
(*                                                                         *)
(* A build m is "release", "underflow" (debug, pieces start on a page) or  *)
(* "overflow" (debug, pieces end with a page). Addresses are integers.     *)
(***************************************************************************)
EXTENDS Integers, Sequences

CONSTANTS
    default_alignment,  \* 128 in the code
    PageSize,           \* getpagesize()
    ProtectPages,       \* DNNL_MEM_DEBUG_PROTECT_SIZE
    MAX_KEY,            \* 2^10 in the code
    MAX_PREFIX          \* 2^7 in the code

ASSUME TrackingAssumption ==
    /\ default_alignment \in Nat \ {0}
    /\ PageSize \in Nat \ {0}
    /\ ProtectPages \in Nat \ {0}

Builds == {"release", "underflow", "overflow"}

is_mem_debug(m) == m # "release"

larger(a, b) == IF a >= b THEN a ELSE b

(* utils::rnd_up, and utils::align_ptr on an address: alignments are powers of
   two, as book asserts, so that masking bits rounds to a multiple. *)
rnd_up(x, a) == ((x + a - 1) \div a) * a

protect_size(m) == IF is_mem_debug(m) THEN ProtectPages * PageSize ELSE 0

get_alignment(m, alignment) ==
    larger(alignment, IF is_mem_debug(m) THEN PageSize ELSE default_alignment)

(* Mutant of buffer_protect_size: room for the protected pages, but not for
   rounding up to a page. *)
buffer_protect_size_short(m) == protect_size(m)

buffer_protect_size(m) ==
    IF is_mem_debug(m) THEN protect_size(m) + PageSize ELSE 0

-----------------------------------------------------------------------------
(* Keys. A registrar or a grantor reached through the prefixes of path uses
   the keys from prefix_of(path) on. *)

make_key(prefix, key) == prefix + key

(* Mutant of make_prefix: the prefixes of all levels share one range. *)
make_prefix_flat(parent_prefix, prefix) == parent_prefix + MAX_KEY * prefix

make_prefix(parent_prefix, prefix) == MAX_PREFIX * parent_prefix + MAX_KEY * prefix

prefix_of(path) ==
    LET level[i \in 0 .. Len(path)] ==
            IF i = 0 THEN 0 ELSE make_prefix(level[i - 1], path[i])
    IN  level[Len(path)]

-----------------------------------------------------------------------------
(* A registry: its entries by key, and its size_. *)

EmptyRegistry == [offset_map |-> << >>, size |-> 0]

NoEntry == [offset |-> 0, size |-> 0, capacity |-> 0, alignment |-> 0]

(* Mutant of capacity_of: no room for moving a piece up to its alignment. *)
capacity_unaligned(m, n, alignment) == n + buffer_protect_size(m)

(* The room a piece of n bytes takes: it can be moved up to its alignment, and
   pages can be protected behind it. *)
capacity_of(m, n, alignment) ==
    n + get_alignment(m, alignment) + buffer_protect_size(m)

(* registry_t::book. The assertion that the key is new is not in a build with
   NDEBUG, where a second booking replaces the first. *)
book(m, r, key, n, data_align, perf_align) ==
    LET alignment == IF is_mem_debug(m) THEN data_align
                     ELSE larger(data_align, perf_align)
        start == IF is_mem_debug(m) /\ r.size = 0
                 THEN get_alignment(m, alignment) + buffer_protect_size(m)
                 ELSE r.size
        capacity == capacity_of(m, n, alignment)
        entry == [offset |-> start, size |-> n,
                  capacity |-> capacity, alignment |-> alignment]
    IN  IF n = 0 THEN r
        ELSE [offset_map |-> [k \in DOMAIN r.offset_map \cup {key} |->
                                 IF k = key THEN entry ELSE r.offset_map[k]],
              size |-> start + capacity]

(* registry_t::get. *)
get_entry(r, key) ==
    IF r.size = 0 \/ key \notin DOMAIN r.offset_map THEN NoEntry
    ELSE r.offset_map[key]

(* entry_t::compute_ptr, for an entry that is not empty. *)
compute_ptr(m, e, base) ==
    LET ptr == base + e.offset
        aligned == rnd_up(ptr, get_alignment(m, e.alignment))
        pageEnd == aligned + PageSize - (rnd_up(e.size, e.alignment) % PageSize)
    IN  IF m = "overflow" /\ e.size % PageSize # 0
        THEN IF pageEnd - PageSize > ptr THEN pageEnd - PageSize ELSE pageEnd
        ELSE aligned

-----------------------------------------------------------------------------
(* Pages. protect_buffer protects the protect_size() bytes below the first
   page of a buffer and those above its last page. *)

page_start(a) == (a \div PageSize) * PageSize
page_end(a) == rnd_up(a, PageSize)

(* What protect_buffer(addr, n) takes: from the first protected byte to the
   last one, the pages of the buffer in between. *)
guarded(m, addr, n) ==
    [below |-> page_start(addr) - protect_size(m),
     first |-> page_start(addr),
     end   |-> page_end(addr + n),
     above |-> page_end(addr + n) + protect_size(m)]

(* memory_debug::malloc(n, alignment), given the address posix_memalign
   returns: how much it asks for, and the buffer it returns. *)
debug_malloc(m, n, alignment, mem_start) ==
    LET buffer_size == rnd_up(n, alignment)
        page_align == larger(alignment, PageSize)
        ptr == rnd_up(mem_start + protect_size(m), page_align)
        shift == IF m = "overflow"
                 THEN (page_align - (buffer_size % page_align)) % page_align
                 ELSE 0
    IN  [asked |-> rnd_up(n + page_align + 2 * protect_size(m), page_align),
         ptr |-> ptr + shift,
         size |-> buffer_size]
=============================================================================
