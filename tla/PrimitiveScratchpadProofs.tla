---------------------- MODULE PrimitiveScratchpadProofs ----------------------
(***************************************************************************)
(* First the registries: for any bookings, any base address and any page   *)
(* size, the pieces a registry hands out lie apart inside its size(), and  *)
(* so do the pages that a build with memory debugging protects around      *)
(* them.  The argument: the entries of a registry reserve disjoint ranges  *)
(* of offsets below its size, and a piece, wherever its alignment and the  *)
(* page rounding move it, stays in the reserved range of its entry.        *)
(*                                                                         *)
(* Then the global scratchpad, for any threads, primitives and sizes: it   *)
(* always covers the primitives of its thread and is freed with the last   *)
(* of them, provided that primitives are destroyed by the threads that     *)
(* created them and that the original capacity can be allocated again.     *)
(* Together: what was booked lies in the scratchpad that init obtained.    *)
(***************************************************************************)
EXTENDS PrimitiveScratchpad, TLAPS

-----------------------------------------------------------------------------
(* Registries. *)

(* An entry of a registry of the given size: it reserves capacity_of bytes
   below that size and, with memory debugging, leaves room for the pages
   protected below the first piece. *)
IsEntry(m, e, n) ==
    /\ e.offset \in Nat /\ e.size \in Nat /\ e.capacity \in Nat
    /\ e.alignment \in Nat \ {0}
    /\ e.capacity = capacity_of(m, e.size, e.alignment)
    /\ e.offset + e.capacity <= n
    /\ is_mem_debug(m) => e.offset >= buffer_protect_size(m)

IsRegistry(m, r) ==
    /\ r.size \in Nat
    /\ is_mem_debug(m) => r.size = 0 \/ r.size >= buffer_protect_size(m)
    /\ \A k \in DOMAIN r.offset_map : IsEntry(m, r.offset_map[k], r.size)
    /\ \A k, l \in DOMAIN r.offset_map : k # l =>
          \/ r.offset_map[k].offset + r.offset_map[k].capacity <= r.offset_map[l].offset
          \/ r.offset_map[l].offset + r.offset_map[l].capacity <= r.offset_map[k].offset

(* Every registry is well formed, at every point of every init(). *)
RegistriesOK ==
    /\ build \in Builds
    /\ registry = [d \in Descs |-> registry[d]]
    /\ booked \in [Descs -> Nat]
    /\ \A d \in Descs : booked[d] <= Len(Bookings[d])
    /\ \A d \in Descs : IsRegistry(build, registry[d])

-----------------------------------------------------------------------------
(* Arithmetic. *)

(* A product is monotonic. *)
LEMMA TimesMono ==
    ASSUME NEW x \in Int, NEW y \in Int, NEW z \in Nat, x <= y
    PROVE  x * z <= y * z
BY SMT

(* rnd_up and align_ptr move a number up, by less than the alignment. *)
LEMMA RndUpRange ==
    ASSUME NEW x \in Nat, NEW a \in Nat \ {0}
    PROVE  /\ rnd_up(x, a) \in Nat
           /\ x <= rnd_up(x, a)
           /\ rnd_up(x, a) <= x + a - 1
BY SMT DEF rnd_up

(* A page starts at or below each of its bytes, less than a page below. *)
LEMMA PageStartRange ==
    ASSUME NEW x \in Nat
    PROVE  /\ page_start(x) \in Nat
           /\ page_start(x) <= x
           /\ x <= page_start(x) + PageSize - 1
BY TrackingAssumption, SMT DEF page_start

(* rnd_up is the least multiple of the alignment that is not below. *)
LEMMA RndUpLeast ==
    ASSUME NEW x \in Nat, NEW a \in Nat \ {0}
    PROVE  /\ \E i \in Int : rnd_up(x, a) = i * a
           /\ \A q \in Int : x <= q * a => rnd_up(x, a) <= q * a
<1> DEFINE i == (x + a - 1) \div a
<1>1. i \in Int /\ rnd_up(x, a) = i * a
  BY SMT DEF rnd_up
<1>2. ASSUME NEW q \in Int, x <= q * a PROVE rnd_up(x, a) <= q * a
  <2>1. SUFFICES ASSUME q + 1 <= i PROVE FALSE
    BY <1>1, TimesMono
  <2> HIDE DEF i
  <2>2. (q + 1) * a <= i * a
    BY <1>1, <2>1, TimesMono
  <2>3. i * a <= x + a - 1
    BY <1>1, RndUpRange, Zenon
  <2>4. (q + 1) * a = q * a + a /\ q * a \in Int /\ i * a \in Int
    BY <1>1
  <2> QED
    BY ONLY <1>2, <2>2, <2>3, <2>4, x \in Nat, a \in Nat, SMT
<1> QED
  BY <1>1, <1>2, Zenon

(* A page boundary that is not above an address is not above the start of the
   page of that address. *)
LEMMA PageStartGreatest ==
    ASSUME NEW x \in Nat, NEW q \in Int, q * PageSize <= x
    PROVE  q * PageSize <= page_start(x)
<1> DEFINE i == x \div PageSize
<1>1. /\ PageSize \in Nat \ {0} /\ i \in Int /\ page_start(x) = i * PageSize
      /\ x < i * PageSize + PageSize
  BY TrackingAssumption, SMT DEF page_start
<1> HIDE DEF i
<1>2. SUFFICES ASSUME i + 1 <= q PROVE FALSE
  BY <1>1, TimesMono
<1>3. (i + 1) * PageSize <= q * PageSize
  BY <1>1, <1>2, TimesMono
<1> QED
  BY <1>1, <1>3

(* A multiple of a number leaves no remainder. *)
LEMMA MultipleMod ==
    ASSUME NEW c \in Nat \ {0}, NEW q \in Int
    PROVE  (q * c) % c = 0
<1> DEFINE i == (q * c) \div c
           r == (q * c) % c
<1>1. i \in Int /\ r \in 0 .. (c - 1) /\ q * c = i * c + r
  BY SMT
<1> HIDE DEF i, r
<1>2. q = i
  <2>1. SUFFICES ASSUME q + 1 <= i \/ i + 1 <= q PROVE FALSE
    BY <1>1
  <2>2. CASE q + 1 <= i
    <3>1. (q + 1) * c <= i * c
      BY <1>1, <2>2, TimesMono
    <3> QED
      BY <1>1, <3>1
  <2>3. CASE i + 1 <= q
    <3>1. (i + 1) * c <= q * c
      BY <1>1, <2>3, TimesMono
    <3> QED
      BY <1>1, <3>1
  <2> QED
    BY <2>1, <2>2, <2>3, Zenon
<1>3. r = 0
  BY <1>1, <1>2
<1> QED
  BY <1>3, Zenon DEF r

(* The shift of an overflow build completes a buffer to whole pages. *)
LEMMA ShiftCompletes ==
    ASSUME NEW b \in Nat, NEW a \in Nat \ {0}
    PROVE  LET shift == (a - (b % a)) % a
           IN  shift \in Nat /\ b + shift = rnd_up(b, a)
<1> DEFINE i == b \div a
           r == b % a
           shift == (a - r) % a
<1>1. i \in Int /\ r \in 0 .. (a - 1) /\ b = i * a + r
  BY SMT
<1>2. shift = IF r = 0 THEN 0 ELSE a - r
  <2> HIDE DEF r
  <2>1. shift = (a - r) % a
    BY Zenon
  <2> QED
    BY <1>1, SMT
<1> HIDE DEF i, r, shift
<1>3. \E j \in Int : b + shift = j * a
  <2>1. CASE r = 0
    <3>1. b + shift = i * a
      BY <1>1, <1>2, <2>1
    <3> QED
      BY <1>1, <3>1, Zenon
  <2>2. CASE r # 0
    <3>1. i + 1 \in Int /\ b + shift = (i + 1) * a
      BY <1>1, <1>2, <2>2
    <3> QED
      BY ONLY <3>1, Zenon
  <2> QED
    BY <2>1, <2>2, Zenon
<1>4. PICK j \in Int : b + shift = j * a
  BY <1>3, Zenon
<1>5. shift \in Nat /\ shift <= a - 1
  BY <1>1, <1>2
<1>6. rnd_up(b, a) <= j * a
  <2>1. b <= j * a
    BY <1>4, <1>5
  <2>2. \A q \in Int : b <= q * a => rnd_up(b, a) <= q * a
    BY RndUpLeast, Zenon
  <2> QED
    BY <2>1, <2>2, Zenon
<1>7. PICK u \in Int : rnd_up(b, a) = u * a
  BY RndUpLeast, Zenon
<1>8. b <= u * a
  BY <1>7, RndUpRange, Zenon
<1>9. j <= u
  <2>1. SUFFICES ASSUME u + 1 <= j PROVE FALSE
    OBVIOUS
  <2>2. (u + 1) * a <= j * a
    BY <2>1, TimesMono
  <2> QED
    BY <1>4, <1>5, <1>8, <2>2
<1>10. j * a <= u * a
  BY <1>9, TimesMono, Zenon
<1>11. shift \in Nat /\ b + shift = rnd_up(b, a)
  BY <1>4, <1>5, <1>6, <1>7, <1>10
<1> QED
  BY <1>11, Zenon DEF shift, r

(* The end of a page that does not lie above an address does not lie above
   the start of the page of that address, and nor does it when protected
   pages follow. *)
LEMMA PagesApart ==
    ASSUME NEW x \in Nat, NEW y \in Nat, NEW m \in Builds,
           page_end(x) + protect_size(m) <= y
    PROVE  page_end(x) + protect_size(m) <= page_start(y)
<1> DEFINE N == IF is_mem_debug(m) THEN ProtectPages ELSE 0
           Q == ((x + PageSize - 1) \div PageSize) + N
           D == y \div PageSize
<1>1. /\ PageSize \in Nat /\ PageSize > 0 /\ N \in Nat
      /\ Q \in Nat /\ D \in Nat
      /\ y < D * PageSize + PageSize
  BY TrackingAssumption, SMT
<1>2. /\ page_end(x) + protect_size(m) = Q * PageSize
      /\ page_start(y) = D * PageSize
  BY <1>1, TrackingAssumption, SMT
  DEF page_end, rnd_up, protect_size, page_start, is_mem_debug
<1> HIDE DEF N, Q, D
<1>3. SUFFICES ASSUME D + 1 <= Q PROVE FALSE
  BY <1>1, <1>2, TimesMono
<1>4. (D + 1) * PageSize <= Q * PageSize
  BY <1>1, <1>3, TimesMono
<1>5. Q * PageSize <= y
  BY <1>2, Zenon
<1> QED
  BY <1>1, <1>4, <1>5

(* What the sizes of memory_tracking.hpp and memory_debug.cpp are. *)
LEMMA SizesNat ==
    ASSUME NEW m \in Builds, NEW a \in Nat \ {0}
    PROVE  /\ protect_size(m) \in Nat
           /\ buffer_protect_size(m) \in Nat
           /\ is_mem_debug(m) => buffer_protect_size(m) = protect_size(m) + PageSize
           /\ get_alignment(m, a) \in Nat \ {0}
           /\ is_mem_debug(m) => get_alignment(m, a) >= PageSize
BY TrackingAssumption, SMT
DEF protect_size, buffer_protect_size, get_alignment, is_mem_debug, larger, Builds

-----------------------------------------------------------------------------
(* Registries. *)

(* compute_ptr stays within get_alignment of the start of the entry - what its
   last assertion says, from every base address. *)
LEMMA PtrRange ==
    ASSUME NEW m \in Builds, NEW e, NEW n \in Nat, IsEntry(m, e, n),
           NEW base \in Nat
    PROVE  /\ compute_ptr(m, e, base) \in Nat
           /\ base + e.offset <= compute_ptr(m, e, base)
           /\ compute_ptr(m, e, base) <= base + e.offset + get_alignment(m, e.alignment)
<1> DEFINE ptr == base + e.offset
           A == get_alignment(m, e.alignment)
           aligned == rnd_up(ptr, A)
           off == rnd_up(e.size, e.alignment) % PageSize
<1>1. /\ e.offset \in Nat /\ e.size \in Nat /\ e.alignment \in Nat \ {0}
      /\ ptr \in Nat
      /\ PageSize \in Nat \ {0}
  BY TrackingAssumption DEF IsEntry
<1>2. A \in Nat \ {0} /\ (m = "overflow" => A >= PageSize)
  BY <1>1, SizesNat, Zenon DEF is_mem_debug
<1>3. aligned \in Nat /\ ptr <= aligned /\ aligned <= ptr + A - 1
  BY <1>1, <1>2, RndUpRange, Zenon
<1>4. off \in Nat /\ off < PageSize
  <2>1. rnd_up(e.size, e.alignment) \in Nat
    BY <1>1, RndUpRange, Zenon
  <2> QED
    BY <1>1, <2>1, SMT
<1>5. compute_ptr(m, e, base) =
        IF m = "overflow" /\ e.size % PageSize # 0
        THEN IF (aligned + PageSize - off) - PageSize > ptr
             THEN (aligned + PageSize - off) - PageSize
             ELSE aligned + PageSize - off
        ELSE aligned
  BY Zenon DEF compute_ptr
<1> HIDE DEF ptr, A, aligned, off
<1>6. /\ compute_ptr(m, e, base) \in Nat
      /\ ptr <= compute_ptr(m, e, base)
      /\ compute_ptr(m, e, base) <= ptr + A
  <2>1. CASE m = "overflow" /\ e.size % PageSize # 0
    BY <1>1, <1>2, <1>3, <1>4, <1>5, <2>1
  <2>2. CASE ~ (m = "overflow" /\ e.size % PageSize # 0)
    BY <1>1, <1>2, <1>3, <1>5, <2>2
  <2> QED
    BY <2>1, <2>2, Zenon
<1> QED
  BY <1>6, Zenon DEF ptr, A

(* Booking a piece keeps a registry well formed, whether or not its key is
   new: the new entry lies above all the others. *)
LEMMA BookKeeps ==
    ASSUME NEW m \in Builds, NEW r, IsRegistry(m, r), NEW key, NEW n \in Nat,
           NEW da \in Nat \ {0}, NEW pa \in Nat \ {0}
    PROVE  IsRegistry(m, book(m, r, key, n, da, pa))
<1> DEFINE al == IF is_mem_debug(m) THEN da ELSE larger(da, pa)
           start == IF is_mem_debug(m) /\ r.size = 0
                    THEN get_alignment(m, al) + buffer_protect_size(m)
                    ELSE r.size
           cap == capacity_of(m, n, al)
           entry == [offset |-> start, size |-> n, capacity |-> cap, alignment |-> al]
           map == [k \in DOMAIN r.offset_map \cup {key} |->
                      IF k = key THEN entry ELSE r.offset_map[k]]
           new == [offset_map |-> map, size |-> start + cap]
<1>1. CASE n = 0
  BY <1>1, Zenon DEF book
<1>2. CASE n # 0
  <2>1. al \in Nat \ {0}
    BY Zenon DEF larger
  <2>2. /\ r.size \in Nat
        /\ buffer_protect_size(m) \in Nat
        /\ get_alignment(m, al) \in Nat \ {0}
    BY <2>1, SizesNat, Zenon DEF IsRegistry
  <2> HIDE DEF al
  <2>3. /\ start \in Nat /\ cap \in Nat
        /\ r.size <= start
        /\ is_mem_debug(m) /\ r.size = 0 => start >= buffer_protect_size(m)
    BY <2>2 DEF capacity_of
  <2>4. is_mem_debug(m) => start >= buffer_protect_size(m)
    BY <2>2, <2>3, Zenon DEF IsRegistry
  <2>5. book(m, r, key, n, da, pa) = new
    BY <1>2, Zenon DEF book, al
  <2>6. new.offset_map = map /\ new.size = start + cap
    BY Zenon
  <2>7. /\ entry.offset = start /\ entry.size = n
        /\ entry.capacity = cap /\ entry.alignment = al
    BY Zenon
  <2>8. IsEntry(m, entry, start + cap)
    <3> HIDE DEF start, entry
    <3>1. cap = capacity_of(m, n, al)
      BY Zenon
    <3> HIDE DEF cap
    <3> QED
      BY <2>1, <2>3, <2>4, <2>7, <3>1 DEF IsEntry
  <2>9. /\ DOMAIN map = DOMAIN r.offset_map \cup {key}
        /\ map[key] = entry
        /\ \A k \in DOMAIN map : k # key =>
              k \in DOMAIN r.offset_map /\ map[k] = r.offset_map[k]
    BY Zenon
  <2> HIDE DEF start, cap, entry, map
  <2>10. ASSUME NEW k \in DOMAIN map, k # key
         PROVE  /\ IsEntry(m, map[k], start + cap)
                /\ map[k].offset + map[k].capacity <= start
    <3>1. IsEntry(m, map[k], r.size)
      BY <2>9, <2>10, Zenon DEF IsRegistry
    <3> QED
      BY <2>2, <2>3, <3>1 DEF IsEntry
  <2>11. \A k \in DOMAIN map : IsEntry(m, map[k], start + cap)
    BY <2>8, <2>9, <2>10, Zenon
  <2>12. ASSUME NEW k \in DOMAIN map, NEW l \in DOMAIN map, k # l
         PROVE  \/ map[k].offset + map[k].capacity <= map[l].offset
                \/ map[l].offset + map[l].capacity <= map[k].offset
    <3>1. CASE k = key
      BY <2>7, <2>9, <2>10, <2>12, <3>1, Zenon
    <3>2. CASE l = key
      BY <2>7, <2>9, <2>10, <2>12, <3>2, Zenon
    <3>3. CASE k # key /\ l # key
      BY <2>9, <2>12, <3>3, Zenon DEF IsRegistry
    <3> QED
      BY <3>1, <3>2, <3>3, Zenon
  <2>13. /\ start + cap \in Nat
         /\ is_mem_debug(m) => start + cap >= buffer_protect_size(m)
    BY <2>2, <2>3, <2>4
  <2> QED
    BY <2>5, <2>6, <2>11, <2>12, <2>13, Zenon DEF IsRegistry
<1> QED
  BY <1>1, <1>2, Zenon

(* The pieces of a well-formed registry, from any base address: each lies in
   the range its entry reserves. *)
LEMMA PieceRange ==
    ASSUME NEW m \in Builds, NEW r, IsRegistry(m, r),
           NEW k \in DOMAIN r.offset_map, NEW base \in Nat
    PROVE  LET e == r.offset_map[k]
               a == compute_ptr(m, e, base)
           IN  /\ a \in Nat /\ e.offset \in Nat /\ e.capacity \in Nat
               /\ e.size \in Nat /\ r.size \in Nat
               /\ buffer_protect_size(m) \in Nat
               /\ base + e.offset <= a
               /\ a + e.size + buffer_protect_size(m) <= base + e.offset + e.capacity
               /\ e.offset + e.capacity <= r.size
               /\ is_mem_debug(m) => e.offset >= buffer_protect_size(m)
<1> DEFINE e == r.offset_map[k]
           a == compute_ptr(m, e, base)
<1>1. IsEntry(m, e, r.size) /\ r.size \in Nat
  BY Zenon DEF IsRegistry
<1>2. /\ a \in Nat
      /\ base + e.offset <= a
      /\ a <= base + e.offset + get_alignment(m, e.alignment)
  BY <1>1, PtrRange, Zenon
<1> HIDE DEF e, a
<1>3. /\ e.offset \in Nat /\ e.size \in Nat /\ e.capacity \in Nat
      /\ e.alignment \in Nat \ {0}
      /\ e.capacity = e.size + get_alignment(m, e.alignment) + buffer_protect_size(m)
      /\ e.offset + e.capacity <= r.size
      /\ is_mem_debug(m) => e.offset >= buffer_protect_size(m)
  BY <1>1, Zenon DEF IsEntry, capacity_of
<1>4. get_alignment(m, e.alignment) \in Nat /\ buffer_protect_size(m) \in Nat
  BY <1>3, SizesNat, Zenon
<1>5. /\ a + e.size + buffer_protect_size(m) <= base + e.offset + e.capacity
  BY <1>2, <1>3, <1>4
<1> QED
  BY <1>1, <1>2, <1>3, <1>4, <1>5, Zenon DEF e, a

-----------------------------------------------------------------------------
(* The system. *)

(* A booking of a descriptor has the fields of a Booking. *)
LEMMA BookingFacts ==
    ASSUME NEW d \in Descs, NEW i \in Nat, i < Len(Bookings[d])
    PROVE  Bookings[d][i + 1] \in Booking /\ Len(Bookings[d]) \in Nat
<1>1. Bookings[d] \in Seq(Booking)
  BY BookingsAssumption, Zenon
<1>2. Len(Bookings[d]) \in Nat
  BY <1>1
<1>3. i + 1 \in 1 .. Len(Bookings[d])
  BY <1>2
<1> QED
  BY <1>1, <1>2, <1>3

(* Registries start empty, and only a booking changes one. *)
LEMMA RegistriesKept ==
    /\ PadInit => RegistriesOK
    /\ RegistriesOK /\ [PadNext]_padVars => RegistriesOK'
<1>1. ASSUME PadInit PROVE RegistriesOK
  <2>1. ASSUME NEW d \in Descs
        PROVE  IsRegistry(build, registry[d]) /\ booked[d] <= Len(Bookings[d])
    <3>1. registry[d] = EmptyRegistry /\ booked[d] = 0
      BY <1>1, Zenon DEF PadInit
    <3>2. DOMAIN EmptyRegistry.offset_map = {} /\ EmptyRegistry.size = 0
      BY DEF EmptyRegistry
    <3>3. Len(Bookings[d]) \in Nat
      BY BookingsAssumption
    <3> QED
      BY <3>1, <3>2, <3>3 DEF IsRegistry
  <2> QED
    BY <1>1, <2>1, Zenon DEF PadInit, RegistriesOK
<1>2. ASSUME RegistriesOK, [PadNext]_padVars PROVE RegistriesOK'
  <2>1. CASE UNCHANGED <<build, registry, booked>>
    BY <1>2, <2>1 DEF RegistriesOK, IsRegistry
  <2>2. ASSUME NEW d \in Descs, Book(d) PROVE RegistriesOK'
    <3> DEFINE b == Bookings[d][booked[d] + 1]
               new == registrar_book(registry[d], b)
    <3>1. booked[d] \in Nat /\ Len(Bookings[d]) \in Nat /\ booked[d] < Len(Bookings[d])
      BY <1>2, <2>2, BookingsAssumption DEF RegistriesOK, Book, Complete
    <3>2. b \in Booking
      BY <3>1, BookingFacts, Zenon
    <3>3. build' = build
      BY <2>2, Zenon DEF Book
    <3>4. registry' = [registry EXCEPT ![d] = new]
      BY <2>2, Zenon DEF Book
    <3>5. booked' = [booked EXCEPT ![d] = @ + 1]
      BY <2>2, Zenon DEF Book
    <3> HIDE DEF b
    <3>6. IsRegistry(build, new)
      <4>1. CASE b.nested = None
        <5>1. b.bytes \in Nat /\ b.data_align \in Nat \ {0} /\ b.perf_align \in Nat \ {0}
          BY <3>2, Zenon DEF Booking
        <5> QED
          BY <1>2, <4>1, <5>1, BookKeeps, Zenon DEF RegistriesOK, registrar_book
      <4>2. CASE b.nested # None
        <5>1. b.nested \in Descs /\ b.perf_align \in Nat \ {0}
          BY <3>2, <4>2, Zenon DEF Booking
        <5>2. registry[b.nested].size \in Nat
          BY <1>2, <5>1, Zenon DEF RegistriesOK, IsRegistry
        <5> QED
          BY <1>2, <4>2, <5>1, <5>2, TrackingAssumption, BookKeeps, Zenon
          DEF RegistriesOK, registrar_book
      <4> QED
        BY <4>1, <4>2, Zenon
    <3> HIDE DEF new
    <3>7. \A c \in Descs : registry'[c] = IF c = d THEN new ELSE registry[c]
      BY <1>2, <3>4, Zenon DEF RegistriesOK
    <3>8. registry' = [c \in Descs |-> registry'[c]]
      BY <1>2, <3>4, Zenon DEF RegistriesOK
    <3>9. /\ booked' \in [Descs -> Nat]
          /\ \A c \in Descs : booked'[c] <= Len(Bookings[c])
      BY <1>2, <3>1, <3>5 DEF RegistriesOK
    <3>10. \A c \in Descs : IsRegistry(build', registry'[c])
      BY <1>2, <3>3, <3>6, <3>7, Zenon DEF RegistriesOK
    <3> QED
      BY <1>2, <3>3, <3>8, <3>9, <3>10, Zenon DEF RegistriesOK
  <2> QED
    BY <1>2, <2>1, <2>2, Zenon
    DEF PadNext, CreateGlobal, CreateGlobalFails, CreateConcurrent,
        DestroyGlobal, DestroyConcurrent, padVars, trackVars
<1> QED
  BY <1>1, <1>2, Zenon

(* In a well-formed registry the pieces lie apart, inside the scratchpad. *)
LEMMA ApartFromOK == RegistriesOK => PiecesApart
<1> SUFFICES ASSUME RegistriesOK, NEW d \in Descs, NEW base \in Bases,
                    NEW k \in DOMAIN Entries(d)
             PROVE  LET a == Piece(d, k, base)
                        n == Entries(d)[k].size
                    IN  /\ base <= a
                        /\ a + n <= base + registry[d].size
                        /\ \A l \in DOMAIN Entries(d) \ {k} :
                              LET c == Piece(d, l, base)
                              IN  a + n <= c \/ c + Entries(d)[l].size <= a
  BY Zenon DEF PiecesApart
<1>1. base \in Nat /\ build \in Builds /\ IsRegistry(build, registry[d])
  BY BasesAssumption, Zenon DEF RegistriesOK
<1>2. ASSUME NEW l \in DOMAIN Entries(d)
      PROVE  LET e == Entries(d)[l]
                 a == Piece(d, l, base)
             IN  /\ a \in Nat /\ e.offset \in Nat /\ e.capacity \in Nat
                 /\ e.size \in Nat /\ registry[d].size \in Nat
                 /\ base + e.offset <= a
                 /\ a + e.size <= base + e.offset + e.capacity
                 /\ e.offset + e.capacity <= registry[d].size
  <2> DEFINE e == Entries(d)[l]
             a == Piece(d, l, base)
  <2>1. /\ a \in Nat /\ e.offset \in Nat /\ e.capacity \in Nat
        /\ e.size \in Nat /\ registry[d].size \in Nat
        /\ buffer_protect_size(build) \in Nat
        /\ base + e.offset <= a
        /\ a + e.size + buffer_protect_size(build) <= base + e.offset + e.capacity
        /\ e.offset + e.capacity <= registry[d].size
    BY <1>1, <1>2, PieceRange, Zenon DEF Entries, Piece
  <2> HIDE DEF e, a
  <2>2. a + e.size <= base + e.offset + e.capacity
    BY ONLY <1>1, <2>1
  <2> QED
    BY <2>1, <2>2, Zenon DEF e, a
<1>3. \A l \in DOMAIN Entries(d) \ {k} :
         \/ Entries(d)[k].offset + Entries(d)[k].capacity <= Entries(d)[l].offset
         \/ Entries(d)[l].offset + Entries(d)[l].capacity <= Entries(d)[k].offset
  BY <1>1, Zenon DEF IsRegistry, Entries
<1> QED
  BY <1>1, <1>2, <1>3

(* So do the pages protected around them. *)
LEMMA GuardsFromOK == RegistriesOK /\ is_mem_debug(build) => PieceGuardsApart
<1> SUFFICES ASSUME RegistriesOK, is_mem_debug(build),
                    NEW d \in Descs, NEW base \in Bases, NEW k \in DOMAIN Entries(d)
             PROVE  LET g == Guards(d, k, base)
                    IN  /\ base <= g.below
                        /\ g.above <= base + registry[d].size
                        /\ \A l \in DOMAIN Entries(d) \ {k} :
                              LET h == Guards(d, l, base)
                              IN  g.above <= h.first \/ h.end <= g.below
  BY Zenon DEF PieceGuardsApart
<1> DEFINE P == protect_size(build)
<1>1. base \in Nat /\ build \in Builds /\ IsRegistry(build, registry[d])
  BY BasesAssumption, Zenon DEF RegistriesOK
<1>2. PageSize \in Nat \ {0} /\ P \in Nat /\ buffer_protect_size(build) = P + PageSize
  <2>1. 1 \in Nat \ {0}
    OBVIOUS
  <2> QED
    BY <1>1, <2>1, SizesNat, TrackingAssumption, Zenon
<1>3. ASSUME NEW l \in DOMAIN Entries(d)
      PROVE  LET e == Entries(d)[l]
                 g == Guards(d, l, base)
                 a == Piece(d, l, base)
             IN  /\ a \in Nat /\ e.size \in Nat /\ e.offset \in Nat /\ e.capacity \in Nat
                 /\ g.below = page_start(a) - P /\ g.first = page_start(a)
                 /\ g.end = page_end(a + e.size) /\ g.above = page_end(a + e.size) + P
                 /\ g.first \in Nat /\ g.end \in Nat
                 /\ base + e.offset <= a
                 /\ base <= g.below
                 /\ g.above <= base + e.offset + e.capacity
                 /\ e.offset + e.capacity <= registry[d].size
                 /\ registry[d].size \in Nat
  <2> DEFINE e == Entries(d)[l]
             g == Guards(d, l, base)
             a == Piece(d, l, base)
  <2>1. /\ a \in Nat /\ e.offset \in Nat /\ e.capacity \in Nat
        /\ e.size \in Nat /\ registry[d].size \in Nat
        /\ base + e.offset <= a
        /\ a + e.size + buffer_protect_size(build) <= base + e.offset + e.capacity
        /\ e.offset + e.capacity <= registry[d].size
        /\ e.offset >= buffer_protect_size(build)
    BY <1>1, <1>3, PieceRange, Zenon DEF Entries, Piece
  <2>2. /\ g.below = page_start(a) - P /\ g.first = page_start(a)
        /\ g.end = page_end(a + e.size) /\ g.above = page_end(a + e.size) + P
    BY Zenon DEF Guards, guarded
  <2> HIDE DEF e, a, g, P
  <2>3. /\ page_start(a) \in Nat /\ a <= page_start(a) + PageSize - 1
    BY <2>1, PageStartRange, Zenon
  <2>4. page_end(a + e.size) \in Nat /\ page_end(a + e.size) <= a + e.size + PageSize - 1
    <3>1. a + e.size \in Nat
      BY <2>1
    <3>2. /\ rnd_up(a + e.size, PageSize) \in Nat
          /\ rnd_up(a + e.size, PageSize) <= a + e.size + PageSize - 1
      BY ONLY <1>2, <3>1, RndUpRange, Zenon
    <3> QED
      BY <3>2, Zenon DEF page_end
  <2>5. base <= g.below /\ g.above <= base + e.offset + e.capacity
    BY <1>1, <1>2, <2>1, <2>2, <2>3, <2>4
  <2> QED
    BY <2>1, <2>2, <2>3, <2>4, <2>5, Zenon DEF e, a, g
<1>4. ASSUME NEW i \in DOMAIN Entries(d), NEW j \in DOMAIN Entries(d),
             Entries(d)[i].offset + Entries(d)[i].capacity <= Entries(d)[j].offset
      PROVE  /\ Guards(d, i, base).above <= Guards(d, j, base).first
             /\ Guards(d, i, base).end <= Guards(d, j, base).below
  <2> DEFINE x == Piece(d, i, base) + Entries(d)[i].size
             y == Piece(d, j, base)
  <2>1. x \in Nat /\ y \in Nat
    BY <1>3
  <2>2. page_end(x) + P <= y
    BY <1>1, <1>2, <1>3, <1>4
  <2>3. page_end(x) + P <= page_start(y)
    BY <1>1, <2>1, <2>2, PagesApart, Zenon
  <2>4. /\ Guards(d, i, base).above = page_end(x) + P
        /\ Guards(d, i, base).end = page_end(x)
        /\ Guards(d, j, base).first = page_start(y)
        /\ Guards(d, j, base).below = page_start(y) - P
        /\ page_end(x) \in Nat /\ page_start(y) \in Nat
    BY <1>3, Zenon
  <2> HIDE DEF x, y, P
  <2> QED
    BY <1>2, <2>3, <2>4
<1>5. ASSUME NEW l \in DOMAIN Entries(d) \ {k}
      PROVE  \/ Guards(d, k, base).above <= Guards(d, l, base).first
             \/ Guards(d, l, base).end <= Guards(d, k, base).below
  <2>1. \/ Entries(d)[k].offset + Entries(d)[k].capacity <= Entries(d)[l].offset
        \/ Entries(d)[l].offset + Entries(d)[l].capacity <= Entries(d)[k].offset
    BY <1>1, <1>5, Zenon DEF IsRegistry, Entries
  <2> QED
    BY <1>4, <2>1, Zenon
<1>6. base <= Guards(d, k, base).below /\ Guards(d, k, base).above <= base + registry[d].size
  BY <1>1, <1>2, <1>3
<1> QED
  BY <1>5, <1>6, Zenon

(* Wherever a scratchpad starts, the pieces its registry hands out never
   overlap and never leave the size() bytes asked for - for any bookings, any
   alignments and every build (registry_t::book, entry_t::compute_ptr). *)
THEOREM PiecesAlwaysApart == PadSpec => []PiecesApart
<1>1. PadInit => RegistriesOK
  BY RegistriesKept, Zenon
<1>2. RegistriesOK /\ [PadNext]_padVars => RegistriesOK'
  BY RegistriesKept, Zenon
<1>3. RegistriesOK => PiecesApart
  BY ApartFromOK, Zenon
<1> QED
  BY <1>1, <1>2, <1>3, PTL DEF PadSpec

-----------------------------------------------------------------------------
(* The composition. *)

(* A live primitive has a complete descriptor and one scratchpad, which was
   asked to hold what the descriptor's registry counts. *)
LinkOK ==
    /\ desc \in [Primitives -> Descs \cup {None}]
    /\ own = [p \in Primitives |-> own[p]]
    /\ home \in [Primitives -> Threads \cup {None}]
    /\ need = [p \in Primitives |-> need[p]]
    /\ \A p \in Primitives :
          /\ desc[p] = None => own[p] = None /\ home[p] = None
          /\ desc[p] # None =>
                /\ Complete(desc[p])
                /\ IF own[p] # None
                   THEN own[p] = registry[desc[p]].size /\ home[p] = None
                   ELSE home[p] # None /\ need[p] = registry[desc[p]].size

(* A step of the composition is a step of the global scratchpad or leaves it
   alone. *)
LEMMA PadStepMaps ==
    ASSUME Sizes = Nat \ {0}
    PROVE  RegistriesOK /\ [PadNext]_padVars => [Next]_vars
<1> SUFFICES ASSUME RegistriesOK, [PadNext]_padVars PROVE [Next]_vars
  BY Zenon
<1>1. ASSUME NEW d \in Descs, NeedsScratchpad(d) PROVE registry[d].size \in Sizes
  BY <1>1, Zenon DEF RegistriesOK, IsRegistry, NeedsScratchpad
<1>2. ASSUME NEW t \in Threads, NEW d \in Descs, NEW p \in Primitives,
             CreateGlobal(t, p, d)
      PROVE  Next
  BY <1>1, <1>2, Zenon DEF CreateGlobal, Next
<1>3. ASSUME NEW t \in Threads, NEW d \in Descs, CreateGlobalFails(t, d)
      PROVE  Next
  BY <1>1, <1>3, Zenon DEF CreateGlobalFails, Next
<1>4. ASSUME NEW t \in Threads, NEW p \in Primitives, DestroyGlobal(t, p)
      PROVE  Next
  BY <1>4, Zenon DEF DestroyGlobal, Next
<1> QED
  BY <1>2, <1>3, <1>4, Zenon
  DEF PadNext, padVars, Book, CreateConcurrent, DestroyConcurrent

(* The composition implements the global scratchpad: with descriptors that
   book what they like, dnnl_primitive::init drives global_scratchpad_t only in
   ways its own specification allows. *)
THEOREM PadImplementsGlobal ==
    ASSUME Sizes = Nat \ {0}
    PROVE  PadSpec => Spec
<1>1. PadInit => RegistriesOK
  BY RegistriesKept, Zenon
<1>2. RegistriesOK /\ [PadNext]_padVars => RegistriesOK'
  BY RegistriesKept, Zenon
<1>3. RegistriesOK /\ [PadNext]_padVars => [Next]_vars
  BY PadStepMaps, Zenon
<1>4. PadInit => Init
  BY Zenon DEF PadInit
<1> QED
  BY <1>1, <1>2, <1>3, <1>4, PTL DEF PadSpec, Spec

(* A registry does not change once its descriptor is complete. *)
LEMMA CompleteKept ==
    ASSUME RegistriesOK, PadNext, NEW d \in Descs, Complete(d)
    PROVE  Complete(d)' /\ registry'[d] = registry[d]
<1>1. CASE UNCHANGED <<build, registry, booked>>
  BY <1>1, Zenon DEF Complete
<1>2. ASSUME NEW c \in Descs, Book(c)
      PROVE  Complete(d)' /\ registry'[d] = registry[d]
  <2>1. c # d
    BY <1>2, Zenon DEF Book
  <2> QED
    BY <1>2, <2>1, Zenon DEF Book, RegistriesOK, Complete
<1> QED
  BY <1>1, <1>2, Zenon
  DEF PadNext, CreateGlobal, CreateGlobalFails, CreateConcurrent,
      DestroyGlobal, DestroyConcurrent, trackVars

(* The link between a primitive, its descriptor and its scratchpad is made by
   its creation and kept until its destruction. *)
LEMMA LinkKept ==
    /\ PadInit => LinkOK
    /\ RegistriesOK /\ LinkOK /\ [PadNext]_padVars => LinkOK'
<1>1. ASSUME PadInit PROVE LinkOK
  BY <1>1, Zenon DEF PadInit, Init, LinkOK
<1>2. ASSUME RegistriesOK, LinkOK, UNCHANGED padVars PROVE LinkOK'
  BY <1>2, Zenon DEF LinkOK, padVars, vars, trackVars, Complete
<1>3. ASSUME RegistriesOK, LinkOK, PadNext PROVE LinkOK'
  <2>1. \A d \in Descs : Complete(d) => Complete(d)' /\ registry'[d] = registry[d]
    BY <1>3, CompleteKept, Zenon
  <2>2. CASE UNCHANGED <<desc, own, home, need>>
    BY <1>3, <2>1, <2>2 DEF LinkOK
  <2>3. ASSUME NEW t \in Threads, NEW d \in Descs, NEW p \in Primitives,
               CreateGlobal(t, p, d)
        PROVE  LinkOK'
    <3>1. /\ Complete(d) /\ own[p] = None /\ home[p] = None
          /\ home' = [home EXCEPT ![p] = t]
          /\ need' = [need EXCEPT ![p] = registry[d].size]
          /\ desc' = [desc EXCEPT ![p] = d]
          /\ own' = own
      BY <2>3, Zenon DEF CreateGlobal, Create, NeedsScratchpad
    <3> QED
      BY <1>3, <2>1, <3>1, NoneAssumption, NoDescAssumption DEF LinkOK
  <2>4. ASSUME NEW p \in Primitives, NEW d \in Descs, CreateConcurrent(p, d)
        PROVE  LinkOK'
    <3>1. /\ Complete(d) /\ desc[p] = None
          /\ home' = home /\ need' = need
          /\ desc' = [desc EXCEPT ![p] = d]
          /\ own' = [own EXCEPT ![p] = registry[d].size]
      BY <2>4, Zenon DEF CreateConcurrent, NeedsScratchpad, vars
    <3>2. registry[d].size # None
      BY <1>3, NoneAssumption, Zenon DEF RegistriesOK, IsRegistry
    <3> QED
      BY <1>3, <2>1, <3>1, <3>2, NoDescAssumption DEF LinkOK
  <2>5. ASSUME NEW t \in Threads, NEW p \in Primitives, DestroyGlobal(t, p)
        PROVE  LinkOK'
    <3>1. /\ home[p] # None
          /\ home' = [home EXCEPT ![p] = None]
          /\ need' = [need EXCEPT ![p] = 0]
          /\ desc' = [desc EXCEPT ![p] = None]
          /\ own' = own
      BY <2>5, Zenon DEF DestroyGlobal, Destroy
    <3> QED
      BY <1>3, <2>1, <3>1 DEF LinkOK
  <2>6. ASSUME NEW p \in Primitives, DestroyConcurrent(p) PROVE LinkOK'
    <3>1. /\ own[p] # None
          /\ home' = home /\ need' = need
          /\ desc' = [desc EXCEPT ![p] = None]
          /\ own' = [own EXCEPT ![p] = None]
      BY <2>6, Zenon DEF DestroyConcurrent, vars
    <3> QED
      BY <1>3, <2>1, <3>1 DEF LinkOK
  <2> QED
    BY <1>3, <2>2, <2>3, <2>4, <2>5, <2>6
    DEF PadNext, Book, CreateGlobalFails, CreateFails, vars, trackVars
<1> QED
  BY <1>1, <1>2, <1>3, Zenon

(* A scratchpad that covers what its primitive asked for holds all the pieces
   of the primitive's descriptor. *)
LEMMA InStorageFromOK ==
    RegistriesOK /\ LinkOK /\ StorageCoversPrimitive /\ TypeOK => PiecesInStorage
<1> SUFFICES ASSUME RegistriesOK, LinkOK, StorageCoversPrimitive, TypeOK,
                    NEW p \in Primitives, desc[p] # None
             PROVE  LET storage == IF own[p] # None THEN own[p] ELSE mem_storage[home[p]]
                    IN  /\ storage # None
                        /\ storage >= registry[desc[p]].size
                        /\ \A base \in Bases : \A k \in DOMAIN Entries(desc[p]) :
                              Piece(desc[p], k, base) + Entries(desc[p])[k].size
                                  <= base + storage
  BY Zenon DEF PiecesInStorage
<1> DEFINE storage == IF own[p] # None THEN own[p] ELSE mem_storage[home[p]]
           d == desc[p]
<1>1. d \in Descs
  BY Zenon DEF LinkOK
<1>2. registry[d].size \in Nat
  BY <1>1, Zenon DEF RegistriesOK, IsRegistry
<1>3. storage \in Nat /\ storage >= registry[d].size
  <2>1. CASE own[p] # None
    BY <1>2, <2>1 DEF LinkOK
  <2>2. CASE own[p] = None
    <3>1. home[p] \in Threads /\ need[p] = registry[d].size
      BY <2>2, Zenon DEF LinkOK
    <3>2. mem_storage[home[p]] # None /\ mem_storage[home[p]] >= need[p]
      BY <3>1, Zenon DEF StorageCoversPrimitive, LiveIn
    <3>3. mem_storage[home[p]] \in Nat
      BY <3>1, <3>2, Zenon DEF TypeOK
    <3> QED
      BY <2>2, <3>1, <3>2, <3>3, Zenon
  <2> QED
    BY <2>1, <2>2, Zenon
<1>4. \A base \in Bases : \A k \in DOMAIN Entries(d) :
         /\ base \in Nat
         /\ Piece(d, k, base) \in Nat /\ Entries(d)[k].size \in Nat
         /\ Piece(d, k, base) + Entries(d)[k].size <= base + registry[d].size
  <2> SUFFICES ASSUME NEW base \in Bases, NEW k \in DOMAIN Entries(d)
               PROVE  /\ base \in Nat
                      /\ Piece(d, k, base) \in Nat /\ Entries(d)[k].size \in Nat
                      /\ Piece(d, k, base) + Entries(d)[k].size
                            <= base + registry[d].size
    BY Zenon
  <2>1. base \in Nat /\ build \in Builds /\ IsRegistry(build, registry[d])
    BY <1>1, BasesAssumption, Zenon DEF RegistriesOK
  <2>2. Piece(d, k, base) \in Nat /\ Entries(d)[k].size \in Nat
    BY <2>1, PieceRange, Zenon DEF Entries, Piece
  <2>3. Piece(d, k, base) + Entries(d)[k].size <= base + registry[d].size
    BY <1>1, ApartFromOK, Zenon DEF PiecesApart
  <2> QED
    BY <2>1, <2>2, <2>3, Zenon
<1>5. storage # None
  BY <1>3, NoneAssumption, Zenon
<1> HIDE DEF storage, d
<1>6. \A base \in Bases : \A k \in DOMAIN Entries(d) :
         Piece(d, k, base) + Entries(d)[k].size <= base + storage
  BY <1>2, <1>3, <1>4
<1> QED
  BY <1>3, <1>5, <1>6, Zenon DEF storage, d
-----------------------------------------------------------------------------
(* Memory debugging. *)

(* What malloc returns, with the pages protected around it, lies in what it
   asked for, if a cache line divides a page. *)
LEMMA MallocGuarded ==
    ASSUME NEW m \in Builds, is_mem_debug(m), NEW n \in Nat,
           NEW c \in Nat \ {0}, NEW k \in Nat \ {0}, PageSize = k * c
    PROVE  LET mem_start == larger(c, PageSize)
               s == debug_malloc(m, n, c, mem_start)
               g == guarded(m, s.ptr, s.size)
           IN  /\ mem_start <= g.below
               /\ g.above <= mem_start + s.asked
               /\ n <= s.size
               /\ s.ptr % c = 0
<1> DEFINE S == PageSize
           P == protect_size(m)
           b == rnd_up(n, c)
           L == rnd_up(n, S)
           ptr0 == rnd_up(S + P, S)
           shift == IF m = "overflow" THEN (S - (b % S)) % S ELSE 0
           asked == rnd_up(n + S + 2 * P, S)
           F == ProtectPages
<1>1. /\ S \in Nat \ {0} /\ S = k * c /\ F \in Nat /\ P = F * S
      /\ P \in Nat /\ S + P \in Nat /\ n + S + 2 * P \in Nat
  BY TrackingAssumption, SMT DEF protect_size
<1>2. larger(c, S) = S
  <2>1. 1 * c <= k * c
    BY TimesMono
  <2> QED
    BY <1>1, <2>1 DEF larger
<1>3. /\ debug_malloc(m, n, c, S) = [asked |-> asked, ptr |-> ptr0 + shift, size |-> b]
  BY <1>2, Zenon DEF debug_malloc
<1>4. b \in Nat /\ n <= b
  BY RndUpRange, Zenon
<1>5. PICK l \in Int : L = l * S
  BY <1>1, RndUpLeast, Zenon
<1>6. L \in Nat /\ n <= L
  BY <1>1, RndUpRange, Zenon
<1>7. \A q \in Int : n <= q * c => b <= q * c
  BY RndUpLeast, Zenon
<1>8. \A q \in Int : n <= q * S => L <= q * S
  BY <1>1, RndUpLeast, Zenon
<1>9. PICK e \in Int : b = e * c
  BY RndUpLeast, Zenon
<1> HIDE DEF S, P, b, L, F
(* A whole number of pages is a whole number of cache lines. *)
<1>10. b <= L
  <2>1. l * k \in Int /\ L = (l * k) * c
    BY <1>1, <1>5
  <2> QED
    BY <1>6, <1>7, <2>1, Zenon
<1>11. \E h \in Int : shift \in Nat /\ b + shift <= L /\ shift = h * c
  <2>1. CASE m # "overflow"
    <3>1. 0 \in Int /\ shift \in Nat /\ b + shift <= L /\ shift = 0 * c
      BY <1>4, <1>10, <2>1
    <3> QED
      BY ONLY <3>1, Zenon
  <2>2. CASE m = "overflow"
    <3>1. shift \in Nat /\ b + shift = rnd_up(b, S)
      BY <1>1, <1>4, <2>2, ShiftCompletes, Zenon
    <3>2. PICK j \in Int : rnd_up(b, S) = j * S
      BY <1>1, <1>4, RndUpLeast, Zenon
    <3>3. rnd_up(b, S) <= l * S
      <4>1. \A q \in Int : b <= q * S => rnd_up(b, S) <= q * S
        BY <1>1, <1>4, RndUpLeast, Zenon
      <4> QED
        BY <1>5, <1>10, <4>1, Zenon
    <3> HIDE DEF shift
    <3>4. j * k - e \in Int /\ shift = (j * k - e) * c
      BY <1>1, <1>4, <1>9, <3>1, <3>2
    <3>5. b + shift <= L
      BY <1>5, <3>1, <3>3, Zenon
    <3> QED
      BY ONLY <3>1, <3>4, <3>5, Zenon
  <2> QED
    BY <2>1, <2>2, Zenon
<1>12. PICK h \in Int : shift \in Nat /\ b + shift <= L /\ shift = h * c
  BY <1>11, Zenon
<1>13. ptr0 = (F + 1) * S
  <2>1. S + P = (F + 1) * S /\ F + 1 \in Int
    BY <1>1
  <2>2. \A q \in Int : S + P <= q * S => rnd_up(S + P, S) <= q * S
    BY <1>1, RndUpLeast, Zenon
  <2>3. S + P <= ptr0 /\ ptr0 \in Nat
    BY <1>1, RndUpRange, Zenon
  <2>4. rnd_up(S + P, S) <= (F + 1) * S
    BY <1>1, <2>1, <2>2
  <2> QED
    BY <1>1, <2>1, <2>3, <2>4
<1>14. asked \in Nat /\ L + S + 2 * P <= asked
  <2>1. PICK v \in Int : asked = v * S
    BY <1>1, RndUpLeast, Zenon
  <2>2. asked \in Nat /\ n + S + 2 * P <= asked
    BY <1>1, RndUpRange, Zenon
  <2> HIDE DEF asked
  <2>3. v - 1 - 2 * F \in Int /\ (v - 1 - 2 * F) * S = asked - S - 2 * P
    BY <1>1, <2>1
  <2>4. n <= (v - 1 - 2 * F) * S
    BY <1>1, <2>2, <2>3
  <2>5. L <= (v - 1 - 2 * F) * S
    BY <1>8, <2>3, <2>4, Zenon
  <2> QED
    BY <1>1, <1>6, <2>2, <2>3, <2>5
<1> HIDE DEF ptr0, shift, asked
<1>15. ptr0 \in Nat /\ ptr0 = S + P /\ ptr0 + shift \in Nat /\ ptr0 + shift + b \in Nat
  BY <1>1, <1>4, <1>12, <1>13
<1>16. /\ ptr0 <= page_start(ptr0 + shift) /\ page_start(ptr0 + shift) \in Nat
  <2>1. F + 1 \in Int /\ (F + 1) * PageSize <= ptr0 + shift
    BY <1>1, <1>12, <1>13, <1>15 DEF S
  <2>2. (F + 1) * PageSize <= page_start(ptr0 + shift)
    BY <1>15, <2>1, PageStartGreatest, Zenon
  <2> QED
    BY <1>13, <1>15, <2>2, PageStartRange, Zenon DEF S
<1>17. page_end(ptr0 + shift + b) <= ptr0 + L /\ page_end(ptr0 + shift + b) \in Nat
  <2>1. F + 1 + l \in Int /\ (F + 1 + l) * S = ptr0 + L
    BY <1>1, <1>5, <1>13
  <2>2. ptr0 + shift + b <= (F + 1 + l) * S
    BY <1>4, <1>6, <1>12, <1>15, <2>1
  <2>3. \A q \in Int : ptr0 + shift + b <= q * S => rnd_up(ptr0 + shift + b, S) <= q * S
    BY <1>1, <1>15, RndUpLeast, Zenon
  <2>4. rnd_up(ptr0 + shift + b, S) <= (F + 1 + l) * S
    BY <2>1, <2>2, <2>3, Zenon
  <2>5. rnd_up(ptr0 + shift + b, S) \in Nat
    BY <1>1, <1>15, RndUpRange, Zenon
  <2> QED
    BY <2>1, <2>4, <2>5, Zenon DEF page_end, S
<1>18. (ptr0 + shift) % c = 0
  <2>1. (F + 1) * k + h \in Int /\ ptr0 + shift = ((F + 1) * k + h) * c
    BY <1>1, <1>12, <1>13
  <2>2. (((F + 1) * k + h) * c) % c = 0
    BY <2>1, MultipleMod, Zenon
  <2> QED
    BY <2>1, <2>2, Zenon
<1>19. S <= page_start(ptr0 + shift) - P
  BY <1>1, <1>15, <1>16
<1>20. page_end(ptr0 + shift + b) + P <= S + asked
  BY <1>1, <1>6, <1>14, <1>15, <1>17
<1> QED
  BY <1>2, <1>3, <1>4, <1>18, <1>19, <1>20 DEF guarded, S, P

(* In a build with memory debugging the pages protect_buffer protects around a
   piece lie inside the scratchpad and off the pages of every other piece, and
   those around a scratchpad lie in what malloc asked for, on a platform whose
   cache lines divide its pages. *)
THEOREM GuardsAlwaysApart ==
    ASSUME NEW lines \in Nat \ {0}, PageSize = lines * CacheLine
    PROVE  PadSpec => []GuardsApart
<1>1. PadInit => RegistriesOK /\ LinkOK
  BY RegistriesKept, LinkKept, Zenon
<1>2. RegistriesOK /\ LinkOK /\ [PadNext]_padVars => RegistriesOK' /\ LinkOK'
  BY RegistriesKept, LinkKept, Zenon
<1>3. RegistriesOK /\ LinkOK => GuardsApart
  <2> SUFFICES ASSUME RegistriesOK, LinkOK, is_mem_debug(build)
               PROVE  PieceGuardsApart /\ StorageGuarded
    BY Zenon DEF GuardsApart
  <2>1. PieceGuardsApart
    BY GuardsFromOK, Zenon
  <2>2. ASSUME NEW p \in Primitives, own[p] # None
        PROVE  build \in Builds /\ own[p] \in Nat /\ CacheLine \in Nat \ {0}
    <3>1. desc[p] \in Descs /\ own[p] = registry[desc[p]].size
      BY <2>2, Zenon DEF LinkOK
    <3> QED
      BY <3>1, BasesAssumption, Zenon DEF RegistriesOK, IsRegistry
  <2>3. StorageGuarded
    BY <2>2, MallocGuarded, Zenon DEF StorageGuarded
  <2> QED
    BY <2>1, <2>3, Zenon
<1> QED
  BY <1>1, <1>2, <1>3, PTL DEF PadSpec
-----------------------------------------------------------------------------
(* What was booked is found again. *)

\* The key of a booking, as registrar_t::book makes it from the prefixes.
KeyOf(b) == make_key(prefix_of(b.path), b.key)

\* The bytes a booking asks for: for a nested primitive, those of its registry.
Asked(b) == IF b.nested = None THEN b.bytes ELSE registry[b.nested].size

\* The alignment its entry gets.
DataAlign(b) == IF b.nested = None THEN b.data_align ELSE default_alignment
EntryAlign(m, b) ==
    IF is_mem_debug(m) THEN DataAlign(b) ELSE larger(DataAlign(b), b.perf_align)

\* The assertion of registry_t::book: no descriptor books a key twice.
KeysOnce ==
    \A d \in Descs : \A i, j \in 1 .. Len(Bookings[d]) :
        KeyOf(Bookings[d][i]) = KeyOf(Bookings[d][j]) => i = j

\* Alignments and the page size are powers of two, so that a smaller one divides a
\* larger one; data is aligned to a page at most; a nested registry is booked
\* with the default alignment.
AlignmentsNest ==
    \A d \in Descs : \A i \in 1 .. Len(Bookings[d]) :
        LET b == Bookings[d][i]
            all == {b.data_align, b.perf_align, default_alignment, PageSize}
        IN  /\ \A x, y \in all : x <= y => y % x = 0
            /\ b.data_align <= PageSize
            /\ b.nested # None => b.data_align = default_alignment

\* A booking that was made has its entry, of the size it asks for still, and
\* every entry is that of a booking; the registry of a nested primitive was
\* complete when it was booked, and does not change any more.
BookingsOK ==
    \A d \in Descs :
        /\ \A i \in 1 .. booked[d] :
              LET b == Bookings[d][i]
                  e == registry[d].offset_map[KeyOf(b)]
              IN  /\ b.nested # None => Complete(b.nested)
                  /\ Asked(b) # 0 =>
                        /\ KeyOf(b) \in DOMAIN registry[d].offset_map
                        /\ e.size = Asked(b)
                        /\ e.alignment = EntryAlign(build, b)
        /\ \A k \in DOMAIN registry[d].offset_map :
              \E i \in 1 .. booked[d] :
                  KeyOf(Bookings[d][i]) = k /\ Asked(Bookings[d][i]) # 0

\* A number is a multiple of another.
Divides(x, y) == \E q \in Int : y = q * x

(* What leaves no remainder is a multiple, and the other way round. *)
LEMMA DividesMod ==
    ASSUME NEW x \in Nat \ {0}, NEW y \in Int
    PROVE  Divides(x, y) <=> y % x = 0
<1>1. ASSUME Divides(x, y) PROVE y % x = 0
  <2>1. PICK q \in Int : y = q * x
    BY <1>1, Zenon DEF Divides
  <2> QED
    BY <2>1, MultipleMod, Zenon
<1>2. ASSUME y % x = 0 PROVE Divides(x, y)
  <2>1. y \div x \in Int /\ y = (y \div x) * x + (y % x)
    BY SMT
  <2>2. y = (y \div x) * x
    BY <1>2, <2>1
  <2> QED
    BY <2>1, <2>2, Zenon DEF Divides
<1> QED
  BY <1>1, <1>2, Zenon

(* Multiples of a multiple, sums and differences of multiples are multiples. *)
LEMMA DividesClosed ==
    ASSUME NEW x \in Nat \ {0}, NEW y \in Int, NEW z \in Int, Divides(x, y)
    PROVE  /\ Divides(y, z) => Divides(x, z)
           /\ Divides(x, z) => Divides(x, y + z) /\ Divides(x, y - z)
<1>1. PICK q \in Int : y = q * x
  BY Zenon DEF Divides
<1>2. ASSUME Divides(y, z) PROVE Divides(x, z)
  <2>1. PICK p \in Int : z = p * y
    BY <1>2, Zenon DEF Divides
  <2>2. p * q \in Int /\ z = (p * q) * x
    BY <1>1, <2>1, SMT
  <2> QED
    BY <2>2, Zenon DEF Divides
<1>3. ASSUME Divides(x, z) PROVE Divides(x, y + z) /\ Divides(x, y - z)
  <2>1. PICK p \in Int : z = p * x
    BY <1>3, Zenon DEF Divides
  <2>2. q + p \in Int /\ q - p \in Int /\ y + z = (q + p) * x /\ y - z = (q - p) * x
    BY <1>1, <2>1, SMT
  <2> QED
    BY <2>2, Zenon DEF Divides
<1> QED
  BY <1>2, <1>3, Zenon

(* The remainder of a multiple, for a divisor that is one as well, is a
   multiple. *)
LEMMA DividesRest ==
    ASSUME NEW x \in Nat \ {0}, NEW y \in Int, NEW c \in Nat \ {0},
           Divides(x, y), Divides(x, c)
    PROVE  y % c \in Int /\ Divides(x, y % c)
<1> DEFINE q == y \div c
<1>1. q \in Int /\ y % c \in Int /\ q * c \in Int /\ y % c = y - q * c
  BY SMT
<1> HIDE DEF q
<1>2. Divides(c, q * c)
  BY <1>1, Zenon DEF Divides
<1>3. Divides(x, q * c)
  BY <1>1, <1>2, DividesClosed
<1>4. Divides(x, y - q * c)
  BY <1>1, <1>3, DividesClosed, Zenon
<1> QED
  BY <1>1, <1>4, Zenon

(* rnd_up returns a multiple of the alignment. *)
LEMMA RndUpDivides ==
    ASSUME NEW x \in Nat, NEW a \in Nat \ {0}
    PROVE  rnd_up(x, a) \in Nat /\ Divides(a, rnd_up(x, a))
BY RndUpRange, RndUpLeast, Zenon DEF Divides

(* entry_t::compute_ptr aligns a piece for every alignment that divides that of
   its entry and the page size or, without memory debugging, that of its entry
   as get_alignment raises it. *)
LEMMA PtrAligned ==
    ASSUME NEW m \in Builds, NEW e, NEW n \in Nat, IsEntry(m, e, n),
           NEW base \in Nat, NEW x \in Nat \ {0},
           Divides(x, get_alignment(m, e.alignment)),
           m = "overflow" => Divides(x, e.alignment) /\ Divides(x, PageSize)
    PROVE  Divides(x, compute_ptr(m, e, base))
<1> DEFINE ptr == base + e.offset
           A == get_alignment(m, e.alignment)
           aligned == rnd_up(ptr, A)
           S == rnd_up(e.size, e.alignment)
           off == S % PageSize
<1>1. /\ e.offset \in Nat /\ e.size \in Nat /\ e.alignment \in Nat \ {0}
      /\ ptr \in Nat
      /\ PageSize \in Nat \ {0}
  BY TrackingAssumption DEF IsEntry
<1>2. A \in Nat \ {0}
  BY <1>1, SizesNat, Zenon
<1>3. aligned \in Nat /\ Divides(A, aligned)
  BY <1>1, <1>2, RndUpDivides, Zenon
<1>4. Divides(x, aligned)
  <2> HIDE DEF aligned, A
  <2>1. Divides(x, A)
    BY Zenon DEF A
  <2> QED
    BY <1>2, <1>3, <2>1, DividesClosed
<1>5. compute_ptr(m, e, base) =
        IF m = "overflow" /\ e.size % PageSize # 0
        THEN IF (aligned + PageSize - off) - PageSize > ptr
             THEN (aligned + PageSize - off) - PageSize
             ELSE aligned + PageSize - off
        ELSE aligned
  BY Zenon DEF compute_ptr
<1>6. CASE m = "overflow"
  <2>1. S \in Nat /\ Divides(e.alignment, S)
    BY <1>1, RndUpDivides, Zenon
  <2>2. Divides(x, S)
    <3> HIDE DEF S
    <3>1. Divides(x, e.alignment)
      BY <1>6, Zenon
    <3> QED
      BY <1>1, <2>1, <3>1, DividesClosed
  <2>3. off \in Int /\ Divides(x, off)
    <3> HIDE DEF S
    <3> QED
      BY <1>1, <1>6, <2>1, <2>2, DividesRest
  <2> HIDE DEF aligned, off
  <2>4. aligned - off \in Int /\ Divides(x, aligned - off)
    BY <1>3, <1>4, <2>3, DividesClosed
  <2>5. Divides(x, (aligned - off) + PageSize)
    BY <1>1, <1>6, <2>4, DividesClosed
  <2>6. /\ (aligned + PageSize - off) - PageSize = aligned - off
        /\ aligned + PageSize - off = (aligned - off) + PageSize
    BY <1>1, <1>3, <2>3
  <2> QED
    BY <1>4, <1>5, <2>4, <2>5, <2>6, Zenon
<1>7. CASE m # "overflow"
  BY <1>4, <1>5, <1>7, Zenon
<1> QED
  BY <1>6, <1>7, Zenon

(* Under these alignments every piece is aligned as booked. *)
LEMMA EntryAligned ==
    ASSUME NEW d \in Descs, NEW i \in 1 .. Len(Bookings[d]), AlignmentsNest,
           NEW m \in Builds, NEW e, NEW n \in Nat, IsEntry(m, e, n),
           e.alignment = EntryAlign(m, Bookings[d][i]), NEW base \in Nat
    PROVE  /\ compute_ptr(m, e, base) % Bookings[d][i].data_align = 0
           /\ m = "release" => compute_ptr(m, e, base) % Bookings[d][i].perf_align = 0
<1> DEFINE b == Bookings[d][i]
           D == b.data_align
           P == b.perf_align
           A == get_alignment(m, e.alignment)
<1>1. b \in Booking
  BY BookingsAssumption
<1>2. D \in Nat \ {0} /\ P \in Nat \ {0} /\ b.nested \in Descs \cup {None}
  BY <1>1, Zenon DEF Booking
<1>3. /\ \A x, y \in {D, P, default_alignment, PageSize} : x <= y => y % x = 0
      /\ D <= PageSize
      /\ b.nested # None => D = default_alignment
  BY Zenon DEF AlignmentsNest
<1>4. /\ default_alignment \in Nat \ {0} /\ PageSize \in Nat \ {0}
  BY TrackingAssumption, Zenon
<1>5. DataAlign(b) = D
  BY <1>3, Zenon DEF DataAlign
<1> HIDE DEF b, D, P
<1>6. \A x, y \in {D, P, default_alignment, PageSize} : x <= y => Divides(x, y)
  <2> SUFFICES ASSUME NEW x \in {D, P, default_alignment, PageSize},
                      NEW y \in {D, P, default_alignment, PageSize}, x <= y
               PROVE  Divides(x, y)
    BY Zenon
  <2>1. x \in Nat \ {0} /\ y \in Int
    BY <1>2, <1>4
  <2>2. y % x = 0
    BY <1>3, Zenon
  <2> QED
    BY <2>1, <2>2, DividesMod, Zenon
<1>7. e.alignment = IF is_mem_debug(m) THEN D ELSE larger(D, P)
  BY <1>5, Zenon DEF EntryAlign, b, P
<1>8. /\ A \in {D, P, default_alignment, PageSize}
      /\ D <= A
      /\ m = "release" => P <= A
  BY <1>2, <1>4, <1>7 DEF get_alignment, larger, is_mem_debug
<1> HIDE DEF A
<1>9. /\ Divides(D, A)
      /\ m = "release" => Divides(P, A)
      /\ Divides(D, PageSize) /\ Divides(D, D)
  <2>1. D <= D
    BY <1>2
  <2> QED
    BY <1>3, <1>6, <1>8, <2>1, Zenon
<1>10. m = "overflow" => e.alignment = D
  BY <1>7, Zenon DEF is_mem_debug
<1>11. Divides(D, compute_ptr(m, e, base))
  BY <1>2, <1>9, <1>10, PtrAligned, Zenon DEF A
<1>12. m = "release" => Divides(P, compute_ptr(m, e, base))
  BY <1>2, <1>9, PtrAligned, Zenon DEF A
<1>13. compute_ptr(m, e, base) \in Int
  BY PtrRange
<1> QED
  BY <1>2, <1>11, <1>12, <1>13, DividesMod, Zenon DEF b, D, P

(* registry_t::book adds an entry for what is not empty, and keeps the others. *)
LEMMA BookAdds ==
    ASSUME NEW m, NEW r, NEW key, NEW n, NEW da, NEW pa
    PROVE  LET s == book(m, r, key, n, da, pa)
           IN  /\ n = 0 => s = r
               /\ n # 0 =>
                     /\ DOMAIN s.offset_map = DOMAIN r.offset_map \cup {key}
                     /\ s.offset_map[key].size = n
                     /\ s.offset_map[key].alignment =
                           IF is_mem_debug(m) THEN da ELSE larger(da, pa)
                     /\ \A k \in DOMAIN r.offset_map \ {key} :
                           s.offset_map[k] = r.offset_map[k]
BY Zenon DEF book

(* A booking keeps those made before it: it has a key of its own, and is not
   made in a registry that another one has booked. *)
LEMMA BookingsStay ==
    ASSUME KeysOnce, RegistriesOK, BookingsOK, NEW d \in Descs, Book(d)
    PROVE  BookingsOK'
<1>0. PICK n : n = booked[d] + 1
  BY Zenon
<1> DEFINE b == Bookings[d][n]
           new == registrar_book(registry[d], b)
<1>1. /\ booked[d] \in Nat /\ Len(Bookings[d]) \in Nat /\ booked[d] < Len(Bookings[d])
  BY BookingsAssumption DEF RegistriesOK, Book, Complete
<1>2. b \in Booking /\ n \in 1 .. Len(Bookings[d])
  BY <1>0, <1>1, BookingFacts
<1>3. /\ build' = build
      /\ registry' = [registry EXCEPT ![d] = new]
      /\ booked' = [booked EXCEPT ![d] = @ + 1]
      /\ b.nested # None => Complete(b.nested)
  BY <1>0, Zenon DEF Book
<1>4. ~ Complete(d)
  BY Zenon DEF Book
<1> HIDE DEF b, new
<1>5. \A c \in Descs : registry'[c] = IF c = d THEN new ELSE registry[c]
  BY <1>3, Zenon DEF RegistriesOK
<1>6. \A c \in Descs : booked'[c] = IF c = d THEN n ELSE booked[c]
  BY <1>0, <1>3, Zenon DEF RegistriesOK
<1>7. ASSUME NEW a, a.nested # None => a.nested \in Descs /\ Complete(a.nested)
      PROVE  /\ Asked(a)' = Asked(a)
             /\ a.nested # None => Complete(a.nested)'
  BY <1>4, <1>5, <1>6, <1>7, Zenon DEF Asked, Complete
<1>8. ASSUME NEW c \in Descs, NEW i \in 1 .. Len(Bookings[c])
      PROVE  Bookings[c][i] \in Booking
  BY BookingsAssumption
<1>9. ASSUME NEW c \in Descs, NEW i \in 1 .. booked[c]
      PROVE  /\ i \in 1 .. Len(Bookings[c])
             /\ Asked(Bookings[c][i])' = Asked(Bookings[c][i])
             /\ Bookings[c][i].nested # None => Complete(Bookings[c][i].nested)'
  <2>1. i \in 1 .. Len(Bookings[c])
    BY BookingsAssumption DEF RegistriesOK
  <2>2. Bookings[c][i].nested \in Descs \cup {None}
    BY <1>8, <2>1, Zenon DEF Booking
  <2> QED
    BY <1>7, <2>1, <2>2, Zenon DEF BookingsOK
<1>10. /\ Asked(b)' = Asked(b)
       /\ b.nested # None => Complete(b.nested)'
  BY <1>2, <1>3, <1>7, Zenon DEF Booking
<1>11. new = book(build, registry[d], KeyOf(b), Asked(b), DataAlign(b), b.perf_align)
  BY Zenon DEF new, registrar_book, KeyOf, Asked, DataAlign
<1>12. /\ Asked(b) = 0 => new = registry[d]
       /\ Asked(b) # 0 =>
             /\ DOMAIN new.offset_map = DOMAIN registry[d].offset_map \cup {KeyOf(b)}
             /\ new.offset_map[KeyOf(b)].size = Asked(b)
             /\ new.offset_map[KeyOf(b)].alignment = EntryAlign(build, b)
             /\ \A k \in DOMAIN registry[d].offset_map \ {KeyOf(b)} :
                   new.offset_map[k] = registry[d].offset_map[k]
  BY <1>11, BookAdds DEF EntryAlign
<1> DEFINE Kept(c, i) ==
             LET a == Bookings[c][i]
                 e == registry[c].offset_map[KeyOf(a)]
             IN  /\ a.nested # None => Complete(a.nested)
                 /\ Asked(a) # 0 =>
                       /\ KeyOf(a) \in DOMAIN registry[c].offset_map
                       /\ e.size = Asked(a)
                       /\ e.alignment = EntryAlign(build, a)
           Owned(c, k) ==
             \E i \in 1 .. booked[c] :
                 KeyOf(Bookings[c][i]) = k /\ Asked(Bookings[c][i]) # 0
<1>13. ASSUME NEW c \in Descs, NEW i \in 1 .. booked'[c]
       PROVE  Kept(c, i)'
  <2>1. CASE c # d
    <3>1. i \in 1 .. booked[c] /\ registry'[c] = registry[c]
      BY <1>5, <1>6, <2>1, Zenon
    <3>2. Kept(c, i)
      BY <3>1, Zenon DEF BookingsOK
    <3> QED
      BY <1>3, <1>9, <3>1, <3>2, Zenon DEF EntryAlign
  <2>2. CASE c = d /\ i = n
    BY <1>3, <1>5, <1>10, <1>12, <2>2, Zenon DEF b, EntryAlign
  <2>3. CASE c = d /\ i # n
    <3> DEFINE a == Bookings[d][i]
    <3>1. i \in 1 .. booked[d]
      BY <1>0, <1>1, <1>6, <2>3
    <3>2. KeyOf(a) # KeyOf(b)
      BY <1>2, <1>9, <2>3, <3>1, Zenon DEF KeysOnce, b
    <3>3. Kept(d, i)
      BY <3>1, Zenon DEF BookingsOK
    <3>4. Asked(a) # 0 => /\ KeyOf(a) \in DOMAIN new.offset_map
                          /\ new.offset_map[KeyOf(a)] = registry[d].offset_map[KeyOf(a)]
      BY <1>12, <3>2, <3>3, Zenon
    <3> QED
      BY <1>3, <1>5, <1>9, <2>3, <3>1, <3>3, <3>4, Zenon DEF EntryAlign
  <2> QED
    BY <2>1, <2>2, <2>3, Zenon
<1>14. ASSUME NEW c \in Descs, NEW k \in DOMAIN registry'[c].offset_map
       PROVE  Owned(c, k)'
  <2>1. CASE k \in DOMAIN registry[c].offset_map
    <3>1. PICK i \in 1 .. booked[c] :
             KeyOf(Bookings[c][i]) = k /\ Asked(Bookings[c][i]) # 0
      BY <2>1, Zenon DEF BookingsOK
    <3>2. i \in 1 .. booked'[c]
      BY <1>0, <1>1, <1>6
    <3> QED
      BY <1>9, <3>1, <3>2, Zenon
  <2>2. CASE k \notin DOMAIN registry[c].offset_map
    <3>1. c = d /\ Asked(b) # 0 /\ k = KeyOf(b)
      BY <1>5, <1>12, <1>14, <2>2, Zenon
    <3>2. n \in 1 .. booked'[d]
      BY <1>0, <1>1, <1>6
    <3> QED
      BY <1>10, <3>1, <3>2, Zenon DEF b
  <2> QED
    BY <2>1, <2>2, Zenon
<1> QED
  BY <1>13, <1>14, Zenon DEF BookingsOK

(* Only a booking changes what was booked. *)
LEMMA BookingsInvariant ==
    ASSUME KeysOnce
    PROVE  /\ PadInit => BookingsOK
           /\ RegistriesOK /\ BookingsOK /\ [PadNext]_padVars => BookingsOK'
<1>1. ASSUME PadInit PROVE BookingsOK
  <2>1. ASSUME NEW d \in Descs
        PROVE  booked[d] = 0 /\ DOMAIN registry[d].offset_map = {}
    BY <1>1 DEF PadInit, EmptyRegistry
  <2> QED
    BY <2>1 DEF BookingsOK
<1>2. ASSUME RegistriesOK, BookingsOK, [PadNext]_padVars PROVE BookingsOK'
  <2>1. CASE UNCHANGED <<build, registry, booked>>
    <3>1. \A b : Asked(b)' = Asked(b) /\ (Complete(b.nested)' <=> Complete(b.nested))
      BY <2>1, Zenon DEF Asked, Complete
    <3>2. \A b : EntryAlign(build, b)' = EntryAlign(build, b)
      BY <2>1, Zenon DEF EntryAlign
    <3> QED
      BY <1>2, <2>1, <3>1, <3>2, Zenon DEF BookingsOK
  <2>2. ASSUME NEW d \in Descs, Book(d) PROVE BookingsOK'
    BY <1>2, <2>2, BookingsStay, Zenon
  <2> QED
    BY <1>2, <2>1, <2>2, Zenon
    DEF PadNext, CreateGlobal, CreateGlobalFails, CreateConcurrent,
        DestroyGlobal, DestroyConcurrent, padVars, trackVars
<1> QED
  BY <1>1, <1>2, Zenon

(* A descriptor that books every key once finds every booking again, of the size
   it asked for and aligned as booked from every base address; the size of a
   nested primitive's registry does not change once it was booked
   (registry_t::book, registry_t::get, entry_t::compute_ptr). *)
THEOREM BookingsAlwaysKept ==
    ASSUME KeysOnce, AlignmentsNest
    PROVE  PadSpec => []BookingsKept
<1>1. ASSUME RegistriesOK, BookingsOK PROVE BookingsKept
  <2> SUFFICES ASSUME NEW d \in Descs, NEW i \in 1 .. booked[d]
               PROVE  LET b == Bookings[d][i]
                          e == get_entry(registry[d], KeyOf(b))
                      IN  /\ e.size = Asked(b)
                          /\ Asked(b) > 0 => \A base \in Bases :
                                LET a == compute_ptr(build, e, base)
                                IN  /\ a % b.data_align = 0
                                    /\ build = "release" => a % b.perf_align = 0
    BY Zenon DEF BookingsKept, KeyOf, Asked
  <2> DEFINE b == Bookings[d][i]
             r == registry[d]
             e == r.offset_map[KeyOf(b)]
  <2>1. i \in 1 .. Len(Bookings[d]) /\ build \in Builds /\ IsRegistry(build, r)
    BY <1>1, BookingsAssumption DEF RegistriesOK
  <2>2. CASE Asked(b) # 0
    <3>1. /\ KeyOf(b) \in DOMAIN r.offset_map
          /\ e.size = Asked(b)
          /\ e.alignment = EntryAlign(build, b)
      BY <1>1, <2>2, Zenon DEF BookingsOK
    <3>2. IsEntry(build, e, r.size) /\ r.size \in Nat
      BY <2>1, <3>1, Zenon DEF IsRegistry
    <3>3. r.size # 0
      <4>1. get_alignment(build, e.alignment) \in Nat \ {0} /\ buffer_protect_size(build) \in Nat
        BY <2>1, <3>2, SizesNat, Zenon DEF IsEntry
      <4>2. /\ e.capacity = e.size + get_alignment(build, e.alignment) + buffer_protect_size(build)
            /\ e.offset + e.capacity <= r.size /\ e.offset \in Nat /\ e.size \in Nat
        BY <3>2, Zenon DEF IsEntry, capacity_of
      <4>3. e.capacity \in Nat \ {0}
        <5> HIDE DEF e
        <5> QED
          BY <4>1, <4>2
      <4>4. \A o \in Nat, c \in Nat \ {0} : o + c # 0 /\ ~(o + c <= 0)
        BY ONLY SMT
      <4> QED
        BY ONLY <4>2, <4>3, <4>4, Zenon
    <3>4. get_entry(r, KeyOf(b)) = e
      BY <3>1, <3>3, Zenon DEF get_entry
    <3>5. ASSUME NEW base \in Bases
          PROVE  /\ compute_ptr(build, e, base) % b.data_align = 0
                 /\ build = "release" => compute_ptr(build, e, base) % b.perf_align = 0
      <4>1. base \in Nat
        BY BasesAssumption, Zenon
      <4> QED
        BY <2>1, <3>1, <3>2, <4>1, EntryAligned, Zenon
    <3> QED
      BY <3>1, <3>4, <3>5, Zenon
  <2>3. CASE Asked(b) = 0
    <3>1. KeyOf(b) \notin DOMAIN r.offset_map
      <4> SUFFICES ASSUME KeyOf(b) \in DOMAIN r.offset_map PROVE FALSE
        BY Zenon
      <4>1. PICK j \in 1 .. booked[d] :
               KeyOf(Bookings[d][j]) = KeyOf(b) /\ Asked(Bookings[d][j]) # 0
        BY <1>1, Zenon DEF BookingsOK
      <4>2. j \in 1 .. Len(Bookings[d])
        BY <1>1, BookingsAssumption DEF RegistriesOK
      <4> QED
        BY <2>1, <2>3, <4>1, <4>2, Zenon DEF KeysOnce
    <3>2. get_entry(r, KeyOf(b)).size = 0
      BY <3>1, Zenon DEF get_entry, NoEntry
    <3> QED
      BY <2>3, <3>2
  <2> QED
    BY <2>2, <2>3, Zenon
<1>2. PadInit => RegistriesOK /\ BookingsOK
  BY RegistriesKept, BookingsInvariant, Zenon
<1>3. RegistriesOK /\ BookingsOK /\ [PadNext]_padVars => (RegistriesOK /\ BookingsOK)'
  BY RegistriesKept, BookingsInvariant, Zenon
<1> QED
  BY <1>1, <1>2, <1>3, PTL DEF PadSpec

-----------------------------------------------------------------------------
(* The global scratchpad. *)

(* Counting, from the library of finite sets.  It is instantiated only here:
   the proofs above do not count. *)
FST == INSTANCE FiniteSetTheorems

(* The operators of that instance are those of FiniteSets. *)
LEMMA SameCounting ==
    ASSUME NEW S
    PROVE  /\ FST!Cardinality(S) = Cardinality(S)
           /\ FST!IsFiniteSet(S) <=> IsFiniteSet(S)
  BY Zenon DEF FST!Cardinality, Cardinality, FST!IsFiniteSet, IsFiniteSet

(* How many elements a finite set has. *)
LEMMA Counted ==
    ASSUME NEW S, IsFiniteSet(S)
    PROVE  Cardinality(S) \in Nat /\ (Cardinality(S) = 0 <=> S = {})
  BY SameCounting, FST!FS_CardinalityType, FST!FS_EmptySet, Zenon

(* A part of a finite set has no more elements. *)
LEMMA CountedPart ==
    ASSUME NEW S, IsFiniteSet(S), NEW T \in SUBSET S
    PROVE  IsFiniteSet(T) /\ Cardinality(T) <= Cardinality(S)
  BY SameCounting, FST!FS_Subset

(* One element more, one element less. *)
LEMMA CountedOne ==
    ASSUME NEW S, IsFiniteSet(S), NEW x
    PROVE  /\ x \notin S => Cardinality(S \cup {x}) = Cardinality(S) + 1
           /\ x \in S => Cardinality(S \ {x}) = Cardinality(S) - 1
           /\ IsFiniteSet(S \ {x})
<1>1. FST!IsFiniteSet(S)
  BY SameCounting, Zenon
<1>2. /\ FST!Cardinality(S \cup {x})
            = IF x \in S THEN FST!Cardinality(S) ELSE FST!Cardinality(S) + 1
      /\ FST!Cardinality(S \ {x})
            = IF x \in S THEN FST!Cardinality(S) - 1 ELSE FST!Cardinality(S)
      /\ FST!IsFiniteSet(S \ {x})
  BY <1>1, FST!FS_AddElement, FST!FS_RemoveElement, Zenon
<1> QED
  BY <1>2, SameCounting, Zenon

(* reference_count_ counts the live primitives of its thread; the buffer has
   size_ bytes, exists exactly while the count is positive, and every live
   primitive fits. *)
IInv ==
    /\ TypeOK
    /\ \A t \in Threads :
          /\ reference_count[t] = Cardinality(LiveIn(t))
          /\ (reference_count[t] = 0) => mem_storage[t] = None /\ size[t] = 0
          /\ (reference_count[t] # 0) => mem_storage[t] = size[t]
          /\ \A p \in LiveIn(t) : need[p] <= size[t]

(* The live primitives of a thread are finitely many, fewer than the counter
   can count, and there are none when the count is 0. *)
LEMMA LiveFinite ==
    ASSUME NEW t \in Threads
    PROVE  /\ IsFiniteSet(LiveIn(t))
           /\ Cardinality(LiveIn(t)) \in Nat
           /\ Cardinality(LiveIn(t)) < Wrap
           /\ (Cardinality(LiveIn(t)) = 0) <=> (LiveIn(t) = {})
<1>1. LiveIn(t) \subseteq Primitives
  BY Zenon DEF LiveIn
<1>2. IsFiniteSet(LiveIn(t)) /\ Cardinality(LiveIn(t)) <= Cardinality(Primitives)
  BY ONLY <1>1, PrimitivesAssumption, CountedPart, Zenon
<1>3. Cardinality(LiveIn(t)) \in Nat /\ Cardinality(Primitives) \in Nat
  BY <1>2, PrimitivesAssumption, Counted, Zenon
<1>4. (Cardinality(LiveIn(t)) = 0) <=> (LiveIn(t) = {})
  BY <1>2, Counted, Zenon
<1>5. QED
  BY <1>2, <1>3, <1>4, WrapAssumption

(* Creating a primitive adds it to the live ones of the creating thread. *)
LEMMA CreateCounts ==
    ASSUME TypeOK, NEW t \in Threads, NEW p \in Primitives,
           home[p] = None, home' = [home EXCEPT ![p] = t]
    PROVE  /\ Cardinality(LiveIn(t)') = Cardinality(LiveIn(t)) + 1
           /\ Cardinality(LiveIn(t)') < Wrap
           /\ \A u \in Threads \ {t} : LiveIn(u)' = LiveIn(u)
<1>1. LiveIn(t)' = LiveIn(t) \cup {p} /\ p \notin LiveIn(t)
  BY NoneAssumption DEF LiveIn, TypeOK
<1>2. Cardinality(LiveIn(t)') = Cardinality(LiveIn(t)) + 1
  BY <1>1, LiveFinite, CountedOne, Zenon
<1>3. LiveIn(t)' \subseteq Primitives
  BY Zenon DEF LiveIn
<1>4. Cardinality(LiveIn(t)') <= Cardinality(Primitives)
  BY ONLY <1>3, PrimitivesAssumption, CountedPart
<1>5. Cardinality(Primitives) \in Nat
  BY PrimitivesAssumption, Counted, Zenon
<1>6. Cardinality(LiveIn(t)') < Wrap
  BY <1>2, <1>4, <1>5, LiveFinite, WrapAssumption
<1>7. \A u \in Threads \ {t} : LiveIn(u)' = LiveIn(u)
  BY NoneAssumption, Zenon DEF LiveIn, TypeOK
<1>8. QED
  BY <1>2, <1>6, <1>7, Zenon

(* Destroying a primitive removes it from the live ones of its thread. *)
LEMMA DestroyCounts ==
    ASSUME TypeOK, NEW t \in Threads, NEW p \in Primitives,
           home[p] = t, home' = [home EXCEPT ![p] = None]
    PROVE  /\ Cardinality(LiveIn(t)') = Cardinality(LiveIn(t)) - 1
           /\ Cardinality(LiveIn(t)) # 0
           /\ LiveIn(t)' = LiveIn(t) \ {p}
           /\ \A u \in Threads \ {t} : LiveIn(u)' = LiveIn(u)
<1>1. LiveIn(t)' = LiveIn(t) \ {p} /\ p \in LiveIn(t)
  BY NoneAssumption, Zenon DEF LiveIn, TypeOK
<1>2. Cardinality(LiveIn(t)') = Cardinality(LiveIn(t)) - 1
  <2>1. IsFiniteSet(LiveIn(t))
    BY LiveFinite, Zenon
  <2> QED
    BY ONLY <1>1, <2>1, CountedOne
<1>3. \A u \in Threads \ {t} : LiveIn(u)' = LiveIn(u)
  BY NoneAssumption, Zenon DEF LiveIn, TypeOK
<1>4. QED
  BY <1>1, <1>2, <1>3, LiveFinite

(* What the constructor leaves when the original capacity can be allocated
   again: the buffer grew, or is the old one, with the size recorded. *)
LEMMA ConstructedShape ==
    ASSUME IInv, ~RecreateFails, NEW t \in Threads, NEW n \in Sizes,
           NEW st \in Constructed(t, n)
    PROVE  /\ st[1] \in Nat \cup {None} /\ st[2] \in Nat
           /\ size[t] <= st[2]
           /\ (reference_count[t] # 0) => st[1] = st[2]
           /\ (st[1] # None /\ st[2] >= n) => st[1] = st[2]
<1>1. n \in Nat /\ n > 0 /\ size[t] \in Nat
  BY SizesAssumption DEF IInv, TypeOK
<1>2. CASE n > size[t]
  <2>1. st = <<n, n>> \/ st = <<size[t], size[t]>>
    BY <1>1, <1>2, NoneAssumption, Zenon DEF Constructed, Allocate
  <2>2. QED
    BY <2>1, <1>1, <1>2
<1>3. CASE ~(n > size[t])
  <2>1. st = <<mem_storage[t], size[t]>>
    BY <1>3, Zenon DEF Constructed
  <2>2. reference_count[t] # 0
    BY <1>1, <1>3, Zenon DEF IInv
  <2>3. QED
    BY <2>1, <2>2, <1>1 DEF IInv, TypeOK
<1>4. QED
  BY <1>2, <1>3, Zenon

(* Arithmetic of an unsigned count below its width. *)
LEMMA NoWrap ==
    ASSUME NEW c \in Nat, c < Wrap
    PROVE  /\ c # 0 => (c - 1) % Wrap = c - 1
           /\ (c + 1 < Wrap) => (c + 1) % Wrap = c + 1
           /\ (((c + 1) % Wrap) - 1) % Wrap = c
<1>1. Wrap \in Nat /\ Wrap > 0
  BY WrapAssumption
<1>2. CASE c + 1 < Wrap
  <2>1. (c + 1) % Wrap = c + 1
    BY <1>1, <1>2
  <2>2. (c + 1 - 1) % Wrap = c
    BY <1>1
  <2>3. QED
    BY <1>1, <2>1, <2>2
<1>3. CASE c + 1 = Wrap
  <2>1. (c + 1) % Wrap = 0
    BY <1>1, <1>3
  <2>2. (0 - 1) % Wrap = Wrap - 1
    BY <1>1
  <2>3. QED
    BY <1>1, <1>3, <2>1, <2>2
<1>4. QED
  BY <1>2, <1>3, <1>1

(* What a primitive booked is a number of bytes. *)
LEMMA NeedIsNat ==
    ASSUME TypeOK, NEW p \in Primitives
    PROVE  need[p] \in Nat
<1>1. need[p] \in Sizes \cup {0}
  BY Zenon DEF TypeOK
<1>2. \A n \in Sizes : n \in Nat
  BY SizesAssumption, Zenon
<1>3. QED
  BY <1>1, <1>2

-----------------------------------------------------------------------------
(* The library starts without primitives and without a buffer. *)
LEMMA InitInv == Init => IInv
<1> SUFFICES ASSUME Init PROVE IInv
  BY Zenon
<1>1. TypeOK
  BY WrapAssumption, LiveFinite, PrimitivesAssumption, Counted DEF Init, TypeOK
<1>2. \A t \in Threads : LiveIn(t) = {}
  BY NoneAssumption, Zenon DEF Init, LiveIn
<1>3. \A t \in Threads : reference_count[t] = Cardinality(LiveIn(t))
  BY <1>2, LiveFinite, Zenon DEF Init
<1>4. QED
  BY <1>1, <1>2, <1>3 DEF Init, IInv

(* A successful creation keeps the invariant: the buffer only grows. *)
LEMMA CreateInv ==
    ASSUME IInv, ~RecreateFails, NEW t \in Threads, NEW p \in Primitives,
           NEW n \in Sizes, Create(t, p, n)
    PROVE  IInv'
<1>1. PICK st \in Constructed(t, n) :
          /\ st[1] # None
          /\ st[2] >= n
          /\ mem_storage' = [mem_storage EXCEPT ![t] = st[1]]
          /\ size' = [size EXCEPT ![t] = st[2]]
          /\ reference_count' =
                [reference_count EXCEPT ![t] = (reference_count[t] + 1) % Wrap]
  BY Zenon DEF Create
<1>2. /\ st[1] \in Nat \cup {None} /\ st[2] \in Nat
      /\ size[t] <= st[2]
      /\ st[1] = st[2]
  BY <1>1, ConstructedShape
<1>3. n \in Nat
  BY SizesAssumption, Zenon
<1>4. /\ Cardinality(LiveIn(t)') = Cardinality(LiveIn(t)) + 1
      /\ Cardinality(LiveIn(t)') < Wrap
      /\ \A u \in Threads \ {t} : LiveIn(u)' = LiveIn(u)
  BY CreateCounts, Zenon DEF Create, IInv
<1>5. /\ reference_count[t] = Cardinality(LiveIn(t))
      /\ reference_count[t] \in Nat /\ reference_count[t] < Wrap
  BY LiveFinite, Zenon DEF IInv
<1>6. reference_count'[t] = reference_count[t] + 1
  BY <1>1, <1>4, <1>5, NoWrap DEF IInv, TypeOK
<1>7. TypeOK'
  <2>1. reference_count[t] + 1 \in 0 .. Wrap - 1
    BY <1>4, <1>5, WrapAssumption
  <2>2. reference_count' = [reference_count EXCEPT ![t] = reference_count[t] + 1]
    BY <1>1, <1>6, Zenon DEF IInv, TypeOK
  <2>3. QED
    BY <1>1, <1>2, <2>1, <2>2 DEF IInv, TypeOK, Create
<1>8. ASSUME NEW u \in Threads
      PROVE  /\ reference_count'[u] = Cardinality(LiveIn(u)')
             /\ (reference_count'[u] = 0) => mem_storage'[u] = None /\ size'[u] = 0
             /\ (reference_count'[u] # 0) => mem_storage'[u] = size'[u]
  <2>1. CASE u = t
    BY <2>1, <1>1, <1>2, <1>4, <1>5, <1>6 DEF IInv, TypeOK
  <2>2. CASE u # t
    <3>1. LiveIn(u)' = LiveIn(u)
      BY <2>2, <1>4, Zenon
    <3>2. /\ reference_count'[u] = reference_count[u]
          /\ mem_storage'[u] = mem_storage[u] /\ size'[u] = size[u]
      BY <2>2, <1>1 DEF IInv, TypeOK
    <3>3. QED
      BY <3>1, <3>2, Zenon DEF IInv
  <2>3. QED
    BY <2>1, <2>2, Zenon
<1>9. ASSUME NEW u \in Threads, NEW q \in LiveIn(u)'
      PROVE  need'[q] <= size'[u]
  <2>1. q \in Primitives /\ home'[q] = u
    BY Zenon DEF LiveIn
  <2>2. CASE q = p
    BY <2>1, <2>2, <1>1, <1>2, <1>3 DEF Create, IInv, TypeOK
  <2>3. CASE q # p
    <3>1. home[q] = u /\ need'[q] = need[q]
      BY <2>1, <2>3, Zenon DEF Create, IInv, TypeOK
    <3>2. need[q] <= size[u] /\ need[q] \in Nat
      BY <2>1, <3>1, NeedIsNat, Zenon DEF IInv, LiveIn
    <3>3. size[u] <= size'[u] /\ size[u] \in Nat /\ size'[u] \in Nat
      BY <1>1, <1>2 DEF IInv, TypeOK
    <3>4. QED
      BY ONLY <3>1, <3>2, <3>3
  <2>4. QED
    BY <2>2, <2>3, Zenon
<1>10. QED
  BY <1>7, <1>8, <1>9, Zenon DEF IInv

(* A failed creation keeps the invariant: its scratchpad goes again, and the
   others of the thread still fit. *)
LEMMA CreateFailsInv ==
    ASSUME IInv, ~RecreateFails, NEW t \in Threads,
           NEW n \in Sizes, CreateFails(t, n)
    PROVE  IInv'
<1>1. PICK st \in Constructed(t, n) :
          Destructor(t, st, (reference_count[t] + 1) % Wrap)
  BY Zenon DEF CreateFails
<1>2. /\ st[1] \in Nat \cup {None} /\ st[2] \in Nat
      /\ size[t] <= st[2]
      /\ (reference_count[t] # 0) => st[1] = st[2]
  BY ConstructedShape, Zenon
<1>3. \A u \in Threads : LiveIn(u)' = LiveIn(u)
  BY Zenon DEF CreateFails, LiveIn
<1>4. reference_count[t] \in Nat /\ reference_count[t] < Wrap
  BY LiveFinite, Zenon DEF IInv
<1>5. (((reference_count[t] + 1) % Wrap) - 1) % Wrap = reference_count[t]
  BY <1>4, NoWrap
<1>6. /\ reference_count' = reference_count
      /\ mem_storage' = [mem_storage EXCEPT ![t] =
                            IF reference_count[t] = 0 THEN None ELSE st[1]]
      /\ size' = [size EXCEPT ![t] = IF reference_count[t] = 0 THEN 0 ELSE st[2]]
  BY <1>1, <1>5, Zenon DEF Destructor, IInv, TypeOK
<1>7. TypeOK'
  BY <1>2, <1>6 DEF IInv, TypeOK, CreateFails
<1>8. ASSUME NEW u \in Threads
      PROVE  /\ reference_count'[u] = Cardinality(LiveIn(u)')
             /\ (reference_count'[u] = 0) => mem_storage'[u] = None /\ size'[u] = 0
             /\ (reference_count'[u] # 0) => mem_storage'[u] = size'[u]
             /\ size[u] <= size'[u] /\ size[u] \in Nat /\ size'[u] \in Nat
  BY <1>2, <1>3, <1>6 DEF IInv, TypeOK
<1>9. ASSUME NEW u \in Threads, NEW q \in LiveIn(u)'
      PROVE  need'[q] <= size'[u]
  <2>1. q \in LiveIn(u) /\ need'[q] = need[q]
    BY <1>3 DEF CreateFails
  <2>2. need[q] <= size[u] /\ need[q] \in Nat
    BY <2>1, NeedIsNat, Zenon DEF IInv, LiveIn
  <2>3. size[u] <= size'[u] /\ size[u] \in Nat /\ size'[u] \in Nat
    BY <1>8, Zenon
  <2>4. QED
    BY ONLY <2>1, <2>2, <2>3
<1>10. QED
  BY <1>7, <1>8, <1>9, Zenon DEF IInv

(* Destroying a primitive in its own thread keeps the invariant: the buffer
   goes exactly with the last live primitive. *)
LEMMA DestroyInv ==
    ASSUME IInv, ~AnyThread, NEW t \in Threads, NEW p \in Primitives,
           Destroy(t, p)
    PROVE  IInv'
<1>1. home[p] = t
  BY Zenon DEF Destroy
<1>2. /\ Cardinality(LiveIn(t)') = Cardinality(LiveIn(t)) - 1
      /\ Cardinality(LiveIn(t)) # 0
      /\ LiveIn(t)' = LiveIn(t) \ {p}
      /\ \A u \in Threads \ {t} : LiveIn(u)' = LiveIn(u)
  BY <1>1, DestroyCounts, Zenon DEF Destroy, IInv
<1>3. /\ reference_count[t] = Cardinality(LiveIn(t))
      /\ reference_count[t] \in Nat /\ reference_count[t] < Wrap
  BY LiveFinite, Zenon DEF IInv
<1>4. (reference_count[t] - 1) % Wrap = reference_count[t] - 1
  BY <1>2, <1>3, NoWrap
<1>5. /\ reference_count' = [reference_count EXCEPT ![t] = reference_count[t] - 1]
      /\ mem_storage' = [mem_storage EXCEPT ![t] =
                  IF reference_count[t] - 1 = 0 THEN None ELSE mem_storage[t]]
      /\ size' = [size EXCEPT ![t] = IF reference_count[t] - 1 = 0 THEN 0 ELSE size[t]]
  BY <1>4, Zenon DEF Destroy, Destructor
<1>6. TypeOK'
  <2>1. reference_count[t] - 1 \in 0 .. Wrap - 1
    BY <1>2, <1>3, WrapAssumption
  <2>2. QED
    BY <1>5, <2>1, Zenon DEF IInv, TypeOK, Destroy
<1>7. ASSUME NEW u \in Threads
      PROVE  /\ reference_count'[u] = Cardinality(LiveIn(u)')
             /\ (reference_count'[u] = 0) => mem_storage'[u] = None /\ size'[u] = 0
             /\ (reference_count'[u] # 0) => mem_storage'[u] = size'[u]
  BY <1>2, <1>3, <1>5, Zenon DEF IInv, TypeOK
<1>8. ASSUME NEW u \in Threads, NEW q \in LiveIn(u)'
      PROVE  need'[q] <= size'[u]
  <2>1. q # p /\ q \in LiveIn(u) /\ need'[q] = need[q]
    BY NoneAssumption, Zenon DEF Destroy, LiveIn, IInv, TypeOK
  <2>2. need[q] <= size[u]
    BY <2>1, Zenon DEF IInv
  <2>3. CASE u = t
    <3>1. Cardinality(LiveIn(t)') # 0
      <4>0. IsFiniteSet(LiveIn(t))
        BY LiveFinite, Zenon
      <4>1. IsFiniteSet(LiveIn(t)')
        BY ONLY <1>2, <4>0, CountedOne
      <4>2. LiveIn(t)' # {}
        BY <2>3, Zenon
      <4>3. QED
        BY <4>1, <4>2, Counted, Zenon
    <3>2. QED
      BY <2>1, <2>2, <2>3, <3>1, <1>2, <1>3, <1>5, Zenon DEF IInv, TypeOK
  <2>4. CASE u # t
    BY <2>1, <2>2, <2>4, <1>5 DEF IInv, TypeOK
  <2>5. QED
    BY <2>3, <2>4, Zenon
<1>9. QED
  BY <1>6, <1>7, <1>8 DEF IInv

-----------------------------------------------------------------------------
(* The invariant holds in every reachable state, whatever allocations of a
   larger buffer fail. *)
THEOREM PadInvariance ==
    ASSUME ~AnyThread, ~RecreateFails
    PROVE  Spec => []IInv
<1>1. Init => IInv
  BY InitInv
<1>2. IInv /\ [Next]_vars => IInv'
  <2> SUFFICES ASSUME IInv, [Next]_vars PROVE IInv'
    BY Zenon
  <2>1. CASE UNCHANGED vars
    BY <2>1, Zenon DEF vars, IInv, TypeOK, LiveIn
  <2>2. ASSUME NEW t \in Threads, NEW p \in Primitives, NEW n \in Sizes,
               Create(t, p, n)
        PROVE  IInv'
    BY <2>2, CreateInv
  <2>3. ASSUME NEW t \in Threads, NEW n \in Sizes, CreateFails(t, n)
        PROVE  IInv'
    BY <2>3, CreateFailsInv
  <2>4. ASSUME NEW t \in Threads, NEW p \in Primitives, Destroy(t, p)
        PROVE  IInv'
    BY <2>4, DestroyInv
  <2>5. QED
    BY <2>1, <2>2, <2>3, <2>4 DEF Next
<1>3. QED
  BY <1>1, <1>2, PTL DEF Spec

(* reference_count_ of a thread is the number of its live primitives, so it
   never wraps around, however many creations fail in between. *)
THEOREM PadReferencesCounted ==
    ASSUME ~AnyThread, ~RecreateFails
    PROVE  Spec => []ReferencesCounted
<1>1. IInv => ReferencesCounted
  BY Zenon DEF IInv, ReferencesCounted
<1>2. QED
  BY <1>1, PadInvariance, PTL

(* Executing a live primitive in its own thread finds a buffer that holds
   what the primitive booked. *)
THEOREM PadCoversPrimitives ==
    ASSUME ~AnyThread, ~RecreateFails
    PROVE  Spec => []StorageCoversPrimitive
<1>1. IInv => StorageCoversPrimitive
  <2> SUFFICES ASSUME IInv, NEW t \in Threads, NEW p \in LiveIn(t)
               PROVE  mem_storage[t] # None /\ mem_storage[t] >= need[p]
    BY DEF StorageCoversPrimitive
  <2>1. reference_count[t] # 0
    BY LiveFinite, Zenon DEF IInv
  <2>2. mem_storage[t] = size[t] /\ size[t] \in Nat /\ need[p] <= size[t]
    BY <2>1, Zenon DEF IInv, TypeOK
  <2>3. need[p] \in Nat
    BY NeedIsNat, Zenon DEF IInv, LiveIn
  <2>4. QED
    BY <2>2, <2>3, NoneAssumption
<1>2. QED
  BY <1>1, PadInvariance, PTL

(* A thread whose primitives are all destroyed holds no scratchpad memory. *)
THEOREM PadFreed ==
    ASSUME ~AnyThread, ~RecreateFails
    PROVE  Spec => []FreedWhenUnreferenced
<1>1. IInv => FreedWhenUnreferenced
  BY LiveFinite, Zenon DEF IInv, FreedWhenUnreferenced
<1>2. QED
  BY <1>1, PadInvariance, PTL


(* From booking to execution: as long as its primitive lives, the pieces of a
   descriptor lie inside the scratchpad dnnl_primitive::init obtained for it,
   global or its own - when primitives are destroyed by the threads that
   created them and the original capacity can be allocated again. *)
THEOREM PiecesAlwaysInStorage ==
    ASSUME Sizes = Nat \ {0}, ~AnyThread, ~RecreateFails
    PROVE  PadSpec => []PiecesInStorage
<1>1. PadInit => RegistriesOK /\ LinkOK
  BY RegistriesKept, LinkKept
<1>2. RegistriesOK /\ LinkOK /\ [PadNext]_padVars => RegistriesOK' /\ LinkOK'
  BY RegistriesKept, LinkKept, Zenon
<1>3. RegistriesOK /\ LinkOK /\ StorageCoversPrimitive /\ TypeOK => PiecesInStorage
  BY InStorageFromOK, Zenon
<1>4. PadSpec => Spec
  BY PadImplementsGlobal, Zenon
<1>5. Spec => []StorageCoversPrimitive
  BY PadCoversPrimitives, Zenon
<1>6. Spec => []IInv
  BY PadInvariance, Zenon
<1>7. IInv => TypeOK
  BY Zenon DEF IInv
<1> QED
  BY <1>1, <1>2, <1>3, <1>4, <1>5, <1>6, <1>7, PTL DEF PadSpec
=============================================================================
