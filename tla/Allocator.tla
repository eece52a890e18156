----------------------------- MODULE Allocator ------------------------------
(***************************************************************************)
(* The pooled allocator of src/common/ultils/geco-ds-malloc.h               *)
(* (default_alloc, for one thread).                                         *)
(*                                                                          *)
(* Memory is a line of byte addresses.  A free list is the sequence of the  *)
(* addresses of its units.  The system's malloc() returns memory that was   *)
(* never used before, or NULL.  The members that only carry a value from    *)
(* one function to the next (unit, my_free_list, tmp_unit,                  *)
(* alloc_units_size) are the arguments and results of operators.            *)
(***************************************************************************)
EXTENDS Integers, Sequences, FiniteSets

CONSTANTS
  ALIGN,            \* the granularity of units, in bytes
  NFREELISTS,       \* the number of free lists, and of slots for chunks
  ALLOC_UNITS_SIZE, \* the number of units to carve from the pool at once
  Sizes,            \* the sizes clients ask for
  MaxBlocks,        \* bound: blocks clients hold
  MaxMemory         \* bound: bytes the system can give

ASSUME ConstantsAssumption ==
  /\ ALIGN \in Nat \ {0} /\ NFREELISTS \in Nat \ {0} /\ ALLOC_UNITS_SIZE \in Nat \ {0}
  /\ Sizes \subseteq Nat \ {0} /\ MaxBlocks \in Nat /\ MaxMemory \in Nat \ {0}

MAX_BYTES == NFREELISTS * ALIGN

VARIABLES
  heap,   \* the members of default_alloc, and the first byte malloc() never gave
  live,   \* the blocks clients hold, each with the size they will free it with
  aborted \* the allocator called abort()

vars == <<heap, live, aborted>>

Lists == 0..(NFREELISTS - 1)

Init ==
  /\ heap = [free_list |-> [i \in Lists |-> <<>>], start_free |-> 0, end_free |-> 0,
             heap_size |-> 0, pools |-> {}, fresh |-> 1]
  /\ live = {}
  /\ aborted = FALSE

round_up(size) == ((size + ALIGN - 1) \div ALIGN) * ALIGN
freelist_index(size) == (size + ALIGN - 1) \div ALIGN - 1
Remaining(h) == h.end_free - h.start_free

(* The definitions named ...Without... are faults seeded in the definitions  *)
(* they precede: the model does not use them, and the properties reject them. *)

-----------------------------------------------------------------------------
(* alloc_units: units are cut off the pool, as many as fit.                  *)

CutWithoutLimit(h, size) ==
  [unit |-> h.start_free, count |-> ALLOC_UNITS_SIZE,
   heap |-> [h EXCEPT !.start_free = @ + ALLOC_UNITS_SIZE * size]]

Cut(h, size) ==
  LET room == Remaining(h) \div size
      count == IF room < ALLOC_UNITS_SIZE THEN room ELSE ALLOC_UNITS_SIZE IN
  [unit |-> h.start_free, count |-> count,
   heap |-> [h EXCEPT !.start_free = @ + count * size]]

Push(h, i, unit) == [h EXCEPT !.free_list[i] = <<unit>> \o @]

KeepLeftoverWithoutPush(h) == h

(* What is left of the pool, less than a unit, goes to the list of its size. *)
KeepLeftover(h) ==
  IF Remaining(h) > 0 THEN Push(h, freelist_index(Remaining(h)), h.start_free) ELSE h

ChunkSize(h, size) == 2 * ALLOC_UNITS_SIZE * size + round_up(h.heap_size \div 16)

NewChunk(h, bytes) ==
  [h EXCEPT !.start_free = h.fresh, !.end_free = h.fresh + bytes,
            !.heap_size = @ + bytes, !.pools = @ \cup {<<h.fresh, bytes>>},
            !.fresh = @ + bytes]

(* A chunk that finds no slot in pools_ is the pool, and counted, already.   *)
NewChunkUnslotted(h, bytes) == [NewChunk(h, bytes) EXCEPT !.pools = h.pools]

ReuseWithoutUnlink(h, i) ==
  [h EXCEPT !.start_free = h.free_list[i][1],
            !.end_free = h.free_list[i][1] + (i + 1) * ALIGN]

(* malloc() failed: a unit of list i becomes the pool.                       *)
Reuse(h, i) ==
  [h EXCEPT !.start_free = h.free_list[i][1],
            !.end_free = h.free_list[i][1] + (i + 1) * ALIGN,
            !.free_list[i] = Tail(@)]

(* The ways to extend the pool for units of this size: "abort" when there is *)
(* no slot for another chunk, "throw" (bad_alloc) when there is no memory.   *)
Extended(h, size) ==
  LET kept == KeepLeftover(h)
      bytes == ChunkSize(h, size)
      fits == {i \in Lists : i >= freelist_index(size) /\ kept.free_list[i] # <<>>}
      first == {i \in fits : \A j \in fits : i <= j}
      empty == [kept EXCEPT !.start_free = 0, !.end_free = 0]
  IN
  (IF kept.fresh + bytes > MaxMemory THEN {}
   ELSE IF Cardinality(kept.pools) < NFREELISTS
     THEN {[outcome |-> "ok", heap |-> NewChunk(kept, bytes)]}
     ELSE {[outcome |-> "abort", heap |-> NewChunkUnslotted(kept, bytes)]})
  \cup (IF fits # {} THEN {[outcome |-> "ok", heap |-> Reuse(kept, i)] : i \in first}
        ELSE {[outcome |-> "throw", heap |-> empty]})

BuildUnitListWithoutClient(c, size) ==
  [c.heap EXCEPT !.free_list[freelist_index(size)] =
     [k \in 1..c.count |-> c.unit + (k - 1) * size]]

(* build_unit_list: the first unit is the client's, the others make the list *)
(* of their size (which was empty).  A single unit leaves the list alone.    *)
BuildUnitList(c, size) ==
  IF c.count = 1 THEN c.heap
  ELSE [c.heap EXCEPT !.free_list[freelist_index(size)] =
          [k \in 1..(c.count - 1) |-> c.unit + k * size]]

(* The ways allocate(size) can end, size at most MAX_BYTES.                  *)
Allocated(h, size) ==
  LET i == freelist_index(size)
      unit == round_up(size)
      Built(g) == LET c == Cut(g, unit) IN
                  [outcome |-> "ok", unit |-> c.unit, heap |-> BuildUnitList(c, unit)]
      sources == IF Remaining(h) >= unit THEN {[outcome |-> "ok", heap |-> h]}
                 ELSE Extended(h, unit)
  IN
  IF h.free_list[i] # <<>>
    THEN {[outcome |-> "ok", unit |-> h.free_list[i][1],
           heap |-> [h EXCEPT !.free_list[i] = Tail(@)]]}
    ELSE {IF s.outcome = "ok" THEN Built(s.heap)
          ELSE [outcome |-> s.outcome, unit |-> 0, heap |-> s.heap] : s \in sources}

(* The same for any size: larger blocks come from malloc().                  *)
AllocatedAny(h, size) ==
  IF size <= MAX_BYTES THEN Allocated(h, size)
  ELSE {[outcome |-> "throw", unit |-> 0, heap |-> h]}
         \cup IF h.fresh + size > MaxMemory THEN {}
              ELSE {[outcome |-> "ok", unit |-> h.fresh,
                     heap |-> [h EXCEPT !.fresh = @ + size]]}

(* deallocate(unit, size).                                                   *)
Deallocated(h, unit, size) ==
  IF size <= MAX_BYTES THEN Push(h, freelist_index(size), unit) ELSE h

Block(addr, size) == [addr |-> addr, size |-> size]

-----------------------------------------------------------------------------
(* The clients' calls.  One that throws, or aborts, gives no block.          *)

Allocate(size) ==
  /\ Cardinality(live) < MaxBlocks
  /\ \E r \in AllocatedAny(heap, size) :
       /\ heap' = r.heap
       /\ live' = IF r.outcome = "ok" THEN live \cup {Block(r.unit, size)} ELSE live
       /\ aborted' = (r.outcome = "abort")

Deallocate(b) ==
  /\ b \in live
  /\ heap' = Deallocated(heap, b.addr, b.size)
  /\ live' = live \ {b}
  /\ UNCHANGED aborted

(* reallocate(unit, old, size) as its callers see it: the block, if any,     *)
(* that replaces old.  The system's realloc() may shrink a block in place.   *)
Reallocated(h, unit, old, size) ==
  IF old > MAX_BYTES /\ size > MAX_BYTES
    THEN (IF size <= old THEN {[outcome |-> "ok", unit |-> unit, heap |-> h]} ELSE {})
           \cup AllocatedAny(h, size)
  ELSE IF round_up(old) = round_up(size)
    THEN {[outcome |-> "ok", unit |-> unit, heap |-> h]}
  ELSE {IF r.outcome = "ok" THEN [r EXCEPT !.heap = Deallocated(r.heap, unit, old)] ELSE r :
          r \in AllocatedAny(h, size)}

Reallocate(b, size) ==
  /\ b \in live
  /\ \E r \in Reallocated(heap, b.addr, b.size, size) :
       /\ heap' = r.heap
       /\ live' = IF r.outcome = "ok" THEN (live \ {b}) \cup {Block(r.unit, size)} ELSE live
       /\ aborted' = (r.outcome = "abort")

(* destroy(): "you can only call this method when program exists", that is   *)
(* when no client holds a unit.                                              *)
Destroy ==
  /\ \A b \in live : b.size > MAX_BYTES
  /\ heap' = [heap EXCEPT !.free_list = [i \in Lists |-> <<>>], !.start_free = 0,
                          !.end_free = 0, !.heap_size = 0, !.pools = {}]
  /\ UNCHANGED <<live, aborted>>

Next ==
  /\ ~aborted
  /\ \/ \E size \in Sizes : Allocate(size)
     \/ \E b \in live : Deallocate(b)
     \/ \E b \in live, size \in Sizes : Reallocate(b, size)
     \/ Destroy

Spec == Init /\ [][Next]_vars

-----------------------------------------------------------------------------
Bytes(addr, size) == addr..(addr + size - 1)

(* Whoever owns bytes of the chunks: the clients that hold units, the places *)
(* of the free lists, and the pool.  The id tells owners of the same bytes    *)
(* apart.                                                                    *)
Owner(kind, id, addr, size) == [kind |-> kind, id |-> id, addr |-> addr, size |-> size]
Clients == {Owner("client", <<b.size>>, b.addr, round_up(b.size)) :
              b \in {c \in live : c.size <= MAX_BYTES}}
Places(i) == {Owner("free", <<i, k>>, heap.free_list[i][k], (i + 1) * ALIGN) :
                k \in DOMAIN heap.free_list[i]}
Pool == Owner("pool", <<>>, heap.start_free, Remaining(heap))
Owners == Clients \cup (UNION {Places(i) : i \in Lists}) \cup {Pool}

(* The bytes of the chunks.  The one that abort() found no slot for in pools_ *)
(* is the pool, whole.                                                       *)
Chunks == heap.pools \cup (IF aborted THEN {<<heap.start_free, Remaining(heap)>>} ELSE {})
ChunkBytes == UNION {Bytes(p[1], p[2]) : p \in Chunks}

Heaps == [free_list : [Lists -> Seq(1..MaxMemory)],
          start_free : 0..MaxMemory, end_free : 0..MaxMemory,
          heap_size : 0..MaxMemory, pools : SUBSET (Nat \X Nat), fresh : 1..MaxMemory]
Blocks == [addr : 1..MaxMemory, size : Nat \ {0}]

\* The type invariant.
TypeOK ==
  /\ heap \in Heaps
  /\ live \subseteq Blocks
  /\ aborted \in BOOLEAN

\* "We can return the object to the proper free list without permanently losing part of
\* the object": every byte of every chunk has exactly one owner, a unit in use, a place of a
\* free list or the pool; owners own nothing else; and heap_size counts the bytes.  So a
\* unit is neither on two places of the lists nor on one and in use, and nothing is lost,
\* whatever failed meanwhile.
Partition ==
  LET owners == Owners
      bytes == ChunkBytes
  IN
  /\ \A x \in bytes : Cardinality({o \in owners : x \in Bytes(o.addr, o.size)}) = 1
  /\ \A o \in owners : Bytes(o.addr, o.size) \subseteq bytes
  /\ heap.heap_size = Cardinality(bytes)

\* The bytes a block keeps from others: its unit's, or its own if it came from malloc().
Room(size) == IF size <= MAX_BYTES THEN round_up(size) ELSE size

Apart(a, m, b, n) == a + m <= b \/ b + n <= a

\* No two blocks that clients hold share a byte, pooled or not.
BlocksApart ==
  \A b, c \in live : b # c => Apart(b.addr, Room(b.size), c.addr, Room(c.size))
=============================================================================
