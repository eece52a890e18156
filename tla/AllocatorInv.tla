---------------------------- MODULE AllocatorInv ----------------------------
(***************************************************************************)
(* The inductive invariant behind the properties of Allocator, checked by   *)
(* TLC and proved in AllocatorProofs.                                       *)
(***************************************************************************)
EXTENDS Allocator

UnitSize(i) == (i + 1) * ALIGN

\* bs: the blocks that clients hold; f: the free lists; h: the members of the allocator.
LiveApart(bs) ==
  \A b, c \in bs : b # c => Apart(b.addr, Room(b.size), c.addr, Room(c.size))

FreeApart(f) ==
  \A i, j \in Lists : \A k \in DOMAIN f[i], l \in DOMAIN f[j] :
    i # j \/ k # l => Apart(f[i][k], UnitSize(i), f[j][l], UnitSize(j))

FreeApartFromLive(f, bs) ==
  \A i \in Lists : \A k \in DOMAIN f[i], b \in bs :
    Apart(f[i][k], UnitSize(i), b.addr, Room(b.size))

\* The m bytes at a are in no free unit and in no block.
Clear(f, bs, a, m) ==
  /\ \A b \in bs : Apart(a, m, b.addr, Room(b.size))
  /\ \A i \in Lists : \A k \in DOMAIN f[i] : Apart(a, m, f[i][k], UnitSize(i))

PoolApart(h, bs) ==
  /\ h.start_free <= h.end_free /\ (h.start_free = 0 => h.end_free = 0)
  /\ Clear(h.free_list, bs, h.start_free, Remaining(h))

\* Whatever is used lies below what malloc() has not given yet; the chunks do, too.
BelowFresh(h, bs) ==
  /\ h.end_free <= h.fresh /\ h.heap_size < h.fresh
  /\ \A b \in bs : b.addr + Room(b.size) <= h.fresh
  /\ \A i \in Lists : \A k \in DOMAIN h.free_list[i] :
       h.free_list[i][k] + UnitSize(i) <= h.fresh

\* What is left of the pool is a whole number of granules: it can go to a free list.
PoolAligned(h) == round_up(Remaining(h)) = Remaining(h)

HeapInv(h, bs) ==
  /\ FreeApart(h.free_list) /\ FreeApartFromLive(h.free_list, bs)
  /\ PoolApart(h, bs) /\ BelowFresh(h, bs) /\ PoolAligned(h)

\* The ranges of bytes that the blocks with a free list, and the free units, take up.
RangesOf(bs) == {<<b.addr, Room(b.size)>> : b \in {c \in bs : c.size <= MAX_BYTES}}
RangesOn(f, i) == {<<f[i][k], UnitSize(i)>> : k \in DOMAIN f[i]}
RangesIn(f) == UNION {RangesOn(f, i) : i \in Lists}
PoolRange(h) == <<h.start_free, Remaining(h)>>
BytesOf(ranges) == UNION {Bytes(r[1], r[2]) : r \in ranges}
Owned(h, bs) == BytesOf(RangesOf(bs) \cup RangesIn(h.free_list) \cup {PoolRange(h)})

\* Units, free units and the pool make up the chunks, and heap_size is their size.
Covered(h, bs) == Owned(h, bs) = BytesOf(h.pools) /\ h.heap_size = Cardinality(BytesOf(h.pools))

\* The heap with its pool in a slot: the chunk that abort() found none for.
Recorded(h) == [h EXCEPT !.pools = @ \cup {PoolRange(h)}]

\* Units that are in use, free units, the pool and the memory malloc() can still give
\* never share a byte, at any size of unit, and no byte of a chunk is lost, not even when
\* abort() stops the program in the middle of a call.
AllocInv ==
  /\ TypeOK
  /\ LiveApart(live)
  /\ HeapInv(heap, live)
  /\ Covered(IF aborted THEN Recorded(heap) ELSE heap, live)
=============================================================================
