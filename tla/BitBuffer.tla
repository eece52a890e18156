----------------------------- MODULE BitBuffer ------------------------------
(***************************************************************************)
(* The buffer of geco_bit_stream_t (src/common/ds/geco-bit-stream.h, .cpp): *)
(* its memory, its two positions, and the operations on single bits and on  *)
(* runs of bits that everything else is written with.                       *)
(*                                                                          *)
(* Memory is the set of the positions of its one bits; position 0 is the    *)
(* most significant bit of the first byte.  A byte outside the stream is    *)
(* the set of the offsets of its one bits, offset 0 the most significant.   *)
(* An array of bytes is a sequence of those; a number is the array of its   *)
(* bytes, the least significant first (the hosts are little endian).        *)
(***************************************************************************)
EXTENDS Integers, Sequences, FiniteSetsExt, SequencesExt

CONSTANTS
  ByteBits,      \* bits in a byte, 8 in the code
  StackBits,     \* GECO_STREAM_STACK_ALLOC_BITS
  DoublingLimit  \* the size from which a buffer grows by a constant, 1048576

ASSUME BufferAssumption ==
  /\ ByteBits \in {2, 4, 8}
  /\ StackBits \in Nat \ {0} /\ StackBits % ByteBits = 0
  /\ DoublingLimit \in Nat \ {0}

Offsets == 0..(ByteBits - 1)
BITS_TO_BYTES(n) == (n + ByteBits - 1) \div ByteBits
RoundUp(n) == BITS_TO_BYTES(n) * ByteBits

(* A stream.  heap: its memory comes from malloc() and not from the object   *)
(* (can_free_).  junk: whether the memory that malloc() returns, and the     *)
(* part that realloc() adds, is all ones or all zeros.                       *)
Stream == [data : SUBSET Nat, allocated : Nat, writable : Nat, readable : Nat,
           heap : BOOLEAN, junk : BOOLEAN]

EmptyStream(junk) ==
  [data |-> {}, allocated |-> StackBits, writable |-> 0, readable |-> 0,
   heap |-> FALSE, junk |-> junk]

Payload(s) == s.writable - s.readable

(* geco_bit_stream_t(src, len, true) from the bytes of another stream: what  *)
(* the receiver of a packet has.                                             *)
Received(s) ==
  LET size == RoundUp(s.writable) IN
  [data |-> {p \in s.data : p < size}, allocated |-> IF size <= StackBits THEN StackBits ELSE size,
   writable |-> size, readable |-> 0, heap |-> size > StackBits, junk |-> s.junk]

(* The definitions named ...Without..., ...Unless... or ...Always are faults *)
(* seeded in the definitions they precede: the model does not use them, and  *)
(* the properties reject them.                                               *)

-----------------------------------------------------------------------------
(* Numbers, bytes and bits.                                                  *)

Power2(n) == LET p[k \in 0..n] == IF k = 0 THEN 1 ELSE 2 * p[k - 1] IN p[n]

ByteOf(v) == {i \in Offsets : (v \div Power2(ByteBits - 1 - i)) % 2 = 1}
Bytes(v, size) == [k \in 1..size |-> ByteOf(v \div Power2(ByteBits * (k - 1)))]

ByteValue(byte) ==
  LET v[k \in 0..ByteBits] ==
        IF k = 0 THEN 0 ELSE 2 * v[k - 1] + (IF k - 1 \in byte THEN 1 ELSE 0)
  IN v[ByteBits]

Number(bytes) ==
  LET v[k \in 0..Len(bytes)] ==
        IF k = 0 THEN 0 ELSE v[k - 1] + ByteValue(bytes[k]) * Power2(ByteBits * (k - 1))
  IN v[Len(bytes)]

\* The bytes of a sequence of bits, left aligned.
LeftAligned(bits) ==
  [k \in 1..BITS_TO_BYTES(Len(bits)) |->
     {i \in Offsets : (k - 1) * ByteBits + i + 1 <= Len(bits)
                       /\ bits[(k - 1) * ByteBits + i + 1] = 1}]

-----------------------------------------------------------------------------
(* Writing.                                                                  *)

GrowWithoutPosition(s, n) ==
  IF n <= s.allocated THEN s
  ELSE [s EXCEPT !.allocated = 2 * n, !.heap = TRUE]

(* AppendBitsCouldRealloc(n).  A stream that leaves the object for the heap  *)
(* copies its bytes if it has written any.                                   *)
Grow(s, n) ==
  LET needed == s.writable + n
      size == needed + (IF needed > DoublingLimit THEN DoublingLimit ELSE needed)
      kept == IF ~s.heap /\ s.writable = 0 THEN 0 ELSE RoundUp(s.allocated)
      copied == {p \in s.data : p < kept}
      new == IF s.junk THEN kept..(RoundUp(size) - 1) ELSE {}
  IN IF needed <= s.allocated THEN s
     ELSE [s EXCEPT !.allocated = size, !.heap = TRUE, !.data = copied \cup new]

PutByteWithoutAssignment(s, byte, n) ==
  [s EXCEPT !.data = @ \cup {s.writable + i : i \in byte},
            !.writable = @ + Min({n, ByteBits})]

(* One pass of WriteBits: the n bits left to write begin with this byte.  A  *)
(* byte of the buffer is assigned when the position enters it, and ORed      *)
(* when a part of it was written before.                                     *)
PutByte(s, byte, n) ==
  LET w == s.writable
      end == RoundUp(w + 1)
      spills == w % ByteBits # 0 /\ n > end - w
      gone == (IF w % ByteBits = 0 THEN w..(end - 1) ELSE {})
                \cup (IF spills THEN end..(end + ByteBits - 1) ELSE {})
      ones == {p \in {w + i : i \in byte} : p < end \/ spills}
  IN [s EXCEPT !.data = (@ \ gone) \cup ones,
               !.writable = w + Min({n, ByteBits})]

(* The last byte of a right-aligned array is shifted to the left.            *)
Shifted(byte, n, right) ==
  IF n < ByteBits /\ right
    THEN {i - (ByteBits - n) : i \in {j \in byte : j >= ByteBits - n}}
    ELSE byte

(* WriteBits(src, n, rightAligned).                                          *)
PutBits(s, src, n, right) ==
  LET Left(k) == n - (k - 1) * ByteBits
      t[k \in 0..BITS_TO_BYTES(n)] ==
        IF k = 0 THEN Grow(s, n)
                 ELSE PutByte(t[k - 1], Shifted(src[k], Left(k), right), Left(k))
  IN t[BITS_TO_BYTES(n)]

(* WriteBitOne() and WriteBitZero(), which clear the bytes they enter.       *)
PutBit(s, bit) ==
  LET t == Grow(s, 1)
      w == t.writable
      gone == IF w % ByteBits = 0 THEN w..(w + ByteBits - 1) ELSE {}
  IN [t EXCEPT !.data = (@ \ gone) \cup (IF bit = 1 THEN {w} ELSE {}),
               !.writable = w + 1]

(* WriteBitZeros(n).                                                         *)
PutZeros(s, n) ==
  LET t[k \in 0..n] == IF k = 0 THEN s ELSE PutBit(t[k - 1], 0) IN t[n]

AlignWritable(s) == [s EXCEPT !.writable = RoundUp(@)]

(* pad_zeros_up_to(bytes): whole bytes of zeros, if bytes are missing.       *)
PadZeros(s, bytes) ==
  LET missing == bytes - BITS_TO_BYTES(s.writable)
      t == Grow(AlignWritable(s), missing * ByteBits)
      end == t.writable + missing * ByteBits
  IN IF missing <= 0 THEN s
     ELSE [t EXCEPT !.data = @ \ (t.writable..(end - 1)), !.writable = end]

-----------------------------------------------------------------------------
(* Reading: the value read and the position after it are separate.           *)

BitAt(s, p) == IF p \in s.data THEN 1 ELSE 0
Skip(s, n) == [s EXCEPT !.readable = @ + n]
AlignReadable(s) == [s EXCEPT !.readable = RoundUp(@)]

(* One pass of ReadBits, from position p, with n bits left to read.  A last  *)
(* part of a byte is shifted to the right, or keeps what follows it.         *)
GetByte(s, p, n, right) ==
  LET start == p % ByteBits
      seen == {i \in Offsets : /\ p + i \in s.data
                               /\ start + i < ByteBits \/ n > ByteBits - start}
  IN IF n < ByteBits /\ right
       THEN {i + ByteBits - n : i \in {j \in seen : j < n}}
       ELSE seen

(* ReadBits(dest, n, alignRight).                                            *)
GetBits(s, n, right) ==
  [k \in 1..BITS_TO_BYTES(n) |->
     GetByte(s, s.readable + (k - 1) * ByteBits, n - (k - 1) * ByteBits, right)]
=============================================================================
