------------------------------ MODULE BitCodec ------------------------------
(***************************************************************************)
(* What geco_bit_stream_t writes of a value, and how it reads it back       *)
(* (src/common/ds/geco-bit-stream.h, .cpp): integers whole, short, within a *)
(* range or only if they changed, bytes on a byte boundary, and strings     *)
(* through geco_string_compressor_t.                                        *)
(*                                                                          *)
(* Put... is the stream after the write, Get... the value read and the      *)
(* stream after the read.                                                   *)
(***************************************************************************)
EXTENDS BitBuffer, HuffmanCode

CONSTANT UintBytes \* sizeof(uint)

ASSUME CodecAssumption ==
  /\ UintBytes \in Nat \ {0}
  /\ \E c \in Letter : Len(Encoding[c]) >= ByteBits \* a path pads any byte

Half == ByteBits \div 2
Upper == 0..(Half - 1)

-----------------------------------------------------------------------------
(* Read(bool), Read(T) and Write(T): the hosts are little endian, and swap   *)
(* the bytes of every integer of more than one.                              *)

GetBit(s) == [value |-> BitAt(s, s.readable), stream |-> Skip(s, 1)]

GetNumber(s, n) == [value |-> Number(GetBits(s, n, TRUE)), stream |-> Skip(s, n)]

PutInt(s, v, size) == PutBits(s, Reverse(Bytes(v, size)), size * ByteBits, TRUE)

GetInt(s, size) ==
  [value |-> Number(Reverse(GetBits(s, size * ByteBits, TRUE))),
   stream |-> Skip(s, size * ByteBits)]

(* write_one_aligned_byte(), write_two_aligned_bytes() and                   *)
(* WriteFourAlignedBytes(); the three-byte ones, which swap the bytes of a    *)
(* uint24's four, are left out.                                              *)
PutAligned(s, v, size) == PutInt(AlignWritable(s), v, size)
GetAligned(s, size) == GetInt(AlignReadable(s), size)

(* WriteChangedValue() and ReadChangedValue(); the reader's variable holds   *)
(* last before.                                                              *)
PutChanged(s, v, last, size) ==
  IF v = last THEN PutBit(s, 0) ELSE PutInt(PutBit(s, 1), v, size)

GetChanged(s, last, size) ==
  IF GetBit(s).value = 0 THEN [value |-> last, stream |-> Skip(s, 1)]
                         ELSE GetInt(Skip(s, 1), size)

-----------------------------------------------------------------------------
(* WriteMini(): a 0 for each high byte that is all zeros (all ones if the    *)
(* type is signed), and a 1 before the bytes from the first that is not.  Of *)
(* the last byte only its low half is written, after a 0, if its high half   *)
(* is all zeros or all ones.                                                 *)

Match(unsigned) == IF unsigned THEN {} ELSE Offsets

PutMini(s, v, size, unsigned) ==
  LET bytes == Bytes(v, size)
      top == Max({1} \cup {k \in 2..size : bytes[k] # Match(unsigned)})
      start == PutZeros(s, size - top)
      short == top = 1 /\ bytes[1] \cap Upper \in {{}, Upper}
  IN IF short THEN PutBits(PutBit(start, 0), bytes, Half, TRUE)
              ELSE PutBits(PutBit(start, 1), bytes, top * ByteBits, TRUE)

GetMini(s, size, unsigned) ==
  LET skipped == Max({n \in 0..(size - 1) :
                        \A p \in s.readable..(s.readable + n - 1) : p \notin s.data})
      top == size - skipped
      whole == BitAt(s, s.readable + skipped) = 1
      from == Skip(s, skipped + 1)
      n == IF whole THEN top * ByteBits ELSE Half
      low == IF whole THEN GetBits(from, n, TRUE)
                      ELSE <<GetBits(from, n, TRUE)[1] \cup (Match(unsigned) \cap Upper)>>
  IN [value |-> Number(low \o [k \in 1..(size - Len(low)) |-> Match(unsigned)]),
      stream |-> Skip(from, n)]

-----------------------------------------------------------------------------
(* write_ranged_integer() and ReadIntegerRange(): as many bits as max - min  *)
(* has, after a flag if values outside the range are allowed.                *)

RequiredBits(min, max, size) == CHOOSE n \in 0..(size * ByteBits) :
  /\ Power2(n) > max - min
  /\ \A k \in 0..(size * ByteBits) : Power2(k) > max - min => n <= k

PutRanged(s, v, min, max, outside, size) ==
  LET flagged == IF outside THEN PutBit(s, 0) ELSE s IN
  IF outside /\ v \notin min..max
    THEN PutMini(PutBit(s, 1), v, size, TRUE)
    ELSE PutBits(flagged, Bytes(v - min, size), RequiredBits(min, max, size), TRUE)

GetRanged(s, min, max, outside, size) ==
  LET flagged == IF outside THEN Skip(s, 1) ELSE s
      n == RequiredBits(min, max, size)
  IN IF outside /\ GetBit(s).value = 1
       THEN GetMini(Skip(s, 1), size, TRUE)
       ELSE [value |-> GetNumber(flagged, n).value + min, stream |-> Skip(flagged, n)]

-----------------------------------------------------------------------------
(* EncodeString(): the number of bits, and the paths of the letters, padded  *)
(* to whole bytes.  DecodeString() gives up when the length is 0, or more    *)
(* than what is left to read.                                                *)

Paths(text) == FlattenSeq([i \in DOMAIN text |-> Encoding[text[i]]])

EncodeArray(text) ==
  LET bits == Paths(text)
      missing == RoundUp(Len(bits)) - Len(bits)
  IN IF missing = 0 THEN bits
     ELSE bits \o SubSeq(Encoding[Padding(missing)], 1, missing)

PutString(s, text) ==
  LET bits == EncodeArray(text)
      t == PutMini(s, Len(bits), UintBytes, TRUE)
  IN PutBits(t, LeftAligned(bits), Len(bits), TRUE)

GetString(s) ==
  LET length == GetMini(s, UintBytes, TRUE)
      n == length.value
      t == length.stream
  IN IF n = 0 \/ n > Payload(t)
       THEN [value |-> <<>>, stream |-> t]
       ELSE [value |-> Decoded([i \in 1..n |-> BitAt(t, t.readable + i - 1)]),
             stream |-> Skip(t, n)]
-----------------------------------------------------------------------------
(* Write(stream, n): bits up to a byte boundary of the source are copied one *)
(* by one, and then the rest by bytes.  The counter of the first loop ends   *)
(* at -1, so one bit more than n is still to write: all that is asked for,   *)
(* and as many bits again as the first loop copied, and one, are written.    *)
(* Room is made for n bits before, so the caller needs room for the loop.    *)

Single(source) == ByteBits - (source.readable % ByteBits)

HasRoom(s, source, n) ==
  /\ s.writable + Single(source) <= Grow(s, n).allocated
  /\ RoundUp(source.readable + Single(source) + n + 1) <= source.allocated

PutCopy(s, source, n) ==
  LET aligned == Skip(source, Single(source))
      t[k \in 0..Single(source)] ==
        IF k = 0 THEN Grow(s, n) ELSE PutBit(t[k - 1], BitAt(source, source.readable + k - 1))
  IN PutBits(t[Single(source)], GetBits(aligned, RoundUp(n + 1), FALSE), n + 1, FALSE)
=============================================================================
