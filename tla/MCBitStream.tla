----------------------------- MODULE MCBitStream ----------------------------
(***************************************************************************)
(* Instances of BitStream: bytes of four bits and one field of each kind and *)
(* case; and bytes of eight bits with the fields that WriteMini() shortens.  *)
(***************************************************************************)
EXTENDS BitStream

Bit(v) == [kind |-> "bit", value |-> v]
Bits(v, n) == [kind |-> "bits", value |-> v, bits |-> n]
Whole(v, size) == [kind |-> "int", value |-> v, size |-> size]
Aligned(v, size) == [kind |-> "aligned", value |-> v, size |-> size]
Changed(v, old, size) == [kind |-> "changed", value |-> v, last |-> old, size |-> size]
Mini(v, size, unsigned) == [kind |-> "mini", value |-> v, size |-> size, unsigned |-> unsigned]
Ranged(v, min, max, outside) ==
  [kind |-> "ranged", value |-> v, min |-> min, max |-> max, outside |-> outside, size |-> 2]
Text(text) == [kind |-> "string", text |-> text]

(* Copies from the second bit and from the first of a stream of two bytes.    *)
MCSource == PutInt(EmptyStream(FALSE), 173, 2)
MCSources == {[source |-> Skip(MCSource, 1), bits |-> 3], [source |-> MCSource, bits |-> 2]}

\* Paths of 1, 2, 3, ... bits, and two of Letters - 1.
MCFrequencies ==
  [c \in 0..(Letters - 1) |-> IF c < Letters - 1 THEN 2^(Letters - 1 - c) ELSE 0]

(* The bits above the three of Bits(13, 3) are not written; 66 needs both    *)
(* bytes of its type, 9 one, 2 half of one; the signed ones end in -15 + 8;  *)
(* the texts are of 4 and of 8 bits, the first with one bit of padding.      *)
MCFields == {Bit(1), Bits(13, 3), Bits(5, 7), Whole(66, 2), Aligned(66, 2),
  Changed(6, 6, 1), Changed(6, 9, 1),
  Mini(66, 2, TRUE), Mini(9, 2, TRUE), Mini(2, 2, TRUE), Mini(249, 2, FALSE), Mini(253, 2, FALSE),
  Ranged(7, 4, 9, FALSE), Ranged(7, 4, 9, TRUE), Ranged(2, 4, 9, TRUE),
  Text(<<>>), Text(<<2>>), Text(<<4, 0, 1>>)}

(* None of these is a value that WriteMini() loses a part of; that the texts  *)
(* are decoded from what encodes them is for the run to find.                 *)
ASSUME MCLossless == Fields = MCFields => \A f \in Fields : f.kind = "string" \/ Lossless(f)

(* 30 letters of eight bits: the length, 240, is written by WriteMini() too.  *)
LongText == [i \in 1..30 |-> Letters - 1]

MiniFields == {Mini(245, 2, TRUE), Mini(65535 - 250, 2, FALSE), Text(LongText)}
=============================================================================
