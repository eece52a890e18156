---------------------------- MODULE HuffmanCode -----------------------------
(***************************************************************************)
(* HuffmanEncodingTree (src/common/ds/geco-bit-stream.cpp): the tree made   *)
(* from a table of frequencies, and what it makes of an array of bytes.     *)
(*                                                                          *)
(* A tree is the function from its letters to their paths from the root.    *)
(***************************************************************************)
EXTENDS Integers, Sequences, FiniteSetsExt, SequencesExt

CONSTANTS
  Letters,       \* the number of letters: 256 in the code
  FrequencyTable \* the frequency of each, from 0

ASSUME HuffmanAssumption ==
  Letters \in Nat \ {0, 1} /\ FrequencyTable \in [0..(Letters - 1) -> Nat]

Letter == 0..(Letters - 1)

(* The list is kept in the order of the weights, a new node after the nodes  *)
(* of its weight (upper_bound).                                              *)
Insert(list, node) ==
  SelectSeq(list, LAMBDA t : t.weight <= node.weight) \o <<node>>
    \o SelectSeq(list, LAMBDA t : t.weight > node.weight)

\* 0 weights are illegal.
Leaf(c) == [weight |-> Max({FrequencyTable[c], 1}), path |-> [l \in {c} |-> <<>>]]

Leaves == FoldLeft(Insert, <<>>, [i \in 1..Letters |-> Leaf(i - 1)])

Merged(lesser, greater) ==
  [weight |-> lesser.weight + greater.weight,
   path |-> [l \in DOMAIN lesser.path \cup DOMAIN greater.path |->
               IF l \in DOMAIN lesser.path THEN <<0>> \o lesser.path[l]
                                           ELSE <<1>> \o greater.path[l]]]

(* The two lightest trees become one, until one is left.                     *)
Forest[n \in 1..Letters] ==
  IF n = Letters THEN Leaves
  ELSE LET list == Forest[n + 1] IN
       Insert(SubSeq(list, 3, n + 1), Merged(list[1], list[2]))

(* encodingTable.                                                            *)
Encoding == Forest[1][1].path

PaddingWithoutMargin(n) ==
  CHOOSE c \in Letter : /\ Len(Encoding[c]) >= n
                        /\ \A d \in Letter : Len(Encoding[d]) >= n => Len(Encoding[c]) <= Len(Encoding[d])

(* The letter whose path pads n bits: one of the shortest that are longer    *)
(* than n, so that no letter is read from the padding.                       *)
Padding(n) ==
  CHOOSE c \in Letter : /\ Len(Encoding[c]) > n
                        /\ \A d \in Letter : Len(Encoding[d]) > n => Len(Encoding[c]) <= Len(Encoding[d])

(* DecodeArray: from the root down, and from the root again at each leaf.    *)
Decoded(bits) ==
  LET Step(at, bit) ==
        LET path == Append(at.path, bit)
            leaf == {c \in Letter : Encoding[c] = path}
        IN [path |-> IF leaf = {} THEN path ELSE <<>>,
            output |-> at.output \o SetToSeq(leaf)]
  IN FoldLeft(Step, [path |-> <<>>, output |-> <<>>], bits).output
=============================================================================
