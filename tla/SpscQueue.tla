----------------------------- MODULE SpscQueue ------------------------------
(***************************************************************************)
(* The single-producer single-consumer queue of src/common/ds/spsc-queue.h: *)
(* spsc_queue_t, a ring of bytes, and the loops of push_back and pop_front. *)
(*                                                                          *)
(* One pass of a loop is three steps, at the two memory barriers: sample    *)
(* the other thread's index, copy bytes, publish the own index.  A byte of  *)
(* the element v is <<v, i>>; Garbage is a byte of no element.              *)
(***************************************************************************)
EXTENDS Integers, Sequences, FiniteSets

CONSTANTS
  Value,       \* the elements
  ElementSize, \* m_ElementSize
  nSize,       \* the template argument
  UintMod,     \* 2^w, w the width of unsigned int
  Garbage      \* a byte that belongs to no element

PowersOfTwo == {2^i : i \in 0..16}

(* m_nSize, as the constructor computes it: nSize elements are rounded up to *)
(* a power of two of bytes; if they are one, it is nSize bytes.              *)
Size ==
  IF nSize * ElementSize \in PowersOfTwo THEN nSize
  ELSE CHOOSE p \in PowersOfTwo : nSize * ElementSize < p /\ p < 2 * nSize * ElementSize

ASSUME ConstantsAssumption ==
  /\ ElementSize \in Nat \ {0} /\ nSize \in Nat \ {0} /\ nSize * ElementSize < 2^16
  /\ Size >= ElementSize
  /\ UintMod \in PowersOfTwo /\ UintMod > Size

(* What powers of two are, which the proofs cannot compute.                  *)
ASSUME PowersAssumption ==
  Size \in Nat \ {0} /\ UintMod \in Nat \ {0} /\ UintMod % Size = 0

VARIABLES
  buffer,   \* m_pBuffer
  in, out,  \* m_nIn, m_nOut
  producer, \* the state of push_back: where it is, its argument, m_len
  consumer, \* the state of pop_front: where it is, the bytes it filled in, m_len
  taken     \* what the last pop_front returned: a sequence of length 0 or 1

vars == <<buffer, in, out, producer, consumer, taken>>

Uint == 0..(UintMod - 1)
Offsets == 0..(ElementSize - 1)
Byte == (Value \X Offsets) \cup {Garbage}
Element(v) == [i \in Offsets |-> <<v, i>>]

Smaller(a, b) == IF a <= b THEN a ELSE b

Init ==
  /\ buffer = [i \in 0..(Size - 1) |-> Garbage]
  /\ in = 0 /\ out = 0
  /\ producer = [at |-> "idle", arg |-> <<>>, len |-> 0]
  /\ consumer = [at |-> "idle", got |-> <<>>, len |-> 0]
  /\ taken = <<>>

(* The definitions named ...Without... are faults seeded in the definitions  *)
(* they precede: the model does not use them, and the properties reject them. *)

NextLenWithoutRoom(len, room) == ElementSize - len

NextLenWithoutLast(len, room) == Smaller(ElementSize - len, room - ElementSize)

(* What a pass copies next: the rest of the element, if there is room for it *)
(* (or that much to take).                                                   *)
NextLen(len, room) == Smaller(ElementSize - len, room)

(* The part of a copy of len bytes that fits before the end of the buffer.   *)
FirstPart(index, len) == Smaller(len, Size - (index % Size))

-----------------------------------------------------------------------------
(* push_back(v).                                                             *)

PushBack(v) ==
  /\ producer.at = "idle"
  /\ producer' = [at |-> "sample", arg |-> <<v>>, len |-> 0]
  /\ UNCHANGED <<buffer, in, out, consumer, taken>>

PushSample ==
  /\ producer.at = "sample"
  /\ producer' = [producer EXCEPT !.at = "copy",
       !.len = NextLen(producer.len, (Size - in + out) % UintMod)]
  /\ UNCHANGED <<buffer, in, out, consumer, taken>>

PushCopyWithoutMask ==
  /\ producer.at = "copy"
  /\ buffer' = [i \in DOMAIN buffer |->
       IF i \in in..(in + producer.len - 1) THEN Element(producer.arg[1])[i - in] ELSE buffer[i]]
  /\ producer' = [producer EXCEPT !.at = "publish"]
  /\ UNCHANGED <<in, out, consumer, taken>>

(* The first l bytes of the element go before the end of the buffer; the     *)
(* rest is read from &buffer + l, which is not in the element unless l = 0.  *)
PushCopy ==
  LET l == FirstPart(in, producer.len)
      byte == Element(producer.arg[1])
  IN
  /\ producer.at = "copy"
  /\ buffer' = [i \in DOMAIN buffer |->
       CASE i \in (in % Size)..((in % Size) + l - 1) -> byte[i - (in % Size)]
         [] i \in 0..(producer.len - l - 1) -> Garbage
         [] OTHER -> buffer[i]]
  /\ producer' = [producer EXCEPT !.at = "publish"]
  /\ UNCHANGED <<in, out, consumer, taken>>

PushPublish ==
  /\ producer.at = "publish"
  /\ in' = (in + producer.len) % UintMod
  /\ producer' = IF producer.len < ElementSize
                   THEN [producer EXCEPT !.at = "sample"]
                   ELSE [at |-> "idle", arg |-> <<>>, len |-> 0]
  /\ UNCHANGED <<buffer, out, consumer, taken>>

-----------------------------------------------------------------------------
(* pop_front(buffer).                                                        *)

PopFront ==
  /\ consumer.at = "idle"
  /\ consumer' = [at |-> "sample", got |-> [i \in Offsets |-> Garbage], len |-> 0]
  /\ UNCHANGED <<buffer, in, out, producer, taken>>

PopSample ==
  /\ consumer.at = "sample"
  /\ consumer' = [consumer EXCEPT !.at = "copy",
       !.len = NextLen(consumer.len, (in - out) % UintMod)]
  /\ UNCHANGED <<buffer, in, out, producer, taken>>

(* What wraps is written to &buffer + l, outside the element.                *)
PopCopy ==
  LET l == FirstPart(out, consumer.len) IN
  /\ consumer.at = "copy"
  /\ consumer' = [consumer EXCEPT !.at = "publish",
       !.got = [i \in Offsets |-> IF i < l THEN buffer[(out % Size) + i]
                                  ELSE consumer.got[i]]]
  /\ UNCHANGED <<buffer, in, out, producer, taken>>

PopPublishWithoutWrap ==
  /\ consumer.at = "publish"
  /\ out' = out + consumer.len
  /\ consumer' = IF consumer.len < ElementSize
                   THEN [consumer EXCEPT !.at = "sample"]
                   ELSE [at |-> "idle", got |-> <<>>, len |-> 0]
  /\ taken' = IF consumer.len < ElementSize THEN taken ELSE <<consumer.got>>
  /\ UNCHANGED <<buffer, in, producer>>

PopPublish ==
  /\ consumer.at = "publish"
  /\ out' = (out + consumer.len) % UintMod
  /\ IF consumer.len < ElementSize
       THEN /\ consumer' = [consumer EXCEPT !.at = "sample"]
            /\ UNCHANGED taken
       ELSE /\ taken' = <<consumer.got>>
            /\ consumer' = [at |-> "idle", got |-> <<>>, len |-> 0]
  /\ UNCHANGED <<buffer, in, producer>>

(* Clear(): both indices are stored, so no thread may be at work.            *)
Clear ==
  /\ producer.at = "idle" /\ consumer.at = "idle"
  /\ in' = 0 /\ out' = 0
  /\ UNCHANGED <<buffer, producer, consumer, taken>>

-----------------------------------------------------------------------------
ProducerStep == PushSample \/ PushCopy \/ PushPublish
ConsumerStep == PopSample \/ PopCopy \/ PopPublish

Next ==
  \/ \E v \in Value : PushBack(v)
  \/ PopFront
  \/ ProducerStep \/ ConsumerStep
  \/ Clear

Spec == Init /\ [][Next]_vars

(* Each thread runs on while it is in an operation.                          *)
FairSpec == Spec /\ WF_vars(ProducerStep) /\ WF_vars(ConsumerStep)

-----------------------------------------------------------------------------
(* Size().                                                                   *)
Used == (in - out) % UintMod
QueueSize == Used \div ElementSize

(* The elements between the two indices.                                     *)
Contents ==
  [k \in 1..QueueSize |->
     [i \in Offsets |-> buffer[(out + (k - 1) * ElementSize + i) % Size]]]

Whole == {Element(v) : v \in Value}

Place == {"idle", "sample", "copy", "publish"}
Moving == {"copy", "publish"}

\* The type invariant.
TypeOK ==
  /\ buffer \in [0..(Size - 1) -> Byte]
  /\ in \in Uint /\ out \in Uint
  /\ producer \in [at : Place, arg : {<<>>} \cup {<<v>> : v \in Value}, len : 0..ElementSize]
  /\ consumer \in [at : Place, got : {<<>>} \cup [Offsets -> Byte], len : 0..ElementSize]
  /\ taken \in {<<>>} \cup {<<e>> : e \in [Offsets -> Byte]}

\* The threads never touch the same bytes at once: what the producer is writing is
\* outside what the consumer is reading.
Bytes(index, len) == {(index + i) % Size : i \in 0..(len - 1)}
NoOverlap ==
  producer.at \in Moving /\ consumer.at \in Moving =>
    Bytes(in, producer.len) \cap Bytes(out, consumer.len) = {}

\* "These two functions will do whil-loop internally until the needed element is
\* returned": what pop_front returns is an element that was pushed.
PopsWholeElement == \A i \in 1..Len(taken) : taken[i] \in Whole

\* A thread has an argument, or bytes to fill in, exactly while it is in its operation.
OperationsOpen ==
  /\ producer.arg = <<>> <=> producer.at = "idle"
  /\ consumer.at # "idle" => consumer.got \in [Offsets -> Byte]

\* The condition of the proofs: the ring holds whole elements.
ElementsFit == Size % ElementSize = 0

\* The indices are at elements, and what is between them fits in the ring.
IndicesExact == in % ElementSize = 0 /\ out % ElementSize = 0 /\ Used <= Size

\* A pass copies an element or nothing, and only what it has room for, whatever the other
\* thread did since it was sampled.
PassesWhole ==
  /\ producer.at \notin Moving => producer.len = 0
  /\ consumer.at \notin Moving => consumer.len = 0
  /\ producer.at \in Moving => producer.len \in {0, ElementSize} /\ Used + producer.len <= Size
  /\ consumer.at \in Moving => consumer.len \in {0, ElementSize} /\ consumer.len <= Used

\* The bytes from an index on are those of e.
Holds(index, e) == \A i \in Offsets : buffer[(index + i) % Size] = e[i]

\* Between the indices are whole elements.
ElementsWhole ==
  \A d \in 0..(Used - 1) : d % ElementSize = 0 => \E v \in Value : Holds(out + d, Element(v))

\* A copy that is not published yet is that of the element that is pushed, or of the oldest
\* in the ring.
CopiesExact ==
  /\ producer.at = "publish" /\ producer.len = ElementSize => Holds(in, Element(producer.arg[1]))
  /\ consumer.at = "publish" /\ consumer.len = ElementSize => Holds(out, consumer.got)

\* The inductive invariant.
SpscInv ==
  /\ OperationsOpen /\ IndicesExact /\ PassesWhole
  /\ ElementsWhole /\ CopiesExact /\ PopsWholeElement

\* A full queue and an empty one are told apart: the threads never wait for each other.
SomeoneReturns ==
  producer.at # "idle" /\ consumer.at # "idle" ~> producer.at = "idle" \/ consumer.at = "idle"

-----------------------------------------------------------------------------
\* The ring implements a queue: a push takes effect when its index is published, a pop
\* when the consumer's is.
Queue == INSTANCE Fifo WITH
  Value <- Whole, Capacity <- Size \div ElementSize,
  queue <- Contents,
  offered <- IF producer.arg = <<>> THEN <<>> ELSE <<Element(producer.arg[1])>>
ImplementsFifo == Queue!Spec
=============================================================================
