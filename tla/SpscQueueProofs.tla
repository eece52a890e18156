--------------------------- MODULE SpscQueueProofs ---------------------------
(***************************************************************************)
(* Theorems about the queue of two threads, for elements and rings of any   *)
(* size.                                                                    *)
(***************************************************************************)
EXTENDS SpscQueue, Numbers, TLAPS

-----------------------------------------------------------------------------
(* The constants, and the types.                                             *)

\* The sizes are positive numbers.
LEMMA SizeFacts ==
  /\ ElementSize \in Nat \ {0} /\ Size \in Nat \ {0} /\ UintMod \in Nat \ {0}
  /\ Size < UintMod /\ ElementSize <= Size /\ UintMod % Size = 0
BY ConstantsAssumption, PowersAssumption

\* An index is a number, and so is what is used.
LEMMA IndexTypes ==
  ASSUME TypeOK
  PROVE  in \in Nat /\ out \in Nat /\ Used \in 0..(UintMod - 1)
<1>1. in \in Nat /\ out \in Nat /\ in - out \in Int
  BY SizeFacts DEF TypeOK, Uint
<1>2. \A a \in Int : a % UintMod \in 0..(UintMod - 1)
  BY SizeFacts, DivMod
<1> QED
  BY <1>1, <1>2 DEF Used

\* A byte of an element is a byte.
LEMMA ElementType == \A v \in Value : Element(v) \in [Offsets -> Byte]
BY DEF Element, Byte

\* The initial state has the types, and no thread is in an operation.
LEMMA InitType == Init => TypeOK /\ OperationsOpen
<1> SUFFICES ASSUME Init PROVE TypeOK /\ OperationsOpen
  OBVIOUS
<1>1. buffer \in [0..(Size - 1) -> Byte]
  BY DEF Init, Byte
<1>2. in \in Uint /\ out \in Uint
  BY SizeFacts DEF Init, Uint
<1>3. 0 \in 0..ElementSize
  BY SizeFacts
<1>4. producer \in [at : Place, arg : {<<>>} \cup {<<v>> : v \in Value}, len : 0..ElementSize]
  BY <1>3 DEF Init, Place
<1>5. consumer \in [at : Place, got : {<<>>} \cup [Offsets -> Byte], len : 0..ElementSize]
  BY <1>3 DEF Init, Place
<1>6. OperationsOpen
  BY DEF Init, OperationsOpen
<1> QED
  BY <1>1, <1>2, <1>4, <1>5, <1>6 DEF Init, TypeOK

\* The rest of the element, or the room that there is.
LEMMA NextLenType ==
  \A len \in 0..ElementSize, room \in Nat : NextLen(len, room) \in 0..ElementSize
BY SizeFacts DEF NextLen, Smaller

\* Room and use are numbers.
LEMMA ModNat == \A a \in Int : a % UintMod \in Nat /\ a % UintMod \in Uint
BY SizeFacts DEF Uint

\* An index is at a byte of the buffer.
LEMMA ModSize == \A a \in Int : a % Size \in 0..(Size - 1) /\ a % Size \in Nat
BY SizeFacts

\* A copy ends at the end of the buffer.
LEMMA FirstPartType ==
  ASSUME NEW x \in Nat, NEW len \in 0..ElementSize
  PROVE  /\ FirstPart(x, len) \in 0..len
         /\ x % Size \in 0..(Size - 1) /\ (x % Size) + FirstPart(x, len) <= Size
<1>1. PICK r \in Nat : r = x % Size /\ r < Size
  BY SizeFacts
<1>2. FirstPart(x, len) = IF len <= Size - r THEN len ELSE Size - r
  BY <1>1 DEF FirstPart, Smaller
<1> QED
  BY <1>1, <1>2, SizeFacts

\* Every step keeps the types, and the threads in their operations.
LEMMA NextType == TypeOK /\ OperationsOpen /\ [Next]_vars => TypeOK' /\ OperationsOpen'
<1> SUFFICES ASSUME TypeOK, OperationsOpen, [Next]_vars PROVE TypeOK' /\ OperationsOpen'
  OBVIOUS
<1> DEFINE Args == {<<>>} \cup {<<v>> : v \in Value}
           Gots == {<<>>} \cup [Offsets -> Byte]
<1>0. /\ producer \in [at : Place, arg : Args, len : 0..ElementSize]
      /\ consumer \in [at : Place, got : Gots, len : 0..ElementSize]
      /\ in \in Nat /\ out \in Nat /\ 0 \in 0..ElementSize
      /\ {"idle", "sample", "copy", "publish"} = Place
  BY IndexTypes, SizeFacts DEF TypeOK, Place
<1>1. ASSUME NEW v \in Value, PushBack(v) PROVE TypeOK' /\ OperationsOpen'
  <2>1. producer' = [at |-> "sample", arg |-> <<v>>, len |-> 0]
    BY <1>1 DEF PushBack
  <2>2. producer' \in [at : Place, arg : Args, len : 0..ElementSize]
    BY <1>0, <2>1
  <2>3. producer'.arg # <<>> /\ producer'.at # "idle"
    BY <2>1
  <2> QED
    BY <1>1, <2>2, <2>3 DEF PushBack, TypeOK, OperationsOpen
<1>2. CASE PushSample
  <2>1. producer' = [producer EXCEPT !.at = "copy",
                       !.len = NextLen(producer.len, (Size - in + out) % UintMod)]
    BY <1>2 DEF PushSample
  <2>2. (Size - in + out) % UintMod \in Nat
    BY <1>0, ModNat, SizeFacts
  <2>3. producer' \in [at : Place, arg : Args, len : 0..ElementSize]
    BY <1>0, <2>1, <2>2, NextLenType
  <2>4. producer'.arg = producer.arg /\ producer'.at # "idle" /\ producer.at # "idle"
    BY <1>0, <1>2, <2>1 DEF PushSample
  <2> QED
    BY <1>2, <2>3, <2>4 DEF PushSample, TypeOK, OperationsOpen
<1>3. CASE PushCopy
  <2>1. PICK v \in Value : producer.arg = <<v>>
    BY <1>0, <1>3 DEF PushCopy, OperationsOpen
  <2>2. PICK l \in 0..producer.len : l = FirstPart(in, producer.len)
    BY <1>0, FirstPartType
  <2>3. PICK x \in Nat : x = in % Size /\ x \in 0..(Size - 1)
    BY <1>0, ModSize
  <2>4. \A i \in x..(x + l - 1) : Element(v)[i - x] \in Byte
    <3>1. \A i \in x..(x + l - 1) : i - x \in Offsets
      BY <1>0, <2>2, SizeFacts DEF Offsets
    <3> QED
      BY <3>1, ElementType
  <2>5. buffer' = [i \in DOMAIN buffer |->
                    CASE i \in x..(x + l - 1) -> Element(v)[i - x]
                      [] i \in 0..(producer.len - l - 1) -> Garbage
                      [] OTHER -> buffer[i]]
    BY <1>3, <2>1, <2>2, <2>3 DEF PushCopy
  <2>6. buffer' \in [0..(Size - 1) -> Byte]
    <3>1. Garbage \in Byte /\ buffer \in [0..(Size - 1) -> Byte]
      BY DEF Byte, TypeOK
    <3> QED
      BY <2>4, <2>5, <3>1
  <2>7. producer' = [producer EXCEPT !.at = "publish"]
    BY <1>3 DEF PushCopy
  <2>8. producer' \in [at : Place, arg : Args, len : 0..ElementSize]
    BY <1>0, <2>7
  <2>9. producer'.arg = producer.arg /\ producer'.at # "idle" /\ producer.at # "idle"
    BY <1>0, <1>3, <2>7 DEF PushCopy
  <2> QED
    BY <1>3, <2>6, <2>8, <2>9 DEF PushCopy, TypeOK, OperationsOpen
<1>4. CASE PushPublish
  <2>1. in' \in Uint
    <3>1. in + producer.len \in Int
      BY <1>0
    <3> QED
      BY <1>4, <3>1, ModNat DEF PushPublish
  <2>2. CASE producer.len < ElementSize
    <3>1. producer' = [producer EXCEPT !.at = "sample"]
      BY <1>4, <2>2 DEF PushPublish
    <3>2. producer' \in [at : Place, arg : Args, len : 0..ElementSize]
      BY <1>0, <3>1
    <3>3. producer'.arg = producer.arg /\ producer'.at # "idle" /\ producer.at # "idle"
      BY <1>0, <1>4, <3>1 DEF PushPublish
    <3> QED
      BY <1>4, <2>1, <3>2, <3>3 DEF PushPublish, TypeOK, OperationsOpen
  <2>3. CASE ~(producer.len < ElementSize)
    <3>1. producer' = [at |-> "idle", arg |-> <<>>, len |-> 0]
      BY <1>4, <2>3 DEF PushPublish
    <3>2. producer' \in [at : Place, arg : Args, len : 0..ElementSize]
      BY <1>0, <3>1
    <3>3. producer'.arg = <<>> /\ producer'.at = "idle"
      BY <3>1
    <3> QED
      BY <1>4, <2>1, <3>2, <3>3 DEF PushPublish, TypeOK, OperationsOpen
  <2> QED
    BY <2>2, <2>3
<1>5. CASE PopFront
  <2>1. consumer' = [at |-> "sample", got |-> [i \in Offsets |-> Garbage], len |-> 0]
    BY <1>5 DEF PopFront
  <2>2. [i \in Offsets |-> Garbage] \in [Offsets -> Byte]
    BY DEF Byte
  <2>3. consumer' \in [at : Place, got : Gots, len : 0..ElementSize]
        /\ consumer'.got \in [Offsets -> Byte]
    BY <1>0, <2>1, <2>2
  <2> QED
    BY <1>5, <2>3 DEF PopFront, TypeOK, OperationsOpen
<1>6. CASE PopSample
  <2>1. consumer' = [consumer EXCEPT !.at = "copy",
                       !.len = NextLen(consumer.len, (in - out) % UintMod)]
    BY <1>6 DEF PopSample
  <2>2. PICK n \in 0..ElementSize : n = NextLen(consumer.len, (in - out) % UintMod)
    <3>1. (in - out) % UintMod \in Nat
      BY <1>0, ModNat
    <3> QED
      BY <1>0, <3>1, NextLenType
  <2>3. consumer' \in [at : Place, got : Gots, len : 0..ElementSize]
        /\ consumer'.got = consumer.got /\ consumer.at # "idle"
    BY <1>0, <1>6, <2>1, <2>2 DEF PopSample
  <2> QED
    BY <1>6, <2>3 DEF PopSample, TypeOK, OperationsOpen
<1>7. CASE PopCopy
  <2>1. PICK l \in 0..consumer.len : l = FirstPart(out, consumer.len)
                                     /\ (out % Size) + l <= Size
    BY <1>0, FirstPartType
  <2>2. PICK x \in Nat : x = out % Size /\ x \in 0..(Size - 1)
    BY <1>0, ModSize
  <2> DEFINE got == [i \in Offsets |-> IF i < l THEN buffer[x + i] ELSE consumer.got[i]]
  <2>3. got \in [Offsets -> Byte]
    <3>1. consumer.got \in [Offsets -> Byte]
      BY <1>7 DEF PopCopy, OperationsOpen
    <3>2. \A i \in Offsets : i < l => x + i \in 0..(Size - 1)
      BY <2>1, <2>2, SizeFacts DEF Offsets
    <3> QED
      BY <3>1, <3>2 DEF TypeOK
  <2>4. consumer' = [consumer EXCEPT !.at = "publish", !.got = got]
    BY <1>7, <2>1, <2>2 DEF PopCopy
  <2> HIDE DEF got
  <2>5. consumer' \in [at : Place, got : Gots, len : 0..ElementSize]
        /\ consumer'.got = got
    BY <1>0, <2>3, <2>4
  <2> QED
    BY <1>7, <2>3, <2>5 DEF PopCopy, TypeOK, OperationsOpen
<1>8. CASE PopPublish
  <2>1. out' \in Uint
    <3>1. out + consumer.len \in Int
      BY <1>0
    <3> QED
      BY <1>8, <3>1, ModNat DEF PopPublish
  <2>2. CASE consumer.len < ElementSize
    <3>1. consumer' = [consumer EXCEPT !.at = "sample"] /\ UNCHANGED taken
      BY <1>8, <2>2 DEF PopPublish
    <3>2. consumer' \in [at : Place, got : Gots, len : 0..ElementSize]
          /\ consumer'.got = consumer.got /\ consumer.at # "idle"
      BY <1>0, <1>8, <3>1 DEF PopPublish
    <3> QED
      BY <1>8, <2>1, <3>1, <3>2 DEF PopPublish, TypeOK, OperationsOpen
  <2>3. CASE ~(consumer.len < ElementSize)
    <3>1. consumer' = [at |-> "idle", got |-> <<>>, len |-> 0] /\ taken' = <<consumer.got>>
      BY <1>8, <2>3 DEF PopPublish
    <3>2. consumer' \in [at : Place, got : Gots, len : 0..ElementSize]
          /\ consumer'.at = "idle"
      BY <1>0, <3>1
    <3>3. consumer.got \in [Offsets -> Byte]
      BY <1>8 DEF PopPublish, OperationsOpen
    <3> QED
      BY <1>8, <2>1, <3>1, <3>2, <3>3 DEF PopPublish, TypeOK, OperationsOpen
  <2> QED
    BY <2>2, <2>3
<1>9. CASE Clear
  BY <1>9, SizeFacts DEF Clear, TypeOK, OperationsOpen, Uint
<1>10. CASE UNCHANGED vars
  BY <1>10 DEF vars, TypeOK, OperationsOpen
<1> QED
  BY <1>1, <1>2, <1>3, <1>4, <1>5, <1>6, <1>7, <1>8, <1>9, <1>10
     DEF Next, ProducerStep, ConsumerStep

\* The variables of the queue have their types, whether or not its size divides the ring's.
THEOREM AlwaysTypeOK == Spec => [](TypeOK /\ OperationsOpen)
<1>1. Init => TypeOK /\ OperationsOpen
  BY InitType
<1>2. TypeOK /\ OperationsOpen /\ [Next]_vars => TypeOK' /\ OperationsOpen'
  BY NextType
<1> QED
  BY <1>1, <1>2, PTL DEF Spec

-----------------------------------------------------------------------------
(* The indices.                                                              *)

\* The in index is at the first byte that is not used.
LEMMA InIs == ASSUME TypeOK PROVE \A i \in Int : (in + i) % Size = (out + Used + i) % Size
<1> SUFFICES ASSUME NEW i \in Int PROVE (in + i) % Size = (out + Used + i) % Size
  OBVIOUS
<1>1. PICK a \in Int, b \in Int, u \in Int : a = in /\ b = out /\ u = Used
  BY IndexTypes
<1>2. PICK q \in Int : a - b = q * UintMod + u
  <2>1. a - b \in Int /\ u = (a - b) % UintMod
    BY <1>1 DEF Used
  <2> QED
    BY <2>1, SizeFacts, DivMod
<1>3. PICK t \in Int : UintMod = t * Size
  BY SizeFacts, MultipleIs
<1>4. PICK p \in Int : p = q * t
  OBVIOUS
<1>5. q * UintMod = p * Size
  BY <1>3, <1>4, SizeFacts
<1>6. a + i = (b + u + i) + p * Size /\ b + u + i \in Int
  <2>1. PICK m \in Int : m = q * UintMod
    BY SizeFacts
  <2> QED
    BY <1>2, <1>5, <2>1, SizeFacts
<1>7. ((b + u + i) + p * Size) % Size = (b + u + i) % Size
  BY <1>6, SizeFacts, ModPlus
<1> QED
  BY <1>1, <1>6, <1>7

\* The room is what is not used.
LEMMA RoomIs ==
  ASSUME TypeOK, Used <= Size
  PROVE  (Size - in + out) % UintMod = Size - Used
<1>1. PICK a \in Int, b \in Int, u \in Nat : a = in /\ b = out /\ u = Used
  BY IndexTypes
<1>2. PICK q \in Int : a - b = q * UintMod + u
  <2>1. a - b \in Int /\ u = (a - b) % UintMod
    BY <1>1 DEF Used
  <2> QED
    BY <2>1, SizeFacts, DivMod
<1>3. PICK p \in Int : p = 0 - q
  OBVIOUS
<1>4. p * UintMod = 0 - q * UintMod
  BY <1>3, SizeFacts
<1>5. Size - a + b = p * UintMod + (Size - u)
  <2>1. PICK m \in Int : m = q * UintMod
    BY SizeFacts
  <2> QED
    BY <1>2, <1>4, <2>1, SizeFacts
<1>6. 0 <= Size - u /\ Size - u < UintMod /\ Size - u \in Int /\ Size - a + b \in Int
  BY <1>1, SizeFacts
<1>7. PICK e \in Int, f \in Int, U \in Nat \ {0} :
        e = Size - a + b /\ f = Size - u /\ U = UintMod
  BY <1>6, SizeFacts
<1>8. e = p * U + f /\ 0 <= f /\ f < U
  BY <1>5, <1>6, <1>7
<1>9. e % U = f
  BY <1>8, ModUnique
<1> QED
  BY <1>1, <1>7, <1>9

\* Publishing what was pushed adds it to what is used.
LEMMA PushIndex ==
  ASSUME TypeOK, NEW len \in Nat, Used + len <= Size
  PROVE  (((in + len) % UintMod) - out) % UintMod = Used + len
<1>1. PICK a \in Int, b \in Int, u \in Nat, U \in Nat \ {0} :
        a = in /\ b = out /\ u = Used /\ U = UintMod
  BY IndexTypes, SizeFacts
<1>2. PICK c \in Int : c = 0 - b
  OBVIOUS
<1>3. PICK e \in Int, f \in Int : e = a + len /\ f = a - b
  OBVIOUS
<1>4. PICK m \in Int : m = e % U
  <2>1. e % U \in Int
    BY DivMod
  <2> QED
    BY <2>1
<1>5. (m + c) % U = (e + c) % U
  BY <1>4, ModSum
<1>6. m + c = m - b /\ e + c = f + len
  BY <1>2, <1>3
<1>7. f % U = u
  BY <1>1, <1>3 DEF Used
<1>8. (u + len) % U = (f + len) % U
  <2>1. len \in Int
    OBVIOUS
  <2>2. ((f % U) + len) % U = (f + len) % U
    BY <2>1, ModSum
  <2> QED
    BY <1>7, <2>2
<1>9. (u + len) % U = u + len
  <2>1. u + len \in Nat /\ u + len < U
    BY <1>1, SizeFacts
  <2> QED
    BY <2>1, ModSmall
<1>10. (m - b) % U = u + len
  BY <1>5, <1>6, <1>8, <1>9
<1> QED
  BY <1>1, <1>3, <1>4, <1>10

\* Publishing what was popped takes it from what is used.
LEMMA PopIndex ==
  ASSUME TypeOK, NEW len \in Nat, len <= Used
  PROVE  (in - ((out + len) % UintMod)) % UintMod = Used - len
<1>1. PICK a \in Int, b \in Int, u \in Nat, U \in Nat \ {0} :
        a = in /\ b = out /\ u = Used /\ U = UintMod /\ u < U
  BY IndexTypes, SizeFacts
<1>2. PICK q \in Int, m \in Int : b + len = q * U + m /\ m = (b + len) % U
  <2>1. b + len \in Int
    OBVIOUS
  <2>2. (b + len) \div U \in Int /\ (b + len) % U \in Int
        /\ b + len = ((b + len) \div U) * U + ((b + len) % U)
    BY <2>1, DivMod
  <2> QED
    BY <2>2
<1>3. PICK p \in Int : a - b = p * U + u
  <2>1. a - b \in Int /\ u = (a - b) % U
    BY <1>1 DEF Used
  <2> QED
    BY <2>1, DivMod
<1>4. a - m = (p + q) * U + (u - len)
  <2>1. (p + q) * U = p * U + q * U
    OBVIOUS
  <2>2. PICK x \in Int, y \in Int : x = p * U /\ y = q * U
    OBVIOUS
  <2>3. (p + q) * U = x + y /\ b + len = y + m /\ a - b = x + u
    BY <1>2, <1>3, <2>1, <2>2
  <2> QED
    BY <2>3
<1>5. 0 <= u - len /\ u - len < U /\ u - len \in Int /\ a - m \in Int /\ p + q \in Int
  BY <1>1
<1>6. PICK e \in Int, f \in Int, t \in Int : e = a - m /\ f = u - len /\ t = p + q
  OBVIOUS
<1>7. e = t * U + f /\ 0 <= f /\ f < U
  BY <1>4, <1>5, <1>6
<1>8. e % U = f
  BY <1>7, ModUnique
<1> QED
  BY <1>1, <1>2, <1>6, <1>8

\* A wrapped index is at the same byte.
LEMMA WrappedIs ==
  \A x \in Int, i \in Int : ((x % UintMod) + i) % Size = (x + i) % Size
<1> SUFFICES ASSUME NEW x \in Int, NEW i \in Int
             PROVE  ((x % UintMod) + i) % Size = (x + i) % Size
  OBVIOUS
<1>1. PICK m \in Int : m = x % UintMod
  BY SizeFacts
<1>2. m % Size = x % Size
  BY <1>1, SizeFacts, ModMod
<1>3. ((m % Size) + i) % Size = (m + i) % Size
  BY SizeFacts, ModSum
<1>4. ((x % Size) + i) % Size = (x + i) % Size
  BY SizeFacts, ModSum
<1> QED
  BY <1>1, <1>2, <1>3, <1>4

\* A wrapped index is at an element if the index is.
LEMMA WrappedFits ==
  ASSUME ElementsFit
  PROVE  /\ UintMod % ElementSize = 0
         /\ \A x \in Int : (x % UintMod) % ElementSize = x % ElementSize
<1>1. (UintMod % Size) % ElementSize = UintMod % ElementSize
  <2>1. UintMod \in Int /\ Size \in Nat \ {0} /\ ElementSize \in Nat \ {0}
        /\ Size % ElementSize = 0
    BY SizeFacts DEF ElementsFit
  <2> QED
    BY <2>1, ModMod
<1>2. 0 % ElementSize = 0
  BY SizeFacts
<1>3. UintMod % ElementSize = 0
  BY <1>1, <1>2, SizeFacts
<1> QED
  BY <1>3, SizeFacts, ModMod

\* An element does not wrap.
LEMMA NoWrap ==
  ASSUME ElementsFit, NEW x \in Nat, x % ElementSize = 0
  PROVE  /\ (x % Size) + ElementSize <= Size
         /\ \A i \in Offsets : (x + i) % Size = (x % Size) + i
         /\ FirstPart(x, ElementSize) = ElementSize /\ FirstPart(x, 0) = 0
<1>1. PICK r \in Nat : r = x % Size /\ r < Size
  BY ModSize, SizeFacts
<1>2. r % ElementSize = 0
  <2>1. /\ x \in Int /\ Size \in Nat \ {0} /\ ElementSize \in Nat \ {0}
        /\ Size % ElementSize = 0
    BY SizeFacts DEF ElementsFit
  <2>2. (x % Size) % ElementSize = x % ElementSize
    BY <2>1, ModMod
  <2> QED
    BY <1>1, <2>2
<1>3. r + ElementSize <= Size
  <2>1. /\ r \in Int /\ Size \in Int /\ ElementSize \in Nat \ {0}
        /\ Size % ElementSize = 0
    BY SizeFacts DEF ElementsFit
  <2> QED
    BY <1>1, <1>2, <2>1, MultipleLess
<1>4. ASSUME NEW i \in Offsets PROVE (x + i) % Size = r + i
  <2>1. i \in Nat /\ i < ElementSize
    BY SizeFacts DEF Offsets
  <2>2. (r + i) % Size = (x + i) % Size
    <3>1. x \in Int /\ i \in Int /\ Size \in Nat \ {0}
      BY <2>1, SizeFacts
    <3>2. ((x % Size) + i) % Size = (x + i) % Size
      BY <3>1, ModSum
    <3> QED
      BY <1>1, <3>2
  <2>3. (r + i) % Size = r + i
    <3>1. r + i \in Nat /\ r + i < Size
      BY <1>3, <2>1, SizeFacts
    <3> QED
      BY <3>1, SizeFacts, ModSmall
  <2> QED
    BY <2>2, <2>3
<1>5. FirstPart(x, ElementSize) = ElementSize /\ FirstPart(x, 0) = 0
  BY <1>1, <1>3, SizeFacts DEF FirstPart, Smaller
<1> QED
  BY <1>1, <1>3, <1>4, <1>5

\* What is used is whole elements.
LEMMA UsedFits ==
  ASSUME ElementsFit, TypeOK, IndicesExact PROVE Used % ElementSize = 0
<1>1. in \in Int /\ out \in Int /\ in - out \in Int
  BY IndexTypes
<1>2. (in - out) % ElementSize = 0
  BY <1>1, SizeFacts, MultipleSum DEF IndicesExact
<1>3. ((in - out) % UintMod) % ElementSize = (in - out) % ElementSize
  BY <1>1, WrappedFits
<1> QED
  BY <1>2, <1>3 DEF Used

\* A pass takes an element or nothing.
LEMMA PassFits ==
  ASSUME NEW room \in Nat, room % ElementSize = 0
  PROVE  NextLen(0, room) \in {0, ElementSize} /\ NextLen(0, room) <= room
<1>1. 0 % ElementSize = 0
  BY SizeFacts
<1>2. room = 0 \/ ElementSize <= room
  <2>1. 0 < room => 0 + ElementSize <= room
    BY <1>1, SizeFacts, MultipleLess
  <2> QED
    BY <2>1, SizeFacts
<1> QED
  BY <1>2, SizeFacts DEF NextLen, Smaller

-----------------------------------------------------------------------------
(* The inductive invariant.                                                  *)

\* While nothing moves the bytes between the indices stay.
LEMMA RingStays ==
  ASSUME UNCHANGED <<buffer, in, out>>
  PROVE  Used' = Used /\ (IndicesExact => IndicesExact') /\ (ElementsWhole => ElementsWhole')
BY DEF Used, IndicesExact, ElementsWhole, Holds

\* The elements that were popped stay as they are.
LEMMA TakenStays ==
  ASSUME UNCHANGED taken, PopsWholeElement PROVE PopsWholeElement'
BY DEF PopsWholeElement

\* The bytes of an element between the indices are among those used.
LEMMA InElement ==
  ASSUME ElementsFit, TypeOK, IndicesExact, NEW d \in 0..(Used - 1), d % ElementSize = 0,
         NEW i \in Offsets
  PROVE  d + i \in 0..(Used - 1) /\ i \in Nat
<1>1. d \in Int /\ Used \in Int /\ ElementSize \in Nat \ {0} /\ d < Used
  BY IndexTypes, SizeFacts
<1>2. d + ElementSize <= Used
  <2>1. Used % ElementSize = 0
    BY UsedFits
  <2> QED
    BY <1>1, <2>1, MultipleLess
<1> QED
  BY <1>1, <1>2 DEF Offsets

\* The copy of a push: the bytes of the element, from the in index on, or nothing.
LEMMA PushCopied ==
  ASSUME ElementsFit, TypeOK, SpscInv, PushCopy
  PROVE  /\ \A n \in 0..(Used - 1) : buffer'[(out + n) % Size] = buffer[(out + n) % Size]
         /\ producer.len = ElementSize =>
              \A i \in Offsets : buffer'[(in + i) % Size] = Element(producer.arg[1])[i]
<1>1. PICK x \in Nat, len \in {0, ElementSize} :
        x = in % Size /\ x < Size /\ len = producer.len /\ Used + len <= Size
  BY ModSize, IndexTypes, SizeFacts DEF PushCopy, SpscInv, PassesWhole, Moving
<1>2. in \in Nat /\ in % ElementSize = 0 /\ out \in Nat /\ Used \in Nat /\ in \in Int
  BY IndexTypes DEF SpscInv, IndicesExact
<1>3. /\ x + ElementSize <= Size /\ \A i \in Offsets : (in + i) % Size = x + i
      /\ FirstPart(in, len) = len
  BY <1>1, <1>2, NoWrap
<1> DEFINE byte == Element(producer.arg[1])
<1>4. buffer' = [i \in DOMAIN buffer |->
                  CASE i \in x..(x + len - 1) -> byte[i - x]
                    [] i \in 0..(len - len - 1) -> Garbage
                    [] OTHER -> buffer[i]]
  BY <1>1, <1>3 DEF PushCopy
<1> HIDE DEF byte
<1>5. len \in Nat /\ DOMAIN buffer = 0..(Size - 1) /\ 0..(len - len - 1) = {}
  BY <1>1, SizeFacts DEF TypeOK
<1>6. \A n \in 0..(Size - 1) :
        buffer'[n] = IF x <= n /\ n < x + len THEN byte[n - x] ELSE buffer[n]
  BY <1>4, <1>5
<1>7. ASSUME NEW n \in 0..(Used - 1)
      PROVE  buffer'[(out + n) % Size] = buffer[(out + n) % Size]
  <2>1. PICK y \in 0..(Size - 1) : y = (out + n) % Size
    <3>1. out + n \in Int
      BY <1>2
    <3> QED
      BY <3>1, ModSize
  <2>2. ~(x <= y /\ y < x + len)
    <3> SUFFICES ASSUME x <= y, y < x + len PROVE FALSE
      OBVIOUS
    <3>1. PICK j \in Offsets : y = x + j /\ j < len
      <4>1. y - x \in Offsets /\ y = x + (y - x) /\ y - x < len
        BY <1>1, <1>5, SizeFacts DEF Offsets
      <4> QED
        BY <4>1
    <3>2. (out + Used + j) % Size = y
      <4>1. j \in Int
        BY <3>1 DEF Offsets
      <4> QED
        BY <1>3, <3>1, <4>1, InIs
    <3>3. out \in Int /\ n \in 0..(Size - 1) /\ Used + j \in 0..(Size - 1)
      BY <1>1, <1>2, <1>5, <3>1, SizeFacts DEF Offsets
    <3>4. out + Used + j = out + (Used + j)
      BY <1>2, <3>3 DEF Offsets
    <3>5. n = Used + j
      BY <2>1, <3>2, <3>3, <3>4, SizeFacts, ModApart
    <3> QED
      BY <1>2, <3>1, <3>5 DEF Offsets
  <2> QED
    BY <1>6, <2>1, <2>2
<1>8. ASSUME len = ElementSize, NEW i \in Offsets PROVE buffer'[(in + i) % Size] = byte[i]
  <2>1. i \in Nat /\ i < ElementSize
    BY SizeFacts DEF Offsets
  <2>2. x + i \in 0..(Size - 1) /\ x <= x + i /\ x + i < x + len /\ (x + i) - x = i
    BY <1>3, <1>8, <2>1, SizeFacts
  <2> QED
    BY <1>3, <1>6, <2>2
<1> QED
  BY <1>1, <1>7, <1>8 DEF byte

\* The copy of a pop: the oldest element, or nothing.
LEMMA PopCopied ==
  ASSUME ElementsFit, TypeOK, SpscInv, PopCopy, consumer.len = ElementSize
  PROVE  Holds(out, consumer'.got)
<1>1. /\ \A i \in Offsets : (out + i) % Size = (out % Size) + i
      /\ FirstPart(out, ElementSize) = ElementSize
  BY IndexTypes, NoWrap DEF SpscInv, IndicesExact
<1>2. consumer' = [consumer EXCEPT !.at = "publish",
                     !.got = [i \in Offsets |-> IF i < ElementSize THEN buffer[(out % Size) + i]
                                                ELSE consumer.got[i]]]
  BY <1>1 DEF PopCopy
<1>3. consumer'.got = [i \in Offsets |-> IF i < ElementSize THEN buffer[(out % Size) + i]
                                         ELSE consumer.got[i]]
  BY <1>2 DEF TypeOK
<1>4. \A i \in Offsets : i < ElementSize
  BY SizeFacts DEF Offsets
<1>5. \A i \in Offsets : consumer'.got[i] = buffer[(out % Size) + i]
  BY <1>3, <1>4
<1> QED
  BY <1>1, <1>5 DEF Holds

\* The initial state has it.
LEMMA InitSpscInv == Init => SpscInv
<1> SUFFICES ASSUME Init PROVE SpscInv
  OBVIOUS
<1>1. 0 % ElementSize = 0 /\ 0 % UintMod = 0 /\ 0 - 0 = 0
  BY SizeFacts
<1>2. Used = 0 /\ 0..(0 - 1) = {}
  BY <1>1 DEF Init, Used
<1>3. IndicesExact
  BY <1>1, <1>2, SizeFacts DEF Init, IndicesExact
<1>4. PassesWhole
  BY DEF Init, PassesWhole, Moving
<1>5. ElementsWhole /\ CopiesExact
  BY <1>2 DEF Init, ElementsWhole, CopiesExact
<1>6. PopsWholeElement
  BY DEF Init, PopsWholeElement
<1> QED
  BY <1>3, <1>4, <1>5, <1>6, InitType DEF SpscInv

\* push_back() starts.
LEMMA PushBackKeeps ==
  ASSUME TypeOK, SpscInv, NEW v \in Value, PushBack(v)
  PROVE  PassesWhole' /\ CopiesExact'
<1>1. producer' = [at |-> "sample", arg |-> <<v>>, len |-> 0]
      /\ UNCHANGED <<buffer, in, out, consumer>>
  BY DEF PushBack
<1>2. producer'.at = "sample" /\ producer'.len = 0
  BY <1>1
<1>3. PassesWhole'
  BY <1>1, <1>2, RingStays DEF SpscInv, PassesWhole, Moving
<1>4. CopiesExact'
  BY <1>1, <1>2 DEF SpscInv, CopiesExact, Holds
<1> QED
  BY <1>3, <1>4

\* It samples the out index.
LEMMA PushSampleKeeps ==
  ASSUME ElementsFit, TypeOK, SpscInv, PushSample
  PROVE  PassesWhole' /\ CopiesExact'
<1>1. producer' = [producer EXCEPT !.at = "copy",
                     !.len = NextLen(producer.len, (Size - in + out) % UintMod)]
      /\ UNCHANGED <<buffer, in, out, consumer>>
  BY DEF PushSample
<1>2. Used \in Nat /\ Used <= Size /\ (Size - in + out) % UintMod = Size - Used
  BY IndexTypes, RoomIs DEF SpscInv, IndicesExact
<1>3. Size - Used \in Nat /\ (Size - Used) % ElementSize = 0
  <2>1. Used % ElementSize = 0 /\ Size % ElementSize = 0
    BY UsedFits DEF SpscInv, ElementsFit
  <2>2. Used \in Int /\ Size \in Int /\ ElementSize \in Nat \ {0}
    BY <1>2, SizeFacts
  <2>3. (Size - Used) % ElementSize = 0
    BY <2>1, <2>2, MultipleSum
  <2> QED
    BY <1>2, <2>3, SizeFacts
<1>4. PICK len \in {0, ElementSize} : len = NextLen(0, Size - Used) /\ len <= Size - Used
  BY <1>3, PassFits
<1>5. producer.len = 0
  BY DEF PushSample, SpscInv, PassesWhole, Moving
<1>6. producer'.at = "copy" /\ producer'.len = len
  BY <1>1, <1>2, <1>4, <1>5 DEF TypeOK
<1>7. Used + len <= Size
  BY <1>2, <1>4, SizeFacts
<1>8. PassesWhole'
  BY <1>1, <1>6, <1>7, RingStays DEF SpscInv, PassesWhole, Moving
<1>9. CopiesExact'
  BY <1>1, <1>6 DEF SpscInv, CopiesExact, Holds
<1> QED
  BY <1>8, <1>9

\* It copies the element.
LEMMA PushCopyKeeps ==
  ASSUME ElementsFit, TypeOK, SpscInv, PushCopy
  PROVE  IndicesExact' /\ PassesWhole' /\ ElementsWhole' /\ CopiesExact'
<1>1. producer' = [producer EXCEPT !.at = "publish"] /\ UNCHANGED <<in, out, consumer>>
      /\ producer.at = "copy"
  BY DEF PushCopy
<1>2. /\ producer'.at = "publish" /\ producer'.len = producer.len
      /\ producer'.arg = producer.arg
  BY <1>1 DEF TypeOK
<1>3. Used' = Used
  BY <1>1 DEF Used
<1>4. IndicesExact'
  BY <1>1, <1>3 DEF SpscInv, IndicesExact
<1>5. PassesWhole'
  BY <1>1, <1>2, <1>3 DEF SpscInv, PassesWhole, Moving
<1>6. ASSUME NEW d \in 0..(Used - 1), d % ElementSize = 0, NEW e, Holds(out + d, e)
      PROVE  \A i \in Offsets : buffer'[(out + d + i) % Size] = e[i]
  <2> SUFFICES ASSUME NEW i \in Offsets PROVE buffer'[(out + d + i) % Size] = e[i]
    OBVIOUS
  <2>1. d + i \in 0..(Used - 1) /\ i \in Nat
    BY <1>6, InElement DEF SpscInv
  <2>2. out + d + i = out + (d + i)
    BY <2>1, IndexTypes
  <2>3. buffer'[(out + d + i) % Size] = buffer[(out + d + i) % Size]
    BY <2>1, <2>2, PushCopied
  <2> QED
    BY <1>6, <2>3 DEF Holds
<1>7. ElementsWhole'
  <2> SUFFICES ASSUME NEW d \in 0..(Used - 1), d % ElementSize = 0
               PROVE  \E v \in Value : Holds(out + d, Element(v))'
    BY <1>3 DEF ElementsWhole
  <2>1. PICK v \in Value : Holds(out + d, Element(v))
    BY DEF SpscInv, ElementsWhole
  <2>2. \A i \in Offsets : buffer'[(out + d + i) % Size] = Element(v)[i]
    BY <1>6, <2>1
  <2>3. Holds(out + d, Element(v))'
    BY <1>1, <2>2 DEF Holds, Element
  <2> QED
    BY <2>3
<1>8. CopiesExact'
  <2>1. ASSUME producer.len = ElementSize PROVE Holds(in, Element(producer.arg[1]))'
    BY <1>1, <1>2, <2>1, PushCopied DEF Holds
  <2>2. ASSUME consumer.at = "publish", consumer.len = ElementSize
        PROVE  Holds(out, consumer.got)'
    <3>1. Holds(out, consumer.got) /\ consumer.len <= Used
      BY <2>2 DEF SpscInv, CopiesExact, PassesWhole, Moving
    <3>2. 0 \in 0..(Used - 1) /\ 0 % ElementSize = 0 /\ out + 0 = out
      BY <2>2, <3>1, SizeFacts, IndexTypes
    <3>3. \A i \in Offsets : buffer'[(out + 0 + i) % Size] = consumer.got[i]
      BY <1>6, <3>1, <3>2
    <3> QED
      BY <1>1, <3>2, <3>3 DEF Holds
  <2> QED
    BY <1>1, <1>2, <2>1, <2>2 DEF CopiesExact
<1> QED
  BY <1>4, <1>5, <1>7, <1>8

\* It publishes the in index: what it copied is one more element.
LEMMA PushPublishKeeps ==
  ASSUME ElementsFit, TypeOK, SpscInv, PushPublish
  PROVE  IndicesExact' /\ PassesWhole' /\ ElementsWhole' /\ CopiesExact'
<1>1. PICK len \in {0, ElementSize} : len = producer.len /\ Used + len <= Size
  BY DEF PushPublish, SpscInv, PassesWhole, Moving
<1>2. /\ in' = (in + len) % UintMod /\ UNCHANGED <<buffer, out, consumer>>
      /\ producer.at = "publish"
  BY <1>1 DEF PushPublish
<1>3. producer'.at \in {"idle", "sample"} /\ producer'.len = 0
  <2>1. CASE len < ElementSize
    BY <1>1, <2>1 DEF PushPublish, TypeOK
  <2>2. CASE ~(len < ElementSize)
    BY <1>1, <2>2 DEF PushPublish
  <2> QED
    BY <2>1, <2>2
<1>4. in \in Nat /\ out \in Nat /\ Used \in Nat /\ len \in Nat
  BY <1>1, IndexTypes, SizeFacts
<1>5. Used' = Used + len
  BY <1>1, <1>2, <1>4, PushIndex DEF Used
<1>6. in' % ElementSize = 0
  <2>1. in % ElementSize = 0 /\ len % ElementSize = 0 /\ in \in Int /\ len \in Int
    <3>1. 0 % ElementSize = 0 /\ ElementSize % ElementSize = 0
      BY SizeFacts
    <3> QED
      BY <1>1, <1>4, <3>1 DEF SpscInv, IndicesExact
  <2>2. (in + len) % ElementSize = 0
    BY <2>1, SizeFacts, MultipleSum
  <2> QED
    BY <1>2, <1>4, <2>2, WrappedFits
<1>7. IndicesExact'
  BY <1>1, <1>2, <1>5, <1>6 DEF SpscInv, IndicesExact
<1>8. PassesWhole'
  BY <1>2, <1>3, <1>4, <1>5, SizeFacts DEF SpscInv, PassesWhole, Moving
<1>9. ElementsWhole'
  <2>0. PICK u \in Nat : u = Used + len /\ u = Used'
    BY <1>4, <1>5
  <2> SUFFICES ASSUME NEW d \in 0..(u - 1), d % ElementSize = 0
               PROVE  \E v \in Value :
                        \A i \in Offsets : buffer'[(out' + d + i) % Size] = Element(v)[i]
    BY <2>0 DEF ElementsWhole, Holds, Element
  <2>1. CASE d < Used
    <3>1. d \in 0..(Used - 1)
      BY <1>4, <2>1
    <3>2. PICK v \in Value : Holds(out + d, Element(v))
      BY <3>1 DEF SpscInv, ElementsWhole
    <3>3. \A i \in Offsets : buffer'[(out' + d + i) % Size] = Element(v)[i]
      BY <1>2, <3>2 DEF Holds
    <3> QED
      BY <3>3
  <2>2. CASE ~(d < Used)
    <3>1. d = Used /\ len = ElementSize
      <4>1. Used % ElementSize = 0
        BY UsedFits DEF SpscInv
      <4>2. d \in Int /\ Used \in Int /\ ElementSize \in Nat \ {0}
        BY <1>4, SizeFacts
      <4>3. Used < d => Used + ElementSize <= d
        BY <4>1, <4>2, MultipleLess
      <4> QED
        BY <1>1, <1>4, <2>0, <2>2, <4>2, <4>3
    <3>2. Holds(in, Element(producer.arg[1]))
      BY <1>1, <1>2, <3>1 DEF SpscInv, CopiesExact
    <3>3. PICK v \in Value : producer.arg = <<v>>
      BY <1>2 DEF SpscInv, OperationsOpen, TypeOK
    <3>4. \A i \in Offsets : (in + i) % Size = (out + d + i) % Size
      BY <3>1, InIs DEF Offsets
    <3>5. \A i \in Offsets : buffer'[(out' + d + i) % Size] = Element(v)[i]
      BY <1>2, <3>2, <3>3, <3>4 DEF Holds
    <3> QED
      BY <3>5
  <2> QED
    BY <2>1, <2>2
<1>10. CopiesExact'
  BY <1>2, <1>3 DEF SpscInv, CopiesExact, Holds
<1> QED
  BY <1>7, <1>8, <1>9, <1>10

\* pop_front() starts.
LEMMA PopFrontKeeps ==
  ASSUME TypeOK, SpscInv, PopFront
  PROVE  PassesWhole' /\ CopiesExact'
<1>1. consumer' = [at |-> "sample", got |-> [i \in Offsets |-> Garbage], len |-> 0]
      /\ UNCHANGED <<buffer, in, out, producer>>
  BY DEF PopFront
<1>2. consumer'.at = "sample" /\ consumer'.len = 0
  BY <1>1
<1>3. PassesWhole'
  BY <1>1, <1>2, RingStays DEF SpscInv, PassesWhole, Moving
<1>4. CopiesExact'
  BY <1>1, <1>2 DEF SpscInv, CopiesExact, Holds, Element
<1> QED
  BY <1>3, <1>4

\* It samples the in index.
LEMMA PopSampleKeeps ==
  ASSUME ElementsFit, TypeOK, SpscInv, PopSample
  PROVE  PassesWhole' /\ CopiesExact'
<1>1. consumer' = [consumer EXCEPT !.at = "copy",
                     !.len = NextLen(consumer.len, (in - out) % UintMod)]
      /\ UNCHANGED <<buffer, in, out, producer>>
  BY DEF PopSample
<1>2. Used \in Nat /\ Used % ElementSize = 0 /\ (in - out) % UintMod = Used
  BY IndexTypes, UsedFits DEF SpscInv, Used
<1>3. PICK len \in {0, ElementSize} : len = NextLen(0, Used) /\ len <= Used
  BY <1>2, PassFits
<1>4. consumer.len = 0
  BY DEF PopSample, SpscInv, PassesWhole, Moving
<1>5. consumer'.at = "copy" /\ consumer'.len = len
  BY <1>1, <1>2, <1>3, <1>4 DEF TypeOK
<1>6. PassesWhole'
  BY <1>1, <1>3, <1>5, RingStays DEF SpscInv, PassesWhole, Moving
<1>7. CopiesExact'
  BY <1>1, <1>5 DEF SpscInv, CopiesExact, Holds, Element
<1> QED
  BY <1>6, <1>7

\* It copies the oldest element.
LEMMA PopCopyKeeps ==
  ASSUME ElementsFit, TypeOK, SpscInv, PopCopy
  PROVE  PassesWhole' /\ CopiesExact'
<1>1. UNCHANGED <<buffer, in, out, producer>> /\ consumer.at = "copy"
  BY DEF PopCopy
<1>2. consumer'.at = "publish" /\ consumer'.len = consumer.len
  BY DEF PopCopy, TypeOK
<1>3. PassesWhole'
  BY <1>1, <1>2, RingStays DEF SpscInv, PassesWhole, Moving
<1>4. CopiesExact'
  BY <1>1, <1>2, PopCopied DEF SpscInv, CopiesExact, Holds, Element
<1> QED
  BY <1>3, <1>4

\* It publishes the out index: what it copied was an element, and is one no longer.
LEMMA PopPublishKeeps ==
  ASSUME ElementsFit, TypeOK, SpscInv, PopPublish
  PROVE  /\ IndicesExact' /\ PassesWhole' /\ ElementsWhole' /\ CopiesExact'
         /\ PopsWholeElement'
<1>1. PICK len \in {0, ElementSize} : len = consumer.len /\ len <= Used
  BY DEF PopPublish, SpscInv, PassesWhole, Moving
<1>2. /\ out' = (out + len) % UintMod /\ UNCHANGED <<buffer, in, producer>>
      /\ consumer.at = "publish"
  BY <1>1 DEF PopPublish
<1>3. consumer'.at \in {"idle", "sample"} /\ consumer'.len = 0
  <2>1. CASE len < ElementSize
    BY <1>1, <2>1 DEF PopPublish, TypeOK
  <2>2. CASE ~(len < ElementSize)
    BY <1>1, <2>2 DEF PopPublish
  <2> QED
    BY <2>1, <2>2
<1>4. in \in Nat /\ out \in Nat /\ Used \in Nat /\ len \in Nat
  BY <1>1, IndexTypes, SizeFacts
<1>5. PICK u \in Nat : u = Used - len /\ u = Used'
  <2>1. Used' = Used - len
    BY <1>1, <1>2, <1>4, PopIndex DEF Used
  <2> QED
    BY <1>1, <1>4, <2>1
<1>6. len % ElementSize = 0
  <2>1. 0 % ElementSize = 0 /\ ElementSize % ElementSize = 0
    BY SizeFacts
  <2> QED
    BY <1>1, <2>1
<1>7. out' % ElementSize = 0
  <2>1. out % ElementSize = 0 /\ out \in Int /\ len \in Int
    BY <1>4 DEF SpscInv, IndicesExact
  <2>2. (out + len) % ElementSize = 0
    BY <1>6, <2>1, SizeFacts, MultipleSum
  <2> QED
    BY <1>2, <1>4, <2>2, WrappedFits
<1>8. IndicesExact'
  BY <1>1, <1>2, <1>4, <1>5, <1>7, SizeFacts DEF SpscInv, IndicesExact
<1>9. PassesWhole'
  <2>0. PICK p \in Nat : p = producer.len
    BY SizeFacts DEF TypeOK
  <2>1. producer.at \in Moving => Used' + producer.len <= Size
    <3>1. u + p <= Used + p
      BY <1>4, <1>5
    <3>2. producer.at \in Moving => Used + p <= Size
      BY <2>0 DEF SpscInv, PassesWhole
    <3>3. PICK x \in Nat : x = Used + p
      BY <1>4
    <3>4. producer.at \in Moving => u + p <= Size
      BY <3>1, <3>2, <3>3, SizeFacts
    <3> QED
      BY <1>5, <2>0, <3>4
  <2> QED
    BY <1>2, <1>3, <2>1 DEF SpscInv, PassesWhole, Moving
<1>10. ElementsWhole'
  <2> SUFFICES ASSUME NEW d \in 0..(u - 1), d % ElementSize = 0
               PROVE  \E v \in Value :
                        \A i \in Offsets : buffer'[(out' + d + i) % Size] = Element(v)[i]
    BY <1>5 DEF ElementsWhole, Holds, Element
  <2>1. PICK e \in 0..(Used - 1) : e = len + d /\ d \in Int
    BY <1>4, <1>5
  <2>2. e % ElementSize = 0
    <3>1. len \in Int /\ d \in Int
      BY <1>4
    <3> QED
      BY <1>6, <2>1, <3>1, SizeFacts, MultipleSum
  <2>3. PICK v \in Value : Holds(out + e, Element(v))
    BY <2>2 DEF SpscInv, ElementsWhole
  <2>4. ASSUME NEW i \in Offsets
        PROVE  (out' + d + i) % Size = (out + e + i) % Size
    <3>1. PICK x \in Int, j \in Int : x = out + len /\ j = d + i
      BY <1>4 DEF Offsets
    <3>2. ((x % UintMod) + j) % Size = (x + j) % Size
      BY WrappedIs
    <3>3. out' \in Int /\ out' = x % UintMod
      BY <1>2, <3>1, SizeFacts
    <3>4. i \in Int /\ e \in Int
      BY DEF Offsets
    <3>5. out' + d + i = out' + j /\ out + e + i = x + j
      BY <1>4, <2>1, <3>1, <3>3, <3>4
    <3> QED
      BY <3>2, <3>3, <3>5
  <2>5. \A i \in Offsets : buffer'[(out' + d + i) % Size] = Element(v)[i]
    BY <1>2, <2>3, <2>4 DEF Holds
  <2> QED
    BY <2>5
<1>11. CopiesExact'
  BY <1>2, <1>3 DEF SpscInv, CopiesExact, Holds, Element
<1>12. PopsWholeElement'
  <2>1. CASE len < ElementSize
    <3>1. UNCHANGED taken
      BY <1>1, <2>1 DEF PopPublish
    <3> QED
      BY <3>1, TakenStays DEF SpscInv
  <2>2. CASE ~(len < ElementSize)
    <3>1. taken' = <<consumer.got>> /\ len = ElementSize
      BY <1>1, <2>2, SizeFacts DEF PopPublish
    <3>2. Holds(out, consumer.got) /\ consumer.got \in [Offsets -> Byte]
      BY <1>1, <1>2, <3>1 DEF SpscInv, CopiesExact, OperationsOpen
    <3>3. 0 \in 0..(Used - 1) /\ 0 % ElementSize = 0 /\ out + 0 = out
      BY <1>1, <1>4, <3>1, SizeFacts
    <3>4. PICK v \in Value : Holds(out + 0, Element(v))
      BY <3>3 DEF SpscInv, ElementsWhole
    <3>5. \A i \in Offsets : consumer.got[i] = Element(v)[i]
      BY <3>2, <3>3, <3>4 DEF Holds
    <3>6. consumer.got = Element(v)
      BY <3>2, <3>5, ElementType
    <3> QED
      BY <3>1, <3>6 DEF PopsWholeElement, Whole
  <2> QED
    BY <2>1, <2>2
<1> QED
  BY <1>8, <1>9, <1>10, <1>11, <1>12

\* Clear() empties the ring while no thread is at work.
LEMMA ClearKeeps ==
  ASSUME TypeOK, SpscInv, Clear
  PROVE  IndicesExact' /\ PassesWhole' /\ ElementsWhole' /\ CopiesExact'
<1>1. /\ producer.at = "idle" /\ consumer.at = "idle" /\ in' = 0 /\ out' = 0
      /\ UNCHANGED <<buffer, producer, consumer>>
  BY DEF Clear
<1>2. 0 % ElementSize = 0 /\ 0 % UintMod = 0 /\ 0 - 0 = 0
  BY SizeFacts
<1>3. Used' = 0 /\ 0..(0 - 1) = {}
  BY <1>1, <1>2 DEF Used
<1>4. IndicesExact'
  BY <1>1, <1>2, <1>3, SizeFacts DEF IndicesExact
<1>5. PassesWhole'
  BY <1>1 DEF SpscInv, PassesWhole, Moving
<1>6. ElementsWhole' /\ CopiesExact'
  BY <1>1, <1>3 DEF ElementsWhole, CopiesExact
<1> QED
  BY <1>4, <1>5, <1>6

\* Every step keeps it.
LEMMA NextSpscInv == ElementsFit /\ TypeOK /\ SpscInv /\ [Next]_vars => SpscInv'
<1> SUFFICES ASSUME ElementsFit, TypeOK, SpscInv, [Next]_vars PROVE SpscInv'
  OBVIOUS
<1>0. OperationsOpen' /\ IndicesExact /\ ElementsWhole /\ PopsWholeElement
  BY NextType DEF SpscInv
<1>1. ASSUME NEW v \in Value, PushBack(v) PROVE SpscInv'
  <2>1. UNCHANGED <<buffer, in, out, taken>>
    BY <1>1 DEF PushBack
  <2> QED
    BY <1>0, <1>1, <2>1, PushBackKeeps, RingStays, TakenStays DEF SpscInv
<1>2. CASE PushSample
  <2>1. UNCHANGED <<buffer, in, out, taken>>
    BY <1>2 DEF PushSample
  <2> QED
    BY <1>0, <1>2, <2>1, PushSampleKeeps, RingStays, TakenStays DEF SpscInv
<1>3. CASE PushCopy
  <2>1. UNCHANGED taken
    BY <1>3 DEF PushCopy
  <2> QED
    BY <1>0, <1>3, <2>1, PushCopyKeeps, TakenStays DEF SpscInv
<1>4. CASE PushPublish
  <2>1. UNCHANGED taken
    BY <1>4 DEF PushPublish
  <2> QED
    BY <1>0, <1>4, <2>1, PushPublishKeeps, TakenStays DEF SpscInv
<1>5. CASE PopFront
  <2>1. UNCHANGED <<buffer, in, out, taken>>
    BY <1>5 DEF PopFront
  <2> QED
    BY <1>0, <1>5, <2>1, PopFrontKeeps, RingStays, TakenStays DEF SpscInv
<1>6. CASE PopSample
  <2>1. UNCHANGED <<buffer, in, out, taken>>
    BY <1>6 DEF PopSample
  <2> QED
    BY <1>0, <1>6, <2>1, PopSampleKeeps, RingStays, TakenStays DEF SpscInv
<1>7. CASE PopCopy
  <2>1. UNCHANGED <<buffer, in, out, taken>>
    BY <1>7 DEF PopCopy
  <2> QED
    BY <1>0, <1>7, <2>1, PopCopyKeeps, RingStays, TakenStays DEF SpscInv
<1>8. CASE PopPublish
  BY <1>0, <1>8, PopPublishKeeps DEF SpscInv
<1>9. CASE Clear
  <2>1. UNCHANGED taken
    BY <1>9 DEF Clear
  <2> QED
    BY <1>0, <1>9, <2>1, ClearKeeps, TakenStays DEF SpscInv
<1>10. CASE UNCHANGED vars
  BY <1>0, <1>10, RingStays, TakenStays
     DEF vars, SpscInv, PassesWhole, CopiesExact, Holds, Element
<1> QED
  BY <1>1, <1>2, <1>3, <1>4, <1>5, <1>6, <1>7, <1>8, <1>9, <1>10
     DEF Next, ProducerStep, ConsumerStep

\* If the ring holds whole elements: its indices, its bytes and the copies under way agree
\* in every state, and what was popped is an element that was pushed.
THEOREM AlwaysSpscInv == ASSUME ElementsFit PROVE Spec => []SpscInv
<1>1. Init => SpscInv
  BY InitSpscInv
<1>2. TypeOK /\ SpscInv /\ [Next]_vars => SpscInv'
  BY NextSpscInv
<1> QED
  BY <1>1, <1>2, AlwaysTypeOK, PTL DEF Spec

-----------------------------------------------------------------------------
(* What the two threads rely on.                                             *)

\* The producer writes above what is used and the consumer reads below it.
LEMMA InvNoOverlap == TypeOK /\ SpscInv => NoOverlap
<1> SUFFICES ASSUME TypeOK, SpscInv, producer.at \in Moving, consumer.at \in Moving,
                    NEW i \in 0..(producer.len - 1), NEW j \in 0..(consumer.len - 1),
                    (in + i) % Size = (out + j) % Size
             PROVE  FALSE
  BY DEF NoOverlap, Bytes
<1>1. PICK m \in Nat, n \in Nat, u \in Nat :
        m = producer.len /\ n = consumer.len /\ u = Used /\ u + m <= Size /\ n <= u
  BY IndexTypes, SizeFacts DEF SpscInv, PassesWhole, TypeOK
<1>2. i \in Int /\ i < m /\ 0 <= i /\ j \in Int /\ j < n /\ 0 <= j
  BY <1>1
<1>3. out \in Int /\ (in + i) % Size = (out + u + i) % Size
  BY <1>1, <1>2, IndexTypes, InIs
<1>4. out + u + i = out + (u + i) /\ u + i \in 0..(Size - 1) /\ j \in 0..(Size - 1)
  BY <1>1, <1>2, <1>3, SizeFacts
<1>5. u + i = j
  BY <1>3, <1>4, SizeFacts, ModApart
<1> QED
  BY <1>1, <1>2, <1>5

\* The two threads never touch the same bytes at once.
THEOREM NeverOverlaps == ASSUME ElementsFit PROVE Spec => []NoOverlap
<1>1. TypeOK /\ SpscInv => NoOverlap
  BY InvNoOverlap
<1> QED
  BY <1>1, AlwaysTypeOK, AlwaysSpscInv, PTL

-----------------------------------------------------------------------------
(* The ring is a queue.                                                      *)

\* A sequence with one more element at its end.
LEMMA AppendedIs ==
  ASSUME NEW S, NEW n \in Nat, NEW s \in [1..n -> S], NEW t \in [1..(n + 1) -> S],
         \A k \in 1..n : t[k] = s[k]
  PROVE  t = s \o <<t[n + 1]>> /\ Len(s) = n
<1>1. s \in Seq(S) /\ Len(s) = n
  OBVIOUS
<1>2. t \in Seq(S) /\ Len(t) = n + 1
  OBVIOUS
<1>3. t[n + 1] \in S
  OBVIOUS
<1>4. PICK e \in S : e = t[n + 1]
  BY <1>3
<1>5. s \o <<e>> \in Seq(S) /\ Len(s \o <<e>>) = n + 1
  BY <1>1, <1>4
<1>6. \A k \in 1..(n + 1) : (s \o <<e>>)[k] = t[k]
  BY <1>1, <1>4
<1> QED
  BY <1>1, <1>2, <1>4, <1>5, <1>6

\* A sequence without its first element.
LEMMA TailIs ==
  ASSUME NEW S, NEW n \in Nat \ {0}, NEW s \in [1..n -> S], NEW t \in [1..(n - 1) -> S],
         \A k \in 1..(n - 1) : t[k] = s[k + 1]
  PROVE  s # <<>> /\ Head(s) = s[1] /\ t = Tail(s)
<1>1. s \in Seq(S) /\ Len(s) = n /\ s # <<>>
  OBVIOUS
<1>2. t \in Seq(S) /\ Len(t) = n - 1
  OBVIOUS
<1>3. Tail(s) \in Seq(S) /\ Len(Tail(s)) = n - 1
  BY <1>1
<1>4. \A k \in 1..(n - 1) : Tail(s)[k] = t[k]
  BY <1>1
<1> QED
  BY <1>1, <1>2, <1>3, <1>4

\* The element at a place of the ring.
ElementAt(k) == [i \in Offsets |-> buffer[(out + (k - 1) * ElementSize + i) % Size]]

\* The ring holds QueueSize elements.
LEMMA ContentsAre ==
  ASSUME ElementsFit, TypeOK, SpscInv
  PROVE  /\ QueueSize \in Nat /\ QueueSize * ElementSize = Used
         /\ Contents = [k \in 1..QueueSize |-> ElementAt(k)]
         /\ Contents \in [1..QueueSize -> [Offsets -> Byte]]
<1>1. PICK u \in Nat : u = Used /\ u % ElementSize = 0
  BY IndexTypes, UsedFits DEF SpscInv
<1>2. PICK q \in Int : q = u \div ElementSize /\ u = q * ElementSize
  <2>1. u \div ElementSize \in Int /\ u = (u \div ElementSize) * ElementSize + 0
    BY <1>1, SizeFacts, DivMod
  <2> QED
    BY <2>1, SizeFacts
<1>3. 0 <= q
  <2>1. 0 * ElementSize <= u
    BY SizeFacts
  <2> QED
    BY <1>2, <2>1, SizeFacts, DivIs
<1>4. QueueSize = q
  BY <1>1, <1>2 DEF QueueSize
<1>5. \A k \in 1..q : ElementAt(k) \in [Offsets -> Byte]
  <2> SUFFICES ASSUME NEW k \in 1..q, NEW i \in Offsets
               PROVE  buffer[(out + (k - 1) * ElementSize + i) % Size] \in Byte
    BY DEF ElementAt
  <2>1. out + (k - 1) * ElementSize + i \in Int
    BY IndexTypes, SizeFacts DEF Offsets
  <2> QED
    BY <2>1, ModSize DEF TypeOK
<1>6. Contents = [k \in 1..q |-> ElementAt(k)]
  BY <1>4 DEF Contents, ElementAt
<1>7. Contents \in [1..q -> [Offsets -> Byte]]
  BY <1>5, <1>6
<1>8. q \in Nat /\ QueueSize * ElementSize = Used
  BY <1>1, <1>2, <1>3, <1>4
<1> QED
  BY <1>4, <1>6, <1>7, <1>8

\* They stay while nothing moves.
LEMMA ContentsStay == ASSUME UNCHANGED <<buffer, in, out>> PROVE Contents' = Contents
BY DEF Contents, QueueSize, Used

\* A copy of the producer does not change them.
LEMMA CopyIsInvisible ==
  ASSUME ElementsFit, TypeOK, SpscInv, PushCopy
  PROVE  Contents' = Contents
<1>1. UNCHANGED <<in, out>>
  BY DEF PushCopy
<1>2. QueueSize' = QueueSize
  BY <1>1 DEF QueueSize, Used
<1>3. PICK q \in Nat : q = QueueSize /\ q * ElementSize = Used
  BY ContentsAre
<1>4. ASSUME NEW k \in 1..q, NEW i \in Offsets
      PROVE  buffer'[(out + (k - 1) * ElementSize + i) % Size]
             = buffer[(out + (k - 1) * ElementSize + i) % Size]
  <2>1. PICK d \in Nat : d = (k - 1) * ElementSize /\ d + ElementSize <= Used
    <3>1. 0 * ElementSize <= (k - 1) * ElementSize /\ k * ElementSize <= q * ElementSize
      BY SizeFacts, TimesMonotone
    <3>2. (k - 1) * ElementSize \in Int /\ k * ElementSize = (k - 1) * ElementSize + ElementSize
      BY SizeFacts
    <3>3. 0 <= (k - 1) * ElementSize
      BY <3>1, SizeFacts
    <3> QED
      BY <1>3, <3>1, <3>2, <3>3
  <2>2. d + i \in 0..(Used - 1) /\ out + d + i = out + (d + i)
    BY <2>1, IndexTypes, SizeFacts DEF Offsets
  <2>3. buffer'[(out + (d + i)) % Size] = buffer[(out + (d + i)) % Size]
    BY <2>2, PushCopied
  <2> QED
    BY <2>1, <2>2, <2>3
<1>5. \A k \in 1..q : ElementAt(k)' = ElementAt(k)
  BY <1>1, <1>4 DEF ElementAt
<1>6. Contents = [k \in 1..q |-> ElementAt(k)] /\ Contents' = [k \in 1..q |-> ElementAt(k)']
  BY <1>2, <1>3 DEF Contents, ElementAt
<1> QED
  BY <1>5, <1>6

\* Publishing the in index adds the element that was offered.
LEMMA PublishPushes ==
  ASSUME ElementsFit, TypeOK, SpscInv, TypeOK', SpscInv', PushPublish,
         producer.len = ElementSize
  PROVE  \E v \in Value :
           /\ producer.arg = <<v>> /\ producer'.arg = <<>>
           /\ QueueSize < Size \div ElementSize /\ Len(Contents) = QueueSize
           /\ Contents' = Contents \o <<Element(v)>>
<1>1. PICK v \in Value : producer.arg = <<v>>
  BY DEF PushPublish, SpscInv, OperationsOpen, TypeOK
<1>2. producer'.arg = <<>> /\ UNCHANGED <<buffer, out>>
  <2>1. ~(producer.len < ElementSize)
    BY SizeFacts
  <2>2. producer' = [at |-> "idle", arg |-> <<>>, len |-> 0]
    BY <2>1 DEF PushPublish
  <2> QED
    BY <2>2 DEF PushPublish
<1>3. PICK u \in Nat, q \in Nat :
        u = Used /\ q = QueueSize /\ u = q * ElementSize /\ u + ElementSize <= Size
  BY IndexTypes, ContentsAre DEF PushPublish, SpscInv, PassesWhole, Moving
<1>4. (q + 1) * ElementSize = u + ElementSize
  BY <1>3, SizeFacts
<1>5. q + 1 <= Size \div ElementSize /\ Size \div ElementSize \in Int
  BY <1>3, <1>4, SizeFacts, DivIs
<1>6. Used' = u + ElementSize
  BY <1>3, SizeFacts, PushIndex DEF PushPublish, Used
<1>7. QueueSize' = q + 1
  <2>1. PICK w \in Int, j \in Int : w = u + ElementSize /\ j = q + 1
    BY SizeFacts
  <2>2. w = j * ElementSize + 0 /\ 0 <= 0 /\ 0 < ElementSize
    BY <1>4, <2>1, SizeFacts
  <2>3. w \div ElementSize = j
    BY <2>2, SizeFacts, ModUnique
  <2> QED
    BY <1>6, <2>1, <2>3 DEF QueueSize
<1>8. /\ Contents \in [1..q -> [Offsets -> Byte]]
      /\ Contents = [k \in 1..q |-> ElementAt(k)]
  BY <1>3, ContentsAre
<1>9. /\ Contents' \in [1..(q + 1) -> [Offsets -> Byte]]
      /\ Contents' = [k \in 1..(q + 1) |-> ElementAt(k)]
  <2>1. Contents' = [k \in 1..(q + 1) |-> ElementAt(k)]
    BY <1>2, <1>7 DEF Contents, ElementAt
  <2>2. \A k \in 1..(q + 1) : ElementAt(k) \in [Offsets -> Byte]
    <3> SUFFICES ASSUME NEW k \in 1..(q + 1), NEW i \in Offsets
                 PROVE  buffer[(out + (k - 1) * ElementSize + i) % Size] \in Byte
      BY DEF ElementAt
    <3>1. out + (k - 1) * ElementSize + i \in Int
      BY IndexTypes, SizeFacts DEF Offsets
    <3> QED
      BY <3>1, ModSize DEF TypeOK
  <2> QED
    BY <2>1, <2>2
<1>10. ElementAt(q + 1) = Element(v)
  <2> SUFFICES ASSUME NEW i \in Offsets
               PROVE  buffer[(out + (q + 1 - 1) * ElementSize + i) % Size] = Element(v)[i]
    BY DEF ElementAt, Element
  <2>1. (q + 1 - 1) * ElementSize = u
    BY <1>3, SizeFacts
  <2>2. buffer[(in + i) % Size] = Element(v)[i]
    BY <1>1 DEF PushPublish, SpscInv, CopiesExact, Holds
  <2>3. (in + i) % Size = (out + u + i) % Size
    BY <1>3, InIs DEF Offsets
  <2> QED
    BY <2>1, <2>2, <2>3
<1>11. Contents' = Contents \o <<Element(v)>> /\ Len(Contents) = q
  <2>1. \A k \in 1..q : Contents'[k] = Contents[k]
    BY <1>8, <1>9
  <2>2. Contents'[q + 1] = Element(v)
    BY <1>9, <1>10
  <2> DEFINE S == [Offsets -> Byte]
  <2>3. Contents \in [1..q -> S] /\ Contents' \in [1..(q + 1) -> S]
    BY <1>8, <1>9
  <2> HIDE DEF S
  <2>4. Contents' = Contents \o <<Contents'[q + 1]>> /\ Len(Contents) = q
    BY <2>1, <2>3, AppendedIs
  <2> QED
    BY <2>2, <2>4
<1>12. q < Size \div ElementSize
  BY <1>5
<1> QED
  BY <1>1, <1>2, <1>3, <1>11, <1>12

\* Publishing the out index removes the element that was copied.
LEMMA PublishPops ==
  ASSUME ElementsFit, TypeOK, SpscInv, TypeOK', SpscInv', PopPublish,
         consumer.len = ElementSize
  PROVE  /\ Contents # <<>> /\ taken' = <<Head(Contents)>>
         /\ Contents' = Tail(Contents)
<1>1. /\ UNCHANGED buffer /\ out' = (out + ElementSize) % UintMod
      /\ taken' = <<consumer.got>>
  BY SizeFacts DEF PopPublish
<1>2. PICK u \in Nat, q \in Nat :
        u = Used /\ q = QueueSize /\ u = q * ElementSize /\ ElementSize <= u
  BY IndexTypes, ContentsAre DEF PopPublish, SpscInv, PassesWhole, Moving
<1>3. q \in Nat \ {0}
  BY <1>2, SizeFacts
<1>4. (q - 1) * ElementSize = u - ElementSize
  BY <1>2, SizeFacts
<1>5. Used' = u - ElementSize
  BY <1>1, <1>2, SizeFacts, PopIndex DEF PopPublish, Used
<1>6. QueueSize' = q - 1
  <2>1. PICK w \in Int, j \in Int : w = u - ElementSize /\ j = q - 1
    BY SizeFacts
  <2>2. w = j * ElementSize + 0 /\ 0 <= 0 /\ 0 < ElementSize
    BY <1>4, <2>1, SizeFacts
  <2>3. w \div ElementSize = j
    BY <2>2, SizeFacts, ModUnique
  <2> QED
    BY <1>5, <2>1, <2>3 DEF QueueSize
<1>7. /\ Contents \in [1..q -> [Offsets -> Byte]]
      /\ Contents = [k \in 1..q |-> ElementAt(k)]
  BY <1>2, ContentsAre
<1>8. Contents' = [k \in 1..(q - 1) |-> ElementAt(k)']
  BY <1>6 DEF Contents, ElementAt
<1>9. ASSUME NEW k \in 1..(q - 1) PROVE ElementAt(k)' = ElementAt(k + 1)
  <2> SUFFICES ASSUME NEW i \in Offsets
               PROVE  (out' + (k - 1) * ElementSize + i) % Size
                      = (out + (k + 1 - 1) * ElementSize + i) % Size
    BY <1>1 DEF ElementAt
  <2>1. PICK x \in Int, m \in Int, j \in Int :
          x = out + ElementSize /\ m = (k - 1) * ElementSize /\ j = m + i
    BY IndexTypes, SizeFacts DEF Offsets
  <2>2. (k + 1 - 1) * ElementSize = m + ElementSize
    BY <2>1, SizeFacts
  <2>3. ((x % UintMod) + j) % Size = (x + j) % Size
    BY WrappedIs
  <2>4. out' \in Int /\ out' = x % UintMod /\ i \in Int /\ out \in Int
    BY <1>1, <2>1, SizeFacts, IndexTypes DEF Offsets
  <2>5. out' + m + i = out' + j /\ out + (m + ElementSize) + i = x + j
    BY <2>1, <2>4, SizeFacts
  <2> QED
    BY <2>1, <2>2, <2>3, <2>4, <2>5
<1>10. ElementAt(1) = consumer.got
  <2>1. consumer.got \in [Offsets -> Byte] /\ Holds(out, consumer.got)
    BY DEF PopPublish, SpscInv, CopiesExact, OperationsOpen
  <2>2. \A i \in Offsets : out + (1 - 1) * ElementSize + i = out + i
    BY IndexTypes, SizeFacts DEF Offsets
  <2> QED
    BY <2>1, <2>2 DEF ElementAt, Holds
<1>11. Contents' \in [1..(q - 1) -> [Offsets -> Byte]]
       /\ \A k \in 1..(q - 1) : Contents'[k] = Contents[k + 1]
  <2>1. \A k \in 1..(q - 1) : k + 1 \in 1..q
    BY <1>3
  <2>2. \A k \in 1..(q - 1) : Contents'[k] = Contents[k + 1]
    BY <1>7, <1>8, <1>9, <2>1
  <2>3. \A k \in 1..(q - 1) : Contents[k + 1] \in [Offsets -> Byte]
    BY <1>7, <2>1
  <2> QED
    BY <1>8, <2>2, <2>3
<1>12. Contents # <<>> /\ Head(Contents) = Contents[1] /\ Contents' = Tail(Contents)
  <2> DEFINE S == [Offsets -> Byte]
  <2>1. Contents \in [1..q -> S] /\ Contents' \in [1..(q - 1) -> S]
    BY <1>7, <1>11
  <2> HIDE DEF S
  <2> QED
    BY <1>3, <1>11, <2>1, TailIs
<1>13. Contents[1] = consumer.got
  BY <1>3, <1>7, <1>10
<1> QED
  BY <1>1, <1>12, <1>13

\* A pass that found no room, or nothing to take, publishes nothing.
LEMMA EmptyPass ==
  ASSUME TypeOK
  PROVE  (in + 0) % UintMod = in /\ (out + 0) % UintMod = out
<1>1. in + 0 = in /\ out + 0 = out /\ in \in Nat /\ out \in Nat
      /\ in < UintMod /\ out < UintMod
  BY SizeFacts DEF TypeOK, Uint
<1> QED
  BY <1>1, SizeFacts, ModSmall

\* No element is used: the ring is the empty sequence.
LEMMA NothingUsed == Used = 0 => Contents = <<>>
<1> SUFFICES ASSUME Used = 0 PROVE Contents = <<>>
  OBVIOUS
<1>1. 0 \div ElementSize = 0
  BY SizeFacts
<1>2. QueueSize = 0
  BY <1>1 DEF QueueSize
<1>3. 1..0 = {}
  OBVIOUS
<1> QED
  BY <1>2, <1>3 DEF Contents

\* What the producer offers, as the refinement sees it.
Offered == IF producer.arg = <<>> THEN <<>> ELSE <<Element(producer.arg[1])>>

\* While nothing moves and the producer keeps its argument, the queue stutters.
LEMMA Stutters ==
  ASSUME Contents' = Contents, producer'.arg = producer.arg, taken' = taken
  PROVE  UNCHANGED <<Contents, Offered, taken>>
BY DEF Offered

\* A push that begins is an offer.
LEMMA PushBackOffers ==
  ASSUME OperationsOpen, NEW v \in Value, PushBack(v)
  PROVE  Queue!Offer(Element(v)) /\ Element(v) \in Whole
<1>1. producer.arg = <<>> /\ producer'.arg = <<v>> /\ UNCHANGED <<buffer, in, out, taken>>
  BY DEF PushBack, OperationsOpen
<1>2. Contents' = Contents
  BY <1>1, ContentsStay
<1>3. <<v>> # <<>> /\ <<v>>[1] = v
  OBVIOUS
<1> QED
  BY <1>1, <1>2, <1>3 DEF Queue!Offer, Whole

\* The ring, if it holds whole elements, is a bounded queue of them: a push takes effect
\* when its index is published, a pop when the consumer's is.
THEOREM RingImplementsFifo == ASSUME ElementsFit PROVE Spec => ImplementsFifo
<1>1. Init => Queue!Init
  <2> SUFFICES ASSUME Init PROVE Queue!Init
    OBVIOUS
  <2>1. Used = 0
    BY SizeFacts, ModSmall DEF Init, Used
  <2>2. Contents = <<>> /\ producer.arg = <<>> /\ taken = <<>>
    BY <2>1, NothingUsed DEF Init
  <2> QED
    BY <2>2 DEF Queue!Init
<1>2. /\ TypeOK /\ SpscInv /\ TypeOK' /\ SpscInv'
      /\ [Next]_vars
      => [Queue!Next]_<<Contents, Offered, taken>>
  <2> SUFFICES ASSUME TypeOK, SpscInv, TypeOK', SpscInv', [Next]_vars
               PROVE  [Queue!Next]_<<Contents, Offered, taken>>
    OBVIOUS
  <2> USE ElementsFit
  <2>1. ASSUME NEW v \in Value, PushBack(v)
        PROVE  Queue!Next
    BY <2>1, PushBackOffers DEF Queue!Next, SpscInv
  <2>2. CASE PopFront
    BY <2>2, ContentsStay, Stutters DEF PopFront
  <2>3. CASE PushSample
    <3>1. UNCHANGED <<buffer, in, out, taken>> /\ producer'.arg = producer.arg
      BY <2>3 DEF PushSample, TypeOK
    <3> QED
      BY <3>1, ContentsStay, Stutters
  <2>4. CASE PushCopy
    <3>1. UNCHANGED taken /\ producer'.arg = producer.arg
      BY <2>4 DEF PushCopy, TypeOK
    <3> QED
      BY <2>4, <3>1, CopyIsInvisible, Stutters
  <2>5. CASE PushPublish
    <3>1. producer.len \in {0, ElementSize} /\ UNCHANGED <<buffer, out, taken>>
      BY <2>5 DEF PushPublish, SpscInv, PassesWhole, Moving
    <3>2. CASE producer.len = ElementSize
      <4>1. PICK v \in Value :
              /\ producer.arg = <<v>> /\ producer'.arg = <<>>
              /\ QueueSize < Size \div ElementSize /\ Len(Contents) = QueueSize
              /\ Contents' = Contents \o <<Element(v)>>
        BY <2>5, <3>2, PublishPushes
      <4>2. <<v>> # <<>> /\ <<v>>[1] = v /\ <<Element(v)>> # <<>>
        OBVIOUS
      <4> QED
        BY <3>1, <4>1, <4>2 DEF Queue!Next, Queue!Push
    <3>3. CASE producer.len = 0
      <4>1. in' = in
        BY <2>5, <3>3, EmptyPass DEF PushPublish
      <4>2. 0 < ElementSize
        BY SizeFacts
      <4>3. producer'.arg = producer.arg
        BY <2>5, <3>3, <4>2 DEF PushPublish, TypeOK
      <4> QED
        BY <3>1, <4>1, <4>3, ContentsStay, Stutters
    <3> QED
      BY <3>1, <3>2, <3>3
  <2>6. CASE PopSample
    BY <2>6, ContentsStay, Stutters DEF PopSample
  <2>7. CASE PopCopy
    BY <2>7, ContentsStay, Stutters DEF PopCopy
  <2>8. CASE PopPublish
    <3>1. consumer.len \in {0, ElementSize} /\ UNCHANGED <<buffer, in, producer>>
      BY <2>8 DEF PopPublish, SpscInv, PassesWhole, Moving
    <3>2. CASE consumer.len = ElementSize
      <4>1. Contents # <<>> /\ taken' = <<Head(Contents)>> /\ Contents' = Tail(Contents)
        BY <2>8, <3>2, PublishPops
      <4> QED
        BY <3>1, <4>1 DEF Queue!Next, Queue!Pop
    <3>3. CASE consumer.len = 0
      <4>1. 0 < ElementSize
        BY SizeFacts
      <4>2. out' = out /\ taken' = taken
        BY <2>8, <3>3, <4>1, EmptyPass DEF PopPublish
      <4> QED
        BY <3>1, <4>2, ContentsStay, Stutters
    <3> QED
      BY <3>1, <3>2, <3>3
  <2>9. CASE Clear
    <3>1. in' = 0 /\ out' = 0 /\ UNCHANGED <<producer, taken>>
      BY <2>9 DEF Clear
    <3>2. QueueSize' = 0
      <4>1. (0 - 0) % UintMod = 0
        BY SizeFacts, ModSmall
      <4>2. 0 \div ElementSize = 0
        BY SizeFacts
      <4> QED
        BY <3>1, <4>1, <4>2 DEF QueueSize, Used
    <3>3. Contents' = <<>>
      <4>1. 1..0 = {}
        OBVIOUS
      <4> QED
        BY <3>2, <4>1 DEF Contents
    <3> QED
      BY <3>1, <3>3 DEF Queue!Next, Queue!Clear
  <2>10. CASE UNCHANGED vars
    BY <2>10, ContentsStay, Stutters DEF vars
  <2> QED
    BY <2>1, <2>2, <2>3, <2>4, <2>5, <2>6, <2>7, <2>8, <2>9, <2>10
       DEF Next, ProducerStep, ConsumerStep
<1>3. Spec => []TypeOK
  BY AlwaysTypeOK, PTL
<1>4. Spec => []SpscInv
  BY ElementsFit, AlwaysSpscInv
<1>5. [Queue!Next]_<<Contents, Offered, taken>> => [Queue!Next]_Queue!fvars
  BY DEF Queue!fvars, Offered
<1> QED
  BY <1>1, <1>2, <1>3, <1>4, <1>5, PTL DEF Spec, ImplementsFifo, Queue!Spec

=============================================================================
