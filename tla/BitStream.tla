------------------------------ MODULE BitStream -----------------------------
(***************************************************************************)
(* A geco_bit_stream_t in use (src/common/ds/geco-bit-stream.h, .cpp): its  *)
(* owner writes fields of every kind, reads them back in their order, reads *)
(* them again from the start, resets the stream for the next message,       *)
(* pads it, and sends its bytes to a receiver who reads them there.         *)
(*                                                                          *)
(* A field is a record of its kind and of what the calls that write and     *)
(* read it are given; the reader knows the kinds of the fields and their    *)
(* order, as the two ends of a protocol do.                                 *)
(***************************************************************************)
EXTENDS BitCodec

CONSTANTS
  Fields,     \* what may be written
  Sources,    \* the streams that may be copied, and how many of their bits
  PadTo,      \* the sizes a message may be padded to, in bytes
  MaxWrites   \* a bound of the model: the fields written, over all messages

(* A value of an integer type: its bytes are all of it.                      *)
HasType(v, size) == size \in Nat \ {0} /\ v \in Nat /\ Number(Bytes(v, size)) = v

(* A field that a caller may write.                                          *)
IsField(f) ==
  /\ f.kind \in {"bit", "bits", "int", "aligned", "changed", "mini", "ranged", "string"}
  /\ f.kind = "bit" => f.value \in {0, 1}
  /\ f.kind = "bits" => f.value \in Nat /\ f.bits \in Nat
  /\ f.kind \in {"int", "aligned", "changed", "mini", "ranged"} => HasType(f.value, f.size)
  /\ f.kind = "mini" => f.unsigned \in BOOLEAN
  /\ f.kind = "ranged" => /\ f.outside \in BOOLEAN /\ (f.outside \/ f.value \in f.min..f.max)
                          /\ f.min \in Nat /\ HasType(f.max, f.size) /\ f.min <= f.max
  /\ f.kind = "string" =>
       LET bits == EncodeArray(f.text) IN
       /\ bits \in Seq({0, 1}) /\ RoundUp(Len(bits)) = Len(bits)
       /\ HasType(Len(bits), UintBytes)

ASSUME FieldsAssumption ==
  /\ \A f \in Fields : IsField(f)
  /\ \A c \in Sources : c.source \in Stream /\ c.bits \in Nat
  /\ PadTo \subseteq Nat /\ MaxWrites \in Nat

VARIABLES
  stream,  \* the object
  script,  \* the fields of the message, in the order they were written
  read,    \* how many of them were read
  last,    \* what was last written for a field that was read, and what was read
  mode,    \* "open" to the writer; "padded" or "copied", and closed; "received"
  writes

vars == <<stream, script, read, last, mode, writes>>

(* What a field's reader should get.                                         *)
Meant(f) ==
  CASE f.kind = "string" -> f.text
    [] f.kind = "bits"   -> f.value % Power2(f.bits)
    [] OTHER             -> f.value

Put(s, f) ==
  CASE f.kind = "bit"     -> PutBit(s, f.value)
    [] f.kind = "bits"    -> PutBits(s, Bytes(f.value, BITS_TO_BYTES(f.bits)), f.bits, TRUE)
    [] f.kind = "int"     -> PutInt(s, f.value, f.size)
    [] f.kind = "aligned" -> PutAligned(s, f.value, f.size)
    [] f.kind = "changed" -> PutChanged(s, f.value, f.last, f.size)
    [] f.kind = "mini"    -> PutMini(s, f.value, f.size, f.unsigned)
    [] f.kind = "ranged"  -> PutRanged(s, f.value, f.min, f.max, f.outside, f.size)
    [] f.kind = "string"  -> PutString(s, f.text)

Get(s, f) ==
  CASE f.kind = "bit"     -> GetBit(s)
    [] f.kind \in {"bits", "copy"} -> GetNumber(s, f.bits)
    [] f.kind = "int"     -> GetInt(s, f.size)
    [] f.kind = "aligned" -> GetAligned(s, f.size)
    [] f.kind = "changed" -> GetChanged(s, f.last, f.size)
    [] f.kind = "mini"    -> GetMini(s, f.size, f.unsigned)
    [] f.kind = "ranged"  -> GetRanged(s, f.min, f.max, f.outside, f.size)
    [] f.kind = "string"  -> GetString(s)

Nothing == [written |-> 0, got |-> 0]

Init ==
  /\ \E junk \in BOOLEAN : stream = EmptyStream(junk)
  /\ script = <<>> /\ read = 0 /\ last = Nothing /\ mode = "open" /\ writes = 0

Write(f) ==
  /\ mode = "open" /\ writes < MaxWrites
  /\ stream' = Put(stream, f)
  /\ script' = Append(script, f)
  /\ last' = Nothing
  /\ writes' = writes + 1
  /\ UNCHANGED <<read, mode>>

Read ==
  /\ read < Len(script)
  /\ LET f == script[read + 1]
         g == Get(stream, f)
     IN stream' = g.stream /\ last' = [written |-> Meant(f), got |-> g.value]
  /\ read' = read + 1
  /\ UNCHANGED <<script, mode, writes>>

(* Bits of another stream are copied.  Nothing can be written after them: it *)
(* would not be where the reader looks for it.                               *)
Copy(source, n) ==
  /\ mode = "open" /\ writes < MaxWrites
  /\ HasRoom(stream, source, n)
  /\ stream' = PutCopy(stream, source, n)
  /\ script' = Append(script, [kind |-> "copy", bits |-> n, value |-> GetNumber(source, n).value])
  /\ mode' = "copied" /\ last' = Nothing
  /\ writes' = writes + 1
  /\ UNCHANGED read

(* reset_readable_bit_pos().                                                 *)
Rewind ==
  /\ read > 0
  /\ stream' = [stream EXCEPT !.readable = 0]
  /\ read' = 0 /\ last' = Nothing
  /\ UNCHANGED <<script, mode, writes>>

ResetWithoutRead ==
  /\ script # <<>>
  /\ stream' = [stream EXCEPT !.writable = 0]
  /\ script' = <<>> /\ read' = 0 /\ last' = Nothing /\ mode' = "open"
  /\ UNCHANGED writes

(* reset(): the memory and what it holds are kept.                           *)
Reset ==
  /\ script # <<>>
  /\ stream' = [stream EXCEPT !.writable = 0, !.readable = 0]
  /\ script' = <<>> /\ read' = 0 /\ last' = Nothing /\ mode' = "open"
  /\ UNCHANGED writes

Pad(bytes) ==
  /\ mode = "open" /\ script # <<>>
  /\ stream' = PadZeros(stream, bytes)
  /\ mode' = "padded" /\ last' = Nothing
  /\ UNCHANGED <<script, read, writes>>

(* The bytes arrive, and are read from the start.                            *)
Receive ==
  /\ mode # "received" /\ script # <<>>
  /\ stream' = Received(stream)
  /\ mode' = "received" /\ read' = 0 /\ last' = Nothing
  /\ UNCHANGED <<script, writes>>

Next ==
  \/ \E f \in Fields : Write(f)
  \/ Read \/ Rewind \/ Reset \/ Receive
  \/ \E bytes \in PadTo : Pad(bytes)
  \/ \E c \in Sources : Copy(c.source, c.bits)

Spec == Init /\ [][Next]_vars

-----------------------------------------------------------------------------
(* WriteMini() writes half of a last byte if the other half is all zeros or  *)
(* all ones, and ReadMini() fills it in as the type's high bytes are: these  *)
(* values survive.                                                           *)
KeepsHalf(v, size, unsigned) ==
  LET bytes == Bytes(v, size) IN
  (\A k \in 2..size : bytes[k] = Match(unsigned)) /\ bytes[1] \cap Upper \in {{}, Upper}
    => bytes[1] \cap Upper = Match(unsigned) \cap Upper

(* The fields that are read as they are written: those that do not meet it,  *)
(* and texts that are decoded from what encodes them.                        *)
Lossless(f) ==
  /\ f.kind = "mini" => KeepsHalf(f.value, f.size, f.unsigned)
  /\ f.kind = "ranged" => f.value \in f.min..f.max \/ KeepsHalf(f.value, f.size, TRUE)
  /\ f.kind = "string" =>
       LET bits == EncodeArray(f.text) IN
       /\ KeepsHalf(Len(bits), UintBytes, TRUE)
       /\ f.text = IF Len(bits) = 0 THEN <<>> ELSE Decoded(bits)

(* The stream is a record of bits and positions, and the owner's bookkeeping *)
(* is in range.                                                              *)
TypeOK ==
  /\ stream.writable \in Nat /\ stream.readable \in Nat /\ stream.allocated \in Nat
  /\ \A p \in stream.data : p \in 0..(RoundUp(stream.allocated) - 1)
  /\ Len(script) <= MaxWrites /\ read \in 0..Len(script)
  /\ mode \in {"open", "padded", "copied", "received"} /\ writes \in 0..MaxWrites

(* A field is read as it was written, whatever was written before and after  *)
(* it, whatever the memory held before, however often the buffer grew, and   *)
(* on both ends: WriteMini() is documented as lossless, ReadIntegerRange(),  *)
(* ReadChangedValue() and DecodeString() as the counterparts of their        *)
(* writers.                                                                  *)
ReadsWhatWasWritten == last.got = last.written

(* The reader and the writer move alike: the positions never pass each other *)
(* or the memory, and a message that was read is empty (AssertStreamEmpty(), *)
(* "should hit if reads didn't match writes").                               *)
PositionsAgree ==
  /\ stream.readable <= stream.writable /\ stream.writable <= stream.allocated
  /\ mode = "open" /\ read = Len(script) => stream.readable = stream.writable

(* What is written into a byte that was begun is ORed into it: the rest of   *)
(* that byte must be zeros, although neither reset() nor malloc() clears     *)
(* memory and every writer stops in the middle of a byte; and zeros are all  *)
(* that a receiver who has read everything has left, from the last byte and  *)
(* from the padding.  A stream that was copied in leaves bits of its own.     *)
Copied == \E i \in DOMAIN script : script[i].kind = "copy"
TailIsZero ==
  LET from == IF read = Len(script) THEN stream.readable ELSE stream.writable IN
  ~Copied => \A p \in from..(RoundUp(stream.writable) - 1) : p \notin stream.data
=============================================================================
