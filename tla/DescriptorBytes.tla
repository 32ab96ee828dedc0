--------------------------- MODULE DescriptorBytes ---------------------------
(***************************************************************************)
(* descriptor.c: a descriptor is a tag and up to 255 bytes. A number of    *)
(* four bytes or more that is only copied is the sequence of its bytes.    *)
(***************************************************************************)
EXTENDS Integers, SequencesExt, TLC

CONSTANT NULL

Bits(b, k, n) == (b \div 2^k) % 2^n     \* n bits of b, from bit k upwards
Low(v, n) == v % 2^n
Bit(b, k) == Bits(b, k, 1) = 1
Flag(set, k) == IF set THEN 2^k ELSE 0
Two(v) == <<(v \div 256) % 256, v % 256>>
AtMost(n, limit) == IF n > limit THEN limit ELSE n
Cap(s, limit) == SubSeq(s, 1, AtMost(Len(s), limit))

\* What memory holds after the writes <<position, bytes>>, in their order.
Store(writes) ==
  FoldLeft(LAMBDA held, w : [i \in w[1]..w[1] + Len(w[2]) - 1 |-> w[2][i - w[1] + 1]] @@ held,
           <<>>, writes)

\* The length is an 8 bit integer.
NewDescriptor(tag, size, writes) ==
  [tag |-> tag, length |-> size % 256, written |-> Store(writes)]

\* Writing stays within the memory of the descriptor.
Fits(g) == DOMAIN g.written \subseteq 0..g.length - 1

\* A generated descriptor as a receiver of its bytes has it: `rest' is what memory
\* holds where nothing has been written, and behind the descriptor.
Received(g, rest) ==
  [tag |-> g.tag, length |-> g.length, rest |-> rest,
   bytes |-> [i \in 1..g.length |->
                IF i - 1 \in DOMAIN g.written THEN g.written[i - 1] ELSE rest]]

Byte(d, i) == IF i < d.length THEN d.bytes[i + 1] ELSE d.rest
U16(d, i) == 256 * Byte(d, i) + Byte(d, i + 1)
Text(d, i, n) == [k \in 1..n |-> Byte(d, i + k - 1)]
Remainder(d, i) == Text(d, i, d.length - i)

\* Can this descriptor be decoded as the tag? Every decoder asks first.
CanDecodeAsDescriptor(d, tag, condition, decoded) ==
  IF d.tag = tag /\ condition THEN decoded ELSE NULL
=============================================================================
