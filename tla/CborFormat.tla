------------------------------ MODULE CborFormat ------------------------------
(***************************************************************************)
(* The CBOR the plugin reads requests from and writes keys and             *)
(* authenticator data with: CborReader's header and SkipValue, CborWriter's *)
(* header and the order of map keys, and a definition of the items of CTAP2 *)
(* they are compared with.  Bytes are numbers, positions begin at 1 and     *)
(* 0 stands for a CborReaderException.                                      *)
(***************************************************************************)
EXTENDS Naturals, Sequences

\* Arguments from Huge on are longer than any buffer and not told apart.
Huge == 536870912

Positions(buf) == 0..(Len(buf) + 1)

----------------------------------------------------------------------------
(* CborReader.                                                             *)

MajorType(b) == b \div 32
Additional(b) == b % 32

\* ValidateAdditionalInfo: 28 to 30 are reserved, 31 is an indefinite length.
Valid(ai) == ai < 28

\* Bytes of the argument behind the initial byte.
ArgumentSize(ai) ==
  IF ai \in 24..27 THEN <<1, 2, 4, 8>>[ai - 23] ELSE 0

\* Two and four bytes from i on as a number.
Two(buf, i) == 256 * buf[i] + buf[i + 1]
Four(buf, i) ==
  IF Two(buf, i) < 8192 THEN 65536 * Two(buf, i) + Two(buf, i + 2) ELSE Huge

\* The argument of the initial byte at pos.
Argument(buf, pos) ==
  LET ai == Additional(buf[pos])
  IN IF ai < 24 THEN ai
     ELSE IF ai = 24 THEN buf[pos + 1]
     ELSE IF ai = 25 THEN Two(buf, pos + 1)
     ELSE IF ai = 26 THEN Four(buf, pos + 1)
     ELSE IF Four(buf, pos + 1) = 0 THEN Four(buf, pos + 5) ELSE Huge

NoHeader == [ok |-> FALSE]

\* ReadInitialByte: the major type, the argument and the position behind it.
ReadInitialByte(buf, pos) ==
  IF pos > Len(buf) THEN NoHeader
  ELSE LET mt == MajorType(buf[pos])
           next == pos + 1 + ArgumentSize(Additional(buf[pos]))
       IN IF mt \in {6, 7} \/ ~Valid(Additional(buf[pos])) \/ next > Len(buf) + 1
          THEN NoHeader
          ELSE [ok |-> TRUE, mt |-> mt, next |-> next, arg |-> Argument(buf, pos)]

\* SkipBytes, with its check against what is left; and a check that is one byte off.
SkipBytes_KeepsLast(buf, pos, length) ==
  IF length >= Len(buf) + 1 - pos THEN 0 ELSE pos + length

SkipBytes(buf, pos, length) ==
  IF length > Len(buf) + 1 - pos THEN 0 ELSE pos + length

\* SkipValue, the position behind the item at pos, where after[p][n] is the position
\* behind the n items at p.
SkipItem(buf, pos, after) ==
  IF pos > Len(buf) THEN 0
  ELSE IF MajorType(buf[pos]) = 7
       THEN IF Additional(buf[pos]) \in 20..23 THEN pos + 1 ELSE 0
       ELSE LET h == ReadInitialByte(buf, pos)
            IN CASE ~h.ok                   -> 0
                 [] h.ok /\ h.mt < 2        -> h.next
                 [] h.ok /\ h.mt \in {2, 3} -> SkipBytes(buf, h.next, h.arg)
                 [] h.ok /\ h.mt = 4        -> after[h.next][h.arg]
                 [] h.ok /\ h.mt = 5        -> after[h.next][2 * h.arg]

\* The loops over an array's elements and a map's pairs; an exception ends them.
SkipValues(buf) ==
  LET after[pos \in Positions(buf)] ==
        [n \in Nat |-> IF pos = 0 \/ n = 0 THEN pos
                       ELSE after[SkipItem(buf, pos, after)][n - 1]]
  IN after

SkipValue(buf, pos) == SkipValues(buf)[pos][1]

\* ReadNegativeInt's check: the argument at pos does not exceed long.MaxValue.
InInt64(buf, pos) == Additional(buf[pos]) = 27 => buf[pos + 1] < 128

\* ReadUnsignedInt, ReadNegativeInt, ReadByteString and ReadTextString: an item of
\* one major type.  ReadArrayHeader and ReadMapHeader: its header.  Counts above
\* int.MaxValue, which they refuse, are longer than any buffer.
ReadTyped_AnyNegative(buf, pos, mt) ==
  LET h == ReadInitialByte(buf, pos)
  IN CASE ~h.ok \/ h.mt # mt -> 0
       [] h.ok /\ h.mt = mt -> IF mt \in {2, 3} THEN SkipBytes(buf, h.next, h.arg) ELSE h.next

ReadTyped(buf, pos, mt) ==
  LET h == ReadInitialByte(buf, pos)
  IN CASE ~h.ok \/ h.mt # mt -> 0
       [] h.ok /\ h.mt = mt ->
            CASE mt = 1          -> IF InInt64(buf, pos) THEN h.next ELSE 0
              [] mt \in {2, 3}   -> SkipBytes(buf, h.next, h.arg)
              [] mt \in {0, 4, 5} -> h.next

ReadBool(buf, pos) ==
  IF pos <= Len(buf) /\ buf[pos] \in {244, 245} THEN pos + 1 ELSE 0

----------------------------------------------------------------------------
(* CborWriter.                                                             *)

\* WriteTypeAndValue: the shortest header, for arguments of at most four bytes.
WriteTypeAndValue_Byte24(mt, n) ==
  IF n <= 24 THEN <<32 * mt + n>>
  ELSE IF n <= 255 THEN <<32 * mt + 24, n>>
  ELSE IF n <= 65535 THEN <<32 * mt + 25, n \div 256, n % 256>>
  ELSE <<32 * mt + 26, n \div 16777216, (n \div 65536) % 256, (n \div 256) % 256, n % 256>>

WriteTypeAndValue(mt, n) ==
  IF n <= 23 THEN <<32 * mt + n>>
  ELSE IF n <= 255 THEN <<32 * mt + 24, n>>
  ELSE IF n <= 65535 THEN <<32 * mt + 25, n \div 256, n % 256>>
  ELSE <<32 * mt + 26, n \div 16777216, (n \div 65536) % 256, (n \div 256) % 256, n % 256>>

\* The order of BytewiseLexCompare, and the one of the first CTAP: shorter keys first.
Before_LengthFirst(a, b) ==
  \/ Len(a) < Len(b)
  \/ /\ Len(a) = Len(b)
     /\ \E i \in 1..Len(a) : a[i] < b[i] /\ \A j \in 1..(i - 1) : a[j] = b[j]

Before(a, b) ==
  \/ \E i \in 1..Len(a) :
       i <= Len(b) /\ a[i] < b[i] /\ \A j \in 1..(i - 1) : a[j] = b[j]
  \/ Len(a) < Len(b) /\ \A j \in 1..Len(a) : a[j] = b[j]

----------------------------------------------------------------------------
(* What they are compared with.                                            *)

\* The way the parsers take an item they know: its type, its header, its elements.
ReadItem(buf, pos, after) ==
  IF pos > Len(buf) THEN 0
  ELSE LET mt == MajorType(buf[pos])
           behind == ReadTyped(buf, pos, mt)
       IN IF mt = 7 THEN ReadBool(buf, pos)
          ELSE IF mt \in {4, 5} /\ behind # 0
          THEN after[behind][(mt - 3) * Argument(buf, pos)]
          ELSE behind

ReadValues(buf) ==
  LET after[pos \in Positions(buf)] ==
        [n \in Nat |-> IF pos = 0 \/ n = 0 THEN pos
                       ELSE after[ReadItem(buf, pos, after)][n - 1]]
  IN after

ReadValue(buf, pos) == ReadValues(buf)[pos][1]

\* The bytes from i to j - 1 are an item of CTAP2: an integer, a string, an array, a map
\* or one of four simple values, of definite length and without tags and floats.  An
\* element <<k, n>> of items[p] says that the bytes from p to k - 1 are n items, none of
\* which begins at a refused position.
IsItem(buf, i, j, items) ==
  /\ i < j
  /\ \/ j = i + 1 /\ buf[i] \in 244..247
     \/ LET mt == MajorType(buf[i])
            content == i + 1 + ArgumentSize(Additional(buf[i]))
            n == Argument(buf, i)
        IN /\ mt < 6 /\ Additional(buf[i]) < 28 /\ content <= j
           /\ CASE mt < 2        -> content = j
                [] mt \in {2, 3} -> content + n = j
                [] mt = 4        -> <<j, n>> \in items[content]
                [] mt = 5        -> <<j, 2 * n>> \in items[content]

Items(buf, refused) ==
  LET items[i \in 1..(Len(buf) + 1)] ==
        {x \in (1..(Len(buf) + 1)) \X Nat :
           IF x[2] = 0 THEN x[1] = i
           ELSE /\ i \notin refused
                /\ \E k \in (i + 1)..x[1] :
                     IsItem(buf, i, k, items) /\ <<x[1], x[2] - 1>> \in items[k]}
  IN items

\* Where an item begins for which CborReader has no typed read, or whose value the read's
\* result cannot hold: null, undefined, and negative integers below long.MinValue.
Unreadable(buf) ==
  {i \in 1..Len(buf) :
     \/ buf[i] \in {246, 247}
     \/ buf[i] = 59 /\ i < Len(buf) /\ buf[i + 1] >= 128}
=============================================================================
