----------------------------- MODULE Formats_proofs -----------------------------
(***************************************************************************)
(* What Formats checks over bounded inputs, proved for every input: buffers *)
(* shorter than Huge, arguments of up to four bytes, signatures whose       *)
(* coordinates have up to 32000.                                            *)
(*                                                                         *)
(* CborReader.SkipValue calls itself for what is inside an item.  The       *)
(* definitions that model it are functions of the position, and what is     *)
(* proved of them goes from the end of the buffer to its beginning          *)
(* (BackwardInduction): an item depends only on what is behind its first    *)
(* byte.  That such a function exists at all is RecursiveFunctionExists.    *)
(***************************************************************************)
EXTENDS Formats, Integers, TLAPS, WellFoundedInduction, SequenceTheorems

----------------------------------------------------------------------------
(* Induction and recursion.                                              *)

\* Every nonempty set of numbers has a least one.
LEMMA LeastMember ==
  ASSUME NEW S \in SUBSET Nat, S # {}
  PROVE  \E m \in S : \A k \in S : m <= k
<1> DEFINE R == OpToRel(<, Nat)
<1>1. IsWellFoundedOn(R, Nat)
  BY NatLessThanWellFounded
<1>2. \A x, y \in Nat : <<x, y>> \in R <=> x < y
  BY DEF OpToRel
<1> HIDE DEF R
<1>3. \E x \in S : \A y \in S : ~ (<<y, x>> \in R)
  BY <1>1, WFMin
<1>4. \E x \in S : \A y \in S : ~ (y < x)
  BY <1>2, <1>3, Zenon
<1> QED BY <1>4

\* Induction, for a set in place of a predicate.
LEMMA SetInduction ==
  ASSUME NEW S, 0 \in S, \A n \in Nat : n \in S => n + 1 \in S
  PROVE  Nat \subseteq S
<1> DEFINE T == Nat \ S
<1> SUFFICES ASSUME T # {} PROVE FALSE
  OBVIOUS
<1>1. PICK m \in T : \A k \in T : m <= k
  BY LeastMember
<1>2. m # 0 /\ m - 1 \in Nat /\ m - 1 \notin T
  BY <1>1
<1> QED BY <1>1, <1>2

\* Induction over positions, from the end of the buffer to its beginning.
LEMMA BackwardInduction ==
  ASSUME NEW M \in Nat, NEW S,
         \A p \in 1..M : (\A q \in (p + 1)..M : q \in S) => p \in S
  PROVE  1..M \subseteq S
<1> DEFINE T == {d \in Nat : \E p \in 1..M : p \notin S /\ d = M - p}
<1> SUFFICES ASSUME NEW r \in 1..M, r \notin S PROVE FALSE
  OBVIOUS
<1>0. M - r \in T
  OBVIOUS
<1>1. PICK d \in T : \A k \in T : d <= k
  BY <1>0, LeastMember
<1>2. PICK p \in 1..M : p \notin S /\ d = M - p
  BY <1>1
<1>3. \A q \in (p + 1)..M : q \in S
  BY <1>1, <1>2
<1> QED BY <1>2, <1>3

\* F defines a function on S by recursion: what it makes of g at x depends on g only
\* where the rank, which is at most N, is smaller.
IsRecursion(S, N, rank, G, F) ==
  /\ N \in Nat /\ rank \in [S -> Nat] /\ \A x \in S : rank[x] <= N
  /\ G # {} /\ \A g \in G : g = [x \in S |-> g[x]]
  /\ F \in [G -> G]
  /\ \A g, h \in G : \A x \in S :
       (\A y \in S : rank[y] < rank[x] => g[y] = h[y]) => F[g][x] = F[h][x]

\* A recursion whose rank decreases has a solution, and so the CHOOSE of a recursive
\* definition is one.
LEMMA RecursiveFunctionExists ==
  ASSUME NEW S, NEW N, NEW rank, NEW G, NEW F, IsRecursion(S, N, rank, G, F)
  PROVE  \E f \in G : f = F[f]
<1> USE DEF IsRecursion
<1> DEFINE Good == {n \in Nat : \E g \in G : \A x \in S : rank[x] < n => g[x] = F[g][x]}
<1>0. N \in Nat /\ F \in [G -> G]
  OBVIOUS
<1>1. 0 \in Good
  OBVIOUS
<1>2. ASSUME NEW n \in Nat, n \in Good PROVE n + 1 \in Good
  <2>1. PICK g \in G : \A x \in S : rank[x] < n => g[x] = F[g][x]
    BY <1>2
  <2>2. F[g] \in G
    OBVIOUS
  <2>3. ASSUME NEW x \in S, rank[x] < n + 1 PROVE F[g][x] = F[F[g]][x]
    <3>1. \A y \in S : rank[y] < rank[x] => g[y] = F[g][y]
      BY <2>1, <2>3
    <3> QED BY <2>2, <3>1
  <2> QED BY <2>2, <2>3
<1> HIDE DEF Good
<1>3. N + 1 \in Good
  BY <1>1, <1>2, SetInduction
<1>4. PICK g \in G : \A x \in S : rank[x] < N + 1 => g[x] = F[g][x]
  BY <1>3 DEF Good
<1>5. \A x \in S : g[x] = F[g][x]
  BY <1>4
<1>6. F[g] \in G
  OBVIOUS
<1>7. g = [x \in S |-> g[x]] /\ F[g] = [x \in S |-> F[g][x]]
  BY <1>6
<1>8. g = F[g]
  BY <1>5, <1>7
<1> QED BY <1>8

----------------------------------------------------------------------------
(* CborReader's header.                                                  *)

\* The elements of a sequence of numbers are bytes.
Bytes(buf) == \A i \in 1..Len(buf) : buf[i] < 256

\* The initial byte is its major type and its additional information.
LEMMA ByteParts ==
  ASSUME NEW b \in Nat, b < 256
  PROVE  /\ MajorType(b) \in Nat /\ MajorType(b) < 8
         /\ Additional(b) \in Nat /\ Additional(b) < 32
         /\ b = 32 * MajorType(b) + Additional(b)
BY DEF MajorType, Additional

\* ReadInitialByte's switch over the additional information.
LEMMA ArgumentSizeType ==
  ASSUME NEW ai \in Nat
  PROVE  /\ ArgumentSize(ai) \in Nat
         /\ ai = 24 => ArgumentSize(ai) = 1
         /\ ai = 25 => ArgumentSize(ai) = 2
         /\ ai = 26 => ArgumentSize(ai) = 4
         /\ ai = 27 => ArgumentSize(ai) = 8
         /\ ai \notin 24..27 => ArgumentSize(ai) = 0
BY DEF ArgumentSize

\* Two bytes are a number.
LEMMA TwoType ==
  ASSUME NEW buf \in Seq(Nat), NEW i \in 1..(Len(buf) - 1)
  PROVE  Two(buf, i) \in Nat
BY DEF Two

\* Four bytes are a number.
LEMMA FourType ==
  ASSUME NEW buf \in Seq(Nat), NEW i \in 1..(Len(buf) - 3)
  PROVE  Four(buf, i) \in Nat
<1>1. Two(buf, i) \in Nat /\ Two(buf, i + 2) \in Nat
  BY TwoType
<1> QED BY <1>1, SMT DEF Four, Huge

\* What ReadInitialByte takes from a byte of the buffer.
LEMMA InitialByte ==
  ASSUME NEW buf \in Seq(Nat), NEW pos \in 1..Len(buf), Bytes(buf)
  PROVE  /\ MajorType(buf[pos]) \in Nat /\ MajorType(buf[pos]) < 8
         /\ Additional(buf[pos]) \in Nat /\ Additional(buf[pos]) < 32
         /\ ArgumentSize(Additional(buf[pos])) \in Nat
<1>1. buf[pos] \in Nat /\ buf[pos] < 256
  BY DEF Bytes
<1> DEFINE b == buf[pos]
<1> HIDE DEF b
<1>2. MajorType(b) \in Nat /\ MajorType(b) < 8 /\ Additional(b) \in Nat /\ Additional(b) < 32
  BY <1>1, ByteParts DEF b
<1> QED BY <1>2, ArgumentSizeType DEF b

\* The argument of a header that is there is a number.
LEMMA ArgumentType ==
  ASSUME NEW buf \in Seq(Nat), NEW pos \in 1..Len(buf), Bytes(buf),
         Additional(buf[pos]) < 28,
         pos + ArgumentSize(Additional(buf[pos])) <= Len(buf)
  PROVE  Argument(buf, pos) \in Nat
<1> DEFINE ai == Additional(buf[pos])
<1>1. ai \in Nat
  BY InitialByte
<1>2. Huge \in Nat
  BY SMT DEF Huge
<1>3. CASE ai = 24
  <2>1. ArgumentSize(ai) = 1
    BY <1>3 DEF ArgumentSize
  <2>2. buf[pos + 1] \in Nat
    BY <2>1
  <2> QED BY <1>3, <2>2 DEF Argument
<1>4. CASE ai = 25
  <2>1. ArgumentSize(ai) = 2
    BY <1>4 DEF ArgumentSize
  <2>2. Two(buf, pos + 1) \in Nat
    BY <2>1, TwoType
  <2> QED BY <1>4, <2>2 DEF Argument
<1>5. CASE ai = 26
  <2>1. ArgumentSize(ai) = 4
    BY <1>5 DEF ArgumentSize
  <2>2. Four(buf, pos + 1) \in Nat
    BY <2>1, FourType
  <2> QED BY <1>5, <2>2 DEF Argument
<1>6. CASE ai = 27
  <2>1. ArgumentSize(ai) = 8
    BY <1>6 DEF ArgumentSize
  <2>2. Four(buf, pos + 1) \in Nat /\ Four(buf, pos + 5) \in Nat
    BY <2>1, FourType
  <2> QED BY <1>2, <1>6, <2>2 DEF Argument
<1>7. CASE ai < 24
  BY <1>1, <1>7 DEF Argument
<1> QED BY <1>1, <1>3, <1>4, <1>5, <1>6, <1>7

\* The position behind the header.
Content(buf, pos) == pos + 1 + ArgumentSize(Additional(buf[pos]))

\* ReadInitialByte refuses tags, simple values, reserved and indefinite lengths and what
\* is cut off, and nothing else.
HasHeader(buf, pos) ==
  /\ MajorType(buf[pos]) < 6
  /\ Additional(buf[pos]) < 28
  /\ Content(buf, pos) <= Len(buf) + 1

\* ReadInitialByte returns a header that is there.
LEMMA HeaderRead ==
  ASSUME NEW buf \in Seq(Nat), NEW pos \in 1..Len(buf), Bytes(buf), HasHeader(buf, pos)
  PROVE  ReadInitialByte(buf, pos)
           = [ok |-> TRUE, mt |-> MajorType(buf[pos]),
              next |-> Content(buf, pos),
              arg |-> Argument(buf, pos)]
<1>1. ~(MajorType(buf[pos]) \in {6, 7}) /\ Valid(Additional(buf[pos]))
  BY InitialByte DEF HasHeader, Content, Valid
<1>2. ~(pos > Len(buf))
  OBVIOUS
<1>3. ~(pos + 1 + ArgumentSize(Additional(buf[pos])) > Len(buf) + 1)
  BY InitialByte DEF HasHeader, Content
<1> QED BY <1>1, <1>2, <1>3 DEF ReadInitialByte, Content

\* ReadInitialByte throws if there is no header it knows.
LEMMA HeaderRefused ==
  ASSUME NEW buf \in Seq(Nat), NEW pos \in 1..Len(buf), Bytes(buf), ~HasHeader(buf, pos)
  PROVE  ReadInitialByte(buf, pos) = [ok |-> FALSE]
<1> DEFINE mt == MajorType(buf[pos])
           ai == Additional(buf[pos])
           next == pos + 1 + ArgumentSize(ai)
<1>1. mt \in {6, 7} \/ ~Valid(ai) \/ next > Len(buf) + 1
  <2>1. mt \in Nat /\ mt < 8 /\ ai \in Nat /\ next \in Nat
    BY InitialByte
  <2>2. ~(mt < 6 /\ ai < 28 /\ next <= Len(buf) + 1)
    BY DEF HasHeader, Content
  <2> HIDE DEF mt, ai, next
  <2> QED BY <2>1, <2>2 DEF Valid
<1>2. ~(pos > Len(buf))
  OBVIOUS
<1> QED BY <1>1, <1>2, Zenon DEF ReadInitialByte, NoHeader

\* The content of an item begins behind its initial byte, within the buffer.
LEMMA ContentType ==
  ASSUME NEW buf \in Seq(Nat), NEW pos \in 1..Len(buf), Bytes(buf), HasHeader(buf, pos)
  PROVE  /\ Content(buf, pos) \in Nat
         /\ pos < Content(buf, pos) /\ Content(buf, pos) <= Len(buf) + 1
         /\ Argument(buf, pos) \in Nat
<1>1. Content(buf, pos) \in Nat /\ pos < Content(buf, pos)
  BY InitialByte DEF Content
<1>2. Argument(buf, pos) \in Nat
  BY <1>1, InitialByte, ArgumentType DEF HasHeader, Content
<1> QED BY <1>1, <1>2 DEF HasHeader

\* SkipValue's switch.
LEMMA SkipItemCases ==
  ASSUME NEW buf \in Seq(Nat), NEW pos \in 1..Len(buf), Bytes(buf), NEW after
  PROVE  LET mt == MajorType(buf[pos])
             c == Content(buf, pos)
             n == Argument(buf, pos)
             skipped == SkipItem(buf, pos, after)
         IN /\ mt = 7 => skipped = IF Additional(buf[pos]) \in 20..23 THEN pos + 1 ELSE 0
            /\ mt # 7 /\ ~HasHeader(buf, pos) => skipped = 0
            /\ HasHeader(buf, pos) /\ mt < 2 => skipped = c
            /\ HasHeader(buf, pos) /\ mt \in {2, 3} => skipped = SkipBytes(buf, c, n)
            /\ HasHeader(buf, pos) /\ mt = 4 => skipped = after[c][n]
            /\ HasHeader(buf, pos) /\ mt = 5 => skipped = after[c][2 * n]
<1> DEFINE mt == MajorType(buf[pos])
<1>0. ~(pos > Len(buf)) /\ mt \in Nat
  BY InitialByte
<1>1. ASSUME mt = 7
      PROVE  SkipItem(buf, pos, after) = IF Additional(buf[pos]) \in 20..23 THEN pos + 1 ELSE 0
  BY <1>0, <1>1 DEF SkipItem
<1>2. ASSUME mt # 7, ~HasHeader(buf, pos) PROVE SkipItem(buf, pos, after) = 0
  BY <1>0, <1>2, HeaderRefused DEF SkipItem
<1>3. ASSUME HasHeader(buf, pos), mt < 2 PROVE SkipItem(buf, pos, after) = Content(buf, pos)
  BY <1>0, <1>3, HeaderRead DEF SkipItem
<1>4. ASSUME HasHeader(buf, pos), mt \in {2, 3}
      PROVE  SkipItem(buf, pos, after) = SkipBytes(buf, Content(buf, pos), Argument(buf, pos))
  BY <1>0, <1>4, HeaderRead DEF SkipItem
<1>5. ASSUME HasHeader(buf, pos), mt = 4
      PROVE  SkipItem(buf, pos, after) = after[Content(buf, pos)][Argument(buf, pos)]
  BY <1>0, <1>5, HeaderRead DEF SkipItem
<1>6. ASSUME HasHeader(buf, pos), mt = 5
      PROVE  SkipItem(buf, pos, after) = after[Content(buf, pos)][2 * Argument(buf, pos)]
  BY <1>0, <1>6, HeaderRead DEF SkipItem
<1> QED BY <1>1, <1>2, <1>3, <1>4, <1>5, <1>6

----------------------------------------------------------------------------
(* Walks over a buffer.                                                  *)

\* A walk over the positions P of a buffer: where n items from p on end, which is 0 or
\* not before p.
Walks(P) ==
  {w \in [P -> [Nat -> P]] :
     \A p \in P, n \in Nat : w[p][n] = 0 \/ (p # 0 /\ p <= w[p][n])}

\* If items move forward and depend on the walk only behind them, there is a walk over
\* as many of them as one likes: the loops over elements and pairs end.
LEMMA WalkExists ==
  ASSUME NEW M \in Nat, NEW P \in SUBSET Nat, 0 \in P, \A p \in P : p <= M,
         NEW Item \in [Walks(P) -> [P -> P]],
         \A w \in Walks(P), p \in P : Item[w][p] = 0 \/ p < Item[w][p],
         \A v, w \in Walks(P) : \A p \in P :
           p # 0 /\ (\A q \in P : p < q => v[q] = w[q]) => Item[v][p] = Item[w][p]
  PROVE  \E w \in Walks(P) :
           w = [p \in P |->
                  [n \in Nat |-> IF p = 0 \/ n = 0 THEN p ELSE w[Item[w][p]][n - 1]]]
<1> DEFINE Step(w) == [p \in P |->
                         [n \in Nat |-> IF p = 0 \/ n = 0 THEN p ELSE w[Item[w][p]][n - 1]]]
           F == [w \in Walks(P) |-> Step(w)]
           rank == [p \in P |-> IF p = 0 THEN 0 ELSE M + 1 - p]
<1>1. ASSUME NEW w \in Walks(P) PROVE Step(w) \in Walks(P)
  <2>0. w \in [P -> [Nat -> P]] /\ Item[w] \in [P -> P]
    BY DEF Walks
  <2>1. ASSUME NEW p \in P, NEW n \in Nat, n # 0
        PROVE  w[Item[w][p]][n - 1] \in P /\ (w[Item[w][p]][n - 1] = 0 \/ p <= w[Item[w][p]][n - 1])
    <3>1. Item[w][p] \in P /\ n - 1 \in Nat
      BY <2>0, <2>1
    <3>2. Item[w][p] = 0 \/ p < Item[w][p]
      OBVIOUS
    <3> DEFINE q == Item[w][p]
               k == n - 1
    <3> HIDE DEF q, k
    <3>3. w[q] \in [Nat -> P] /\ (w[q][k] = 0 \/ (q # 0 /\ q <= w[q][k]))
      BY <2>0, <3>1 DEF Walks, q, k
    <3>4. w[q][k] \in P
      BY <3>1, <3>3 DEF k
    <3>5. q \in P /\ (q = 0 \/ p < q)
      BY <3>1, <3>2 DEF q
    <3>6. w[q][k] = 0 \/ p <= w[q][k]
      <4>1. p \in Nat /\ q \in Nat /\ w[q][k] \in Nat
        BY <3>4, <3>5
      <4>2. w[q][k] = 0 \/ (q # 0 /\ q <= w[q][k])
        BY <3>3
      <4> DEFINE x == w[q][k]
      <4> HIDE DEF x
      <4>3. x \in Nat /\ (x = 0 \/ (q # 0 /\ q <= x))
        BY <4>1, <4>2 DEF x
      <4>4. x = 0 \/ p <= x
        BY <4>1, <4>3, <3>5
      <4> QED BY <4>4 DEF x
    <3> QED BY <3>4, <3>6 DEF q, k
  <2> DEFINE s == Step(w)
  <2>2. ASSUME NEW p \in P, NEW n \in Nat
        PROVE  s[p][n] \in P /\ (s[p][n] = 0 \/ (p # 0 /\ p <= s[p][n]))
    <3>1. CASE p = 0 \/ n = 0
      BY <3>1
    <3>2. CASE p # 0 /\ n # 0
      <4>1. s[p][n] = w[Item[w][p]][n - 1]
        BY <3>2
      <4> DEFINE x == w[Item[w][p]][n - 1]
      <4>2. x \in P /\ (x = 0 \/ p <= x)
        BY <2>1, <3>2
      <4> HIDE DEF s, x
      <4>3. s[p][n] = x
        BY <4>1 DEF x
      <4> QED BY <3>2, <4>2, <4>3, Zenon
    <3> QED BY <3>1, <3>2
  <2>3. s = [p \in P |-> [n \in Nat |-> s[p][n]]]
    OBVIOUS
  <2> HIDE DEF s
  <2>4. s \in [P -> [Nat -> P]]
    <3>1. ASSUME NEW p \in P PROVE [n \in Nat |-> s[p][n]] \in [Nat -> P]
      BY <2>2
    <3>2. [p \in P |-> [n \in Nat |-> s[p][n]]] \in [P -> [Nat -> P]]
      BY <3>1
    <3> QED BY <2>3, <3>2, Zenon
  <2> QED BY <2>2, <2>4 DEF Walks, s
<1>2. F \in [Walks(P) -> Walks(P)]
  BY <1>1
<1>3. Walks(P) # {}
  <2> DEFINE none == [p \in P |-> [n \in Nat |-> 0]]
  <2>1. none \in Walks(P)
    BY DEF Walks
  <2> QED BY <2>1
<1>4. rank \in [P -> Nat] /\ \A p \in P : rank[p] <= M + 1
  OBVIOUS
<1>5. \A w \in Walks(P) : w = [p \in P |-> w[p]]
  BY DEF Walks
<1>6. ASSUME NEW v \in Walks(P), NEW w \in Walks(P), NEW p \in P,
             \A q \in P : rank[q] < rank[p] => v[q] = w[q]
      PROVE  F[v][p] = F[w][p]
  <2>1. CASE p = 0
    BY <2>1
  <2>2. CASE p # 0
    <3>1. \A q \in P : p < q => v[q] = w[q]
      <4> SUFFICES ASSUME NEW q \in P, p < q PROVE v[q] = w[q]
        OBVIOUS
      <4>1. rank[q] < rank[p]
        BY <2>2
      <4> QED BY <1>6, <4>1
    <3>2. v[0] = w[0]
      <4>1. rank[0] < rank[p]
        BY <2>2
      <4> QED BY <1>6, <4>1
    <3>3. Item[v][p] = Item[w][p] /\ Item[w][p] \in P /\ (Item[w][p] = 0 \/ p < Item[w][p])
      BY <2>2, <3>1
    <3>4. v[Item[v][p]] = w[Item[w][p]]
      <4> DEFINE q == Item[w][p]
      <4>1. v[q] = w[q]
        BY <3>1, <3>2, <3>3
      <4> QED BY <3>3, <4>1, Zenon
    <3> QED BY <2>2, <3>4
  <2> QED BY <2>1, <2>2
<1>7. IsRecursion(P, M + 1, rank, Walks(P), F)
  <2> HIDE DEF rank, F
  <2>1. \A v, w \in Walks(P) : \A p \in P :
          (\A q \in P : rank[q] < rank[p] => v[q] = w[q]) => F[v][p] = F[w][p]
    BY <1>6
  <2>2. M + 1 \in Nat
    OBVIOUS
  <2> QED BY <1>2, <1>3, <1>4, <1>5, <2>1, <2>2 DEF IsRecursion
<1> HIDE DEF rank, F
<1>8. \E w \in Walks(P) : w = F[w]
  BY <1>7, RecursiveFunctionExists
<1> QED BY <1>8 DEF F

\* What is behind pos has been walked over.
WalkedBehind(P, w, pos) ==
  \A q \in P, n \in Nat : pos < q => w[q][n] \in P /\ (w[q][n] = 0 \/ q <= w[q][n])

\* A walk has been walked behind every position.
LEMMA WalkIsBehind ==
  ASSUME NEW P, NEW w \in Walks(P), NEW pos
  PROVE  WalkedBehind(P, w, pos)
<1> SUFFICES ASSUME NEW q \in P, NEW n \in Nat PROVE w[q][n] \in P /\ (w[q][n] = 0 \/ q <= w[q][n])
  BY DEF WalkedBehind
<1>1. w \in [P -> [Nat -> P]] /\ (w[q][n] = 0 \/ q <= w[q][n])
  BY DEF Walks
<1> QED BY <1>1

\* A function that satisfies the equation of a walk is one.
LEMMA WalkForward ==
  ASSUME NEW M \in Nat, NEW P \in SUBSET Nat, 0 \in P, \A p \in P : p <= M,
         NEW w, NEW item,
         w = [p \in P |-> [n \in Nat |-> IF p = 0 \/ n = 0 THEN p ELSE w[item[p]][n - 1]]],
         \A p \in P : p # 0 /\ WalkedBehind(P, w, p)
                        => item[p] \in P /\ (item[p] = 0 \/ p < item[p])
  PROVE  w \in Walks(P)
<1> DEFINE S == {p \in 1..M : p \in P => \A n \in Nat : w[p][n] \in P /\ (w[p][n] = 0 \/ p <= w[p][n])}
<1>1. \A p \in P, n \in Nat : w[p][n] = IF p = 0 \/ n = 0 THEN p ELSE w[item[p]][n - 1]
  <2> SUFFICES ASSUME NEW p \in P, NEW n \in Nat
               PROVE w[p][n] = IF p = 0 \/ n = 0 THEN p ELSE w[item[p]][n - 1]
    OBVIOUS
  <2>1. w[p] = [k \in Nat |-> IF p = 0 \/ k = 0 THEN p ELSE w[item[p]][k - 1]]
    OBVIOUS
  <2> QED BY <2>1, Zenon
<1>2. ASSUME NEW p \in 1..M, \A q \in (p + 1)..M : q \in S PROVE p \in S
  <2> SUFFICES ASSUME p \in P, NEW n \in Nat
               PROVE  w[p][n] \in P /\ (w[p][n] = 0 \/ p <= w[p][n])
    OBVIOUS
  <2>1. CASE n = 0
    BY <1>1, <2>1
  <2>2. CASE n # 0
    <3>1. WalkedBehind(P, w, p)
      <4> SUFFICES ASSUME NEW q \in P, NEW k \in Nat, p < q
                   PROVE  w[q][k] \in P /\ (w[q][k] = 0 \/ q <= w[q][k])
        BY DEF WalkedBehind
      <4>1. q \in (p + 1)..M
        OBVIOUS
      <4>2. q \in S
        BY <1>2, <4>1, Zenon
      <4> QED BY <4>2
    <3> DEFINE q == item[p]
               k == n - 1
    <3>2. q \in P /\ (q = 0 \/ p < q) /\ k \in Nat
      BY <2>2, <3>1
    <3>3. w[p][n] = w[q][k]
      <4>1. ~(p = 0 \/ n = 0)
        BY <2>2
      <4> QED BY <1>1, <4>1, Zenon
    <3> HIDE DEF q, k
    <3>4. CASE q = 0
      BY <1>1, <3>2, <3>3, <3>4
    <3>5. CASE p < q
      <4> DEFINE x == w[q][k]
      <4>1. x \in P /\ (x = 0 \/ q <= x)
        BY <3>1, <3>2, <3>5 DEF WalkedBehind
      <4> HIDE DEF x
      <4>2. x \in P /\ (x = 0 \/ p <= x)
        BY <3>2, <3>5, <4>1
      <4> QED BY <3>3, <4>2 DEF x
    <3> QED BY <3>2, <3>4, <3>5
  <2> QED BY <2>1, <2>2
<1>3. 1..M \subseteq S
  <2> HIDE DEF S
  <2> QED BY <1>2, BackwardInduction
<1>4. \A p \in P, n \in Nat : w[p][n] \in P /\ (w[p][n] = 0 \/ (p # 0 /\ p <= w[p][n]))
  <2> SUFFICES ASSUME NEW p \in P, NEW n \in Nat
               PROVE w[p][n] \in P /\ (w[p][n] = 0 \/ (p # 0 /\ p <= w[p][n]))
    OBVIOUS
  <2>1. CASE p = 0
    BY <1>1, <2>1
  <2>2. CASE p # 0
    <3>1. p \in 1..M
      BY <2>2
    <3> QED BY <1>3, <2>2, <3>1
  <2> QED BY <2>1, <2>2
<1>5. w = [p \in P |-> [n \in Nat |-> w[p][n]]]
  BY <1>1
<1>6. w \in [P -> [Nat -> P]]
  BY <1>4, <1>5
<1> QED BY <1>4, <1>6 DEF Walks

\* Positions of a buffer are 0 and the numbers up to the one behind its end.
LEMMA PositionsType ==
  ASSUME NEW buf \in Seq(Nat)
  PROVE  /\ Len(buf) + 1 \in Nat /\ Positions(buf) \in SUBSET Nat /\ 0 \in Positions(buf)
         /\ \A p \in Positions(buf) : p <= Len(buf) + 1
         /\ \A p \in Nat : p \in Positions(buf) <=> p <= Len(buf) + 1
BY DEF Positions

\* SkipItem moves forward, and looks at the walk only behind where it is.
LEMMA SkipItemForward ==
  ASSUME NEW buf \in Seq(Nat), Bytes(buf), NEW w,
         NEW pos \in Positions(buf), pos # 0, WalkedBehind(Positions(buf), w, pos)
  PROVE  /\ SkipItem(buf, pos, w) \in Positions(buf)
         /\ SkipItem(buf, pos, w) = 0 \/ pos < SkipItem(buf, pos, w)
<1>1. CASE pos > Len(buf)
  BY <1>1, PositionsType DEF SkipItem
<1>2. CASE ~(pos > Len(buf))
  <2>0. pos \in 1..Len(buf)
    BY <1>2, PositionsType
  <2> DEFINE mt == MajorType(buf[pos])
             c == Content(buf, pos)
             n == Argument(buf, pos)
  <2>1. mt \in Nat /\ mt < 8
    BY <2>0, InitialByte
  <2>2. HasHeader(buf, pos) => mt < 6
    BY DEF HasHeader
  <2>3. HasHeader(buf, pos) => c \in Positions(buf) /\ c \in Nat /\ pos < c /\ n \in Nat
    BY <2>0, ContentType, PositionsType
  <2>a. ASSUME NEW q \in Positions(buf), NEW k \in Nat, pos < q
        PROVE  w[q][k] \in Positions(buf) /\ (w[q][k] = 0 \/ pos < w[q][k])
    <3> DEFINE x == w[q][k]
    <3>1. x \in Positions(buf) /\ (x = 0 \/ q <= x)
      BY <2>a DEF WalkedBehind
    <3> HIDE DEF x
    <3>2. pos \in Nat /\ q \in Nat /\ x \in Nat
      BY <2>0, <3>1, PositionsType
    <3>3. x = 0 \/ pos < x
      BY <2>a, <3>1, <3>2
    <3> QED BY <3>1, <3>3 DEF x
  <2>4. CASE mt = 7
    BY <2>0, <2>4, SkipItemCases, PositionsType
  <2>5. CASE mt # 7 /\ ~HasHeader(buf, pos)
    BY <2>0, <2>5, SkipItemCases, PositionsType
  <2>6. CASE HasHeader(buf, pos) /\ mt < 2
    BY <2>0, <2>3, <2>6, SkipItemCases
  <2>7. CASE HasHeader(buf, pos) /\ mt \in {2, 3}
    <3>1. SkipItem(buf, pos, w) = SkipBytes(buf, c, n)
      BY <2>0, <2>7, SkipItemCases
    <3> DEFINE e == SkipBytes(buf, c, n)
    <3>2. c \in Nat /\ n \in Nat /\ pos < c /\ Len(buf) \in Nat
      BY <2>3, <2>7
    <3> HIDE DEF c, n
    <3>3. e \in Nat /\ e <= Len(buf) + 1 /\ (e = 0 \/ pos < e)
      BY <2>0, <3>2 DEF SkipBytes
    <3> HIDE DEF e
    <3>4. e \in Positions(buf)
      BY <3>3, PositionsType
    <3> QED BY <3>1, <3>3, <3>4 DEF e
  <2>8. CASE HasHeader(buf, pos) /\ mt = 4
    <3>1. SkipItem(buf, pos, w) = w[c][n]
      BY <2>0, <2>8, SkipItemCases
    <3>2. c \in Positions(buf) /\ pos < c /\ n \in Nat
      BY <2>3, <2>8
    <3> HIDE DEF c, n
    <3> QED BY <2>a, <3>1, <3>2
  <2>9. CASE HasHeader(buf, pos) /\ mt = 5
    <3>1. SkipItem(buf, pos, w) = w[c][2 * n]
      BY <2>0, <2>9, SkipItemCases
    <3> DEFINE m == 2 * n
    <3>2. c \in Positions(buf) /\ pos < c /\ m \in Nat
      BY <2>3, <2>9
    <3>3. SkipItem(buf, pos, w) = w[c][m]
      BY <3>1
    <3> HIDE DEF c, m
    <3>4. w[c][m] \in Positions(buf) /\ (w[c][m] = 0 \/ pos < w[c][m])
      BY <2>a, <3>2
    <3> QED BY <3>3, <3>4
  <2> QED BY <2>1, <2>2, <2>4, <2>5, <2>6, <2>7, <2>8, <2>9
<1> QED BY <1>1, <1>2

\* SkipValue's result depends only on what it finds behind the initial byte.
LEMMA SkipItemLocal ==
  ASSUME NEW buf \in Seq(Nat), Bytes(buf), NEW v, NEW w,
         NEW pos \in Positions(buf), pos # 0,
         \A q \in Positions(buf) : pos < q => v[q] = w[q]
  PROVE  SkipItem(buf, pos, v) = SkipItem(buf, pos, w)
<1>1. CASE pos > Len(buf)
  BY <1>1 DEF SkipItem
<1>2. CASE ~(pos > Len(buf))
  <2>0. pos \in 1..Len(buf)
    BY <1>2, PositionsType
  <2> DEFINE mt == MajorType(buf[pos])
             c == Content(buf, pos)
  <2>1. mt \in Nat /\ mt < 8
    BY <2>0, InitialByte
  <2>2. HasHeader(buf, pos) => mt < 6
    BY DEF HasHeader
  <2>3. HasHeader(buf, pos) => v[c] = w[c]
    BY <2>0, ContentType, PositionsType
  <2>4. CASE mt = 7 \/ ~HasHeader(buf, pos)
    BY <2>0, <2>2, <2>4, SkipItemCases
  <2>5. CASE HasHeader(buf, pos)
    <3> DEFINE n == Argument(buf, pos)
    <3>1. /\ mt < 2 => SkipItem(buf, pos, v) = c
          /\ mt \in {2, 3} => SkipItem(buf, pos, v) = SkipBytes(buf, c, n)
          /\ mt = 4 => SkipItem(buf, pos, v) = v[c][n]
          /\ mt = 5 => SkipItem(buf, pos, v) = v[c][2 * n]
      BY <2>0, <2>5, SkipItemCases
    <3>2. /\ mt < 2 => SkipItem(buf, pos, w) = c
          /\ mt \in {2, 3} => SkipItem(buf, pos, w) = SkipBytes(buf, c, n)
          /\ mt = 4 => SkipItem(buf, pos, w) = w[c][n]
          /\ mt = 5 => SkipItem(buf, pos, w) = w[c][2 * n]
      BY <2>0, <2>5, SkipItemCases
    <3> HIDE DEF mt, c, n
    <3>3. mt < 2 \/ mt \in {2, 3} \/ mt = 4 \/ mt = 5
      BY <2>1, <2>2, <2>5
    <3> QED BY <2>3, <2>5, <3>1, <3>2, <3>3, Zenon
  <2> QED BY <2>4, <2>5
<1> QED BY <1>1, <1>2

\* SkipValues is what its recursion says.
LEMMA SkipValuesWalk ==
  ASSUME NEW buf \in Seq(Nat), Bytes(buf)
  PROVE  LET P == Positions(buf)
             w == SkipValues(buf)
         IN /\ w \in Walks(P)
            /\ \A p \in P, n \in Nat :
                 w[p][n] = IF p = 0 \/ n = 0 THEN p ELSE w[SkipItem(buf, p, w)][n - 1]
<1> DEFINE P == Positions(buf)
           M == Len(buf) + 1
           Walked(w) == [p \in P |-> [n \in Nat |-> IF p = 0 \/ n = 0 THEN p
                                                    ELSE w[SkipItem(buf, p, w)][n - 1]]]
           Item == [w \in Walks(P) |-> [p \in P |-> IF p = 0 THEN 0 ELSE SkipItem(buf, p, w)]]
<1>0. M \in Nat /\ P \in SUBSET Nat /\ 0 \in P /\ \A p \in P : p <= M
  BY PositionsType
<1> HIDE DEF P, M
<1>1. ASSUME NEW w \in Walks(P), NEW p \in P, p # 0
      PROVE  SkipItem(buf, p, w) \in P /\ (SkipItem(buf, p, w) = 0 \/ p < SkipItem(buf, p, w))
  <2>1. WalkedBehind(P, w, p)
    BY DEF Walks, WalkedBehind
  <2> QED BY <1>1, <2>1, SkipItemForward DEF P
<1>2. Item \in [Walks(P) -> [P -> P]]
  BY <1>0, <1>1
<1>3. \A w \in Walks(P), p \in P : Item[w][p] = 0 \/ p < Item[w][p]
  BY <1>1
<1>4. \A v, w \in Walks(P) : \A p \in P :
        p # 0 /\ (\A q \in P : p < q => v[q] = w[q]) => Item[v][p] = Item[w][p]
  <2> SUFFICES ASSUME NEW v \in Walks(P), NEW w \in Walks(P), NEW p \in P,
                      p # 0, \A q \in P : p < q => v[q] = w[q]
               PROVE  Item[v][p] = Item[w][p]
    OBVIOUS
  <2>1. SkipItem(buf, p, v) = SkipItem(buf, p, w)
    BY SkipItemLocal DEF P
  <2> QED BY <2>1
<1>5. PICK w \in Walks(P) :
        w = [p \in P |-> [n \in Nat |-> IF p = 0 \/ n = 0 THEN p ELSE w[Item[w][p]][n - 1]]]
  <2> HIDE DEF Item
  <2> QED BY <1>0, <1>2, <1>3, <1>4, WalkExists
<1>6. w = Walked(w)
  <2>1. \A p \in P : p # 0 => Item[w][p] = SkipItem(buf, p, w)
    OBVIOUS
  <2> HIDE DEF Item
  <2>2. \A p \in P : [n \in Nat |-> IF p = 0 \/ n = 0 THEN p ELSE w[Item[w][p]][n - 1]]
                   = [n \in Nat |-> IF p = 0 \/ n = 0 THEN p ELSE w[SkipItem(buf, p, w)][n - 1]]
    BY <2>1
  <2> QED BY <1>5, <2>2, Zenon
<1> DEFINE s == SkipValues(buf)
<1>7. s = CHOOSE f : f = Walked(f)
  BY DEF SkipValues, P
<1>8. s = Walked(s)
  BY <1>6, <1>7
<1> HIDE DEF s
<1>9. s \in Walks(P)
  <2> DEFINE item == [p \in P |-> SkipItem(buf, p, s)]
  <2>1. s = [p \in P |-> [n \in Nat |-> IF p = 0 \/ n = 0 THEN p ELSE s[item[p]][n - 1]]]
    BY <1>8
  <2>2. \A p \in P : p # 0 /\ WalkedBehind(P, s, p) => item[p] \in P /\ (item[p] = 0 \/ p < item[p])
    BY SkipItemForward DEF P
  <2> HIDE DEF item
  <2> QED BY <1>0, <2>1, <2>2, WalkForward
<1>10. ASSUME NEW p \in P, NEW n \in Nat
       PROVE  s[p][n] = IF p = 0 \/ n = 0 THEN p ELSE s[SkipItem(buf, p, s)][n - 1]
  <2>1. s[p] = [k \in Nat |-> IF p = 0 \/ k = 0 THEN p ELSE s[SkipItem(buf, p, s)][k - 1]]
    BY <1>8
  <2> QED BY <2>1, Zenon
<1> QED BY <1>9, <1>10 DEF P, s

----------------------------------------------------------------------------
(* The items of CTAP2.                                                   *)

\* The items of CTAP2, case by case of the initial byte.
LEMMA IsItemCases ==
  ASSUME NEW buf \in Seq(Nat), Bytes(buf), NEW items,
         NEW i \in 1..Len(buf), NEW j \in 1..(Len(buf) + 1), i < j
  PROVE  LET mt == MajorType(buf[i])
             c == Content(buf, i)
             n == Argument(buf, i)
             item == IsItem(buf, i, j, items)
         IN /\ mt = 7 => (item <=> j = i + 1 /\ Additional(buf[i]) \in 20..23)
            /\ mt # 7 /\ ~HasHeader(buf, i) => ~item
            /\ HasHeader(buf, i) /\ mt < 2 => (item <=> j = c)
            /\ HasHeader(buf, i) /\ mt \in {2, 3} => (item <=> c <= j /\ c + n = j)
            /\ HasHeader(buf, i) /\ mt = 4 => (item <=> c <= j /\ <<j, n>> \in items[c])
            /\ HasHeader(buf, i) /\ mt = 5 => (item <=> c <= j /\ <<j, 2 * n>> \in items[c])
<1> DEFINE b == buf[i]
           mt == MajorType(b)
           ai == Additional(b)
           c == Content(buf, i)
           n == Argument(buf, i)
           item == IsItem(buf, i, j, items)
<1>1. /\ b \in Nat /\ b < 256 /\ b = 32 * mt + ai
      /\ mt \in Nat /\ mt < 8 /\ ai \in Nat /\ ai < 32
  <2>1. b \in Nat /\ b < 256
    BY DEF Bytes
  <2> HIDE DEF b
  <2> QED BY <2>1, ByteParts
<1>2. b \in 244..247 <=> mt = 7 /\ ai \in 20..23
  <2> HIDE DEF b, mt, ai
  <2> QED BY <1>1
<1>3. c \in Nat
  BY InitialByte DEF Content
<1>4. item <=> \/ j = i + 1 /\ b \in 244..247
               \/ /\ mt < 6 /\ ai < 28 /\ c <= j
                  /\ CASE mt < 2 -> c = j
                       [] mt \in {2, 3} -> c + n = j
                       [] mt = 4 -> <<j, n>> \in items[c]
                       [] mt = 5 -> <<j, 2 * n>> \in items[c]
  BY DEF IsItem, Content
<1>5. HasHeader(buf, i) <=> mt < 6 /\ ai < 28 /\ c <= Len(buf) + 1
  BY DEF HasHeader
<1> HIDE DEF b, mt, ai, c, n, item
<1>6. CASE mt = 7
  <2>1. ~(mt < 6)
    BY <1>6
  <2> QED BY <1>2, <1>4, <1>5, <1>6, <2>1 DEF b, mt, ai, c, n, item
<1>7. CASE mt # 7
  <2>1. item <=> /\ mt < 6 /\ ai < 28 /\ c <= j
                 /\ CASE mt < 2 -> c = j
                       [] mt \in {2, 3} -> c + n = j
                       [] mt = 4 -> <<j, n>> \in items[c]
                       [] mt = 5 -> <<j, 2 * n>> \in items[c]
    BY <1>2, <1>4, <1>7
  <2>2. CASE ~HasHeader(buf, i)
    <3>1. ~(mt < 6 /\ ai < 28 /\ c <= j)
      BY <1>1, <1>3, <1>5, <2>2
    <3> QED BY <1>7, <2>1, <2>2, <3>1 DEF b, mt, ai, c, n, item
  <2>3. CASE HasHeader(buf, i)
    <3>1. mt < 6 /\ ai < 28
      BY <1>5, <2>3
    <3>2. ASSUME mt < 2 PROVE item <=> j = c
      <4>1. ~(mt \in {2, 3}) /\ mt # 4 /\ mt # 5
        BY <3>2, <1>1
      <4>2. item <=> c <= j /\ c = j
        BY <2>1, <3>1, <3>2, <4>1
      <4> QED BY <1>3, <4>2
    <3>3. ASSUME mt \in {2, 3} PROVE item <=> c <= j /\ c + n = j
      <4>1. ~(mt < 2) /\ mt # 4 /\ mt # 5
        BY <3>3, <1>1
      <4> QED BY <2>1, <3>1, <3>3, <4>1
    <3>4. ASSUME mt = 4 PROVE item <=> c <= j /\ <<j, n>> \in items[c]
      <4>1. ~(mt < 2) /\ ~(mt \in {2, 3}) /\ mt # 5
        BY <3>4, <1>1
      <4> QED BY <2>1, <3>1, <3>4, <4>1
    <3>5. ASSUME mt = 5 PROVE item <=> c <= j /\ <<j, 2 * n>> \in items[c]
      <4>1. ~(mt < 2) /\ ~(mt \in {2, 3}) /\ mt # 4
        BY <3>5, <1>1
      <4> QED BY <2>1, <3>1, <3>5, <4>1
    <3> QED BY <1>7, <2>3, <3>2, <3>3, <3>4, <3>5 DEF b, mt, ai, c, n, item
  <2> QED BY <2>2, <2>3
<1> QED BY <1>6, <1>7

\* Whether bytes are an item depends only on the items behind their first.
LEMMA IsItemLocal ==
  ASSUME NEW buf \in Seq(Nat), Bytes(buf), NEW f, NEW g,
         NEW i \in 1..(Len(buf) + 1), NEW j \in 1..(Len(buf) + 1),
         \A q \in 1..(Len(buf) + 1) : i < q => f[q] = g[q]
  PROVE  IsItem(buf, i, j, f) <=> IsItem(buf, i, j, g)
<1>1. CASE ~(i < j)
  BY <1>1 DEF IsItem
<1>2. CASE i < j
  <2>0. i \in 1..Len(buf)
    BY <1>2
  <2> DEFINE mt == MajorType(buf[i])
             c == Content(buf, i)
  <2>1. mt \in Nat /\ mt < 8
    BY <2>0, InitialByte
  <2>2. CASE mt = 7 \/ ~HasHeader(buf, i)
    <3>1. CASE mt = 7
      BY <1>2, <2>0, <3>1, IsItemCases
    <3>2. CASE mt # 7 /\ ~HasHeader(buf, i)
      <4>1. ~IsItem(buf, i, j, f)
        BY <1>2, <2>0, <3>2, IsItemCases
      <4>2. ~IsItem(buf, i, j, g)
        BY <1>2, <2>0, <3>2, IsItemCases
      <4> QED BY <4>1, <4>2
    <3> QED BY <2>2, <3>1, <3>2
  <2>3. CASE mt # 7 /\ HasHeader(buf, i)
    <3>1. mt < 6
      BY <2>3 DEF HasHeader
    <3>2. f[c] = g[c]
      BY <2>0, <2>3, ContentType
    <3> DEFINE n == Argument(buf, i)
    <3>a. /\ mt < 2 => (IsItem(buf, i, j, f) <=> j = c)
          /\ mt \in {2, 3} => (IsItem(buf, i, j, f) <=> c <= j /\ c + n = j)
          /\ mt = 4 => (IsItem(buf, i, j, f) <=> c <= j /\ <<j, n>> \in f[c])
          /\ mt = 5 => (IsItem(buf, i, j, f) <=> c <= j /\ <<j, 2 * n>> \in f[c])
      BY <1>2, <2>0, <2>3, IsItemCases
    <3>b. /\ mt < 2 => (IsItem(buf, i, j, g) <=> j = c)
          /\ mt \in {2, 3} => (IsItem(buf, i, j, g) <=> c <= j /\ c + n = j)
          /\ mt = 4 => (IsItem(buf, i, j, g) <=> c <= j /\ <<j, n>> \in g[c])
          /\ mt = 5 => (IsItem(buf, i, j, g) <=> c <= j /\ <<j, 2 * n>> \in g[c])
      BY <1>2, <2>0, <2>3, IsItemCases
    <3> HIDE DEF mt, c, n
    <3>3. CASE mt < 2
      BY <3>3, <3>a, <3>b, Zenon
    <3>4. CASE mt \in {2, 3}
      BY <3>4, <3>a, <3>b, Zenon
    <3>5. CASE mt = 4
      BY <3>2, <3>5, <3>a, <3>b, Zenon
    <3>6. CASE mt = 5
      BY <3>2, <3>6, <3>a, <3>b, Zenon
    <3> QED BY <2>1, <3>1, <3>3, <3>4, <3>5, <3>6
  <2> QED BY <2>2, <2>3
<1> QED BY <1>1, <1>2

\* Items is what its recursion says.
LEMMA ItemsEquation ==
  ASSUME NEW buf \in Seq(Nat), Bytes(buf), NEW refused
  PROVE  LET M == Len(buf) + 1
             items == Items(buf, refused)
         IN \A i, j \in 1..M, n \in Nat :
              <<j, n>> \in items[i] <=>
                IF n = 0 THEN j = i
                ELSE /\ i \notin refused
                     /\ \E k \in (i + 1)..j : IsItem(buf, i, k, items) /\ <<j, n - 1>> \in items[k]
<1> DEFINE M == Len(buf) + 1
           P == 1..M
           From(g, i) ==
             {x \in P \X Nat :
                IF x[2] = 0 THEN x[1] = i
                ELSE /\ i \notin refused
                     /\ \E k \in (i + 1)..x[1] :
                          IsItem(buf, i, k, g) /\ <<x[1], x[2] - 1>> \in g[k]}
           G == [P -> SUBSET (P \X Nat)]
           F == [g \in G |-> [i \in P |-> From(g, i)]]
           rank == [i \in P |-> M - i]
<1>0. M \in Nat
  OBVIOUS
<1>a. \A g \in G, i \in P : F[g][i] = From(g, i)
  OBVIOUS
<1>1. \A g, h \in G : \A i \in P :
        (\A q \in P : rank[q] < rank[i] => g[q] = h[q]) => F[g][i] = F[h][i]
  <2> SUFFICES ASSUME NEW g \in G, NEW h \in G, NEW i \in P,
                      \A q \in P : rank[q] < rank[i] => g[q] = h[q]
               PROVE  F[g][i] = F[h][i]
    BY Zenon
  <2>1. \A q \in P : i < q => g[q] = h[q]
    <3> SUFFICES ASSUME NEW q \in P, i < q PROVE g[q] = h[q]
      OBVIOUS
    <3>1. rank[q] < rank[i]
      BY <1>0
    <3> QED BY <3>1
  <2>2. \A j \in P : IsItem(buf, i, j, g) <=> IsItem(buf, i, j, h)
    BY <2>1, IsItemLocal
  <2>3. \A j \in P : \A k \in (i + 1)..j : k \in P /\ i < k
    BY <1>0
  <2>4. ASSUME NEW x \in P \X Nat
        PROVE  (\E k \in (i + 1)..x[1] : IsItem(buf, i, k, g) /\ <<x[1], x[2] - 1>> \in g[k])
           <=> (\E k \in (i + 1)..x[1] : IsItem(buf, i, k, h) /\ <<x[1], x[2] - 1>> \in h[k])
    <3>1. \A k \in (i + 1)..x[1] : k \in P /\ i < k
      BY <2>3
    <3>2. \A k \in (i + 1)..x[1] : g[k] = h[k] /\ (IsItem(buf, i, k, g) <=> IsItem(buf, i, k, h))
      BY <2>1, <2>2, <3>1
    <3> QED BY <3>2, Zenon
  <2>5. From(g, i) = From(h, i)
    BY <2>4, Zenon
  <2> QED BY <1>a, <2>5, Zenon
<1>2. F \in [G -> G]
  OBVIOUS
<1>3. G # {}
  <2>1. [i \in P |-> {}] \in G
    OBVIOUS
  <2> QED BY <2>1
<1>4. rank \in [P -> Nat] /\ \A i \in P : rank[i] <= M
  BY <1>0
<1>5. \A g \in G : g = [i \in P |-> g[i]]
  OBVIOUS
<1>6. PICK f \in G : f = F[f]
  <2> HIDE DEF P, M, G, F, rank
  <2>1. IsRecursion(P, M, rank, G, F)
    BY <1>0, <1>1, <1>2, <1>3, <1>4, <1>5 DEF IsRecursion
  <2> QED BY <2>1, RecursiveFunctionExists
<1> DEFINE items == Items(buf, refused)
<1> DEFINE Filled(g) == [i \in P |-> From(g, i)]
<1>7. items = CHOOSE g : g = Filled(g)
  BY DEF Items
<1>8. f = Filled(f)
  BY <1>6
<1> HIDE DEF items
<1>b. items = Filled(items)
  <2> HIDE DEF Filled
  <2> QED BY <1>7, <1>8, Zenon
<1>9. items = [i \in P |-> From(items, i)]
  BY <1>b
<1>10. ASSUME NEW i \in P, NEW j \in P, NEW n \in Nat
       PROVE  <<j, n>> \in items[i] <=>
                IF n = 0 THEN j = i
                ELSE /\ i \notin refused
                     /\ \E k \in (i + 1)..j : IsItem(buf, i, k, items) /\ <<j, n - 1>> \in items[k]
  <2>1. items[i] = From(items, i)
    BY <1>9, Zenon
  <2> DEFINE x == <<j, n>>
  <2>2. x \in P \X Nat /\ x[1] = j /\ x[2] = n
    OBVIOUS
  <2> HIDE DEF P, x
  <2>3. x \in items[i] <=>
          IF x[2] = 0 THEN x[1] = i
          ELSE /\ i \notin refused
               /\ \E k \in (i + 1)..x[1] :
                    IsItem(buf, i, k, items) /\ <<x[1], x[2] - 1>> \in items[k]
    BY <2>1, <2>2, Zenon
  <2> QED BY <2>2, <2>3, Zenon DEF x
<1> QED BY <1>10 DEF items

----------------------------------------------------------------------------
(* SkipValue finds the end of an item.                                   *)

\* Behind pos, the items are what w walks over.
AgreeBehind(buf, items, w, pos) ==
  \A q \in (pos + 1)..(Len(buf) + 1), n \in Nat, j \in 1..(Len(buf) + 1) :
    <<j, n>> \in items[q] <=> w[q][n] = j

\* One item, once the items behind it are what is skipped: SkipValue's switch passes
\* an item to its end, and nothing else.
LEMMA ItemIsSkipped ==
  ASSUME NEW buf \in Seq(Nat), Bytes(buf), NEW items, NEW w \in Walks(Positions(buf)),
         NEW pos \in 1..Len(buf), AgreeBehind(buf, items, w, pos),
         NEW j \in 1..(Len(buf) + 1), pos < j
  PROVE  IsItem(buf, pos, j, items) <=> SkipItem(buf, pos, w) = j
<1> DEFINE mt == MajorType(buf[pos])
           ai == Additional(buf[pos])
           c == Content(buf, pos)
           n == Argument(buf, pos)
           item == IsItem(buf, pos, j, items)
           skipped == SkipItem(buf, pos, w)
<1>1. /\ mt = 7 => (item <=> j = pos + 1 /\ ai \in 20..23)
      /\ mt # 7 /\ ~HasHeader(buf, pos) => ~item
      /\ HasHeader(buf, pos) /\ mt < 2 => (item <=> j = c)
      /\ HasHeader(buf, pos) /\ mt \in {2, 3} => (item <=> c <= j /\ c + n = j)
      /\ HasHeader(buf, pos) /\ mt = 4 => (item <=> c <= j /\ <<j, n>> \in items[c])
      /\ HasHeader(buf, pos) /\ mt = 5 => (item <=> c <= j /\ <<j, 2 * n>> \in items[c])
  BY IsItemCases
<1>2. /\ mt = 7 => skipped = IF ai \in 20..23 THEN pos + 1 ELSE 0
      /\ mt # 7 /\ ~HasHeader(buf, pos) => skipped = 0
      /\ HasHeader(buf, pos) /\ mt < 2 => skipped = c
      /\ HasHeader(buf, pos) /\ mt \in {2, 3} => skipped = SkipBytes(buf, c, n)
      /\ HasHeader(buf, pos) /\ mt = 4 => skipped = w[c][n]
      /\ HasHeader(buf, pos) /\ mt = 5 => skipped = w[c][2 * n]
  BY SkipItemCases
<1>3. mt \in Nat /\ mt < 8
  BY InitialByte
<1>4. HasHeader(buf, pos) => mt < 6
  BY DEF HasHeader
<1>5. HasHeader(buf, pos) => c \in Nat /\ pos < c /\ c <= Len(buf) + 1 /\ n \in Nat /\ 2 * n \in Nat
  BY ContentType
<1>6. ASSUME HasHeader(buf, pos), NEW m \in Nat
      PROVE  c <= j /\ <<j, m>> \in items[c] <=> w[c][m] = j
  <2>1. <<j, m>> \in items[c] <=> w[c][m] = j
    BY <1>5, <1>6 DEF AgreeBehind
  <2>2. w[c][m] = 0 \/ c <= w[c][m]
    BY <1>5, <1>6, PositionsType DEF Walks
  <2> QED BY <2>1, <2>2
<1>7. Len(buf) \in Nat
  OBVIOUS
<1> DEFINE m == 2 * n
<1> SUFFICES item <=> skipped = j
  OBVIOUS
<1> HIDE DEF mt, ai, c, item, skipped, m
<1>8. CASE mt = 7
  BY <1>1, <1>2, <1>8
<1>9. CASE mt # 7 /\ ~HasHeader(buf, pos)
  BY <1>1, <1>2, <1>9
<1>10. CASE HasHeader(buf, pos) /\ mt < 2
  BY <1>1, <1>2, <1>10
<1>11. CASE HasHeader(buf, pos) /\ mt \in {2, 3}
  <2> HIDE DEF n
  <2>1. (item <=> c <= j /\ c + n = j) /\ skipped = SkipBytes(buf, c, n)
    BY <1>1, <1>2, <1>11
  <2> QED BY <1>5, <1>7, <1>11, <2>1 DEF SkipBytes
<1>12. CASE HasHeader(buf, pos) /\ mt = 4
  <2> HIDE DEF n
  <2> QED BY <1>1, <1>2, <1>5, <1>6, <1>12
<1>13. CASE HasHeader(buf, pos) /\ mt = 5
  <2>1. (item <=> c <= j /\ <<j, m>> \in items[c]) /\ skipped = w[c][m] /\ m \in Nat
    BY <1>1, <1>2, <1>5, <1>13 DEF m
  <2> QED BY <1>6, <1>13, <2>1
<1> QED BY <1>3, <1>4, <1>8, <1>9, <1>10, <1>11, <1>12, <1>13

\* w is a walk over the items SkipItem passes, which stops at a refused position.
WalksOver(buf, refused, w) ==
  /\ w \in Walks(Positions(buf))
  /\ \A p \in Positions(buf), n \in Nat :
       w[p][n] = IF p = 0 \/ n = 0 THEN p
                 ELSE w[IF p \in refused THEN 0 ELSE SkipItem(buf, p, w)][n - 1]

\* w passes over n items that are not refused, and over nothing else.
PassesItems(buf, refused, w) ==
  \A p, j \in 1..(Len(buf) + 1), n \in Nat :
    <<j, n>> \in Items(buf, refused)[p] <=> w[p][n] = j

\* So does every such walk.
LEMMA WalksOverItems ==
  ASSUME NEW buf \in Seq(Nat), Bytes(buf), NEW refused, NEW w, WalksOver(buf, refused, w)
  PROVE  PassesItems(buf, refused, w)
<1> DEFINE M == Len(buf) + 1
           items == Items(buf, refused)
           S == {p \in 1..M : \A j \in 1..M, n \in Nat : <<j, n>> \in items[p] <=> w[p][n] = j}
<1>0. M \in Nat /\ \A p \in 1..M : p \in Positions(buf)
  BY PositionsType
<1>1. w \in Walks(Positions(buf))
  BY DEF WalksOver
<1>2. \A p \in Positions(buf), n \in Nat :
        w[p][n] = IF p = 0 \/ n = 0 THEN p
                  ELSE w[IF p \in refused THEN 0 ELSE SkipItem(buf, p, w)][n - 1]
  BY DEF WalksOver
<1>3. \A p, j \in 1..M, n \in Nat :
        <<j, n>> \in items[p] <=>
          IF n = 0 THEN j = p
          ELSE /\ p \notin refused
               /\ \E k \in (p + 1)..j : IsItem(buf, p, k, items) /\ <<j, n - 1>> \in items[k]
  BY ItemsEquation
<1> HIDE DEF items
<1>4. ASSUME NEW p \in 1..M, \A q \in (p + 1)..M : q \in S PROVE p \in S
  <2> SUFFICES ASSUME NEW j \in 1..M, NEW n \in Nat
               PROVE  <<j, n>> \in items[p] <=> w[p][n] = j
    OBVIOUS
  <2>1. CASE n = 0
    <3>1. w[p][0] = p
      BY <1>0, <1>2
    <3>2. <<j, 0>> \in items[p] <=> j = p
      BY <1>3
    <3> QED BY <2>1, <3>1, <3>2
  <2>2. CASE n # 0
    <3> DEFINE s == IF p \in refused THEN 0 ELSE SkipItem(buf, p, w)
               m == n - 1
    <3>0. m \in Nat
      BY <2>2
    <3>1. WalkedBehind(Positions(buf), w, p)
      BY <1>1, WalkIsBehind
    <3>2. s \in Positions(buf) /\ (s = 0 \/ p < s)
      BY <1>0, <3>1, SkipItemForward, PositionsType
    <3>3. w[p][n] = w[s][m]
      <4>1. ~(p = 0 \/ n = 0) /\ p \in Positions(buf)
        BY <1>0, <2>2
      <4> QED BY <1>2, <4>1, Zenon
    <3>4. AgreeBehind(buf, items, w, p)
      BY <1>4 DEF AgreeBehind
    <3>5. \A k \in (p + 1)..M : p \notin refused /\ IsItem(buf, p, k, items) <=> s = k
      <4> SUFFICES ASSUME NEW k \in (p + 1)..M
                   PROVE  p \notin refused /\ IsItem(buf, p, k, items) <=> s = k
        OBVIOUS
      <4>1. p \in 1..Len(buf) /\ k \in 1..(Len(buf) + 1) /\ p < k
        BY <1>0
      <4>2. IsItem(buf, p, k, items) <=> SkipItem(buf, p, w) = k
        BY <1>1, <3>4, <4>1, ItemIsSkipped
      <4>3. k # 0
        BY <4>1
      <4> QED BY <4>2, <4>3, Zenon
    <3>6. <<j, n>> \in items[p] <=>
            /\ p \notin refused
            /\ \E k \in (p + 1)..j : IsItem(buf, p, k, items) /\ <<j, m>> \in items[k]
      BY <1>3, <2>2
    <3> HIDE DEF s, m
    <3>7. <<j, n>> \in items[p] <=> \E k \in (p + 1)..j : s = k /\ w[k][m] = j
      <4>1. \A k \in (p + 1)..j : k \in (p + 1)..M
        BY <1>0
      <4>2. \A k \in (p + 1)..j : (p \notin refused /\ IsItem(buf, p, k, items) <=> s = k)
        BY <3>5, <4>1
      <4>3. \A k \in (p + 1)..j : (<<j, m>> \in items[k] <=> w[k][m] = j)
        BY <3>0, <3>4, <4>1 DEF AgreeBehind
      <4> QED BY <3>6, <4>2, <4>3, Zenon
    <3>8. <<j, n>> \in items[p] <=> s \in (p + 1)..j /\ w[s][m] = j
      BY <3>7, Zenon
    <3>9. CASE s = 0
      <4>1. w[s][m] = 0
        BY <1>2, <3>0, <3>2, <3>9
      <4> QED BY <3>3, <3>8, <3>9, <4>1
    <3>10. CASE p < s
      <4>1. w[s][m] = 0 \/ s <= w[s][m]
        BY <1>1, <3>0, <3>2 DEF Walks
      <4>2. s \in Nat
        BY <3>2, PositionsType
      <4> QED BY <1>0, <3>3, <3>8, <3>10, <4>1, <4>2
    <3> QED BY <3>2, <3>9, <3>10
  <2> QED BY <2>1, <2>2
<1>5. 1..M \subseteq S
  <2> HIDE DEF S, M
  <2> QED BY <1>0, <1>4, BackwardInduction
<1> QED BY <1>5 DEF items, PassesItems

\* SkipValue passes over n items, and over nothing else.
LEMMA SkipsItems ==
  ASSUME NEW buf \in Seq(Nat), Bytes(buf)
  PROVE  \A p, j \in 1..(Len(buf) + 1), n \in Nat :
           <<j, n>> \in Items(buf, {})[p] <=> SkipValues(buf)[p][n] = j
<1> DEFINE w == SkipValues(buf)
<1>1. /\ w \in Walks(Positions(buf))
      /\ \A p \in Positions(buf), n \in Nat :
           w[p][n] = IF p = 0 \/ n = 0 THEN p ELSE w[SkipItem(buf, p, w)][n - 1]
  BY SkipValuesWalk
<1> HIDE DEF w
<1>2. \A p : (IF p \in {} THEN 0 ELSE SkipItem(buf, p, w)) = SkipItem(buf, p, w)
  OBVIOUS
<1>3. WalksOver(buf, {}, w)
  BY <1>1, <1>2, Zenon DEF WalksOver
<1>4. PassesItems(buf, {}, w)
  BY <1>3, WalksOverItems, Zenon
<1> QED BY <1>4, Zenon DEF w, PassesItems

----------------------------------------------------------------------------
(* The typed reads agree with SkipValue.                                 *)

\* The typed reads take what SkipValue's switch passes, but for what is not readable.
LEMMA ReadItemAsSkip ==
  ASSUME NEW buf \in Seq(Nat), Bytes(buf), NEW after,
         NEW pos \in Positions(buf), pos # 0
  PROVE  ReadItem(buf, pos, after) =
           IF pos \in Unreadable(buf) THEN 0 ELSE SkipItem(buf, pos, after)
<1>1. CASE pos > Len(buf)
  BY <1>1, PositionsType DEF ReadItem, SkipItem, Unreadable
<1>2. CASE ~(pos > Len(buf))
  <2> DEFINE b == buf[pos]
             mt == MajorType(b)
             ai == Additional(b)
             c == Content(buf, pos)
             n == Argument(buf, pos)
             read == ReadItem(buf, pos, after)
             skipped == SkipItem(buf, pos, after)
             behind == ReadTyped(buf, pos, mt)
             fits == InInt64(buf, pos)
             unreadable == pos \in Unreadable(buf)
  <2>0. pos \in 1..Len(buf)
    BY <1>2, PositionsType
  <2>1. /\ b \in Nat /\ b < 256 /\ b = 32 * mt + ai
        /\ mt \in Nat /\ mt < 8 /\ ai \in Nat /\ ai < 32
    <3>1. b \in Nat /\ b < 256
      BY <2>0 DEF Bytes
    <3> HIDE DEF b
    <3> QED BY <3>1, ByteParts
  <2>2. /\ b \in {246, 247} <=> mt = 7 /\ ai \in {22, 23}
        /\ b \in {244, 245} <=> mt = 7 /\ ai \in {20, 21}
        /\ b = 59 <=> mt = 1 /\ ai = 27
    <3> HIDE DEF b, mt, ai
    <3> QED BY <2>1
  <2>3. /\ mt = 7 => skipped = IF ai \in 20..23 THEN pos + 1 ELSE 0
        /\ mt # 7 /\ ~HasHeader(buf, pos) => skipped = 0
        /\ HasHeader(buf, pos) /\ mt < 2 => skipped = c
        /\ HasHeader(buf, pos) /\ mt \in {2, 3} => skipped = SkipBytes(buf, c, n)
        /\ HasHeader(buf, pos) /\ mt = 4 => skipped = after[c][n]
        /\ HasHeader(buf, pos) /\ mt = 5 => skipped = after[c][2 * n]
    BY <2>0, SkipItemCases
  <2>4. read = IF mt = 7 THEN ReadBool(buf, pos)
               ELSE IF mt \in {4, 5} /\ behind # 0 THEN after[behind][(mt - 3) * n]
               ELSE behind
    BY <1>2 DEF ReadItem
  <2>5. ReadBool(buf, pos) = IF b \in {244, 245} THEN pos + 1 ELSE 0
    BY <2>0 DEF ReadBool
  <2>6. HasHeader(buf, pos) => mt < 6 /\ c \in Nat /\ c # 0 /\ n \in Nat
    BY <2>0, ContentType DEF HasHeader
  <2>7. ~HasHeader(buf, pos) => behind = 0
    BY <2>0, HeaderRefused DEF ReadTyped
  <2>8. HasHeader(buf, pos) => behind = CASE mt = 1 -> IF fits THEN c ELSE 0
                                          [] mt \in {2, 3} -> SkipBytes(buf, c, n)
                                          [] mt \in {0, 4, 5} -> c
    <3> SUFFICES ASSUME HasHeader(buf, pos)
                 PROVE  behind = CASE mt = 1 -> IF fits THEN c ELSE 0
                                   [] mt \in {2, 3} -> SkipBytes(buf, c, n)
                                   [] mt \in {0, 4, 5} -> c
      OBVIOUS
    <3> DEFINE h == ReadInitialByte(buf, pos)
    <3>1. h = [ok |-> TRUE, mt |-> mt, next |-> c, arg |-> n]
      BY <2>0, HeaderRead
    <3>2. behind = CASE ~h.ok \/ h.mt # mt -> 0
                     [] h.ok /\ h.mt = mt ->
                          CASE mt = 1          -> IF fits THEN h.next ELSE 0
                            [] mt \in {2, 3}   -> SkipBytes(buf, h.next, h.arg)
                            [] mt \in {0, 4, 5} -> h.next
      BY Zenon DEF ReadTyped
    <3> HIDE DEF h, b, mt, c, n, behind, fits
    <3>3. h.ok = TRUE /\ h.mt = mt /\ h.next = c /\ h.arg = n
      BY <3>1
    <3>4. mt = 1 => behind = IF fits THEN c ELSE 0
      BY <3>2, <3>3
    <3>5. mt \in {2, 3} => behind = SkipBytes(buf, c, n)
      BY <3>2, <3>3
    <3>6. mt \in {0, 4, 5} => behind = c
      BY <3>2, <3>3
    <3>7. mt \in 0..5
      BY <2>1, <2>6
    <3>8. CASE mt = 1
      BY <3>4, <3>8
    <3>9. CASE mt \in {2, 3}
      BY <3>5, <3>9
    <3>10. CASE mt \in {0, 4, 5}
      BY <3>6, <3>10
    <3> QED BY <3>7, <3>8, <3>9, <3>10
  <2>14. unreadable <=> b \in {246, 247} \/ (b = 59 /\ pos < Len(buf) /\ buf[pos + 1] >= 128)
    BY <2>0 DEF Unreadable
  <2>15. ASSUME HasHeader(buf, pos), mt = 1 PROVE unreadable <=> ~fits
    <3>1. fits <=> (ai = 27 => buf[pos + 1] < 128)
      BY DEF InInt64
    <3>2. ASSUME ai = 27 PROVE pos < Len(buf) /\ buf[pos + 1] \in Nat
      <4>1. c = pos + 1 + 8
        BY <3>2 DEF Content, ArgumentSize
      <4>2. c <= Len(buf) + 1
        BY <2>15 DEF HasHeader
      <4>3. pos < Len(buf) /\ pos + 1 \in 1..Len(buf)
        BY <2>0, <4>1, <4>2
      <4> QED BY <4>3
    <3>3. b \notin {246, 247}
      BY <2>2, <2>15
    <3> DEFINE next == buf[pos + 1]
    <3>4. next \in Nat => (~(next < 128) <=> next >= 128)
      OBVIOUS
    <3> HIDE DEF b, mt, ai, fits, unreadable, next
    <3>5. CASE ai = 27
      BY <2>2, <2>14, <2>15, <3>1, <3>2, <3>3, <3>4, <3>5 DEF next
    <3>6. CASE ai # 27
      BY <2>2, <2>14, <3>1, <3>3, <3>6
    <3> QED BY <3>5, <3>6
  <2> SUFFICES read = IF unreadable THEN 0 ELSE skipped
    OBVIOUS
  <2> HIDE DEF b, mt, ai, c, n, read, skipped, behind, fits, unreadable
  <2>9. CASE mt = 7
    <3>1. unreadable <=> ai \in {22, 23}
      BY <2>2, <2>9, <2>14
    <3> QED BY <2>1, <2>2, <2>3, <2>4, <2>5, <2>9, <3>1
  <2>10. CASE mt # 7 /\ ~HasHeader(buf, pos)
    <3>1. read = 0 /\ skipped = 0
      BY <2>3, <2>4, <2>7, <2>10
    <3> QED BY <3>1
  <2>16. ASSUME HasHeader(buf, pos), mt # 1 PROVE ~unreadable
    <3>1. mt # 7
      BY <2>6, <2>16
    <3> QED BY <2>2, <2>14, <2>16, <3>1
  <2>17. CASE HasHeader(buf, pos) /\ mt = 1
    <3>1. skipped = c /\ behind = IF fits THEN c ELSE 0
      BY <2>3, <2>8, <2>17
    <3>2. read = behind
      BY <2>4, <2>17
    <3> QED BY <2>15, <2>17, <3>1, <3>2, Zenon
  <2>11. CASE HasHeader(buf, pos) /\ mt \in {0, 2, 3}
    <3>1. read = behind /\ ~unreadable
      BY <2>4, <2>11, <2>16
    <3>2. CASE mt = 0
      BY <2>3, <2>8, <2>11, <3>1, <3>2
    <3>3. CASE mt \in {2, 3}
      BY <2>3, <2>8, <2>11, <3>1, <3>3
    <3> QED BY <2>11, <3>2, <3>3
  <2>12. CASE HasHeader(buf, pos) /\ mt = 4
    <3>1. (mt - 3) * n = n
      BY <2>6, <2>12
    <3>2. read = after[c][(mt - 3) * n] /\ skipped = after[c][n]
      BY <2>3, <2>4, <2>6, <2>8, <2>12
    <3> QED BY <2>12, <2>16, <3>1, <3>2
  <2>13. CASE HasHeader(buf, pos) /\ mt = 5
    <3>1. (mt - 3) * n = 2 * n
      BY <2>6, <2>13
    <3>2. read = after[c][(mt - 3) * n] /\ skipped = after[c][2 * n]
      BY <2>3, <2>4, <2>6, <2>8, <2>13
    <3> QED BY <2>13, <2>16, <3>1, <3>2
  <2> QED BY <2>1, <2>6, <2>9, <2>10, <2>11, <2>12, <2>13, <2>17
<1> QED BY <1>1, <1>2, PositionsType

\* A typed read moves forward.
LEMMA ReadItemForward ==
  ASSUME NEW buf \in Seq(Nat), Bytes(buf), NEW w,
         NEW pos \in Positions(buf), pos # 0, WalkedBehind(Positions(buf), w, pos)
  PROVE  /\ ReadItem(buf, pos, w) \in Positions(buf)
         /\ ReadItem(buf, pos, w) = 0 \/ pos < ReadItem(buf, pos, w)
BY ReadItemAsSkip, SkipItemForward, PositionsType

\* A typed read depends only on what it finds behind the initial byte.
LEMMA ReadItemLocal ==
  ASSUME NEW buf \in Seq(Nat), Bytes(buf), NEW v, NEW w,
         NEW pos \in Positions(buf), pos # 0,
         \A q \in Positions(buf) : pos < q => v[q] = w[q]
  PROVE  ReadItem(buf, pos, v) = ReadItem(buf, pos, w)
<1>1. SkipItem(buf, pos, v) = SkipItem(buf, pos, w)
  BY SkipItemLocal
<1>2. ReadItem(buf, pos, v) =
        IF pos \in Unreadable(buf) THEN 0 ELSE SkipItem(buf, pos, v)
  BY ReadItemAsSkip
<1>3. ReadItem(buf, pos, w) =
        IF pos \in Unreadable(buf) THEN 0 ELSE SkipItem(buf, pos, w)
  BY ReadItemAsSkip
<1> QED BY <1>1, <1>2, <1>3

\* ReadValues is what its recursion says.
LEMMA ReadValuesWalk ==
  ASSUME NEW buf \in Seq(Nat), Bytes(buf)
  PROVE  LET P == Positions(buf)
             w == ReadValues(buf)
         IN /\ w \in Walks(P)
            /\ \A p \in P, n \in Nat :
                 w[p][n] = IF p = 0 \/ n = 0 THEN p ELSE w[ReadItem(buf, p, w)][n - 1]
<1> DEFINE P == Positions(buf)
           M == Len(buf) + 1
           Walked(w) == [p \in P |-> [n \in Nat |-> IF p = 0 \/ n = 0 THEN p
                                                    ELSE w[ReadItem(buf, p, w)][n - 1]]]
           Item == [w \in Walks(P) |-> [p \in P |-> IF p = 0 THEN 0 ELSE ReadItem(buf, p, w)]]
<1>0. M \in Nat /\ P \in SUBSET Nat /\ 0 \in P /\ \A p \in P : p <= M
  BY PositionsType
<1> HIDE DEF P, M
<1>1. ASSUME NEW w \in Walks(P), NEW p \in P, p # 0
      PROVE  ReadItem(buf, p, w) \in P /\ (ReadItem(buf, p, w) = 0 \/ p < ReadItem(buf, p, w))
  <2>1. WalkedBehind(P, w, p)
    BY DEF Walks, WalkedBehind
  <2> QED BY <1>1, <2>1, ReadItemForward DEF P
<1>2. Item \in [Walks(P) -> [P -> P]]
  BY <1>0, <1>1
<1>3. \A w \in Walks(P), p \in P : Item[w][p] = 0 \/ p < Item[w][p]
  BY <1>1
<1>4. \A v, w \in Walks(P) : \A p \in P :
        p # 0 /\ (\A q \in P : p < q => v[q] = w[q]) => Item[v][p] = Item[w][p]
  <2> SUFFICES ASSUME NEW v \in Walks(P), NEW w \in Walks(P), NEW p \in P,
                      p # 0, \A q \in P : p < q => v[q] = w[q]
               PROVE  Item[v][p] = Item[w][p]
    OBVIOUS
  <2>1. ReadItem(buf, p, v) = ReadItem(buf, p, w)
    BY ReadItemLocal DEF P
  <2> QED BY <2>1
<1>5. PICK w \in Walks(P) :
        w = [p \in P |-> [n \in Nat |-> IF p = 0 \/ n = 0 THEN p ELSE w[Item[w][p]][n - 1]]]
  <2> HIDE DEF Item
  <2> QED BY <1>0, <1>2, <1>3, <1>4, WalkExists
<1>6. w = Walked(w)
  <2>1. \A p \in P : p # 0 => Item[w][p] = ReadItem(buf, p, w)
    OBVIOUS
  <2> HIDE DEF Item
  <2>2. \A p \in P : [n \in Nat |-> IF p = 0 \/ n = 0 THEN p ELSE w[Item[w][p]][n - 1]]
                   = [n \in Nat |-> IF p = 0 \/ n = 0 THEN p ELSE w[ReadItem(buf, p, w)][n - 1]]
    BY <2>1
  <2> QED BY <1>5, <2>2, Zenon
<1> DEFINE s == ReadValues(buf)
<1>7. s = CHOOSE f : f = Walked(f)
  BY DEF ReadValues, P
<1>8. s = Walked(s)
  BY <1>6, <1>7
<1> HIDE DEF s
<1>9. s \in Walks(P)
  <2> DEFINE item == [p \in P |-> ReadItem(buf, p, s)]
  <2>1. s = [p \in P |-> [n \in Nat |-> IF p = 0 \/ n = 0 THEN p ELSE s[item[p]][n - 1]]]
    BY <1>8
  <2>2. \A p \in P : p # 0 /\ WalkedBehind(P, s, p) => item[p] \in P /\ (item[p] = 0 \/ p < item[p])
    BY ReadItemForward DEF P
  <2> HIDE DEF item
  <2> QED BY <1>0, <2>1, <2>2, WalkForward
<1>10. ASSUME NEW p \in P, NEW n \in Nat
       PROVE  s[p][n] = IF p = 0 \/ n = 0 THEN p ELSE s[ReadItem(buf, p, s)][n - 1]
  <2>1. s[p] = [k \in Nat |-> IF p = 0 \/ k = 0 THEN p ELSE s[ReadItem(buf, p, s)][k - 1]]
    BY <1>8
  <2> QED BY <2>1, Zenon
<1> QED BY <1>9, <1>10 DEF P, s

\* What is read is what is skipped, if anything is.
AsSkipped(read, skipped) == read \in {0, skipped}

\* One item, once what is behind it is read as it is skipped.
LEMMA ItemAsSkipped ==
  ASSUME NEW buf \in Seq(Nat), Bytes(buf), NEW v, NEW w,
         NEW pos \in Positions(buf), pos # 0,
         \A q \in (pos + 1)..(Len(buf) + 1), n \in Nat :
           AsSkipped(v[q][n], w[q][n])
  PROVE  AsSkipped(ReadItem(buf, pos, v), SkipItem(buf, pos, w))
<1> DEFINE mt == MajorType(buf[pos])
           c == Content(buf, pos)
           n == Argument(buf, pos)
           read == ReadItem(buf, pos, v)
           skipped == SkipItem(buf, pos, w)
           skippedV == SkipItem(buf, pos, v)
<1>1. CASE pos > Len(buf)
  BY <1>1 DEF ReadItem, SkipItem, AsSkipped
<1>2. CASE ~(pos > Len(buf))
  <2>0. pos \in 1..Len(buf)
    BY <1>2, PositionsType
  <2>1. read = IF pos \in Unreadable(buf) THEN 0 ELSE skippedV
    BY ReadItemAsSkip
  <2>2. /\ mt = 7 => skipped = IF Additional(buf[pos]) \in 20..23 THEN pos + 1 ELSE 0
        /\ mt # 7 /\ ~HasHeader(buf, pos) => skipped = 0
        /\ HasHeader(buf, pos) /\ mt < 2 => skipped = c
        /\ HasHeader(buf, pos) /\ mt \in {2, 3} => skipped = SkipBytes(buf, c, n)
        /\ HasHeader(buf, pos) /\ mt = 4 => skipped = w[c][n]
        /\ HasHeader(buf, pos) /\ mt = 5 => skipped = w[c][2 * n]
    BY <2>0, SkipItemCases
  <2>3. /\ mt = 7 => skippedV = IF Additional(buf[pos]) \in 20..23 THEN pos + 1 ELSE 0
        /\ mt # 7 /\ ~HasHeader(buf, pos) => skippedV = 0
        /\ HasHeader(buf, pos) /\ mt < 2 => skippedV = c
        /\ HasHeader(buf, pos) /\ mt \in {2, 3} => skippedV = SkipBytes(buf, c, n)
        /\ HasHeader(buf, pos) /\ mt = 4 => skippedV = v[c][n]
        /\ HasHeader(buf, pos) /\ mt = 5 => skippedV = v[c][2 * n]
    BY <2>0, SkipItemCases
  <2>4. mt \in Nat /\ mt < 8 /\ (HasHeader(buf, pos) => mt < 6)
    BY <2>0, InitialByte DEF HasHeader
  <2>5. HasHeader(buf, pos) => c \in (pos + 1)..(Len(buf) + 1) /\ n \in Nat /\ 2 * n \in Nat
    BY <2>0, ContentType
  <2>7. CASE pos \in Unreadable(buf)
    <3>1. read = 0
      BY <2>1, <2>7
    <3> HIDE DEF read, skipped
    <3> QED BY <3>1 DEF AsSkipped, read, skipped
  <2>8. CASE pos \notin Unreadable(buf)
    <3>0. read = skippedV
      BY <2>1, <2>8
    <3> SUFFICES AsSkipped(skippedV, skipped)
      BY <3>0
    <3>1. CASE HasHeader(buf, pos) /\ mt \in {4, 5}
      <4>1. PICK m \in Nat : skipped = w[c][m] /\ skippedV = v[c][m]
        <5>1. CASE mt = 4
          BY <2>2, <2>3, <2>5, <3>1, <5>1
        <5>2. CASE mt = 5
          <6> DEFINE m == 2 * n
          <6>1. m \in Nat
            BY <2>5, <3>1
          <6>2. skipped = w[c][m] /\ skippedV = v[c][m]
            BY <2>2, <2>3, <3>1, <5>2
          <6> HIDE DEF m
          <6> QED BY <6>1, <6>2
        <5> QED BY <3>1, <5>1, <5>2
      <4> HIDE DEF c, skipped, skippedV
      <4> QED BY <2>5, <3>1, <4>1
    <3>2. CASE ~(HasHeader(buf, pos) /\ mt \in {4, 5})
      <4>1. skipped = skippedV
        <5> HIDE DEF mt, c, n, skipped, skippedV
        <5> QED BY <2>2, <2>3, <2>4, <3>2
      <4> QED BY <4>1 DEF AsSkipped
    <3> QED BY <3>1, <3>2
  <2> QED BY <2>7, <2>8
<1> QED BY <1>1, <1>2, PositionsType

\* The typed reads and SkipValue walk over the same items, as far as the
\* items can be read.
LEMMA ReadsAsSkipped ==
  ASSUME NEW buf \in Seq(Nat), Bytes(buf)
  PROVE  \A p \in 1..(Len(buf) + 1), n \in Nat :
           AsSkipped(ReadValues(buf)[p][n], SkipValues(buf)[p][n])
<1> DEFINE M == Len(buf) + 1
           v == ReadValues(buf)
           w == SkipValues(buf)
           S == {p \in 1..M : \A n \in Nat : AsSkipped(v[p][n], w[p][n])}
<1>0. M \in Nat /\ \A p \in 1..M : p \in Positions(buf) /\ p # 0
  BY PositionsType
<1>1. v \in Walks(Positions(buf)) /\ w \in Walks(Positions(buf))
  BY SkipValuesWalk, ReadValuesWalk
<1>2. \A p \in Positions(buf), n \in Nat :
        w[p][n] = IF p = 0 \/ n = 0 THEN p ELSE w[SkipItem(buf, p, w)][n - 1]
  BY SkipValuesWalk
<1>3. \A p \in Positions(buf), n \in Nat :
        v[p][n] = IF p = 0 \/ n = 0 THEN p ELSE v[ReadItem(buf, p, v)][n - 1]
  BY ReadValuesWalk
<1> HIDE DEF v, w
<1>5. ASSUME NEW p \in 1..M, \A q \in (p + 1)..M : q \in S PROVE p \in S
  <2> SUFFICES ASSUME NEW n \in Nat PROVE AsSkipped(v[p][n], w[p][n])
    OBVIOUS
  <2>0. p \in Positions(buf) /\ p # 0
    BY <1>0
  <2>1. CASE n = 0
    BY <1>2, <1>3, <2>0, <2>1 DEF AsSkipped
  <2>2. CASE n # 0
    <3> DEFINE x == ReadItem(buf, p, v)
               y == SkipItem(buf, p, w)
               m == n - 1
    <3>0. m \in Nat
      BY <2>2
    <3>1. WalkedBehind(Positions(buf), w, p)
      BY <1>1, WalkIsBehind
    <3>2. y \in Positions(buf) /\ (y = 0 \/ p < y)
      BY <2>0, <3>1, SkipItemForward
    <3>3. AsSkipped(x, y)
      <4>1. \A q \in (p + 1)..(Len(buf) + 1), k \in Nat :
              AsSkipped(v[q][k], w[q][k])
        BY <1>0, <1>5
      <4> QED BY <2>0, <4>1, ItemAsSkipped
    <3>4. w[p][n] = w[y][m] /\ v[p][n] = v[x][m]
      <4>1. ~(p = 0 \/ n = 0)
        BY <2>0, <2>2
      <4> QED BY <1>2, <1>3, <2>0, <4>1, Zenon
    <3> HIDE DEF x, y, m
    <3>5. v[0][m] = 0 /\ w[0][m] = 0
      BY <1>2, <1>3, <3>0, PositionsType
    <3>6. CASE x = 0
      BY <3>4, <3>5, <3>6 DEF AsSkipped
    <3>7. CASE x = y /\ p < y
      <4>1. y \in (p + 1)..M
        BY <1>0, <3>2, <3>7, PositionsType
      <4>2. AsSkipped(v[y][m], w[y][m])
        BY <1>5, <3>0, <4>1
      <4> QED BY <3>4, <3>7, <4>2
    <3> QED BY <3>2, <3>3, <3>6, <3>7 DEF AsSkipped
  <2> QED BY <2>1, <2>2
<1>6. 1..M \subseteq S
  <2> HIDE DEF S, M
  <2> QED BY <1>0, <1>5, BackwardInduction
<1> QED BY <1>6 DEF v, w

\* The typed reads pass over n items that can be read, and over nothing else.
LEMMA ReadsItems ==
  ASSUME NEW buf \in Seq(Nat), Bytes(buf)
  PROVE  \A p, j \in 1..(Len(buf) + 1), n \in Nat :
           <<j, n>> \in Items(buf, Unreadable(buf))[p] <=> ReadValues(buf)[p][n] = j
<1> DEFINE w == ReadValues(buf)
           refused == Unreadable(buf)
<1>1. /\ w \in Walks(Positions(buf))
      /\ \A p \in Positions(buf), n \in Nat :
           w[p][n] = IF p = 0 \/ n = 0 THEN p ELSE w[ReadItem(buf, p, w)][n - 1]
  BY ReadValuesWalk
<1> HIDE DEF w
<1>2. \A p \in Positions(buf) : p # 0 =>
        ReadItem(buf, p, w) = IF p \in refused THEN 0 ELSE SkipItem(buf, p, w)
  BY ReadItemAsSkip
<1> HIDE DEF refused
<1>3. \A p \in Positions(buf), n \in Nat :
        w[p][n] = IF p = 0 \/ n = 0 THEN p
                  ELSE w[IF p \in refused THEN 0 ELSE SkipItem(buf, p, w)][n - 1]
  <2> SUFFICES ASSUME NEW p \in Positions(buf), NEW n \in Nat
               PROVE  w[p][n] = IF p = 0 \/ n = 0 THEN p
                                ELSE w[IF p \in refused THEN 0 ELSE SkipItem(buf, p, w)][n - 1]
    BY Zenon
  <2> DEFINE x == ReadItem(buf, p, w)
             y == IF p \in refused THEN 0 ELSE SkipItem(buf, p, w)
  <2>1. w[p][n] = IF p = 0 \/ n = 0 THEN p ELSE w[x][n - 1]
    BY <1>1, Zenon
  <2>2. p # 0 => x = y
    BY <1>2, Zenon
  <2> HIDE DEF x, y
  <2>3. w[p][n] = IF p = 0 \/ n = 0 THEN p ELSE w[y][n - 1]
    BY <2>1, <2>2
  <2> QED BY <2>3, Zenon DEF y
<1>4. WalksOver(buf, refused, w)
  BY <1>1, <1>3, Zenon DEF WalksOver
<1>5. PassesItems(buf, refused, w)
  BY <1>4, WalksOverItems, Zenon
<1> QED BY <1>5, Zenon DEF w, refused, PassesItems

----------------------------------------------------------------------------
(* CborWriter's headers.                                                 *)

\* A number in two bytes, as WriteTypeAndValue divides it.
LEMMA TwoBytes ==
  ASSUME NEW n \in Nat
  PROVE  /\ n \div 256 \in Nat /\ n % 256 \in Nat /\ n % 256 < 256
         /\ n = 256 * (n \div 256) + (n % 256)
OBVIOUS

\* A number in four bytes, as WriteTypeAndValue divides it.
LEMMA FourBytes ==
  ASSUME NEW n \in Nat, n \div 65536 < 65536
  PROVE  LET a == n \div 16777216
             b == (n \div 65536) % 256
             c == (n \div 256) % 256
             d == n % 256
         IN /\ a \in Nat /\ b \in Nat /\ c \in Nat /\ d \in Nat
            /\ a < 256 /\ b < 256 /\ c < 256 /\ d < 256
            /\ n \div 65536 = 256 * a + b
            /\ n = 65536 * (256 * a + b) + (256 * c + d)
<1> DEFINE h == n \div 65536
           k == n \div 256
<1>1. k \in Nat /\ n % 256 \in Nat /\ n % 256 < 256 /\ n = 256 * k + (n % 256)
  BY TwoBytes
<1>2. h = k \div 256
  BY SMT
<1>3. n \div 16777216 = h \div 256
  BY SMT
<1> HIDE DEF h, k
<1>4. k \div 256 \in Nat /\ k % 256 \in Nat /\ k % 256 < 256 /\ k = 256 * (k \div 256) + (k % 256)
  BY <1>1, TwoBytes
<1>5. h \div 256 \in Nat /\ h % 256 \in Nat /\ h % 256 < 256 /\ h = 256 * (h \div 256) + (h % 256)
  <2>1. h \in Nat
    BY <1>2, <1>4
  <2> QED BY <2>1, TwoBytes
<1>6. h < 65536
  BY DEF h
<1> DEFINE a == h \div 256
<1>7. a \in Nat /\ h = 256 * a + (h % 256)
  BY <1>5
<1> HIDE DEF a
<1>8. a < 256
  BY <1>5, <1>6, <1>7, SMT
<1>9. n = 65536 * h + (256 * (k % 256) + (n % 256))
  BY <1>1, <1>2, <1>4, SMT
<1> QED BY <1>1, <1>2, <1>3, <1>4, <1>5, <1>7, <1>8, <1>9, SMT DEF a, h, k

\* CborReader reads the header CborWriter writes for (mt, n), whatever byte follows it.
ReadsAs(mt, n, tail) ==
  LET h == WriteTypeAndValue(mt, n)
  IN ReadInitialByte(Append(h, tail), 1) =
       [ok |-> TRUE, mt |-> mt, next |-> Len(h) + 1, arg |-> IF n < Huge THEN n ELSE Huge]

\* What WriteTypeAndValue writes is a header of the same type and argument.
LEMMA HeaderWritten ==
  ASSUME NEW mt \in 0..5, NEW n \in Nat, n \div 65536 < 65536, NEW tail \in Nat
  PROVE  ReadsAs(mt, n, tail)
<1> DEFINE h == WriteTypeAndValue(mt, n)
           buf == Append(h, tail)
           ai == Additional(buf[1])
           arg == IF n < Huge THEN n ELSE Huge
           Agreed == ReadInitialByte(buf, 1) = [ok |-> TRUE, mt |-> mt, next |-> Len(h) + 1, arg |-> arg]
<1> SUFFICES Agreed
  BY DEF ReadsAs
<1>0. ASSUME NEW x \in Nat, x < 32, buf[1] = 32 * mt + x
      PROVE  MajorType(buf[1]) = mt /\ ai = x
  <2> DEFINE b == 32 * mt + x
  <2>1. b \div 32 = mt /\ b % 32 = x
    BY <1>0
  <2> QED BY <1>0, <2>1 DEF MajorType, Additional
<1>1. ASSUME NEW size \in Nat, Len(h) = 1 + size, Len(buf) = 2 + size,
             NEW x \in Nat, x < 28, buf[1] = 32 * mt + x, ArgumentSize(x) = size,
             Argument(buf, 1) = arg
      PROVE  Agreed
  <2>1. MajorType(buf[1]) = mt /\ ai = x
    BY <1>0, <1>1
  <2> HIDE DEF h, buf, arg
  <2>2. ~(1 > Len(buf)) /\ 1 + 1 + ArgumentSize(ai) = Len(h) + 1 /\ ~(Len(h) + 1 > Len(buf) + 1)
    BY <1>1, <2>1
  <2>3. mt # 6 /\ mt # 7
    OBVIOUS
  <2>4. ai < 28
    BY <1>1, <2>1
  <2>5. ReadInitialByte(buf, 1) =
          IF MajorType(buf[1]) \in {6, 7} \/ ~Valid(ai) \/ 1 + 1 + ArgumentSize(ai) > Len(buf) + 1
          THEN NoHeader
          ELSE [ok |-> TRUE, mt |-> MajorType(buf[1]), next |-> 1 + 1 + ArgumentSize(ai),
                arg |-> Argument(buf, 1)]
    BY <2>2 DEF ReadInitialByte
  <2>6. ~(MajorType(buf[1]) \in {6, 7} \/ ~Valid(ai) \/ 1 + 1 + ArgumentSize(ai) > Len(buf) + 1)
    BY <2>1, <2>2, <2>3, <2>4 DEF Valid
  <2> HIDE DEF ai
  <2> QED BY <1>1, <2>1, <2>2, <2>5, <2>6
<1>2. CASE n <= 23
  <2>1. h = <<32 * mt + n>>
    BY <1>2 DEF WriteTypeAndValue
  <2>2. Len(h) = 1 /\ Len(buf) = 2 /\ buf[1] = 32 * mt + n
    BY <2>1
  <2>a. n < 32
    BY <1>2
  <2>3. Additional(buf[1]) = n
    BY <1>0, <2>a, <2>2
  <2>4. Argument(buf, 1) = n /\ arg = n
    BY <1>2, <2>3, SMT DEF Argument, Huge, arg
  <2>5. ArgumentSize(n) = 0
    BY <1>2 DEF ArgumentSize
  <2> HIDE DEF h, buf, Agreed, ai
  <2> QED BY <1>1, <1>2, <2>2, <2>4, <2>5
<1>3. CASE n > 23 /\ n <= 255
  <2>1. h = <<32 * mt + 24, n>>
    BY <1>3 DEF WriteTypeAndValue
  <2>2. Len(h) = 2 /\ Len(buf) = 3 /\ buf[1] = 32 * mt + 24 /\ buf[2] = n
    BY <2>1
  <2>3. Additional(buf[1]) = 24
    BY <1>0, <2>2
  <2>4. Argument(buf, 1) = n /\ arg = n
    BY <1>3, <2>2, <2>3, SMT DEF Argument, Huge, arg
  <2>5. ArgumentSize(24) = 1
    BY DEF ArgumentSize
  <2> HIDE DEF h, buf, Agreed, ai
  <2> QED BY <1>1, <2>2, <2>4, <2>5
<1>4. CASE n > 255 /\ n <= 65535
  <2>1. h = <<32 * mt + 25, n \div 256, n % 256>>
    BY <1>4, SMT DEF WriteTypeAndValue
  <2>2. /\ Len(h) = 3 /\ Len(buf) = 4 /\ buf[1] = 32 * mt + 25
        /\ buf[2] = n \div 256 /\ buf[3] = n % 256
    BY <2>1
  <2>3. Additional(buf[1]) = 25
    BY <1>0, <2>2
  <2>4. Argument(buf, 1) = n
    <3>1. Argument(buf, 1) = Two(buf, 2)
      BY <2>3 DEF Argument
    <3> HIDE DEF h, buf
    <3> QED BY <2>2, <3>1, TwoBytes DEF Two
  <2>5. arg = n
    BY <1>4, SMT DEF Huge, arg
  <2>6. ArgumentSize(25) = 2
    BY DEF ArgumentSize
  <2> HIDE DEF h, buf, Agreed, ai
  <2> QED BY <1>1, <2>2, <2>4, <2>5, <2>6
<1>5. CASE n > 65535
  <2> DEFINE a == n \div 16777216
             b == (n \div 65536) % 256
             c == (n \div 256) % 256
             d == n % 256
  <2>1. h = <<32 * mt + 26, a, b, c, d>>
    BY <1>5, SMT DEF WriteTypeAndValue
  <2>a. /\ a \in Nat /\ b \in Nat /\ c \in Nat /\ d \in Nat
        /\ a < 256 /\ b < 256 /\ c < 256 /\ d < 256
        /\ n = 65536 * (256 * a + b) + (256 * c + d)
    BY FourBytes
  <2> HIDE DEF a, b, c, d
  <2>2. /\ Len(h) = 5 /\ Len(buf) = 6 /\ buf[1] = 32 * mt + 26
        /\ buf[2] = a /\ buf[3] = b /\ buf[4] = c /\ buf[5] = d
    BY <2>1
  <2>3. Additional(buf[1]) = 26
    BY <1>0, <2>2
  <2>4. Argument(buf, 1) = Four(buf, 2)
    BY <2>3 DEF Argument
  <2>5. ArgumentSize(26) = 4
    BY DEF ArgumentSize
  <2> HIDE DEF h, buf
  <2>6. Two(buf, 2) = 256 * a + b /\ Two(buf, 4) = 256 * c + d
    BY <2>2 DEF Two
  <2>7. 256 * a + b < 8192 <=> n < Huge
    BY <2>a, SMT DEF Huge
  <2>8. Four(buf, 2) = arg
    BY <2>a, <2>6, <2>7, SMT DEF Four, arg
  <2> QED BY <1>1, <2>2, <2>4, <2>5, <2>8
<1>6. n <= 23 \/ (n > 23 /\ n <= 255) \/ (n > 255 /\ n <= 65535) \/ n > 65535
  BY SMT
<1> HIDE DEF Agreed
<1> QED BY <1>2, <1>3, <1>4, <1>5, <1>6

----------------------------------------------------------------------------
(* The order of map keys.                                                *)

\* The first byte that differs decides.
LEMMA BeforeByFirst ==
  ASSUME NEW a \in Seq(Nat), NEW b \in Seq(Nat), Len(a) > 0, Len(b) > 0, a[1] # b[1]
  PROVE  Before(a, b) <=> a[1] < b[1]
<1>1. ASSUME a[1] < b[1] PROVE Before(a, b)
  BY <1>1 DEF Before
<1>2. ASSUME Before(a, b) PROVE a[1] < b[1]
  <2>1. CASE \E i \in 1..Len(a) : i <= Len(b) /\ a[i] < b[i] /\ \A j \in 1..(i - 1) : a[j] = b[j]
    <3>1. PICK i \in 1..Len(a) : a[i] < b[i] /\ \A j \in 1..(i - 1) : a[j] = b[j]
      BY <2>1
    <3>2. i = 1
      BY <3>1
    <3> QED BY <3>1, <3>2
  <2>2. CASE \A j \in 1..Len(a) : a[j] = b[j]
    BY <2>2
  <2> QED BY <1>2, <2>1, <2>2 DEF Before
<1> QED BY <1>1, <1>2

\* Of sequences of one length, the one is before the other that is smaller where they
\* first differ.
LEMMA BeforeSameLength ==
  ASSUME NEW a \in Seq(Nat), NEW b \in Seq(Nat), Len(a) = Len(b)
  PROVE  Before(a, b) <=>
           \E i \in 1..Len(a) : a[i] < b[i] /\ \A j \in 1..(i - 1) : a[j] = b[j]
BY DEF Before

\* The first byte of a header and the bytes behind it, by the width of its argument.
Width(n) == IF n <= 23 THEN 1 ELSE IF n <= 255 THEN 2 ELSE IF n <= 65535 THEN 3 ELSE 5

Written(h, mt, n) ==
  /\ h \in Seq(Nat)
  /\ Width(n) = 1 => h = <<32 * mt + n>> /\ n < 24
  /\ Width(n) = 2 => h = <<32 * mt + 24, n>> /\ n > 23
  /\ Width(n) = 3 => h = <<32 * mt + 25, n \div 256, n % 256>>
  /\ Width(n) = 5 => h = <<32 * mt + 26, n \div 16777216, (n \div 65536) % 256,
                           (n \div 256) % 256, n % 256>>

\* WriteTypeAndValue writes the header of its width.
LEMMA HeaderBytes ==
  ASSUME NEW mt \in 0..1, NEW n \in Nat, n \div 65536 < 65536
  PROVE  Written(WriteTypeAndValue(mt, n), mt, n)
<1> DEFINE h == WriteTypeAndValue(mt, n)
<1>1. CASE n <= 23
  <2>1. h = <<32 * mt + n>> /\ Width(n) = 1
    BY <1>1 DEF WriteTypeAndValue, Width
  <2> QED BY <1>1, <2>1 DEF Written
<1>2. CASE ~(n <= 23) /\ n <= 255
  <2>1. h = <<32 * mt + 24, n>> /\ Width(n) = 2
    BY <1>2 DEF WriteTypeAndValue, Width
  <2> QED BY <1>2, <2>1 DEF Written
<1>3. CASE ~(n <= 23) /\ ~(n <= 255) /\ n <= 65535
  <2>1. h = <<32 * mt + 25, n \div 256, n % 256>> /\ Width(n) = 3
    BY <1>3, SMT DEF WriteTypeAndValue, Width
  <2> QED BY <2>1, TwoBytes DEF Written
<1>4. CASE ~(n <= 23) /\ ~(n <= 255) /\ ~(n <= 65535)
  <2>1. h = <<32 * mt + 26, n \div 16777216, (n \div 65536) % 256, (n \div 256) % 256, n % 256>>
        /\ Width(n) = 5
    BY <1>4, SMT DEF WriteTypeAndValue, Width
  <2> QED BY <2>1, FourBytes DEF Written
<1> DEFINE P == n <= 23
           Q == n <= 255
           R == n <= 65535
           G == Written(h, mt, n)
<1> HIDE DEF P, Q, R, G
<1>5. (P => G) /\ (~P /\ Q => G) /\ (~P /\ ~Q /\ R => G) /\ (~P /\ ~Q /\ ~R => G)
  BY <1>1, <1>2, <1>3, <1>4 DEF P, Q, R, G
<1> QED BY <1>5, SMT DEF G

\* The initial byte of a header.
LEMMA HeaderFirst ==
  ASSUME NEW mt \in 0..1, NEW n \in Nat, NEW h, Written(h, mt, n), Width(n) \in {1, 2, 3, 5}
  PROVE  /\ Len(h) > 0
         /\ Width(n) = 1 => h[1] = 32 * mt + n /\ n < 24
         /\ Width(n) = 2 => h[1] = 32 * mt + 24
         /\ Width(n) = 3 => h[1] = 32 * mt + 25
         /\ Width(n) = 5 => h[1] = 32 * mt + 26
<1>1. CASE Width(n) = 1
  <2>1. h = <<32 * mt + n>> /\ n < 24
    BY <1>1, SMT DEF Written
  <2> QED BY <1>1, <2>1
<1>2. CASE Width(n) = 2
  <2>1. h = <<32 * mt + 24, n>>
    BY <1>2, SMT DEF Written
  <2> QED BY <1>2, <2>1
<1>3. CASE Width(n) = 3
  <2>1. h = <<32 * mt + 25, n \div 256, n % 256>>
    BY <1>3, SMT DEF Written
  <2> QED BY <1>3, <2>1
<1>4. CASE Width(n) = 5
  <2> DEFINE a == n \div 16777216
             b == (n \div 65536) % 256
             c == (n \div 256) % 256
             d == n % 256
  <2>1. h = <<32 * mt + 26, a, b, c, d>>
    BY <1>4, SMT DEF Written
  <2> HIDE DEF a, b, c, d
  <2> QED BY <1>4, <2>1
<1> QED BY <1>1, <1>2, <1>3, <1>4

\* Keys are in the order of their type and value: positive before negative, small
\* before large.
LEMMA HeadersInOrder ==
  ASSUME NEW mt1 \in 0..1, NEW n1 \in Nat, n1 \div 65536 < 65536,
         NEW mt2 \in 0..1, NEW n2 \in Nat, n2 \div 65536 < 65536
  PROVE  Before(WriteTypeAndValue(mt1, n1), WriteTypeAndValue(mt2, n2))
           <=> (mt1 < mt2 \/ (mt1 = mt2 /\ n1 < n2))
<1> DEFINE a == WriteTypeAndValue(mt1, n1)
           b == WriteTypeAndValue(mt2, n2)
           Less == mt1 < mt2 \/ (mt1 = mt2 /\ n1 < n2)
<1>1. Written(a, mt1, n1) /\ a \in Seq(Nat)
  <2>1. Written(a, mt1, n1)
    BY HeaderBytes
  <2> QED BY <2>1, SMT DEF Written
<1>2. Written(b, mt2, n2) /\ b \in Seq(Nat)
  <2>1. Written(b, mt2, n2)
    BY HeaderBytes
  <2> QED BY <2>1, SMT DEF Written
<1>3. Width(n1) \in {1, 2, 3, 5} /\ Width(n2) \in {1, 2, 3, 5}
  BY DEF Width
<1>4. Width(n1) < Width(n2) => n1 < n2
  BY SMT DEF Width
<1>5. Width(n2) < Width(n1) => n2 < n1
  BY SMT DEF Width
<1> SUFFICES Before(a, b) <=> Less
  OBVIOUS
<1> HIDE DEF a, b, Less
<1>6. CASE mt1 # mt2 \/ Width(n1) # Width(n2)
  <2>1. /\ Len(a) > 0
        /\ Width(n1) = 1 => a[1] = 32 * mt1 + n1 /\ n1 < 24
        /\ Width(n1) = 2 => a[1] = 32 * mt1 + 24
        /\ Width(n1) = 3 => a[1] = 32 * mt1 + 25
        /\ Width(n1) = 5 => a[1] = 32 * mt1 + 26
    BY <1>1, <1>3, HeaderFirst
  <2>a. /\ Len(b) > 0
        /\ Width(n2) = 1 => b[1] = 32 * mt2 + n2 /\ n2 < 24
        /\ Width(n2) = 2 => b[1] = 32 * mt2 + 24
        /\ Width(n2) = 3 => b[1] = 32 * mt2 + 25
        /\ Width(n2) = 5 => b[1] = 32 * mt2 + 26
    BY <1>2, <1>3, HeaderFirst
  <2> DEFINE x == a[1]
             y == b[1]
             u == Width(n1)
             v == Width(n2)
  <2>2. x # y /\ (x < y <=> Less)
    <3> HIDE DEF x, y, u, v
    <3>1. /\ u = 1 => x = 32 * mt1 + n1 /\ n1 < 24
          /\ u = 2 => x = 32 * mt1 + 24
          /\ u = 3 => x = 32 * mt1 + 25
          /\ u = 5 => x = 32 * mt1 + 26
          /\ v = 1 => y = 32 * mt2 + n2 /\ n2 < 24
          /\ v = 2 => y = 32 * mt2 + 24
          /\ v = 3 => y = 32 * mt2 + 25
          /\ v = 5 => y = 32 * mt2 + 26
      BY <2>1, <2>a DEF x, y, u, v
    <3>2. u \in {1, 2, 3, 5} /\ v \in {1, 2, 3, 5} /\ (u < v => n1 < n2) /\ (v < u => n2 < n1)
      BY <1>3, <1>4, <1>5 DEF u, v
    <3>3. mt1 # mt2 \/ u # v
      BY <1>6 DEF u, v
    <3>4. CASE mt1 # mt2
      BY <3>1, <3>2, <3>4 DEF Less
    <3>5. CASE mt1 = mt2 /\ u < v
      BY <3>1, <3>2, <3>5 DEF Less
    <3>6. CASE mt1 = mt2 /\ v < u
      BY <3>1, <3>2, <3>6 DEF Less
    <3> QED BY <3>2, <3>3, <3>4, <3>5, <3>6
  <2> QED BY <1>1, <1>2, <2>1, <2>a, <2>2, BeforeByFirst
<1>7. CASE mt1 = mt2 /\ Width(n1) = Width(n2)
  <2>1. CASE Width(n1) = 1
    <3>1. a = <<32 * mt1 + n1>> /\ b = <<32 * mt1 + n2>>
      BY <1>1, <1>2, <1>7, <2>1 DEF Written
    <3>2. Before(a, b) <=> 32 * mt1 + n1 < 32 * mt1 + n2
      BY <3>1 DEF Before
    <3> QED BY <1>7, <3>2 DEF Less
  <2>2. CASE Width(n1) = 2
    <3>1. a = <<32 * mt1 + 24, n1>> /\ b = <<32 * mt1 + 24, n2>>
      BY <1>1, <1>2, <1>7, <2>2 DEF Written
    <3>2. Before(a, b) <=> n1 < n2
      BY <3>1 DEF Before
    <3> QED BY <1>7, <3>2 DEF Less
  <2>3. CASE Width(n1) = 3
    <3> DEFINE h1 == n1 \div 256
               l1 == n1 % 256
               h2 == n2 \div 256
               l2 == n2 % 256
    <3>1. a = <<32 * mt1 + 25, h1, l1>> /\ b = <<32 * mt1 + 25, h2, l2>>
      BY <1>1, <1>2, <1>7, <2>3 DEF Written
    <3>2. /\ h1 \in Nat /\ l1 \in Nat /\ l1 < 256 /\ n1 = 256 * h1 + l1
          /\ h2 \in Nat /\ l2 \in Nat /\ l2 < 256 /\ n2 = 256 * h2 + l2
      BY TwoBytes
    <3> HIDE DEF h1, l1, h2, l2
    <3>3. Before(a, b) <=> h1 < h2 \/ (h1 = h2 /\ l1 < l2)
      BY <3>1, <3>2 DEF Before
    <3> QED BY <1>7, <3>2, <3>3 DEF Less
  <2>4. CASE Width(n1) = 5
    <3> DEFINE p1 == n1 \div 16777216
               q1 == (n1 \div 65536) % 256
               r1 == (n1 \div 256) % 256
               s1 == n1 % 256
               p2 == n2 \div 16777216
               q2 == (n2 \div 65536) % 256
               r2 == (n2 \div 256) % 256
               s2 == n2 % 256
    <3>1. a = <<32 * mt1 + 26, p1, q1, r1, s1>> /\ b = <<32 * mt1 + 26, p2, q2, r2, s2>>
      BY <1>1, <1>2, <1>7, <2>4 DEF Written
    <3>2. /\ p1 \in Nat /\ q1 \in Nat /\ r1 \in Nat /\ s1 \in Nat
          /\ p1 < 256 /\ q1 < 256 /\ r1 < 256 /\ s1 < 256
          /\ n1 = 65536 * (256 * p1 + q1) + (256 * r1 + s1)
      BY FourBytes
    <3>3. /\ p2 \in Nat /\ q2 \in Nat /\ r2 \in Nat /\ s2 \in Nat
          /\ p2 < 256 /\ q2 < 256 /\ r2 < 256 /\ s2 < 256
          /\ n2 = 65536 * (256 * p2 + q2) + (256 * r2 + s2)
      BY FourBytes
    <3> HIDE DEF p1, q1, r1, s1, p2, q2, r2, s2
    <3>4. Before(a, b) <=> \/ p1 < p2
                           \/ p1 = p2 /\ q1 < q2
                           \/ p1 = p2 /\ q1 = q2 /\ r1 < r2
                           \/ p1 = p2 /\ q1 = q2 /\ r1 = r2 /\ s1 < s2
      BY <3>1, <3>2, <3>3 DEF Before
    <3> QED BY <1>7, <3>2, <3>3, <3>4, SMT DEF Less
  <2> QED BY <1>3, <2>1, <2>2, <2>3, <2>4
<1> QED BY <1>6, <1>7

----------------------------------------------------------------------------
(* EcdsaVerifier.                                                        *)

\* piece stands in der from pos on.
StandsAt(der, pos, piece) ==
  /\ pos + Len(piece) <= Len(der) + 1
  /\ \A i \in 1..Len(piece) : der[pos + i - 1] = piece[i]

\* The parts of a sequence stand where it stands.
LEMMA StandsAtParts ==
  ASSUME NEW der \in Seq(Nat), NEW pos \in Nat \ {0}, NEW a \in Seq(Nat), NEW b \in Seq(Nat),
         StandsAt(der, pos, a \o b)
  PROVE  StandsAt(der, pos, a) /\ StandsAt(der, pos + Len(a), b)
<1>1. Len(a \o b) = Len(a) + Len(b) /\ Len(a) \in Nat /\ Len(b) \in Nat
  OBVIOUS
<1>2. ASSUME NEW i \in 1..Len(a) PROVE der[pos + i - 1] = a[i]
  <2>1. (a \o b)[i] = a[i] /\ i \in 1..Len(a \o b)
    BY <1>1
  <2> QED BY <2>1 DEF StandsAt
<1>3. ASSUME NEW i \in 1..Len(b) PROVE der[pos + Len(a) + i - 1] = b[i]
  <2> DEFINE k == Len(a) + i
  <2>1. (a \o b)[k] = b[i] /\ k \in 1..Len(a \o b)
    BY <1>1
  <2>2. der[pos + k - 1] = (a \o b)[k]
    BY <2>1 DEF StandsAt
  <2>3. pos + k - 1 = pos + Len(a) + i - 1
    BY <1>1
  <2> QED BY <2>1, <2>2, <2>3
<1> QED BY <1>1, <1>2, <1>3 DEF StandsAt

\* What stands in der is what is copied out of it.
LEMMA SubSeqStanding ==
  ASSUME NEW der \in Seq(Nat), NEW pos \in Nat, pos > 0, NEW v \in Seq(Nat), StandsAt(der, pos, v)
  PROVE  SubSeq(der, pos, pos + Len(v) - 1) = v
<1> DEFINE n == pos + Len(v) - 1
           t == SubSeq(der, pos, n)
<1>0. Len(v) \in Nat /\ n \in Int /\ pos + Len(v) <= Len(der) + 1 /\ Len(der) \in Nat
  BY DEF StandsAt
<1>1. \A i \in pos..n : der[i] \in Nat
  <2> SUFFICES ASSUME NEW i \in pos..n PROVE der[i] \in Nat
    OBVIOUS
  <2>1. i \in 1..Len(der)
    BY <1>0
  <2> QED BY <2>1
<1>2. /\ t \in Seq(Nat)
      /\ Len(t) = IF pos <= n THEN n - pos + 1 ELSE 0
      /\ \A i \in 1..(n - pos + 1) : t[i] = der[pos + i - 1]
  <2> HIDE DEF n
  <2> QED BY <1>0, <1>1, SubSeqProperties
<1> HIDE DEF t
<1>3. Len(t) = Len(v)
  BY <1>0, <1>2
<1>4. ASSUME NEW i \in 1..Len(v) PROVE t[i] = v[i]
  <2>1. i \in 1..(n - pos + 1)
    BY <1>0
  <2>2. t[i] = der[pos + i - 1]
    BY <1>2, <2>1
  <2> HIDE DEF n
  <2> QED BY <2>2 DEF StandsAt
<1>5. t = v
  BY <1>2, <1>3, <1>4, SeqEqual
<1> QED BY <1>5 DEF t

\* A length in one to three bytes.
LEMMA LengthFormsType ==
  ASSUME NEW n \in Nat, NEW l \in LengthForms(n)
  PROVE  l \in Seq(Nat) /\ Len(l) \in 1..3
<1> DEFINE h == n \div 256
           k == n % 256
<1>1. h \in Nat /\ k \in Nat
  OBVIOUS
<1>2. l = <<130, h, k>> \/ l = <<129, n>> \/ l = <<n>>
  BY DEF LengthForms
<1> HIDE DEF h, k
<1>3. CASE l = <<130, h, k>>
  BY <1>1, <1>3
<1>4. CASE l = <<129, n>>
  BY <1>4
<1>5. CASE l = <<n>>
  BY <1>5
<1> QED BY <1>2, <1>3, <1>4, <1>5

\* WriteLength writes one of the forms of a length.
LEMMA LengthWritten ==
  ASSUME NEW n \in Nat
  PROVE  WriteLength(n) \in LengthForms(n)
BY DEF WriteLength, LengthForms

\* ReadDerLength takes every form of a length.
LEMMA LengthRead ==
  ASSUME NEW der \in Seq(Nat), NEW pos \in Nat \ {0}, NEW n \in Nat,
         NEW l \in LengthForms(n), StandsAt(der, pos, l)
  PROVE  ReadDerLength(der, pos) = [ok |-> TRUE, next |-> pos + Len(l), len |-> n]
<1>1. CASE l = <<130, n \div 256, n % 256>>
  <2> DEFINE h == n \div 256
             k == n % 256
  <2>1. h \in Nat /\ k \in Nat /\ n = 256 * h + k
    OBVIOUS
  <2>2. l = <<130, h, k>>
    BY <1>1
  <2> HIDE DEF h, k
  <2>3. Len(l) = 3 /\ l[1] = 130 /\ l[2] = h /\ l[3] = k
    BY <2>2
  <2>4. der[pos] = 130 /\ der[pos + 1] = h /\ der[pos + 2] = k /\ pos + 3 <= Len(der) + 1
    <3>1. der[pos + 1 - 1] = l[1] /\ der[pos + 2 - 1] = l[2] /\ der[pos + 3 - 1] = l[3]
      BY <2>3 DEF StandsAt
    <3> QED BY <2>3, <3>1 DEF StandsAt
  <2> QED BY <2>1, <2>3, <2>4 DEF ReadDerLength
<1>2. CASE l = <<129, n>> /\ n < 256
  <2>1. Len(l) = 2 /\ l[1] = 129 /\ l[2] = n
    BY <1>2
  <2>2. der[pos] = 129 /\ der[pos + 1] = n /\ pos + 2 <= Len(der) + 1
    <3>1. der[pos + 1 - 1] = l[1] /\ der[pos + 2 - 1] = l[2]
      BY <2>1 DEF StandsAt
    <3> QED BY <2>1, <3>1 DEF StandsAt
  <2>3. ReadDerLength(der, pos) = [ok |-> TRUE, next |-> pos + 1 + 1, len |-> der[pos + 1]]
    BY <2>2 DEF ReadDerLength
  <2> QED BY <2>1, <2>2, <2>3
<1>3. CASE l = <<n>> /\ n < 128
  <2>1. Len(l) = 1 /\ l[1] = n
    BY <1>3
  <2>2. der[pos] = n /\ pos + 1 <= Len(der) + 1
    <3>1. der[pos + 1 - 1] = l[1]
      BY <2>1 DEF StandsAt
    <3> QED BY <2>1, <3>1 DEF StandsAt
  <2> QED BY <1>3, <2>1, <2>2 DEF ReadDerLength
<1> QED BY <1>1, <1>2, <1>3 DEF LengthForms

\* ReadInteger takes an INTEGER's content, whatever the form of its length.
LEMMA IntegerRead ==
  ASSUME NEW der \in Seq(Nat), NEW pos \in Nat \ {0}, NEW v \in Seq(Nat), v # <<>>,
         NEW l \in LengthForms(Len(v)), StandsAt(der, pos, << 2 >> \o l \o v)
  PROVE  ReadInteger(der, pos)
           = [ok |-> TRUE, next |-> pos + 1 + Len(l) + Len(v), content |-> v]
<1>0. l \in Seq(Nat) /\ Len(l) \in 1..3 /\ Len(v) \in Nat /\ Len(v) > 0
  BY LengthFormsType
<1>1. StandsAt(der, pos, << 2 >> \o l) /\ StandsAt(der, pos + Len(<< 2 >> \o l), v)
  <2>1. << 2 >> \o l \in Seq(Nat)
    BY <1>0
  <2> QED BY <2>1, StandsAtParts
<1>2. StandsAt(der, pos, << 2 >>) /\ StandsAt(der, pos + 1, l)
  <2>1. << 2 >> \in Seq(Nat) /\ Len(<< 2 >>) = 1
    OBVIOUS
  <2> QED BY <1>0, <1>1, <2>1, StandsAtParts
<1>3. pos + Len(<< 2 >> \o l) = pos + 1 + Len(l)
  BY <1>0
<1> DEFINE next == pos + 1 + Len(l)
<1>4. next \in Nat /\ next > 0 /\ StandsAt(der, next, v)
  BY <1>0, <1>1, <1>3
<1>5. pos <= Len(der) /\ der[pos] = 2
  <2>1. der[pos + 1 - 1] = << 2 >>[1] /\ pos + 1 <= Len(der) + 1
    BY <1>2 DEF StandsAt
  <2> QED BY <2>1
<1>6. ReadDerLength(der, pos + 1) = [ok |-> TRUE, next |-> next, len |-> Len(v)]
  <2> DEFINE p == pos + 1
             n == Len(v)
  <2>1. p \in Nat \ {0} /\ n \in Nat /\ l \in LengthForms(n) /\ StandsAt(der, p, l)
    BY <1>0, <1>2
  <2> HIDE DEF p, n
  <2>2. ReadDerLength(der, p) = [ok |-> TRUE, next |-> p + Len(l), len |-> n]
    BY <2>1, LengthRead
  <2> QED BY <2>2 DEF p, n
<1> HIDE DEF next
<1>7. next + Len(v) <= Len(der) + 1
  BY <1>4 DEF StandsAt
<1>8. SubSeq(der, next, next + Len(v) - 1) = v
  BY <1>4, SubSeqStanding
<1> DEFINE m == ReadDerLength(der, pos + 1)
           taken == SubSeq(der, m.next, m.next + m.len - 1)
<1>9. ReadInteger(der, pos) =
        IF ~m.ok THEN No
        ELSE IF m.len = 0 \/ m.next + m.len > Len(der) + 1 THEN No
        ELSE [ok |-> TRUE, next |-> m.next + m.len, content |-> taken]
  BY <1>5 DEF ReadInteger
<1>10. m.ok /\ m.len = Len(v) /\ m.next = next
  BY <1>6
<1>11. taken = v
  BY <1>8, <1>10, Zenon
<1> HIDE DEF m, taken
<1>12. ~(m.len = 0) /\ ~(m.next + m.len > Len(der) + 1)
  <2>1. ~(Len(v) = 0) /\ ~(next + Len(v) > Len(der) + 1)
    BY <1>0, <1>4, <1>7
  <2> QED BY <1>10, <2>1, Zenon
<1>13. ReadInteger(der, pos) = [ok |-> TRUE, next |-> m.next + m.len, content |-> taken]
  BY <1>9, <1>10, <1>12, Zenon
<1>14. ReadInteger(der, pos) = [ok |-> TRUE, next |-> next + Len(v), content |-> v]
  BY <1>10, <1>11, <1>13, Zenon
<1> QED BY <1>14 DEF next

\* Trim leaves out the zeros in front, but for the last byte.
LEMMA Trimmed ==
  ASSUME NEW v \in Seq(Nat), v # <<>>
  PROVE  \E start \in 1..Len(v) :
           /\ Trim(v) \in Seq(Nat) /\ Len(Trim(v)) = Len(v) + 1 - start
           /\ \A i \in 1..(Len(v) + 1 - start) : Trim(v)[i] = v[start + i - 1]
           /\ start = Len(v) \/ v[start] # 0
           /\ \A j \in 1..(start - 1) : v[j] = 0
<1> DEFINE Start(i) == /\ i = Len(v) \/ v[i] # 0
                       /\ \A j \in 1..(i - 1) : v[j] = 0
           S == {i \in 1..Len(v) : i = Len(v) \/ v[i] # 0}
           start == CHOOSE i \in 1..Len(v) : Start(i)
<1>0. Len(v) \in Nat /\ Len(v) > 0
  OBVIOUS
<1>1. S \in SUBSET Nat /\ S # {}
  <2>1. Len(v) \in S
    BY <1>0
  <2> QED BY <2>1
<1>2. PICK i \in S : \A k \in S : i <= k
  <2> HIDE DEF S
  <2> QED BY <1>1, LeastMember
<1>3. i \in 1..Len(v) /\ Start(i)
  BY <1>0, <1>2
<1>4. start \in 1..Len(v) /\ Start(start)
  <2> HIDE DEF Start
  <2> QED BY <1>3, Zenon
<1>5. Trim(v) = SubSeq(v, start, Len(v))
  BY DEF Trim
<1> HIDE DEF start
<1>6. /\ Trim(v) \in Seq(Nat) /\ Len(Trim(v)) = Len(v) + 1 - start
      /\ \A k \in 1..(Len(v) + 1 - start) : Trim(v)[k] = v[start + k - 1]
  <2> DEFINE n == Len(v)
             t == SubSeq(v, start, n)
  <2>1. start \in Int /\ n \in Int /\ start <= n /\ \A k \in start..n : v[k] \in Nat
    BY <1>0, <1>4
  <2>2. /\ t \in Seq(Nat)
        /\ Len(t) = IF start <= n THEN n - start + 1 ELSE 0
        /\ \A k \in 1..(n - start + 1) : t[k] = v[start + k - 1]
    <3> HIDE DEF n
    <3> QED BY <2>1, SubSeqProperties
  <2>3. n - start + 1 = n + 1 - start
    BY <2>1
  <2> HIDE DEF n, t
  <2>4. t \in Seq(Nat) /\ Len(t) = n + 1 - start /\ \A k \in 1..(n + 1 - start) : t[k] = v[start + k - 1]
    BY <2>1, <2>2, <2>3
  <2> QED BY <1>5, <2>4, Zenon DEF n, t
<1> QED BY <1>4, <1>6

\* TryFitCoord keeps the number, or says that it is too large.
LEMMA CoordFits ==
  ASSUME NEW v \in Seq(Nat), v # <<>>, CoordSize \in Nat \ {0}
  PROVE  FitCoord(v) = IF Fits(v) THEN [ok |-> TRUE, coord |-> AsCoord(v)] ELSE No
<1> DEFINE t == Trim(v)
<1>0. Len(v) \in Nat /\ Len(v) > 0
  OBVIOUS
<1>1. PICK start \in 1..Len(v) :
        /\ t \in Seq(Nat) /\ Len(t) = Len(v) + 1 - start
        /\ \A i \in 1..(Len(v) + 1 - start) : t[i] = v[start + i - 1]
        /\ start = Len(v) \/ v[start] # 0
        /\ \A j \in 1..(start - 1) : v[j] = 0
  BY Trimmed
<1>2. FitCoord(v) = IF Len(t) > CoordSize THEN No
                    ELSE [ok |-> TRUE, coord |-> Zeros(CoordSize - Len(t)) \o t]
  BY DEF FitCoord
<1> HIDE DEF t
<1>3. CASE Len(t) > CoordSize
  <2>1. start <= Len(v) - CoordSize /\ v[start] # 0
    BY <1>0, <1>1, <1>3
  <2>2. ~Fits(v)
    BY <2>1 DEF Fits
  <2> QED BY <1>2, <1>3, <2>2
<1>4. CASE ~(Len(t) > CoordSize)
  <2>1. Fits(v)
    <3> SUFFICES ASSUME NEW i \in 1..Len(v), i <= Len(v) - CoordSize PROVE v[i] = 0
      BY DEF Fits
    <3>1. i \in 1..(start - 1)
      BY <1>0, <1>1, <1>4
    <3> QED BY <1>1, <3>1
  <2> DEFINE k == CoordSize - Len(t)
             z == Zeros(k)
             c == AsCoord(v)
  <2>2. k \in Nat /\ Len(t) \in Nat /\ k + Len(t) = CoordSize
    BY <1>0, <1>1, <1>4
  <2> HIDE DEF k
  <2>3. z \in Seq(Nat) /\ Len(z) = k /\ \A i \in 1..k : z[i] = 0
    BY <2>2 DEF Zeros
  <2>4. ASSUME NEW i \in 1..CoordSize PROVE i + Len(v) > CoordSize => i + Len(v) - CoordSize \in 1..Len(v)
    BY <1>0
  <2>5. c \in Seq(Nat) /\ Len(c) = CoordSize
    BY <2>4 DEF AsCoord
  <2> HIDE DEF z, c
  <2>6. /\ z \o t \in Seq(Nat) /\ Len(z \o t) = CoordSize
        /\ \A i \in 1..CoordSize : (z \o t)[i] = IF i <= k THEN z[i] ELSE t[i - k]
    <3>1. t \in Seq(Nat)
      BY <1>1
    <3>2. /\ z \o t \in Seq(Nat) /\ Len(z \o t) = Len(z) + Len(t)
          /\ \A i \in 1..(Len(z) + Len(t)) :
               (z \o t)[i] = IF i <= Len(z) THEN z[i] ELSE t[i - Len(z)]
      BY <2>3, <3>1, ConcatProperties
    <3> QED BY <2>2, <2>3, <3>2
  <2>7. ASSUME NEW i \in 1..CoordSize PROVE (z \o t)[i] = c[i]
    <3>1. c[i] = IF i + Len(v) > CoordSize THEN v[i + Len(v) - CoordSize] ELSE 0
      BY DEF AsCoord, c
    <3>2. CASE i <= k
      <4>1. (z \o t)[i] = 0
        BY <2>2, <2>3, <2>6, <3>2
      <4>2. i + Len(v) > CoordSize => i + Len(v) - CoordSize \in 1..(start - 1)
        BY <1>0, <1>1, <2>2, <3>2
      <4> QED BY <1>1, <3>1, <4>1, <4>2
    <3>3. CASE ~(i <= k)
      <4> DEFINE m == i - k
      <4>1. m \in 1..(Len(v) + 1 - start)
        BY <1>1, <2>2, <3>3
      <4>2. (z \o t)[i] = t[m] /\ t[m] = v[start + m - 1]
        BY <1>1, <2>6, <3>3, <4>1
      <4>3. start + m - 1 = i + Len(v) - CoordSize /\ i + Len(v) > CoordSize
        <5> DEFINE nt == Len(t)
                   nv == Len(v)
        <5>1. nt = nv + 1 - start /\ nt \in Nat /\ nv \in Nat /\ k \in Nat /\ k + nt = CoordSize
          BY <1>0, <1>1, <2>2
        <5>2. i \in Nat /\ start \in Nat /\ start > 0 /\ CoordSize \in Nat /\ i > k
          BY <2>2, <3>3
        <5> HIDE DEF nt, nv
        <5>3. start + (i - k) - 1 = i + nv - CoordSize /\ i + nv > CoordSize
          BY <5>1, <5>2
        <5> QED BY <5>3 DEF nv
      <4> QED BY <3>1, <4>2, <4>3
    <3> QED BY <3>2, <3>3
  <2> HIDE DEF c
  <2>8. z \o t = c
    BY <2>5, <2>6, <2>7, SeqEqual
  <2>9. FitCoord(v) = [ok |-> TRUE, coord |-> z \o t]
    BY <1>2, <1>4 DEF z, k
  <2> QED BY <2>1, <2>8, <2>9 DEF c
<1> QED BY <1>3, <1>4

\* The bytes of an INTEGER.
LEMMA IntegerType ==
  ASSUME NEW v \in Seq(Nat), NEW l \in LengthForms(Len(v))
  PROVE  Integer(l, v) \in Seq(Nat) /\ Len(Integer(l, v)) = 1 + Len(l) + Len(v)
<1>1. l \in Seq(Nat) /\ Len(v) \in Nat
  BY LengthFormsType
<1>2. << 2 >> \o l \in Seq(Nat) /\ Len(<< 2 >> \o l) = 1 + Len(l)
  BY <1>1
<1> QED BY <1>1, <1>2, ConcatProperties DEF Integer

\* The header of a SEQUENCE, with n bytes behind it.
LEMMA SequenceRead ==
  ASSUME NEW der \in Seq(Nat), NEW n \in Nat, NEW l \in LengthForms(n),
         StandsAt(der, 1, << 48 >> \o l)
  PROVE  der[1] = 48 /\ ReadDerLength(der, 2) = [ok |-> TRUE, next |-> 2 + Len(l), len |-> n]
<1>0. l \in Seq(Nat) /\ << 48 >> \in Seq(Nat) /\ Len(<< 48 >>) = 1
  BY LengthFormsType
<1>1. StandsAt(der, 1, << 48 >>) /\ StandsAt(der, 1 + 1, l)
  <2>1. StandsAt(der, 1, << 48 >>) /\ StandsAt(der, 1 + Len(<< 48 >>), l)
    <3> DEFINE h == << 48 >>
    <3>1. h \in Seq(Nat) /\ StandsAt(der, 1, h \o l) /\ 1 \in Nat \ {0}
      BY <1>0
    <3> HIDE DEF h
    <3>2. StandsAt(der, 1, h) /\ StandsAt(der, 1 + Len(h), l)
      BY <1>0, <3>1, StandsAtParts
    <3> QED BY <3>2 DEF h
  <2> QED BY <1>0, <2>1
<1>2. der[1] = 48
  <2>1. der[1 + 1 - 1] = << 48 >>[1]
    BY <1>1 DEF StandsAt
  <2> QED BY <2>1
<1>3. ReadDerLength(der, 2) = [ok |-> TRUE, next |-> 2 + Len(l), len |-> n]
  <2>1. StandsAt(der, 2, l)
    BY <1>1
  <2> QED BY <2>1, LengthRead
<1> QED BY <1>2, <1>3

\* What does not end where its SEQUENCE ends is refused.
LEMMA TailRefused ==
  ASSUME NEW der \in Seq(Nat), NEW n \in Nat, NEW l \in LengthForms(n),
         StandsAt(der, 1, << 48 >> \o l), 1 + Len(l) + n # Len(der)
  PROVE  TryDerToP1363(der) = No
<1> DEFINE seq == ReadDerLength(der, 2)
           r == IF seq.ok THEN ReadInteger(der, seq.next) ELSE No
           s == IF r.ok THEN ReadInteger(der, r.next) ELSE No
<1>1. seq.next = 2 + Len(l) /\ seq.len = n
  BY SequenceRead
<1>2. seq.next + seq.len # Len(der) + 1
  <2>1. Len(l) \in Nat /\ Len(der) \in Nat
    BY LengthFormsType
  <2> QED BY <1>1, <2>1
<1>3. TryDerToP1363(der) =
        IF Len(der) < 8 \/ der[1] # 48 THEN No
        ELSE IF ~s.ok THEN No
        ELSE IF seq.next + seq.len # Len(der) + 1 \/ s.next # Len(der) + 1 THEN No
        ELSE Both(FitCoord(r.content), FitCoord(s.content))
  BY Zenon DEF TryDerToP1363
<1> HIDE DEF seq, r, s
<1> QED BY <1>2, <1>3, Zenon

\* der is a signature of the numbers r and s, with these lengths.
IsSignature(der, r, s, lr, ls, l) ==
  /\ r \in Seq(Nat) /\ r # <<>> /\ lr \in LengthForms(Len(r))
  /\ s \in Seq(Nat) /\ s # <<>> /\ ls \in LengthForms(Len(s))
  /\ l \in LengthForms(Len(Integer(lr, r) \o Integer(ls, s)))
  /\ der = << 48 >> \o l \o (Integer(lr, r) \o Integer(ls, s))

\* Where its parts are.
LEMMA SignatureLayout ==
  ASSUME NEW der, NEW r, NEW s, NEW lr, NEW ls, NEW l, IsSignature(der, r, s, lr, ls, l)
  PROVE  LET p == 2 + Len(l)
             q == p + 1 + Len(lr) + Len(r)
             e == q + 1 + Len(ls) + Len(s)
             n == e - p
         IN /\ der \in Seq(Nat) /\ Len(der) >= 8
            /\ Len(l) \in 1..3 /\ n \in Nat /\ l \in LengthForms(n)
            /\ p \in Nat /\ p > 0 /\ q \in Nat /\ q > 0 /\ e \in Nat /\ e = Len(der) + 1
            /\ StandsAt(der, 1, << 48 >> \o l)
            /\ StandsAt(der, p, Integer(lr, r)) /\ StandsAt(der, q, Integer(ls, s))
            /\ Len(lr) \in 1..3 /\ Len(ls) \in 1..3
<1> USE DEF IsSignature
<1> DEFINE a == Integer(lr, r)
           b == Integer(ls, s)
           c == a \o b
           head == << 48 >> \o l
           na == Len(a)
           nb == Len(b)
           nc == Len(c)
           nlr == Len(lr)
           nls == Len(ls)
           nl == Len(l)
           nr == Len(r)
           ns == Len(s)
           nd == Len(der)
<1>1. a \in Seq(Nat) /\ na = 1 + nlr + nr /\ b \in Seq(Nat) /\ nb = 1 + nls + ns
  BY IntegerType
<1>2. nr \in Nat /\ nr > 0 /\ ns \in Nat /\ ns > 0
  OBVIOUS
<1>3. nlr \in 1..3 /\ nls \in 1..3
  BY <1>2, LengthFormsType
<1>4. c \in Seq(Nat) /\ nc = na + nb /\ nc \in Nat
  <2> HIDE DEF a, b, IsSignature
  <2> QED BY <1>1, ConcatProperties, LenProperties
<1>5. l \in LengthForms(nc) /\ der = head \o c
  OBVIOUS
<1> HIDE DEF IsSignature, a, b, c, nc
<1>6. l \in Seq(Nat) /\ nl \in 1..3
  BY <1>4, <1>5, LengthFormsType
<1>7. head \in Seq(Nat) /\ Len(head) = 1 + nl
  BY <1>6
<1> HIDE DEF head
<1>8. der \in Seq(Nat) /\ nd = 1 + nl + nc
  <2>1. der \in Seq(Nat) /\ nd = Len(head) + Len(c)
    BY <1>4, <1>5, <1>7, ConcatProperties
  <2> QED BY <1>7, <2>1 DEF nc
<1>9. StandsAt(der, 1, head \o c)
  <2>1. \A i \in 1..Len(head \o c) : der[1 + i - 1] = (head \o c)[i]
    BY <1>5, <1>8
  <2>2. 1 + Len(head \o c) <= Len(der) + 1
    BY <1>5, <1>8
  <2> QED BY <2>1, <2>2 DEF StandsAt
<1>10. StandsAt(der, 1, head) /\ StandsAt(der, 1 + Len(head), c)
  BY <1>4, <1>7, <1>8, <1>9, StandsAtParts
<1> DEFINE p == 2 + nl
           q == p + 1 + nlr + nr
           e == q + 1 + nls + ns
           n == e - p
<1> HIDE DEF na, nb, nlr, nls, nl, nr, ns, nd
<1>11. 1 + (1 + nl) = p /\ p + na = q
  BY <1>1, <1>2, <1>3, <1>6
<1>12. /\ p \in Nat /\ p > 0 /\ q \in Nat /\ q > 0 /\ e \in Nat /\ e = nd + 1
       /\ n \in Nat /\ n = nc /\ nd >= 8
  BY <1>1, <1>2, <1>3, <1>4, <1>6, <1>8
<1> HIDE DEF p, q, e, n
<1>13. StandsAt(der, p, a \o b)
  BY <1>7, <1>10, <1>11 DEF c
<1>14. StandsAt(der, p, a) /\ StandsAt(der, q, b)
  <2>1. StandsAt(der, p, a) /\ StandsAt(der, p + Len(a), b)
    BY <1>1, <1>8, <1>12, <1>13, StandsAtParts
  <2> QED BY <1>11, <2>1 DEF na
<1> HIDE DEF StandsAt
<1> QED BY <1>3, <1>5, <1>6, <1>8, <1>10, <1>12, <1>14, Zenon
        DEF p, q, e, n, nlr, nls, nl, nr, ns, nd, head, a, b

\* Behind a signature's header are as many bytes as its length says.
LEMMA SignatureHead ==
  ASSUME NEW der, NEW r, NEW s, NEW lr, NEW ls, NEW l, IsSignature(der, r, s, lr, ls, l)
  PROVE  \E n \in Nat : /\ der \in Seq(Nat) /\ l \in LengthForms(n) /\ StandsAt(der, 1, << 48 >> \o l)
                       /\ << 48 >> \o l \in Seq(Nat) /\ Len(<< 48 >> \o l) < Len(der)
                       /\ Len(der) = 1 + Len(l) + n
<1> DEFINE p == 2 + Len(l)
           q == p + 1 + Len(lr) + Len(r)
           e == q + 1 + Len(ls) + Len(s)
           n == e - p
           head == << 48 >> \o l
           nd == Len(der)
           nl == Len(l)
<1>1. /\ der \in Seq(Nat) /\ nd >= 8
      /\ nl \in 1..3 /\ n \in Nat /\ l \in LengthForms(n)
      /\ p \in Nat /\ e \in Nat /\ e = nd + 1
      /\ StandsAt(der, 1, head)
  BY SignatureLayout
<1>2. nd \in Nat /\ p = 2 + nl
  BY <1>1
<1>3. nd = 1 + nl + n
  <2>1. n = e - p
    OBVIOUS
  <2> HIDE DEF n, e, p, nd, nl
  <2> QED BY <1>1, <1>2, <2>1
<1>4. head \in Seq(Nat) /\ Len(head) = 1 + nl
  <2> HIDE DEF n
  <2>1. l \in Seq(Nat)
    BY <1>1, LengthFormsType
  <2> QED BY <2>1
<1> HIDE DEF n, e, p
<1>5. Len(head) < nd
  <2> HIDE DEF nd, nl, head
  <2> QED BY <1>1, <1>2, <1>4
<1> QED BY <1>1, <1>3, <1>4, <1>5

\* A whole signature is read number by number.
LEMMA WholeRead ==
  ASSUME NEW der, NEW r, NEW s, NEW lr, NEW ls, NEW l, IsSignature(der, r, s, lr, ls, l)
  PROVE  LET first == ReadInteger(der, ReadDerLength(der, 2).next)
             second == ReadInteger(der, first.next)
         IN /\ first.content = r /\ second.content = s
            /\ TryDerToP1363(der) = Both(FitCoord(r), FitCoord(s))
<1> DEFINE seq == ReadDerLength(der, 2)
           first == ReadInteger(der, seq.next)
           second == ReadInteger(der, first.next)
           p == 2 + Len(l)
           q == p + 1 + Len(lr) + Len(r)
           e == q + 1 + Len(ls) + Len(s)
           n == e - p
           a == Integer(lr, r)
           b == Integer(ls, s)
<1>1. /\ der \in Seq(Nat) /\ Len(der) >= 8
      /\ Len(l) \in 1..3 /\ n \in Nat /\ l \in LengthForms(n)
      /\ p \in Nat /\ p > 0 /\ q \in Nat /\ q > 0 /\ e \in Nat /\ e = Len(der) + 1
      /\ StandsAt(der, 1, << 48 >> \o l)
      /\ StandsAt(der, p, a) /\ StandsAt(der, q, b)
      /\ Len(lr) \in 1..3 /\ Len(ls) \in 1..3
  BY SignatureLayout
<1>2. /\ r \in Seq(Nat) /\ r # <<>> /\ lr \in LengthForms(Len(r))
      /\ s \in Seq(Nat) /\ s # <<>> /\ ls \in LengthForms(Len(s))
  BY DEF IsSignature
<1>10. der[1] = 48 /\ seq = [ok |-> TRUE, next |-> p, len |-> n]
  <2> HIDE DEF n
  <2> QED BY <1>1, SequenceRead
<1>13. ReadInteger(der, p) = [ok |-> TRUE, next |-> q, content |-> r]
  <2>1. StandsAt(der, p, << 2 >> \o lr \o r)
    BY <1>1 DEF Integer
  <2> HIDE DEF p
  <2>2. ReadInteger(der, p) = [ok |-> TRUE, next |-> p + 1 + Len(lr) + Len(r), content |-> r]
    BY <1>1, <1>2, <2>1, IntegerRead
  <2> QED BY <2>2
<1>14. ReadInteger(der, q) = [ok |-> TRUE, next |-> e, content |-> s]
  <2>1. StandsAt(der, q, << 2 >> \o ls \o s)
    BY <1>1 DEF Integer
  <2> HIDE DEF q
  <2>2. ReadInteger(der, q) = [ok |-> TRUE, next |-> q + 1 + Len(ls) + Len(s), content |-> s]
    BY <1>1, <1>2, <2>1, IntegerRead
  <2> QED BY <2>2
<1>15. seq.ok /\ seq.next = p /\ seq.len = n
  BY <1>10
<1>a. p + n = e /\ e = Len(der) + 1
  BY <1>1
<1> HIDE DEF p, q, e, n, a, b
<1>16. first = [ok |-> TRUE, next |-> q, content |-> r]
  <2> HIDE DEF seq
  <2> QED BY <1>13, <1>15, Zenon
<1>17. first.ok /\ first.next = q /\ first.content = r
  BY <1>16
<1>18. second = [ok |-> TRUE, next |-> e, content |-> s]
  <2> HIDE DEF first
  <2> QED BY <1>14, <1>17, Zenon
<1>19. second.ok /\ second.next = e /\ second.content = s
  BY <1>18
<1>20. ~(Len(der) < 8 \/ der[1] # 48)
  BY <1>1, <1>10
<1> DEFINE r0 == IF seq.ok THEN ReadInteger(der, seq.next) ELSE No
           s0 == IF r0.ok THEN ReadInteger(der, r0.next) ELSE No
<1>21. TryDerToP1363(der) =
         IF Len(der) < 8 \/ der[1] # 48 THEN No
         ELSE IF ~s0.ok THEN No
         ELSE IF seq.next + seq.len # Len(der) + 1 \/ s0.next # Len(der) + 1 THEN No
         ELSE Both(FitCoord(r0.content), FitCoord(s0.content))
  BY Zenon DEF TryDerToP1363
<1>22. r0 = first /\ s0 = second
  <2>1. r0 = first
    BY <1>15, Zenon
  <2> HIDE DEF r0
  <2> QED BY <1>17, <2>1, Zenon
<1>23. ~(seq.next + seq.len # Len(der) + 1 \/ second.next # Len(der) + 1)
  BY <1>a, <1>15, <1>19
<1> HIDE DEF r0, s0, seq, first, second
<1>24. TryDerToP1363(der) = Both(FitCoord(r), FitCoord(s))
  BY <1>17, <1>19, <1>20, <1>21, <1>22, <1>23, Zenon
<1> QED BY <1>17, <1>19, <1>24, Zenon DEF seq, first, second

\* The forms of a signature are what IsSignature says.
LEMMA DerFormsAreSignatures ==
  ASSUME NEW r \in Seq(Nat), r # <<>>, NEW s \in Seq(Nat), s # <<>>, NEW der
  PROVE  der \in DerForms(r, s) <=> \E lr, ls, l : IsSignature(der, r, s, lr, ls, l)
<1> DEFINE R == {Integer(l, r) : l \in LengthForms(Len(r))}
           S == {Integer(l, s) : l \in LengthForms(Len(s))}
           bodies == {a \o b : a \in R, b \in S}
<1>1. DerForms(r, s) = UNION {{Sequence(l, c) : l \in LengthForms(Len(c))} : c \in bodies}
  BY SMT DEF DerForms
<1>2. \A a : a \in R <=> \E l \in LengthForms(Len(r)) : a = Integer(l, r)
  BY SMT
<1>3. \A b : b \in S <=> \E l \in LengthForms(Len(s)) : b = Integer(l, s)
  BY SMT
<1> HIDE DEF R, S
<1>4. \A c : c \in bodies <=> \E a \in R, b \in S : c = a \o b
  BY SMT
<1> HIDE DEF bodies
<1>5. der \in DerForms(r, s) <=> \E c \in bodies : \E l \in LengthForms(Len(c)) : der = Sequence(l, c)
  BY <1>1, SMT
<1>6. der \in DerForms(r, s) <=>
        \E lr \in LengthForms(Len(r)), ls \in LengthForms(Len(s)) :
          \E l \in LengthForms(Len(Integer(lr, r) \o Integer(ls, s))) :
            der = Sequence(l, Integer(lr, r) \o Integer(ls, s))
  <2>1. ASSUME der \in DerForms(r, s)
        PROVE  \E lr \in LengthForms(Len(r)), ls \in LengthForms(Len(s)) :
                 \E l \in LengthForms(Len(Integer(lr, r) \o Integer(ls, s))) :
                   der = Sequence(l, Integer(lr, r) \o Integer(ls, s))
    <3>1. PICK c \in bodies : \E l \in LengthForms(Len(c)) : der = Sequence(l, c)
      BY <1>5, <2>1
    <3>2. PICK a \in R, b \in S : c = a \o b
      BY <1>4
    <3>3. PICK lr \in LengthForms(Len(r)) : a = Integer(lr, r)
      BY <1>2
    <3>4. PICK ls \in LengthForms(Len(s)) : b = Integer(ls, s)
      BY <1>3
    <3> QED BY <3>1, <3>2, <3>3, <3>4, Zenon
  <2>2. ASSUME NEW lr \in LengthForms(Len(r)), NEW ls \in LengthForms(Len(s)),
               NEW l \in LengthForms(Len(Integer(lr, r) \o Integer(ls, s))),
               der = Sequence(l, Integer(lr, r) \o Integer(ls, s))
        PROVE  der \in DerForms(r, s)
    <3>1. Integer(lr, r) \in R /\ Integer(ls, s) \in S
      BY <1>2, <1>3, Zenon
    <3>2. Integer(lr, r) \o Integer(ls, s) \in bodies
      BY <1>4, <3>1, Zenon
    <3> QED BY <1>5, <2>2, <3>2, Zenon
  <2> QED BY <2>1, <2>2, Zenon
<1> QED BY <1>6, Zenon DEF IsSignature, Sequence

\* What is cut off or goes on still begins in the same way.
LEMMA DamagedBegin ==
  ASSUME NEW d \in Seq(Nat), NEW head \in Seq(Nat), StandsAt(d, 1, head), Len(head) < Len(d),
         NEW x \in Damaged(d)
  PROVE  \/ x.whole /\ x.der = d
         \/ ~x.whole /\ x.der \in Seq(Nat) /\ StandsAt(x.der, 1, head) /\ Len(x.der) # Len(d)
<1> DEFINE n == Len(d)
           m == Len(head)
           k == n - 1
           cut == SubSeq(d, 1, k)
           longer == Append(d, 0)
<1>1. n \in Nat /\ m \in Nat /\ m < n /\ k \in Nat /\ m <= k
  OBVIOUS
<1>2. \A i \in 1..m : d[i] = head[i]
  <2> SUFFICES ASSUME NEW i \in 1..m PROVE d[i] = head[i]
    OBVIOUS
  <2>1. d[1 + i - 1] = head[i]
    BY DEF StandsAt
  <2> QED BY <2>1
<1>3. ASSUME NEW y \in Seq(Nat), Len(y) >= m, \A i \in 1..m : y[i] = d[i]
      PROVE  StandsAt(y, 1, head)
  <2>1. ASSUME NEW i \in 1..m PROVE y[1 + i - 1] = head[i]
    <3>1. 1 + i - 1 = i /\ y[i] = d[i] /\ d[i] = head[i]
      BY <1>1, <1>2, <1>3
    <3> QED BY <3>1
  <2>2. 1 + m <= Len(y) + 1
    BY <1>1, <1>3
  <2> QED BY <2>1, <2>2 DEF StandsAt
<1>4. cut \in Seq(Nat) /\ Len(cut) = k /\ \A i \in 1..k : cut[i] = d[i]
  <2>1. \A i \in 1..k : d[i] \in Nat
    OBVIOUS
  <2> HIDE DEF k
  <2>2. /\ cut \in Seq(Nat)
        /\ Len(cut) = IF 1 <= k THEN k - 1 + 1 ELSE 0
        /\ \A i \in 1..(k - 1 + 1) : cut[i] = d[1 + i - 1]
    BY <1>1, <2>1, SubSeqProperties
  <2> HIDE DEF cut
  <2> QED BY <1>1, <2>2
<1>5. longer \in Seq(Nat) /\ Len(longer) = n + 1 /\ \A i \in 1..n : longer[i] = d[i]
  OBVIOUS
<1> HIDE DEF cut, longer, n, m, k
<1>6. StandsAt(cut, 1, head) /\ Len(cut) # n
  <2>1. k # n
    BY <1>1 DEF k
  <2>2. Len(cut) >= m /\ \A i \in 1..m : cut[i] = d[i]
    BY <1>1, <1>4
  <2> QED BY <1>3, <1>4, <2>1, <2>2
<1>7. StandsAt(longer, 1, head) /\ Len(longer) # n
  BY <1>1, <1>3, <1>5
<1>8. \/ x = [whole |-> TRUE, der |-> d]
      \/ x = [whole |-> FALSE, der |-> cut]
      \/ x = [whole |-> FALSE, der |-> longer]
  BY Zenon DEF Damaged, cut, longer, n, k
<1> QED BY <1>4, <1>5, <1>6, <1>7, <1>8 DEF n

\* TryDerToP1363 reads whole signatures, and no others.
LEMMA DerRead ==
  ASSUME NEW r \in Seq(Nat), r # <<>>, NEW s \in Seq(Nat), s # <<>>, CoordSize \in Nat \ {0},
         NEW d \in DerForms(r, s), NEW x \in Damaged(d)
  PROVE  TryDerToP1363(x.der) =
           IF x.whole /\ Fits(r) /\ Fits(s)
           THEN [ok |-> TRUE, sig |-> AsCoord(r) \o AsCoord(s)]
           ELSE [ok |-> FALSE]
<1>1. PICK lr, ls, l : IsSignature(d, r, s, lr, ls, l)
  BY DerFormsAreSignatures
<1>2. PICK n \in Nat : /\ d \in Seq(Nat) /\ l \in LengthForms(n) /\ StandsAt(d, 1, << 48 >> \o l)
                       /\ << 48 >> \o l \in Seq(Nat) /\ Len(<< 48 >> \o l) < Len(d)
                       /\ Len(d) = 1 + Len(l) + n
  BY <1>1, SignatureHead
<1>3. CASE x.whole /\ x.der = d
  <2>1. TryDerToP1363(d) = Both(FitCoord(r), FitCoord(s))
    BY <1>1, WholeRead
  <2>2. FitCoord(r) = IF Fits(r) THEN [ok |-> TRUE, coord |-> AsCoord(r)] ELSE No
    BY CoordFits
  <2>3. FitCoord(s) = IF Fits(s) THEN [ok |-> TRUE, coord |-> AsCoord(s)] ELSE No
    BY CoordFits
  <2>4. ASSUME NEW u, NEW v
        PROVE  Both([ok |-> TRUE, coord |-> u], [ok |-> TRUE, coord |-> v]) = [ok |-> TRUE, sig |-> u \o v]
    BY Zenon DEF Both
  <2>5. ASSUME NEW c PROVE Both(No, c) = No /\ Both(c, No) = No
    BY DEF Both, No
  <2>6. CASE Fits(r) /\ Fits(s)
    BY <1>3, <2>1, <2>2, <2>3, <2>4, <2>6, Zenon
  <2>7. CASE ~(Fits(r) /\ Fits(s))
    BY <1>3, <2>1, <2>2, <2>3, <2>5, <2>7, Zenon DEF No
  <2> QED BY <2>6, <2>7
<1>4. CASE ~x.whole /\ x.der \in Seq(Nat) /\ StandsAt(x.der, 1, << 48 >> \o l) /\ Len(x.der) # Len(d)
  <2> DEFINE y == x.der
  <2>1. y \in Seq(Nat) /\ StandsAt(y, 1, << 48 >> \o l) /\ 1 + Len(l) + n # Len(y)
    BY <1>2, <1>4
  <2> HIDE DEF y
  <2>2. TryDerToP1363(y) = No
    BY <1>2, <2>1, TailRefused
  <2> QED BY <1>4, <2>2, Zenon DEF No, y
<1>5. \/ x.whole /\ x.der = d
      \/ ~x.whole /\ x.der \in Seq(Nat) /\ StandsAt(x.der, 1, << 48 >> \o l) /\ Len(x.der) # Len(d)
  <2> DEFINE head == << 48 >> \o l
  <2>1. head \in Seq(Nat) /\ StandsAt(d, 1, head) /\ Len(head) < Len(d) /\ d \in Seq(Nat)
    BY <1>2
  <2> HIDE DEF head
  <2>2. \/ x.whole /\ x.der = d
        \/ ~x.whole /\ x.der \in Seq(Nat) /\ StandsAt(x.der, 1, head) /\ Len(x.der) # Len(d)
    BY <2>1, DamagedBegin
  <2> QED BY <2>2 DEF head
<1> QED BY <1>3, <1>4, <1>5

----------------------------------------------------------------------------
(* EcdsaSigner.                                                          *)

\* The content EncodeInteger writes: positive, minimal, and the same number.
LEMMA IntegerEncoded ==
  ASSUME NEW h \in Seq(Nat), CoordSize \in Nat \ {0}, Len(h) = CoordSize
  PROVE  \E c \in Seq(Nat) : /\ c # <<>> /\ Fits(c) /\ AsCoord(c) = h /\ IsMinimal(c)
                             /\ EncodeInteger(h) = Integer(WriteLength(Len(c)), c)
<1> DEFINE v == Trim(h)
           c == IF v[1] >= 128 THEN << 0 >> \o v ELSE v
           C == CoordSize
<1>0. h # <<>> /\ C \in Nat /\ C > 0
  OBVIOUS
<1>1. PICK start \in 1..C :
        /\ v \in Seq(Nat) /\ Len(v) = C + 1 - start
        /\ \A i \in 1..(C + 1 - start) : v[i] = h[start + i - 1]
        /\ start = C \/ h[start] # 0
        /\ \A j \in 1..(start - 1) : h[j] = 0
  BY <1>0, Trimmed
<1>2. EncodeInteger(h) = Integer(WriteLength(Len(c)), c)
  BY Zenon DEF EncodeInteger, Integer
<1> DEFINE n == Len(v)
<1> HIDE DEF v
<1>3. n \in Nat /\ n > 0 /\ n <= C /\ n = C + 1 - start
  BY <1>0, <1>1
<1>4. v[1] \in Nat /\ v[1] = h[start] /\ (n > 1 => v[1] # 0)
  BY <1>0, <1>1, <1>3
<1>5. ASSUME NEW i \in 1..C PROVE h[i] = IF i >= start THEN v[i + 1 - start] ELSE 0
  <2>1. CASE i >= start
    <3> DEFINE k == i + 1 - start
    <3>1. k \in 1..(C + 1 - start) /\ start + k - 1 = i
      BY <1>0, <2>1
    <3>2. v[k] = h[start + k - 1]
      BY <1>1, <3>1
    <3> QED BY <2>1, <3>1, <3>2
  <2>2. CASE ~(i >= start)
    <3>1. i \in 1..(start - 1)
      BY <2>2
    <3> QED BY <1>1, <2>2, <3>1
  <2> QED BY <2>1, <2>2
<1>6. CASE v[1] >= 128
  <2>1. c = << 0 >> \o v
    BY <1>6
  <2> HIDE DEF c
  <2>2. c \in Seq(Nat) /\ Len(c) = n + 1 /\ c[1] = 0 /\ \A i \in 1..n : c[i + 1] = v[i]
    <3> DEFINE z == << 0 >>
    <3>1. z \in Seq(Nat) /\ Len(z) = 1 /\ z[1] = 0
      OBVIOUS
    <3> HIDE DEF z
    <3>2. c = z \o v /\ v \in Seq(Nat)
      BY <1>1, <2>1 DEF z
    <3>3. /\ c \in Seq(Nat) /\ Len(c) = 1 + n
          /\ \A i \in 1..(1 + n) : c[i] = IF i <= 1 THEN z[i] ELSE v[i - 1]
      <4>1. /\ z \o v \in Seq(Nat) /\ Len(z \o v) = Len(z) + Len(v)
            /\ \A i \in 1..(Len(z) + Len(v)) : (z \o v)[i] = IF i <= Len(z) THEN z[i] ELSE v[i - Len(z)]
        BY <3>1, <3>2, ConcatProperties
      <4> QED BY <3>1, <3>2, <4>1, Zenon
    <3>4. ASSUME NEW i \in 1..n PROVE c[i + 1] = v[i]
      <4>1. i + 1 \in 1..(1 + n) /\ ~(i + 1 <= 1) /\ i + 1 - 1 = i
        BY <1>3
      <4> QED BY <3>3, <4>1
    <3>5. c[1] = 0
      BY <1>3, <3>1, <3>3
    <3> QED BY <1>3, <3>3, <3>4, <3>5
  <2> HIDE DEF n
  <2>3. Fits(c)
    <3> SUFFICES ASSUME NEW i \in 1..Len(c), i <= Len(c) - C PROVE c[i] = 0
      BY DEF Fits
    <3>1. i = 1
      BY <1>0, <1>3, <2>2
    <3> QED BY <2>2, <3>1
  <2>4. AsCoord(c) = h
    <3> DEFINE x == AsCoord(c)
    <3>1. ASSUME NEW i \in 1..C PROVE x[i] = h[i]
      <4>1. x[i] = IF i + (n + 1) > C THEN c[i + (n + 1) - C] ELSE 0
        BY <2>2 DEF AsCoord
      <4> HIDE DEF x
      <4>2. CASE i >= start
        <5> DEFINE k == i + 1 - start
        <5>1. k \in 1..n /\ i + (n + 1) - C = k + 1 /\ i + (n + 1) > C
          BY <1>0, <1>3, <4>2
        <5>2. c[k + 1] = v[k]
          BY <2>2, <5>1
        <5> QED BY <1>5, <4>1, <4>2, <5>1, <5>2
      <4>3. CASE i + 1 = start
        <5>1. i + (n + 1) - C = 1 /\ i + (n + 1) > C /\ ~(i >= start)
          BY <1>0, <1>3, <4>3
        <5> QED BY <1>5, <2>2, <4>1, <5>1
      <4>4. CASE i + 1 < start
        <5>1. ~(i + (n + 1) > C) /\ ~(i >= start)
          BY <1>0, <1>3, <4>4
        <5> QED BY <1>5, <4>1, <5>1
      <4> QED BY <4>2, <4>3, <4>4
    <3>2. x = [i \in 1..C |-> x[i]]
      BY DEF AsCoord
    <3>3. h = [i \in 1..C |-> h[i]]
      BY LenProperties
    <3> HIDE DEF x
    <3>4. x = h
      BY <3>1, <3>2, <3>3
    <3> QED BY <3>4 DEF x
  <2>5. IsMinimal(c)
    <3>1. c[2] = v[1]
      <4>1. c[1 + 1] = v[1]
        BY <1>3, <2>2
      <4> QED BY <4>1
    <3> QED BY <1>6, <2>2, <3>1 DEF IsMinimal
  <2>6. c # <<>>
    BY <1>3, <2>2
  <2>7. EncodeInteger(h) = Integer(WriteLength(Len(c)), c)
    BY <1>2 DEF c
  <2> QED BY <2>2, <2>3, <2>4, <2>5, <2>6, <2>7
<1>7. CASE ~(v[1] >= 128)
  <2>1. c = v
    BY <1>7
  <2> HIDE DEF c
  <2>2. EncodeInteger(h) = Integer(WriteLength(Len(v)), v)
    BY <1>2, <2>1
  <2>3. Fits(v)
    BY <1>0, <1>3 DEF Fits
  <2>4. AsCoord(v) = h
    <3> DEFINE x == AsCoord(v)
    <3>1. ASSUME NEW i \in 1..C PROVE x[i] = h[i]
      <4>1. x[i] = IF i + n > C THEN v[i + n - C] ELSE 0
        BY DEF AsCoord
      <4> HIDE DEF x, n
      <4>2. CASE i >= start
        <5>1. i + n - C = i + 1 - start /\ i + n > C
          BY <1>0, <1>3, <4>2
        <5> QED BY <1>5, <4>1, <4>2, <5>1
      <4>3. CASE ~(i >= start)
        <5>1. ~(i + n > C)
          BY <1>0, <1>3, <4>3
        <5> QED BY <1>5, <4>1, <4>3, <5>1
      <4> QED BY <4>2, <4>3
    <3>2. x = [i \in 1..C |-> x[i]]
      BY DEF AsCoord
    <3>3. h = [i \in 1..C |-> h[i]]
      BY LenProperties
    <3> HIDE DEF x
    <3>4. x = h
      BY <3>1, <3>2, <3>3
    <3> QED BY <3>4 DEF x
  <2>5. IsMinimal(v)
    BY <1>4, <1>7 DEF IsMinimal
  <2>6. v # <<>>
    BY <1>3
  <2> QED BY <1>1, <2>2, <2>3, <2>4, <2>5, <2>6
<1> QED BY <1>6, <1>7

\* P1363ToDer writes minimal INTEGERs, which TryDerToP1363 takes back to the signature.
LEMMA SignatureRead ==
  ASSUME NEW sig \in Seq(Nat), CoordSize \in Nat \ {0}, Len(sig) = 2 * CoordSize
  PROVE  LET der == P1363ToDer(sig)
             first == ReadInteger(der, ReadDerLength(der, 2).next)
             second == ReadInteger(der, first.next)
         IN /\ TryDerToP1363(der) = [ok |-> TRUE, sig |-> sig]
            /\ IsMinimal(first.content) /\ IsMinimal(second.content)
<1> DEFINE C == CoordSize
           N == Len(sig)
           half == N \div 2
           h == SubSeq(sig, 1, half)
           k == SubSeq(sig, half + 1, N)
<1>0. C \in Nat /\ C > 0 /\ half = C /\ N = 2 * C /\ half + 1 = C + 1
  OBVIOUS
<1>1. h \in Seq(Nat) /\ Len(h) = C /\ \A i \in 1..C : h[i] = sig[i]
  <2>1. \A i \in 1..C : sig[i] \in Nat
    BY <1>0
  <2> DEFINE t == SubSeq(sig, 1, C)
  <2>2. /\ t \in Seq(Nat) /\ Len(t) = IF 1 <= C THEN C - 1 + 1 ELSE 0
        /\ \A i \in 1..(C - 1 + 1) : t[i] = sig[1 + i - 1]
    <3> HIDE DEF C
    <3> QED BY <1>0, <2>1, SubSeqProperties
  <2> HIDE DEF t
  <2>3. t \in Seq(Nat) /\ Len(t) = C /\ \A i \in 1..C : t[i] = sig[i]
    BY <1>0, <2>2
  <2> QED BY <1>0, <2>3, Zenon DEF t
<1>2. k \in Seq(Nat) /\ Len(k) = C /\ \A i \in 1..C : k[i] = sig[C + i]
  <2>1. \A i \in (C + 1)..N : sig[i] \in Nat
    BY <1>0
  <2> DEFINE m == C + 1
             t == SubSeq(sig, m, N)
  <2>2. m \in Int /\ N \in Int /\ m <= N
    BY <1>0
  <2>3. /\ t \in Seq(Nat) /\ Len(t) = IF m <= N THEN N - m + 1 ELSE 0
        /\ \A i \in 1..(N - m + 1) : t[i] = sig[m + i - 1]
    <3>1. \A i \in m..N : sig[i] \in Nat
      BY <2>1
    <3> HIDE DEF m, N
    <3> QED BY <2>2, <3>1, SubSeqProperties
  <2> HIDE DEF t
  <2>4. t \in Seq(Nat) /\ Len(t) = C
    BY <1>0, <2>2, <2>3
  <2>5. ASSUME NEW i \in 1..C PROVE t[i] = sig[C + i]
    <3>1. i \in 1..(N - m + 1) /\ m + i - 1 = C + i
      BY <1>0
    <3> HIDE DEF m, N
    <3> QED BY <2>3, <3>1
  <2>6. k = t
    BY <1>0, Zenon DEF t
  <2> QED BY <2>4, <2>5, <2>6, Zenon
<1>3. P1363ToDer(sig) =
        << 48 >> \o WriteLength(Len(EncodeInteger(h) \o EncodeInteger(k)))
               \o (EncodeInteger(h) \o EncodeInteger(k))
  BY Zenon DEF P1363ToDer
<1> HIDE DEF h, k, half
<1>4. PICK c \in Seq(Nat) : /\ c # <<>> /\ Fits(c) /\ AsCoord(c) = h /\ IsMinimal(c)
                            /\ EncodeInteger(h) = Integer(WriteLength(Len(c)), c)
  BY <1>1, IntegerEncoded
<1>5. PICK d \in Seq(Nat) : /\ d # <<>> /\ Fits(d) /\ AsCoord(d) = k /\ IsMinimal(d)
                            /\ EncodeInteger(k) = Integer(WriteLength(Len(d)), d)
  BY <1>2, IntegerEncoded
<1> DEFINE lc == WriteLength(Len(c))
           ld == WriteLength(Len(d))
           body == Integer(lc, c) \o Integer(ld, d)
           l == WriteLength(Len(body))
           der == P1363ToDer(sig)
<1>6. lc \in LengthForms(Len(c)) /\ ld \in LengthForms(Len(d))
  BY LengthWritten, LenProperties
<1>7. l \in LengthForms(Len(body))
  <2>1. Integer(lc, c) \in Seq(Nat) /\ Integer(ld, d) \in Seq(Nat)
    <3> HIDE DEF lc, ld
    <3> QED BY <1>6, IntegerType
  <2>2. Len(body) \in Nat
    <3> HIDE DEF lc, ld
    <3>1. body \in Seq(Nat)
      BY <2>1, ConcatProperties
    <3> QED BY <3>1, LenProperties
  <2> HIDE DEF body
  <2> QED BY <2>2, LengthWritten
<1>8. der = << 48 >> \o l \o body
  BY <1>3, <1>4, <1>5, Zenon
<1> HIDE DEF der, l, lc, ld
<1>9. IsSignature(der, c, d, lc, ld, l)
  BY <1>4, <1>5, <1>6, <1>7, <1>8, Zenon DEF IsSignature
<1> DEFINE first == ReadInteger(der, ReadDerLength(der, 2).next)
           second == ReadInteger(der, first.next)
<1>10. first.content = c /\ second.content = d /\ TryDerToP1363(der) = Both(FitCoord(c), FitCoord(d))
  BY <1>9, WholeRead
<1>11. FitCoord(c) = [ok |-> TRUE, coord |-> h] /\ FitCoord(d) = [ok |-> TRUE, coord |-> k]
  BY <1>4, <1>5, CoordFits
<1>12. h \o k = sig
  <2>1. /\ h \o k \in Seq(Nat) /\ Len(h \o k) = C + C
        /\ \A i \in 1..(C + C) : (h \o k)[i] = IF i <= C THEN h[i] ELSE k[i - C]
    <3>1. /\ h \o k \in Seq(Nat) /\ Len(h \o k) = Len(h) + Len(k)
          /\ \A i \in 1..(Len(h) + Len(k)) : (h \o k)[i] = IF i <= Len(h) THEN h[i] ELSE k[i - Len(h)]
      BY <1>1, <1>2, ConcatProperties
    <3> QED BY <1>1, <1>2, <3>1, Zenon
  <2>2. Len(h \o k) = Len(sig)
    BY <1>0, <2>1
  <2>3. ASSUME NEW i \in 1..Len(h \o k) PROVE (h \o k)[i] = sig[i]
    <3>1. i \in 1..(C + C)
      BY <2>1
    <3>2. CASE i <= C
      BY <1>1, <2>1, <3>1, <3>2
    <3>3. CASE ~(i <= C)
      <4> DEFINE j == i - C
      <4>1. j \in 1..C /\ C + j = i
        BY <1>0, <3>1, <3>3
      <4>2. (h \o k)[i] = k[j]
        BY <2>1, <3>1, <3>3
      <4> QED BY <1>2, <4>1, <4>2
    <3> QED BY <3>2, <3>3
  <2> QED BY <2>1, <2>2, <2>3, SeqEqual
<1>13. Both(FitCoord(c), FitCoord(d)) = [ok |-> TRUE, sig |-> h \o k]
  <2> DEFINE x == FitCoord(c)
             y == FitCoord(d)
  <2>1. x.ok /\ y.ok /\ x.coord = h /\ y.coord = k
    BY <1>11
  <2> HIDE DEF x, y
  <2>2. Both(x, y) = [ok |-> TRUE, sig |-> x.coord \o y.coord]
    BY <2>1, Zenon DEF Both
  <2> QED BY <2>1, <2>2, Zenon DEF x, y
<1> HIDE DEF first, second
<1>14. TryDerToP1363(der) = [ok |-> TRUE, sig |-> sig] /\ IsMinimal(first.content) /\ IsMinimal(second.content)
  BY <1>4, <1>5, <1>10, <1>12, <1>13, Zenon
<1> QED BY <1>14, Zenon DEF first, second, der

----------------------------------------------------------------------------
(* The theorems.                                                           *)

\* Inputs are sequences of bytes.
LEMMA StringsType ==
  ASSUME NEW bytes \in SUBSET (0..255), NEW min \in Nat, NEW max \in Nat,
         NEW x \in Strings(bytes, min, max)
  PROVE  x \in Seq(Nat) /\ Bytes(x) /\ Len(x) >= min
<1>1. PICK n \in min..max : x \in [1..n -> bytes]
  BY DEF Strings
<1>2. n \in Nat /\ n >= min
  BY <1>1
<1>3. x \in [1..n -> Nat]
  <2>1. \A b \in bytes : b \in Nat
    OBVIOUS
  <2>2. DOMAIN x = 1..n /\ x = [i \in 1..n |-> x[i]]
    BY <1>1
  <2>3. \A i \in 1..n : x[i] \in Nat
    BY <1>1, <2>1
  <2> QED BY <2>2, <2>3
<1>4. x \in Seq(Nat)
  BY <1>2, <1>3, SeqDef
<1>5. Len(x) = n
  BY <1>2, <1>3, <1>4, LenProperties
<1>6. \A i \in 1..n : x[i] < 256
  <2> SUFFICES ASSUME NEW i \in 1..n PROVE x[i] < 256
    OBVIOUS
  <2>1. x[i] \in bytes
    BY <1>1
  <2>2. x[i] \in 0..255
    BY <2>1
  <2> QED BY <2>2
<1> QED BY <1>2, <1>4, <1>5, <1>6 DEF Bytes

\* The result, if there is one, is value.
IsResult(value) == result = <<>> \/ result = <<value>>

CborDone ==
  /\ input.kind = "cbor" /\ input.buf \in Seq(Nat) /\ Bytes(input.buf)
  /\ IsResult([skipped |-> SkipValue(input.buf, 1), read |-> ReadValue(input.buf, 1)])

KeysDone ==
  /\ input.kind = "keys"
  /\ input.mt1 \in 0..1 /\ input.n1 \in Arguments /\ input.mt2 \in 0..1 /\ input.n2 \in Arguments
  /\ IsResult(Before(WriteTypeAndValue(input.mt1, input.n1), WriteTypeAndValue(input.mt2, input.n2)))

HeaderDone ==
  /\ input.kind = "header" /\ input.mt \in 0..5 /\ input.n \in Arguments
  /\ IsResult(WriteTypeAndValue(input.mt, input.n))

SignatureDone ==
  /\ input.kind = "signature" /\ input.sig \in Seq(Nat) /\ Len(input.sig) = 2 * CoordSize
  /\ IsResult(P1363ToDer(input.sig))

DerDone ==
  /\ input.kind = "der"
  /\ input.r \in Seq(Nat) /\ input.r # <<>> /\ input.s \in Seq(Nat) /\ input.s # <<>>
  /\ \E d \in DerForms(input.r, input.s) : \E x \in Damaged(d) :
       input.whole = x.whole /\ input.der = x.der
  /\ IsResult(TryDerToP1363(input.der))

\* An input of one of the kinds, and nothing computed yet or what the code computes of it.
IInv == CborDone \/ KeysDone \/ HeaderDone \/ SignatureDone \/ DerDone

\* The kind of the input says which part of IInv holds.
LEMMA KindsApart ==
  ASSUME IInv
  PROVE  /\ input.kind = "cbor" => CborDone
         /\ input.kind = "keys" => KeysDone
         /\ input.kind = "header" => HeaderDone
         /\ input.kind = "signature" => SignatureDone
         /\ input.kind = "der" => DerDone
<1>1. /\ CborDone => input.kind = "cbor"
      /\ KeysDone => input.kind = "keys"
      /\ HeaderDone => input.kind = "header"
      /\ SignatureDone => input.kind = "signature"
      /\ DerDone => input.kind = "der"
  BY Zenon DEF CborDone, KeysDone, HeaderDone, SignatureDone, DerDone
<1> QED BY <1>1 DEF IInv

\* What the assumption on the constants says of the ones the inputs are built from.
LEMMA Parameters ==
  /\ \A buf \in CborInputs : buf \in Seq(Nat) /\ Bytes(buf)
  /\ CoordBytes \in SUBSET (0..255) /\ DerBytes \in SUBSET (0..255)
  /\ MaxDer \in Nat /\ CoordSize \in Nat \ {0}
<1>0. CborAssumption /\ FormatsAssumption
  BY CborAssumption, FormatsAssumption
<1>1. CoordBytes \cup DerBytes \subseteq 0..255
  BY <1>0, SMT DEF FormatsAssumption, Byte
<1>2. ASSUME NEW buf \in CborInputs PROVE buf \in Seq(Nat) /\ Bytes(buf)
  <2>2. buf \in Seq(Byte)
    BY <1>0, Zenon DEF CborAssumption
  <2>3. Len(buf) \in Nat /\ buf \in [1..Len(buf) -> Byte]
    BY <2>2, LenProperties, Zenon
  <2>4. \A i \in 1..Len(buf) : buf[i] \in Nat /\ buf[i] < 256
    <3> DEFINE D == 1..Len(buf)
    <3>1. \A i \in D : buf[i] \in Byte
      BY <2>3, Zenon
    <3>2. \A b \in Byte : b \in Nat /\ b < 256
      BY DEF Byte
    <3> HIDE DEF D
    <3>3. \A i \in D : buf[i] \in Nat /\ buf[i] < 256
      BY <3>1, <3>2, Zenon
    <3> QED BY <3>3, Zenon DEF D
  <2>5. buf \in [1..Len(buf) -> Nat]
    <3>1. DOMAIN buf = 1..Len(buf) /\ buf = [i \in 1..Len(buf) |-> buf[i]]
      BY <2>3
    <3> QED BY <2>4, <3>1
  <2>6. buf \in Seq(Nat)
    BY <2>3, <2>5, SeqDef
  <2> QED BY <2>4, <2>6 DEF Bytes
<1>3. CoordSize \in 1..Longest
  BY <1>0, SMT DEF FormatsAssumption
<1>4. MaxDer \in 1..Longest
  BY <1>0, SMT DEF FormatsAssumption
<1>5. CoordBytes \subseteq 0..255 /\ DerBytes \subseteq 0..255
  BY <1>1, SMT
<1>6. Longest \in Int
  BY SMT DEF Longest
<1>8. CoordSize \in Nat \ {0}
  BY <1>3, <1>6, SMT
<1>9. MaxDer \in Nat
  BY <1>4, <1>6, SMT
<1> QED BY <1>2, <1>5, <1>8, <1>9

\* IInv holds at the beginning, and Compute preserves it.
THEOREM Invariance == Spec => []IInv
<1>1. Init => IInv
  <2> SUFFICES ASSUME Init PROVE IInv
    OBVIOUS
  <2>0. result = <<>>
    BY DEF Init
  <2>1. CASE input \in [kind : {"cbor"}, buf : CborInputs]
    <3>1. input.buf \in CborInputs /\ input.kind = "cbor"
      BY <2>1
    <3>2. input.buf \in Seq(Nat) /\ Bytes(input.buf)
      BY Parameters, <3>1
    <3> QED BY <2>0, <3>1, <3>2 DEF IInv, CborDone, IsResult
  <2>2. CASE input \in [kind : {"keys"}, mt1 : 0..1, n1 : Arguments, mt2 : 0..1, n2 : Arguments]
    BY <2>0, <2>2 DEF IInv, KeysDone, IsResult
  <2>3. CASE input \in [kind : {"header"}, mt : 0..5, n : Arguments]
    BY <2>0, <2>3 DEF IInv, HeaderDone, IsResult
  <2>4. CASE input \in [kind : {"signature"}, sig : [1..(2 * CoordSize) -> CoordBytes]]
    <3> DEFINE sig == input.sig
               n == 2 * CoordSize
    <3>1. sig \in [1..n -> CoordBytes] /\ input.kind = "signature" /\ n \in Nat
      BY Parameters, <2>4
    <3> HIDE DEF sig, n
    <3>2. sig \in [1..n -> Nat]
      <4>1. \A b \in CoordBytes : b \in Nat
        BY Parameters
      <4>2. DOMAIN sig = 1..n /\ sig = [i \in 1..n |-> sig[i]]
        BY <3>1
      <4>3. \A i \in 1..n : sig[i] \in Nat
        BY <3>1, <4>1
      <4> QED BY <4>2, <4>3
    <3>3. sig \in Seq(Nat)
      BY <3>1, <3>2, SeqDef
    <3>4. Len(sig) = n
      BY <3>1, <3>2, <3>3, LenProperties
    <3> QED BY <2>0, <3>1, <3>3, <3>4 DEF IInv, SignatureDone, IsResult, sig, n
  <2>5. CASE \E r, s \in Strings(DerBytes, 1, MaxDer) : \E d \in DerForms(r, s) :
               \E x \in Damaged(d) :
                 input = [kind |-> "der", r |-> r, s |-> s, whole |-> x.whole, der |-> x.der]
    <3>1. PICK r \in Strings(DerBytes, 1, MaxDer), s \in Strings(DerBytes, 1, MaxDer) :
            \E d \in DerForms(r, s) : \E x \in Damaged(d) :
              input = [kind |-> "der", r |-> r, s |-> s, whole |-> x.whole, der |-> x.der]
      BY <2>5
    <3>2. r \in Seq(Nat) /\ Len(r) >= 1 /\ s \in Seq(Nat) /\ Len(s) >= 1
      BY Parameters, <3>1, StringsType
    <3>3. r # <<>> /\ s # <<>>
      BY <3>2
    <3>4. PICK d \in DerForms(r, s) : \E x \in Damaged(d) :
            input = [kind |-> "der", r |-> r, s |-> s, whole |-> x.whole, der |-> x.der]
      BY <3>1
    <3>5. PICK x \in Damaged(d) :
            input = [kind |-> "der", r |-> r, s |-> s, whole |-> x.whole, der |-> x.der]
      BY <3>4
    <3>6. /\ input.kind = "der" /\ input.r = r /\ input.s = s
          /\ input.whole = x.whole /\ input.der = x.der
      BY <3>5
    <3>7. \E y \in DerForms(input.r, input.s) : \E z \in Damaged(y) :
            input.whole = z.whole /\ input.der = z.der
      BY <3>4, <3>5, <3>6, Zenon
    <3>8. IsResult(TryDerToP1363(input.der))
      BY <2>0, Zenon DEF IsResult
    <3>9. DerDone
      BY <3>2, <3>3, <3>6, <3>7, <3>8, Zenon DEF DerDone
    <3> QED BY <3>9 DEF IInv
  <2> QED BY <2>1, <2>2, <2>3, <2>4, <2>5, Zenon DEF Init
<1>2. IInv /\ [Next]_<<input, result>> => IInv'
  <2> SUFFICES ASSUME IInv, [Next]_<<input, result>> PROVE IInv'
    OBVIOUS
  <2>1. CASE Parse
    <3>1. /\ input.kind = "cbor" /\ input' = input
          /\ result' = <<[skipped |-> SkipValue(input.buf, 1), read |-> ReadValue(input.buf, 1)]>>
      BY <2>1, Zenon DEF Parse, Compute
    <3>2. CborDone
      BY KindsApart, <3>1, Zenon
    <3>3. CborDone'
      BY <3>1, <3>2, Zenon DEF CborDone, IsResult
    <3> QED BY <3>3, Zenon DEF IInv
  <2>2. CASE Sort
    <3>1. /\ input.kind = "keys" /\ input' = input
          /\ result' = <<Before(WriteTypeAndValue(input.mt1, input.n1),
                           WriteTypeAndValue(input.mt2, input.n2))>>
      BY <2>2, Zenon DEF Sort, Compute
    <3>2. KeysDone
      BY KindsApart, <3>1, Zenon
    <3>3. KeysDone'
      BY <3>1, <3>2, Zenon DEF KeysDone, IsResult
    <3> QED BY <3>3, Zenon DEF IInv
  <2>3. CASE Write
    <3>1. /\ input.kind = "header" /\ input' = input
          /\ result' = <<WriteTypeAndValue(input.mt, input.n)>>
      BY <2>3, Zenon DEF Write, Compute
    <3>2. HeaderDone
      BY KindsApart, <3>1, Zenon
    <3>3. HeaderDone'
      BY <3>1, <3>2, Zenon DEF HeaderDone, IsResult
    <3> QED BY <3>3, Zenon DEF IInv
  <2>4. CASE Encode
    <3>1. /\ input.kind = "signature" /\ input' = input
          /\ result' = <<P1363ToDer(input.sig)>>
      BY <2>4, Zenon DEF Encode, Compute
    <3>2. SignatureDone
      BY KindsApart, <3>1, Zenon
    <3>3. SignatureDone'
      BY <3>1, <3>2, Zenon DEF SignatureDone, IsResult
    <3> QED BY <3>3, Zenon DEF IInv
  <2>5. CASE Decode
    <3>1. /\ input.kind = "der" /\ input' = input
          /\ result' = <<TryDerToP1363(input.der)>>
      BY <2>5, Zenon DEF Decode, Compute
    <3>2. DerDone
      BY KindsApart, <3>1, Zenon
    <3>3. DerDone'
      BY <3>1, <3>2, Zenon DEF DerDone, IsResult
    <3> QED BY <3>3, Zenon DEF IInv
  <2>6. CASE UNCHANGED <<input, result>>
    <3>1. input' = input /\ result' = result
      BY <2>6
    <3> QED
      BY <3>1, Zenon
      DEF IInv, CborDone, KeysDone, HeaderDone, SignatureDone, DerDone, IsResult
  <2> QED BY <2>1, <2>2, <2>3, <2>4, <2>5, <2>6, Zenon DEF Next
<1> QED BY <1>1, <1>2, PTL DEF Spec

\* CborReader.SkipValue passes an item of CTAP2 as a whole and nothing else, in every
\* buffer shorter than Huge and nested to any depth.
THEOREM ItemsSkipped == Spec => []SkipFindsItemEnd
<1>1. IInv => SkipFindsItemEnd
  <2> SUFFICES ASSUME IInv, Done("cbor"), NEW j \in 1..(Len(input.buf) + 1)
               PROVE  <<j, 1>> \in Items(input.buf, {})[1] <=> result[1].skipped = j
    BY DEF SkipFindsItemEnd
  <2> DEFINE buf == input.buf
  <2>1. buf \in Seq(Nat) /\ Bytes(buf) /\ result[1].skipped = SkipValues(buf)[1][1]
    <3>1. CborDone /\ result # <<>>
      BY KindsApart, Zenon DEF Done
    <3>2. result = <<[skipped |-> SkipValue(buf, 1), read |-> ReadValue(buf, 1)]>>
      BY <3>1 DEF CborDone, IsResult
    <3> QED BY <3>1, <3>2 DEF CborDone, SkipValue
  <2> HIDE DEF buf
  <2>2. 1 \in 1..(Len(buf) + 1) /\ j \in 1..(Len(buf) + 1)
    BY <2>1 DEF buf
  <2>3. <<j, 1>> \in Items(buf, {})[1] <=> SkipValues(buf)[1][1] = j
    BY <2>1, <2>2, SkipsItems
  <2> QED BY <2>1, <2>3 DEF buf
<1> QED BY <1>1, Invariance, PTL

\* The typed reads of CborReader walk over the items SkipValue walks over, in every buffer,
\* and fail at those that are null, undefined or out of Int64's range, and at no other.
THEOREM ReadsAgree == Spec => []ReadsAgreeWithSkip
<1>1. IInv => ReadsAgreeWithSkip
  <2> SUFFICES ASSUME IInv, Done("cbor") PROVE ReadsAgreeWithSkip
    BY DEF ReadsAgreeWithSkip
  <2> DEFINE buf == input.buf
             read == ReadValues(buf)[1][1]
             skipped == SkipValues(buf)[1][1]
  <2>1. buf \in Seq(Nat) /\ Bytes(buf) /\ result[1].skipped = skipped /\ result[1].read = read
    <3>1. CborDone /\ result # <<>>
      BY KindsApart, Zenon DEF Done
    <3>2. result = <<[skipped |-> SkipValue(buf, 1), read |-> ReadValue(buf, 1)]>>
      BY <3>1 DEF CborDone, IsResult
    <3> QED BY <3>1, <3>2 DEF CborDone, SkipValue, ReadValue
  <2>2. 1 \in 1..(Len(buf) + 1)
    BY <2>1
  <2>3. AsSkipped(read, skipped)
    BY <2>1, <2>2, ReadsAsSkipped
  <2>4. \A j \in 1..(Len(buf) + 1) : <<j, 1>> \in Items(buf, Unreadable(buf))[1] <=> read = j
    BY <2>1, <2>2, ReadsItems
  <2> HIDE DEF read, skipped
  <2> QED BY <2>1, <2>3, <2>4, Zenon DEF AsSkipped, ReadsAgreeWithSkip, buf
<1> QED BY <1>1, Invariance, PTL

\* CborReader reads the headers CborWriter writes, for every argument of up to four bytes.
THEOREM HeadersReadBack == Spec => []HeaderReadsBack
<1>1. IInv => HeaderReadsBack
  <2> SUFFICES ASSUME IInv, Done("header") PROVE HeaderReadsBack
    BY DEF HeaderReadsBack
  <2> DEFINE mt == input.mt
             n == input.n
             h == WriteTypeAndValue(mt, n)
  <2>1. mt \in 0..5 /\ n \in Arguments /\ result[1] = h
    <3>1. HeaderDone /\ result # <<>>
      BY KindsApart, Zenon DEF Done
    <3>2. result = <<h>>
      BY <3>1, Zenon DEF HeaderDone, IsResult
    <3> HIDE DEF h
    <3> QED BY <3>1, <3>2 DEF HeaderDone
  <2>2. n \in Nat /\ n \div 65536 < 65536
    BY <2>1, FormatsAssumption, SMT DEF FormatsAssumption
  <2> HIDE DEF mt, n
  <2>3. ReadsAs(mt, n, 0)
    <3>1. 0 \in Nat
      OBVIOUS
    <3> HIDE DEF h
    <3> QED BY <2>1, <2>2, <3>1, HeaderWritten
  <2> HIDE DEF h
  <2>4. ReadsAs(mt, n, 0) => HeaderReadsBack
    BY <2>1, Zenon DEF ReadsAs, HeaderReadsBack, mt, n, h
  <2> QED BY <2>3, <2>4
<1> QED BY <1>1, Invariance, PTL

\* CborWriter's order of encoded keys is the order of the numbers COSE and CTAP2 use as
\* keys: positive before negative, small before large.
THEOREM KeysSorted == Spec => []KeysSortByValue
<1>1. IInv => KeysSortByValue
  <2> SUFFICES ASSUME IInv, Done("keys") PROVE KeysSortByValue
    BY DEF KeysSortByValue
  <2> DEFINE mt1 == input.mt1
             n1 == input.n1
             mt2 == input.mt2
             n2 == input.n2
             before == Before(WriteTypeAndValue(mt1, n1), WriteTypeAndValue(mt2, n2))
  <2>1. /\ mt1 \in 0..1 /\ n1 \in Arguments /\ mt2 \in 0..1 /\ n2 \in Arguments
        /\ result[1] = before
    <3>1. KeysDone /\ result # <<>>
      BY KindsApart, Zenon DEF Done
    <3>2. result = <<before>>
      BY <3>1, Zenon DEF KeysDone, IsResult
    <3> HIDE DEF before
    <3>3. result[1] = before
      BY <3>2
    <3> QED BY <3>1, <3>3, Zenon DEF KeysDone
  <2>2. n1 \in Nat /\ n1 \div 65536 < 65536 /\ n2 \in Nat /\ n2 \div 65536 < 65536
    BY <2>1, FormatsAssumption, SMT DEF FormatsAssumption
  <2> HIDE DEF mt1, n1, mt2, n2
  <2>3. before <=> (mt1 < mt2 \/ (mt1 = mt2 /\ n1 < n2))
    BY <2>1, <2>2, HeadersInOrder
  <2> HIDE DEF before
  <2> QED BY <2>1, <2>3, Zenon DEF KeysSortByValue, mt1, n1, mt2, n2
<1> QED BY <1>1, Invariance, PTL

\* EcdsaSigner.P1363ToDer writes positive, minimal INTEGERs, and EcdsaVerifier reads the
\* signature back, for coordinates of up to 32000 bytes.
THEOREM SignaturesReadBack == Spec => []SignatureReadsBack
<1>1. IInv => SignatureReadsBack
  <2> SUFFICES ASSUME IInv, Done("signature") PROVE SignatureReadsBack
    BY DEF SignatureReadsBack
  <2> DEFINE sig == input.sig
             der == P1363ToDer(sig)
  <2>1. sig \in Seq(Nat) /\ Len(sig) = 2 * CoordSize /\ result[1] = der
    <3>1. SignatureDone /\ result # <<>>
      BY KindsApart, Zenon DEF Done
    <3>2. result = <<der>>
      BY <3>1, Zenon DEF SignatureDone, IsResult
    <3> HIDE DEF der
    <3>3. result[1] = der
      BY <3>2
    <3> QED BY <3>1, <3>3, Zenon DEF SignatureDone
  <2>2. CoordSize \in Nat \ {0}
    BY Parameters
  <2> HIDE DEF sig
  <2> DEFINE first == ReadInteger(der, ReadDerLength(der, 2).next)
             second == ReadInteger(der, first.next)
  <2>3. /\ TryDerToP1363(der) = [ok |-> TRUE, sig |-> sig]
        /\ IsMinimal(first.content) /\ IsMinimal(second.content)
    BY <2>1, <2>2, SignatureRead
  <2> HIDE DEF der
  <2> QED BY <2>1, <2>3, Zenon DEF SignatureReadsBack, sig
<1> QED BY <1>1, Invariance, PTL

\* EcdsaVerifier.TryDerToP1363 takes a signature in every form of its lengths and with any
\* padding for the numbers it stands for, and refuses what is cut off, goes on or is too
\* large.
THEOREM DerReadsAsNumbers == Spec => []DerReadsNumbers
<1>1. IInv => DerReadsNumbers
  <2> SUFFICES ASSUME IInv, Done("der") PROVE DerReadsNumbers
    BY DEF DerReadsNumbers
  <2>1. DerDone /\ result # <<>>
    BY KindsApart, Zenon DEF Done
  <2> DEFINE r == input.r
             s == input.s
             value == TryDerToP1363(input.der)
  <2>2. result[1] = value
    <3>1. result = <<value>>
      BY <2>1, Zenon DEF DerDone, IsResult
    <3> HIDE DEF value
    <3> QED BY <3>1
  <2>3. PICK d \in DerForms(r, s) : \E x \in Damaged(d) : input.whole = x.whole /\ input.der = x.der
    BY <2>1, Zenon DEF DerDone
  <2>4. PICK x \in Damaged(d) : input.whole = x.whole /\ input.der = x.der
    BY <2>3
  <2>5. r \in Seq(Nat) /\ r # <<>> /\ s \in Seq(Nat) /\ s # <<>>
    BY <2>1, Zenon DEF DerDone
  <2>6. CoordSize \in Nat \ {0}
    BY Parameters
  <2> HIDE DEF r, s
  <2>7. TryDerToP1363(x.der) =
          IF x.whole /\ Fits(r) /\ Fits(s)
          THEN [ok |-> TRUE, sig |-> AsCoord(r) \o AsCoord(s)]
          ELSE [ok |-> FALSE]
    BY <2>5, <2>6, DerRead
  <2> QED BY <2>2, <2>4, <2>7, Zenon DEF DerReadsNumbers, r, s
<1> QED BY <1>1, Invariance, PTL

=================================================================================
