---------------------------- MODULE SignatureFormat ----------------------------
(***************************************************************************)
(* The two encodings of an ECDSA signature: P1363, which is two numbers of  *)
(* CoordSize bytes, and the DER SEQUENCE of two INTEGERs.  EcdsaSigner      *)
(* writes DER from P1363, EcdsaVerifier reads P1363 from DER, each by hand. *)
(***************************************************************************)
EXTENDS Naturals, Sequences

CONSTANT CoordSize \* P256CoordSize, half of a P1363 signature

Zeros(n) == [i \in 1..n |-> 0]

\* Without leading zeros, but for the last byte.
Trim(value) ==
  LET start == CHOOSE i \in 1..Len(value) :
                 /\ i = Len(value) \/ value[i] # 0
                 /\ \A j \in 1..(i - 1) : value[j] = 0
  IN SubSeq(value, start, Len(value))

----------------------------------------------------------------------------
(* EcdsaSigner.                                                            *)

\* WriteLength
WriteLength(n) ==
  IF n < 128 THEN <<n>>
  ELSE IF n < 256 THEN <<129, n>>
  ELSE <<130, n \div 256, n % 256>>

\* EncodeInteger: a high bit needs a zero in front, or the number would be negative.
EncodeInteger_NoPad(value) == LET v == Trim(value) IN <<2>> \o WriteLength(Len(v)) \o v

EncodeInteger(value) ==
  LET v == Trim(value)
      content == IF v[1] >= 128 THEN <<0>> \o v ELSE v
  IN <<2>> \o WriteLength(Len(content)) \o content

P1363ToDer(sig) ==
  LET half == Len(sig) \div 2
      content == EncodeInteger(SubSeq(sig, 1, half))
                   \o EncodeInteger(SubSeq(sig, half + 1, Len(sig)))
  IN <<48>> \o WriteLength(Len(content)) \o content

----------------------------------------------------------------------------
(* EcdsaVerifier.  Positions begin at 1; a length that cannot be read, or a *)
(* signature that is refused, has ok = FALSE.                               *)

No == [ok |-> FALSE]

\* ReadDerLength: one byte, or one or two behind a byte that says how many.
ReadDerLength(der, pos) ==
  IF pos > Len(der) THEN No
  ELSE LET b == der[pos]
           k == b - 128
       IN IF b < 128 THEN [ok |-> TRUE, len |-> b, next |-> pos + 1]
          ELSE IF k \notin 1..2 \/ pos + k > Len(der) THEN No
          ELSE [ok |-> TRUE, next |-> pos + 1 + k,
                len |-> IF k = 1 THEN der[pos + 1] ELSE 256 * der[pos + 1] + der[pos + 2]]

\* The INTEGER at pos: its content and the position behind it.
ReadInteger(der, pos) ==
  IF pos > Len(der) \/ der[pos] # 2 THEN No
  ELSE LET l == ReadDerLength(der, pos + 1)
       IN IF ~l.ok THEN No
          ELSE IF l.len = 0 \/ l.next + l.len > Len(der) + 1 THEN No
          ELSE [ok |-> TRUE, next |-> l.next + l.len,
                content |-> SubSeq(der, l.next, l.next + l.len - 1)]

\* TryFitCoord
FitCoord(v) ==
  IF Len(Trim(v)) > CoordSize THEN No
  ELSE [ok |-> TRUE, coord |-> Zeros(CoordSize - Len(Trim(v))) \o Trim(v)]

\* Two coordinates behind each other.
Both(r, s) == IF r.ok /\ s.ok THEN [ok |-> TRUE, sig |-> r.coord \o s.coord] ELSE No

\* A reader that does not look behind the second INTEGER.
TryDerToP1363_IgnoresTail(der) ==
  IF Len(der) < 8 \/ der[1] # 48 THEN No
  ELSE LET seq == ReadDerLength(der, 2)
           r == IF seq.ok THEN ReadInteger(der, seq.next) ELSE No
           s == IF r.ok THEN ReadInteger(der, r.next) ELSE No
       IN IF ~s.ok THEN No ELSE Both(FitCoord(r.content), FitCoord(s.content))

TryDerToP1363(der) ==
  IF Len(der) < 8 \/ der[1] # 48 THEN No
  ELSE LET seq == ReadDerLength(der, 2)
           r == IF seq.ok THEN ReadInteger(der, seq.next) ELSE No
           s == IF r.ok THEN ReadInteger(der, r.next) ELSE No
       IN IF ~s.ok THEN No
          ELSE IF seq.next + seq.len # Len(der) + 1 \/ s.next # Len(der) + 1 THEN No
          ELSE Both(FitCoord(r.content), FitCoord(s.content))

----------------------------------------------------------------------------
(* What they are compared with.                                            *)

\* A length in one of the forms DER readers meet: short, or in one or two bytes.
LengthForms(n) ==
  {<<130, n \div 256, n % 256>>}
    \cup (IF n < 256 THEN {<<129, n>>} ELSE {})
    \cup (IF n < 128 THEN {<<n>>} ELSE {})

\* An INTEGER of content v and a SEQUENCE of content c, with length l.
Integer(l, v) == <<2>> \o l \o v
Sequence(l, c) == <<48>> \o l \o c

\* Every way to write a signature with these integer contents.
DerForms(r, s) ==
  LET ints(v) == {Integer(l, v) : l \in LengthForms(Len(v))}
      bodies == {a \o b : a \in ints(r), b \in ints(s)}
  IN UNION {{Sequence(l, c) : l \in LengthForms(Len(c))} : c \in bodies}

\* The content of a positive INTEGER, in as few bytes as its sign allows.
IsMinimal(v) == v[1] < 128 /\ (Len(v) > 1 /\ v[1] = 0 => v[2] >= 128)

\* A content as a number of CoordSize bytes, if it is small enough.
Fits(v) == \A i \in 1..Len(v) : i <= Len(v) - CoordSize => v[i] = 0
AsCoord(v) ==
  [i \in 1..CoordSize |-> IF i + Len(v) > CoordSize THEN v[i + Len(v) - CoordSize] ELSE 0]
=============================================================================
