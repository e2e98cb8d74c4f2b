------------------------------- MODULE Formats -------------------------------
(***************************************************************************)
(* CborFormat and SignatureFormat, compared with their reference            *)
(* definitions over bounded inputs: one step computes the result of one     *)
(* input, and the invariants say what it must be.                           *)
(***************************************************************************)
EXTENDS CborFormat, SignatureFormat

CONSTANTS
  CborInputs, \* CBOR inputs
  Arguments,  \* arguments of headers
  CoordBytes, \* bytes of coordinates
  DerBytes,   \* bytes of DER INTEGERs
  MaxDer      \* length of DER INTEGERs

\* The length of a coordinate or of a DER INTEGER up to which two bytes are enough for
\* the length of a signature in any of its forms.
Longest == 32000

Byte == 0..255

\* CBOR inputs are bytes, and shorter than Huge.
CborAssumption == \A buf \in CborInputs : buf \in Seq(Byte) /\ Len(buf) < Huge

\* Bytes are bytes; an argument has at most four, and a DER length at most two behind
\* its first.
FormatsAssumption ==
  /\ CoordBytes \cup DerBytes \subseteq Byte
  /\ \A n \in Arguments : n \in Nat /\ n \div 65536 < 65536
  /\ CoordSize \in 1..Longest /\ MaxDer \in 1..Longest

ASSUME CborAssumption
ASSUME FormatsAssumption

VARIABLES input, result

Strings(bytes, min, max) == UNION {[1..n -> bytes] : n \in min..max}

\* Whole signatures of any form, and signatures one byte short or one byte too long.
Damaged(der) ==
  {[whole |-> TRUE, der |-> der],
   [whole |-> FALSE, der |-> SubSeq(der, 1, Len(der) - 1)],
   [whole |-> FALSE, der |-> Append(der, 0)]}

Init ==
  /\ result = <<>>
  /\ \/ input \in [kind : {"cbor"}, buf : CborInputs]
     \/ input \in [kind : {"keys"}, mt1 : 0..1, n1 : Arguments, mt2 : 0..1, n2 : Arguments]
     \/ input \in [kind : {"header"}, mt : 0..5, n : Arguments]
     \/ input \in [kind : {"signature"}, sig : [1..(2 * CoordSize) -> CoordBytes]]
     \/ \E r, s \in Strings(DerBytes, 1, MaxDer) : \E d \in DerForms(r, s) :
          \E x \in Damaged(d) :
            input = [kind |-> "der", r |-> r, s |-> s, whole |-> x.whole, der |-> x.der]

Compute(kind, value) ==
  /\ input.kind = kind
  /\ result = <<>>
  /\ result' = <<value>>
  /\ UNCHANGED input

Parse ==
  Compute("cbor", [skipped |-> SkipValue(input.buf, 1), read |-> ReadValue(input.buf, 1)])
Sort ==
  Compute("keys", Before(WriteTypeAndValue(input.mt1, input.n1),
                         WriteTypeAndValue(input.mt2, input.n2)))
Write == Compute("header", WriteTypeAndValue(input.mt, input.n))
Encode == Compute("signature", P1363ToDer(input.sig))
Decode == Compute("der", TryDerToP1363(input.der))

Next == Parse \/ Sort \/ Write \/ Encode \/ Decode

Spec == Init /\ [][Next]_<<input, result>>

Done(kind) == input.kind = kind /\ result # <<>>

----------------------------------------------------------------------------
(* Properties.                                                             *)

\* CborReader.SkipValue, by which ParseMakeCredentialCbor and ParseGetAssertionCbor find
\* the next key: it passes an item of CTAP2 as a whole, and nothing else.  Bytes that
\* begin with an item begin with no other.
SkipFindsItemEnd ==
  Done("cbor") =>
    LET skipped == result[1].skipped
    IN \A j \in 1..(Len(input.buf) + 1) : <<j, 1>> \in Items(input.buf, {})[1] <=> skipped = j

\* CborReader's typed reads and SkipValue walk over the same items: a key that one
\* parser reads and another skips ends at the same byte.  What the reads take and what
\* they leave to SkipValue are the items of CTAP2 without and with one, at any depth,
\* that is null, undefined or a negative integer out of Int64's range.
ReadsAgreeWithSkip ==
  Done("cbor") =>
    LET r == result[1]
    IN /\ r.read \in {0, r.skipped}
       /\ \A j \in 1..(Len(input.buf) + 1) :
            <<j, 1>> \in Items(input.buf, Unreadable(input.buf))[1] <=> r.read = j

\* CborWriter and CborReader agree on headers, at every boundary of their widths.
HeaderReadsBack ==
  Done("header") =>
    ReadInitialByte(Append(result[1], 0), 1)
      = [ok |-> TRUE, mt |-> input.mt, next |-> Len(result[1]) + 1,
         arg |-> IF input.n < Huge THEN input.n ELSE Huge]

\* CborWriter.WriteMap: "sorted by bytewise-lexicographic order of their encoded form",
\* which for COSE and CTAP2 keys is positive before negative, and small before large.
KeysSortByValue ==
  Done("keys") =>
    (result[1] <=> \/ input.mt1 < input.mt2
                   \/ input.mt1 = input.mt2 /\ input.n1 < input.n2)

\* EcdsaSigner.P1363ToDer writes positive, minimal INTEGERs of the same numbers, and
\* EcdsaVerifier reads the signature back.
SignatureReadsBack ==
  Done("signature") =>
    LET der == result[1]
        r == ReadInteger(der, ReadDerLength(der, 2).next)
        s == ReadInteger(der, r.next)
    IN /\ TryDerToP1363(der) = [ok |-> TRUE, sig |-> input.sig]
       /\ IsMinimal(r.content) /\ IsMinimal(s.content)

\* EcdsaVerifier.TryDerToP1363 takes a signature in every form of its lengths and with
\* any padding for the numbers it stands for, and takes nothing that is cut off, goes on
\* or is too large.
DerReadsNumbers ==
  Done("der") =>
    result[1] = IF input.whole /\ Fits(input.r) /\ Fits(input.s)
                THEN [ok |-> TRUE, sig |-> AsCoord(input.r) \o AsCoord(input.s)]
                ELSE [ok |-> FALSE]
=============================================================================
