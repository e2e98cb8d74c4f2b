------------------------------ MODULE MCFormats ------------------------------
(***************************************************************************)
(* The instance of Formats for TLC; the other inputs are in MCFormats.cfg. *)
(***************************************************************************)
EXTENDS Formats

\* One byte of every kind the reader tells apart, but the eight-byte width.
CborBytes == {0, 2, 24, 25, 26, 31, 32, 65, 88, 97, 130, 161, 192, 245, 246}

\* Eight-byte arguments of every major type, from 0 and 1 to both sides of the limits of
\* Int64 and UInt64, at the top, in an array and as a key or an element of a pair, with
\* what may follow.
WideCbor ==
  {outer \o <<32 * mt + 27, high, middle, middle, middle, middle, middle, middle, low>> \o rest :
     outer \in {<<>>, <<129>>, <<130>>, <<161>>, <<0>>},
     mt \in 0..5, high \in {0, 127, 128, 255}, middle \in {0, 255}, low \in {0, 1, 2, 255},
     rest \in Strings({0, 59, 97, 246}, 0, 2)}

CborOfInterest == Strings(CborBytes, 0, 5) \cup WideCbor
=============================================================================
