------------------------------- MODULE Polyline -------------------------------
(***************************************************************************)
(* The polyline codec of internal/service/valhalla.go.  encodePolyline     *)
(* writes each coordinate as its difference to the one before, in groups   *)
(* of five bits, lowest first, every group but the last with a             *)
(* continuation bit; decodePolyline reads them back, one byte per step of  *)
(* this module.                                                            *)
(*                                                                         *)
(* Coordinates are the integers the code works with, millionths of a       *)
(* degree, and a byte is given without the 63 added to make it printable.  *)
(* ShapeCountries goes on with the points decoded.                         *)
(***************************************************************************)
EXTENDS Integers, SequencesExt

CONSTANTS
    Lines           \* the lines encoded: sequences of <<latitude, longitude>>

ASSUME LineAssumption == \A l \in Lines : l \in Seq(Int \X Int)

VARIABLES
    points,     \* the line encoded
    encoded,    \* its bytes
    index,      \* the decoder: bytes read,
    unit,       \* what the next group of the value being read counts: 1 << shift,
    value,      \* that value so far (result),
    axis,       \* which coordinate it is of: 1 latitude, 2 longitude,
    at,         \* the last point's latitude and longitude
    decoded     \* and the points read

codecVars == <<points, encoded, index, unit, value, axis, at, decoded>>

Origin == <<0, 0>>

-----------------------------------------------------------------------------
(* encodePolyline *)

\* The sign goes to the lowest bit: v << 1, complemented when negative.
ZigZag(v) == IF v < 0 THEN -2 * v - 1 ELSE 2 * v

Groups[u \in Nat] ==
    IF u < 32 THEN <<u>> ELSE <<32 + (u % 32)>> \o Groups[u \div 32]

\* encodePolylineValue.
Bytes(v) == Groups[ZigZag(v)]

\* Mistake: every point is encoded from the origin.
Previous_Origin(line, i) == Origin

Previous(line, i) == IF i = 1 THEN Origin ELSE line[i - 1]

Encode(line) ==
    FlattenSeq([i \in DOMAIN line |->
        LET p == Previous(line, i)
        IN  Bytes(line[i][1] - p[1]) \o Bytes(line[i][2] - p[2])])

CodecInit ==
    /\ points \in Lines
    /\ encoded = Encode(points)
    /\ index = 0
    /\ unit = 1
    /\ value = 0
    /\ axis = 1
    /\ at = Origin
    /\ decoded = <<>>

-----------------------------------------------------------------------------
(* decodePolyline *)

Byte == encoded[index + 1]

Signed(u) == IF u % 2 = 1 THEN -(u \div 2) - 1 ELSE u \div 2

\* A byte with the continuation bit: more of the value follows.
ReadGroup ==
    /\ index < Len(encoded)
    /\ Byte >= 32
    /\ value' = value + (Byte % 32) * unit
    /\ unit' = 32 * unit
    /\ index' = index + 1
    /\ UNCHANGED <<points, encoded, axis, at, decoded>>

\* The last byte of a value: the coordinate moves, and behind a longitude the
\* point is complete.
ReadLast ==
    /\ index < Len(encoded)
    /\ Byte < 32
    /\ at' = [at EXCEPT ![axis] = @ + Signed(value + Byte * unit)]
    /\ decoded' = IF axis = 2 THEN Append(decoded, at') ELSE decoded
    /\ axis' = 3 - axis
    /\ value' = 0
    /\ unit' = 1
    /\ index' = index + 1
    /\ UNCHANGED <<points, encoded>>

Finished == index = Len(encoded)

Decode == ReadGroup \/ ReadLast

-----------------------------------------------------------------------------
(* Properties *)

\* Decoding gives back every line encoded, point by point as it reads, with
\* differences of either sign and of any number of groups, and never wants a
\* byte behind the last one, an index out of range in the code: the bytes end
\* where a point does (valhalla.go:698-735; 738-739, "the inverse of
\* decodePolyline").
RoundTrip ==
    /\ IsPrefix(decoded, points)
    /\ Finished => decoded = points /\ unit = 1 /\ axis = 1

=============================================================================
