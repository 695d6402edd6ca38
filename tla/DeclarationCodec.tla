-------------------------- MODULE DeclarationCodec --------------------------
(***************************************************************************)
(* The MigrationDeclaration codec of package migrations (MarshalBinary and *)
(* UnmarshalBinary, in src/.github/workflows/kgw-test-reuse.yaml), and the *)
(* byte order of encoded payloads that the tie-break of spec §4.D uses.    *)
(*                                                                         *)
(* MarshalBinary writes the uint16 version, ActivationPeriod and Duration  *)
(* as uint64 in types.SerializationByteOrder, then types.WriteString of    *)
(* the Timestamp: its length, then its bytes.  UnmarshalBinary reads them  *)
(* back in that order and returns the first error: a short read            *)
(* (Truncated) or a version other than migrationDeclarationVersion         *)
(* (UnknownVersion).  It never looks at what follows the Timestamp.  The   *)
(* byte order and the length prefix are those of spec §3 (types is not     *)
(* under src/).  The number of byte values and the field widths are        *)
(* parameters, so that TLC can enumerate every byte string of a scaled-down *)
(* form.                                                                   *)
(***************************************************************************)
EXTENDS Naturals, Sequences, SequencesExt

CONSTANTS
    Base,          \* number of byte values (256)
    VersionBytes,  \* width of the version word (2, a uint16)
    WordBytes,     \* width of ActivationPeriod and Duration (8, a uint64)
    LenBytes,      \* width of len(Timestamp)
    MaxPayload     \* bound on the length of the checked byte strings

VARIABLE payload   \* a byte string handed to decode

Bytes == 0..(Base - 1)

\* migrationDeclarationVersion.
CurrentVersion == 0

\* UnmarshalBinary's errors, as records so that they compare with
\* declarations: a read past the end, and an unknown version.
Truncated      == [err |-> "Truncated"]
UnknownVersion == [err |-> "UnknownVersion"]
Errors == {Truncated, UnknownVersion}

\* n as w little-endian bytes, and back.
LE(n, w) == [i \in 1..w |-> (n \div Base^(i - 1)) % Base]
FromLE(s) == FoldRight(LAMBDA x, acc : x + Base * acc, s, 0)

\* Offset of len(Timestamp), and the length of the fixed-width header.
LenAt  == VersionBytes + 2 * WordBytes + 1
Header == VersionBytes + 2 * WordBytes + LenBytes

\* The w-byte field of b that begins at position at.
Field(b, at, w) == FromLE(SubSeq(b, at, at + w - 1))

\* MarshalBinary.
Encode(d) ==
    LE(CurrentVersion, VersionBytes) \o LE(d.activation, WordBytes)
      \o LE(d.duration, WordBytes) \o LE(Len(d.ts), LenBytes) \o d.ts

\* UnmarshalBinary: the version, which must be the current one, the two
\* words, then ReadString's length and exactly that many bytes.
Decode(b) ==
    LET n == Field(b, LenAt, LenBytes) IN
    IF Len(b) < VersionBytes THEN Truncated
    ELSE IF Field(b, 1, VersionBytes) # CurrentVersion THEN UnknownVersion
    ELSE IF Len(b) < Header \/ Len(b) < Header + n THEN Truncated
    ELSE [activation |-> Field(b, VersionBytes + 1, WordBytes),
          duration   |-> Field(b, VersionBytes + WordBytes + 1, WordBytes),
          ts         |-> SubSeq(b, Header + 1, Header + n)]

\* Ascending order of byte strings, as the tie-break of §4.D compares
\* serialized payloads.
RECURSIVE BytesLess(_, _)
BytesLess(s, t) ==
    IF s = <<>> THEN t # <<>>
    ELSE IF t = <<>> THEN FALSE
    ELSE IF Head(s) # Head(t) THEN Head(s) < Head(t)
    ELSE BytesLess(Tail(s), Tail(t))

-----------------------------------------------------------------------------

Init == payload \in BoundedSeq(Bytes, MaxPayload)

Next == UNCHANGED payload

Spec == Init /\ [][Next]_payload

\* §4.A "encode(decode(x)) = x holds for every accepted payload", with
\* TrailingBytes for unread bytes after the Timestamp: every byte string
\* UnmarshalBinary accepts is the MarshalBinary of what it decodes to, so
\* two resolution bodies that the vote store tells apart never decode to
\* one declaration.
Canonical ==
    Decode(payload) \notin Errors => Encode(Decode(payload)) = payload

=============================================================================
