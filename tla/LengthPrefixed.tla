---------------------------- MODULE LengthPrefixed ----------------------------
(***************************************************************************)
(* The prefix of a namespace, src/prefixed_storage/length_prefixed.rs.  A   *)
(* byte is a number below Base (256), a name, a key or a prefix a sequence  *)
(* of bytes; a length takes two of them, most significant first.            *)
(***************************************************************************)
EXTENDS Naturals, Sequences

CONSTANT Base  \* the number of values of a byte

ASSUME BaseAssumption == Base \in Nat /\ Base > 1

Byte == 0 .. Base - 1

EncodeLength(namespace) == <<Len(namespace) \div Base, Len(namespace) % Base>>

\* Mutant of ToLengthPrefixed: the name without its length.
ToLengthPrefixedBare(namespace) == namespace

ToLengthPrefixed(namespace) == EncodeLength(namespace) \o namespace
=============================================================================
