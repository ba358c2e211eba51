------------------------------- MODULE Octets -------------------------------
(***************************************************************************)
(* What all messages are written with: self-delimiting numeric values      *)
(* (SDNV), numbers of a fixed number of octets, bits, and doubles.  A      *)
(* message is written as a list of fields, and read field by field from    *)
(* the front of the octets, whatever is behind them.                       *)
(***************************************************************************)
EXTENDS Integers, Sequences, SequencesExt

Octet == 0..255

-----------------------------------------------------------------------------
(* Bits: a word of flags is the set of the positions of its bits set.      *)

(* SetBit *)
SetBit(flags, bit, value) == IF value THEN flags \cup {bit} ELSE flags \ {bit}

(* GetBit *)
GetBit(flags, bit) == bit \in flags

(* The word as a number, and back: the bits above one, from the highest,   *)
(* and the bits from one on.                                               *)
Word(flags) ==
  LET above[k \in 0..21] ==
        IF k = 0 THEN 0 ELSE 2 * above[k - 1] + (IF 21 - k \in flags THEN 1 ELSE 0)
  IN  above[21]

FlagsOf(n) ==
  LET from[bit \in 0..21] == IF bit = 0 THEN n ELSE from[bit - 1] \div 2
  IN  {bit \in 0..20 : from[bit] % 2 = 1}

-----------------------------------------------------------------------------
(* SDNV *)

(* The groups of seven bits, the highest first. *)
Groups[n \in Nat] == IF n < 128 THEN <<n>> ELSE Append(Groups[n \div 128], n % 128)

(* Mutant: one octet for each full group. *)
FullGroups(n) == IF n < 256 THEN 1 ELSE Len(Groups[n])

EncodingLength(n) == Len(Groups[n])

(* All octets but the last have the highest bit set. *)
Encode(n) ==
  LET g == Groups[n]
  IN  [i \in DOMAIN g |-> IF i < Len(g) THEN g[i] + 128 ELSE g[i]]

(* The number of octets up to the first without the highest bit. *)
Span(bytes) == SelectInSeq(bytes, LAMBDA b : b < 128)

Decode(bytes) ==
  LET sum[i \in 0..Span(bytes)] == IF i = 0 THEN 0 ELSE sum[i - 1] * 128 + (bytes[i] % 128)
  IN  sum[Span(bytes)]

-----------------------------------------------------------------------------
(* Fixed widths *)

(* k octets of n, the lowest first. *)
LittleEndian(n, k) ==
  LET rest[i \in 0..k] == IF i = 0 THEN n ELSE rest[i - 1] \div 256
  IN  [i \in 1..k |-> rest[i - 1] % 256]

(* WriteHtonU16 and WriteHtonU32: the highest first. *)
BigEndian(n, k) == Reverse(LittleEndian(n, k))

FromLittleEndian(bytes) ==
  LET k == Len(bytes)
      sum[i \in 0..k] == IF i = 0 THEN 0 ELSE sum[i - 1] * 256 + bytes[k + 1 - i]
  IN  sum[k]

-----------------------------------------------------------------------------
(* A field is its type and its value.                                      *)

Wide == [u8 |-> 1, hton16 |-> 2, hton32 |-> 4, u32 |-> 4, double |-> 8]

Write(field) ==
  LET type == field[1]  value == field[2]
  IN  CASE type = "sdnv" -> Encode(value)
        [] type = "octets" -> value
        [] type \in {"hton16", "hton32"} -> BigEndian(value, Wide[type])
        [] OTHER -> LittleEndian(value, Wide[type])

(* The octets of a list of fields. *)
WriteAll(fields) ==
  LET upTo[i \in 0..Len(fields)] == IF i = 0 THEN <<>> ELSE upTo[i - 1] \o Write(fields[i])
  IN  upTo[Len(fields)]

(* How many octets the next field of a type takes. *)
Takes(type, bytes) == IF type = "sdnv" THEN Span(bytes) ELSE Wide[type]

ValueOf(type, bytes) ==
  CASE type = "sdnv" -> Decode(bytes)
    [] type \in {"hton16", "hton32"} -> FromLittleEndian(Reverse(SubSeq(bytes, 1, Wide[type])))
    [] OTHER -> FromLittleEndian(SubSeq(bytes, 1, Wide[type]))

(* A reader has the values that it has read, and the octets left. *)
Reader(bytes) == [got |-> <<>>, left |-> bytes]

Skip(r, k) == [r EXCEPT !.left = SubSeq(@, k + 1, Len(@))]

Next1(r, type) ==
  [Skip(r, Takes(type, r.left)) EXCEPT !.got = Append(r.got, ValueOf(type, r.left))]

(* The fields of the types given, one after the other. *)
ReadAll(r, types) ==
  LET after[i \in 0..Len(types)] == IF i = 0 THEN r ELSE Next1(after[i - 1], types[i])
  IN  after[Len(types)]
=============================================================================
