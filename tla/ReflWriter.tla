----------------------------- MODULE ReflWriter -----------------------------
(***************************************************************************)
(* ReflWriter::WriteBinary: the reflection info as a sequence of bytes.    *)
(* The letters and versions of the header, the same for every shader, are  *)
(* left out, and a name, which goes with its length, counts as one byte.   *)
(*                                                                         *)
(* The repository has no reader of the format: ReadBinary is what one has  *)
(* to do, knowing nothing but the bytes.                                   *)
(***************************************************************************)
EXTENDS TopLevel

LE16(n) == <<n % 256, (n \div 256) % 256>>
LE32(n) == LE16(n % 65536) \o LE16(n \div 65536)

\* Faulty variant for the mutation runs: a variable that is no array has one.
CountByte(vt) == Uint8(vt.count)

ArrayByte(vt) == IF vt.is_array THEN Uint8(vt.count) ELSE 0

StageBits == (IF "Vertex" \in stages THEN 1 ELSE 0) + (IF "Fragment" \in stages THEN 16 ELSE 0)

\* A set of member numbers as the list the code keeps.
Ascending(S) == [k \in 1 .. Cardinality(S) |->
                   CHOOSE i \in S : Cardinality({j \in S : j < i}) = k - 1]

AttributeRow(a) == <<a.name, a.type.type, ArrayByte(a.type), a.location, a.slot_count>>
OutputRow(o)    == <<o.name, o.type.type, o.location>>
UniformRow(u)   == <<u.name, u.type.type, u.type.extra, ArrayByte(u.type), u.set, u.binding,
                     u.block.index>> \o LE16(u.block.offset) \o LE16(u.block.size)
BlockRow(b)     == <<b.set, b.binding>> \o LE16(b.size) \o <<IF b.packed THEN 1 ELSE 0>>
                   \o <<Uint8(Cardinality(b.members))>> \o Ascending(b.members)
PushRow(p)      == <<p.name, p.type.type, ArrayByte(p.type)>> \o LE16(p.offset) \o LE16(p.size)
SpecRow(s)      == <<s.name, s.type.type, s.index, Uint8(s.size)>> \o LE32(s.default_value)

Each(s, Op(_)) == [i \in DOMAIN s |-> Op(s[i])]

\* A table: how many rows, then the rows.
Table(rows) == <<Uint8(Len(rows))>> \o FlattenSeq(rows)

WriteBinary ==
  <<0, StageBits>>
  \o Table(Each(attributes, AttributeRow)) \o Table(Each(outputs, OutputRow))
  \o Table(Each(uniforms, UniformRow)) \o Table(Each(blocks, BlockRow))
  \o Table(Each(push_constants, PushRow)) \o Table(Each(spec_constants, SpecRow))
-----------------------------------------------------------------------------
(* Reading: each table starts where the one before it ends. *)
From16(bytes, p) == bytes[p] + 256 * bytes[p + 1]
From32(bytes, p) == From16(bytes, p) + 65536 * From16(bytes, p + 2)
ReadType(code, count, extra) ==
  [type |-> code, is_array |-> count # 0, count |-> IF count = 0 THEN 1 ELSE count, extra |-> extra]

\* Rows of one width, from the count at position p on.
RowsAt(bytes, p, width) ==
  [k \in 1 .. bytes[p] |-> [j \in 1 .. width |-> bytes[p + (k - 1) * width + j]]]
After(bytes, p, width) == p + 1 + bytes[p] * width

ReadAttribute(r) == [name |-> r[1], type |-> ReadType(r[2], r[3], 0), location |-> r[4],
                     slot_count |-> r[5]]
ReadOutput(r) == [name |-> r[1], type |-> ReadType(r[2], 0, 0), location |-> r[3]]
ReadUniform(r) ==
  [name |-> r[1], type |-> ReadType(r[2], r[4], r[3]), set |-> r[5], binding |-> r[6],
   block |-> [index |-> r[7], offset |-> From16(r, 8), size |-> From16(r, 10)]]
ReadPush(r) == [name |-> r[1], type |-> ReadType(r[2], r[3], 0), offset |-> From16(r, 4),
                size |-> From16(r, 6)]
ReadSpec(r) == [name |-> r[1], type |-> ReadType(r[2], 0, 0), index |-> r[3], size |-> r[4],
                default_value |-> From32(r, 5)]

\* A block is as long as its number of members makes it: start is where the
\* next one begins.
ReadBlock(acc, bytes) ==
  LET p == acc.start
      n == bytes[p + 5]
  IN [start |-> p + 6 + n,
      rows  |-> Append(acc.rows,
                  [set |-> bytes[p], binding |-> bytes[p + 1],
                   size |-> From16(bytes, p + 2), packed |-> bytes[p + 4] = 1,
                   members |-> {bytes[p + 5 + k] : k \in 1 .. n}])]
ReadBlocks(bytes, p) ==
  LET found[k \in 0 .. bytes[p]] ==
        IF k = 0 THEN [start |-> p + 1, rows |-> <<>>] ELSE ReadBlock(found[k - 1], bytes)
  IN found[bytes[p]]

ReadBinary(bytes) ==
  LET outs   == After(bytes, 3, 5)
      unifs  == After(bytes, outs, 3)
      found  == ReadBlocks(bytes, After(bytes, unifs, 11))
      pushes == found.start
      specs  == After(bytes, pushes, 7)
  IN
  <<{s \in Stages : bytes[2] \in {17, IF s = "Vertex" THEN 1 ELSE 16}},
    Each(RowsAt(bytes, 3, 5), ReadAttribute), Each(RowsAt(bytes, outs, 3), ReadOutput),
    Each(RowsAt(bytes, unifs, 11), ReadUniform), found.rows,
    Each(RowsAt(bytes, pushes, 7), ReadPush), Each(RowsAt(bytes, specs, 8), ReadSpec)>>

\* The binary file of an accepted shader says all that the reflection info
\* does (but for the size of the push block as a whole): tables of any size
\* in a row can be told apart, arrays of one from variables that are none.
BinaryReadsBack ==
  status = "done" =>
    ReadBinary(WriteBinary) = <<stages, attributes, outputs, uniforms, blocks, push_constants,
                                spec_constants>>
=============================================================================
