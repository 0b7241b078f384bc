---------------------------- MODULE Asn1Decoder ----------------------------
(***************************************************************************)
(* The ASN.1 decoder (utils/helpers/asn1-decoder.ts), by which the tests   *)
(* compare a DER-encoded key they were given with the raw key the nodes    *)
(* report.  Data is a sequence of bytes; a position counts from 0, as in   *)
(* the source.  A reader returns what it read and the position after it.   *)
(***************************************************************************)
EXTENDS Integers, Sequences, SequencesExt

\* value << bits on a signed 32-bit integer, with the low bits those of b.
ShiftIn(value, bits, b) ==
  LET kept == 2^(32 - bits)
      low  == value % kept
  IN (IF low >= kept \div 2 THEN low - kept ELSE low) * 2^bits + b

Byte(data, pos) == data[pos + 1]
Slice(data, pos, n) == SubSeq(data, pos + 1, pos + n)

BigEndian(bytes) == FoldLeft(LAMBDA v, b : ShiftIn(v, 8, b), 0, bytes)

\* Mutant: every length is one byte.
ReadShortLength(data, pos) == [length |-> Byte(data, pos), pos |-> pos + 1]

\* One byte, or the number of the bytes that hold the length.
ReadLength(data, pos) ==
  LET first == Byte(data, pos)
      numBytes == first - 128
  IN IF first < 128
     THEN [length |-> first, pos |-> pos + 1]
     ELSE [length |-> BigEndian(Slice(data, pos + 1, numBytes)),
           pos |-> pos + 1 + numBytes]

Item(type, value, pos) == [type |-> type, value |-> value, pos |-> pos]

ReadInteger(data, l) ==
  Item("integer", BigEndian(Slice(data, l.pos, l.length)), l.pos + l.length)

ReadOctetString(data, l) ==
  Item("pkey", Slice(data, l.pos, l.length), l.pos + l.length)

\* The byte ahead of the content counts the unused bits.
ReadBitString(data, l) ==
  Item("pubkey", Slice(data, l.pos + 1, l.length - 1), l.pos + l.length)

\* The first byte holds two numbers, the others come in groups of 7 bits.
ReadObjectIdentifier(data, l) ==
  LET first == Byte(data, l.pos)
      Group(acc, b) ==
        LET v == ShiftIn(acc.value, 7, b % 128) IN
        IF b < 128 THEN [oid |-> Append(acc.oid, v), value |-> 0]
                   ELSE [acc EXCEPT !.value = v]
  IN Item("oid",
          FoldLeft(Group, [oid |-> <<first \div 40, first % 40>>, value |-> 0],
                   Slice(data, l.pos + 1, l.length - 1)).oid,
          l.pos + l.length)

Sequences30 == {48, 160, 161}   \* 0x30, 0xa0 and 0xa1
Unsupported(pos) == Item("error", <<>>, pos)

RECURSIVE Read(_, _), ReadItems(_, _, _)

\* readSequence's loop; an error inside is thrown through it.
ReadItems(data, items, endPos) ==
  IF items.pos >= endPos THEN items
  ELSE LET item == Read(data, items.pos) IN
       IF item.type = "error" THEN item
       ELSE ReadItems(data,
                      Item("sequence", Append(items.value, item), item.pos), endPos)

Read(data, pos) ==
  LET type == Byte(data, pos)
      l == ReadLength(data, pos + 1)
  IN CASE type = 2 -> ReadInteger(data, l)
       [] type = 3 -> ReadBitString(data, l)
       [] type = 4 -> ReadOctetString(data, l)
       [] type = 6 -> ReadObjectIdentifier(data, l)
       [] type \in Sequences30 ->
            ReadItems(data, Item("sequence", <<>>, l.pos), l.pos + l.length)
       [] OTHER -> Unsupported(pos)

NoKey == <<-1>>   \* an error was thrown

\* The first key among the items of the outermost sequence, nested ones not
\* looked into.
getRawKey(data) ==
  LET top == Read(data, 0)
      keys == SelectSeq(top.value, LAMBDA i : i.type \in {"pubkey", "pkey"})
  IN IF top.type # "sequence" \/ keys = <<>> THEN NoKey ELSE keys[1].value
=============================================================================
