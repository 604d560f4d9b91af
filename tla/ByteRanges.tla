------------------------------ MODULE ByteRanges ------------------------------
(***************************************************************************)
(* The offsets of BasicFile: how write_bytes cuts a buffer into copies to  *)
(* blocks, how read_bytes puts one together, how many blocks a size takes. *)
(* Positions count from 0, as in the code; a block is a function from      *)
(* 0..BlockSize-1 to bytes, a buffer one from 0..size-1.                   *)
(***************************************************************************)
EXTENDS Integers

CONSTANT BlockSize

ASSUME BlockSizeAssumption == BlockSize \in Nat \ {0}

Places == 0..BlockSize-1

\* The number of blocks of a file: resize and BasicFile::get.
Blocks(size) == IF size > 0 THEN (size - 1) \div BlockSize + 1 ELSE 0

start_index(offset) == offset \div BlockSize
end_index(offset, size) == (offset + size - 1) \div BlockSize
cblock(offset) == offset - start_index(offset) * BlockSize

\* memcpy_s: n bytes of buf, from cbuf on, to the block, from place on.
Copy(block, place, buf, cbuf, n) ==
  [i \in Places |-> IF place <= i /\ i < place + n THEN buf[cbuf + (i - place)]
                                                   ELSE block[i]]

\* The bytes copied when write_bytes is at block k (cbuf).  (A slip: cbuf goes
\* on by what was copied to an inner block.)
BeforeCopied(offset, k) ==
  (k - start_index(offset)) * (BlockSize - cblock(offset))
Before(offset, k) ==
  IF k = start_index(offset) THEN 0
  ELSE (BlockSize - cblock(offset)) + (k - start_index(offset) - 1) * BlockSize

\* What it copies to block k: to where, and how much; to the last block what is
\* left of the buffer, to one between as much as to the first.
WriteTo(offset, size, k) ==
  [place |-> IF k = start_index(offset) THEN cblock(offset) ELSE 0,
   n     |-> IF k = end_index(offset, size) THEN size - Before(offset, k)
                                            ELSE BlockSize - cblock(offset)]

WriteBlock(block, offset, size, buf, k) ==
  Copy(block, WriteTo(offset, size, k).place, buf, Before(offset, k),
       WriteTo(offset, size, k).n)

\* read_bytes: as much of the range as the file has, ...
to_read(filesize, offset, size) ==
  IF offset >= filesize THEN 0
  ELSE IF size < filesize - offset THEN size ELSE filesize - offset

\* ... the rest of the first block, then blocks from their beginning: where
\* the byte j of the answer comes from.
ReadFrom(offset, j) ==
  IF j < BlockSize - cblock(offset)
  THEN [index |-> start_index(offset), place |-> cblock(offset) + j]
  ELSE LET rest == j - (BlockSize - cblock(offset))
       IN [index |-> start_index(offset) + 1 + rest \div BlockSize,
           place |-> rest % BlockSize]

ReadBytes(blocks, filesize, offset, size) ==
  [j \in 0..to_read(filesize, offset, size)-1 |->
     blocks[ReadFrom(offset, j).index][ReadFrom(offset, j).place]]
=============================================================================
