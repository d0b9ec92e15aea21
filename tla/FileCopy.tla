------------------------------ MODULE FileCopy ------------------------------
(***************************************************************************)
(* libutils/file_lib.c: reading and copying files by system calls that may *)
(* do less than they were asked for, or fail.  FileSparseCopy has two      *)
(* builds, one that moves blocks and one that asks the kernel to copy what *)
(* is not a hole; File_Copy goes through stdio, and FileReadFromFd reads   *)
(* into a writer.  An interrupted call is made again, a stuttering step.   *)
(* Bytes are 0 and 1, descriptors are open, the new file is empty and      *)
(* nobody else changes the files.                                          *)
(***************************************************************************)
EXTENDS Naturals, Sequences, SequencesExt, FiniteSetsExt

CONSTANTS MAX_FILE,          \* bound: size of the source
          BLK_SIZE,          \* size of a block, also of the stdio buffer
          MAX_READ           \* max_size of FileReadFromFd

ASSUME CopyAssumption == MAX_FILE \in Nat /\ BLK_SIZE \in Nat \ {0} /\ MAX_READ \in Nat

VARIABLES src,               \* the source
          holes,             \* offsets in the source that are in holes
          dst,               \* the new file, or what is in the writer
          cp                 \* the call

copyVars == <<src, holes, dst, cp>>

Start == [shovel |-> "read", smart |-> "clone", stdio |-> "open", read |-> "fill"]

CopyInit ==
  /\ src \in UNION {[1..n -> {0, 1}] : n \in 0..MAX_FILE}
  /\ holes \in SUBSET {i - 1 : i \in {j \in DOMAIN src : src[j] = 0}}
  /\ dst = <<>>
  /\ \E how \in DOMAIN Start :
       cp = [how |-> how, pc |-> Start[how],
             pos |-> 0,          \* offset in the source
             off |-> 0,          \* offset in the new file
             out_pos |-> 0,      \* the same as the code counts it
             buf |-> <<>>, eof |-> FALSE,
             total |-> 0,        \* total_bytes_written
             hole |-> FALSE,     \* last_write_was_a_hole
             truncated |-> FALSE,
             idle |-> FALSE,     \* did the kernel leave data where it is?
             ret |-> TRUE]

Shorter(a, b) == IF a < b THEN a ELSE b
Remaining == Len(src) - cp.pos
Chunk(n) == SubSeq(src, cp.pos + 1, cp.pos + n)

\* A file with bytes written at an offset, zeros where nothing was written.
WrittenAt(file, off, bytes) ==
  [i \in 1..(IF Len(file) > off + Len(bytes) THEN Len(file) ELSE off + Len(bytes)) |->
     IF i > off /\ i <= off + Len(bytes) THEN bytes[i - off] ELSE IF i <= Len(file) THEN file[i] ELSE 0]

Resized(file, n) == [i \in 1..n |-> IF i <= Len(file) THEN file[i] ELSE 0]

Is(how, pc) == cp.how = how /\ cp.pc = pc
FilesSame == UNCHANGED <<src, holes>>

\* A call fails: the copy ends with false.
Fails(next) == cp' = [cp EXCEPT !.pc = next, !.ret = FALSE] /\ UNCHANGED dst /\ FilesSame

-----------------------------------------------------------------------------
\* FullRead: it reads on until the block is full or the file ends.
FullRead ==
  /\ Is("shovel", "read") /\ FilesSame /\ UNCHANGED dst
  /\ \/ \E n \in 1..Shorter(BLK_SIZE - Len(cp.buf), Remaining) :
          cp' = [cp EXCEPT !.buf = @ \o Chunk(n), !.pos = @ + n,
                           !.pc = IF Len(cp.buf) + n = BLK_SIZE THEN "write" ELSE "read"]
     \/ Remaining = 0 /\ cp' = [cp EXCEPT !.pc = IF cp.buf = <<>> THEN "close" ELSE "write"]

\* Mutant: the result of one write is taken for all of it.
FullWriteOnce ==
  /\ Is("shovel", "write") /\ FilesSame
  /\ \E i \in DOMAIN cp.buf : cp.buf[i] # 0
  /\ \E n \in 1..Len(cp.buf) :
       /\ dst' = WrittenAt(dst, cp.off, SubSeq(cp.buf, 1, n))
       /\ cp' = [cp EXCEPT !.off = @ + n, !.buf = <<>>, !.total = @ + Len(cp.buf), !.hole = FALSE, !.pc = "read"]

\* FullWrite of a block that is not all zeros: buf is what is left of it.
FullWrite ==
  /\ Is("shovel", "write") /\ FilesSame
  /\ cp.off > cp.total \/ \E i \in DOMAIN cp.buf : cp.buf[i] # 0
  /\ \E n \in 1..Len(cp.buf) :
       /\ dst' = WrittenAt(dst, cp.off, SubSeq(cp.buf, 1, n))
       /\ cp' = IF n < Len(cp.buf) THEN [cp EXCEPT !.off = @ + n, !.buf = SubSeq(@, n + 1, Len(@))]
                ELSE [cp EXCEPT !.off = @ + n, !.buf = <<>>, !.total = cp.off + n, !.hole = FALSE, !.pc = "read"]

\* FileSparseWrite of a block of zeros moves on in the file.
WriteHole ==
  /\ Is("shovel", "write") /\ FilesSame /\ UNCHANGED dst
  /\ cp.off = cp.total /\ \A i \in DOMAIN cp.buf : cp.buf[i] = 0
  /\ cp' = [cp EXCEPT !.off = @ + Len(cp.buf), !.total = @ + Len(cp.buf), !.buf = <<>>, !.hole = TRUE, !.pc = "read"]

\* FileSparseClose: behind a hole at the end a byte is written and cut off.
FileSparseClose ==
  /\ Is("shovel", "close") /\ FilesSame
  /\ dst' = IF cp.hole THEN Resized(WrittenAt(dst, cp.off, <<0>>), cp.total) ELSE dst
  /\ cp' = [cp EXCEPT !.pc = "done"]

ShovelFails ==
  \/ \E pc \in {"read", "write"} : Is("shovel", pc) /\ Fails("close")
  \/ Is("shovel", "close") /\ Fails("done")

-----------------------------------------------------------------------------
DataFrom(pos) == {i \in pos..(Len(src) - 1) : i \notin holes}

\* FICLONE, where the device has it.
Clone ==
  /\ Is("smart", "clone") /\ FilesSame
  /\ \/ dst' = src /\ cp' = [cp EXCEPT !.total = Len(src), !.pc = "done"]
     \/ UNCHANGED dst /\ cp' = [cp EXCEPT !.pc = "preset"]

\* The size is set; if no blocks are reported, st_blocks = 0, nothing more is done.
\* A file without data may have blocks, and some file systems report none for a
\* file that has data.
Preset ==
  /\ Is("smart", "preset") /\ FilesSame
  /\ dst' = Resized(dst, Len(src))
  /\ \/ cp' = [cp EXCEPT !.total = Len(src), !.idle = DataFrom(0) # {}, !.pc = "done"]
     \/ cp' = [cp EXCEPT !.pc = "punch"]

\* fallocate, or EOPNOTSUPP: the new file has no data to remove.
Punch == Is("smart", "punch") /\ cp' = [cp EXCEPT !.pc = "copy"] /\ UNCHANGED dst /\ FilesSame

\* One round: to the next data in both files, then copy_file_range or sendfile
\* up to the next hole at most.  A call that moves nothing ends the copy, too.
CopyRange ==
  /\ Is("smart", "copy") /\ FilesSame
  /\ LET in_pos == Min(DataFrom(cp.pos))
         off == cp.off + in_pos - cp.out_pos
         next_hole == Min({i \in in_pos..Len(src) : i = Len(src) \/ i \in holes})
     IN  \/ DataFrom(cp.pos) = {} /\ cp' = [cp EXCEPT !.pc = "done"] /\ UNCHANGED dst
         \/ /\ DataFrom(cp.pos) # {} /\ UNCHANGED dst
            /\ cp' = [cp EXCEPT !.pos = in_pos, !.off = off, !.out_pos = in_pos,
                                !.idle = TRUE, !.pc = "done"]
         \/ DataFrom(cp.pos) # {} /\ \E n \in 1..(next_hole - in_pos) :
              /\ dst' = WrittenAt(dst, off, SubSeq(src, in_pos + 1, in_pos + n))
              /\ cp' = [cp EXCEPT !.pos = in_pos + n, !.off = off + n, !.out_pos = in_pos + n, !.total = @ + n,
                                  !.pc = IF in_pos + n = Len(src) THEN "done" ELSE "copy"]

SmartFails == \E pc \in {"preset", "punch", "copy"} : Is("smart", pc) /\ Fails("done")

-----------------------------------------------------------------------------
\* File_Copy: both files are opened, or it ends.
OpenBoth == Is("stdio", "open") /\ cp' = [cp EXCEPT !.pc = "fread"] /\ UNCHANGED dst /\ FilesSame

\* fread gives less than it is asked for only at the end, fwrite only in error.
FRead ==
  /\ Is("stdio", "fread") /\ FilesSame /\ UNCHANGED dst
  /\ LET n == Shorter(BLK_SIZE, Remaining)
     IN  cp' = [cp EXCEPT !.buf = Chunk(n), !.pos = @ + n, !.eof = n < BLK_SIZE, !.pc = "fwrite"]

FWrite ==
  /\ Is("stdio", "fwrite") /\ FilesSame
  /\ dst' = dst \o cp.buf
  /\ cp' = [cp EXCEPT !.buf = <<>>, !.pc = IF cp.eof THEN "fclose" ELSE "fread"]

FClose == Is("stdio", "fclose") /\ cp' = [cp EXCEPT !.pc = "done"] /\ UNCHANGED dst /\ FilesSame

\* An error of either file leads to both being closed; what was read before
\* an error is written.
StdioFails ==
  \/ \E pc \in {"open", "fclose"} : Is("stdio", pc) /\ Fails("done")
  \/ \E pc \in {"fread", "fwrite"} : Is("stdio", pc) /\ Fails("fclose")

-----------------------------------------------------------------------------
\* WriterWriteLen stops at a zero.
TextOf(bytes) ==
  LET zero == {i \in DOMAIN bytes : bytes[i] = 0}
  IN  IF zero = {} THEN bytes ELSE SubSeq(bytes, 1, Min(zero) - 1)

FileReadFromFd ==
  /\ Is("read", "fill") /\ FilesSame
  /\ \/ Remaining = 0 /\ cp' = [cp EXCEPT !.pc = "done"] /\ UNCHANGED dst
     \/ \E n \in 1..Shorter(BLK_SIZE, Remaining) :
          IF n + Len(dst) > MAX_READ
          THEN /\ dst' = dst \o TextOf(Chunk(MAX_READ - Len(dst)))
               /\ cp' = [cp EXCEPT !.truncated = TRUE, !.pc = "done"]
          ELSE dst' = dst \o TextOf(Chunk(n)) /\ cp' = [cp EXCEPT !.pos = @ + n]

ReadFails == Is("read", "fill") /\ Fails("done")

CopyNext ==
  \/ FullRead \/ FullWrite \/ WriteHole \/ FileSparseClose \/ ShovelFails
  \/ Clone \/ Preset \/ Punch \/ CopyRange \/ SmartFails
  \/ OpenBoth \/ FRead \/ FWrite \/ FClose \/ StdioFails
  \/ FileReadFromFd \/ ReadFails

CopySpec == CopyInit /\ [][CopyNext]_copyVars

-----------------------------------------------------------------------------
\* A copy that reports success is the source, byte by byte and in its size,
\* wherever its zeros are, however the source is laid out and however little
\* each call did.  Where the kernel reports no blocks for data, or moves nothing,
\* the copy ends early with success: it has the size of the source, its bytes up to
\* there and zeros behind.  Before that the new file agrees with the source as far
\* as it was written.  A text that was read is the beginning of the file, and is
\* reported as truncated exactly if there is more.
CopiesExact ==
  /\ cp.how # "read" /\ cp.pc = "done" /\ cp.ret =>
       dst = IF cp.idle THEN Resized(SubSeq(src, 1, cp.pos), Len(src)) ELSE src
  /\ cp.how = "shovel" /\ cp.pc # "done" =>
       /\ IsPrefix(Resized(dst, cp.off), src)
       /\ cp.total + (IF cp.pc = "write" THEN Len(cp.buf) ELSE 0) <= cp.pos
  /\ cp.how = "read" /\ cp.pc = "done" /\ cp.ret /\ 0 \notin Range(src) =>
       dst = SubSeq(src, 1, Shorter(MAX_READ, Len(src))) /\ (cp.truncated <=> Len(src) > MAX_READ)
=============================================================================
