---------------------------- MODULE SparseImage ----------------------------
(***************************************************************************)
(* How a sparse image is programmed (firehose_protocol.c).  The file is a  *)
(* list of chunks: raw data, fill patterns, and areas to skip.  The host   *)
(* scans it once and adds up runs of chunks with data and the gaps between *)
(* them; then it programs each run as an image of its own, at a start      *)
(* sector and from a place in the file that it computes from the sums.     *)
(*                                                                         *)
(* Lengths are in words of four bytes, the size of a fill pattern.         *)
(***************************************************************************)
EXTENDS Integers, Sequences

CONSTANTS Files,         \* sparse files: sequences of chunks
          SectorWords,   \* SECTOR_SIZE_IN_BYTES
          BlockSectors,  \* sectors in a block of the file, blk_sz
          Literal8,      \* the 8 of fh_process_program: 4096 / 512, to scale
          Payload        \* MaxPayloadSizeToTargetInBytes

Types == {"raw", "fill", "skip"}    \* 0xCAC1, 0xCAC2, 0xCAC3
BlockWords == BlockSectors * SectorWords

ASSUME SparseAssumption ==
    /\ Files \subseteq Seq([type : Types, blocks : Nat \ {0}])
    /\ SectorWords \in Nat \ {0} /\ BlockSectors \in Nat \ {0} /\ Literal8 \in Nat
    /\ Payload \in {n * SectorWords : n \in 1 .. 1024}

VARIABLES
    file,               \* the sparse file
    pc,                 \* "scan", "run", "header", "data", "done", "failed"
    m, lastType, sum,   \* scan: chunk, type before it, sums of the current run
    runs, gaps,         \* chunk_polymerization_data, chunk_polymerization_cac3
    i, offset,          \* program: run, file_sector_offset
    start, num, size,   \* start_sector, num_partition_sectors, UNSPARSE_FILE_SIZE
    chunk, left, sent,  \* fh_send_rawmode_image: chunk, chunk_data_sz, filesend
    flash, awaited      \* target: words written, words it still waits for

scanning == <<m, lastType, sum, runs, gaps>>
placing  == <<i, offset, start, num, size>>
sending  == <<chunk, left, sent>>
target   == <<flash, awaited>>
vars     == <<file, pc, scanning, placing, sending, target>>

-----------------------------------------------------------------------------
(* The file.                                                               *)

FileHeader == 7     \* sizeof(sparse_header_t)
ChunkHeader == 3    \* sizeof(chunk_header_t)

DataWords(c) == CASE c.type = "raw"  -> c.blocks * BlockWords
                  [] c.type = "fill" -> 1
                  [] c.type = "skip" -> 0

\* Where each of n + 1 things begins, the first at z, if the c-th is d[c] long.
Places(z, n, d) ==
    LET at[c \in 1 .. n + 1] == IF c = 1 THEN z ELSE at[c - 1] + d[c - 1]
    IN  at

HeaderAt(f) == Places(FileHeader, Len(f), [c \in 1 .. Len(f) |-> ChunkHeader + DataWords(f[c])])

\* Word w of the data of chunk c.
Word(c, w) == <<c, w>>
Padding == <<0, 0>>
Old == <<0, 1>>

\* What the sparse format says of the flash: the block each chunk begins at,
\* and the word of the file that belongs at an address.
BlockOf(f) == Places(0, Len(f), [c \in 1 .. Len(f) |-> f[c].blocks])
WordOf(f, c) == BlockOf(f)[c] * BlockWords
Size == WordOf(file, Len(file) + 1)
ChunkAt(a) == CHOOSE c \in DOMAIN file : WordOf(file, c) <= a /\ a < WordOf(file, c + 1)
Expected(a) ==
    LET c == ChunkAt(a)
    IN  CASE file[c].type = "raw"  -> Word(c, a - WordOf(file, c) + 1)
          [] file[c].type = "fill" -> Word(c, 1)
          [] file[c].type = "skip" -> Old

-----------------------------------------------------------------------------
Zero == [blocks |-> 0, words |-> 0, count |-> 0]
One(c) == [blocks |-> c.blocks, words |-> DataWords(c), count |-> 1]
Plus(s, c) == [blocks |-> s.blocks + c.blocks, words |-> s.words + DataWords(c),
               count |-> s.count + 1]

Init ==
    /\ file \in Files
    /\ pc = "scan"
    /\ m = 1 /\ lastType = "none" /\ sum = Zero /\ runs = << >> /\ gaps = << >>
    /\ i = 1 /\ offset = 0 /\ start = 0 /\ num = 0 /\ size = 0
    /\ chunk = 1 /\ left = 0 /\ sent = 0
    /\ flash = [a \in {} |-> Old] /\ awaited = 0

HasData(t) == t \in {"raw", "fill"}

\* Mutant: a run that ends the file is not recorded.
ScanForgetsLast ==
    /\ pc = "scan" /\ m <= Len(file)
    /\ LET c == file[m]
       IN  /\ sum' = IF HasData(c.type) # HasData(lastType) THEN One(c) ELSE Plus(sum, c)
           /\ gaps' = IF HasData(c.type) /\ lastType = "skip" THEN Append(gaps, sum) ELSE gaps
           /\ runs' = IF ~HasData(c.type) /\ HasData(lastType) THEN Append(runs, sum) ELSE runs
           /\ lastType' = c.type
    /\ m' = m + 1
    /\ UNCHANGED <<file, pc, placing, sending, target>>

\* One turn of the loop of fh_process_sparse_program.
Scan ==
    /\ pc = "scan" /\ m <= Len(file)
    /\ LET c == file[m]
           changes == lastType # "none" /\ HasData(c.type) # HasData(lastType)
           ended == IF ~HasData(c.type) /\ changes THEN Append(runs, sum) ELSE runs
       IN  /\ sum' = IF changes THEN One(c) ELSE Plus(sum, c)
           /\ gaps' = IF HasData(c.type) /\ changes THEN Append(gaps, sum) ELSE gaps
           /\ runs' = IF m = Len(file) /\ HasData(c.type) THEN Append(ended, sum') ELSE ended
           /\ lastType' = c.type
    /\ m' = m + 1
    /\ UNCHANGED <<file, pc, placing, sending, target>>

ScanEnd ==
    /\ pc = "scan" /\ m > Len(file)
    /\ pc' = "run"
    /\ UNCHANGED <<file, scanning, placing, sending, target>>

\* The table is zero where nothing was recorded.
Gap(j) == IF j \in DOMAIN gaps THEN gaps[j] ELSE Zero

\* Mutants: the gap is left out of the start sector; the headers between the
\* chunks are left out of the offset.
NextStartNoGap == start + num
NextOffsetNoHeaders == offset + runs[i - 1].words

NextStart == start + num + Gap(i - 1).blocks * Literal8
NextOffset == offset + runs[i - 1].words + runs[i - 1].count * ChunkHeader
                     + Gap(i - 1).count * ChunkHeader

Sectors(w) == w \div SectorWords + (IF w % SectorWords = 0 THEN 0 ELSE 1)

\* The program command of run i, acknowledged; fh_send_rawmode_image seeks to
\* its offset.
BeginRun ==
    /\ pc = "run" /\ i <= Len(runs)
    /\ offset' = IF i = 1 THEN FileHeader ELSE NextOffset
    /\ start' = IF i = 1 THEN start ELSE NextStart
    /\ size' = runs[i].words
    /\ num' = Sectors(size')
    /\ awaited' = num' * SectorWords
    /\ sent' = 0 /\ left' = 0
    /\ IF \E c \in DOMAIN file : HeaderAt(file)[c] = offset'
       THEN pc' = "header" /\ chunk' = CHOOSE c \in DOMAIN file : HeaderAt(file)[c] = offset'
       ELSE pc' = "failed" /\ chunk' = chunk    \* data is taken for a header
    /\ UNCHANGED <<file, scanning, i, flash>>

ReadHeader ==
    /\ pc = "header"
    /\ IF chunk \in DOMAIN file
       THEN pc' = "data" /\ left' = DataWords(file[chunk])
       ELSE pc' = "failed" /\ left' = left       \* the end of the file
    /\ UNCHANGED <<file, scanning, placing, chunk, sent, target>>

Padded(w) == Sectors(w) * SectorWords

Piece == IF left < Payload THEN left ELSE Payload

\* One write: words of the chunk, padded to whole sectors.
SendPiece ==
    /\ pc = "data" /\ left > 0
    /\ LET n == Piece
           done == DataWords(file[chunk]) - left
           piece == [w \in 1 .. Padded(n) |->
                        IF w <= n THEN Word(chunk, done + w) ELSE Padding]
           at == start * SectorWords + num * SectorWords - awaited
           taken == IF Len(piece) < awaited THEN Len(piece) ELSE awaited
       IN  /\ left' = left - n
           /\ sent' = sent + Len(piece)
           /\ flash' = [a \in DOMAIN flash \cup (at .. at + taken - 1) |->
                           IF a \in at .. at + taken - 1 THEN piece[a - at + 1] ELSE flash[a]]
           /\ awaited' = awaited - taken
           \* what the target does not wait for is no command to it
           /\ pc' = IF taken < Len(piece) THEN "failed" ELSE pc
    /\ UNCHANGED <<file, scanning, placing, chunk>>

\* The end of a chunk: enough has been sent, or the next header is read.
EndChunk ==
    /\ pc = "data" /\ left = 0 /\ sent < size
    /\ chunk' = chunk + 1
    /\ pc' = "header"
    /\ UNCHANGED <<file, scanning, placing, left, sent, target>>

\* The end of a run.  A target that waits for more never acknowledges it.
EndRun ==
    /\ pc = "data" /\ left = 0 /\ sent >= size
    /\ IF awaited = 0
       THEN pc' = "run" /\ i' = i + 1
       ELSE pc' = "failed" /\ i' = i
    /\ UNCHANGED <<file, scanning, offset, start, num, size, sending, target>>

Finish ==
    /\ pc = "run" /\ i > Len(runs)
    /\ pc' = "done"
    /\ UNCHANGED <<file, scanning, placing, sending, target>>

Ended == pc \in {"done", "failed"} /\ UNCHANGED vars

Program ==
    \/ Scan \/ ScanEnd \/ BeginRun \/ ReadHeader \/ SendPiece
    \/ EndChunk \/ EndRun \/ Finish

Next == Program \/ Ended

Spec == Init /\ [][Next]_vars
FairSpec == Spec /\ WF_vars(Program)

-----------------------------------------------------------------------------
\* chunk_header.chunk_type, "0xCAC1 -> raw; 0xCAC2 -> fill; 0xCAC3 -> don't
\* care", chunk_sz "in blocks in output image": at every moment each word in
\* the flash is the one that the sparse file has for its address.
PlacedWhereTold ==
    \A a \in DOMAIN flash : a < Size /\ flash[a] = Expected(a)

\* Every address that the file has data for was written.
Complete == \A a \in 0 .. Size - 1 : Expected(a) # Old => a \in DOMAIN flash

\* A well-formed sparse image is programmed, and completely: the offsets computed
\* from the sums fall on headers, every run ends when the target has the sectors
\* it was promised, and no run is left out of the table (fh_process_program).
Succeeds == <>(pc = "done" /\ Complete)
=============================================================================
