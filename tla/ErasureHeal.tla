----------------------------- MODULE ErasureHeal -----------------------------
(***************************************************************************)
(* ErasureStorage.HealFile (src/unnamed/part_001): the shard size          *)
(* arithmetic, the read of the healthy shards, and the block loop that     *)
(* appends each reconstructed chunk to every stale disk in order.  A       *)
(* stale disk's AppendFile may fail in any block; its error is sticky.     *)
(* Shard contents are abstracted to the sequence of chunk lengths written  *)
(* (and hashed), which the properties compare with a reference layout.     *)
(***************************************************************************)
EXTENDS Integers, Sequences, FiniteSets

CONSTANTS
  Disks,       \* indices of s.disks
  DataBlocks,  \* s.dataBlocks
  BlockSizes,  \* blocksize arguments to try
  MaxSize      \* object sizes 0..MaxSize

ASSUME DataBlocks \in Nat \ {0} /\ BlockSizes \subseteq Nat \ {0}
ASSUME MaxSize \in Nat

\* ceilFrac(numerator, denominator) of cmd/utils.go.
CeilFrac(n, d) == IF d = 0 THEN 0 ELSE (n + d - 1) \div d

VARIABLES
  size, blocksize, \* the arguments
  stale,           \* {i : staleDisks[i] != nil}
  pc,              \* "start", "loop", then "ok" or a failure:
                   \* "readFailed", "decodeFailed", "writeFailed"
  block,           \* blockNumber
  buffOffset,      \* offset into the read buffers
  writeErr,        \* [Disks -> BOOLEAN]: writeErrors[i] != nil
  written,         \* chunk lengths appended to each stale disk
  hashed,          \* chunk lengths fed to each disk's hasher
  checksums        \* disks that get f.Checksums[i]

vars == <<size, blocksize, stale, pc, block, buffOffset, writeErr, written,
          hashed, checksums>>

(***************************************************************************)
(* The layout arithmetic of HealFile (lines 76-87, 124-127).               *)
(***************************************************************************)
ChunkSize == CeilFrac(blocksize, DataBlocks)
NumBlocks == CeilFrac(size, blocksize)

\* Mutant: the last chunk is computed from size % blocksize even when the
\* last block is a full one.
LastChunkSizeNoCheck == CeilFrac(size % blocksize, DataBlocks)

LastChunkSize ==
  IF size % blocksize # 0 THEN CeilFrac(size % blocksize, DataBlocks)
  ELSE ChunkSize

ReadLen == ChunkSize * (NumBlocks - 1) + LastChunkSize

\* csize of block b (0-based).
CSize(b) == IF b = NumBlocks - 1 THEN LastChunkSize ELSE ChunkSize

\* Reference (spec 4.3): block b holds min(blocksize, size - b*blocksize)
\* bytes, split into DataBlocks chunks of ceil(len / DataBlocks) bytes.
RefChunks ==
  [b \in 1..CeilFrac(size, blocksize) |->
     LET len == IF size - (b - 1) * blocksize < blocksize
                  THEN size - (b - 1) * blocksize ELSE blocksize
     IN CeilFrac(len, DataBlocks)]

RECURSIVE SumSeq(_)
SumSeq(s) == IF s = <<>> THEN 0 ELSE Head(s) + SumSeq(Tail(s))

TypeOK ==
  /\ size \in 0..MaxSize /\ blocksize \in BlockSizes
  /\ stale \subseteq Disks
  /\ pc \in {"start", "loop", "ok", "readFailed", "decodeFailed", "writeFailed"}
  /\ block \in Nat /\ buffOffset \in Nat
  /\ writeErr \in [Disks -> BOOLEAN]
  /\ written \in [Disks -> Seq(Nat)] /\ hashed \in [Disks -> Seq(Nat)]
  /\ checksums \subseteq stale

(***************************************************************************)
(* HealFile                                                                *)
(***************************************************************************)
\* Every call the object layer can make: any size and blocksize, and a
\* non-empty set of stale disks (heal is only invoked when one is stale).
Init ==
  /\ size \in 0..MaxSize /\ blocksize \in BlockSizes
  /\ stale \in SUBSET Disks \ {{}}
  /\ pc = "start" /\ block = 0 /\ buffOffset = 0
  /\ writeErr = [i \in Disks |-> FALSE]
  /\ written = [i \in Disks |-> <<>>] /\ hashed = written
  /\ checksums = {}

\* readConcurrent of ReadLen bytes from the healthy disks: it fails when
\* read quorum is not met, otherwise the block loop starts.
ReadShards ==
  /\ pc = "start"
  /\ pc' \in {"loop", "readFailed"}
  /\ UNCHANGED <<size, blocksize, stale, block, buffOffset, writeErr, written,
                 hashed, checksums>>

\* Mutant: a disk that failed in an earlier block is written again.
HealBlockRetry ==
  /\ pc = "loop" /\ block < NumBlocks
  /\ \E failing \in SUBSET stale :
       LET ok == stale \ failing
           c == CSize(block)
       IN /\ writeErr' = [i \in Disks |-> i \in failing]
          /\ written' = [i \in Disks |-> IF i \in ok THEN Append(written[i], c)
                                         ELSE written[i]]
          /\ hashed' = [i \in Disks |-> IF i \in ok THEN Append(hashed[i], c)
                                        ELSE hashed[i]]
          /\ IF ok = {} THEN pc' = "writeFailed" /\ UNCHANGED <<block, buffOffset>>
             ELSE /\ pc' = "loop" /\ block' = block + 1
                  /\ buffOffset' = buffOffset + c
  /\ UNCHANGED <<size, blocksize, stale, checksums>>

\* Mutant: the loop goes on when no stale disk succeeded in a block.
HealBlockNoAbort ==
  /\ pc = "loop" /\ block < NumBlocks
  /\ \E failing \in SUBSET {i \in stale : ~writeErr[i]} :
       LET ok == {i \in stale : ~writeErr[i]} \ failing
           c == CSize(block)
       IN /\ writeErr' = [i \in Disks |-> writeErr[i] \/ i \in failing]
          /\ written' = [i \in Disks |-> IF i \in ok THEN Append(written[i], c)
                                         ELSE written[i]]
          /\ hashed' = [i \in Disks |-> IF i \in ok THEN Append(hashed[i], c)
                                        ELSE hashed[i]]
          /\ pc' = "loop" /\ block' = block + 1
          /\ buffOffset' = buffOffset + c
  /\ UNCHANGED <<size, blocksize, stale, checksums>>

\* One iteration of the block loop: the stripe is decoded, then each stale
\* disk without an earlier write error gets AppendFile of its chunk, which
\* may fail; on success the chunk goes into the disk's hasher.  If no
\* stale disk succeeded the heal fails (joinWriteErrors).
HealBlock ==
  /\ pc = "loop" /\ block < NumBlocks
  /\ \E failing \in SUBSET {i \in stale : ~writeErr[i]} :
       LET ok == {i \in stale : ~writeErr[i]} \ failing
           c == CSize(block)
       IN /\ writeErr' = [i \in Disks |-> writeErr[i] \/ i \in failing]
          /\ written' = [i \in Disks |-> IF i \in ok THEN Append(written[i], c)
                                         ELSE written[i]]
          /\ hashed' = [i \in Disks |-> IF i \in ok THEN Append(hashed[i], c)
                                        ELSE hashed[i]]
          /\ IF ok = {} THEN pc' = "writeFailed" /\ UNCHANGED <<block, buffOffset>>
             ELSE /\ pc' = "loop" /\ block' = block + 1
                  /\ buffOffset' = buffOffset + c
  /\ UNCHANGED <<size, blocksize, stale, checksums>>

\* The block's slice is taken and buffOffset advanced, then
\* ErasureDecodeDataAndParityBlocks fails and HealFile returns its error.
DecodeFailed ==
  /\ pc = "loop" /\ block < NumBlocks
  /\ pc' = "decodeFailed"
  /\ buffOffset' = buffOffset + CSize(block)
  /\ UNCHANGED <<size, blocksize, stale, block, writeErr, written, hashed,
                 checksums>>

\* Mutant: the checksum loop does not skip the nil (non-stale) entries.
FinishNoNilCheck ==
  /\ pc = "loop" /\ block = NumBlocks
  /\ pc' = "ok"
  /\ checksums' = {i \in Disks : ~writeErr[i]}
  /\ UNCHANGED <<size, blocksize, stale, block, buffOffset, writeErr, written,
                 hashed>>

\* After the loop: a checksum for every stale disk without a write error.
Finish ==
  /\ pc = "loop" /\ block = NumBlocks
  /\ pc' = "ok"
  /\ checksums' = {i \in stale : ~writeErr[i]}
  /\ UNCHANGED <<size, blocksize, stale, block, buffOffset, writeErr, written,
                 hashed>>

Next == ReadShards \/ HealBlock \/ DecodeFailed \/ Finish

Spec == Init /\ [][Next]_vars

(***************************************************************************)
(* Properties                                                              *)
(***************************************************************************)

\* Spec 4.3/8.3: every disk HealFile returns a checksum for holds the
\* complete shard of the object in the reference layout, and its checksum
\* was computed over exactly those chunks: no block skipped, none short.
HealedShardsComplete ==
  pc = "ok" =>
    \A i \in checksums : written[i] = RefChunks /\ hashed[i] = RefChunks

\* The slice buffers[i][buffOffset : buffOffset+csize] of the next block
\* stays within the ReadLen bytes read (beyond them the slice panics), and
\* a completed heal has consumed exactly the reference shard length.
ReadLenMatchesLayout ==
  /\ buffOffset + (IF pc = "loop" /\ block < NumBlocks THEN CSize(block) ELSE 0)
       <= ReadLen
  /\ pc = "ok" => buffOffset = ReadLen /\ ReadLen = SumSeq(RefChunks)

\* Spec 4.3: write errors are tolerated as long as one stale disk succeeds:
\* a heal that got its read quorum fails exactly when every stale disk had
\* a write error, and succeeds with the disks that never had one.
HealOutcome ==
  /\ pc = "ok" => checksums # {} /\ \A i \in stale \ checksums : writeErr[i]
  /\ pc = "writeFailed" => \A i \in stale : writeErr[i]
=============================================================================
