------------------------------ MODULE CopyLoop ------------------------------
(***************************************************************************)
(* fsops.StageCopy: a source file is copied to the part file of its        *)
(* destination.  With --verify hash the copy loop (copyHashing) reads into *)
(* a ring of buffers, hands each buffer to a hashing goroutine and writes  *)
(* the same buffer to the part file while it is hashed; a buffer comes     *)
(* back through the channel of free buffers.  Without it, chunks are       *)
(* copied one after another (copyChunks).                                  *)
(*                                                                         *)
(* A file is a sequence of blocks, one block a buffer; a block that is not *)
(* full ends the file.  The content of a block is the modification time of *)
(* the write that made it, so a mixture of two versions is visible.        *)
(***************************************************************************)
EXTENDS Naturals, Sequences, SequencesExt

CONSTANTS
  Ring,       \* number of buffers (4 in the code) and capacity of both channels
  MaxBlocks,  \* bound: blocks of the source
  MaxEdits    \* bound: how often the user rewrites the source meanwhile

ASSUME RingAssumption == Ring \in Nat \ {0}
ASSUME BoundsAssumption == MaxBlocks \in Nat /\ MaxEdits \in Nat

VARIABLES
  hashing,    \* --verify hash: the loop hashes what it copies
  file,       \* blocks of the source
  mtime,      \* its modification time
  existed,    \* the destination exists before the copy
  part,       \* blocks of the part file; Absent without one
  rotten,     \* a block of the part file reads back differently
  pc,         \* where StageCopy is
  before,     \* [size, mtime] of the source when it was opened
  buf,        \* buffer the loop holds; NoBuf without one
  got,        \* what the last read returned: "data", "tail" (data, then the end), "end", "error"
  copied,     \* blocks written so far (total)
  free, work, \* the two channels
  busy,       \* buffer the hashing goroutine works on; NoBuf without one
  closed,     \* close(work) was called
  joined,     \* the hashing goroutine ended (done is closed)
  fill,       \* content of each buffer
  digest,     \* blocks the hash was computed from, in order
  canceled,   \* the context is canceled
  result      \* "none", "ok", "exist", "changed", "canceled", "io", "verify"

copyVars == <<hashing, file, mtime, existed, part, rotten, pc, before, buf, got, copied, free,
              work, busy, closed, joined, fill, digest, canceled, result>>
goroutine == <<work, busy, closed, joined, digest>>
source == <<file, mtime, existed, hashing, canceled>>

NoBuf == 0
Bufs == 1..Ring
(* Two contents no copy writes: no part file, and one of an earlier        *)
(* attempt.                                                                *)
Absent == <<[time |-> MaxEdits + 1, full |-> TRUE]>>
Leftover == <<[time |-> MaxEdits + 2, full |-> TRUE]>>

(* A file of n blocks written at time t; tail: its last block is short. *)
Content(n, tail, t) == [i \in 1..n |-> [time |-> t, full |-> ~(tail /\ i = n)]]
Contents(t) == {Content(n, tail, t) : n \in 0..MaxBlocks, tail \in BOOLEAN}

CopyAt(p) ==
  /\ mtime = 0 /\ rotten = FALSE /\ pc = p /\ before = [size |-> 0, mtime |-> 0]
  /\ buf = NoBuf /\ got = "data" /\ copied = 0
  /\ free = [i \in 1..Ring |-> i] /\ work = <<>> /\ busy = NoBuf
  /\ closed = FALSE /\ joined = FALSE
  /\ fill = [b \in Bufs |-> [time |-> 0, full |-> TRUE]] /\ digest = <<>>
  /\ canceled = FALSE /\ result = "none"

CopyInit ==
  /\ CopyAt("open")
  /\ hashing \in BOOLEAN /\ file \in Contents(0) /\ existed \in BOOLEAN
  /\ part \in {Absent, Leftover}

(* No copy is under way: for a module that composes this one with others.  *)
CopyIdle == CopyAt("idle") /\ hashing = FALSE /\ file = <<>> /\ existed = FALSE /\ part = Absent

-----------------------------------------------------------------------------
(* StageCopy up to the creation of the part file.  expected tells whether  *)
(* the source still has the attributes of the begin record.                *)
Open ==
  /\ pc = "open"
  /\ \/ /\ canceled /\ pc' = "returned" /\ result' = "canceled" /\ UNCHANGED <<part, before>>
     \/ /\ ~canceled /\ existed                            \* without --overwrite
        /\ pc' = "returned" /\ result' = "exist" /\ UNCHANGED <<part, before>>
     \/ /\ ~canceled /\ ~existed /\ mtime # 0                \* ExpectSize, ExpectModTime
        /\ pc' = "returned" /\ result' = "changed" /\ UNCHANGED <<part, before>>
     \/ /\ ~canceled /\ ~existed                           \* Lstat, Open, Remove or the creation
        /\ pc' = "returned" /\ result' = "io" /\ part' \in {part, Absent} /\ UNCHANGED before
     \/ /\ ~canceled /\ ~existed /\ mtime = 0
        /\ before' = [size |-> Len(file), mtime |-> mtime]
        /\ part' = <<>> /\ pc' = "take" /\ UNCHANGED result
  /\ UNCHANGED <<source, rotten, buf, got, copied, free, goroutine, fill>>

(* One chunk of copyChunks without a hash: io.CopyN.                       *)
CopyChunk ==
  /\ pc = "take" /\ ~hashing
  /\ \/ /\ canceled /\ result' = "canceled" /\ pc' = "fail" /\ UNCHANGED <<part, copied>>
     \/ /\ ~canceled /\ copied < Len(file)
        /\ part' = Append(part, file[copied + 1]) /\ copied' = copied + 1
        /\ pc' = IF file[copied + 1].full THEN "take" ELSE "sync"
        /\ UNCHANGED result
     \/ /\ ~canceled /\ copied >= Len(file) /\ pc' = "sync" /\ UNCHANGED <<part, copied, result>>
     \/ /\ ~canceled /\ result' = "io" /\ pc' = "fail" /\ UNCHANGED <<part, copied>>
  /\ UNCHANGED <<source, rotten, before, buf, got, free, goroutine, fill>>

(* The select at the head of the loop: cancellation or a free buffer.      *)
Take ==
  /\ pc = "take" /\ hashing
  /\ \/ /\ canceled /\ result' = "canceled" /\ pc' = "stop" /\ UNCHANGED <<buf, free>>
     \/ /\ ~canceled /\ free # <<>>
        /\ buf' = Head(free) /\ free' = Tail(free) /\ pc' = "read" /\ UNCHANGED result
  /\ UNCHANGED <<source, part, rotten, before, got, copied, goroutine, fill>>

(* io.ReadFull into the buffer: data, data and the end, the end, or an     *)
(* error, which may come with data as well.                                *)
Read ==
  /\ pc = "read"
  /\ \/ /\ copied < Len(file) /\ fill' = [fill EXCEPT ![buf] = file[copied + 1]]
        /\ got' \in {IF file[copied + 1].full THEN "data" ELSE "tail", "error"}
        /\ pc' = "hand" /\ UNCHANGED <<buf, free, result>>
     \/ /\ copied >= Len(file) /\ got' = "end"
        /\ free' = Append(free, buf) /\ buf' = NoBuf /\ pc' = "stop" /\ UNCHANGED <<fill, result>>
     \/ /\ got' = "error" /\ result' = "io"
        /\ free' = Append(free, buf) /\ buf' = NoBuf /\ pc' = "stop" /\ UNCHANGED fill
  /\ UNCHANGED <<source, part, rotten, before, copied, goroutine>>

(* work <- buf[:n]: from here the goroutine and the loop both read the     *)
(* buffer.                                                                 *)
Hand ==
  /\ pc = "hand" /\ Len(work) < Ring
  /\ work' = Append(work, buf) /\ pc' = "write"
  /\ UNCHANGED <<source, part, rotten, before, buf, got, copied, free, busy, closed, joined,
                 fill, digest, result>>

(* dst.Write, and what the loop does with the outcome of the read.         *)
Write ==
  /\ pc = "write"
  /\ \/ /\ part' = Append(part, fill[buf]) /\ copied' = copied + 1 /\ buf' = NoBuf
        /\ pc' = IF got = "data" THEN "take" ELSE "stop"
        /\ result' = IF got = "error" THEN "io" ELSE result
     \/ /\ result' = "io" /\ pc' = "stop" /\ buf' = NoBuf /\ UNCHANGED <<part, copied>>
  /\ UNCHANGED <<source, rotten, before, got, free, goroutine, fill>>

(* The deferred close(work) and the wait for done.                         *)
Stop ==
  /\ pc = "stop" /\ ~closed /\ closed' = TRUE
  /\ UNCHANGED <<source, part, rotten, before, buf, got, copied, free, work, busy, joined, fill,
                 digest, pc, result>>

(* Mutant of Join: the loop does not wait for the goroutine.               *)
JoinUnasked ==
  /\ pc = "stop" /\ closed /\ pc' = IF result = "none" THEN "sync" ELSE "fail"
  /\ UNCHANGED <<source, part, rotten, before, buf, got, copied, free, goroutine, fill, result>>

Join ==
  /\ pc = "stop" /\ joined
  /\ pc' = IF result = "none" THEN "sync" ELSE "fail"
  /\ UNCHANGED <<source, part, rotten, before, buf, got, copied, free, goroutine, fill, result>>

-----------------------------------------------------------------------------
(* Mutant of HashDone: the buffer is not given back.                       *)
HashDoneKeeping ==
  /\ busy # NoBuf /\ digest' = Append(digest, fill[busy]) /\ busy' = NoBuf
  /\ UNCHANGED <<source, part, rotten, pc, before, buf, got, copied, free, work, closed, joined,
                 fill, result>>

(* The hashing goroutine.                                                  *)
HashTake ==
  /\ busy = NoBuf /\ work # <<>> /\ busy' = Head(work) /\ work' = Tail(work)
  /\ UNCHANGED <<source, part, rotten, pc, before, buf, got, copied, free, closed, joined, fill,
                 digest, result>>

HashDone ==
  /\ busy # NoBuf /\ Len(free) < Ring
  /\ digest' = Append(digest, fill[busy])
  /\ free' = Append(free, busy) /\ busy' = NoBuf
  /\ UNCHANGED <<source, part, rotten, pc, before, buf, got, copied, work, closed, joined, fill,
                 result>>

HashEnd ==
  /\ closed /\ work = <<>> /\ busy = NoBuf /\ ~joined /\ joined' = TRUE
  /\ UNCHANGED <<source, part, rotten, pc, before, buf, got, copied, free, work, busy, closed,
                 fill, digest, result>>

Hasher == HashTake \/ HashDone \/ HashEnd

-----------------------------------------------------------------------------
(* The part file is synced and closed, then the source is looked at again. *)
SyncPart ==
  /\ pc = "sync"
  /\ \/ pc' = "after" /\ UNCHANGED result
     \/ pc' = "fail" /\ result' = "io"
  /\ UNCHANGED <<source, part, rotten, before, buf, got, copied, free, goroutine, fill>>

(* Mutant of CheckSource: a rewrite of the same size goes unnoticed.       *)
CheckSourceSize ==
  /\ pc = "after"
  /\ IF copied = before.size /\ Len(file) = before.size
       THEN pc' = "verify" /\ UNCHANGED result
       ELSE pc' = "fail" /\ result' = "changed"
  /\ UNCHANGED <<source, part, rotten, before, buf, got, copied, free, goroutine, fill>>

CheckSource ==
  /\ pc = "after"
  /\ IF copied = before.size /\ Len(file) = before.size /\ mtime = before.mtime
       THEN pc' = "verify" /\ UNCHANGED result
       ELSE pc' = "fail" /\ result' = "changed"
  /\ UNCHANGED <<source, part, rotten, before, buf, got, copied, free, goroutine, fill>>

(* finishPart: the size, the hash of what is read back, and a last flush.  *)
FinishPart ==
  /\ pc = "verify"
  /\ IF Len(part) # before.size \/ (hashing /\ (rotten \/ part # digest))
       THEN pc' = "fail" /\ result' = "verify"
       ELSE \/ pc' = "returned" /\ result' = "ok"
            \/ pc' = "fail" /\ result' = "io"
  /\ UNCHANGED <<source, part, rotten, before, buf, got, copied, free, goroutine, fill>>

(* The deferred removal of the part file after any error.                  *)
Fail ==
  /\ pc = "fail" /\ part' = Absent /\ pc' = "returned"
  /\ UNCHANGED <<source, rotten, before, buf, got, copied, free, goroutine, fill, result>>

Copier == \/ Open \/ CopyChunk \/ Take \/ Read \/ Hand \/ Write \/ Stop \/ Join
          \/ SyncPart \/ CheckSource \/ FinishPart \/ Fail

-----------------------------------------------------------------------------
(* The environment: the user rewrites the source, the run is canceled, the *)
(* disk returns something else than was written.                           *)
process == <<hashing, existed, part, pc, before, buf, got, copied, free, goroutine, fill, result>>

Rewrite ==
  /\ pc \notin {"idle", "returned"} /\ mtime < MaxEdits
  /\ mtime' = mtime + 1 /\ file' \in Contents(mtime + 1)
  /\ UNCHANGED <<process, rotten, canceled>>

Cancel ==
  /\ pc \notin {"idle", "returned"} /\ ~canceled /\ canceled' = TRUE
  /\ UNCHANGED <<process, rotten, file, mtime>>

Rot ==
  /\ pc \in {"sync", "after"} /\ ~rotten /\ part # <<>> /\ rotten' = TRUE
  /\ UNCHANGED <<process, file, mtime, canceled>>

Returned == pc = "returned" /\ UNCHANGED copyVars

CopyNext == Copier \/ Hasher \/ Rewrite \/ Cancel \/ Rot \/ Returned

(* Neither goroutine of the process is starved; the environment may stay   *)
(* quiet.                                                                  *)
CopyFairness == WF_copyVars(Copier) /\ WF_copyVars(Hasher)
CopySpec == CopyInit /\ [][CopyNext]_copyVars /\ CopyFairness

-----------------------------------------------------------------------------
(* The digest, with what is still to be hashed, is what the loop wrote, in *)
(* the order it was written (the block being written is already handed     *)
(* over; a block whose write failed is hashed and not in the part file).   *)
DigestFollowsWrites ==
  hashing /\ pc \notin {"idle", "open", "fail", "returned"} /\ result = "none" =>
    LET pending == (IF busy = NoBuf THEN <<>> ELSE <<busy>>) \o work
        handed  == digest \o [i \in DOMAIN pending |-> fill[pending[i]]]
    IN  handed = IF pc = "write" THEN Append(part, fill[buf]) ELSE part

(* What StageCopy reports as staged is the source as it was when it was    *)
(* opened, whole and of one version, and with --verify hash the digest and *)
(* what the disk returns agree with it: users may write at any moment, and *)
(* buffers circulate between the loop and the hashing goroutine.           *)
StagedIsSource ==
  /\ DigestFollowsWrites
  /\ result = "ok" =>
       /\ \A i \in DOMAIN part : part[i].time = before.mtime
       /\ Len(part) = before.size
       /\ hashing => digest = part /\ ~rotten

(* Every copy returns, whatever fails and whenever it is canceled.         *)
CopyReturns == []<>(pc \in {"returned", "idle"})
=============================================================================
