--------------------------- MODULE Files_proofs ----------------------------
(***************************************************************************)
(* What is proved of the two modules about writing one file: the staged    *)
(* copy and the log of a run.                                              *)
(*                                                                         *)
(* The copy loop, for any number of buffers, any length of the source, and *)
(* any number of rewrites: what is staged is the source of one version,    *)
(* and the digest that the hashing goroutine computes is of the blocks the *)
(* loop wrote, although both work on the same buffers.  CopyInv follows    *)
(* the buffers (Distinct, Owned), the blocks in them (Hashed), the version *)
(* they are of (Versions), and the end of the copy (Ends).                 *)
(*                                                                         *)
(* The log file, for any paths, any number of transactions and records and *)
(* any number of failed writes, failed syncs, crashes and power losses:    *)
(* unless a record was written behind an unended line, what was            *)
(* acknowledged and synced stays readable, and no start and no other       *)
(* reader ever calls the log corrupt.                                      *)
(*                                                                         *)
(* WalInv says how the text was written: there are indexes xs[0], xs[1],   *)
(* ... xs[k] such that each ended line holds one record that is acceptable *)
(* to the indexes before it and leads to those after it (Followed); the    *)
(* last line, when it is unended, begins with a fragment or a record that  *)
(* would be acceptable next (Half); nothing behind the ended lines is      *)
(* synced; and a process that is up knows xs[k], but for transaction       *)
(* numbers it gave to records that did not get into the file (Agree).      *)
(***************************************************************************)
EXTENDS CopyLoop, WalFile, SequenceTheorems, WellFoundedInduction, TLAPS

(* What Append does, element by element.                                   *)
LEMMA AppendProps ==
  ASSUME NEW S, NEW s \in Seq(S), NEW e \in S
  PROVE  /\ Append(s, e) \in Seq(S) /\ Len(Append(s, e)) = Len(s) + 1 /\ Len(s) \in Nat
         /\ \A i \in 1..Len(s) : Append(s, e)[i] = s[i]
         /\ Append(s, e)[Len(s) + 1] = e
OBVIOUS

(* What Head and Tail do, element by element.                              *)
LEMMA TailProps ==
  ASSUME NEW S, NEW s \in Seq(S), s # <<>>
  PROVE  /\ Len(s) \in Nat /\ Len(s) > 0 /\ Head(s) = s[1] /\ s[1] \in S
         /\ Tail(s) \in Seq(S) /\ Len(Tail(s)) = Len(s) - 1
         /\ \A i \in 1..Len(s) - 1 : Tail(s)[i] = s[i + 1]
OBVIOUS

(* What concatenation does, element by element.                            *)
LEMMA ConcatProps ==
  ASSUME NEW S, NEW s \in Seq(S), NEW t \in Seq(S)
  PROVE  /\ s \o t \in Seq(S) /\ Len(s \o t) = Len(s) + Len(t)
         /\ \A i \in 1..Len(s) : (s \o t)[i] = s[i]
         /\ \A i \in 1..Len(t) : (s \o t)[Len(s) + i] = t[i]
OBVIOUS

(* The values of the variables.                                            *)
Block == [time : Nat, full : BOOLEAN]
Looping == {"take", "read", "hand", "write", "stop", "sync", "after", "verify"}

CopyTypes ==
  /\ pc \in {"open", "fail", "returned"} \cup Looping
  /\ hashing \in BOOLEAN /\ closed \in BOOLEAN /\ joined \in BOOLEAN
  /\ file \in Seq(Block) /\ part \in Seq(Block) /\ digest \in Seq(Block)
  /\ mtime \in Nat /\ copied \in Nat /\ before \in [size : Nat, mtime : Nat]
  /\ buf \in Bufs \cup {NoBuf} /\ busy \in Bufs \cup {NoBuf}
  /\ free \in Seq(Bufs) /\ work \in Seq(Bufs) /\ fill \in [Bufs -> Block]

(* Every buffer is in one place of the channels and the goroutine at most. *)
Distinct ==
  /\ \A i, j \in 1..Len(free) : free[i] = free[j] => i = j
  /\ \A i, j \in 1..Len(work) : work[i] = work[j] => i = j
  /\ \A i \in 1..Len(free), j \in 1..Len(work) : free[i] # work[j]
  /\ busy # NoBuf => /\ \A i \in 1..Len(free) : free[i] # busy
                     /\ \A i \in 1..Len(work) : work[i] # busy
(* The loop alone holds the buffer it reads into.                          *)
Owned ==
  /\ pc \in {"read", "hand", "write"} => buf \in Bufs
  /\ pc \in {"read", "hand"} =>
       /\ busy # buf
       /\ \A i \in 1..Len(free) : free[i] # buf
       /\ \A i \in 1..Len(work) : work[i] # buf

(* What is written once the current write returns.                         *)
Written == IF pc = "write" THEN Append(part, fill[buf]) ELSE part
BusyLen == IF busy = NoBuf THEN 0 ELSE 1
(* The digest, the block being hashed and the waiting blocks follow one    *)
(* another as they were written.                                           *)
Hashed ==
  hashing /\ pc \in Looping /\ result = "none" =>
    /\ Len(digest) + BusyLen + Len(work) = Len(Written)
    /\ \A i \in 1..Len(digest) : digest[i] = Written[i]
    /\ busy # NoBuf => fill[busy] = Written[Len(digest) + 1]
    /\ \A i \in 1..Len(work) : fill[work[i]] = Written[Len(digest) + BusyLen + i]

(* As long as the source was not rewritten all blocks copied are of its    *)
(* version; the check after the copy makes this last.                      *)
Versions ==
  /\ before.mtime <= mtime
  /\ \A i \in 1..Len(file) : file[i].time = mtime
  /\ (pc \in Looping /\ mtime = before.mtime) \/ pc = "verify" \/ result = "ok" =>
       \A i \in 1..Len(part) : part[i].time = before.mtime
  /\ pc \in {"hand", "write"} /\ mtime = before.mtime => fill[buf].time = before.mtime

(* How a copy begins and ends.                                             *)
Ends ==
  /\ pc = "open" => /\ digest = <<>> /\ work = <<>> /\ busy = NoBuf /\ ~closed
                    /\ before.mtime = 0 /\ result = "none"
  /\ closed => pc \in {"stop", "sync", "after", "verify", "fail", "returned"}
  /\ joined => closed /\ work = <<>> /\ busy = NoBuf
  /\ hashing /\ (pc \in {"sync", "after", "verify"} \/ result = "ok") => joined
  /\ result = "ok" => /\ pc = "returned" /\ Len(part) = before.size
                      /\ hashing => digest = part /\ ~rotten

CopyInv == CopyTypes /\ Distinct /\ Owned /\ Hashed /\ Versions /\ Ends

(* A version of the source is a sequence of blocks of one time.            *)
LEMMA ContentType ==
  ASSUME NEW t \in Nat, NEW blocks \in Contents(t)
  PROVE  blocks \in Seq(Block) /\ \A i \in 1..Len(blocks) : blocks[i].time = t
<1>1. PICK n \in 0..MaxBlocks, tail \in BOOLEAN : blocks = Content(n, tail, t)
  BY DEF Contents
<1>2. n \in Nat
  BY BoundsAssumption
<1>3. blocks = [i \in 1..n |-> [time |-> t, full |-> ~(tail /\ i = n)]]
  BY <1>1 DEF Content
<1>4. \A i \in 1..n : [time |-> t, full |-> ~(tail /\ i = n)] \in Block
  BY DEF Block
<1>5. QED
  BY <1>2, <1>3, <1>4

(* No part file, and one of an earlier attempt, are sequences of blocks.   *)
LEMMA OldParts ==
  Absent \in Seq(Block) /\ Leftover \in Seq(Block)
<1>1. ASSUME NEW t \in Nat PROVE <<[time |-> t, full |-> TRUE]>> \in Seq(Block)
  <2>1. [time |-> t, full |-> TRUE] \in Block
    BY DEF Block
  <2>2. ASSUME NEW e \in Block PROVE <<e>> \in Seq(Block)
    OBVIOUS
  <2>3. QED
    BY <2>1, <2>2
<1>2. MaxEdits + 1 \in Nat /\ MaxEdits + 2 \in Nat
  BY BoundsAssumption
<1>3. QED
  BY <1>1, <1>2 DEF Absent, Leftover

(* The invariant holds before the source is opened.                        *)
LEMMA InitInv ==
  ASSUME CopyInit PROVE CopyInv
<1> USE DEF CopyInit, CopyAt
<1>1. file \in Seq(Block) /\ \A i \in 1..Len(file) : file[i].time = 0
  BY ContentType
<1>2. part \in Seq(Block)
  BY OldParts
<1>3. free \in Seq(Bufs) /\ Len(free) = Ring /\ \A i \in 1..Ring : free[i] = i
  BY RingAssumption DEF Bufs
<1>4. fill \in [Bufs -> Block]
  BY DEF Block
<1>5. CopyTypes
  <2>1. before \in [size : Nat, mtime : Nat] /\ work \in Seq(Bufs) /\ digest \in Seq(Block)
    OBVIOUS
  <2>2. QED
    BY <1>1, <1>2, <1>3, <1>4, <2>1 DEF CopyTypes
<1>6. Distinct
  BY <1>3, RingAssumption DEF Distinct
<1>7. QED
  BY <1>1, <1>5, <1>6 DEF CopyInv, Owned, Hashed, Versions, Ends, Looping

(* close(work).                                                            *)
LEMMA StopInv ==
  ASSUME CopyInv, Stop PROVE CopyInv'
<1>1. part' \in Seq(Block)
  BY BoundsAssumption DEF CopyInv, CopyTypes, Stop, process, source, goroutine, Absent, Block
<1>2. QED
  BY <1>1 DEF CopyInv, CopyTypes, Distinct, Owned, Hashed, Versions, Ends, Written, BusyLen, Looping,
     Stop, process, source, goroutine

(* The loop goes on when the goroutine ended.                              *)
LEMMA JoinInv ==
  ASSUME CopyInv, Join PROVE CopyInv'
<1>1. part' \in Seq(Block)
  BY BoundsAssumption DEF CopyInv, CopyTypes, Join, process, source, goroutine, Absent, Block
<1>2. QED
  BY <1>1 DEF CopyInv, CopyTypes, Distinct, Owned, Hashed, Versions, Ends, Written, BusyLen, Looping,
     Join, process, source, goroutine

(* The part file is synced and closed.                                     *)
LEMMA SyncPartInv ==
  ASSUME CopyInv, SyncPart PROVE CopyInv'
<1> USE DEF CopyInv, SyncPart, source, goroutine
<1>1. CopyTypes'
  BY OldParts DEF CopyTypes, Looping
<1>2. Distinct' /\ Owned'
  BY DEF Distinct, Owned
<1>3. Hashed'
  BY DEF Hashed, Looping, Written, BusyLen
<1>4. Versions' /\ Ends'
  BY DEF Versions, Ends, Looping
<1>5. QED
  BY <1>1, <1>2, <1>3, <1>4

(* The source is looked at again: from here the part file is of one        *)
(* version.                                                                *)
LEMMA CheckSourceInv ==
  ASSUME CopyInv, CheckSource PROVE CopyInv'
<1>1. part' \in Seq(Block)
  BY BoundsAssumption DEF CopyInv, CopyTypes, CheckSource, process, source, goroutine, Absent, Block
<1>2. QED
  BY <1>1 DEF CopyInv, CopyTypes, Distinct, Owned, Hashed, Versions, Ends, Written, BusyLen, Looping,
     CheckSource, process, source, goroutine

(* The checks of finishPart.                                               *)
LEMMA FinishPartInv ==
  ASSUME CopyInv, FinishPart PROVE CopyInv'
<1>1. part' \in Seq(Block)
  BY BoundsAssumption DEF CopyInv, CopyTypes, FinishPart, process, source, goroutine, Absent, Block
<1>2. QED
  BY <1>1 DEF CopyInv, CopyTypes, Distinct, Owned, Hashed, Versions, Ends, Written, BusyLen, Looping,
     FinishPart, process, source, goroutine

(* The part file is removed.                                               *)
LEMMA FailInv ==
  ASSUME CopyInv, Fail PROVE CopyInv'
<1> USE DEF CopyInv, Fail, source, goroutine
<1>1. CopyTypes'
  BY OldParts DEF CopyTypes, Looping
<1>2. Distinct' /\ Owned'
  BY DEF Distinct, Owned
<1>3. Hashed'
  BY DEF Hashed, Looping, Written, BusyLen
<1>4. Versions' /\ Ends'
  BY DEF Versions, Ends, Looping
<1>5. QED
  BY <1>1, <1>2, <1>3, <1>4

(* The goroutine ends with nothing left to hash.                           *)
LEMMA HashEndInv ==
  ASSUME CopyInv, HashEnd PROVE CopyInv'
<1>1. part' \in Seq(Block)
  BY BoundsAssumption DEF CopyInv, CopyTypes, HashEnd, process, source, goroutine, Absent, Block
<1>2. QED
  BY <1>1 DEF CopyInv, CopyTypes, Distinct, Owned, Hashed, Versions, Ends, Written, BusyLen, Looping,
     HashEnd, process, source, goroutine

(* The run is canceled.                                                    *)
LEMMA CancelInv ==
  ASSUME CopyInv, Cancel PROVE CopyInv'
<1> USE DEF CopyInv, Cancel, process, goroutine
<1>1. CopyTypes' /\ Distinct' /\ Owned'
  BY DEF CopyTypes, Distinct, Owned
<1>2. Hashed' /\ Versions' /\ Ends'
  BY DEF Hashed, Versions, Ends, Written, BusyLen
<1>3. QED
  BY <1>1, <1>2

(* The disk returns something else than was written.                       *)
LEMMA RotInv ==
  ASSUME CopyInv, Rot PROVE CopyInv'
<1>1. part' \in Seq(Block)
  BY BoundsAssumption DEF CopyInv, CopyTypes, Rot, process, source, goroutine, Absent, Block
<1>2. QED
  BY <1>1 DEF CopyInv, CopyTypes, Distinct, Owned, Hashed, Versions, Ends, Written, BusyLen, Looping,
     Rot, process, source, goroutine

(* StageCopy up to the creation of the part file.                          *)
LEMMA OpenInv ==
  ASSUME CopyInv, Open PROVE CopyInv'
<1> USE DEF CopyInv, Open, source, goroutine
<1>1. part' \in Seq(Block)
  <2>1. <<>> \in Seq(Block) /\ part \in Seq(Block)
    BY DEF CopyTypes
  <2>2. part' \in {part, Absent, <<>>}
    OBVIOUS
  <2>3. QED
    BY <2>1, <2>2, OldParts
<1>2. CopyTypes'
  BY <1>1 DEF CopyTypes, Looping
<1>3. Distinct' /\ Owned'
  BY DEF Distinct, Owned
<1>4. Hashed'
  <2>1. digest = <<>> /\ work = <<>> /\ busy = NoBuf
    BY DEF Ends
  <2>2. CASE pc' = "returned"
    BY <2>2 DEF Hashed, Looping
  <2>3. CASE part' = <<>> /\ pc' = "take"
    BY <2>1, <2>3 DEF Hashed, BusyLen, Written
  <2>4. QED
    BY <2>2, <2>3
<1>5. Versions'
  BY DEF Versions, Ends, CopyTypes, Looping
<1>6. Ends'
  BY DEF Ends
<1>7. QED
  BY <1>2, <1>3, <1>4, <1>5, <1>6

(* A chunk is copied without a hash.                                       *)
LEMMA CopyChunkInv ==
  ASSUME CopyInv, CopyChunk PROVE CopyInv'
<1> USE DEF CopyInv, CopyChunk, source, goroutine
<1>1. CASE UNCHANGED <<part, copied>>
  <2>1. CopyTypes'
    BY <1>1 DEF CopyTypes, Looping
  <2>2. Distinct' /\ Owned' /\ Hashed'
    BY <1>1 DEF Distinct, Owned, Hashed, CopyTypes
  <2>3. Versions' /\ Ends'
    BY <1>1 DEF Versions, Ends, Looping
  <2>4. QED
    BY <2>1, <2>2, <2>3
<1>2. CASE /\ copied < Len(file)
           /\ part' = Append(part, file[copied + 1]) /\ copied' = copied + 1
           /\ pc' = IF file[copied + 1].full THEN "take" ELSE "sync"
           /\ UNCHANGED result
  <2>1. copied + 1 \in 1..Len(file) /\ file[copied + 1] \in Block
    <3>1. file \in Seq(Block) /\ Len(file) \in Nat /\ copied \in Nat
      BY DEF CopyTypes
    <3>2. copied + 1 \in 1..Len(file)
      BY <1>2, <3>1
    <3>3. QED
      BY <3>1, <3>2, ElementOfSeq
  <2>2. /\ part' \in Seq(Block) /\ Len(part') = Len(part) + 1 /\ Len(part) \in Nat
        /\ \A i \in 1..Len(part) : part'[i] = part[i]
        /\ part'[Len(part) + 1] = file[copied + 1]
    BY <1>2, <2>1, AppendProps DEF CopyTypes
  <2>3. CopyTypes'
    BY <1>2, <2>2 DEF CopyTypes, Looping
  <2>4. Distinct' /\ Owned' /\ Hashed'
    BY <1>2 DEF Distinct, Owned, Hashed, CopyTypes
  <2>5. Versions'
    <3>1. result # "ok" /\ pc' # "verify"
      BY <1>2 DEF Ends
    <3>2. mtime = before.mtime => \A i \in 1..Len(part') : part'[i].time = before.mtime
      BY <2>1, <2>2 DEF Versions, Looping
    <3>3. QED
      BY <1>2, <3>1, <3>2 DEF Versions
  <2>6. Ends'
    BY <1>2 DEF Ends
  <2>7. QED
    BY <2>3, <2>4, <2>5, <2>6
<1>3. QED
  BY <1>1, <1>2

(* The loop takes a free buffer, which nobody else holds.                  *)
LEMMA TakeInv ==
  ASSUME CopyInv, Take PROVE CopyInv'
<1> USE DEF CopyInv, Take, source, goroutine
<1>1. CASE canceled /\ result' = "canceled" /\ pc' = "stop" /\ UNCHANGED <<buf, free>>
  <2>1. CopyTypes'
    BY <1>1 DEF CopyTypes, Looping
  <2>2. Distinct' /\ Owned' /\ Hashed'
    BY <1>1 DEF Distinct, Owned, Hashed, CopyTypes
  <2>3. Versions' /\ Ends'
    BY <1>1 DEF Versions, Ends, Looping
  <2>4. QED
    BY <2>1, <2>2, <2>3
<1>2. CASE /\ ~canceled /\ free # <<>>
           /\ buf' = Head(free) /\ free' = Tail(free) /\ pc' = "read" /\ UNCHANGED result
  <2>1. /\ free \in Seq(Bufs) /\ Len(free) \in Nat /\ Len(free) > 0 /\ buf' = free[1] /\ free[1] \in Bufs
        /\ free' \in Seq(Bufs) /\ Len(free') = Len(free) - 1
        /\ \A i \in 1..Len(free') : free'[i] = free[i + 1] /\ i + 1 \in 1..Len(free) /\ i + 1 # 1
    BY <1>2, TailProps DEF CopyTypes
  <2>2. CopyTypes'
    BY <1>2, <2>1 DEF CopyTypes, Looping
  <2>3. Distinct'
    <3>1. ASSUME NEW i \in 1..Len(free'), NEW j \in 1..Len(free'), free'[i] = free'[j] PROVE i = j
      <4>1. i + 1 = j + 1
        BY <2>1, <3>1 DEF Distinct
      <4>2. QED
        BY <4>1
    <3>2. QED
      BY <1>2, <2>1, <3>1 DEF Distinct
  <2>4. Owned'
    <3>1. 1 \in 1..Len(free)
      BY <2>1
    <3>2. \A i \in 1..Len(free') : free'[i] # buf'
      BY <2>1, <3>1 DEF Distinct
    <3>3. (\A i \in 1..Len(work) : work[i] # buf') /\ busy # buf'
      BY <2>1, <3>1 DEF Distinct, Bufs, NoBuf
    <3>4. QED
      BY <1>2, <2>1, <3>2, <3>3 DEF Owned
  <2>5. Hashed'
    <3>1. Written' = Written /\ BusyLen' = BusyLen
      BY <1>2 DEF Written, BusyLen
    <3>2. QED
      BY <1>2, <3>1 DEF Hashed, Looping
  <2>6. Versions'
    BY <1>2 DEF Versions, Ends, Looping
  <2>7. Ends'
    BY <1>2 DEF Ends
  <2>8. QED
    BY <2>2, <2>3, <2>4, <2>5, <2>6, <2>7
<1>3. QED
  BY <1>1, <1>2

(* The buffer is filled, or given back; no block to be hashed changes.     *)
LEMMA ReadInv ==
  ASSUME CopyInv, Read PROVE CopyInv'
<1> USE DEF CopyInv, Read, source, goroutine
<1>0. buf \in Bufs /\ Written' = Written /\ BusyLen' = BusyLen
  BY DEF Owned, Written, BusyLen
<1>1. CASE /\ copied < Len(file) /\ fill' = [fill EXCEPT ![buf] = file[copied + 1]]
           /\ got' \in {IF file[copied + 1].full THEN "data" ELSE "tail", "error"}
           /\ pc' = "hand" /\ UNCHANGED <<buf, free, result>>
  <2>1. file[copied + 1] \in Block /\ copied + 1 \in 1..Len(file)
    <3>1. file \in Seq(Block) /\ Len(file) \in Nat /\ copied \in Nat
      BY DEF CopyTypes
    <3>2. copied + 1 \in 1..Len(file)
      BY <1>1, <3>1
    <3>3. QED
      BY <3>1, <3>2, ElementOfSeq
  <2>2. /\ fill' \in [Bufs -> Block] /\ fill'[buf] = file[copied + 1]
        /\ \A b \in Bufs : b # buf => fill'[b] = fill[b]
    BY <1>0, <1>1, <2>1 DEF CopyTypes
  <2>3. CopyTypes'
    BY <1>1, <2>2 DEF CopyTypes, Looping
  <2>4. Distinct' /\ Owned' /\ Ends'
    BY <1>1 DEF Distinct, Owned, Ends
  <2>5. Hashed'
    <3>1. (busy # NoBuf => fill'[busy] = fill[busy]) /\ \A i \in 1..Len(work) : fill'[work[i]] = fill[work[i]]
      BY <2>2, ElementOfSeq DEF Owned, CopyTypes
    <3>2. QED
      BY <1>0, <1>1, <3>1 DEF Hashed, Looping
  <2>6. Versions'
    BY <1>1, <2>1, <2>2 DEF Versions, Looping, Ends
  <2>7. QED
    BY <2>3, <2>4, <2>5, <2>6
<1>2. CASE /\ free' = Append(free, buf) /\ buf' = NoBuf /\ pc' = "stop" /\ UNCHANGED fill
           /\ result' \in {result, "io"}
  <2>1. /\ free' \in Seq(Bufs) /\ Len(free') = Len(free) + 1 /\ Len(free) \in Nat
        /\ \A i \in 1..Len(free) : free'[i] = free[i]
        /\ free'[Len(free) + 1] = buf
    BY <1>0, <1>2, AppendProps DEF CopyTypes
  <2>2. CopyTypes'
    BY <1>2, <2>1 DEF CopyTypes, Looping
  <2>3. \A i \in 1..Len(free') : i \in 1..Len(free) \/ i = Len(free) + 1
    BY <2>1
  <2>4. Distinct'
    <3>1. \A i, j \in 1..Len(free') : free'[i] = free'[j] => i = j
      BY <2>1, <2>3 DEF Distinct, Owned
    <3>2. \A i \in 1..Len(free'), j \in 1..Len(work) : free'[i] # work[j]
      BY <2>1, <2>3 DEF Distinct, Owned
    <3>3. busy # NoBuf => \A i \in 1..Len(free') : free'[i] # busy
      BY <2>1, <2>3 DEF Distinct, Owned
    <3>4. QED
      BY <1>2, <3>1, <3>2, <3>3 DEF Distinct
  <2>5. Owned' /\ Ends'
    BY <1>2 DEF Owned, Ends
  <2>6. Hashed'
    BY <1>0, <1>2 DEF Hashed, Looping
  <2>7. Versions'
    BY <1>2 DEF Versions, Looping, Ends
  <2>8. QED
    BY <2>2, <2>4, <2>5, <2>6, <2>7
<1>3. QED
  BY <1>1, <1>2

(* The buffer joins the work, and its block what is written.               *)
LEMMA HandInv ==
  ASSUME CopyInv, Hand PROVE CopyInv'
<1> USE DEF CopyInv, Hand, source, goroutine
<1>0. buf \in Bufs /\ BusyLen' = BusyLen /\ BusyLen \in {0, 1} /\ Written = part /\ Written' = Append(part, fill[buf])
  BY DEF Owned, BusyLen, Written
<1>1. /\ work' \in Seq(Bufs) /\ Len(work') = Len(work) + 1 /\ Len(work) \in Nat
      /\ \A i \in 1..Len(work) : work'[i] = work[i]
      /\ work'[Len(work) + 1] = buf
  BY <1>0, AppendProps DEF CopyTypes
<1>2. /\ Written' \in Seq(Block) /\ Len(Written') = Len(part) + 1 /\ Len(part) \in Nat
      /\ \A i \in 1..Len(part) : Written'[i] = part[i]
      /\ Written'[Len(part) + 1] = fill[buf]
  <2>1. fill[buf] \in Block /\ part \in Seq(Block)
    BY <1>0 DEF CopyTypes
  <2>2. QED
    BY <1>0, <2>1, AppendProps
<1>3. \A i \in 1..Len(work') : i \in 1..Len(work) \/ i = Len(work) + 1
  BY <1>1
<1>4. CopyTypes'
  BY <1>1 DEF CopyTypes, Looping
<1>5. Distinct'
  <2>1. \A i, j \in 1..Len(work') : work'[i] = work'[j] => i = j
    BY <1>1, <1>3 DEF Distinct, Owned
  <2>2. \A i \in 1..Len(free), j \in 1..Len(work') : free[i] # work'[j]
    BY <1>1, <1>3 DEF Distinct, Owned
  <2>3. busy # NoBuf => \A i \in 1..Len(work') : work'[i] # busy
    BY <1>1, <1>3 DEF Distinct, Owned
  <2>4. QED
    BY <2>1, <2>2, <2>3 DEF Distinct
<1>6. Owned' /\ Versions'
  BY <1>0 DEF Owned, Versions, Looping, Ends
<1>7. Ends'
  BY DEF Ends
<1>8. Hashed'
  <2>1. CASE hashing /\ result = "none"
    <3>1. /\ Len(digest) + BusyLen + Len(work) = Len(part) /\ Len(digest) \in Nat
          /\ \A i \in 1..Len(digest) : digest[i] = part[i]
          /\ busy # NoBuf => fill[busy] = part[Len(digest) + 1]
          /\ \A i \in 1..Len(work) : fill[work[i]] = part[Len(digest) + BusyLen + i]
      BY <1>0, <2>1 DEF Hashed, Looping, CopyTypes
    <3>2. \A i \in 1..Len(digest) : digest[i] = Written'[i]
      BY <1>0, <1>1, <1>2, <3>1
    <3>3. busy # NoBuf => fill[busy] = Written'[Len(digest) + 1]
      BY <1>0, <1>1, <1>2, <3>1 DEF BusyLen
    <3>4. ASSUME NEW i \in 1..Len(work') PROVE fill[work'[i]] = Written'[Len(digest) + BusyLen + i]
      <4>1. CASE i \in 1..Len(work)
        <5>1. Len(digest) + BusyLen + i \in 1..Len(part)
          BY <1>0, <1>1, <1>2, <3>1, <4>1
        <5>2. QED
          BY <1>1, <1>2, <3>1, <4>1, <5>1
      <4>2. CASE i = Len(work) + 1
        <5>1. Len(digest) + BusyLen + i = Len(part) + 1
          BY <1>0, <1>1, <3>1, <4>2
        <5>2. QED
          BY <1>1, <1>2, <4>2, <5>1
      <4>3. QED
        BY <1>3, <4>1, <4>2
    <3>5. Len(digest) + BusyLen + Len(work') = Len(Written')
      BY <1>0, <1>1, <1>2, <3>1
    <3>6. QED
      BY <1>0, <3>2, <3>3, <3>4, <3>5 DEF Hashed
  <2>2. QED
    BY <2>1 DEF Hashed
<1>9. QED
  BY <1>4, <1>5, <1>6, <1>7, <1>8

(* The block is written: what was handed over is in the part file now.     *)
LEMMA WriteInv ==
  ASSUME CopyInv, Write PROVE CopyInv'
<1> USE DEF CopyInv, Write, source, goroutine
<1>0. buf \in Bufs /\ BusyLen' = BusyLen /\ Written = Append(part, fill[buf]) /\ fill[buf] \in Block
  BY DEF Owned, BusyLen, Written, CopyTypes
<1>1. Distinct' /\ Owned'
  BY DEF Distinct, Owned
<1>2. Ends'
  BY DEF Ends
<1>3. CASE /\ part' = Append(part, fill[buf]) /\ copied' = copied + 1 /\ buf' = NoBuf
           /\ pc' = IF got = "data" THEN "take" ELSE "stop"
           /\ result' = IF got = "error" THEN "io" ELSE result
  <2>1. /\ part' \in Seq(Block) /\ Len(part') = Len(part) + 1 /\ Len(part) \in Nat
        /\ \A i \in 1..Len(part) : part'[i] = part[i]
        /\ part'[Len(part) + 1] = fill[buf]
    BY <1>0, <1>3, AppendProps DEF CopyTypes
  <2>2. CopyTypes'
    BY <1>3, <2>1 DEF CopyTypes, Looping
  <2>3. Hashed'
    <3>1. Written' = Written
      BY <1>0, <1>3 DEF Written
    <3>2. QED
      BY <1>0, <1>3, <3>1 DEF Hashed, Looping
  <2>4. Versions'
    <3>1. mtime = before.mtime => \A i \in 1..Len(part') : part'[i].time = before.mtime
      BY <2>1 DEF Versions, Looping
    <3>2. QED
      BY <1>3, <3>1 DEF Versions, Ends
  <2>5. QED
    BY <1>1, <1>2, <2>2, <2>3, <2>4
<1>4. CASE result' = "io" /\ pc' = "stop" /\ buf' = NoBuf /\ UNCHANGED <<part, copied>>
  <2>1. CopyTypes'
    BY <1>4 DEF CopyTypes, Looping
  <2>2. Hashed'
    BY <1>4 DEF Hashed
  <2>3. Versions'
    BY <1>4 DEF Versions, Ends, Looping
  <2>4. QED
    BY <1>1, <1>2, <2>1, <2>2, <2>3
<1>5. QED
  BY <1>3, <1>4

(* The goroutine takes a buffer.                                           *)
LEMMA HashTakeInv ==
  ASSUME CopyInv, HashTake PROVE CopyInv'
<1> USE DEF CopyInv, HashTake, source
<1>1. /\ work \in Seq(Bufs) /\ Len(work) \in Nat /\ Len(work) > 0 /\ busy' = work[1] /\ work[1] \in Bufs
      /\ work' \in Seq(Bufs) /\ Len(work') = Len(work) - 1
      /\ \A i \in 1..Len(work') : work'[i] = work[i + 1] /\ i + 1 \in 1..Len(work) /\ i + 1 # 1
  BY TailProps DEF CopyTypes
<1>2. 1 \in 1..Len(work) /\ busy' # NoBuf
  BY <1>1 DEF Bufs, NoBuf
<1>3. CopyTypes'
  BY <1>1 DEF CopyTypes
<1>4. Distinct'
  <2>1. \A i, j \in 1..Len(work') : work'[i] = work'[j] => i = j
    BY <1>1 DEF Distinct
  <2>2. \A i \in 1..Len(free), j \in 1..Len(work') : free[i] # work'[j]
    BY <1>1 DEF Distinct
  <2>3. (\A i \in 1..Len(free) : free[i] # busy') /\ \A i \in 1..Len(work') : work'[i] # busy'
    BY <1>1, <1>2 DEF Distinct
  <2>4. QED
    BY <2>1, <2>2, <2>3 DEF Distinct
<1>5. Owned'
  BY <1>1, <1>2 DEF Owned
<1>6. Ends' /\ Versions'
  BY DEF Ends, Versions
<1>7. Hashed'
  <2>1. CASE hashing /\ pc \in Looping /\ result = "none"
    <3>1. /\ Len(digest) + Len(work) = Len(Written) /\ Len(digest) \in Nat
          /\ \A i \in 1..Len(digest) : digest[i] = Written[i]
          /\ \A i \in 1..Len(work) : fill[work[i]] = Written[Len(digest) + i]
      BY <1>1, <2>1 DEF Hashed, CopyTypes, BusyLen
    <3>2. Written' = Written /\ BusyLen' = 1
      BY <1>2 DEF Written, BusyLen
    <3>3. \A i \in 1..Len(work') : fill[work'[i]] = Written[Len(digest) + 1 + i]
      <4>1. \A i \in 1..Len(work') : Len(digest) + (i + 1) = Len(digest) + 1 + i
        BY <3>1
      <4>2. QED
        BY <1>1, <3>1, <4>1
    <3>4. QED
      BY <1>1, <1>2, <3>1, <3>2, <3>3 DEF Hashed
  <2>2. QED
    BY <2>1 DEF Hashed
<1>8. QED
  BY <1>3, <1>4, <1>5, <1>6, <1>7

(* A block joins the digest and its buffer is free.                        *)
LEMMA HashDoneInv ==
  ASSUME CopyInv, HashDone PROVE CopyInv'
<1> USE DEF CopyInv, HashDone, source
<1>1. busy \in Bufs /\ fill[busy] \in Block /\ busy' = NoBuf
  BY DEF CopyTypes
<1>2. /\ free' \in Seq(Bufs) /\ Len(free') = Len(free) + 1 /\ Len(free) \in Nat
      /\ \A i \in 1..Len(free) : free'[i] = free[i]
      /\ free'[Len(free) + 1] = busy
  BY <1>1, AppendProps DEF CopyTypes
<1>3. /\ digest' \in Seq(Block) /\ Len(digest') = Len(digest) + 1 /\ Len(digest) \in Nat
      /\ \A i \in 1..Len(digest) : digest'[i] = digest[i]
      /\ digest'[Len(digest) + 1] = fill[busy]
  BY <1>1, AppendProps DEF CopyTypes
<1>4. CopyTypes'
  BY <1>1, <1>2, <1>3 DEF CopyTypes
<1>5. \A i \in 1..Len(free') : i \in 1..Len(free) \/ i = Len(free) + 1
  BY <1>2
<1>6. Distinct'
  <2>1. \A i, j \in 1..Len(free') : free'[i] = free'[j] => i = j
    BY <1>2, <1>5 DEF Distinct
  <2>2. \A i \in 1..Len(free'), j \in 1..Len(work) : free'[i] # work[j]
    BY <1>2, <1>5 DEF Distinct
  <2>3. QED
    BY <1>1, <2>1, <2>2 DEF Distinct
<1>7. Owned'
  <2>1. pc \in {"read", "hand"} => NoBuf # buf /\ \A i \in 1..Len(free') : free'[i] # buf
    BY <1>2, <1>5 DEF Owned, Bufs, NoBuf
  <2>2. QED
    BY <1>1, <2>1 DEF Owned
<1>8. Versions'
  BY DEF Versions
<1>9. Ends'
  BY DEF Ends
<1>10. Hashed'
  <2>1. CASE hashing /\ pc \in Looping /\ result = "none"
    <3>1. /\ Len(digest) + 1 + Len(work) = Len(Written)
          /\ \A i \in 1..Len(digest) : digest[i] = Written[i]
          /\ fill[busy] = Written[Len(digest) + 1]
          /\ \A i \in 1..Len(work) : fill[work[i]] = Written[Len(digest) + 1 + i]
      BY <2>1 DEF Hashed, BusyLen
    <3>2. Written' = Written /\ BusyLen' = 0 /\ Len(work) \in Nat
      BY <1>1 DEF Written, BusyLen, CopyTypes
    <3>3. \A i \in 1..Len(digest') : digest'[i] = Written[i]
      BY <1>3, <3>1
    <3>4. \A i \in 1..Len(work) : fill[work[i]] = Written[Len(digest') + 0 + i]
      BY <1>3, <3>1
    <3>5. Len(digest') + 0 + Len(work) = Len(Written)
      BY <1>3, <3>1, <3>2
    <3>6. QED
      BY <1>1, <3>2, <3>3, <3>4, <3>5 DEF Hashed
  <2>2. QED
    BY <2>1 DEF Hashed
<1>11. QED
  BY <1>4, <1>6, <1>7, <1>8, <1>9, <1>10

(* The user rewrites the source, which is another version then.            *)
LEMMA RewriteInv ==
  ASSUME CopyInv, Rewrite PROVE CopyInv'
<1> USE DEF CopyInv, Rewrite, process, goroutine
<1>1. mtime + 1 \in Nat /\ mtime \in Nat /\ before.mtime \in Nat
  BY DEF CopyTypes
<1>2. file' \in Seq(Block) /\ \A i \in 1..Len(file') : file'[i].time = mtime'
  BY <1>1, ContentType
<1>3. CopyTypes' /\ Distinct' /\ Owned'
  BY <1>1, <1>2 DEF CopyTypes, Distinct, Owned
<1>4. Hashed' /\ Ends'
  BY DEF Hashed, Ends, Written, BusyLen
<1>5. Versions'
  <2>1. mtime' # before.mtime /\ before.mtime <= mtime'
    BY <1>1 DEF Versions
  <2>2. QED
    BY <1>2, <2>1 DEF Versions
<1>6. QED
  BY <1>3, <1>4, <1>5

(* Every step preserves the invariant.                                     *)
LEMMA NextInv ==
  ASSUME CopyInv, [CopyNext]_copyVars PROVE CopyInv'
<1>1. ASSUME UNCHANGED copyVars PROVE CopyInv'
  <2> USE <1>1 DEF copyVars, CopyInv
  <2>1. CopyTypes' /\ Distinct' /\ Owned'
    BY DEF CopyTypes, Distinct, Owned
  <2>2. Hashed' /\ Versions' /\ Ends'
    BY DEF Hashed, Versions, Ends, Written, BusyLen
  <2>3. QED
    BY <2>1, <2>2
<1>2. QED
  BY <1>1, OpenInv, CopyChunkInv, TakeInv, ReadInv, HandInv, WriteInv, StopInv, JoinInv, SyncPartInv, CheckSourceInv,
     FinishPartInv, FailInv, HashTakeInv, HashDoneInv, HashEndInv, RewriteInv, CancelInv, RotInv
     DEF CopyNext, Copier, Hasher, Returned

(* The invariant of the copy: the buffers circulate without being shared,  *)
(* and what is hashed, is being hashed or waits is what was written, in    *)
(* order.                                                                  *)
THEOREM CopyCorrect == CopySpec => []CopyInv
BY InitInv, NextInv, PTL DEF CopySpec

(* The invariant implies the sequence that the runs compare.               *)
LEMMA DigestOf ==
  ASSUME CopyInv PROVE DigestFollowsWrites
<1> DEFINE held == IF busy = NoBuf THEN <<>> ELSE <<busy>>
           pending == held \o work
           waiting == [i \in DOMAIN pending |-> fill[pending[i]]]
           handed == digest \o waiting
<1> SUFFICES ASSUME hashing, pc \notin {"idle", "open", "fail", "returned"}, result = "none"
             PROVE  handed = Written
  BY DEF DigestFollowsWrites, Written
<1>1. /\ Len(digest) + BusyLen + Len(work) = Len(Written)
      /\ \A i \in 1..Len(digest) : digest[i] = Written[i]
      /\ busy # NoBuf => fill[busy] = Written[Len(digest) + 1]
      /\ \A i \in 1..Len(work) : fill[work[i]] = Written[Len(digest) + BusyLen + i]
      /\ work \in Seq(Bufs) /\ digest \in Seq(Block) /\ fill \in [Bufs -> Block]
      /\ Len(work) \in Nat /\ Len(digest) \in Nat
  <2>0. Hashed /\ pc \in Looping
    BY Zenon DEF CopyInv, CopyTypes
  <2>1. /\ Len(digest) + BusyLen + Len(work) = Len(Written)
        /\ \A i \in 1..Len(digest) : digest[i] = Written[i]
        /\ busy # NoBuf => fill[busy] = Written[Len(digest) + 1]
        /\ \A i \in 1..Len(work) : fill[work[i]] = Written[Len(digest) + BusyLen + i]
    BY <2>0, Zenon DEF Hashed
  <2>2. work \in Seq(Bufs) /\ digest \in Seq(Block) /\ fill \in [Bufs -> Block]
    BY DEF CopyInv, CopyTypes
  <2>3. Len(work) \in Nat /\ Len(digest) \in Nat
    BY <2>2
  <2>4. QED
    BY <2>1, <2>2, <2>3, Zenon
<1>2. Written \in Seq(Block)
  <2>1. part \in Seq(Block) /\ (pc = "write" => fill[buf] \in Block)
    BY DEF CopyInv, CopyTypes, Owned
  <2>2. QED
    BY <2>1, AppendProps DEF Written
<1>3. held \in Seq(Bufs) /\ Len(held) = BusyLen /\ (busy # NoBuf => held[1] = busy)
  BY DEF CopyInv, CopyTypes, BusyLen
<1>4. /\ pending \in Seq(Bufs) /\ Len(pending) = BusyLen + Len(work)
      /\ \A i \in 1..Len(held) : pending[i] = held[i]
      /\ \A i \in 1..Len(work) : pending[Len(held) + i] = work[i]
  BY <1>1, <1>3, ConcatProps
<1> HIDE DEF held, pending
<1>5. BusyLen \in {0, 1} /\ (BusyLen = 1 => busy # NoBuf)
  BY DEF BusyLen
<1>6. Len(pending) \in Nat /\ DOMAIN pending = 1..Len(pending) /\ \A i \in 1..Len(pending) : fill[pending[i]] \in Block
  <2>1. \A i \in 1..Len(pending) : pending[i] \in Bufs
    BY <1>4, ElementOfSeq
  <2>2. QED
    BY <1>1, <1>4, <2>1
<1>7. waiting \in Seq(Block) /\ Len(waiting) = Len(pending) /\ \A i \in 1..Len(pending) : waiting[i] = fill[pending[i]]
  BY <1>6
<1> HIDE DEF waiting
<1>8. /\ handed \in Seq(Block) /\ Len(handed) = Len(digest) + Len(waiting)
      /\ \A i \in 1..Len(digest) : handed[i] = digest[i]
      /\ \A i \in 1..Len(waiting) : handed[Len(digest) + i] = waiting[i]
  <2>1. digest \in Seq(Block) /\ waiting \in Seq(Block)
    BY <1>1, <1>7
  <2>2. QED
    BY <2>1, ConcatProps
<1> HIDE DEF handed
<1>9. Len(handed) = Len(Written)
  BY <1>1, <1>4, <1>5, <1>7, <1>8
<1>10. \A i \in 1..Len(pending) : fill[pending[i]] = Written[Len(digest) + i]
  <2> SUFFICES ASSUME NEW i \in 1..Len(pending) PROVE fill[pending[i]] = Written[Len(digest) + i]
    OBVIOUS
  <2>1. CASE BusyLen = 0
    <3>1. i \in 1..Len(work) /\ Len(held) + i = i /\ Len(digest) + BusyLen + i = Len(digest) + i
      BY <1>1, <1>3, <1>4, <2>1
    <3>2. QED
      BY <1>1, <1>4, <3>1
  <2>2. CASE BusyLen = 1 /\ i = 1
    BY <1>1, <1>3, <1>4, <1>5, <2>2
  <2>3. CASE BusyLen = 1 /\ i # 1
    <3>1. PICK k \in 1..Len(work) : Len(held) + k = i /\ Len(digest) + BusyLen + k = Len(digest) + i
      <4>1. i - 1 \in 1..Len(work) /\ Len(held) + (i - 1) = i /\ Len(digest) + BusyLen + (i - 1) = Len(digest) + i
        BY <1>1, <1>3, <1>4, <2>3
      <4>2. QED
        BY <4>1
    <3>2. QED
      BY <1>1, <1>4, <3>1
  <2>4. QED
    BY <1>5, <2>1, <2>2, <2>3
<1>11. ASSUME NEW i \in 1..Len(handed) PROVE handed[i] = Written[i]
  <2>1. CASE i \in 1..Len(digest)
    BY <1>1, <1>8, <2>1
  <2>2. CASE i \notin 1..Len(digest)
    <3>1. i - Len(digest) \in 1..Len(waiting) /\ Len(digest) + (i - Len(digest)) = i
      BY <1>1, <1>6, <1>7, <1>8, <2>2
    <3>2. PICK k \in 1..Len(waiting) : k = i - Len(digest)
      BY <3>1
    <3>3. handed[Len(digest) + k] = waiting[k] /\ Len(digest) + k = i
      BY <1>8, <3>1, <3>2
    <3>4. waiting[k] = Written[Len(digest) + k]
      BY <1>7, <1>10, <3>2
    <3>5. QED
      BY <3>3, <3>4
  <2>3. QED
    BY <2>1, <2>2
<1>12. QED
  BY <1>2, <1>8, <1>9, <1>11, SeqEqual

(* What StageCopy reports as staged is the source as it was opened, of one *)
(* version, and the digest agrees with it, for any number of buffers, any  *)
(* length and any number of rewrites.                                      *)
THEOREM StagedCorrect == CopySpec => []StagedIsSource
<1>1. ASSUME CopyInv PROVE StagedIsSource
  <2>1. DigestFollowsWrites
    BY <1>1, DigestOf
  <2>2. result = "ok" => \A i \in DOMAIN part : part[i].time = before.mtime
    <3>1. DOMAIN part = 1..Len(part)
      BY <1>1 DEF CopyInv, CopyTypes
    <3> QED
      BY <1>1, <3>1 DEF CopyInv, Versions
  <2>3. result = "ok" => Len(part) = before.size /\ (hashing => digest = part /\ ~rotten)
    BY <1>1 DEF CopyInv, Ends
  <2> QED
    BY <2>1, <2>2, <2>3 DEF StagedIsSource
<1>2. QED
  BY <1>1, CopyCorrect, PTL
-----------------------------------------------------------------------------
(* What a line can hold.                                                   *)
Rec == [tx : Nat, seq : Nat, step : TxSteps \cup EventSteps, owner : Owner]
Line == [parts : Seq(Rec), nl : BOOLEAN]
Fields == {"seq", "nextTx", "begin", "last", "done", "events", "commits"}

(* Indexes of a running process: transaction numbers given out so far, and *)
(* open events of the run's own family.                                    *)
Usable(x) ==
  /\ DOMAIN x = Fields
  /\ x.seq \in Nat /\ x.nextTx \in Nat
  /\ DOMAIN x.begin \subseteq 1..x.nextTx /\ DOMAIN x.events \subseteq 1..x.nextTx
  /\ \A tx \in DOMAIN x.begin : x.begin[tx] \in Owner
  /\ \A tx \in DOMAIN x.events :
       x.events[tx].step \in {Family.begin, Family.delete} /\ x.events[tx].owner \in Owner

(* A line that ended with one record, a record that can come next, and a   *)
(* line whose write stopped half way.                                      *)
Whole(line) == line.nl /\ Decodes(line)
Fits(x, rec) == Acceptable(x, rec) /\ Usable(Ingest(x, rec))
Half(x, line) ==
  ~line.nl /\ line.parts # <<>> /\ (line.parts[1] = Fragment \/ Fits(x, line.parts[1]))

(* The first k lines lead from the empty indexes through xs; one more line *)
(* may follow, without its end.                                            *)
Followed(lines, xs, k) ==
  /\ k \in 0..Len(lines)
  /\ xs[0] = Fresh
  /\ \A n \in 1..k : Whole(lines[n]) /\ Fits(xs[n - 1], lines[n].parts[1])
                     /\ xs[n] = Ingest(xs[n - 1], lines[n].parts[1])
  /\ k < Len(lines) => k = Len(lines) - 1 /\ Half(xs[k], lines[Len(lines)])

(* A set of numbers has a least element.                                   *)
LEMMA LeastOf ==
  ASSUME NEW T, T \subseteq Nat, T # {}
  PROVE  \E k \in T : \A j \in T : k <= j
<1>1. PICK k \in T : \A j \in T : ~ (<<j, k>> \in OpToRel(<, Nat))
  BY NatLessThanWellFounded, WFMin
<1>2. \A j \in T : ~(j < k)
  BY <1>1, Zenon DEF OpToRel
<1>3. \A j \in T : k <= j
  BY <1>2
<1> QED
  BY <1>3

(* A solution of the recursion of Reading makes Reading a solution.        *)
LEMMA ReadingEq ==
  ASSUME NEW lines, NEW r,
         r = [n \in 0..Len(lines) |-> IF n = 0 THEN Start ELSE ReadLine(lines, r[n - 1], n)]
  PROVE Reading(lines) =
          [n \in 0..Len(lines) |-> IF n = 0 THEN Start ELSE ReadLine(lines, Reading(lines)[n - 1], n)]
BY DEF Reading

(* There is one solution, by the least line on which two would differ.     *)
LEMMA ReadingIs ==
  ASSUME NEW lines, Len(lines) \in Nat, NEW r,
         r = [n \in 0..Len(lines) |-> IF n = 0 THEN Start ELSE ReadLine(lines, r[n - 1], n)]
  PROVE Load(lines) = r[Len(lines)]
<1> DEFINE q == Reading(lines)
           Bad == {n \in 0..Len(lines) : q[n] # r[n]}
<1>1. q = [n \in 0..Len(lines) |-> IF n = 0 THEN Start ELSE ReadLine(lines, q[n - 1], n)]
  BY ReadingEq
<1> HIDE DEF q
<1>2. Bad = {}
  <2> SUFFICES ASSUME Bad # {} PROVE FALSE
    OBVIOUS
  <2>1. PICK m \in Bad : \A i \in Bad : m <= i
    <3>1. Bad \subseteq Nat
      OBVIOUS
    <3> QED BY <3>1, LeastOf
  <2>2. m \in 0..Len(lines) /\ q[m] # r[m]
    BY <2>1
  <2>3. q[0] = Start /\ r[0] = Start
    BY <1>1
  <2>4. m # 0 /\ m \in Nat /\ m - 1 \in 0..Len(lines)
    BY <2>2, <2>3
  <2>5. m - 1 \notin Bad
    BY <2>1, <2>4
  <2>6. q[m - 1] = r[m - 1]
    BY <2>4, <2>5
  <2>7. q[m] = ReadLine(lines, q[m - 1], m)
    BY <1>1, <2>2, <2>4
  <2>8. r[m] = ReadLine(lines, r[m - 1], m)
    BY <2>2, <2>4
  <2> QED BY <2>2, <2>6, <2>7, <2>8
<1>3. Len(lines) \notin Bad
  BY <1>2
<1>4. q[Len(lines)] = r[Len(lines)]
  BY <1>3
<1> QED BY <1>4 DEF Load, q

(* WAL.load: the indexes after the ended lines, without a torn last line,  *)
(* with one that decodes.                                                  *)
LEMMA LoadReads ==
  ASSUME NEW lines \in Seq(Line), NEW xs, NEW k, Followed(lines, xs, k)
  PROVE  /\ k = Len(lines) =>
              Load(lines) = [verdict |-> "ok", x |-> xs[k], good |-> k]
         /\ k < Len(lines) /\ ~Decodes(lines[Len(lines)]) =>
              Load(lines) = [verdict |-> "torn", x |-> xs[k], good |-> k]
         /\ k < Len(lines) /\ Decodes(lines[Len(lines)]) =>
              Load(lines) = [verdict |-> "ok", x |-> Ingest(xs[k], lines[Len(lines)].parts[1]),
                            good |-> Len(lines)]
<1> DEFINE At(n) == [verdict |-> "ok", x |-> xs[n], good |-> n]
           r == [n \in 0..Len(lines) |-> IF n <= k THEN At(n) ELSE ReadLine(lines, At(k), n)]
<1>1. k \in Nat /\ Len(lines) \in Nat /\ k <= Len(lines) /\ (k < Len(lines) => k = Len(lines) - 1)
  BY DEF Followed
<1>2. r[0] = Start
  <2>1. r[0] = At(0) /\ xs[0] = Fresh
    BY <1>1 DEF Followed
  <2> QED BY <2>1 DEF Start
<1>3. ASSUME NEW n \in 1..Len(lines) PROVE r[n] = ReadLine(lines, r[n - 1], n)
  <2>1. n \in Nat /\ n - 1 \in 0..Len(lines) /\ n - 1 <= k /\ n \in 0..Len(lines)
    BY <1>1
  <2>2. r[n - 1] = At(n - 1)
    BY <2>1
  <2>3. CASE n <= k
    <3>1. Whole(lines[n]) /\ Fits(xs[n - 1], lines[n].parts[1]) /\ xs[n] = Ingest(xs[n - 1], lines[n].parts[1])
      BY <1>1, <2>1, <2>3 DEF Followed
    <3>2. Decodes(lines[n]) /\ Acceptable(xs[n - 1], lines[n].parts[1]) /\ ~Torn(lines, n)
      BY <3>1 DEF Whole, Fits, Torn
    <3>3. ReadLine(lines, At(n - 1), n) = [At(n - 1) EXCEPT !.x = Ingest(xs[n - 1], lines[n].parts[1]), !.good = n]
      BY <3>2 DEF ReadLine
    <3>4. ReadLine(lines, At(n - 1), n) = At(n)
      BY <3>1, <3>3
    <3>5. r[n] = At(n)
      BY <2>1, <2>3
    <3> QED BY <2>2, <3>4, <3>5
  <2>4. CASE ~(n <= k)
    <3>1. n - 1 = k
      BY <1>1, <2>1, <2>4
    <3>2. r[n] = ReadLine(lines, At(k), n)
      BY <2>1, <2>4
    <3> QED BY <2>2, <3>1, <3>2
  <2> QED BY <2>3, <2>4
<1>4. r = [n \in 0..Len(lines) |-> IF n = 0 THEN Start ELSE ReadLine(lines, r[n - 1], n)]
  <2> DEFINE s == [n \in 0..Len(lines) |-> IF n = 0 THEN Start ELSE ReadLine(lines, r[n - 1], n)]
  <2>1. \A n \in 0..Len(lines) : r[n] = s[n]
    <3> SUFFICES ASSUME NEW n \in 0..Len(lines) PROVE r[n] = s[n]
      OBVIOUS
    <3>1. CASE n = 0
      BY <1>2, <3>1
    <3>2. CASE n # 0
      <4>1. n \in 1..Len(lines)
        BY <1>1, <3>2
      <4>2. r[n] = ReadLine(lines, r[n - 1], n)
        BY <1>3, <4>1
      <4> HIDE DEF r
      <4> QED BY <4>2, <3>2
    <3> QED BY <3>1, <3>2
  <2> QED BY <2>1
<1>5. Load(lines) = r[Len(lines)]
  <2> HIDE DEF r
  <2> QED BY <1>1, <1>4, ReadingIs
<1>6. CASE k = Len(lines)
  BY <1>1, <1>5, <1>6
<1>7. CASE k < Len(lines)
  <2> DEFINE n == Len(lines)
  <2>1. Load(lines) = ReadLine(lines, At(k), n)
    BY <1>1, <1>5, <1>7
  <2>2. k < n /\ k # n
    BY <1>7, <1>1
  <2>3. CASE ~Decodes(lines[n])
    <3>1. Torn(lines, n)
      BY <2>3 DEF Torn
    <3>2. Load(lines) = [At(k) EXCEPT !.verdict = "torn"]
      BY <2>1, <3>1 DEF ReadLine
    <3> QED BY <3>2, <2>3, <2>2
  <2>4. CASE Decodes(lines[n])
    <3>1. Half(xs[k], lines[n])
      BY <1>7 DEF Followed
    <3>2. Acceptable(xs[k], lines[n].parts[1])
      BY <2>4, <3>1 DEF Half, Decodes, Fits
    <3>3. ~Torn(lines, n)
      BY <2>4 DEF Torn
    <3>4. Load(lines) = [At(k) EXCEPT !.x = Ingest(xs[k], lines[n].parts[1]), !.good = n]
      BY <2>1, <2>4, <3>2, <3>3 DEF ReadLine
    <3> QED BY <3>4, <2>4, <2>2
  <2> QED BY <2>3, <2>4
<1> QED BY <1>1, <1>6, <1>7

-----------------------------------------------------------------------------
(* What a record changes of the two indexes that decide about later        *)
(* records, and of the last transaction number.                            *)
Opening(step) == \E fam \in EventFamilies : Opens(fam, step)
BeginOf(b, rec) == IF rec.step = "begin" THEN Put(b, rec.tx, rec.owner) ELSE b
EventsOf(e, rec) ==
  IF rec.step \notin EventSteps THEN e
  ELSE IF Opening(rec.step) THEN Put(e, rec.tx, rec) ELSE Restrict(e, DOMAIN e \ {rec.tx})
Larger(x, rec) == IF rec.tx > x.nextTx THEN rec.tx ELSE x.nextTx

(* No event step is called begin.                                          *)
LEMMA StepsApart == "begin" \notin EventSteps
BY DEF EventSteps, EventFamilies, FamilySteps, Preview, Text

(* Note changes seq and nextTx never, begin and events as defined above.   *)
LEMMA NoteFields ==
  ASSUME NEW x, DOMAIN x = Fields, NEW rec
  PROVE  /\ DOMAIN Note(x, rec) = Fields
         /\ Note(x, rec).seq = x.seq /\ Note(x, rec).nextTx = x.nextTx
         /\ Note(x, rec).begin = BeginOf(x.begin, rec)
         /\ Note(x, rec).events = EventsOf(x.events, rec)
<1>1. CASE rec.step \in EventSteps
  <2>1. rec.step # "begin"
    BY <1>1, StepsApart
  <2> DEFINE e == EventsOf(x.events, rec)
  <2>2. Note(x, rec) = [x EXCEPT !.events = e]
    BY <1>1 DEF Note, EventsOf, Opening
  <2>3. BeginOf(x.begin, rec) = x.begin
    BY <2>1 DEF BeginOf
  <2> HIDE DEF e
  <2>4. /\ DOMAIN Note(x, rec) = Fields
        /\ Note(x, rec).seq = x.seq /\ Note(x, rec).nextTx = x.nextTx
        /\ Note(x, rec).begin = x.begin
        /\ Note(x, rec).events = e
    BY <2>2 DEF Fields
  <2> QED BY <2>3, <2>4 DEF e
<1>2. CASE rec.step \notin EventSteps
  <2>1. EventsOf(x.events, rec) = x.events
    BY <1>2 DEF EventsOf
  <2>2. PICK b, l, d, c : Note(x, rec) = [x EXCEPT !.begin = b, !.last = l, !.done = d, !.commits = c]
                          /\ b = BeginOf(x.begin, rec)
    BY <1>2 DEF Note, BeginOf
  <2> QED BY <2>1, <2>2 DEF Fields
<1> QED BY <1>1, <1>2

(* ... and Ingest in addition the two numbers.                             *)
LEMMA IngestFields ==
  ASSUME NEW x, DOMAIN x = Fields, NEW rec
  PROVE  /\ DOMAIN Ingest(x, rec) = Fields
         /\ Ingest(x, rec).seq = rec.seq /\ Ingest(x, rec).nextTx = Larger(x, rec)
         /\ Ingest(x, rec).begin = BeginOf(x.begin, rec)
         /\ Ingest(x, rec).events = EventsOf(x.events, rec)
<1> DEFINE y == [x EXCEPT !.seq = rec.seq, !.nextTx = Larger(x, rec)]
<1>1. Ingest(x, rec) = Note(y, rec)
  BY DEF Ingest, Larger
<1>2. DOMAIN y = Fields /\ y.seq = rec.seq /\ y.nextTx = Larger(x, rec) /\ y.begin = x.begin
      /\ y.events = x.events
  BY DEF Fields
<1> HIDE DEF y
<1> QED BY <1>1, <1>2, NoteFields

(* The indexes x of a process accept what the indexes y of a reader do,    *)
(* and x may have given out more transaction numbers.                      *)
Agree(x, y) ==
  x.seq = y.seq /\ x.begin = y.begin /\ x.events = y.events /\ y.nextTx <= x.nextTx

(* A record that the process with the indexes x appends.                   *)
Ours(x, rec) ==
  /\ rec \in Rec /\ rec.seq = x.seq + 1 /\ rec.tx \in 1..x.nextTx
  /\ Acceptable(x, rec)
  /\ rec.step \in EventSteps => rec.step \in FamilySteps(Family)

(* The family of the run is one of the two.                                *)
LEMMA FamilyKnown == Family \in EventFamilies
BY LogAssumption DEF Family, EventFamilies, Preview, Text

(* A step of the family that opens an event begins or deletes.             *)
LEMMA Opened ==
  ASSUME NEW step \in FamilySteps(Family), Opening(step)
  PROVE  step \in {Family.begin, Family.delete}
<1>1. CASE Family = Preview
  BY <1>1 DEF FamilySteps, Opening, Opens, EventFamilies, Preview, Text
<1>2. CASE Family = Text
  BY <1>2 DEF FamilySteps, Opening, Opens, EventFamilies, Preview, Text
<1> QED BY <1>1, <1>2, FamilyKnown DEF EventFamilies

(* A record of the run's own keeps the indexes usable up to any number n   *)
(* that is not below the transaction numbers given out.                    *)
LEMMA IndexesUsable ==
  ASSUME NEW x, Usable(x), NEW rec, rec \in Rec, NEW n \in Nat, rec.tx \in 1..n, x.nextTx <= n,
         rec.step \in EventSteps => rec.step \in FamilySteps(Family)
  PROVE  /\ DOMAIN BeginOf(x.begin, rec) \subseteq 1..n
         /\ DOMAIN EventsOf(x.events, rec) \subseteq 1..n
         /\ \A tx \in DOMAIN BeginOf(x.begin, rec) : BeginOf(x.begin, rec)[tx] \in Owner
         /\ \A tx \in DOMAIN EventsOf(x.events, rec) :
              /\ EventsOf(x.events, rec)[tx].step \in {Family.begin, Family.delete}
              /\ EventsOf(x.events, rec)[tx].owner \in Owner
<1> DEFINE b == x.begin
           e == x.events
<1>1. /\ DOMAIN b \subseteq 1..n /\ DOMAIN e \subseteq 1..n
      /\ \A tx \in DOMAIN b : b[tx] \in Owner
      /\ \A tx \in DOMAIN e : e[tx].step \in {Family.begin, Family.delete} /\ e[tx].owner \in Owner
  <2>1. 1..x.nextTx \subseteq 1..n
    BY DEF Usable
  <2> QED BY <2>1 DEF Usable
<1>2. rec.owner \in Owner /\ rec.tx \in 1..n
  BY DEF Rec
<1> HIDE DEF b, e
<1>3. DOMAIN BeginOf(b, rec) \subseteq 1..n /\ \A tx \in DOMAIN BeginOf(b, rec) : BeginOf(b, rec)[tx] \in Owner
  <2>1. CASE rec.step = "begin"
    BY <2>1, <1>1, <1>2 DEF BeginOf, Put
  <2>2. CASE rec.step # "begin"
    BY <2>2, <1>1 DEF BeginOf
  <2> QED BY <2>1, <2>2
<1>4. /\ DOMAIN EventsOf(e, rec) \subseteq 1..n
      /\ \A tx \in DOMAIN EventsOf(e, rec) :
           /\ EventsOf(e, rec)[tx].step \in {Family.begin, Family.delete}
           /\ EventsOf(e, rec)[tx].owner \in Owner
  <2>1. CASE rec.step \notin EventSteps
    BY <2>1, <1>1 DEF EventsOf
  <2>2. CASE rec.step \in EventSteps /\ Opening(rec.step)
    <3>1. rec.step \in {Family.begin, Family.delete}
      BY <2>2, Opened
    <3>2. EventsOf(e, rec) = Put(e, rec.tx, rec)
      BY <2>2 DEF EventsOf
    <3> QED BY <3>1, <3>2, <1>1, <1>2 DEF Put
  <2>3. CASE rec.step \in EventSteps /\ ~Opening(rec.step)
    <3>2. EventsOf(e, rec) = Restrict(e, DOMAIN e \ {rec.tx})
      BY <2>3 DEF EventsOf
    <3> QED BY <3>2, <1>1 DEF Restrict
  <2> QED BY <2>1, <2>2, <2>3
<1> QED BY <1>3, <1>4 DEF b, e

(* What is appended can be read by every reader that agreed with the       *)
(* process, and both agree again.                                          *)
LEMMA AppendedUsable ==
  ASSUME NEW x, Usable(x), NEW rec, Ours(x, rec)
  PROVE  /\ Usable(Note([x EXCEPT !.seq = rec.seq], rec))
         /\ \A y : Usable(y) /\ Agree(x, y) =>
              Fits(y, rec) /\ Agree(Note([x EXCEPT !.seq = rec.seq], rec), Ingest(y, rec))
<1> DEFINE z == [x EXCEPT !.seq = rec.seq]
           w == Note(z, rec)
<1>1. rec \in Rec /\ rec.seq \in Nat /\ rec.tx \in 1..x.nextTx /\ x.nextTx \in Nat /\ rec.tx \in Nat
      /\ DOMAIN x = Fields /\ x.seq \in Nat /\ rec.seq = x.seq + 1
  BY DEF Ours, Usable, Rec
<1>2. DOMAIN z = Fields /\ z.seq = rec.seq /\ z.nextTx = x.nextTx /\ z.begin = x.begin /\ z.events = x.events
  BY <1>1 DEF Fields
<1> HIDE DEF z
<1>3. DOMAIN w = Fields /\ w.seq = rec.seq /\ w.nextTx = x.nextTx /\ w.begin = BeginOf(x.begin, rec)
      /\ w.events = EventsOf(x.events, rec)
  BY <1>2, NoteFields
<1> HIDE DEF w
<1>4. rec.step \in EventSteps => rec.step \in FamilySteps(Family)
  BY DEF Ours
<1>5. Usable(w)
  <2>1. /\ DOMAIN BeginOf(x.begin, rec) \subseteq 1..x.nextTx
        /\ DOMAIN EventsOf(x.events, rec) \subseteq 1..x.nextTx
        /\ \A tx \in DOMAIN BeginOf(x.begin, rec) : BeginOf(x.begin, rec)[tx] \in Owner
        /\ \A tx \in DOMAIN EventsOf(x.events, rec) :
             /\ EventsOf(x.events, rec)[tx].step \in {Family.begin, Family.delete}
             /\ EventsOf(x.events, rec)[tx].owner \in Owner
    BY <1>1, <1>4, IndexesUsable
  <2> QED BY <2>1, <1>1, <1>3 DEF Usable
<1>6. ASSUME NEW y, Usable(y), Agree(x, y)
      PROVE  Fits(y, rec) /\ Agree(w, Ingest(y, rec))
  <2>1. y.seq = x.seq /\ y.begin = x.begin /\ y.events = x.events /\ y.nextTx <= x.nextTx
        /\ y.nextTx \in Nat /\ DOMAIN y = Fields
    BY <1>6 DEF Agree, Usable
  <2>2. Acceptable(y, rec)
    <3>1. Acceptable(x, rec)
      BY DEF Ours
    <3> QED BY <3>1, <2>1, Zenon DEF Acceptable
  <2> DEFINE v == Ingest(y, rec)
  <2>3. DOMAIN v = Fields /\ v.seq = rec.seq /\ v.nextTx = Larger(y, rec)
        /\ v.begin = BeginOf(y.begin, rec) /\ v.events = EventsOf(y.events, rec)
    BY <2>1, IngestFields
  <2>4. Larger(y, rec) \in Nat /\ rec.tx <= Larger(y, rec) /\ y.nextTx <= Larger(y, rec)
        /\ Larger(y, rec) <= x.nextTx
    BY <1>1, <2>1 DEF Larger
  <2>5. rec.tx \in 1..Larger(y, rec)
    BY <1>1, <2>4
  <2> HIDE DEF v
  <2>6. /\ DOMAIN BeginOf(y.begin, rec) \subseteq 1..Larger(y, rec)
        /\ DOMAIN EventsOf(y.events, rec) \subseteq 1..Larger(y, rec)
        /\ \A tx \in DOMAIN BeginOf(y.begin, rec) : BeginOf(y.begin, rec)[tx] \in Owner
        /\ \A tx \in DOMAIN EventsOf(y.events, rec) :
             /\ EventsOf(y.events, rec)[tx].step \in {Family.begin, Family.delete}
             /\ EventsOf(y.events, rec)[tx].owner \in Owner
    BY <1>1, <1>4, <1>6, <2>4, <2>5, IndexesUsable
  <2>7. Usable(v)
    BY <2>3, <2>4, <2>6, <1>1 DEF Usable
  <2>8. Agree(w, v)
    BY <1>3, <2>1, <2>3, <2>4 DEF Agree
  <2> QED BY <2>2, <2>7, <2>8 DEF Fits, v
<1> QED BY <1>5, <1>6 DEF w, z

-----------------------------------------------------------------------------
(* Transaction steps and event steps are apart.                            *)
LEMMA EventNames ==
  ASSUME NEW step
  PROVE  /\ step \in TxSteps => step \notin EventSteps
         /\ \A fam \in EventFamilies : Opens(fam, step) \/ Closes(fam, step) => step \in EventSteps
<1>1. step \in TxSteps => step \notin EventSteps
  BY DEF TxSteps, EventSteps, EventFamilies, FamilySteps, Preview, Text
<1>2. ASSUME NEW fam \in EventFamilies, Opens(fam, step) \/ Closes(fam, step)
      PROVE step \in EventSteps
  <2>1. step \in FamilySteps(fam)
    BY <1>2 DEF FamilySteps, Opens, Closes
  <2> QED BY <2>1 DEF EventSteps
<1> QED BY <1>1, <1>2

(* A step of the family opens or closes events of this family only, and    *)
(* never both.                                                             *)
LEMMA FamilyNames ==
  ASSUME NEW step \in FamilySteps(Family)
  PROVE  /\ step \in EventSteps /\ step \notin TxSteps
         /\ \A fam \in EventFamilies : Opens(fam, step) \/ Closes(fam, step) => fam = Family
         /\ ~(Opens(Family, step) /\ Closes(Family, step))
<1>1. step \in EventSteps
  BY FamilyKnown DEF EventSteps
<1>2. step \notin TxSteps
  BY <1>1, EventNames
<1>3. CASE Family = Preview
  <2>1. /\ \A fam \in EventFamilies : Opens(fam, step) \/ Closes(fam, step) => fam = Family
        /\ ~(Opens(Family, step) /\ Closes(Family, step))
    BY <1>3 DEF FamilySteps, Opens, Closes, EventFamilies, Preview, Text
  <2> QED BY <1>1, <1>2, <2>1
<1>4. CASE Family = Text
  <2>1. /\ \A fam \in EventFamilies : Opens(fam, step) \/ Closes(fam, step) => fam = Family
        /\ ~(Opens(Family, step) /\ Closes(Family, step))
    BY <1>4 DEF FamilySteps, Opens, Closes, EventFamilies, Preview, Text
  <2> QED BY <1>1, <1>2, <2>1
<1> QED BY <1>3, <1>4, FamilyKnown DEF EventFamilies

(* The fields of a record.                                                 *)
LEMMA RecordFields ==
  ASSUME NEW x, NEW tx, NEW step, NEW owner
  PROVE  LET rec == Record(x, tx, step, owner)
         IN  rec.tx = tx /\ rec.seq = x.seq + 1 /\ rec.step = step /\ rec.owner = owner
BY DEF Record

(* A transaction step for a new number, or a later one for a known number. *)
LEMMA OursTx ==
  ASSUME NEW x, Usable(x), NEW tx, NEW step \in TxSteps, NEW owner \in Owner,
         tx \in 1..x.nextTx,
         step = "begin" <=> tx \notin DOMAIN x.begin
  PROVE  Ours(x, Record(x, tx, step, owner))
<1> DEFINE rec == Record(x, tx, step, owner)
<1>1. rec.tx = tx /\ rec.seq = x.seq + 1 /\ rec.step = step /\ rec.owner = owner
  BY RecordFields
<1>2. x.seq \in Nat /\ x.nextTx \in Nat
  BY DEF Usable
<1>3. rec \in Rec
  BY <1>2 DEF Record, Rec
<1> HIDE DEF rec
<1>4. rec.seq > x.seq
  BY <1>1, <1>2
<1>5. step \notin EventSteps
  BY EventNames
<1>6. \A fam \in EventFamilies : ~Opens(fam, step) /\ ~Closes(fam, step)
  BY <1>5, EventNames
<1>7. Acceptable(x, rec)
  BY <1>1, <1>4, <1>6 DEF Acceptable
<1> QED BY <1>1, <1>3, <1>5, <1>7 DEF Ours, rec

(* An event step that opens a new number or closes an open one.            *)
LEMMA OursEvent ==
  ASSUME NEW x, Usable(x), NEW tx, NEW step \in FamilySteps(Family), NEW owner \in Owner,
         tx \in 1..x.nextTx,
         Opens(Family, step) => tx \notin DOMAIN x.events,
         Closes(Family, step) => tx \in DOMAIN x.events
  PROVE  Ours(x, Record(x, tx, step, owner))
<1> DEFINE rec == Record(x, tx, step, owner)
<1>1. rec.tx = tx /\ rec.seq = x.seq + 1 /\ rec.step = step /\ rec.owner = owner
  BY RecordFields
<1>2. x.seq \in Nat /\ x.nextTx \in Nat
  BY DEF Usable
<1>0. step \in EventSteps /\ step \notin TxSteps
  BY FamilyNames
<1>3. rec \in Rec
  BY <1>0, <1>2 DEF Record, Rec
<1> HIDE DEF rec
<1>4. rec.seq > x.seq
  BY <1>1, <1>2
<1>5. step # "begin"
  BY <1>0 DEF TxSteps
<1>6. Closes(Family, step) => Opens(Family, x.events[tx].step)
  BY DEF Usable, Opens
<1>7. ASSUME NEW fam \in EventFamilies
      PROVE  /\ Opens(fam, step) => tx \notin DOMAIN x.events
             /\ Closes(fam, step) => tx \in DOMAIN x.events /\ Opens(fam, x.events[tx].step)
  BY <1>6, FamilyNames
<1>8. Acceptable(x, rec)
  BY <1>0, <1>1, <1>4, <1>5, <1>7 DEF Acceptable
<1> QED BY <1>1, <1>3, <1>8 DEF Ours, rec

(* What every append starts from.                                          *)
Appending(who, x, tx, step, owner) ==
  /\ up = "up" /\ up' = "up"
  /\ Usable(x) /\ Agree(x, ix)
  /\ Ours(x, Record(x, tx, step, owner))
  /\ AppendLocked(who, x, tx, step, owner)

(* A new transaction number is known to no index.                          *)
LEMMA Bumped ==
  ASSUME Usable(ix)
  PROVE  LET x == [ix EXCEPT !.nextTx = @ + 1]
         IN  Usable(x) /\ Agree(x, ix) /\ x.nextTx = ix.nextTx + 1
             /\ ix.nextTx + 1 \in 1..x.nextTx
             /\ ix.nextTx + 1 \notin DOMAIN x.begin /\ ix.nextTx + 1 \notin DOMAIN x.events
<1> DEFINE x == [ix EXCEPT !.nextTx = @ + 1]
<1>1. DOMAIN x = Fields /\ x.nextTx = ix.nextTx + 1 /\ x.seq = ix.seq /\ x.begin = ix.begin
      /\ x.events = ix.events
  BY DEF Usable, Fields
<1> HIDE DEF x
<1>2. ix.nextTx \in Nat
  BY DEF Usable
<1>3. 1..ix.nextTx \subseteq 1..x.nextTx /\ ix.nextTx + 1 \in 1..x.nextTx /\ ix.nextTx + 1 \notin 1..ix.nextTx
      /\ ix.nextTx <= x.nextTx /\ x.nextTx \in Nat
  BY <1>1, <1>2
<1>4. Agree(x, ix)
  BY <1>1, <1>3 DEF Agree
<1>5. Usable(x)
  BY <1>1, <1>3 DEF Usable
<1>6. ix.nextTx + 1 \notin DOMAIN x.begin /\ ix.nextTx + 1 \notin DOMAIN x.events
  BY <1>1, <1>3 DEF Usable
<1> QED BY <1>1, <1>3, <1>4, <1>5, <1>6 DEF x

(* The four appends as one.                                                *)
LEMMA Appends ==
  ASSUME Usable(ix), Begin \/ AppendStep \/ BeginEvent \/ FinishEvent
  PROVE  \E who, x, tx, step, owner : Appending(who, x, tx, step, owner)
<1> DEFINE x == [ix EXCEPT !.nextTx = @ + 1]
<1>1. CASE Begin
  <2>1. PICK owner \in Owner : AppendLocked("loop", x, ix.nextTx + 1, "begin", owner)
    BY <1>1 DEF Begin
  <2>2. up = "up" /\ up' = "up"
    BY <1>1 DEF Begin, MayAppend
  <2>3. /\ Usable(x) /\ Agree(x, ix) /\ ix.nextTx + 1 \in 1..x.nextTx
        /\ ix.nextTx + 1 \notin DOMAIN x.begin
    BY Bumped
  <2> HIDE DEF x
  <2>4. Ours(x, Record(x, ix.nextTx + 1, "begin", owner))
    <3>1. "begin" \in TxSteps
      BY DEF TxSteps
    <3> QED BY <2>3, <3>1, OursTx
  <2> QED BY <2>1, <2>2, <2>3, <2>4 DEF Appending
<1>2. CASE BeginEvent
  <2>1. PICK owner \in Owner, step \in {Family.begin, Family.delete} :
          AppendLocked("worker", x, ix.nextTx + 1, step, owner)
    BY <1>2 DEF BeginEvent
  <2>2. up = "up" /\ up' = "up"
    BY <1>2 DEF BeginEvent, MayAppend
  <2>3. /\ Usable(x) /\ Agree(x, ix) /\ ix.nextTx + 1 \in 1..x.nextTx
        /\ ix.nextTx + 1 \notin DOMAIN x.events
    BY Bumped
  <2> HIDE DEF x
  <2>4. Ours(x, Record(x, ix.nextTx + 1, step, owner))
    <3>1. step \in FamilySteps(Family) /\ Opens(Family, step)
      BY <2>1 DEF FamilySteps, Opens
    <3>2. ~Closes(Family, step)
      BY <3>1, FamilyNames
    <3> QED BY <2>3, <3>1, <3>2, OursEvent
  <2> QED BY <2>1, <2>2, <2>3, <2>4 DEF Appending
<1>0. Agree(ix, ix)
  BY DEF Agree, Usable
<1>3. CASE AppendStep
  <2>1. PICK tx \in OpenTransactions(ix), step \in TxSteps \ {"begin"} :
          AppendLocked("loop", ix, tx, step, ix.begin[tx])
    BY <1>3 DEF AppendStep
  <2>2. up = "up" /\ up' = "up"
    BY <1>3 DEF AppendStep, MayAppend
  <2>3. tx \in DOMAIN ix.begin /\ tx \in 1..ix.nextTx /\ ix.begin[tx] \in Owner
    BY DEF OpenTransactions, Usable
  <2>4. Ours(ix, Record(ix, tx, step, ix.begin[tx]))
    BY <2>3, OursTx
  <2> QED BY <1>0, <2>1, <2>2, <2>4 DEF Appending
<1>4. CASE FinishEvent
  <2>1. PICK tx \in DOMAIN ix.events : \E step \in Outcomes(Family, ix.events[tx].step) :
          AppendLocked("worker", ix, tx, step, ix.events[tx].owner)
    BY <1>4 DEF FinishEvent
  <2>2. PICK step \in Outcomes(Family, ix.events[tx].step) :
          AppendLocked("worker", ix, tx, step, ix.events[tx].owner)
    BY <2>1
  <2>3. up = "up" /\ up' = "up"
    BY <1>4 DEF FinishEvent, MayAppend
  <2>4. tx \in 1..ix.nextTx /\ ix.events[tx].owner \in Owner
    BY DEF Usable
  <2>5. step \in FamilySteps(Family) /\ Closes(Family, step)
    BY DEF Outcomes, FamilySteps, Closes
  <2>6. ~Opens(Family, step)
    BY <2>5, FamilyNames
  <2>7. Ours(ix, Record(ix, tx, step, ix.events[tx].owner))
    BY <2>4, <2>5, <2>6, OursEvent
  <2> QED BY <1>0, <2>2, <2>3, <2>7 DEF Appending
<1> QED BY <1>1, <1>2, <1>3, <1>4

-----------------------------------------------------------------------------
(* All indexes on the way are usable.                                      *)
LEMMA FollowedUsable ==
  ASSUME NEW lines, Len(lines) \in Nat, NEW xs, NEW k, Followed(lines, xs, k)
  PROVE  \A n \in 0..k : Usable(xs[n])
<1> SUFFICES ASSUME NEW n \in 0..k PROVE Usable(xs[n])
  OBVIOUS
<1>1. CASE n = 0
  <2>1. Usable(Fresh)
    BY DEF Usable, Fresh, Fields
  <2> QED BY <1>1, <2>1 DEF Followed
<1>2. CASE n # 0
  <2>1. n \in 1..k
    BY <1>2 DEF Followed
  <2> QED BY <2>1 DEF Followed, Fits
<1> QED BY <1>1, <1>2

(* Whatever keeps the first j lines and adds at most a half one behind     *)
(* them is followed as far as j.                                           *)
LEMMA FollowedTail ==
  ASSUME NEW lines, Len(lines) \in Nat, NEW xs, NEW k, Followed(lines, xs, k), NEW j \in 0..k,
         NEW g, Len(g) \in Nat, \A n \in 1..j : g[n] = lines[n],
         Len(g) = j \/ (Len(g) = j + 1 /\ Half(xs[j], g[j + 1]))
  PROVE  Followed(g, xs, j)
<1>1. k \in Nat /\ j \in Nat /\ j <= k /\ j \in 0..Len(g)
  BY DEF Followed
<1>2. \A n \in 1..j : Whole(g[n]) /\ Fits(xs[n - 1], g[n].parts[1]) /\ xs[n] = Ingest(xs[n - 1], g[n].parts[1])
  <2> SUFFICES ASSUME NEW n \in 1..j
               PROVE Whole(g[n]) /\ Fits(xs[n - 1], g[n].parts[1]) /\ xs[n] = Ingest(xs[n - 1], g[n].parts[1])
    OBVIOUS
  <2>1. n \in 1..k /\ g[n] = lines[n]
    BY <1>1
  <2>2. Whole(lines[n]) /\ Fits(xs[n - 1], lines[n].parts[1]) /\ xs[n] = Ingest(xs[n - 1], lines[n].parts[1])
    BY <2>1 DEF Followed
  <2> QED BY <2>1, <2>2
<1>3. j < Len(g) => j = Len(g) - 1 /\ Half(xs[j], g[Len(g)])
  BY <1>1
<1>4. xs[0] = Fresh
  BY DEF Followed
<1> QED BY <1>1, <1>2, <1>3, <1>4 DEF Followed

(* A line written whole behind ended lines adds its indexes.               *)
LEMMA FollowedLine ==
  ASSUME NEW lines \in Seq(Line), NEW xs, Followed(lines, xs, Len(lines)),
         NEW rec \in Rec, rec # Fragment, Fits(xs[Len(lines)], rec)
  PROVE  LET g == Append(lines, [parts |-> <<rec>>, nl |-> TRUE])
             ys == [n \in 0..Len(lines) + 1 |->
                      IF n <= Len(lines) THEN xs[n] ELSE Ingest(xs[Len(lines)], rec)]
         IN  Followed(g, ys, Len(lines) + 1) /\ ys[Len(lines) + 1] = Ingest(xs[Len(lines)], rec)
<1> DEFINE k == Len(lines)
           line == [parts |-> <<rec>>, nl |-> TRUE]
           g == Append(lines, line)
           ys == [n \in 0..k + 1 |-> IF n <= k THEN xs[n] ELSE Ingest(xs[k], rec)]
<1>1. k \in Nat /\ Len(g) = k + 1 /\ g[k + 1] = line /\ \A n \in 1..k : g[n] = lines[n]
  OBVIOUS
<1>2. Whole(line) /\ line.parts[1] = rec
  BY DEF Whole, Decodes
<1>3. ys[k + 1] = Ingest(xs[k], rec) /\ \A n \in 0..k : ys[n] = xs[n]
  BY <1>1
<1> HIDE DEF ys, g, line
<1>4. ASSUME NEW n \in 1..k + 1
      PROVE  Whole(g[n]) /\ Fits(ys[n - 1], g[n].parts[1]) /\ ys[n] = Ingest(ys[n - 1], g[n].parts[1])
  <2>1. CASE n = k + 1
    <3>1. n - 1 = k /\ ys[n - 1] = xs[k] /\ ys[n] = Ingest(xs[k], rec) /\ g[n] = line
      BY <1>1, <1>3, <2>1
    <3> QED BY <3>1, <1>2
  <2>2. CASE n # k + 1
    <3>1. n \in 1..k /\ n - 1 \in 0..k /\ n \in 0..k
      BY <1>1, <2>2
    <3>2. Whole(lines[n]) /\ Fits(xs[n - 1], lines[n].parts[1]) /\ xs[n] = Ingest(xs[n - 1], lines[n].parts[1])
      BY <3>1 DEF Followed
    <3>3. g[n] = lines[n] /\ ys[n - 1] = xs[n - 1] /\ ys[n] = xs[n]
      BY <3>1, <1>1, <1>3
    <3> QED BY <3>2, <3>3
  <2> QED BY <2>1, <2>2
<1>5. ys[0] = Fresh
  BY <1>1, <1>3 DEF Followed
<1>6. k + 1 \in 0..Len(g) /\ ~(k + 1 < Len(g))
  BY <1>1
<1>7. Followed(g, ys, k + 1)
  BY <1>4, <1>5, <1>6 DEF Followed
<1> QED BY <1>3, <1>7 DEF g, ys, line

(* The last line read, or the one behind it.                               *)
LEMMA LineFits ==
  ASSUME NEW lines \in Seq(Line), NEW xs, NEW k, Followed(lines, xs, k), NEW n \in 1..Len(lines),
         n <= k + 1
  PROVE  LET line == lines[n]
         IN  line \in Line /\ line.parts # <<>>
             /\ (line.parts[1] = Fragment \/ Fits(xs[n - 1], line.parts[1]))
<1>1. lines[n] \in Line /\ k \in Nat /\ Len(lines) \in Nat /\ k <= Len(lines)
  BY DEF Followed
<1>2. CASE n <= k
  <2>1. Whole(lines[n]) /\ Fits(xs[n - 1], lines[n].parts[1])
    BY <1>1, <1>2 DEF Followed
  <2>2. lines[n].parts # <<>>
    BY <2>1 DEF Whole, Decodes
  <2> QED BY <1>1, <2>1, <2>2
<1>3. CASE n = k + 1
  <2>1. k < Len(lines) /\ n - 1 = k /\ n = Len(lines)
    BY <1>1, <1>3 DEF Followed
  <2>2. Half(xs[n - 1], lines[n])
    BY <2>1 DEF Followed
  <2> QED BY <1>1, <2>2 DEF Half
<1> QED BY <1>1, <1>2, <1>3

(* A fragment is drawn from the values of records.                         *)
LEMMA FragmentKnown == Fragment \in Rec
<1>1. (CHOOSE o \in Owner : TRUE) \in Owner
  BY LogAssumption
<1> QED BY <1>1 DEF Fragment, Rec, TxSteps

(* What a power loss leaves of a line is a half line.                      *)
LEMMA CutHalf ==
  ASSUME NEW line \in Line, line.parts # <<>>, NEW x,
         line.parts[1] = Fragment \/ Fits(x, line.parts[1]),
         NEW cut \in Cuts(line), cut.parts # <<>>
  PROVE  cut \in Line /\ Half(x, cut)
<1>1. line.parts \in Seq(Rec)
  BY DEF Line
<1> DEFINE texts == {SubSeq(line.parts, 1, j) : j \in 0..(Len(line.parts) - 1)}
<1>2. PICK text \in texts \cup {Append(t, Fragment) : t \in texts} \cup {line.parts} :
        cut = [parts |-> text, nl |-> FALSE]
  BY DEF Cuts
<1>3. cut.parts = text /\ ~cut.nl /\ text # <<>>
  BY <1>2
<1>4. \A t \in texts : t \in Seq(Rec) /\ (t # <<>> => t[1] = line.parts[1])
  BY <1>1
<1> HIDE DEF texts
<1>5. CASE text = line.parts
  BY <1>1, <1>2, <1>3, <1>5 DEF Half, Line
<1>6. CASE text \in texts
  <2>1. text \in Seq(Rec) /\ text[1] = line.parts[1]
    BY <1>3, <1>4, <1>6
  <2> QED BY <1>2, <1>3, <2>1 DEF Half, Line
<1>7. CASE \E t \in texts : text = Append(t, Fragment)
  <2>1. PICK t \in texts : text = Append(t, Fragment)
    BY <1>7
  <2>2. t \in Seq(Rec) /\ (t # <<>> => t[1] = line.parts[1])
    BY <1>4
  <2>3. text \in Seq(Rec)
    BY <2>1, <2>2, FragmentKnown
  <2>4. CASE t = <<>>
    <3>1. text[1] = Fragment
      BY <2>1, <2>4
    <3> QED BY <1>2, <1>3, <2>3, <3>1 DEF Half, Line
  <2>5. CASE t # <<>>
    <3>1. text[1] = t[1]
      BY <2>1, <2>2, <2>5, FragmentKnown
    <3> QED BY <1>2, <1>3, <2>2, <2>3, <2>5, <3>1 DEF Half, Line
  <2> QED BY <2>4, <2>5
<1> QED BY <1>2, <1>5, <1>6, <1>7

(* A failed write behind a half line leaves a half line.                   *)
LEMMA BehindHalf ==
  ASSUME NEW line \in Line, NEW x, Half(x, line), NEW rec \in Rec
  PROVE  LET longer == [parts |-> line.parts \o <<rec>>, nl |-> FALSE]
         IN  longer \in Line /\ Half(x, longer)
<1> DEFINE s == line.parts
           t == s \o <<rec>>
<1>1. s \in Seq(Rec) /\ s # <<>>
  BY DEF Line, Half
<1> HIDE DEF s
<1>2. t \in Seq(Rec) /\ t # <<>> /\ t[1] = s[1]
  BY <1>1
<1> HIDE DEF t
<1>3. [parts |-> t, nl |-> FALSE] \in Line
  BY <1>2 DEF Line
<1>4. Half(x, [parts |-> t, nl |-> FALSE])
  BY <1>2 DEF Half, s
<1> QED BY <1>3, <1>4 DEF t, s

-----------------------------------------------------------------------------
(* The indexes xs explain the log, the end of what is synced and what the  *)
(* process knows.                                                          *)
Known(xs, k) ==
  /\ Followed(log, xs, k)
  /\ synced <= k
  /\ up = "up" => Usable(ix) /\ (k = Len(log) => Agree(ix, xs[k]))

(* Each record that has to stay is alone on a synced line.                 *)
Kept == \A rec \in Durable : rec.seq # 0 /\ \E n \in 1..synced : log[n].parts = <<rec>>

(* The invariant as long as nothing is glued, and the invariant.           *)
LogInv ==
  /\ log \in Seq(Line) /\ synced \in Nat /\ up \in {"idle", "down", "up"}
  /\ Kept
  /\ \E xs, k : Known(xs, k)

WalInv == glued \in BOOLEAN /\ (glued \/ LogInv)

(* The ended lines are those that are followed.                            *)
LEMMA EndedLen ==
  ASSUME NEW lines \in Seq(Line), NEW xs, NEW k, Followed(lines, xs, k)
  PROVE  Len(Ended(lines)) = k /\ Ended(lines) \in Seq(Line)
<1>1. k \in Nat /\ Len(lines) \in Nat /\ k <= Len(lines)
  BY DEF Followed
<1>2. CASE k = Len(lines)
  <2>1. ~(lines # <<>> /\ ~Last(lines).nl)
    <3> SUFFICES ASSUME lines # <<>> PROVE Last(lines).nl
      OBVIOUS
    <3>1. Len(lines) \in 1..k
      BY <1>1, <1>2
    <3> QED BY <3>1 DEF Followed, Whole, Last
  <2>2. Ended(lines) = lines
    BY <2>1 DEF Ended
  <2> QED BY <1>2, <2>2
<1>3. CASE k # Len(lines)
  <2>1. k = Len(lines) - 1 /\ Half(xs[k], lines[Len(lines)])
    BY <1>1, <1>3 DEF Followed
  <2>2. lines # <<>> /\ ~Last(lines).nl
    BY <1>1, <1>3, <2>1 DEF Half, Last
  <2>3. Ended(lines) = SubSeq(lines, 1, Len(lines) - 1)
    BY <2>2 DEF Ended, Front
  <2>4. Len(SubSeq(lines, 1, k)) = k /\ SubSeq(lines, 1, k) \in Seq(Line)
    BY <1>1
  <2> QED BY <2>1, <2>3, <2>4
<1> QED BY <1>2, <1>3

(* AckedKept and NeverRefused follow.                                      *)
LEMMA WalImplies == ASSUME WalInv PROVE AckedKept /\ NeverRefused
<1> SUFFICES ASSUME ~glued PROVE AckedKept /\ NeverRefused
  BY DEF AckedKept, NeverRefused
<1>1. LogInv
  BY DEF WalInv
<1>2. PICK xs, k : Known(xs, k)
  BY <1>1 DEF LogInv
<1>3. Followed(log, xs, k) /\ synced <= k /\ log \in Seq(Line) /\ synced \in Nat
  BY <1>1, <1>2 DEF LogInv, Known
<1>4. k \in Nat /\ Len(log) \in Nat /\ k <= Len(log)
  BY <1>3 DEF Followed
<1>5. \A n \in 1..k : log[n].nl /\ Decodes(log[n])
  BY <1>3 DEF Followed, Whole
<1>6. AckedKept
  <2> SUFFICES ASSUME NEW rec \in Durable PROVE rec \in Readable(log)
    BY DEF AckedKept
  <2>1. rec.seq # 0
    BY <1>1 DEF LogInv, Kept
  <2>2. PICK n \in 1..synced : log[n].parts = <<rec>>
    BY <1>1 DEF LogInv, Kept
  <2>3. n \in DOMAIN log /\ n \in 1..k
    BY <1>3, <1>4
  <2>4. log[n].parts[1] = rec
    BY <2>2
  <2>5. Decodes(log[n])
    BY <1>5, <2>3
  <2> QED BY <2>3, <2>4, <2>5 DEF Readable
<1>7. \A n \in DOMAIN Ended(log) : n \in 1..k
  <2>1. Len(Ended(log)) = k /\ Ended(log) \in Seq(Line)
    BY <1>3, EndedLen
  <2> HIDE DEF Ended
  <2> QED BY <2>1
<1>8. ~ReadWALRecords(log).err
  <2>1. ~(\E n \in DOMAIN Ended(log) : ~Decodes(log[n]))
    BY <1>5, <1>7
  <2> QED BY <2>1 DEF ReadWALRecords
<1>9. up # "refused"
  BY <1>1 DEF LogInv
<1> QED BY <1>6, <1>8, <1>9 DEF NeverRefused

(* An empty log.                                                           *)
LEMMA InitLog == ASSUME WalInit PROVE WalInv
<1>1. log = <<>> /\ synced = 0 /\ up = "down" /\ acked = {} /\ glued = FALSE
  BY DEF WalInit, WalAt
<1> DEFINE xs == [n \in {0} |-> Fresh]
<1>2. Followed(log, xs, 0)
  <2>1. Len(log) = 0 /\ 0 \in 0..0 /\ xs[0] = Fresh /\ 1..0 = {}
    BY <1>1
  <2> HIDE DEF xs
  <2> QED BY <2>1 DEF Followed
<1> HIDE DEF xs
<1>3. Known(xs, 0)
  BY <1>1, <1>2 DEF Known
<1>4. Kept
  BY <1>1 DEF Kept, Durable
<1>5. log \in Seq(Line)
  BY <1>1
<1> QED BY <1>1, <1>3, <1>4, <1>5 DEF WalInv, LogInv

(* A log that lost lines that were not synced, and maybe gained or changed *)
(* an unended one, is as good as before.                                   *)
LEMMA StillKept ==
  ASSUME LogInv, NEW j \in Nat, synced <= j, \A n \in 1..j : log'[n] = log[n],
         acked' = acked, synced' \in Nat, synced <= synced'
  PROVE  Kept'
<1> SUFFICES ASSUME NEW rec \in Durable'
             PROVE  rec.seq # 0 /\ \E n \in 1..synced' : log'[n].parts = <<rec>>
  BY DEF Kept
<1>1. rec \in Durable
  BY DEF Durable
<1>2. rec.seq # 0
  BY <1>1 DEF LogInv, Kept
<1>3. PICK n \in 1..synced : log[n].parts = <<rec>>
  BY <1>1 DEF LogInv, Kept
<1>4. n \in 1..j /\ n \in 1..synced'
  BY DEF LogInv
<1> QED BY <1>2, <1>3, <1>4

(* OpenWAL: what it reads are the indexes after the ended lines, or one    *)
(* record more when the unended line decodes; a torn line is cut off.      *)
LEMMA OpenKeeps == ASSUME WalInv, ~glued, OpenWAL PROVE WalInv'
<1>1. LogInv /\ glued' = glued /\ acked' = acked /\ glued' \in BOOLEAN
  BY DEF WalInv, OpenWAL
<1>2. PICK xs, k : Known(xs, k)
  BY <1>1 DEF LogInv
<1>3. Followed(log, xs, k) /\ synced <= k /\ log \in Seq(Line) /\ synced \in Nat
  BY <1>1, <1>2 DEF LogInv, Known
<1>4. k \in Nat /\ Len(log) \in Nat /\ k <= Len(log) /\ (k < Len(log) => k = Len(log) - 1)
  BY <1>3 DEF Followed
<1>5. Usable(xs[k])
  <2>1. k \in 0..k
    BY <1>4
  <2> QED BY <1>3, <1>4, <2>1, FollowedUsable
<1> DEFINE read == Load(log)
           n == Len(log)
<1>6. /\ k = n => read = [verdict |-> "ok", x |-> xs[k], good |-> k]
      /\ k < n /\ ~Decodes(log[n]) => read = [verdict |-> "torn", x |-> xs[k], good |-> k]
      /\ k < n /\ Decodes(log[n]) =>
           read = [verdict |-> "ok", x |-> Ingest(xs[k], log[n].parts[1]), good |-> n]
  BY <1>3, LoadReads
<1>7. \/ read.verdict = "ok" /\ up' = "up" /\ ix' = read.x /\ UNCHANGED <<log, synced>>
      \/ /\ read.verdict = "torn" /\ up' = "up" /\ ix' = read.x
         /\ log' = Truncate(log, read.good) /\ synced' = read.good
      \/ read.verdict = "corrupt" /\ up' = "refused" /\ UNCHANGED <<log, synced, ix>>
  BY DEF OpenWAL
<1> HIDE DEF read
<1>8. CASE k = n
  <2>1. up' = "up" /\ ix' = xs[k] /\ log' = log /\ synced' = synced
    BY <1>6, <1>7, <1>8
  <2>2. Agree(xs[k], xs[k])
    BY <1>5 DEF Agree, Usable
  <2>3. Known(xs, k)'
    BY <1>3, <1>5, <2>1, <2>2 DEF Known
  <2>4. Kept'
    BY <1>1, <1>3, <2>1, StillKept
  <2> QED BY <1>1, <1>3, <2>1, <2>3, <2>4 DEF WalInv, LogInv
<1>9. CASE k < n /\ ~Decodes(log[n])
  <2>1. up' = "up" /\ ix' = xs[k] /\ log' = SubSeq(log, 1, k) /\ synced' = k
    BY <1>6, <1>7, <1>9 DEF Truncate
  <2>2. log' \in Seq(Line) /\ Len(log') = k /\ \A i \in 1..k : log'[i] = log[i]
    BY <1>3, <1>4, <2>1
  <2>3. Followed(log', xs, k)
    <3>1. k \in 0..k
      BY <1>4
    <3> QED BY <1>3, <1>4, <2>2, <3>1, FollowedTail
  <2>4. Agree(xs[k], xs[k])
    BY <1>5 DEF Agree, Usable
  <2>5. Known(xs, k)'
    BY <1>4, <1>5, <2>1, <2>3, <2>4 DEF Known
  <2>6. Kept'
    BY <1>1, <1>3, <1>4, <2>1, <2>2, StillKept
  <2> QED BY <1>1, <1>4, <2>1, <2>2, <2>5, <2>6 DEF WalInv, LogInv
<1>10. CASE k < n /\ Decodes(log[n])
  <2>1. up' = "up" /\ ix' = Ingest(xs[k], log[n].parts[1]) /\ log' = log /\ synced' = synced
    BY <1>6, <1>7, <1>10
  <2>2. Half(xs[k], log[n])
    BY <1>3, <1>10 DEF Followed
  <2>3. Usable(ix')
    BY <1>10, <2>1, <2>2 DEF Half, Decodes, Fits
  <2>4. Known(xs, k)'
    BY <1>3, <1>4, <1>10, <2>1, <2>3 DEF Known
  <2>5. Kept'
    BY <1>1, <1>3, <2>1, StillKept
  <2> QED BY <1>1, <1>3, <2>1, <2>4, <2>5 DEF WalInv, LogInv
<1> QED BY <1>4, <1>8, <1>9, <1>10

(* Close syncs the ended lines.                                            *)
LEMMA CloseKeeps == ASSUME WalInv, ~glued, CloseWAL PROVE WalInv'
<1>1. LogInv /\ glued' = glued /\ acked' = acked /\ glued' \in BOOLEAN /\ log' = log /\ up' = "down"
      /\ synced' = Len(Ended(log))
  BY DEF WalInv, CloseWAL
<1>2. PICK xs, k : Known(xs, k)
  BY <1>1 DEF LogInv
<1>3. Followed(log, xs, k) /\ synced <= k /\ log \in Seq(Line) /\ synced \in Nat
  BY <1>1, <1>2 DEF LogInv, Known
<1>4. k \in Nat /\ Len(log) \in Nat /\ k <= Len(log)
  BY <1>3 DEF Followed
<1>5. Len(Ended(log)) = k
  BY <1>3, <1>4, EndedLen
<1>6. Known(xs, k)'
  BY <1>1, <1>3, <1>4, <1>5 DEF Known
<1>7. Kept'
  BY <1>1, <1>3, <1>4, <1>5, StillKept
<1> QED BY <1>1, <1>3, <1>4, <1>5, <1>6, <1>7 DEF WalInv, LogInv

(* A killed process leaves the file as it is.                              *)
LEMMA KillKeeps == ASSUME WalInv, ~glued, Killed PROVE WalInv'
<1>1. LogInv /\ glued' = glued /\ acked' = acked /\ glued' \in BOOLEAN /\ log' = log /\ up' = "down"
      /\ synced' = synced
  BY DEF WalInv, Killed
<1>2. PICK xs, k : Known(xs, k)
  BY <1>1 DEF LogInv
<1>3. log \in Seq(Line) /\ synced \in Nat
  BY <1>1 DEF LogInv
<1>6. Known(xs, k)'
  BY <1>1, <1>2 DEF Known
<1>7. Kept'
  BY <1>1, <1>3, StillKept
<1> QED BY <1>1, <1>3, <1>6, <1>7 DEF WalInv, LogInv

(* A power loss leaves a beginning of the file, and all that was synced.   *)
LEMMA LossKeeps == ASSUME WalInv, ~glued, LinesLost PROVE WalInv'
<1>1. LogInv /\ glued' = glued /\ acked' = acked /\ glued' \in BOOLEAN /\ up' = "down"
      /\ synced' = synced
  BY DEF WalInv, LinesLost
<1>2. PICK xs, k : Known(xs, k)
  BY <1>1 DEF LogInv
<1>3. Followed(log, xs, k) /\ synced <= k /\ log \in Seq(Line) /\ synced \in Nat
  BY <1>1, <1>2 DEF LogInv, Known
<1>4. k \in Nat /\ Len(log) \in Nat /\ k <= Len(log) /\ (k < Len(log) => k = Len(log) - 1)
  BY <1>3 DEF Followed
<1>5. PICK keep \in synced..Len(log) :
        \/ log' = SubSeq(log, 1, keep)
        \/ keep < Len(log) /\ \E cut \in Cuts(log[keep + 1]) :
             cut.parts # <<>> /\ log' = Append(SubSeq(log, 1, keep), cut)
  BY DEF LinesLost
<1> DEFINE g == SubSeq(log, 1, keep)
<1>6. keep \in Nat /\ synced <= keep /\ keep <= Len(log)
      /\ g \in Seq(Line) /\ Len(g) = keep /\ \A n \in 1..keep : g[n] = log[n]
  BY <1>3, <1>5
<1> HIDE DEF g
<1>7. ASSUME NEW j, Followed(log', xs, j), synced <= j, log' \in Seq(Line),
             \A n \in 1..synced : log'[n] = log[n]
      PROVE  WalInv'
  <2>1. Known(xs, j)'
    BY <1>1, <1>7 DEF Known
  <2>2. Kept'
    BY <1>1, <1>3, <1>7, StillKept
  <2> QED BY <1>1, <1>3, <1>7, <2>1, <2>2 DEF WalInv, LogInv
<1>8. CASE log' = g /\ keep <= k
  <2>1. Followed(log', xs, keep)
    BY <1>3, <1>4, <1>6, <1>8, FollowedTail
  <2> QED BY <1>3, <1>6, <1>7, <1>8, <2>1
<1>9. CASE log' = g /\ ~(keep <= k)
  <2>1. keep = Len(log)
    BY <1>4, <1>6, <1>9
  <2>2. log' = log
    BY <1>3, <1>6, <1>9, <2>1
  <2> QED BY <1>3, <1>7, <2>2
<1>10. CASE keep < Len(log) /\ \E cut \in Cuts(log[keep + 1]) : cut.parts # <<>> /\ log' = Append(g, cut)
  <2>1. PICK cut \in Cuts(log[keep + 1]) : cut.parts # <<>> /\ log' = Append(g, cut)
    BY <1>10
  <2>2. keep <= k /\ keep + 1 \in 1..Len(log) /\ keep + 1 <= k + 1 /\ keep \in 0..k
        /\ (keep + 1) - 1 = keep
    BY <1>4, <1>6, <1>10
  <2> DEFINE line == log[keep + 1]
  <2>3. line \in Line /\ line.parts # <<>> /\ (line.parts[1] = Fragment \/ Fits(xs[keep], line.parts[1]))
    BY <1>3, <2>2, LineFits
  <2>4. cut \in Line /\ Half(xs[keep], cut)
    <3> HIDE DEF line
    <3>1. cut \in Cuts(line)
      BY <2>1 DEF line
    <3> QED BY <2>1, <2>3, <3>1, CutHalf
  <2>5. log' \in Seq(Line) /\ Len(log') = keep + 1 /\ log'[keep + 1] = cut
        /\ \A n \in 1..keep : log'[n] = log[n]
    BY <1>6, <2>1, <2>4
  <2>6. Followed(log', xs, keep)
    BY <1>3, <1>4, <2>2, <2>4, <2>5, FollowedTail
  <2>7. \A n \in 1..synced : log'[n] = log[n]
    BY <1>3, <1>6, <2>5
  <2> QED BY <1>6, <1>7, <2>5, <2>6, <2>7
<1> QED BY <1>5, <1>8, <1>9, <1>10 DEF g

(* What a failed append leaves: the same log, or an unended line.          *)
LEMMA PartWritten ==
  ASSUME NEW xs, NEW k, Followed(log, xs, k), log \in Seq(Line), NEW piece \in Rec,
         piece = Fragment \/ k < Len(log) \/ Fits(xs[k], piece)
  PROVE  LET g == WriteText(<<piece>>, FALSE)
         IN  g \in Seq(Line) /\ Followed(g, xs, k) /\ k < Len(g) /\ \A n \in 1..k : g[n] = log[n]
<1> DEFINE g == WriteText(<<piece>>, FALSE)
<1> SUFFICES g \in Seq(Line) /\ Followed(g, xs, k) /\ k < Len(g) /\ \A n \in 1..k : g[n] = log[n]
  OBVIOUS
<1> HIDE DEF g
<1>1. k \in Nat /\ Len(log) \in Nat /\ k <= Len(log) /\ k \in 0..k
  BY DEF Followed
<1>2. CASE k = Len(log)
  <2>1. ~(log # <<>> /\ ~Last(log).nl)
    <3> SUFFICES ASSUME log # <<>> PROVE Last(log).nl
      OBVIOUS
    <3>1. Len(log) \in 1..k
      BY <1>1, <1>2
    <3> QED BY <3>1 DEF Followed, Whole, Last
  <2> DEFINE line == [parts |-> <<piece>>, nl |-> FALSE]
  <2>2. g = Append(log, line)
    BY <2>1 DEF WriteText, g
  <2>3. line \in Line /\ Half(xs[k], line)
    BY <1>2 DEF Line, Half
  <2> HIDE DEF line
  <2>4. g \in Seq(Line) /\ Len(g) = k + 1 /\ g[k + 1] = line /\ \A n \in 1..k : g[n] = log[n]
    BY <1>1, <1>2, <2>2, <2>3
  <2>5. Followed(g, xs, k)
    BY <1>1, <2>3, <2>4, FollowedTail
  <2> QED BY <1>1, <2>4, <2>5
<1>3. CASE k # Len(log)
  <2>1. k = Len(log) - 1 /\ Half(xs[k], log[Len(log)])
    BY <1>1, <1>3 DEF Followed
  <2>2. log # <<>> /\ ~Last(log).nl /\ Last(log) \in Line /\ Half(xs[k], Last(log))
    BY <1>1, <1>3, <2>1 DEF Half, Last
  <2> DEFINE line == [parts |-> Last(log).parts \o <<piece>>, nl |-> FALSE]
  <2>3. line \in Line /\ Half(xs[k], line)
    BY <2>2, BehindHalf
  <2>4. g = Append(Front(log), line)
    BY <2>2 DEF WriteText, g
  <2> HIDE DEF line
  <2>5. Front(log) \in Seq(Line) /\ Len(Front(log)) = k /\ \A n \in 1..k : Front(log)[n] = log[n]
    BY <1>1, <2>1 DEF Front
  <2>6. g \in Seq(Line) /\ Len(g) = k + 1 /\ g[k + 1] = line /\ \A n \in 1..k : g[n] = log[n]
    BY <1>1, <2>3, <2>4, <2>5
  <2>7. Followed(g, xs, k)
    BY <1>1, <2>3, <2>6, FollowedTail
  <2> QED BY <1>1, <2>6, <2>7
<1> QED BY <1>2, <1>3

(* An append that succeeds adds a line that is followed, or glues; one     *)
(* that fails leaves the log or an unended line.                           *)
LEMMA AppendKeeps ==
  ASSUME WalInv, ~glued, NEW who, NEW x, NEW tx, NEW step, NEW owner,
         Appending(who, x, tx, step, owner)
  PROVE  WalInv'
<1> DEFINE rec == Record(x, tx, step, owner)
           new == Note([x EXCEPT !.seq = rec.seq], rec)
<1>1. LogInv
  BY DEF WalInv
<1>2. PICK xs, k : Known(xs, k)
  BY <1>1 DEF LogInv
<1>3. /\ Followed(log, xs, k) /\ synced <= k /\ log \in Seq(Line) /\ synced \in Nat
      /\ Usable(ix) /\ (k = Len(log) => Agree(ix, xs[k]))
  BY <1>1, <1>2 DEF LogInv, Known, Appending
<1>4. k \in Nat /\ Len(log) \in Nat /\ k <= Len(log) /\ k \in 0..k
  BY <1>3 DEF Followed
<1>5. Usable(xs[k])
  BY <1>3, <1>4, FollowedUsable
<1>6. Usable(x) /\ Agree(x, ix) /\ Ours(x, rec) /\ up' = "up"
  BY DEF Appending
<1>7. k = Len(log) => Agree(x, xs[k])
  <2>1. x.nextTx \in Nat /\ ix.nextTx \in Nat /\ xs[k].nextTx \in Nat
    BY <1>3, <1>5, <1>6 DEF Usable
  <2> QED BY <1>3, <1>6, <2>1 DEF Agree
<1>8. rec \in Rec /\ rec.step = step /\ rec.seq # 0 /\ rec # Fragment
  <2>1. rec \in Rec /\ rec.seq = x.seq + 1 /\ x.seq \in Nat
    BY <1>6 DEF Ours, Usable
  <2>2. Fragment.seq = 0
    BY DEF Fragment
  <2>3. rec.step = step
    BY RecordFields
  <2> HIDE DEF rec
  <2> QED BY <2>1, <2>2, <2>3
<1> HIDE DEF rec
<1>9. Usable(new) /\ (k = Len(log) => Fits(xs[k], rec) /\ Agree(new, Ingest(xs[k], rec)))
  BY <1>5, <1>6, <1>7, AppendedUsable
<1> HIDE DEF new
<1>10. \/ /\ log' = WriteText(<<rec>>, TRUE)
          /\ glued' = (glued \/ (log # <<>> /\ ~Last(log).nl))
          /\ ix' = new
          /\ \/ /\ synced' = IF NeedsFsync(step) THEN Len(log') ELSE synced
                /\ acked' = acked \cup {rec}
             \/ UNCHANGED <<synced, acked>>
       \/ /\ log' \in {log, WriteText(<<Fragment>>, FALSE), WriteText(<<rec>>, FALSE)}
          /\ ix' = x /\ UNCHANGED <<synced, acked, glued>>
  BY Zenon DEF Appending, AppendLocked, rec, new
<1>11. CASE /\ log' \in {log, WriteText(<<Fragment>>, FALSE), WriteText(<<rec>>, FALSE)}
            /\ ix' = x /\ UNCHANGED <<synced, acked, glued>>
  <2>1. /\ log' \in Seq(Line) /\ Followed(log', xs, k) /\ \A n \in 1..k : log'[n] = log[n]
        /\ k = Len(log') => k = Len(log)
    <3>1. CASE log' = log
      BY <1>3, <3>1
    <3>2. CASE log' = WriteText(<<Fragment>>, FALSE)
      <4>1. log' \in Seq(Line) /\ Followed(log', xs, k) /\ k < Len(log') /\ \A n \in 1..k : log'[n] = log[n]
        BY <1>3, <3>2, FragmentKnown, PartWritten
      <4>2. Len(log') \in Nat
        BY <4>1
      <4> QED BY <1>4, <4>1, <4>2
    <3>3. CASE log' = WriteText(<<rec>>, FALSE)
      <4>1. k < Len(log) \/ Fits(xs[k], rec)
        BY <1>4, <1>9
      <4>2. log' \in Seq(Line) /\ Followed(log', xs, k) /\ k < Len(log') /\ \A n \in 1..k : log'[n] = log[n]
        BY <1>3, <1>8, <3>3, <4>1, PartWritten
      <4>3. Len(log') \in Nat
        BY <4>2
      <4> QED BY <1>4, <4>2, <4>3
    <3> QED BY <1>11, <3>1, <3>2, <3>3
  <2>2. Known(xs, k)'
    BY <1>3, <1>6, <1>7, <1>11, <2>1 DEF Known
  <2>3. Kept'
    BY <1>1, <1>3, <1>4, <1>11, <2>1, StillKept
  <2> QED BY <1>1, <1>3, <1>6, <1>11, <2>1, <2>2, <2>3 DEF WalInv, LogInv
<1>12. CASE /\ log' = WriteText(<<rec>>, TRUE)
            /\ glued' = (glued \/ (log # <<>> /\ ~Last(log).nl))
            /\ ix' = new
            /\ \/ /\ synced' = IF NeedsFsync(step) THEN Len(log') ELSE synced
                  /\ acked' = acked \cup {rec}
               \/ UNCHANGED <<synced, acked>>
  <2>0. glued' \in BOOLEAN
    BY <1>12
  <2>1. CASE log # <<>> /\ ~Last(log).nl
    <3>1. glued'
      BY <1>12, <2>1
    <3> QED BY <2>0, <3>1 DEF WalInv
  <2>2. CASE ~(log # <<>> /\ ~Last(log).nl)
    <3> DEFINE line == [parts |-> <<rec>>, nl |-> TRUE]
               ys == [n \in 0..Len(log) + 1 |->
                        IF n <= Len(log) THEN xs[n] ELSE Ingest(xs[Len(log)], rec)]
    <3>1. log' = Append(log, line)
      BY <1>12, <2>2 DEF WriteText
    <3>2. k = Len(log)
      <4> SUFFICES ASSUME k # Len(log) PROVE FALSE
        OBVIOUS
      <4>1. k < Len(log)
        BY <1>4
      <4>2. ~log[Len(log)].nl /\ Len(log) # 0
        BY <1>3, <1>4, <4>1 DEF Followed, Half
      <4> QED BY <2>2, <4>2 DEF Last
    <3>3. Fits(xs[Len(log)], rec) /\ Followed(log, xs, Len(log))
      BY <1>3, <1>9, <3>2
    <3>4. Followed(log', ys, Len(log) + 1) /\ ys[Len(log) + 1] = Ingest(xs[Len(log)], rec)
      BY <1>3, <1>8, <3>1, <3>3, FollowedLine
    <3>5. line \in Line /\ line.parts = <<rec>>
      BY <1>8 DEF Line
    <3> HIDE DEF line, ys
    <3>6. log' \in Seq(Line) /\ Len(log') = k + 1 /\ log'[k + 1] = line /\ \A n \in 1..k : log'[n] = log[n]
      BY <1>3, <1>4, <3>1, <3>2, <3>5
    <3>10. /\ ix' = new
           /\ \/ /\ synced' = IF NeedsFsync(step) THEN Len(log') ELSE synced
                 /\ acked' = acked \cup {rec}
              \/ UNCHANGED <<synced, acked>>
      BY <1>12, Zenon
    <3>7. synced' \in Nat /\ synced' <= k + 1 /\ synced <= synced'
          /\ (acked' = acked \/ (acked' = acked \cup {rec} /\ (NeedsFsync(step) => synced' = k + 1)))
      <4>1. NeedsFsync(step) \in BOOLEAN
        BY DEF NeedsFsync
      <4>2. CASE NeedsFsync(step)
        BY <1>3, <1>4, <3>6, <3>10, <4>2
      <4>3. CASE ~NeedsFsync(step)
        BY <1>3, <1>4, <3>6, <3>10, <4>3
      <4> QED BY <4>2, <4>3
    <3>8. \E zs : Known(zs, k + 1)'
      <4>1. PICK zs : zs = ys
        OBVIOUS
      <4>2. Followed(log', zs, k + 1) /\ zs[k + 1] = Ingest(xs[k], rec)
        BY <3>2, <3>4, <4>1
      <4>3. Known(zs, k + 1)'
        BY <1>9, <3>2, <3>7, <3>10, <4>2 DEF Known
      <4> QED BY <4>3
    <3>9. Kept'
      <4> SUFFICES ASSUME NEW r \in Durable'
                   PROVE  r.seq # 0 /\ \E n \in 1..synced' : log'[n].parts = <<r>>
        BY DEF Kept
      <4>1. CASE r \in Durable
        <5>1. r.seq # 0
          BY <1>1, <4>1 DEF LogInv, Kept
        <5>2. PICK n \in 1..synced : log[n].parts = <<r>>
          BY <1>1, <4>1 DEF LogInv, Kept
        <5>3. n \in 1..k /\ n \in 1..synced'
          BY <1>3, <1>4, <3>7
        <5>4. log'[n] = log[n]
          BY <3>6, <5>3
        <5> QED BY <5>1, <5>2, <5>3, <5>4
      <4>2. CASE r \notin Durable
        <5>1. r = rec /\ NeedsFsync(step)
          BY <1>8, <3>7, <4>2 DEF Durable
        <5>2. acked' = acked \cup {rec}
          BY <3>7, <4>2 DEF Durable
        <5>3. synced' = k + 1
          BY <3>7, <4>2, <5>1, <5>2 DEF Durable
        <5>4. k + 1 \in 1..synced' /\ log'[k + 1].parts = <<r>>
          BY <1>4, <3>5, <3>6, <5>1, <5>3
        <5> QED BY <1>8, <5>1, <5>4
      <4> QED BY <4>1, <4>2
    <3> QED BY <1>6, <2>0, <3>6, <3>7, <3>8, <3>9 DEF WalInv, LogInv
  <2> QED BY <2>1, <2>2
<1> QED BY <1>10, <1>11, <1>12

(* Once a record is glued nothing more is said.                            *)
LEMMA GluedStays == ASSUME WalInv, glued, WalNext PROVE WalInv'
<1>1. glued' \in BOOLEAN /\ glued'
  BY DEF WalInv, WalNext, OpenWAL, Begin, AppendStep, BeginEvent, FinishEvent, AppendLocked, CloseWAL,
         Killed, LinesLost, Refused, walVars
<1> QED BY <1>1 DEF WalInv

(* Every step keeps the invariant.                                         *)
LEMMA StepKeeps == ASSUME WalInv, [WalNext]_walVars PROVE WalInv'
<1>1. CASE UNCHANGED walVars
  BY <1>1 DEF walVars, WalInv, LogInv, Kept, Known, Durable
<1>2. CASE glued /\ WalNext
  BY <1>2, GluedStays
<1>3. CASE ~glued /\ WalNext
  <2>1. CASE Begin \/ AppendStep \/ BeginEvent \/ FinishEvent
    <3>1. Usable(ix)
      <4>1. up = "up"
        BY <2>1 DEF Begin, AppendStep, BeginEvent, FinishEvent, MayAppend
      <4> QED BY <1>3, <4>1 DEF WalInv, LogInv, Known
    <3>2. PICK who, x, tx, step, owner : Appending(who, x, tx, step, owner)
      BY <2>1, <3>1, Appends
    <3> QED BY <1>3, <3>2, AppendKeeps
  <2>2. CASE OpenWAL
    BY <1>3, <2>2, OpenKeeps
  <2>3. CASE CloseWAL
    BY <1>3, <2>3, CloseKeeps
  <2>4. CASE Killed
    BY <1>3, <2>4, KillKeeps
  <2>5. CASE LinesLost
    BY <1>3, <2>5, LossKeeps
  <2>6. CASE Refused
    BY <1>1, <2>6 DEF Refused
  <2> QED BY <1>3, <2>1, <2>2, <2>3, <2>4, <2>5, <2>6 DEF WalNext
<1> QED BY <1>1, <1>2, <1>3

(* WalInv is an invariant of the log file.                                 *)
THEOREM WalCorrect == WalSpec => []WalInv
<1>1. WalInit => WalInv
  BY InitLog
<1>2. WalInv /\ [WalNext]_walVars => WalInv'
  BY StepKeeps
<1> QED BY <1>1, <1>2, PTL DEF WalSpec

(* AckedKept: a synced record whose append returned is never lost to a     *)
(* crash, a power loss, a failed write of the other appender or the cut of *)
(* a torn tail, as long as nothing was glued.                              *)
THEOREM AcknowledgedKept == WalSpec => []AckedKept
<1>1. WalInv => AckedKept
  BY WalImplies
<1> QED BY <1>1, WalCorrect, PTL

(* NeverRefused: OpenWAL and ReadWALRecords accept every log that these    *)
(* writers, failures and losses can leave, as long as nothing was glued.   *)
THEOREM StartsSucceed == WalSpec => []NeverRefused
<1>1. WalInv => NeverRefused
  BY WalImplies
<1> QED BY <1>1, WalCorrect, PTL
=============================================================================
