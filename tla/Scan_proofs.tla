---------------------------- MODULE Scan_proofs ----------------------------
(***************************************************************************)
(* What holds of a scan for any tree, any number of workers, any window    *)
(* and any number of faults: where its rows come from, and what its        *)
(* checkpoints and the registry it ends with say.                          *)
(***************************************************************************)
EXTENDS Scan, TLAPS, SequenceTheorems, FiniteSetTheorems, WellFoundedInduction

(* A process that has opened its output and not yet ended.                 *)
Opened  == {"phase", "pipe", "rest", "place", "stamp", "complete", "fail", "final"}
(* The same after the checkpoint at the phase boundary.                    *)
Started == {"pipe", "rest", "place", "stamp", "complete", "fail"}
(* The same while rows are written.                                        *)
Writing == {"phase", "pipe", "rest"}

(* The rows in the part file are those of the base the stored checkpoint   *)
(* names, and of the one the next checkpoint will name; they differ only   *)
(* while there is no row yet.                                              *)
Based ==
    /\ sources \subseteq {disk.base}
    /\ pc \in Opened => sources \subseteq {cp.base}
    /\ pc \in Started \cup {"open"} => cp.base = disk.base
    /\ pc \in Writing => cp.base = BaseID

(* No row is written before the first process.                             *)
LEMMA BasedInit ==
    ASSUME Init PROVE Based
BY DEF Init, Based, Opened, Started, Writing

(* A sync changes what the next checkpoint stores, but not its base.       *)
LEMMA SyncedBase == Synced.base = cp.base
BY DEF Synced, Checkpoint

(* What writes no row, opens no output and leaves the stored checkpoint    *)
(* alone preserves Based.                                                  *)
LEMMA BasedKept ==
    ASSUME Based, UNCHANGED <<sources, disk>>, cp'.base = cp.base,
           \/ pc' = pc \/ pc' \in {"down", "finished"}
           \/ pc \in Opened /\ pc' = "final"
           \/ pc \in Started /\ pc' \in Started,
           pc' \in Writing => pc \in Writing /\ UNCHANGED registry
    PROVE  Based'
<1>1. pc' \in Writing => BaseID' = BaseID
  BY DEF BaseID, registry
<1>2. QED
  BY <1>1 DEF Based, Opened, Started, Writing

(* A row is taken from the base of the process that writes it.             *)
LEMMA BasedRow ==
    ASSUME Based, pc \in {"pipe", "rest"}, NEW k, WriteRow(k),
           UNCHANGED <<registry, disk, cp>>, pc' \in Started
    PROVE  Based'
<1>1. sources' = sources \cup {disk.base}
  BY DEF WriteRow, Based, Started, Writing
<1>2. BaseID' = BaseID
  BY DEF BaseID, registry
<1>3. QED
  BY <1>1, <1>2 DEF Based, Opened, Started, Writing
(* The process outside the pipeline preserves Based.                       *)
LEMMA BasedMain ==
    ASSUME Based, Main PROVE Based'
<1>1. CASE Start
  BY <1>1 DEF Start, Based, Goto, Opened, Started, Writing, registry, output, history
<1>2. CASE OpenResumed
  BY <1>2 DEF OpenResumed, Resumable, Based, BaseID, Goto, Opened, Started, Writing, registry, history
<1>3. CASE OpenScratch
  <2>1. cp'.base = BaseID /\ sources' = {} /\ pc' = "phase" /\ UNCHANGED <<registry, disk>>
    BY <1>3 DEF OpenScratch, Goto, Checkpoint
  <2>2. BaseID' = BaseID
    BY <2>1 DEF BaseID, registry
  <2>3. QED
    BY <2>1, <2>2 DEF Based, Opened, Started, Writing
<1>4. CASE Phase
  <2>1. UNCHANGED <<registry, cp, sources>> /\ pc = "phase"
    BY <1>4 DEF Phase
  <2>2. CASE disk' = cp /\ pc' = "pipe"
    BY <2>1, <2>2 DEF Based, BaseID, registry, Opened, Started, Writing
  <2>3. CASE disk' = disk /\ pc' = "final"
    BY <2>1, <2>3, BasedKept DEF Opened, Writing
  <2>4. QED
    BY <1>4, <2>2, <2>3 DEF Phase, Goto
<1>5. CASE Joined
  BY <1>5, BasedKept DEF Joined, Goto, Started, Writing, history
<1>6. CASE Rest
  <2>1. UNCHANGED <<registry, disk>> /\ pc = "rest"
    BY <1>6 DEF Rest
  <2>2. CASE WritePreserved /\ UNCHANGED <<cp, pc>>
    BY <2>1, <2>2, BasedRow DEF WritePreserved, Started
  <2>3. ASSUME UNCHANGED sources, cp'.base = cp.base, pc' \in {"fail", "place", "final"}
        PROVE  Based'
    BY <2>1, <2>3, BasedKept DEF Opened, Started, Writing
  <2>4. QED
    BY <1>6, <2>2, <2>3, SyncedBase DEF Rest, WriteFails, Sync, Goto, history
<1>7. CASE Place
  BY <1>7, BasedKept DEF Place, Goto, Opened, Started, Writing, history
<1>8. CASE Stamp
  BY <1>8, BasedKept DEF Stamp, Goto, Opened, Started, Writing, history
<1>9. CASE Complete
  <2>1. UNCHANGED <<registry, sources>> /\ cp'.base = cp.base /\ pc = "complete"
    BY <1>9 DEF Complete, Checkpoint, history
  <2>2. CASE disk' = cp' /\ pc' = "finished"
    BY <2>1, <2>2 DEF Based, Opened, Started, Writing
  <2>3. CASE disk' = disk /\ pc' = "final"
    BY <2>1, <2>3, BasedKept DEF Opened, Writing
  <2>4. QED
    BY <1>9, <2>2, <2>3 DEF Complete, Goto
<1>10. CASE FailSync
  <2>1. cp'.base = cp.base
    BY <1>10, SyncedBase DEF FailSync, Sync
  <2>2. QED
    BY <1>10, <2>1, BasedKept DEF FailSync, Goto, Opened, Writing, history
<1>11. CASE Finish
  BY <1>11 DEF Finish, Goto, Based, Opened, Started, Writing, history
<1>12. QED
  BY <1>1, <1>2, <1>3, <1>4, <1>5, <1>6, <1>7, <1>8, <1>9, <1>10, <1>11 DEF Main

(* So do the goroutines of the pipeline.                                   *)
LEMMA BasedPipeline ==
    ASSUME Based, Walker \/ Worker \/ Writer PROVE Based'
<1>1. pc = "pipe" /\ UNCHANGED <<registry, pc>>
  BY DEF Walker, Worker, Writer, WalkVisit, WalkJob, WalkQueue, WorkerTake, WorkerDone,
         WriterTake, WriterWait, WriterMerge, WriterEntry, WriterAdvance, WriterSync,
         WriterCheckpoint
<1>2. ASSUME UNCHANGED <<sources, disk>>, cp'.base = cp.base PROVE Based'
  BY <1>1, <1>2, BasedKept
<1>3. CASE Walker \/ Worker \/ WriterTake \/ WriterWait \/ WriterAdvance
  BY <1>2, <1>3 DEF Walker, Worker, WalkVisit, WalkJob, WalkQueue, WorkerTake, WorkerDone,
                    WriterTake, WriterWait, WriterAdvance, history
<1>4. CASE WriterMerge
  <2>1. CASE WritePreserved
    BY <1>1, <1>4, <2>1, BasedRow DEF WriterMerge, WritePreserved, Started
  <2>2. CASE WriteFails
    BY <1>2, <1>4, <2>2 DEF WriterMerge, WriteFails, history
  <2>3. QED
    BY <1>4, <2>1, <2>2 DEF WriterMerge
<1>5. CASE WriterEntry
  <2>1. CASE WriteRow(item)
    BY <1>1, <1>5, <2>1, BasedRow DEF WriterEntry, Started
  <2>2. CASE UNCHANGED sources
    BY <1>2, <1>5, <2>2 DEF WriterEntry
  <2>3. QED
    BY <1>5, <2>1, <2>2 DEF WriterEntry, WriteEntry, WriteFails, history
<1>6. CASE WriterSync
  BY <1>2, <1>6, SyncedBase DEF WriterSync, WriteFails, Sync, history
<1>7. CASE WriterCheckpoint
  <2>1. UNCHANGED <<sources, cp>> /\ (disk' = cp \/ disk' = disk)
    BY <1>7 DEF WriterCheckpoint, history
  <2>2. QED
    BY <1>1, <2>1 DEF Based, BaseID, registry, Opened, Started, Writing
<1>8. QED
  BY <1>3, <1>4, <1>5, <1>6, <1>7 DEF Writer

(* And so does every step of a run and of its environment.                 *)
LEMMA BasedNext ==
    ASSUME Based, [Next]_vars PROVE Based'
<1>1. CASE Cancel
  BY <1>1, BasedKept DEF Cancel, history
<1>2. CASE Crash
  BY <1>2, BasedKept DEF Crash, Goto, Writing, history
<1>3. CASE Tamper
  BY <1>3, BasedKept DEF Tamper, Writing, history
<1>4. CASE UNCHANGED vars
  BY <1>4, BasedKept DEF vars, registry
<1>5. QED
  BY <1>1, <1>2, <1>3, <1>4, BasedMain, BasedPipeline DEF Next, Terminated

(* All rows of the part file are those of one base registry, the one the   *)
(* process found when it opened the output, wherever it resumed and        *)
(* whatever happened to the registry in between.                           *)
THEOREM RowsOfOneBase == Spec => []OneBase
<1>1. Based => OneBase
  BY DEF Based, OneBase, Opened
<1>2. QED
  BY <1>1, BasedInit, BasedNext, PTL DEF Spec
-----------------------------------------------------------------------------
(***************************************************************************)
(* CHECKPOINTS AND THE REGISTRY                                            *)
(*                                                                         *)
(* The argument: the output always fits the cursor (Fits).  A checkpoint   *)
(* is taken of an output that fits, its offsets are synced, and later rows *)
(* and losses are beyond them, so it stays sound (Sound).  That the output *)
(* fits needs the pipeline to hand every path to the writer in order: what *)
(* is after the cursor is accounted for, or still ahead of the writer, in  *)
(* one of the channels, in one of the goroutines or in the walk (Covered). *)
(***************************************************************************)

(* Where a file was moved from there is a file again, something that is    *)
(* neither, or nothing: with a directory there a resumed scan may leave    *)
(* the moved file out (the run ScanReborn).                                *)
NoReborn == \A k \in Moved : Kind[k] # "dir"

StatsOf == [rows : Nat, skipped : SUBSET Key]
CpOf    == [cursor : 0..Last, roff : Nat, coff : Nat, stats : StatsOf,
            complete : BOOLEAN, base : Nat]

(* The path has its row, or is excused by what the counts st say was       *)
(* skipped and what was found unreadable (ur) or unlistable (ul).          *)
Accounted(k, rows, st, ur, ul) ==
    Due(k) => \/ k \in rows
              \/ Kind[k] = "file" /\ ({k} \cup Above[k]) \cap ur \cap st.skipped # {}
              \/ Above[k] \cap ul # {}

(* The rows, the candidates and the counts are those of a walk up to key.  *)
Fits(rows, cands, key, st, ur, ul) ==
    /\ rows \subseteq 1..key /\ st.skipped \subseteq 1..key
    /\ \A k \in 1..key : Accounted(k, rows, st, ur, ul)
    /\ \A k \in cands : k \in rows /\ Kind[k] = "file" /\ k \in Payload
    /\ \A k \in rows \ cands : Kind[k] = "file" /\ k \in Payload =>
          k \in Moved /\ Above[k] \cap ((ur \cap st.skipped) \cup ul) # {}
    /\ st.rows = Cardinality(rows)

(* The checkpoint tells the truth of the files r and s if it can be        *)
(* resumed from; one taken when there was only a header, also of the       *)
(* files as a process that starts again will make them.                    *)
Sound(c, r, s, ur, ul) ==
    /\ (c.roff > 0 /\ Len(r) >= c.roff /\ Len(s) >= c.coff) =>
          Fits(Rows(Prefix(r, c.roff)), Rows(Prefix(s, c.coff)), c.cursor, c.stats, ur, ul)
    /\ (c.roff = 1 /\ c.coff = 0) => Fits({}, {}, c.cursor, c.stats, ur, ul)
-----------------------------------------------------------------------------
(* What a cut keeps.                                                       *)
LEMMA PrefixFacts ==
    ASSUME NEW S, NEW s \in Seq(S), NEW n \in 0..Len(s)
    PROVE  /\ Prefix(s, n) \in Seq(S) /\ Len(Prefix(s, n)) = n
           /\ \A i \in 1..n : Prefix(s, n)[i] = s[i]
BY DEF Prefix

(* A row appended after the cut is not in it.                              *)
LEMMA PrefixAppend ==
    ASSUME NEW S, NEW s \in Seq(S), NEW k \in S, NEW n \in 0..Len(s)
    PROVE  Prefix(Append(s, k), n) = Prefix(s, n)
BY DEF Prefix

(* A cut of a cut.                                                         *)
LEMMA PrefixPrefix ==
    ASSUME NEW S, NEW s \in Seq(S), NEW n \in 0..Len(s), NEW m \in 0..n
    PROVE  Prefix(Prefix(s, n), m) = Prefix(s, m)
BY DEF Prefix

(* The whole of a file is its longest cut.                                 *)
LEMMA PrefixAll ==
    ASSUME NEW S, NEW s \in Seq(S) PROVE Prefix(s, Len(s)) = s
BY DEF Prefix

(* One more row.                                                           *)
LEMMA RowsAppend ==
    ASSUME NEW s \in Seq(0..Last), NEW k \in Key
    PROVE  Rows(Append(s, k)) = Rows(s) \cup {k}
<1>0. k \in 0..Last /\ k # 0
  BY ScanAssumption DEF Key
<1>1. Len(Append(s, k)) = Len(s) + 1 /\ Append(s, k)[Len(s) + 1] = k
  BY <1>0
<1>2. \A i \in 1..Len(s) : Append(s, k)[i] = s[i]
  BY <1>0
<1>3. \A i \in 1..(Len(s) + 1) : i \in 1..Len(s) \/ i = Len(s) + 1
  OBVIOUS
<1>4. \A i \in 1..Len(s) : i \in 1..(Len(s) + 1)
  OBVIOUS
<1>5. Len(s) + 1 \in 1..(Len(s) + 1)
  OBVIOUS
<1>6. Rows(Append(s, k)) \subseteq Rows(s) \cup {k}
  BY <1>0, <1>1, <1>2, <1>3 DEF Rows
<1>7. Rows(s) \subseteq Rows(Append(s, k))
  BY <1>1, <1>2, <1>4 DEF Rows
<1>8. k \in Rows(Append(s, k))
  BY <1>0, <1>1, <1>5 DEF Rows
<1> QED
  BY <1>6, <1>7, <1>8

(* The candidates are rows.                                                *)
LEMMA KeySeq ==
    ASSUME NEW s \in Seq(Key) PROVE s \in Seq(0..Last)
<1>1. Key \subseteq 0..Last
  BY ScanAssumption DEF Key
<1> QED
  BY <1>1, SeqMonotonic

(* A header alone has no rows.                                             *)
LEMMA RowsEmpty == Rows(<<>>) = {} /\ Rows(<<0>>) = {}
BY DEF Rows
-----------------------------------------------------------------------------
(* More rows, more skipped paths and more errors account for no less.      *)
LEMMA AccountedGrows ==
    ASSUME NEW k, NEW rows, NEW st, NEW ur, NEW ul, Accounted(k, rows, st, ur, ul),
           NEW rows2, NEW st2, NEW ur2, NEW ul2, rows \subseteq rows2,
           st.skipped \subseteq st2.skipped, ur \subseteq ur2, ul \subseteq ul2
    PROVE  Accounted(k, rows2, st2, ur2, ul2)
BY DEF Accounted

(* What was found unreadable later takes nothing back.                     *)
LEMMA FitsGrows ==
    ASSUME NEW rows, NEW cands, NEW key, NEW st, NEW ur, NEW ul,
           Fits(rows, cands, key, st, ur, ul),
           NEW ur2, NEW ul2, ur \subseteq ur2, ul \subseteq ul2
    PROVE  Fits(rows, cands, key, st, ur2, ul2)
<1>1. \A k \in 1..key : Accounted(k, rows, st, ur2, ul2)
  BY AccountedGrows DEF Fits
<1> QED
  BY <1>1 DEF Fits

(* A scan that has written nothing is at the start.                        *)
LEMMA FitsNothing ==
    ASSUME NEW ur, NEW ul PROVE Fits({}, {}, 0, NoStats, ur, ul)
BY FS_EmptySet DEF Fits, NoStats

(* The next row.                                                           *)
LEMMA FitsRow ==
    ASSUME NEW rows, NEW cands, NEW key \in 0..Last, NEW st \in StatsOf, NEW ur, NEW ul,
           Fits(rows, cands, key, st, ur, ul),
           NEW k \in Key, k > key,
           \A j \in Key : key < j /\ j < k => Accounted(j, rows, st, ur, ul),
           NEW cands2, cands2 = cands \/ (cands2 = cands \cup {k} /\ Kind[k] = "file" /\ k \in Payload),
           Kind[k] = "file" /\ k \in Payload /\ k \notin cands2 =>
              k \in Moved /\ Above[k] \cap ((ur \cap st.skipped) \cup ul) # {},
           NEW st2, st2 = [st EXCEPT !.rows = @ + 1]
    PROVE  Fits(rows \cup {k}, cands2, k, st2, ur, ul)
<1>1. st2.skipped = st.skipped /\ st2.rows = st.rows + 1
  BY DEF StatsOf
<1>2. rows \cup {k} \subseteq 1..k /\ st2.skipped \subseteq 1..k
  BY <1>1, ScanAssumption DEF Fits, Key
<1>3. ASSUME NEW j \in 1..k PROVE Accounted(j, rows \cup {k}, st2, ur, ul)
  <2>1. CASE j = k
    BY <2>1 DEF Accounted
  <2>2. CASE j # k
    <3>1. j \in Key /\ (j \in 1..key \/ (key < j /\ j < k))
      BY <2>2, ScanAssumption DEF Key
    <3>2. Accounted(j, rows, st, ur, ul)
      BY <3>1 DEF Fits
    <3> QED
      BY <1>1, <3>2, AccountedGrows
  <2> QED
    BY <2>1, <2>2
<1>4. Cardinality(rows \cup {k}) = Cardinality(rows) + 1
  <2>0. 1 \in Int /\ key \in Int
    BY ScanAssumption
  <2>1. IsFiniteSet(1..key)
    BY <2>0, FS_Interval
  <2>2. IsFiniteSet(rows) /\ k \notin rows
    BY <2>1, FS_Subset, ScanAssumption DEF Fits, Key
  <2> QED
    BY <2>2, FS_AddElement
<1> QED
  BY <1>1, <1>2, <1>3, <1>4 DEF Fits

(* The next path without a row.                                            *)
LEMMA FitsPass ==
    ASSUME NEW rows, NEW cands, NEW key \in 0..Last, NEW st \in StatsOf, NEW ur, NEW ul,
           Fits(rows, cands, key, st, ur, ul),
           NEW k \in Key, NEW ur2, ur \subseteq ur2,
           \A j \in Key : key < j /\ j < k => Accounted(j, rows, st, ur, ul),
           NEW st2, st2 = st \/ st2 = [st EXCEPT !.skipped = @ \cup {k}],
           k > key => Accounted(k, rows, st2, ur2, ul),
           NEW key2, key2 = IF k > key THEN k ELSE key
    PROVE  Fits(rows, cands, key2, st2, ur2, ul)
<1>1. st.skipped \subseteq st2.skipped /\ st2.skipped \subseteq st.skipped \cup {k} /\ st2.rows = st.rows
  BY DEF StatsOf
<1>2. rows \subseteq 1..key2 /\ st2.skipped \subseteq 1..key2
  BY <1>1, ScanAssumption DEF Fits, Key
<1>3. ASSUME NEW j \in 1..key2 PROVE Accounted(j, rows, st2, ur2, ul)
  <2>1. j \in Key /\ (j \in 1..key \/ (key < j /\ j < k) \/ (j = k /\ k > key))
    BY ScanAssumption DEF Key
  <2>2. CASE j = k /\ k > key
    BY <2>2
  <2>3. CASE j \in 1..key \/ (key < j /\ j < k)
    <3>1. Accounted(j, rows, st, ur, ul)
      BY <2>1, <2>3 DEF Fits
    <3> QED
      BY <1>1, <3>1, AccountedGrows
  <2> QED
    BY <2>1, <2>2, <2>3
<1>4. \A j \in rows \ cands : Kind[j] = "file" /\ j \in Payload =>
          j \in Moved /\ Above[j] \cap ((ur2 \cap st2.skipped) \cup ul) # {}
  BY <1>1 DEF Fits
<1> QED
  BY <1>1, <1>2, <1>3, <1>4 DEF Fits
-----------------------------------------------------------------------------
(* A checkpoint stays sound when something else is found unreadable.       *)
LEMMA SoundGrows ==
    ASSUME NEW c, NEW r, NEW s, NEW ur, NEW ul, Sound(c, r, s, ur, ul),
           NEW ur2, NEW ul2, ur \subseteq ur2, ul \subseteq ul2
    PROVE  Sound(c, r, s, ur2, ul2)
BY FitsGrows DEF Sound

(* A checkpoint stays sound when the files lose rows: either the rows it   *)
(* names are there, or it is not resumed from.                             *)
LEMMA SoundCut ==
    ASSUME NEW c \in CpOf, NEW r \in Seq(0..Last), NEW s \in Seq(Key), NEW ur, NEW ul,
           Sound(c, r, s, ur, ul), NEW n \in 0..Len(r), NEW m \in 0..Len(s)
    PROVE  Sound(c, Prefix(r, n), Prefix(s, m), ur, ul)
<1>1. Len(Prefix(r, n)) = n /\ Len(Prefix(s, m)) = m /\ c.roff \in Nat /\ c.coff \in Nat
  BY PrefixFacts DEF CpOf
<1>2. ASSUME c.roff > 0, n >= c.roff, m >= c.coff
      PROVE  Fits(Rows(Prefix(Prefix(r, n), c.roff)), Rows(Prefix(Prefix(s, m), c.coff)),
                  c.cursor, c.stats, ur, ul)
  <2>1. c.roff \in 0..n /\ c.coff \in 0..m /\ Len(r) >= c.roff /\ Len(s) >= c.coff
    BY <1>1, <1>2
  <2>2. /\ Prefix(Prefix(r, n), c.roff) = Prefix(r, c.roff)
        /\ Prefix(Prefix(s, m), c.coff) = Prefix(s, c.coff)
    BY <2>1, PrefixPrefix
  <2> QED
    BY <1>2, <2>1, <2>2 DEF Sound
<1> QED
  BY <1>1, <1>2 DEF Sound

(* A checkpoint stays sound when the files get a row beyond its offsets.   *)
LEMMA SoundAppend ==
    ASSUME NEW c \in CpOf, NEW r \in Seq(0..Last), NEW s \in Seq(Key), NEW ur, NEW ul,
           Sound(c, r, s, ur, ul), c.roff <= Len(r), c.coff <= Len(s), NEW k \in Key,
           NEW s2, s2 = s \/ s2 = Append(s, k)
    PROVE  Sound(c, Append(r, k), s2, ur, ul)
<1>1. c.roff \in 0..Len(r) /\ c.coff \in 0..Len(s) /\ k \in 0..Last
  BY ScanAssumption DEF CpOf, Key
<1>2. Prefix(Append(r, k), c.roff) = Prefix(r, c.roff)
  BY <1>1, PrefixAppend
<1>3. Prefix(s2, c.coff) = Prefix(s, c.coff)
  <2>1. Prefix(Append(s, k), c.coff) = Prefix(s, c.coff)
    BY <1>1, PrefixAppend
  <2> QED
    BY <2>1
<1> QED
  BY <1>1, <1>2, <1>3 DEF Sound

(* A checkpoint stays sound when the output is begun anew.                 *)
LEMMA SoundHeader ==
    ASSUME NEW c \in CpOf, NEW r, NEW s, NEW ur, NEW ul, Sound(c, r, s, ur, ul)
    PROVE  Sound(c, <<0>>, <<>>, ur, ul)
<1>1. Len(<<0>>) = 1 /\ Len(<<>>) = 0 /\ c.roff \in Nat /\ c.coff \in Nat
  BY DEF CpOf
<1>2. Prefix(<<0>>, 1) = <<0>> /\ Prefix(<<>>, 0) = <<>>
  <2>1. <<0>> \in Seq({0}) /\ <<>> \in Seq({0})
    OBVIOUS
  <2> QED
    BY <1>1, <2>1, PrefixAll
<1>3. ASSUME c.roff > 0, 1 >= c.roff, 0 >= c.coff
      PROVE  Fits(Rows(Prefix(<<0>>, c.roff)), Rows(Prefix(<<>>, c.coff)), c.cursor, c.stats, ur, ul)
  <2>1. c.roff = 1 /\ c.coff = 0
    BY <1>1, <1>3
  <2> QED
    BY <1>2, <2>1, RowsEmpty DEF Sound
<1> QED
  BY <1>1, <1>3 DEF Sound

(* The checkpoint of a sync is sound.                                      *)
LEMMA SoundNow ==
    ASSUME NEW r \in Seq(0..Last), r # <<>>, r[1] = 0, NEW s \in Seq(Key),
           NEW key, NEW st, NEW ur, NEW ul, Fits(Rows(r), Rows(s), key, st, ur, ul),
           NEW done, NEW base
    PROVE  Sound(Checkpoint(key, Len(r), Len(s), st, done, base), r, s, ur, ul)
<1>1. Prefix(r, Len(r)) = r /\ Prefix(s, Len(s)) = s
  BY PrefixAll
<1>2. Len(r) = 1 => Rows(r) = {}
  BY DEF Rows
<1>3. Len(s) = 0 => Rows(s) = {}
  BY DEF Rows
<1> QED
  BY <1>1, <1>2, <1>3 DEF Sound, Checkpoint

(* So is the one that names no output.                                     *)
LEMMA SoundNone ==
    ASSUME NEW c, c.roff = 0, NEW r, NEW s, NEW ur, NEW ul PROVE Sound(c, r, s, ur, ul)
BY DEF Sound

(* A set of numbers has a least element.                                   *)
LEMMA LeastOf ==
    ASSUME NEW T, T \subseteq Nat, T # {}
    PROVE  \E k \in T : \A j \in T : k <= j
<1>1. PICK k \in T : \A j \in T : ~ (<<j, k>> \in OpToRel(<, Nat))
  BY NatLessThanWellFounded, WFMin
<1>2. \A j \in T : ~(j < k)
  BY <1>1, Zenon DEF OpToRel
<1>3. \A j \in T : k <= j
  BY <1>2
<1> QED
  BY <1>3

(* First returns it.                                                       *)
LEMMA FirstLeast ==
    ASSUME NEW T, T \subseteq Key, T # {}
    PROVE  First(T) \in T /\ \A j \in T : First(T) <= j
<1>1. T \subseteq Nat
  BY DEF Key
<1>2. \E k \in T : \A j \in T : k <= j
  BY <1>1, LeastOf
<1> QED
  BY <1>2, Zenon DEF First
-----------------------------------------------------------------------------
(* THE INVARIANT *)

OutShapes ==
    /\ version \in Nat
    /\ reg \in Seq(0..Last) /\ cand \in Seq(Key)
    /\ regSynced \in 0..Len(reg) /\ candSynced \in 0..Len(cand)
    /\ disk \in CpOf /\ cp \in CpOf
    /\ cursor \in 0..Last /\ stats \in StatsOf /\ kept \subseteq Key

PipeShapes ==
    /\ walk \subseteq Key /\ at \in 0..Last /\ item \in 0..Last
    /\ order \in Seq(Key) /\ jobs \in Seq(Key)
    /\ asked \subseteq Key /\ busy \subseteq Key /\ result \in [Key -> Results]

(* The path is accounted for by the output as it is.                       *)
Acc(k)     == Accounted(k, Rows(reg), stats, unread, unlisted)
Settled(k) == Accounted(k, Rows(final), stats, unread, unlisted)

(* The output may still get rows.                                          *)
Growing == {"pipe", "rest", "place", "fail"}
(* What the checkpoint names is on disk.                                   *)
Within(c) == c.roff <= regSynced /\ c.coff <= candSynced

(* The stored checkpoint and the next one are sound, whatever happens to   *)
(* the output.                                                             *)
Stored ==
    /\ Sound(disk, reg, cand, unread, unlisted)
    /\ pc # "down" => Sound(cp, reg, cand, unread, unlisted)
    /\ pc = "open" => cp = disk
    /\ reg # <<>> => reg[1] = 0
    /\ pc \in Growing \cup {"phase"} => Within(cp) /\ (healthy => reg # <<>>)
    /\ pc \in Growing => Within(disk)
    /\ pc \in {"place", "stamp", "complete"} => cp.stats = stats

(* The output of this process fits its cursor, and the moved files that    *)
(* still need a row are kept.                                              *)
Live ==
    /\ healthy /\ pc \in {"phase", "pipe", "rest", "fail"} =>
          Fits(Rows(reg), Rows(cand), cursor, stats, unread, unlisted)
    /\ pc \in {"open", "phase", "rest"} => healthy
    /\ pc = "pipe" /\ writer # "failed" => healthy
    /\ pc \in {"pipe", "rest"} =>
          /\ \A k \in kept : k \in Moved /\ k > cursor
          /\ \A k \in Moved : k > cursor /\ Kind[k] = "absent" => k \in kept

(* After the pipeline nothing is missing, and only a placed registry makes *)
(* a checkpoint complete.                                                  *)
Whole ==
    /\ pc = "rest" => \A k \in Key : Kind[k] = "file" => Acc(k)
    /\ pc = "place" => \A k \in Key : Acc(k)
    /\ pc \in {"stamp", "complete"} => \A k \in Key : Settled(k)
    /\ pc \notin {"down", "finished"} => ~disk.complete
    /\ pc \notin {"down", "finished", "final"} => ~cp.complete
    /\ pc = "final" /\ cp.complete =>
          \A k \in Key : Accounted(k, Rows(final), cp.stats, unread, unlisted)
    /\ disk.complete =>
          \A k \in Key : Accounted(k, Rows(final), disk.stats, unread, unlisted)

OutInv == OutShapes /\ Stored /\ Live /\ Whole

(* Where an entry is between the walk and the output.                      *)
Waiting == writer \in {"wait", "write"}
Held    == walker \in {"job", "queue"}
Queued  == {order[i] : i \in 1..Len(order)}
Pending(k) ==
    \/ k \in walk
    \/ k \in Queued
    \/ Held /\ k = at
    \/ Waiting /\ k = item

(* The path is one the walk delivers.                                      *)
Coming(k) ==
    /\ Kind[k] # "absent"
    /\ k > cursor \/ (Kind[k] = "dir" /\ result[k] = "unreadable")

(* The entries are in walk order along the pipeline, and all after the     *)
(* cursor, except a directory above it that cannot be listed any more.     *)
InOrder ==
    /\ Held => at \in Key
    /\ Waiting => item \in Key
    /\ \A k \in walk : at < k
    /\ \A i, j \in 1..Len(order) : i < j => order[i] < order[j]
    /\ \A k \in Queued : k <= at /\ (Held => k < at) /\ (Waiting => item < k)
    /\ Waiting => item <= at /\ (Held => item < at)
    /\ walker = "done" => walk = {}
    /\ writer = "ok" => order = <<>> /\ Closed
    /\ \A k \in Key : Pending(k) => Coming(k)

(* The path, or a directory above it that cannot be listed, is still to be *)
(* written, or the walk has stopped before it.                             *)
Ahead(k) ==
    \/ Pending(k)
    \/ \E d \in Above[k] : Pending(d) /\ result[d] = "unreadable"
    \/ walker = "stopped" /\ k >= at

(* No present file is lost between the walk and the output.                *)
Covered ==
    writer # "failed" =>
        \A k \in Key : Kind[k] = "file" /\ k > cursor => Acc(k) \/ Ahead(k)

(* A result is asked for once, and "cancelled" only comes of a             *)
(* cancellation.                                                           *)
Asked == {jobs[i] : i \in 1..Len(jobs)} \cup busy
Detecting ==
    /\ \A i, j \in 1..Len(jobs) : i # j => jobs[i] # jobs[j]
    /\ \A i \in 1..Len(jobs) : jobs[i] \notin busy
    /\ \A k \in Asked : k \in asked /\ result[k] = "unknown"
    /\ asked \cap walk = {}
    /\ walker = "job" => at \notin asked /\ Kind[at] = "file" /\ result[at] = "unknown"
    /\ \A k \in walk : Kind[k] = "file" => result[k] = "unknown"
    /\ \A k \in asked : Kind[k] = "file"
    /\ \A k \in Key : result[k] = "cancelled" => Cancelled
    /\ \A k \in Key : Kind[k] = "dir" => result[k] \in {"unknown", "unreadable"}

(* What has left the walk was asked for, or is known.                      *)
Inspected ==
    /\ \A k \in Queued : Kind[k] = "file" => k \in asked \/ result[k] \in {"ok", "unreadable"}
    /\ walker = "queue" /\ Kind[at] = "file" => at \in asked \/ result[at] \in {"ok", "unreadable"}
    /\ Waiting /\ Kind[item] = "file" => item \in asked \/ result[item] \in {"ok", "unreadable"}
    /\ writer = "write" /\ Kind[item] = "file" => result[item] \in {"ok", "unreadable"}

(* No goroutine of an earlier process is left when a pipeline starts.      *)
Unstarted == at = 0 /\ asked = {} /\ jobs = <<>> /\ busy = {} /\ order = <<>>

Piped ==
    /\ pc = "pipe" => InOrder /\ Covered /\ Detecting /\ Inspected
    /\ pc \in {"down", "open", "phase"} => Unstarted
PipeInv == PipeShapes /\ Piped
ScanInv     == OutInv /\ PipeInv
-----------------------------------------------------------------------------
(* The first process finds nothing.                                        *)
LEMMA ScanInvInit == Init => ScanInv
<1> SUFFICES ASSUME Init PROVE ScanInv
  OBVIOUS
<1> USE DEF Init
<1>0. NoStats \in StatsOf /\ NoCheckpoint \in CpOf /\ NoCheckpoint.roff = 0 /\ ~NoCheckpoint.complete
  BY ScanAssumption DEF Coming, NoStats, StatsOf, NoCheckpoint, Checkpoint, CpOf
<1>1. OutShapes
  BY <1>0, ScanAssumption DEF OutShapes
<1>2. PipeShapes
  BY ScanAssumption DEF PipeShapes, Results
<1>3. Stored
  BY <1>0, SoundNone DEF Stored, Growing
<1>4. Live /\ Whole /\ Piped
  BY <1>0 DEF Live, Whole, Piped, Unstarted
<1> QED
  BY <1>1, <1>2, <1>3, <1>4 DEF ScanInv, OutInv, PipeInv

(* A step that leaves the output, its record and the main goroutine alone. *)
LEMMA OutIdle ==
    ASSUME OutInv, UNCHANGED <<registry, output, disk, cp, pc, progress, healthy, unread, unlisted>>,
           writer' = "failed" \/ writer # "failed"
    PROVE  OutInv'
BY DEF OutInv, OutShapes, Stored, Within, Live, Whole, Acc, Settled,
       registry, output, progress

(* What is accounted for depends on the output only.                       *)
LEMMA AccIdle ==
    ASSUME UNCHANGED <<reg, stats, unread, unlisted>>
    PROVE  \A k : Acc(k)' <=> Acc(k)
BY DEF Acc

(* A step of the pipeline that leaves the output alone.                    *)
LEMMA WalkVisitKeeps == ASSUME ScanInv, WalkVisit PROVE ScanInv'
<1> USE DEF ScanInv, PipeInv, PipeShapes
<1>0. pc = "pipe" /\ walker = "visit" /\ pc' = pc /\ InOrder /\ Covered /\ Detecting /\ Inspected
  BY DEF WalkVisit, Piped
<1>1. OutInv'
  BY OutIdle DEF WalkVisit, writing, history
<1>2. CASE walk = {} /\ walker' = "done" /\ UNCHANGED <<walk, at, result>>
  <2> USE <1>0, <1>2 DEF WalkVisit, writing, working, progress, history, output
  <2>1. PipeShapes'
    OBVIOUS
  <2>2. \A k : Pending(k)' <=> Pending(k)
    BY DEF Pending, Queued, Held, Waiting
  <2>3. InOrder'
    BY <2>2 DEF Coming, InOrder, Held, Waiting, Queued, Closed
  <2>4. Covered'
    BY <2>2, AccIdle DEF Covered, Ahead
  <2>5. Detecting' /\ Inspected'
    BY DEF Detecting, Inspected, Asked, Queued, Waiting, Cancelled
  <2> QED
    BY <1>0, <1>1, <2>1, <2>3, <2>4, <2>5 DEF Piped
<1>3. CASE walk # {} /\ Cancelled /\ walker' = "stopped" /\ UNCHANGED <<walk, at, result>>
  <2> USE <1>0, <1>3 DEF WalkVisit, writing, working, progress, history, output
  <2>1. PipeShapes'
    OBVIOUS
  <2>2. \A k : Pending(k)' <=> Pending(k)
    BY DEF Pending, Queued, Held, Waiting
  <2>3. InOrder'
    BY <2>2 DEF Coming, InOrder, Held, Waiting, Queued, Closed
  <2>4. Covered'
    BY <2>2, AccIdle DEF Covered, Ahead
  <2>5. Detecting' /\ Inspected'
    BY DEF Detecting, Inspected, Asked, Queued, Waiting, Cancelled
  <2> QED
    BY <1>0, <1>1, <2>1, <2>3, <2>4, <2>5 DEF Piped
<1>4. CASE walk # {} /\ ~Cancelled
  <2>0. at' = First(walk)
    BY <1>4 DEF WalkVisit
  <2>1. /\ at' \in walk /\ walk' = walk \ {at'} /\ \A k \in walk : at' <= k
        /\ walker' \in {"job", "queue"} /\ ~Cancelled
        /\ UNCHANGED <<order, writer, item, asked, jobs, busy, cursor, user, reg, stats, unread, unlisted>>
    BY <1>4, <2>0, FirstLeast DEF WalkVisit, writing, progress, history, output
  <2>2. result' \in [Key -> Results] /\ \A k \in Key : k # at' => result'[k] = result[k]
    BY <1>4, <2>1 DEF WalkVisit, Results
  <2>3. /\ result'[at'] = result[at'] \/ (Kind[at'] = "file" /\ result'[at'] \in {"ok", "unreadable"})
        /\ walker' = "job" => Kind[at'] = "file" /\ result' = result
        /\ walker' = "queue" /\ Kind[at'] = "file" => result'[at'] \in {"ok", "unreadable"}
    BY <1>4, <2>1 DEF WalkVisit, MayReuse
  <2>4. PipeShapes'
    BY <2>1, <2>2 DEF Key
  <2>5. \A k : Pending(k)' <=> Pending(k)
    BY <1>0, <2>1 DEF Pending, Queued, Held, Waiting
  <2>6. at < at' /\ \A k \in walk' : at' < k
    BY <1>0, <2>1 DEF Coming, InOrder, Key
  <2>7. \A k \in Queued : k \in Key
    BY DEF Queued
  <2>8. \A k \in Queued' : k < at'
    <3>1. Queued' = Queued
      BY <2>1 DEF Queued
    <3>2. \A k \in Queued : k <= at
      BY <1>0 DEF Coming, InOrder
    <3>3. at' \in Key
      BY <2>1
    <3> QED
      BY <2>6, <2>7, <3>1, <3>2, <3>3 DEF Key
  <2>9. \A k \in Key : Pending(k)' => Coming(k)'
    BY <1>0, <2>1, <2>2, <2>3, <2>5 DEF Coming, InOrder
  <2>10. InOrder'
    <3>1. at' \in Key /\ Held'
      BY <2>1 DEF Held
    <3>2. Waiting' => item' \in Key /\ item' < at'
      BY <1>0, <2>1, <2>6 DEF Coming, InOrder, Waiting, Key
    <3>3. \A k \in Queued' : Waiting' => item' < k
      BY <1>0, <2>1 DEF Coming, InOrder, Waiting, Queued
    <3>4. Queued' = Queued
      BY <2>1 DEF Queued
    <3>5. \A k \in Queued' : k <= at'
      BY <2>7, <2>8, <3>1, <3>4 DEF Key
    <3>6. writer' # "ok"
      BY <1>0, <2>1 DEF Coming, InOrder, Closed
    <3>7. Waiting' => item' <= at'
      BY <3>1, <3>2 DEF Key
    <3>8. \A i, j \in 1..Len(order') : i < j => order'[i] < order'[j]
      BY <1>0, <2>1 DEF Coming, InOrder
    <3>9. walker' # "done"
      BY <2>1
    <3> QED
      BY <2>6, <2>8, <2>9, <3>1, <3>2, <3>3, <3>5, <3>6, <3>7, <3>8, <3>9 DEF Coming, InOrder
  <2>11. \A k \in Key : \A d \in Above[k] : d \in Key /\ Kind[d] = "dir"
    BY ScanAssumption
  <2>12. \A k \in Key : Ahead(k) => Ahead(k)'
    BY <1>0, <2>1, <2>2, <2>3, <2>5, <2>11 DEF Ahead
  <2>13. Covered'
    BY <1>0, <2>1, <2>12, AccIdle DEF Covered
  <2>14. at' \notin asked /\ at' \notin Asked
    BY <1>0, <2>1 DEF Detecting
  <2>15. Detecting'
    BY <1>0, <2>1, <2>2, <2>3, <2>14 DEF Detecting, Asked, Cancelled
  <2>16. \A k \in Queued : k # at'
    <3>1. Queued' = Queued
      BY <2>1 DEF Queued
    <3> QED
      BY <2>7, <2>8, <3>1 DEF Key
  <2>17. Waiting => item # at'
    BY <1>0, <2>1, <2>6 DEF Coming, InOrder, Key
  <2>18. Inspected'
    BY <1>0, <2>1, <2>2, <2>3, <2>7, <2>16, <2>17 DEF Coming, Inspected, Queued, Waiting, InOrder
  <2> QED
    BY <1>0, <1>1, <2>4, <2>10, <2>13, <2>15, <2>18 DEF Piped
<1> QED
  BY <1>2, <1>3, <1>4 DEF WalkVisit

(* What is still covered when the output does not change.                  *)
LEMMA CoveredKept ==
    ASSUME Covered, UNCHANGED <<reg, stats, unread, unlisted, cursor>>,
           writer # "failed", \A k \in Key : Ahead(k) => Ahead(k)'
    PROVE  Covered'
<1>1. \A k : Acc(k)' <=> Acc(k)
  BY AccIdle
<1> QED
  BY <1>1 DEF Covered

(* The order channel with one more entry.                                  *)
LEMMA QueuedAppend ==
    ASSUME NEW k, order' = Append(order, k), order \in Seq(Key), k \in Key
    PROVE  Queued' = Queued \cup {k}
<1>1. Len(order') = Len(order) + 1 /\ order'[Len(order) + 1] = k /\ Len(order) \in Nat
  OBVIOUS
<1>2. \A i \in 1..Len(order) : order'[i] = order[i]
  OBVIOUS
<1>3. \A i \in 1..Len(order') : i \in 1..Len(order) \/ i = Len(order) + 1
  BY <1>1
<1>4. Len(order) + 1 \in 1..Len(order') /\ \A i \in 1..Len(order) : i \in 1..Len(order')
  BY <1>1
<1> QED
  BY <1>1, <1>2, <1>3, <1>4, Zenon DEF Queued

(* The order channel without its first entry.                              *)
LEMMA QueuedTail ==
    ASSUME order \in Seq(Key), order # <<>>, order' = Tail(order)
    PROVE  /\ Queued = Queued' \cup {Head(order)} /\ Head(order) \in Key /\ Head(order) = order[1]
           /\ 1 \in 1..Len(order)
           /\ \A i \in 1..Len(order') : order'[i] = order[i + 1] /\ i + 1 \in 1..Len(order) /\ 1 < i + 1
<1>1. /\ Head(order) \in Key /\ Head(order) = order[1] /\ 1 \in 1..Len(order)
      /\ \A i \in 1..Len(order') : order'[i] = order[i + 1] /\ i + 1 \in 1..Len(order) /\ 1 < i + 1
  OBVIOUS
<1>2. \A i \in 1..Len(order) : i = 1 \/ (i - 1 \in 1..Len(order') /\ order'[i - 1] = order[i])
  OBVIOUS
<1>3. Queued \subseteq Queued' \cup {Head(order)}
  BY <1>1, <1>2 DEF Queued
<1>4. Queued' \subseteq Queued /\ Head(order) \in Queued
  BY <1>1 DEF Queued
<1> QED
  BY <1>1, <1>3, <1>4

(* The entry is sent to the workers, or the walk stops at it.              *)
LEMMA WalkJobKeeps == ASSUME ScanInv, WalkJob PROVE ScanInv'
<1> USE DEF ScanInv, PipeInv, PipeShapes
<1>0. pc = "pipe" /\ walker = "job" /\ pc' = pc /\ InOrder /\ Covered /\ Detecting /\ Inspected
  BY DEF WalkJob, Piped
<1>1. OutInv'
  BY OutIdle DEF WalkJob, writing, history
<1>2. /\ UNCHANGED <<walk, at, busy, result, order, writer, item, user, cursor, reg, stats, unread, unlisted>>
      /\ walker' \in {"queue", "stopped"} /\ Held /\ at \in Key /\ writer # "ok"
  BY <1>0 DEF Coming, WalkJob, writing, progress, history, output, Held, InOrder, Closed
<1>3. \/ walker' = "queue" /\ jobs' = Append(jobs, at) /\ asked' = asked \cup {at}
      \/ walker' = "stopped" /\ UNCHANGED <<jobs, asked>>
  BY DEF WalkJob
<1>4. PipeShapes'
  <2>1. jobs' \in Seq(Key)
    BY <1>2, <1>3
  <2>2. asked' \subseteq Key
    BY <1>2, <1>3
  <2> QED
    BY <1>2, <2>1, <2>2
<1>5. Queued' = Queued /\ (Waiting' <=> Waiting)
  BY <1>2 DEF Queued, Waiting
<1>6. \A k : Pending(k)' => Pending(k)
  BY <1>2, <1>5 DEF Pending, Held
<1>7. \A k : Pending(k) => Pending(k)' \/ (k = at /\ walker' = "stopped")
  BY <1>2, <1>5 DEF Pending, Held
<1>8. InOrder'
  BY <1>0, <1>2, <1>5, <1>6 DEF Coming, InOrder, Held
<1>9. Covered'
  <2>1. \A k \in Key : \A d \in Above[k] : d \in Key /\ Kind[d] = "dir" /\ d < k
    BY ScanAssumption
  <2>2. \A k \in Key : Ahead(k) => Ahead(k)'
    BY <1>0, <1>2, <1>7, <2>1 DEF Ahead, Detecting, Key
  <2> QED
    BY <1>0, <1>2, <2>2, CoveredKept DEF Covered
<1>10. Detecting' /\ Inspected'
  <2>1. CASE walker' = "stopped" /\ UNCHANGED <<jobs, asked>>
    <3>1. Asked' = Asked /\ (Cancelled' <=> Cancelled)
      BY <1>2, <2>1 DEF Asked, Cancelled
    <3>2. Detecting'
      BY <1>0, <1>2, <2>1, <3>1 DEF Detecting
    <3> QED
      BY <1>0, <1>2, <1>5, <2>1, <3>2 DEF Inspected
  <2>2. CASE walker' = "queue" /\ jobs' = Append(jobs, at) /\ asked' = asked \cup {at}
    <3>1. /\ Len(jobs') = Len(jobs) + 1 /\ jobs'[Len(jobs) + 1] = at /\ Len(jobs) \in Nat
          /\ \A i \in 1..Len(jobs) : jobs'[i] = jobs[i]
      BY <1>2, <2>2
    <3>2. \A i \in 1..Len(jobs') : i \in 1..Len(jobs) \/ i = Len(jobs) + 1
      BY <3>1
    <3>3. \A i \in 1..Len(jobs) : jobs[i] # at
      BY <1>0 DEF Detecting, Asked
    <3>4. \A i, j \in 1..Len(jobs') : i # j => jobs'[i] # jobs'[j]
      BY <1>0, <3>1, <3>2, <3>3 DEF Detecting
    <3>5. at \notin busy
      BY <1>0 DEF Detecting, Asked
    <3>6. \A i \in 1..Len(jobs') : jobs'[i] \notin busy'
      BY <1>0, <1>2, <3>1, <3>2, <3>5 DEF Detecting
    <3>7. Asked' \subseteq Asked \cup {at}
      BY <1>2, <3>1, <3>2, Zenon DEF Asked
    <3>8. (Cancelled' <=> Cancelled) /\ at \notin walk
      BY <1>0, <1>2 DEF Coming, Cancelled, InOrder, Key
    <3>9. Detecting'
      BY <1>0, <1>2, <2>2, <3>4, <3>6, <3>7, <3>8 DEF Detecting
    <3> QED
      BY <1>0, <1>2, <1>5, <2>2, <3>9 DEF Inspected
  <2> QED
    BY <1>3, <2>1, <2>2
<1> QED
  BY <1>0, <1>1, <1>4, <1>8, <1>9, <1>10 DEF Piped

(* The entry is sent to the writer, or the walk stops at it.               *)
LEMMA WalkQueueKeeps == ASSUME ScanInv, WalkQueue PROVE ScanInv'
<1> USE DEF ScanInv, PipeInv, PipeShapes
<1>0. pc = "pipe" /\ walker = "queue" /\ pc' = pc /\ InOrder /\ Covered /\ Detecting /\ Inspected
  BY DEF WalkQueue, Piped
<1>1. OutInv'
  BY OutIdle DEF WalkQueue, history
<1>2. /\ UNCHANGED <<walk, at, asked, jobs, busy, result, writer, item, user,
                     cursor, reg, stats, unread, unlisted>>
      /\ Held /\ ~Held' /\ at \in Key /\ writer # "ok" /\ walker' # "done" /\ walker' # "job"
  BY <1>0 DEF Coming, WalkQueue, working, progress, history, output, Held, InOrder, Closed
<1>3. \/ walker' = "visit" /\ order' = Append(order, at)
      \/ walker' = "stopped" /\ UNCHANGED order
  BY DEF WalkQueue
<1>4. PipeShapes'
  <2>1. order' \in Seq(Key)
    BY <1>2, <1>3
  <2> QED
    BY <1>2, <2>1
<1>5. /\ Waiting' <=> Waiting
      /\ \/ walker' = "visit" /\ Queued' = Queued \cup {at}
         \/ walker' = "stopped" /\ Queued' = Queued
  BY <1>2, <1>3, QueuedAppend DEF Queued, Waiting
<1>6. \A k : Pending(k)' => Pending(k)
  BY <1>2, <1>5 DEF Pending, Held
<1>7. \A k : Pending(k) => Pending(k)' \/ (k = at /\ walker' = "stopped")
  BY <1>2, <1>5 DEF Pending, Held
<1>8. InOrder'
  <2>1. \A i, j \in 1..Len(order') : i < j => order'[i] < order'[j]
    <3>1. CASE order' = Append(order, at)
      <4>1. /\ Len(order') = Len(order) + 1 /\ order'[Len(order) + 1] = at /\ Len(order) \in Nat
            /\ \A i \in 1..Len(order) : order'[i] = order[i]
        BY <1>2, <3>1
      <4>2. \A i \in 1..Len(order') : i \in 1..Len(order) \/ i = Len(order) + 1
        BY <4>1
      <4>3. \A i \in 1..Len(order) : order[i] < at
        BY <1>0, <1>2 DEF Coming, InOrder, Queued
      <4> QED
        BY <1>0, <4>1, <4>2, <4>3 DEF Coming, InOrder
    <3>2. CASE order' = order
      BY <1>0, <3>2 DEF Coming, InOrder
    <3> QED
      BY <1>3, <3>1, <3>2
  <2>2. \A k \in Queued' : k <= at' /\ (Waiting' => item' < k)
    BY <1>0, <1>2, <1>5 DEF Coming, InOrder, Key
  <2>3. Waiting' => item' <= at' /\ item' \in Key
    BY <1>0, <1>2, <1>5 DEF Coming, InOrder, Key
  <2>4. \A k \in Key : Pending(k)' => Coming(k)'
    BY <1>0, <1>2, <1>6 DEF Coming, InOrder
  <2>5. \A k \in walk' : at' < k
    BY <1>0, <1>2 DEF Coming, InOrder
  <2> QED
    BY <1>2, <2>1, <2>2, <2>3, <2>4, <2>5 DEF Coming, InOrder
<1>9. Covered'
  <2>1. \A k \in Key : \A d \in Above[k] : d \in Key /\ d < k
    BY ScanAssumption
  <2>2. \A k \in Key : Ahead(k) => Ahead(k)'
    BY <1>0, <1>2, <1>7, <2>1 DEF Ahead, Key
  <2> QED
    BY <1>0, <1>2, <2>2, CoveredKept DEF Covered
<1>10. Detecting'
  <2>1. Asked' = Asked /\ (Cancelled' <=> Cancelled)
    BY <1>2 DEF Asked, Cancelled
  <2> QED
    BY <1>0, <1>2, <2>1 DEF Detecting
<1>11. Inspected'
  BY <1>0, <1>2, <1>3, <1>5 DEF Inspected
<1> QED
  BY <1>0, <1>1, <1>4, <1>8, <1>9, <1>10, <1>11 DEF Piped

(* A worker takes a job, and refuses it when the run is cancelled.         *)
LEMMA WorkerTakeKeeps == ASSUME ScanInv, WorkerTake PROVE ScanInv'
<1> USE DEF ScanInv, PipeInv, PipeShapes
<1>0. pc = "pipe" /\ pc' = pc /\ InOrder /\ Covered /\ Detecting /\ Inspected
  BY DEF WorkerTake, Piped
<1>1. OutInv'
  BY OutIdle DEF WorkerTake, writing, history
<1> DEFINE head == Head(jobs)
<1>2. /\ UNCHANGED <<walk, at, walker, asked, order, writer, item, user,
                     cursor, reg, stats, unread, unlisted>>
      /\ jobs # <<>> /\ jobs' = Tail(jobs)
  BY <1>0 DEF WorkerTake, writing, walking, progress, history, output
<1>3. \/ busy' = busy \cup {head} /\ UNCHANGED result
      \/ Cancelled /\ result' = [result EXCEPT ![head] = "cancelled"] /\ UNCHANGED busy
  BY DEF WorkerTake
<1>4. /\ head \in Key /\ head = jobs[1] /\ 1 \in 1..Len(jobs)
      /\ \A i \in 1..Len(jobs') : jobs'[i] = jobs[i + 1] /\ i + 1 \in 1..Len(jobs) /\ 1 # i + 1
      /\ jobs' \in Seq(Key)
  BY <1>2
<1> HIDE DEF head
<1>5. head \in Asked
  BY <1>4 DEF Asked
<1>6. Kind[head] = "file" /\ result[head] = "unknown" /\ head \in asked
  BY <1>0, <1>5 DEF Detecting
<1>7. result' \in [Key -> Results] /\ \A k \in Key : k # head => result'[k] = result[k]
  BY <1>3 DEF Results
<1>8. PipeShapes'
  BY <1>2, <1>3, <1>4, <1>7
<1>9. \A k : Pending(k)' <=> Pending(k)
  BY <1>2 DEF Pending, Held, Waiting, Queued
<1>10. InOrder'
  <2>1. (Held' <=> Held) /\ (Waiting' <=> Waiting) /\ Queued' = Queued /\ (Closed' <=> Closed)
    BY <1>2 DEF Held, Waiting, Queued, Closed
  <2>2. \A k \in Key : Pending(k)' => Coming(k)'
    BY <1>0, <1>2, <1>6, <1>7, <1>9 DEF Coming, InOrder
  <2> QED
    BY <1>0, <1>2, <2>1, <2>2 DEF Coming, InOrder
<1>11. Covered'
  <2>1. \A k \in Key : \A d \in Above[k] : d \in Key /\ Kind[d] = "dir"
    BY ScanAssumption
  <2>2. \A k \in Key : Ahead(k) => Ahead(k)'
    BY <1>2, <1>6, <1>7, <1>9, <2>1 DEF Ahead
  <2>3. CASE writer = "failed"
    BY <1>2, <2>3 DEF Covered
  <2> QED
    BY <1>0, <1>2, <2>2, <2>3, CoveredKept
<1>12. Asked' \subseteq Asked /\ \A i \in 1..Len(jobs') : jobs'[i] # head
  BY <1>0, <1>3, <1>4, <1>5 DEF Asked, Detecting
<1>13. (Cancelled' <=> Cancelled) /\ head \notin walk
  BY <1>0, <1>2, <1>6 DEF Cancelled, Detecting
<1>14. Detecting'
  <2>1. \A i, j \in 1..Len(jobs') : i # j => jobs'[i] # jobs'[j]
    <3> SUFFICES ASSUME NEW i \in 1..Len(jobs'), NEW j \in 1..Len(jobs'), i # j PROVE jobs'[i] # jobs'[j]
      OBVIOUS
    <3>1. i + 1 # j + 1
      OBVIOUS
    <3> QED
      BY <1>0, <1>4, <3>1 DEF Detecting
  <2>2. \A i \in 1..Len(jobs') : jobs'[i] \notin busy'
    BY <1>0, <1>3, <1>4, <1>12 DEF Detecting
  <2>3. head \notin busy
    BY <1>0, <1>4 DEF Detecting
  <2>4. \A k \in Asked' : k \in asked' /\ result'[k] = "unknown"
    <3>1. CASE UNCHANGED result
      BY <1>0, <1>2, <1>12, <3>1 DEF Detecting
    <3>2. CASE busy' = busy
      <4>1. head \notin Asked'
        BY <1>12, <2>3, <3>2 DEF Asked
      <4> QED
        BY <1>0, <1>2, <1>7, <1>12, <4>1 DEF Detecting
    <3> QED
      BY <1>3, <3>1, <3>2
  <2>5. \A k \in Key : result'[k] = "cancelled" => Cancelled'
    BY <1>0, <1>3, <1>7, <1>13 DEF Detecting
  <2>6. \A k \in Key : Kind[k] = "dir" => result'[k] \in {"unknown", "unreadable"}
    BY <1>0, <1>6, <1>7 DEF Detecting
  <2>7. \A k \in walk' : Kind[k] = "file" => result'[k] = "unknown"
    BY <1>0, <1>2, <1>7, <1>13 DEF Detecting
  <2>8. walker' = "job" => at' \notin asked' /\ Kind[at'] = "file" /\ result'[at'] = "unknown"
    <3>1. walker = "job" => at \in Key /\ at \notin asked /\ Kind[at] = "file" /\ result[at] = "unknown"
      BY <1>0 DEF Coming, Detecting, InOrder, Held
    <3>2. walker = "job" => at # head
      BY <1>6, <3>1
    <3> QED
      BY <1>2, <1>7, <3>1, <3>2
  <2> QED
    BY <1>0, <1>2, <2>1, <2>2, <2>4, <2>5, <2>6, <2>7, <2>8 DEF Detecting
<1>15. Inspected'
  <2>1. (Waiting' <=> Waiting) /\ Queued' = Queued /\ Queued \subseteq Key
    BY <1>2 DEF Waiting, Queued
  <2>2. \A k \in Key : k \in asked \/ result[k] \in {"ok", "unreadable"} =>
                       k \in asked' \/ result'[k] \in {"ok", "unreadable"}
    BY <1>2, <1>6, <1>7
  <2>3. \A k \in Key : result[k] \in {"ok", "unreadable"} => result'[k] \in {"ok", "unreadable"}
    BY <1>6, <1>7
  <2>4. (walker = "queue" => at \in Key) /\ (Waiting => item \in Key)
    BY <1>0 DEF Coming, InOrder, Held
  <2> QED
    BY <1>0, <1>2, <2>1, <2>2, <2>3, <2>4, Zenon DEF Inspected, Waiting
<1> QED
  BY <1>0, <1>1, <1>8, <1>10, <1>11, <1>14, <1>15 DEF Piped

(* A worker has inspected its entry.                                       *)
LEMMA WorkerDoneKeeps == ASSUME ScanInv, WorkerDone PROVE ScanInv'
<1> USE DEF ScanInv, PipeInv, PipeShapes
<1>0. pc = "pipe" /\ pc' = pc /\ InOrder /\ Covered /\ Detecting /\ Inspected
  BY DEF WorkerDone, Piped
<1>1. OutInv'
  BY OutIdle DEF WorkerDone, writing, history
<1>2. /\ UNCHANGED <<walk, at, walker, asked, jobs, order, writer, item, user,
                     cursor, reg, stats, unread, unlisted>>
  BY DEF WorkerDone, writing, walking, progress, history, output
<1>3. PICK k \in busy :
        /\ busy' = busy \ {k}
        /\ \/ result' = [result EXCEPT ![k] = "ok"]
           \/ result' = [result EXCEPT ![k] = "unreadable"]
  BY DEF WorkerDone
<1>4. k \in Asked /\ k \in Key
  BY DEF Asked
<1>5. Kind[k] = "file" /\ result[k] = "unknown" /\ k \in asked
  BY <1>0, <1>4 DEF Detecting
<1>6. /\ result' \in [Key -> Results] /\ \A j \in Key : j # k => result'[j] = result[j]
      /\ result'[k] \in {"ok", "unreadable"}
  BY <1>3, <1>4 DEF Results
<1>7. PipeShapes'
  BY <1>2, <1>3, <1>6
<1>8. \A j : Pending(j)' <=> Pending(j)
  BY <1>2 DEF Pending, Held, Waiting, Queued
<1>9. InOrder'
  <2>1. (Held' <=> Held) /\ (Waiting' <=> Waiting) /\ Queued' = Queued /\ (Closed' <=> Closed)
    BY <1>2 DEF Held, Waiting, Queued, Closed
  <2>2. \A j \in Key : Pending(j)' => Coming(j)'
    BY <1>0, <1>2, <1>5, <1>6, <1>8 DEF Coming, InOrder
  <2> QED
    BY <1>0, <1>2, <2>1, <2>2 DEF Coming, InOrder
<1>10. Covered'
  <2>1. \A j \in Key : \A d \in Above[j] : d \in Key /\ Kind[d] = "dir"
    BY ScanAssumption
  <2>2. \A j \in Key : Ahead(j) => Ahead(j)'
    BY <1>2, <1>5, <1>6, <1>8, <2>1 DEF Ahead
  <2>3. CASE writer = "failed"
    BY <1>2, <2>3 DEF Covered
  <2> QED
    BY <1>0, <1>2, <2>2, <2>3, CoveredKept
<1>11. Asked' \subseteq Asked /\ k \notin Asked'
  BY <1>0, <1>2, <1>3 DEF Asked, Detecting
<1>12. (Cancelled' <=> Cancelled) /\ k \notin walk
  BY <1>0, <1>2, <1>5 DEF Cancelled, Detecting
<1>13. Detecting'
  <2>1. /\ \A i, j \in 1..Len(jobs') : i # j => jobs'[i] # jobs'[j]
        /\ \A i \in 1..Len(jobs') : jobs'[i] \notin busy'
    BY <1>0, <1>2, <1>3 DEF Detecting
  <2>2. \A j \in Asked' : j \in asked' /\ result'[j] = "unknown"
    <3>1. \A j \in Asked' : j \in Asked /\ j \in Key /\ j # k
      BY <1>11 DEF Asked
    <3> QED
      BY <1>0, <1>2, <1>6, <3>1 DEF Detecting
  <2>3. \A j \in Key : result'[j] = "cancelled" => Cancelled'
    BY <1>0, <1>6, <1>12 DEF Detecting
  <2>4. \A j \in Key : Kind[j] = "dir" => result'[j] \in {"unknown", "unreadable"}
    BY <1>0, <1>5, <1>6 DEF Detecting
  <2>5. \A j \in walk' : Kind[j] = "file" => result'[j] = "unknown"
    BY <1>0, <1>2, <1>6, <1>12 DEF Detecting
  <2>6. walker' = "job" => at' \notin asked' /\ Kind[at'] = "file" /\ result'[at'] = "unknown"
    <3>1. walker = "job" => at \in Key /\ at \notin asked /\ Kind[at] = "file" /\ result[at] = "unknown"
      BY <1>0 DEF Coming, Detecting, InOrder, Held
    <3>2. walker = "job" => at # k
      BY <1>5, <3>1
    <3> QED
      BY <1>2, <1>6, <3>1, <3>2
  <2> QED
    BY <1>0, <1>2, <2>1, <2>2, <2>3, <2>4, <2>5, <2>6 DEF Detecting
<1>14. Inspected'
  <2>1. (Waiting' <=> Waiting) /\ Queued' = Queued /\ Queued \subseteq Key
    BY <1>2 DEF Waiting, Queued
  <2>2. \A j \in Key : j \in asked \/ result[j] \in {"ok", "unreadable"} =>
                       j \in asked' \/ result'[j] \in {"ok", "unreadable"}
    BY <1>2, <1>6
  <2>3. \A j \in Key : result[j] \in {"ok", "unreadable"} => result'[j] \in {"ok", "unreadable"}
    BY <1>6
  <2>4. (walker = "queue" => at \in Key) /\ (Waiting => item \in Key)
    BY <1>0 DEF Coming, InOrder, Held
  <2> QED
    BY <1>0, <1>2, <2>1, <2>2, <2>3, <2>4, Zenon DEF Inspected, Waiting
<1> QED
  BY <1>0, <1>1, <1>7, <1>9, <1>10, <1>13, <1>14 DEF Piped

(* The writer takes an entry, or finds the channel closed and drained.     *)
LEMMA WriterTakeKeeps == ASSUME ScanInv, WriterTake PROVE ScanInv'
<1> USE DEF ScanInv, PipeInv, PipeShapes
<1>0. pc = "pipe" /\ writer = "take" /\ pc' = pc /\ InOrder /\ Covered /\ Detecting /\ Inspected
  BY DEF WriterTake, Piped
<1>1. OutInv'
  BY <1>0, OutIdle DEF WriterTake, history
<1>2. /\ UNCHANGED <<walk, at, walker, asked, jobs, busy, result, user, cursor, reg, stats, unread, unlisted>>
      /\ ~Waiting
  BY <1>0 DEF WriterTake, working, walking, progress, history, output, Waiting
<1>3. Asked' = Asked /\ (Held' <=> Held) /\ (Closed' <=> Closed)
  BY <1>2 DEF Asked, Held, Closed
<1>4. ASSUME writer' \in {"ok", "wait"} PROVE Detecting' /\ (Cancelled' <=> Cancelled)
  BY <1>0, <1>2, <1>3, <1>4 DEF Detecting, Cancelled
<1>5. CASE order # <<>> /\ item' = Head(order) /\ order' = Tail(order) /\ writer' = "wait"
  <2>1. /\ Queued = Queued' \cup {item'} /\ item' \in Key /\ item' = order[1] /\ 1 \in 1..Len(order)
        /\ \A i \in 1..Len(order') : order'[i] = order[i + 1] /\ i + 1 \in 1..Len(order) /\ 1 < i + 1
    BY <1>5, QueuedTail
  <2>2. PipeShapes'
    <3>1. order' \in Seq(Key)
      BY <1>5
    <3> QED
      BY <1>2, <2>1, <3>1 DEF Key
  <2>3. Waiting'
    BY <1>5 DEF Waiting
  <2>4. \A k : Pending(k)' <=> Pending(k)
    BY <1>2, <1>3, <2>1, <2>3 DEF Pending
  <2>5. InOrder'
    <3>1. \A i, j \in 1..Len(order') : i < j => order'[i] < order'[j]
      <4> SUFFICES ASSUME NEW i \in 1..Len(order'), NEW j \in 1..Len(order'), i < j
                   PROVE  order'[i] < order'[j]
        OBVIOUS
      <4>1. i + 1 < j + 1
        OBVIOUS
      <4> QED
        BY <1>0, <2>1, <4>1 DEF Coming, InOrder
    <3>2. \A k \in Queued' : item' < k
      <4>1. \A i \in 1..Len(order') : order[1] < order[i + 1]
        BY <1>0, <2>1 DEF Coming, InOrder
      <4> QED
        BY <2>1, <4>1 DEF Queued
    <3>3. \A k \in Queued : k <= at' /\ (Held' => k < at')
      BY <1>0, <1>2, <1>3 DEF Coming, InOrder
    <3>4. item' <= at' /\ (Held' => item' < at')
      BY <2>1, <3>3
    <3>5. \A k \in Key : Pending(k)' => Coming(k)'
      BY <1>0, <1>2, <2>4 DEF Coming, InOrder
    <3>6. writer' # "ok"
      BY <1>5
    <3> QED
      BY <1>0, <1>2, <1>3, <2>1, <2>3, <3>1, <3>2, <3>3, <3>4, <3>5, <3>6 DEF Coming, InOrder
  <2>6. Covered'
    <3>1. \A k \in Key : Ahead(k) => Ahead(k)'
      BY <1>2, <2>4 DEF Ahead
    <3> QED
      BY <1>0, <1>2, <3>1, CoveredKept
  <2>7. Inspected'
    <3>1. \A k \in Queued : Kind[k] = "file" => k \in asked \/ result[k] \in {"ok", "unreadable"}
      BY <1>0 DEF Inspected
    <3> QED
      BY <1>0, <1>2, <1>5, <2>1, <3>1 DEF Inspected
  <2> QED
    BY <1>0, <1>1, <1>4, <1>5, <2>2, <2>5, <2>6, <2>7 DEF Piped
<1>6. CASE order = <<>> /\ Closed /\ writer' = "ok" /\ UNCHANGED <<item, order>>
  <2>1. Queued' = Queued /\ ~Waiting' /\ PipeShapes'
    BY <1>2, <1>6 DEF Queued, Waiting
  <2>2. \A k : Pending(k)' <=> Pending(k)
    BY <1>2, <1>3, <2>1 DEF Pending
  <2>3. InOrder'
    BY <1>0, <1>2, <1>3, <1>6, <2>1, <2>2 DEF Coming, InOrder
  <2>4. Covered'
    <3>1. \A k \in Key : Ahead(k) => Ahead(k)'
      BY <1>2, <2>2 DEF Ahead
    <3> QED
      BY <1>0, <1>2, <3>1, CoveredKept
  <2>5. Inspected'
    BY <1>0, <1>2, <1>6, <2>1 DEF Inspected
  <2> QED
    BY <1>0, <1>1, <1>4, <1>6, <2>1, <2>3, <2>4, <2>5 DEF Piped
<1> QED
  BY <1>5, <1>6 DEF WriterTake

(* The writer has the result of its entry: it is a result, not a           *)
(* cancellation.                                                           *)
LEMMA WriterWaitKeeps == ASSUME ScanInv, WriterWait PROVE ScanInv'
<1> USE DEF ScanInv, PipeInv, PipeShapes
<1>0. pc = "pipe" /\ writer = "wait" /\ pc' = pc /\ InOrder /\ Covered /\ Detecting /\ Inspected /\ Detected
  BY DEF WriterWait, Piped
<1>1. OutInv'
  BY <1>0, OutIdle DEF WriterWait, history
<1>2. /\ UNCHANGED <<walk, at, walker, asked, jobs, busy, result, order, item, user,
                     cursor, reg, stats, unread, unlisted>>
      /\ Waiting
  BY <1>0 DEF WriterWait, working, walking, progress, history, output, Waiting
<1>3. Asked' = Asked /\ (Held' <=> Held) /\ (Closed' <=> Closed) /\ Queued' = Queued
  BY <1>2 DEF Asked, Held, Closed, Queued
<1>4. writer' = "failed" \/ (writer' = "write" /\ ~Cancelled)
  BY DEF WriterWait
<1>5. Cancelled => Cancelled'
  BY <1>2, <1>4 DEF Cancelled
<1>6. Detecting' /\ PipeShapes'
  BY <1>0, <1>2, <1>3, <1>5 DEF Detecting
<1>7. CASE writer' = "failed"
  <2>1. ~Waiting'
    BY <1>7 DEF Waiting
  <2>2. \A k : Pending(k)' => Pending(k)
    BY <1>2, <1>3, <2>1 DEF Pending
  <2>3. InOrder'
    BY <1>0, <1>2, <1>3, <1>7, <2>1, <2>2 DEF Coming, InOrder
  <2>4. Covered' /\ Inspected'
    BY <1>0, <1>2, <1>3, <1>7, <2>1 DEF Covered, Inspected
  <2> QED
    BY <1>0, <1>1, <1>6, <2>3, <2>4 DEF Piped
<1>8. CASE writer' = "write" /\ ~Cancelled
  <2>1. Waiting'
    BY <1>8 DEF Waiting
  <2>2. \A k : Pending(k)' <=> Pending(k)
    BY <1>2, <1>3, <2>1 DEF Pending
  <2>3. InOrder'
    BY <1>0, <1>2, <1>3, <1>8, <2>1, <2>2 DEF Coming, InOrder
  <2>4. Covered'
    <3>1. \A k \in Key : Ahead(k) => Ahead(k)'
      BY <1>2, <2>2 DEF Ahead
    <3> QED
      BY <1>0, <1>2, <3>1, CoveredKept
  <2>5. item \in Key
    BY <1>0, <1>2 DEF Coming, InOrder
  <2>6. result[item] # "cancelled" /\ result[item] \in Results
    BY <1>0, <1>8, <2>5 DEF Detecting
  <2>7. Kind[item] = "file" => result[item] \in {"ok", "unreadable"}
    BY <1>0, <1>2, <2>6 DEF Inspected, Detected, Results
  <2>8. Inspected'
    BY <1>0, <1>2, <1>3, <2>1, <2>7 DEF Inspected
  <2> QED
    BY <1>0, <1>1, <1>6, <2>3, <2>4, <2>8 DEF Piped
<1> QED
  BY <1>4, <1>7, <1>8

(* A step of the writer that leaves its entry, or of the environment.      *)
LEMMA WriterIdle ==
    ASSUME ScanInv, pc = "pipe", pc' = pc, OutInv',
           UNCHANGED <<walk, at, walker, asked, jobs, busy, result, order, item,
                       cursor, reg, stats, unread, unlisted>>,
           \/ writer' = writer /\ (user' = user \/ user')
           \/ /\ ~Waiting /\ writer \notin {"ok", "failed"} /\ user' = user
              /\ writer' \in {"take", "sync", "checkpoint", "failed"}
    PROVE  ScanInv'
<1> USE DEF ScanInv, PipeInv, PipeShapes
<1>0. InOrder /\ Covered /\ Detecting /\ Inspected
  BY DEF Piped
<1>1. Asked' = Asked /\ (Held' <=> Held) /\ (Closed' <=> Closed) /\ Queued' = Queued
  BY DEF Asked, Held, Closed, Queued
<1>2. (Waiting' <=> Waiting) /\ (Cancelled => Cancelled')
  BY DEF Waiting, Cancelled
<1>3. \A k : Pending(k)' <=> Pending(k)
  BY <1>1, <1>2 DEF Pending
<1>4. PipeShapes' /\ Detecting'
  BY <1>0, <1>1, <1>2 DEF Detecting
<1>5. InOrder'
  BY <1>0, <1>1, <1>2, <1>3 DEF Coming, InOrder
<1>6. Inspected'
  BY <1>0, <1>1, <1>2 DEF Inspected, Waiting
<1>7. Covered'
  <2>1. \A k \in Key : Ahead(k) => Ahead(k)'
    BY <1>3 DEF Ahead
  <2>2. CASE writer = "failed"
    BY <2>2 DEF Covered
  <2> QED
    BY <1>0, <2>1, <2>2, CoveredKept
<1> QED
  BY <1>0, <1>4, <1>5, <1>6, <1>7 DEF Piped

(* A checkpoint is due or not.                                             *)
LEMMA WriterAdvanceKeeps == ASSUME ScanInv, WriterAdvance PROVE ScanInv'
<1>1. OutInv'
  BY OutIdle DEF WriterAdvance, history, ScanInv
<1> QED
  BY <1>1, WriterIdle DEF WriterAdvance, walking, working, progress, output, history, Waiting

(* The user cancels.                                                       *)
LEMMA CancelKeeps == ASSUME ScanInv, Cancel PROVE ScanInv'
<1>1. OutInv'
  BY OutIdle DEF Cancel, history, pipeline, writing, ScanInv
<1> QED
  BY <1>1, WriterIdle DEF Cancel, pipeline, writing, walking, working, progress, output, history, Waiting

(* What is lost or damaged is beyond what the checkpoints name.            *)
LEMMA Damaged ==
    ASSUME OutInv, Damage
    PROVE  /\ reg' \in Seq(0..Last) /\ cand' \in Seq(Key)
           /\ regSynced' = regSynced /\ candSynced' = candSynced
           /\ regSynced \in 0..Len(reg') /\ candSynced \in 0..Len(cand')
           /\ Sound(disk, reg', cand', unread, unlisted)
           /\ pc # "down" => Sound(cp, reg', cand', unread, unlisted)
           /\ reg' # <<>> => reg'[1] = 0
<1> USE DEF OutInv, OutShapes
<1>1. PICK n \in regSynced..Len(reg) : reg' = Prefix(reg, n)
  BY DEF Damage
<1>2. PICK m \in candSynced..Len(cand) : cand' = Prefix(cand, m)
  BY DEF Damage
<1>3. n \in 0..Len(reg) /\ m \in 0..Len(cand) /\ Len(reg) \in Nat /\ Len(cand) \in Nat
  OBVIOUS
<1>4. /\ reg' \in Seq(0..Last) /\ Len(reg') = n /\ \A i \in 1..n : reg'[i] = reg[i]
      /\ cand' \in Seq(Key) /\ Len(cand') = m
  BY <1>1, <1>2, <1>3, PrefixFacts
<1>5. regSynced \in 0..n /\ candSynced \in 0..m /\ UNCHANGED <<regSynced, candSynced>>
  BY <1>3 DEF Damage
<1>6. Sound(disk, reg', cand', unread, unlisted)
  BY <1>1, <1>2, <1>3, SoundCut DEF Stored
<1>7. pc # "down" => Sound(cp, reg', cand', unread, unlisted)
  BY <1>1, <1>2, <1>3, SoundCut DEF Stored
<1>8. reg' # <<>> => reg'[1] = 0
  <2> SUFFICES ASSUME reg' # <<>> PROVE reg'[1] = 0
    OBVIOUS
  <2>1. n # 0 /\ reg # <<>>
    BY <1>3, <1>4
  <2> QED
    BY <1>3, <1>4, <2>1 DEF Stored
<1> QED
  BY <1>4, <1>5, <1>6, <1>7, <1>8

(* A failing write damages only what no checkpoint names.                  *)
LEMMA FailingWrite ==
    ASSUME OutInv, WriteFails, UNCHANGED <<registry, disk, cp>>, pc \in {"pipe", "rest"},
           pc' \in {"fail", "final"} \/ (pc' = "pipe" /\ pc = "pipe" /\ writer' = "failed")
    PROVE  OutInv'
<1> USE DEF OutInv, OutShapes
<1>1. /\ UNCHANGED <<cursor, stats, kept, unread, unlisted, final, version, stamped>> /\ ~healthy' /\ Damage
  BY DEF WriteFails, progress, history, registry
<1>2. OutShapes'
  BY <1>1, Damaged
<1>3. Within(cp)' /\ Within(disk)'
  BY <1>1, Damaged DEF Stored, Growing, Within
<1>4. Stored'
  BY <1>1, <1>3, Damaged DEF Stored, Growing
<1>5. Live'
  BY <1>1 DEF Live
<1>6. Whole'
  BY <1>1 DEF Whole
<1> QED
  BY <1>2, <1>4, <1>5, <1>6

(* The next preserved row.                                                 *)
LEMMA NextKept ==
    ASSUME NoReborn, OutInv, pc \in {"pipe", "rest"}, healthy, kept # {}, NEW k, k = First(kept),
           \A j \in Key : Kind[j] = "file" /\ cursor < j /\ j <= k => Acc(j)
    PROVE  /\ k \in Key /\ k \in Moved /\ k > cursor /\ \A j \in kept : k <= j
           /\ \A j \in Key : cursor < j /\ j < k => Acc(j)
           /\ Kind[k] = "file" => Above[k] \cap ((unread \cap stats.skipped) \cup unlisted) # {}
<1> USE DEF OutInv, OutShapes
<1>1. k \in kept /\ \A j \in kept : k <= j
  BY FirstLeast
<1>2. k \in Key /\ k \in Moved /\ k > cursor
  BY <1>1 DEF Live
<1>3. ASSUME NEW j \in Key, cursor < j, j < k PROVE Acc(j)
  <2>1. CASE Kind[j] = "file"
    BY <1>2, <1>3, <2>1 DEF Key
  <2>2. CASE Kind[j] # "file"
    <3>1. ~(j \in kept)
      BY <1>1, <1>2, <1>3 DEF Key
    <3>2. ~(j \in Moved /\ Kind[j] = "absent")
      BY <1>3, <3>1 DEF Live
    <3>3. ~Due(j)
      BY <2>2, <3>2 DEF Due, NoReborn
    <3> QED
      BY <3>3 DEF Acc, Accounted
  <2> QED
    BY <2>1, <2>2
<1>4. ASSUME Kind[k] = "file" PROVE Above[k] \cap ((unread \cap stats.skipped) \cup unlisted) # {}
  <2>1. Acc(k)
    BY <1>2, <1>4 DEF Key
  <2>2. Rows(reg) \subseteq 1..cursor /\ stats.skipped \subseteq 1..cursor
    BY DEF Live, Fits
  <2>3. k \notin 1..cursor
    BY <1>2 DEF Key
  <2>4. k \notin Rows(reg) /\ k \notin stats.skipped
    BY <2>2, <2>3
  <2> QED
    BY <1>4, <2>1, <2>4 DEF Acc, Accounted, Due
<1> QED
  BY <1>1, <1>2, <1>3, <1>4

(* The output with one more row.                                           *)
LEMMA RowShapes ==
    ASSUME OutInv, NEW k \in Key, WriteRow(k), stats' = [stats EXCEPT !.rows = @ + 1],
           UNCHANGED <<regSynced, candSynced>>, cand' = cand \/ cand' = Append(cand, k),
           healthy, pc \in {"pipe", "rest"}
    PROVE  /\ reg' \in Seq(0..Last) /\ cand' \in Seq(Key) /\ stats' \in StatsOf
           /\ regSynced' \in 0..Len(reg') /\ candSynced' \in 0..Len(cand')
           /\ reg' # <<>> /\ reg'[1] = 0 /\ Rows(reg') = Rows(reg) \cup {k}
           /\ Sound(disk, reg', cand', unread, unlisted) /\ Sound(cp, reg', cand', unread, unlisted)
           /\ stats'.skipped = stats.skipped
<1> USE DEF OutInv, OutShapes
<1>1. reg' = Append(reg, k) /\ k \in 0..Last /\ k # 0
  BY ScanAssumption DEF WriteRow, Key
<1>2. reg' \in Seq(0..Last) /\ Len(reg') = Len(reg) + 1 /\ Len(reg) \in Nat
  BY <1>1
<1>3. cand' \in Seq(Key) /\ Len(cand') >= Len(cand) /\ Len(cand) \in Nat /\ Len(cand') \in Nat
  <2>1. CASE cand' = cand
    BY <2>1
  <2>2. CASE cand' = Append(cand, k)
    BY <2>2
  <2> QED
    BY <2>1, <2>2
<1>4. stats' \in StatsOf /\ stats'.skipped = stats.skipped
  BY DEF StatsOf
<1>5. regSynced' \in 0..Len(reg') /\ candSynced' \in 0..Len(cand')
  BY <1>2, <1>3
<1>6. reg # <<>> /\ reg[1] = 0
  BY DEF Stored, Growing
<1>7. reg' # <<>> /\ reg'[1] = 0
  BY <1>1, <1>6
<1>8. Rows(reg') = Rows(reg) \cup {k}
  <2>1. reg \in Seq(0..Last)
    OBVIOUS
  <2> QED
    <3>1. Rows(Append(reg, k)) = Rows(reg) \cup {k}
      BY <2>1, RowsAppend
    <3> QED
      BY <1>1, <3>1
<1>9. Within(cp) /\ Within(disk)
  BY DEF Stored, Growing
<1>10. cp.roff <= Len(reg) /\ cp.coff <= Len(cand) /\ disk.roff <= Len(reg) /\ disk.coff <= Len(cand)
  BY <1>2, <1>3, <1>9 DEF Within, CpOf
<1>11. Sound(disk, reg', cand', unread, unlisted)
  BY <1>1, <1>10, SoundAppend DEF Stored
<1>12. Sound(cp, reg', cand', unread, unlisted)
  BY <1>1, <1>10, SoundAppend DEF Stored
<1> QED
  BY <1>2, <1>3, <1>4, <1>5, <1>7, <1>8, <1>11, <1>12

(* What is accounted for stays so.                                         *)
LEMMA AccGrows ==
    ASSUME Rows(reg) \subseteq Rows(reg'), stats.skipped \subseteq stats'.skipped,
           unread \subseteq unread', unlisted \subseteq unlisted'
    PROVE  \A k : Acc(k) => Acc(k)'
BY AccountedGrows DEF Acc

(* The output with the next preserved row.                                 *)
LEMMA Preserved ==
    ASSUME NoReborn, OutInv, pc \in {"pipe", "rest"}, healthy, kept # {}, WritePreserved,
           UNCHANGED <<registry, disk, cp, pc>>, writer' = writer,
           \A j \in Key : Kind[j] = "file" /\ cursor < j /\ j <= First(kept) => Acc(j)
    PROVE  OutInv' /\ \A j : Acc(j) => Acc(j)'
<1> USE DEF OutInv, OutShapes
<1> DEFINE k == First(kept)
<1>1. /\ k \in Key /\ k \in Moved /\ k > cursor /\ \A j \in kept : k <= j
      /\ \A j \in Key : cursor < j /\ j < k => Acc(j)
      /\ Kind[k] = "file" => Above[k] \cap ((unread \cap stats.skipped) \cup unlisted) # {}
  BY NextKept
<1>2. /\ WriteRow(k) /\ cursor' = k /\ kept' = kept \ {k} /\ stats' = [stats EXCEPT !.rows = @ + 1]
      /\ UNCHANGED <<regSynced, cand, candSynced, unread, unlisted, healthy, final, version, stamped>>
  BY DEF WritePreserved, registry
<1> HIDE DEF k
<1>3. /\ reg' \in Seq(0..Last) /\ stats' \in StatsOf
      /\ regSynced' \in 0..Len(reg') /\ candSynced' \in 0..Len(cand')
      /\ reg' # <<>> /\ reg'[1] = 0 /\ Rows(reg') = Rows(reg) \cup {k}
      /\ Sound(disk, reg', cand', unread, unlisted) /\ Sound(cp, reg', cand', unread, unlisted)
      /\ stats'.skipped = stats.skipped
  BY <1>1, <1>2, RowShapes
<1>4. OutShapes'
  BY <1>1, <1>2, <1>3, ScanAssumption DEF Key
<1>5. Within(cp)' /\ Within(disk)'
  BY <1>2 DEF Stored, Growing, Within
<1>6. Stored'
  BY <1>2, <1>3, <1>5 DEF Stored, Growing
<1>7. Fits(Rows(reg'), Rows(cand), k, stats', unread, unlisted)
  <2>1. Fits(Rows(reg), Rows(cand), cursor, stats, unread, unlisted)
    BY DEF Live
  <2>2. \A j \in Key : cursor < j /\ j < k => Accounted(j, Rows(reg), stats, unread, unlisted)
    BY <1>1 DEF Acc
  <2>3. cursor \in 0..Last /\ stats \in StatsOf
    OBVIOUS
  <2>4. Fits(Rows(reg) \cup {k}, Rows(cand), k, stats', unread, unlisted)
    BY <1>1, <1>2, <2>1, <2>2, <2>3, FitsRow
  <2> QED
    BY <1>3, <2>4
<1>8. Live'
  <2>1. \A j \in kept' : j \in Moved /\ j > cursor'
    BY <1>1, <1>2 DEF Live, Key
  <2>2. \A j \in Moved : j > cursor' /\ Kind[j] = "absent" => j \in kept'
    <3>1. Moved \subseteq Key
      BY ScanAssumption
    <3> QED
      BY <1>1, <1>2, <3>1 DEF Live, Key
  <2> QED
    BY <1>2, <1>7, <2>1, <2>2 DEF Live
<1>9. \A j : Acc(j) => Acc(j)'
  BY <1>2, <1>3, AccGrows
<1>10. Whole'
  BY <1>2, <1>9 DEF Whole
<1> QED
  BY <1>4, <1>6, <1>8, <1>9, <1>10

(* What is still to come is not before the writer's entry.                 *)
LEMMA Behind ==
    ASSUME InOrder, PipeShapes, Waiting
    PROVE  /\ item \in Key
           /\ \A k \in Key : Pending(k) => item <= k
           /\ \A k \in Key : Ahead(k) => item <= k
           /\ \A k \in Key : Pending(k) => k = item \/ item < k
<1> USE DEF PipeShapes
<1>1. item \in Key /\ item <= at /\ at \in 0..Last
  BY DEF Coming, InOrder
<1>2. \A k \in Key : Pending(k) => k = item \/ item < k
  <2> SUFFICES ASSUME NEW k \in Key, Pending(k) PROVE k = item \/ item < k
    OBVIOUS
  <2>1. CASE k \in walk
    BY <1>1, <2>1, ScanAssumption DEF Coming, InOrder, Key
  <2>2. CASE k \in Queued
    BY <2>2 DEF Coming, InOrder
  <2>3. CASE Held /\ k = at
    BY <2>3 DEF Coming, InOrder
  <2> QED
    BY <2>1, <2>2, <2>3 DEF Pending
<1>3. \A k \in Key : Pending(k) => item <= k
  BY <1>1, <1>2 DEF Key
<1>4. \A k \in Key : \A d \in Above[k] : d \in Key /\ d < k
  BY ScanAssumption
<1>5. \A k \in Key : Ahead(k) => item <= k
  BY <1>1, <1>3, <1>4, ScanAssumption DEF Ahead, Key
<1> QED
  BY <1>1, <1>2, <1>3, <1>5

(* A preserved row goes before the writer's entry.                         *)
LEMMA WriterMergeKeeps == ASSUME NoReborn, ScanInv, WriterMerge PROVE ScanInv'
<1> USE DEF ScanInv, PipeInv, PipeShapes
<1>0. /\ pc = "pipe" /\ pc' = pc /\ InOrder /\ Covered /\ Detecting /\ Inspected
      /\ writer = "write" /\ Before(item) # {} /\ Waiting
      /\ UNCHANGED <<registry, disk, cp, walk, walker, at, asked, jobs, busy, result, order, item, user>>
  BY DEF WriterMerge, Piped, Waiting, walking, working
<1>1. Asked' = Asked /\ (Held' <=> Held) /\ (Closed' <=> Closed) /\ Queued' = Queued
  BY <1>0 DEF Asked, Held, Closed, Queued
<1>2. /\ item \in Key
      /\ \A k \in Key : Pending(k) => item <= k
      /\ \A k \in Key : Ahead(k) => item <= k
  BY <1>0, Behind
<1>3. CASE WritePreserved /\ UNCHANGED writer
  <2>1. healthy /\ kept # {} /\ kept \subseteq Key
    BY <1>0 DEF OutInv, OutShapes, Live, Before
  <2>2. First(kept) \in kept /\ \A j \in kept : First(kept) <= j
    BY <2>1, FirstLeast
  <2>3. First(kept) < item
    <3>1. PICK m \in kept : m < item
      BY <1>0 DEF Before
    <3>2. First(kept) <= m /\ m \in Key /\ First(kept) \in Key
      BY <2>1, <2>2
    <3> QED
      BY <1>2, <3>1, <3>2 DEF Key
  <2>4. \A j \in Key : Kind[j] = "file" /\ cursor < j /\ j <= First(kept) => Acc(j)
    <3>1. \A j \in Key : j <= First(kept) => ~(item <= j)
      <4>1. First(kept) \in Nat /\ item \in Nat
        <5>1. First(kept) \in Key /\ item \in Key
          BY <1>2, <2>1, <2>2
        <5> QED
          BY <5>1 DEF Key
      <4> QED
        BY <2>3, <4>1 DEF Key
    <3>2. \A j \in Key : j <= First(kept) => ~Ahead(j)
      BY <1>2, <3>1
    <3>3. cursor \in 0..Last
      BY DEF OutInv, OutShapes
    <3> QED
      BY <1>0, <3>2, <3>3 DEF Covered, Key
  <2>5. OutInv' /\ \A j : Acc(j) => Acc(j)'
    BY <1>0, <1>3, <2>1, <2>4, Preserved
  <2>6. cursor' < item /\ cursor < cursor' /\ cursor' \in Key /\ cursor \in 0..Last
    <3>1. cursor' = First(kept) /\ cursor \in 0..Last
      BY <1>3 DEF WritePreserved, OutInv, OutShapes
    <3>2. \A j \in kept : j > cursor
      BY <1>0 DEF OutInv, Live
    <3> QED
      BY <2>1, <2>2, <2>3, <3>1, <3>2
  <2>7. Waiting' /\ \A k : Pending(k)' <=> Pending(k)
    BY <1>0, <1>1, <1>3 DEF Pending, Waiting
  <2>8. \A k \in Key : Pending(k)' => k > cursor'
    BY <1>2, <2>6, <2>7 DEF Key
  <2>9. InOrder'
    BY <1>0, <1>1, <1>3, <2>7, <2>8 DEF Coming, InOrder
  <2>10. \A k \in Key : Ahead(k) => Ahead(k)'
    BY <1>0, <2>7 DEF Ahead
  <2>11. Covered'
    BY <1>0, <1>3, <2>5, <2>6, <2>10, ScanAssumption DEF Covered, Key
  <2>12. Detecting' /\ Inspected'
    BY <1>0, <1>1, <1>3, <2>7 DEF Detecting, Inspected, Cancelled
  <2>13. PipeShapes'
    BY <1>0
  <2> QED
    BY <1>0, <2>5, <2>9, <2>11, <2>12, <2>13 DEF Piped
<1>4. CASE WriteFails /\ writer' = "failed"
  <2>1. OutInv'
    BY <1>0, <1>4, FailingWrite
  <2>2. ~Waiting' /\ \A k : Pending(k)' => Pending(k)
    BY <1>0, <1>1, <1>4 DEF Pending, Waiting
  <2>3. cursor' = cursor
    BY <1>4 DEF WriteFails, progress
  <2>4. InOrder'
    BY <1>0, <1>1, <1>4, <2>2, <2>3 DEF Coming, InOrder
  <2>5. Covered' /\ Detecting' /\ Inspected' /\ PipeShapes'
    BY <1>0, <1>1, <1>4, <2>2 DEF Covered, Detecting, Inspected, Cancelled
  <2> QED
    BY <1>0, <2>1, <2>4, <2>5 DEF Piped
<1> QED
  BY <1>3, <1>4 DEF WriterMerge

(* Everything between the cursor and the writer's entry is accounted for.  *)
LEMMA Between ==
    ASSUME NoReborn, OutInv, pc = "pipe", InOrder, PipeShapes, Waiting, Covered, writer # "failed",
           Before(item) = {}
    PROVE  \A j \in Key : cursor < j /\ j < item => Acc(j)
<1> USE DEF OutInv, OutShapes
<1> SUFFICES ASSUME NEW j \in Key, cursor < j, j < item PROVE Acc(j)
  OBVIOUS
<1>1. item \in Key /\ ~Ahead(j)
  <2>1. item \in Key /\ \A k \in Key : Ahead(k) => item <= k
    BY Behind
  <2>2. j \in Nat /\ item \in Nat
    BY <2>1 DEF Key
  <2> QED
    BY <2>1, <2>2
<1>2. CASE Kind[j] = "file"
  BY <1>1, <1>2 DEF Covered
<1>3. CASE Kind[j] # "file"
  <2>1. j \notin kept
    BY DEF Before
  <2>2. ~(j \in Moved /\ Kind[j] = "absent")
    BY <2>1 DEF Live
  <2>3. ~Due(j)
    BY <1>3, <2>2 DEF Due, NoReborn
  <2> QED
    BY <2>3 DEF Acc, Accounted
<1> QED
  BY <1>2, <1>3

(* The output after an entry that has a row.                               *)
LEMMA EntryRow ==
    ASSUME NoReborn, OutInv, pc = "pipe", healthy, item \in Key, item > cursor,
           \A j \in Key : cursor < j /\ j < item => Acc(j), Before(item) = {},
           Kind[item] = "file", WriteRow(item),
           cand' = IF item \in Payload THEN Append(cand, item) ELSE cand,
           stats' = [stats EXCEPT !.rows = @ + 1], kept' = kept \ {item}, cursor' = item,
           UNCHANGED <<regSynced, candSynced, healthy, unread, unlisted, registry, disk, cp, pc>>,
           writer' # "failed"
    PROVE  OutInv' /\ \A j : Acc(j) => Acc(j)'
<1> USE DEF OutInv, OutShapes
<1>1. cand' = cand \/ (cand' = Append(cand, item) /\ item \in Payload)
  OBVIOUS
<1>2. /\ reg' \in Seq(0..Last) /\ cand' \in Seq(Key) /\ stats' \in StatsOf
      /\ regSynced' \in 0..Len(reg') /\ candSynced' \in 0..Len(cand')
      /\ reg' # <<>> /\ reg'[1] = 0 /\ Rows(reg') = Rows(reg) \cup {item}
      /\ Sound(disk, reg', cand', unread, unlisted) /\ Sound(cp, reg', cand', unread, unlisted)
      /\ stats'.skipped = stats.skipped
  BY <1>1, RowShapes
<1>3. UNCHANGED <<final, version, stamped>>
  BY DEF registry
<1>4. OutShapes'
  BY <1>2, <1>3, ScanAssumption DEF Key
<1>5. Within(cp)' /\ Within(disk)'
  BY DEF Stored, Growing, Within
<1>6. Stored'
  BY <1>2, <1>5 DEF Stored, Growing
<1>7. /\ \/ Rows(cand') = Rows(cand)
         \/ Rows(cand') = Rows(cand) \cup {item} /\ Kind[item] = "file" /\ item \in Payload
      /\ item \in Payload => item \in Rows(cand')
  <2>1. CASE item \in Payload
    <3>1. cand \in Seq(0..Last)
      BY KeySeq
    <3>2. Rows(Append(cand, item)) = Rows(cand) \cup {item}
      BY <3>1, RowsAppend
    <3> QED
      BY <2>1, <3>2
  <2>2. CASE item \notin Payload
    BY <2>2
  <2> QED
    BY <2>1, <2>2
<1>8. Fits(Rows(reg'), Rows(cand'), item, stats', unread, unlisted)
  <2>1. Fits(Rows(reg), Rows(cand), cursor, stats, unread, unlisted)
    BY DEF Live
  <2>2. \A j \in Key : cursor < j /\ j < item => Accounted(j, Rows(reg), stats, unread, unlisted)
    BY DEF Acc
  <2>3. cursor \in 0..Last /\ stats \in StatsOf
    OBVIOUS
  <2>4. Fits(Rows(reg) \cup {item}, Rows(cand'), item, stats', unread, unlisted)
    BY <1>7, <2>1, <2>2, <2>3, FitsRow
  <2> QED
    BY <1>2, <2>4
<1>9. Live'
  <2>1. \A j \in kept' : j \in Moved /\ j > cursor'
    <3> SUFFICES ASSUME NEW j \in kept' PROVE j \in Moved /\ j > cursor'
      OBVIOUS
    <3>1. j \in kept /\ j \in Key /\ j # item /\ ~(j < item)
      BY DEF Before
    <3>2. j \in Moved
      BY <3>1 DEF Live
    <3> QED
      BY <3>1, <3>2 DEF Key
  <2>2. \A j \in Moved : j > cursor' /\ Kind[j] = "absent" => j \in kept'
    <3>1. Moved \subseteq Key
      BY ScanAssumption
    <3> QED
      BY <3>1 DEF Live, Key
  <2> QED
    BY <1>8, <2>1, <2>2 DEF Live
<1>10. \A j : Acc(j) => Acc(j)'
  BY <1>2, AccGrows
<1>11. Whole'
  BY <1>3, <1>10 DEF Whole
<1> QED
  BY <1>4, <1>6, <1>9, <1>10, <1>11

(* The output after an entry without a row.                                *)
LEMMA EntryPass ==
    ASSUME NoReborn, OutInv, pc = "pipe", healthy, item \in Key,
           \A j \in Key : cursor < j /\ j < item => Acc(j), Before(item) = {},
           UNCHANGED <<output, healthy, unlisted, registry, disk, cp, pc, item>>,
           stats' = stats \/ stats' = [stats EXCEPT !.skipped = @ \cup {item}],
           unread' = unread \/ unread' = unread \cup {item},
           item > cursor => Acc(item)',
           kept' = (IF Kind[item] = "dir" THEN kept ELSE kept \ {item}), cursor' = CursorAfter(item),
           Kind[item] # "absent", writer' # "failed"
    PROVE  OutInv' /\ \A j : Acc(j) => Acc(j)'
<1> USE DEF OutInv, OutShapes
<1>1. /\ UNCHANGED <<reg, regSynced, cand, candSynced, final, version, stamped>>
      /\ stats' \in StatsOf /\ stats.skipped \subseteq stats'.skipped
      /\ unread \subseteq unread'
      /\ kept' \subseteq kept
  BY DEF output, registry, StatsOf
<1>2. cursor' \in 0..Last /\ cursor' >= cursor /\ cursor' >= item /\ (cursor' = cursor \/ cursor' = item)
  BY ScanAssumption DEF CursorAfter, Key
<1>3. OutShapes'
  BY <1>1, <1>2
<1>4. Within(cp)' /\ Within(disk)'
  BY <1>1 DEF Stored, Growing, Within
<1>5. Stored'
  <2>1. Sound(disk, reg, cand, unread', unlisted) /\ Sound(cp, reg, cand, unread', unlisted)
    BY <1>1, SoundGrows DEF Stored
  <2> QED
    BY <1>1, <1>4, <2>1 DEF Stored, Growing
<1>6. Fits(Rows(reg), Rows(cand), cursor', stats', unread', unlisted)
  <2>1. Fits(Rows(reg), Rows(cand), cursor, stats, unread, unlisted)
    BY DEF Live
  <2>2. \A j \in Key : cursor < j /\ j < item => Accounted(j, Rows(reg), stats, unread, unlisted)
    BY DEF Acc
  <2>3. item > cursor => Accounted(item, Rows(reg), stats', unread', unlisted)
    BY <1>1 DEF Acc
  <2>4. cursor' = IF item > cursor THEN item ELSE cursor
    BY DEF CursorAfter
  <2>5. cursor \in 0..Last /\ stats \in StatsOf
    OBVIOUS
  <2> QED
    BY <1>1, <2>1, <2>2, <2>3, <2>4, <2>5, FitsPass
<1>7. Live'
  <2>1. \A j \in kept' : j \in Moved /\ j > cursor'
    <3> SUFFICES ASSUME NEW j \in kept' PROVE j \in Moved /\ j > cursor'
      OBVIOUS
    <3>1. j \in kept /\ j \in Key /\ ~(j < item)
      BY <1>1 DEF Before
    <3>2. j \in Moved /\ j > cursor
      BY <3>1 DEF Live
    <3>3. j # item
      BY <3>2 DEF NoReborn
    <3> QED
      BY <1>2, <3>1, <3>2, <3>3 DEF Key
  <2>2. \A j \in Moved : j > cursor' /\ Kind[j] = "absent" => j \in kept'
    <3>1. Moved \subseteq Key
      BY ScanAssumption
    <3>2. \A j \in Moved : j > cursor' => j > cursor /\ j # item
      BY <1>2, <3>1 DEF Key
    <3> QED
      BY <3>2 DEF Live
  <2> QED
    BY <1>1, <1>6, <2>1, <2>2 DEF Live
<1>8. \A j : Acc(j) => Acc(j)'
  BY <1>1, AccGrows
<1>9. Whole'
  <2>1. \A k : Accounted(k, Rows(final), disk.stats, unread, unlisted) =>
                Accounted(k, Rows(final), disk.stats, unread', unlisted)
    BY <1>1, AccountedGrows
  <2> QED
    BY <1>1, <1>8, <2>1 DEF Whole
<1> QED
  BY <1>3, <1>5, <1>7, <1>8, <1>9

(* The rest of the pipeline after an entry.                                *)
LEMMA EntryPipe ==
    ASSUME PipeInv, pc = "pipe", writer = "write", writer' = "advance", pc' = pc,
           UNCHANGED <<walk, walker, at, asked, jobs, busy, result, order, item, user>>,
           cursor \in 0..Last, cursor' = CursorAfter(item),
           \A k : Acc(k) => Acc(k)',
           Kind[item] = "dir" /\ result[item] = "unreadable" =>
               \A k \in Key : item \in Above[k] /\ Kind[k] = "file" => Acc(k)' 
    PROVE  PipeInv'
<1> USE DEF PipeInv, PipeShapes
<1>0. InOrder /\ Covered /\ Detecting /\ Inspected /\ Waiting /\ ~Waiting'
  BY DEF Piped, Waiting
<1>1. Asked' = Asked /\ (Held' <=> Held) /\ (Closed' <=> Closed) /\ Queued' = Queued
  BY DEF Asked, Held, Closed, Queued
<1>2. item \in Key /\ \A k \in Key : Pending(k) => k = item \/ item < k
  BY <1>0, Behind
<1>3. \A k : Pending(k)' => Pending(k)
  BY <1>0, <1>1 DEF Pending
<1>4. \A k : Pending(k) => Pending(k)' \/ k = item
  BY <1>0, <1>1 DEF Pending
<1>5. cursor' = cursor \/ cursor' = item
  BY DEF CursorAfter
<1>6. ~Pending(item)'
  <2>1. item \notin walk
    BY <1>0, <1>2, ScanAssumption DEF Coming, InOrder, Key
  <2>2. item \notin Queued
    BY <1>0, <1>2 DEF Coming, InOrder, Key
  <2>3. ~(Held /\ item = at)
    BY <1>0, <1>2 DEF Coming, InOrder, Key
  <2> QED
    BY <1>0, <1>1, <2>1, <2>2, <2>3 DEF Pending
<1>7. InOrder'
  <2>1. \A k \in Key : Pending(k)' => Coming(k)'
    <3> SUFFICES ASSUME NEW k \in Key, Pending(k)'
                 PROVE  Coming(k)'
      OBVIOUS
    <3>1. k # item /\ item < k
      BY <1>2, <1>3, <1>6 DEF Coming
    <3> QED
      BY <1>0, <1>3, <1>5, <3>1 DEF Coming, InOrder
  <2> QED
    BY <1>0, <1>1, <2>1 DEF Coming, InOrder
<1>8. Covered'
  <2> SUFFICES ASSUME NEW k \in Key, Kind[k] = "file", k > cursor' PROVE Acc(k)' \/ Ahead(k)'
    BY DEF Covered
  <2>1. k > cursor /\ k # item
    BY <1>2 DEF CursorAfter, Key
  <2>2. Acc(k) \/ Ahead(k)
    BY <1>0, <2>1 DEF Covered
  <2>3. CASE Pending(k)
    BY <1>4, <2>1, <2>3 DEF Ahead
  <2>4. CASE \E d \in Above[k] : Pending(d) /\ result[d] = "unreadable"
    <3>1. PICK d \in Above[k] : Pending(d) /\ result[d] = "unreadable"
      BY <2>4
    <3>2. Kind[d] = "dir"
      BY ScanAssumption
    <3>3. CASE d = item
      BY <3>1, <3>2, <3>3
    <3>4. CASE d # item
      BY <1>4, <3>1, <3>4 DEF Ahead
    <3> QED
      BY <3>3, <3>4
  <2>5. CASE walker = "stopped" /\ k >= at
    BY <2>5 DEF Ahead
  <2> QED
    BY <2>2, <2>3, <2>4, <2>5 DEF Ahead
<1>9. Detecting' /\ Inspected'
  BY <1>0, <1>1 DEF Detecting, Inspected, Cancelled
<1> QED
  BY <1>0, <1>7, <1>8, <1>9 DEF Piped

(* The writer's entry gets its row, or is skipped.                         *)
LEMMA WriterEntryKeeps == ASSUME NoReborn, ScanInv, WriterEntry PROVE ScanInv'
<1> USE DEF ScanInv
<1>0. /\ pc = "pipe" /\ pc' = pc /\ InOrder /\ Covered /\ Detecting /\ Inspected /\ PipeShapes
      /\ writer = "write" /\ Before(item) = {} /\ Waiting
      /\ UNCHANGED <<registry, disk, cp, walk, walker, at, asked, jobs, busy, result, order, item, user>>
  BY DEF WriterEntry, Piped, PipeInv, Waiting, walking, working
<1>1. CASE WriteEntry /\ writer' = "advance"
  <2>1. item \in Key
    BY <1>0 DEF Coming, InOrder
  <2>2. \A j \in Key : cursor < j /\ j < item => Acc(j)
    BY <1>0, Between
  <2>3. healthy /\ cursor \in 0..Last /\ stats \in StatsOf
    BY <1>0 DEF OutInv, Live, OutShapes
  <2>4. Pending(item)
    BY <1>0 DEF Pending
  <2>5. Kind[item] # "absent" /\ (item > cursor \/ (Kind[item] = "dir" /\ result[item] = "unreadable"))
    BY <1>0, <2>1, <2>4 DEF Coming, InOrder
  <2>6. /\ cursor' = CursorAfter(item)
        /\ UNCHANGED <<regSynced, candSynced, healthy, unlisted>>
        /\ kept' = IF Kind[item] = "dir" THEN kept ELSE kept \ {item}
    BY <1>1 DEF WriteEntry
  <2>7. Kind[item] = "file" => result[item] \in {"ok", "unreadable"}
    BY <1>0 DEF Inspected
  <2>8. CASE /\ Kind[item] = "file" /\ result[item] = "ok"
             /\ WriteRow(item)
             /\ cand' = IF item \in Payload THEN Append(cand, item) ELSE cand
             /\ stats' = [stats EXCEPT !.rows = @ + 1]
             /\ UNCHANGED unread
    <3>1. item > cursor /\ cursor' = item /\ kept' = kept \ {item} /\ writer' # "failed"
      BY <1>1, <2>5, <2>6, <2>8 DEF CursorAfter
    <3>2. UNCHANGED <<regSynced, candSynced, healthy, unread, unlisted, registry, disk, cp, pc>>
      BY <1>0, <2>6, <2>8
    <3>3. OutInv' /\ \A j : Acc(j) => Acc(j)'
      BY <1>0, <2>1, <2>2, <2>3, <2>8, <3>1, <3>2, EntryRow
    <3>4. PipeInv'
      BY <1>0, <1>1, <2>3, <2>6, <2>8, <3>3, EntryPipe
    <3> QED
      BY <3>3, <3>4
  <2>9. CASE /\ Kind[item] = "special" \/ result[item] \in {"unreadable", "cancelled"}
             /\ stats' = [stats EXCEPT !.skipped = @ \cup {item}]
             /\ unread' = IF result[item] = "unreadable" THEN unread \cup {item} ELSE unread
             /\ UNCHANGED <<reg, cand, sources>>
    <3>1. UNCHANGED <<output, healthy, unlisted, registry, disk, cp, pc, item>> /\ writer' # "failed"
      BY <1>0, <1>1, <2>6, <2>9 DEF output
    <3>2. unread' = unread \/ unread' = unread \cup {item}
      BY <2>9
    <3>3. item \in stats'.skipped
      BY <2>3, <2>9 DEF StatsOf
    <3>4. Kind[item] = "dir" => ~Due(item)
      BY <2>1 DEF Due, NoReborn
    <3>5. Kind[item] = "file" => item \in unread'
      BY <2>7, <2>9
    <3>6. Acc(item)'
      BY <1>0, <2>5, <3>3, <3>4, <3>5 DEF Acc, Accounted, Due
    <3>7. OutInv' /\ \A j : Acc(j) => Acc(j)'
      BY <1>0, <2>1, <2>2, <2>3, <2>5, <2>6, <2>9, <3>1, <3>2, <3>6, EntryPass
    <3>8. ASSUME Kind[item] = "dir", result[item] = "unreadable",
                 NEW k \in Key, item \in Above[k], Kind[k] = "file"
          PROVE  Acc(k)'
      <4>1. item \in unread'
        BY <2>9, <3>8
      <4> QED
        BY <3>3, <3>8, <4>1 DEF Acc, Accounted
    <3>9. PipeInv'
      BY <1>0, <1>1, <2>3, <2>6, <3>7, <3>8, EntryPipe
    <3> QED
      BY <3>7, <3>9
  <2>10. CASE /\ Kind[item] = "dir" /\ result[item] = "unknown"
              /\ UNCHANGED <<reg, cand, sources, stats, unread>>
    <3>1. UNCHANGED <<output, healthy, unlisted, registry, disk, cp, pc, item>> /\ writer' # "failed"
      BY <1>0, <1>1, <2>6, <2>10 DEF output
    <3>2. Acc(item)'
      BY <1>0, <2>1, <2>10 DEF Acc, Accounted, Due, NoReborn
    <3>3. OutInv' /\ \A j : Acc(j) => Acc(j)'
      BY <1>0, <2>1, <2>2, <2>3, <2>5, <2>6, <2>10, <3>1, <3>2, EntryPass
    <3>4. PipeInv'
      BY <1>0, <1>1, <2>3, <2>6, <2>10, <3>3, EntryPipe
    <3> QED
      BY <3>3, <3>4
  <2> QED
    BY <1>1, <2>8, <2>9, <2>10 DEF WriteEntry
<1>2. CASE WriteFails /\ writer' = "failed"
  <2> USE DEF PipeInv
  <2>0. Asked' = Asked /\ (Held' <=> Held) /\ (Closed' <=> Closed) /\ Queued' = Queued
    BY <1>0 DEF Asked, Held, Closed, Queued
  <2>1. OutInv'
    BY <1>0, <1>2, FailingWrite
  <2>2. ~Waiting' /\ \A k : Pending(k)' => Pending(k)
    BY <1>0, <1>2, <2>0 DEF Pending, Waiting
  <2>3. cursor' = cursor
    BY <1>2 DEF WriteFails, progress
  <2>4. InOrder'
    BY <1>0, <1>2, <2>0, <2>2, <2>3 DEF Coming, InOrder
  <2>5. Covered' /\ Detecting' /\ Inspected' /\ PipeShapes'
    BY <1>0, <1>2, <2>0, <2>2 DEF Covered, Detecting, Inspected, Cancelled, PipeShapes
  <2> QED
    BY <1>0, <2>1, <2>4, <2>5 DEF Piped
<1> QED
  BY <1>1, <1>2 DEF WriterEntry

(* A sync pairs the cursor with the output as it is.                       *)
LEMMA Syncing ==
    ASSUME OutInv, Sync, healthy,
           pc \in {"pipe", "rest", "fail"}, pc = "pipe" => writer # "failed",
           UNCHANGED <<final, version, disk, cursor, stats, kept, unread, unlisted>>
    PROVE  /\ OutShapes'
           /\ Sound(cp', reg', cand', unread, unlisted) /\ Sound(disk, reg', cand', unread, unlisted)
           /\ Within(cp)' /\ (Within(disk) => Within(disk)')
           /\ ~cp'.complete /\ cp'.stats = stats
           /\ UNCHANGED <<reg, cand>>
<1> USE DEF OutInv, OutShapes
<1>1. UNCHANGED <<reg, cand>> /\ cp' = Synced /\ regSynced' = Len(reg) /\ candSynced' = Len(cand)
  BY DEF Sync
<1>2. cp' \in CpOf
  <2>1. cp.complete \in BOOLEAN /\ cp.base \in Nat /\ Len(reg) \in Nat /\ Len(cand) \in Nat
    BY DEF CpOf
  <2> QED
    BY <1>1, <2>1 DEF CpOf, Synced, Checkpoint
<1>3. OutShapes'
  BY <1>1, <1>2
<1>4. Fits(Rows(reg), Rows(cand), cursor, stats, unread, unlisted)
  BY DEF Live
<1>5. reg # <<>> /\ reg[1] = 0
  BY DEF Stored, Growing, Live
<1>6. Sound(Synced, reg, cand, unread, unlisted)
  BY <1>4, <1>5, SoundNow DEF Synced
<1>7. Within(cp)'
  BY <1>1 DEF Within, Synced, Checkpoint
<1>8. Within(disk) => Within(disk)'
  <2>1. disk.roff \in Nat /\ disk.coff \in Nat
    BY DEF CpOf
  <2> QED
    BY <1>1, <2>1 DEF Within
<1>9. ~cp'.complete /\ cp'.stats = stats
  BY <1>1 DEF Synced, Checkpoint, Whole
<1> QED
  BY <1>1, <1>3, <1>6, <1>7, <1>8, <1>9 DEF Stored

(* The output is synced.                                                   *)
LEMMA WriterSyncKeeps == ASSUME ScanInv, WriterSync PROVE ScanInv'
<1> USE DEF ScanInv
<1>0. /\ pc = "pipe" /\ pc' = pc /\ writer = "sync" /\ ~Waiting
      /\ UNCHANGED <<registry, disk, progress, walk, walker, at, asked, jobs, busy, result, order,
                     item, user, unread, unlisted>>
  BY DEF WriterSync, Waiting, walking, working, history
<1>1. UNCHANGED <<final, version, stamped, cursor, stats, kept>>
  BY <1>0 DEF registry, progress
<1>2. writer' \in {"checkpoint", "failed"} /\ writer \notin {"ok", "failed"}
  BY <1>0 DEF WriterSync
<1>3. CASE Sync /\ UNCHANGED healthy
  <2>1. healthy
    BY <1>0 DEF OutInv, Live
  <2>2. /\ OutShapes'
        /\ Sound(cp', reg', cand', unread, unlisted) /\ Sound(disk, reg', cand', unread, unlisted)
        /\ Within(cp)' /\ (Within(disk) => Within(disk)')
        /\ ~cp'.complete /\ cp'.stats = stats
        /\ UNCHANGED <<reg, cand>>
    BY <1>0, <1>1, <1>3, <2>1, Syncing
  <2>3. Stored'
    BY <1>0, <1>1, <1>3, <2>2 DEF OutInv, Stored, Growing
  <2>4. Live'
    BY <1>0, <1>1, <1>3, <2>1, <2>2 DEF OutInv, Live
  <2>5. Whole'
    BY <1>0, <1>1, <2>2 DEF OutInv, Whole
  <2>6. OutInv'
    BY <2>2, <2>3, <2>4, <2>5 DEF OutInv
  <2> QED
    BY <1>0, <1>1, <1>2, <2>2, <2>6, WriterIdle
<1>4. CASE WriteFails /\ writer' = "failed" /\ UNCHANGED cp
  <2>1. OutInv'
    BY <1>0, <1>4, FailingWrite
  <2> USE DEF PipeInv
  <2>2. InOrder /\ Detecting /\ Inspected
    BY <1>0 DEF Piped
  <2>3. Asked' = Asked /\ (Held' <=> Held) /\ (Closed' <=> Closed) /\ Queued' = Queued
    BY <1>0 DEF Asked, Held, Closed, Queued
  <2>4. ~Waiting' /\ \A k : Pending(k)' => Pending(k)
    BY <1>0, <1>4, <2>3 DEF Pending, Waiting
  <2>5. InOrder'
    BY <1>0, <1>1, <1>4, <2>2, <2>3, <2>4 DEF Coming, InOrder
  <2>6. Covered' /\ Detecting' /\ Inspected' /\ PipeShapes'
    BY <1>0, <1>4, <2>2, <2>3, <2>4 DEF Covered, Detecting, Inspected, Cancelled, PipeShapes
  <2> QED
    BY <1>0, <2>1, <2>5, <2>6 DEF Piped
<1> QED
  BY <1>3, <1>4 DEF WriterSync

(* The checkpoint of the last sync is stored.                              *)
LEMMA WriterCheckpointKeeps == ASSUME ScanInv, WriterCheckpoint PROVE ScanInv'
<1> USE DEF ScanInv
<1>0. /\ pc = "pipe" /\ pc' = pc /\ writer = "checkpoint" /\ ~Waiting
      /\ writer' \in {"take", "failed"} /\ (disk' = cp \/ disk' = disk)
      /\ UNCHANGED <<output, registry, cp, progress, healthy, walk, walker, at, asked, jobs, busy,
                     result, order, item, user, unread, unlisted>>
  BY DEF WriterCheckpoint, Waiting, walking, working, history
<1>1. UNCHANGED <<final, version, stamped, cursor, stats, kept, reg, regSynced, cand, candSynced>>
  BY <1>0 DEF registry, progress, output
<1>2. OutInv'
  <2> USE DEF OutInv
  <2>1. OutShapes'
    BY <1>0, <1>1 DEF OutShapes
  <2>2. Within(cp)' /\ Within(disk)'
    BY <1>0, <1>1 DEF Stored, Growing, Within
  <2>3. Stored'
    BY <1>0, <1>1, <2>2 DEF Stored, Growing
  <2>4. Live'
    BY <1>0, <1>1 DEF Live
  <2>5. Whole'
    BY <1>0, <1>1 DEF Whole
  <2> QED
    BY <2>1, <2>3, <2>4, <2>5
<1> QED
  BY <1>0, <1>1, <1>2, WriterIdle
-----------------------------------------------------------------------------
(* Outside the pipeline its variables only have their shapes.              *)
LEMMA Away ==
    ASSUME PipeShapes, UNCHANGED pipeline, pc' # "pipe",
           pc' \in {"down", "open", "phase"} => Unstarted
    PROVE  PipeInv'
<1>1. UNCHANGED <<walk, walker, at, asked, jobs, busy, result, order, writer, item>>
  BY DEF pipeline, walking, working, writing
<1>2. PipeShapes'
  BY <1>1 DEF PipeShapes
<1>3. Piped'
  BY <1>1 DEF Piped, Unstarted
<1> QED
  BY <1>2, <1>3 DEF PipeInv

(* No goroutine outlives its process.                                      *)
LEMMA AtRest ==
    ASSUME Quiet, pc' # "pipe" PROVE PipeInv'
<1>1. PipeShapes'
  BY ScanAssumption DEF Quiet, PipeShapes, Results
<1> QED
  BY <1>1 DEF Quiet, PipeInv, Piped, Unstarted

(* A process starts from the stored checkpoint.                            *)
LEMMA StartKeeps == ASSUME ScanInv, Start PROVE ScanInv'
<1> USE DEF ScanInv, OutInv, Start, Goto
<1>1. /\ UNCHANGED <<final, version, stamped, cursor, stats, kept, reg, regSynced, cand, candSynced,
                     disk, unread, unlisted>>
      /\ pc = "down" /\ cp' = disk /\ healthy'
      /\ pc' \in {"finished", "open"} /\ (pc' = "open" => ~disk.complete)
  BY DEF registry, output, progress, history
<1>2. OutShapes'
  BY <1>1 DEF OutShapes
<1>3. Stored'
  BY <1>1 DEF Stored, Growing
<1>4. Live' /\ Whole'
  BY <1>1 DEF Live, Whole
<1>5. PipeInv'
  BY <1>1, Away DEF PipeInv, Piped
<1> QED
  BY <1>2, <1>3, <1>4, <1>5

(* The output is cut back to the offsets of the checkpoint.                *)
LEMMA OpenResumedKeeps == ASSUME ScanInv, OpenResumed PROVE ScanInv'
<1> USE DEF ScanInv, OutInv
<1>1. /\ UNCHANGED <<final, version, stamped, kept, disk, cp, healthy, unread, unlisted>>
      /\ pc = "open" /\ pc' = "phase" /\ Resumable /\ UNCHANGED pipeline
      /\ reg' = Prefix(reg, cp.roff) /\ cand' = Prefix(cand, cp.coff)
      /\ regSynced' = cp.roff /\ candSynced' = cp.coff
      /\ cursor' = cp.cursor /\ stats' = cp.stats
  BY DEF OpenResumed, registry, history, Goto
<1>2. cp \in CpOf /\ reg \in Seq(0..Last) /\ cand \in Seq(Key) /\ cp = disk /\ healthy
  BY <1>1 DEF OutShapes, Stored, Live
<1>3. cp.roff \in 1..Len(reg) /\ cp.coff \in 0..Len(cand) /\ cp.roff \in 0..Len(reg)
  BY <1>1, <1>2 DEF Resumable, CpOf
<1>4. /\ reg' \in Seq(0..Last) /\ Len(reg') = cp.roff /\ \A i \in 1..cp.roff : reg'[i] = reg[i]
      /\ cand' \in Seq(Key) /\ Len(cand') = cp.coff
  BY <1>1, <1>2, <1>3, PrefixFacts
<1>5. OutShapes'
  BY <1>1, <1>2, <1>3, <1>4 DEF OutShapes, CpOf
<1>6. Sound(disk, reg', cand', unread, unlisted) /\ Sound(cp, reg', cand', unread, unlisted)
  BY <1>1, <1>2, <1>3, SoundCut DEF Stored
<1>7. reg' # <<>> /\ reg'[1] = 0
  <2>1. reg # <<>> /\ reg' # <<>>
    BY <1>2, <1>3, <1>4
  <2> QED
    BY <1>3, <1>4, <2>1 DEF Stored
<1>8. Stored'
  BY <1>1, <1>2, <1>3, <1>6, <1>7 DEF Stored, Growing, Within
<1>9. Fits(Rows(reg'), Rows(cand'), cp.cursor, cp.stats, unread, unlisted)
  BY <1>1, <1>2, <1>3 DEF Stored, Sound
<1>10. Live' /\ Whole'
  BY <1>1, <1>2, <1>9 DEF Live, Whole
<1>11. PipeInv'
  BY <1>1, Away DEF PipeInv, Piped
<1> QED
  BY <1>5, <1>8, <1>10, <1>11

(* The output is begun anew.                                               *)
LEMMA OpenScratchKeeps == ASSUME ScanInv, OpenScratch PROVE ScanInv'
<1> USE DEF ScanInv, OutInv
<1>1. /\ UNCHANGED <<final, version, stamped, kept, disk, healthy, unread, unlisted>>
      /\ pc = "open" /\ pc' = "phase" /\ UNCHANGED pipeline
      /\ reg' = <<0>> /\ regSynced' = 0 /\ cand' = <<>> /\ candSynced' = 0
      /\ cursor' = 0 /\ stats' = NoStats
      /\ cp' = Checkpoint(0, 0, 0, NoStats, FALSE, BaseID)
  BY DEF OpenScratch, registry, history, Goto
<1>2. /\ cp' \in CpOf /\ cp'.roff = 0 /\ cp'.coff = 0 /\ ~cp'.complete
      /\ NoStats \in StatsOf /\ 0 \in 0..Last
  <2>1. BaseID \in Nat
    BY DEF BaseID, OutShapes
  <2> QED
    BY <1>1, <2>1, ScanAssumption DEF Checkpoint, CpOf, NoStats, StatsOf
<1>3. /\ reg' \in Seq(0..Last) /\ Len(reg') = 1 /\ reg'[1] = 0 /\ reg' # <<>>
      /\ cand' \in Seq(Key) /\ Len(cand') = 0
  BY <1>1, <1>2
<1>4. OutShapes'
  <2>1. regSynced' \in 0..Len(reg') /\ candSynced' \in 0..Len(cand')
    BY <1>1, <1>3
  <2>2. cursor' \in 0..Last /\ stats' \in StatsOf
    BY <1>1, <1>2
  <2>3. UNCHANGED <<version, kept, disk>>
    BY <1>1
  <2> QED
    BY <1>2, <1>3, <2>1, <2>2, <2>3 DEF OutShapes
<1>5. Sound(disk, reg', cand', unread, unlisted)
  BY <1>1, SoundHeader DEF Stored, OutShapes
<1>6. Sound(cp', reg', cand', unread, unlisted)
  BY <1>2, SoundNone
<1>7. Stored'
  <2>1. Within(cp)'
    <3>1. cp'.roff = 0 /\ cp'.coff = 0 /\ regSynced' = 0 /\ candSynced' = 0
      BY <1>1, <1>2
    <3> QED
      BY <3>1 DEF Within
  <2>2. pc' = "phase" /\ disk' = disk /\ unread' = unread /\ unlisted' = unlisted
    BY <1>1
  <2> QED
    BY <1>3, <1>5, <1>6, <2>1, <2>2 DEF Stored, Growing
<1>8. Fits(Rows(reg'), Rows(cand'), 0, NoStats, unread, unlisted)
  BY <1>1, FitsNothing, RowsEmpty
<1>9. Live' /\ Whole'
  BY <1>1, <1>2, <1>8 DEF Live, Whole
<1>10. PipeInv'
  BY <1>1, Away DEF PipeInv, Piped
<1> QED
  BY <1>4, <1>7, <1>9, <1>10

(* The walk delivers what comes after the cursor. A file that is not       *)
(* delivered is under a directory that could not be listed, and the first  *)
(* one of these is delivered in its place, unless it was the cursor        *)
(* itself.                                                                 *)
LEMMA PhaseKeeps == ASSUME ScanInv, Phase PROVE ScanInv'
<1> USE DEF ScanInv, OutInv
<1>0. /\ UNCHANGED <<final, version, stamped, reg, regSynced, cand, candSynced, cp, cursor, stats, healthy,
                     at, asked, jobs, busy, order, item, user, unread>>
      /\ pc = "phase" /\ healthy /\ Unstarted
  BY DEF Phase, registry, output, Live, PipeInv, Piped
<1>1. CASE /\ disk' = cp
           /\ kept' = StillKept
           /\ \E bad \in SUBSET {d \in Shaky : Kind[d] = "dir"} :
                 /\ walk' = {k \in Key : Delivered(k, bad)}
                 /\ result' = [k \in Key |-> IF k \in bad THEN "unreadable" ELSE "unknown"]
                 /\ unlisted' = unlisted \cup (bad \cap {cursor})
           /\ walker' = "visit" /\ writer' = "take"
           /\ Goto("pipe")
  <2>1. PICK bad \in SUBSET {d \in Shaky : Kind[d] = "dir"} :
                 /\ walk' = {k \in Key : Delivered(k, bad)}
                 /\ result' = [k \in Key |-> IF k \in bad THEN "unreadable" ELSE "unknown"]
                 /\ unlisted' = unlisted \cup (bad \cap {cursor})
    BY <1>1
  <2>2. pc' = "pipe" /\ unlisted \subseteq unlisted' /\ kept' = StillKept /\ Moved \subseteq Key
    BY <1>1, <2>1, ScanAssumption DEF Goto
  <2>3. OutShapes'
    BY <1>0, <1>1, <2>2 DEF OutShapes, StillKept
  <2>4. Stored'
    <3>1. Sound(cp, reg, cand, unread, unlisted')
      BY <1>0, <2>2, SoundGrows DEF Stored
    <3>2. Within(cp) /\ Within(cp)' /\ Within(disk)' /\ reg # <<>>
      BY <1>0, <1>1 DEF Stored, Within
    <3> QED
      BY <1>0, <1>1, <2>2, <3>1, <3>2 DEF Stored, Growing
  <2>5. Live'
    <3>1. Fits(Rows(reg), Rows(cand), cursor, stats, unread, unlisted')
      BY <1>0, <2>2, FitsGrows DEF Live
    <3> QED
      BY <1>0, <2>2, <3>1 DEF Live, StillKept
  <2>6. Whole'
    BY <1>0, <1>1, <2>2 DEF Whole
  <2>7. \A d \in bad : d \in Key /\ Kind[d] = "dir"
    BY ScanAssumption
  <2>8. result' \in [Key -> Results]
    BY <2>1 DEF Results
  <2>9. PipeShapes'
    BY <1>0, <2>1, <2>8 DEF PipeInv, PipeShapes
  <2>10. ~Held' /\ ~Waiting' /\ Queued' = {}
    BY <1>0, <1>1 DEF Held, Waiting, Queued, Unstarted
  <2>11. \A k \in Key : Pending(k)' <=> Delivered(k, bad)
    BY <2>1, <2>10 DEF Pending
  <2>12. InOrder'
    <3>1. \A k \in Key : Pending(k)' => Coming(k)'
      BY <1>0, <2>1, <2>7, <2>11 DEF Coming, Delivered, Visited
    <3>2. \A k \in walk' : at' < k
      BY <1>0, <2>1, ScanAssumption DEF Unstarted, Key
    <3>3. Len(order') = 0
      BY <1>0 DEF Unstarted
    <3> QED
      BY <1>1, <2>10, <3>1, <3>2, <3>3 DEF Coming, InOrder
  <2>13. Covered'
    <3> SUFFICES ASSUME NEW k \in Key, Kind[k] = "file", k > cursor, ~(Above[k] \cap bad = {})
                 PROVE  Acc(k)' \/ Ahead(k)'
      BY <1>0, <2>11 DEF Covered, Ahead, Delivered, Visited
    <3>1. PICK d \in Above[k] \cap bad : \A j \in Above[k] \cap bad : d <= j
      <4>1. Above[k] \cap bad \subseteq Nat
        BY <2>7 DEF Key
      <4> QED
        BY <4>1, LeastOf
    <3>2. d \in Key /\ d < k /\ Kind[d] = "dir" /\ d \in bad /\ result'[d] = "unreadable"
      BY <2>1, <2>7, <3>1, ScanAssumption
    <3>3. Above[d] \cap bad = {}
      <4>1. \A j \in Above[d] : j < d /\ j \in Above[k] /\ j \in Key
        BY <3>1, <3>2, ScanAssumption
      <4> QED
        BY <3>1, <3>2, <4>1 DEF Key
    <3>4. cursor \in 0..Last
      BY DEF OutShapes
    <3>5. CASE d = cursor
      <4>1. d \in unlisted'
        BY <2>1, <3>2, <3>5
      <4> QED
        BY <3>1, <4>1 DEF Acc, Accounted
    <3>6. CASE d > cursor
      <4>1. Delivered(d, bad)
        BY <3>2, <3>3, <3>6 DEF Delivered, Visited
      <4> QED
        BY <2>11, <3>1, <3>2, <4>1 DEF Ahead
    <3>7. CASE d < cursor
      <4>1. cursor \in Key
        BY <3>2, <3>4, <3>7 DEF Key
      <4>2. d \in Above[cursor]
        BY <3>1, <3>7, <4>1, ScanAssumption
      <4>3. Delivered(d, bad)
        BY <3>2, <3>3, <3>7, <4>2 DEF Delivered, Descended
      <4> QED
        BY <2>11, <3>1, <3>2, <4>3 DEF Ahead
    <3>8. d \in Nat /\ cursor \in Nat
      BY <3>2, <3>4 DEF Key
    <3> QED
      BY <3>5, <3>6, <3>7, <3>8
  <2>14. Asked' = {} /\ asked' = {} /\ jobs' = <<>> /\ busy' = {}
    BY <1>0 DEF Asked, Unstarted
  <2>15. Detecting'
    BY <1>1, <2>1, <2>7, <2>14 DEF Detecting
  <2>16. Inspected'
    BY <1>1, <2>10 DEF Inspected
  <2> QED
    BY <2>2, <2>3, <2>4, <2>5, <2>6, <2>9, <2>12, <2>13, <2>15, <2>16 DEF PipeInv, Piped
<1>2. CASE pc' = "final" /\ UNCHANGED <<disk, kept, walk, result, walker, writer, unlisted>>
  <2>1. OutShapes' /\ Stored' /\ Live' /\ Whole'
    BY <1>0, <1>2 DEF OutShapes, Stored, Growing, Live, Whole
  <2>2. PipeInv'
    BY <1>0, <1>2, Away DEF PipeInv, pipeline, walking, working, writing
  <2> QED
    BY <2>1, <2>2
<1> QED
  BY <1>1, <1>2 DEF Phase, Goto

(* When all goroutines have ended well, every present file is accounted    *)
(* for.                                                                    *)
LEMMA JoinedKeeps == ASSUME ScanInv, Joined PROVE ScanInv'
<1> USE DEF ScanInv, OutInv
<1>0. /\ UNCHANGED <<final, version, stamped, reg, regSynced, cand, candSynced, disk, cp, cursor, stats, kept,
                     healthy, unread, unlisted, user>>
      /\ pc = "pipe" /\ UNCHANGED pipeline /\ pc' \in {"rest", "fail"}
      /\ pc' = "rest" => writer = "ok" /\ walker = "done"
      /\ InOrder /\ Covered
  BY DEF Joined, registry, output, progress, history, Goto, PipeInv, Piped
<1>1. PipeInv'
  BY <1>0, Away DEF PipeInv
<1>2. OutShapes' /\ Stored'
  BY <1>0 DEF OutShapes, Stored, Growing, Within
<1>3. ASSUME writer = "ok", walker = "done", NEW k \in Key, Kind[k] = "file" PROVE Acc(k)
  <2>1. ~Waiting /\ ~Held /\ walk = {} /\ order = <<>>
    BY <1>0, <1>3 DEF Coming, InOrder, Waiting, Held
  <2>2. Queued = {}
    BY <2>1 DEF Queued
  <2>3. ~Ahead(k)
    BY <1>3, <2>1, <2>2 DEF Ahead, Pending
  <2>4. CASE k > cursor
    BY <1>0, <1>3, <2>3, <2>4 DEF Covered
  <2>5. CASE ~(k > cursor)
    <3>1. healthy /\ cursor \in 0..Last
      BY <1>0, <1>3 DEF Live, OutShapes
    <3>2. k \in 1..cursor
      BY <2>5, <3>1 DEF Key
    <3> QED
      BY <1>0, <3>1, <3>2 DEF Live, Fits, Acc
  <2> QED
    BY <2>4, <2>5
<1>4. Live'
  BY <1>0 DEF Live
<1>5. Whole'
  <2>1. \A k : Acc(k)' <=> Acc(k)
    BY <1>0, AccIdle
  <2> QED
    BY <1>0, <1>3, <2>1 DEF Whole
<1> QED
  BY <1>1, <1>2, <1>4, <1>5

(* The remaining preserved rows, and the last sync.                        *)
LEMMA RestKeeps == ASSUME NoReborn, ScanInv, Rest PROVE ScanInv'
<1> USE DEF ScanInv, OutInv
<1>0. pc = "rest" /\ healthy /\ UNCHANGED pipeline /\ UNCHANGED <<registry, final, version, stamped, disk>>
  BY DEF Rest, registry, Live
<1>1. pc' \in {"rest", "fail", "place", "final"}
  BY <1>0 DEF Rest, Goto
<1>2. PipeInv'
  BY <1>0, <1>1, Away DEF PipeInv
<1>3. CASE kept # {} /\ WritePreserved /\ UNCHANGED <<cp, pc>>
  <2>1. \A j \in Key : Kind[j] = "file" => Acc(j)
    BY <1>0 DEF Whole
  <2>2. writer' = writer
    BY <1>0 DEF pipeline, writing
  <2> QED
    BY <1>0, <1>2, <1>3, <2>1, <2>2, Preserved
<1>4. CASE WriteFails /\ pc' \in {"fail", "final"} /\ UNCHANGED cp
  BY <1>0, <1>2, <1>4, FailingWrite
<1>5. CASE kept = {} /\ Sync /\ pc' \in {"place", "final"} /\ UNCHANGED <<progress, history>>
  <2>1. UNCHANGED <<cursor, stats, kept, unread, unlisted>>
    BY <1>5 DEF progress, history
  <2>2. /\ OutShapes'
        /\ Sound(cp', reg', cand', unread, unlisted) /\ Sound(disk, reg', cand', unread, unlisted)
        /\ Within(cp)' /\ (Within(disk) => Within(disk)')
        /\ ~cp'.complete /\ cp'.stats = stats
        /\ UNCHANGED <<reg, cand>>
    BY <1>0, <1>5, <2>1, Syncing
  <2>3. Stored'
    <3>1. reg # <<>> /\ Within(disk)' /\ (reg # <<>> => reg[1] = 0)
      BY <1>0, <2>2 DEF Stored, Growing
    <3> QED
      BY <1>0, <1>5, <2>1, <2>2, <3>1 DEF Stored, Growing
  <2>4. Live'
    BY <1>5 DEF Live
  <2>5. \A k \in Key : Acc(k)
    <3> SUFFICES ASSUME NEW k \in Key PROVE Acc(k)
      OBVIOUS
    <3>1. CASE Kind[k] = "file"
      BY <1>0, <3>1 DEF Whole
    <3>2. CASE ~Due(k)
      BY <3>2 DEF Acc, Accounted
    <3>3. CASE k \in Moved /\ Kind[k] = "absent"
      <4>1. ~(k > cursor)
        BY <1>0, <1>5, <3>3 DEF Live
      <4>2. k \in 1..cursor
        BY <4>1 DEF Key, OutShapes
      <4> QED
        BY <1>0, <4>2 DEF Live, Fits, Acc
    <3> QED
      BY <3>1, <3>2, <3>3 DEF Due, NoReborn
  <2>6. \A k : Acc(k)' <=> Acc(k)
    BY <2>1, <2>2, AccIdle
  <2>7. ~disk.complete
    BY <1>0 DEF Whole
  <2>8. Whole'
    BY <1>0, <1>5, <2>2, <2>5, <2>6, <2>7 DEF Whole
  <2> QED
    BY <1>2, <2>2, <2>3, <2>4, <2>8
<1> QED
  BY <1>3, <1>4, <1>5 DEF Rest, Goto

(* The registry that is placed is the output, whole.                       *)
LEMMA PlaceKeeps == ASSUME ScanInv, Place PROVE ScanInv'
<1> USE DEF ScanInv, OutInv
<1>0. /\ pc = "place" /\ UNCHANGED pipeline
      /\ UNCHANGED <<cand, candSynced, disk, cp, cursor, stats, kept, unread, unlisted, healthy>>
  BY DEF Place, progress, history
<1>1. CASE pc' = "final" /\ UNCHANGED <<registry, reg, regSynced>>
  <2>1. UNCHANGED <<final, version, stamped>>
    BY <1>1 DEF registry
  <2>2. PipeInv'
    BY <1>0, <1>1, Away DEF PipeInv
  <2> QED
    BY <1>0, <1>1, <2>1, <2>2 DEF OutShapes, Stored, Growing, Live, Whole
<1>2. CASE /\ reg' = <<>> /\ regSynced' = 0 /\ pc' = "stamp"
           /\ final' = reg /\ version' \in {version, version + 1}
  <2>1. PipeInv'
    BY <1>0, <1>2, Away DEF PipeInv
  <2>2. reg \in Seq(0..Last) /\ cand \in Seq(Key) /\ disk \in CpOf /\ cp \in CpOf
    BY DEF OutShapes
  <2>3. reg' = Prefix(reg, 0) /\ cand = Prefix(cand, Len(cand))
    BY <1>2, <2>2, PrefixAll DEF Prefix
  <2>4. 0 \in 0..Len(reg) /\ Len(cand) \in 0..Len(cand)
    BY <2>2
  <2>5. Sound(disk, reg', cand, unread, unlisted)
    BY <2>2, <2>3, <2>4, SoundCut DEF Stored
  <2>6. Sound(cp, reg', cand, unread, unlisted)
    BY <1>0, <2>2, <2>3, <2>4, SoundCut DEF Stored
  <2>7. reg' \in Seq(0..Last) /\ Len(reg') = 0
    BY <1>2
  <2>8. OutShapes'
    BY <1>0, <1>2, <2>7 DEF OutShapes
  <2>9. Stored'
    BY <1>0, <1>2, <2>5, <2>6 DEF Stored, Growing
  <2>10. Live'
    BY <1>2 DEF Live
  <2>11. \A k \in Key : Settled(k)'
    BY <1>0, <1>2 DEF Whole, Settled, Acc
  <2>12. Whole'
    BY <1>0, <1>2, <2>11 DEF Whole
  <2> QED
    BY <2>1, <2>8, <2>9, <2>10, <2>12
<1> QED
  BY <1>1, <1>2 DEF Place, Goto, registry

(* The stamp changes no row.                                               *)
LEMMA StampKeeps == ASSUME ScanInv, Stamp PROVE ScanInv'
<1> USE DEF ScanInv, OutInv
<1>0. /\ pc = "stamp" /\ UNCHANGED pipeline /\ pc' \in {"complete", "final"}
      /\ UNCHANGED <<final, version, reg, regSynced, cand, candSynced, disk, cp, cursor, stats, kept,
                     unread, unlisted, healthy>>
  BY DEF Stamp, progress, history, output, Goto
<1>1. PipeInv'
  BY <1>0, Away DEF PipeInv
<1>2. OutShapes' /\ Stored'
  BY <1>0 DEF OutShapes, Stored, Growing
<1>3. \A k : Settled(k)' <=> Settled(k)
  BY <1>0 DEF Settled
<1>4. Live' /\ Whole'
  BY <1>0, <1>3 DEF Live, Whole
<1> QED
  BY <1>1, <1>2, <1>4

(* Only a placed registry completes the scan.                              *)
LEMMA CompleteKeeps == ASSUME ScanInv, Complete PROVE ScanInv'
<1> USE DEF ScanInv, OutInv
<1>0. /\ pc = "complete" /\ UNCHANGED pipeline
      /\ (pc' = "finished" /\ disk' = cp') \/ (pc' = "final" /\ disk' = disk)
      /\ cp' = Checkpoint(cp.cursor, cp.roff, cp.coff, stats, TRUE, cp.base)
      /\ UNCHANGED <<final, version, stamped, reg, regSynced, cand, candSynced, cursor, stats, kept,
                     unread, unlisted, healthy>>
  BY DEF Complete, progress, history, output, registry, Goto
<1>1. cp.stats = stats /\ cp \in CpOf /\ ~disk.complete
  BY <1>0 DEF Stored, OutShapes, Whole
<1>2. /\ cp' \in CpOf /\ cp'.stats = stats /\ cp'.roff = cp.roff /\ cp'.coff = cp.coff
      /\ cp'.cursor = cp.cursor
  BY <1>0, <1>1 DEF CpOf, Checkpoint
<1>3. Sound(cp', reg, cand, unread, unlisted)
  BY <1>0, <1>1, <1>2 DEF Stored, Sound
<1>4. PipeInv'
  BY <1>0, Away DEF PipeInv
<1>5. OutShapes'
  BY <1>0, <1>2 DEF OutShapes
<1>6. Stored'
  BY <1>0, <1>3 DEF Stored, Growing
<1>7. \A k \in Key : Accounted(k, Rows(final), stats, unread, unlisted)
  BY <1>0 DEF Whole, Settled
<1>8. Live' /\ Whole'
  BY <1>0, <1>1, <1>2, <1>7 DEF Live, Whole
<1> QED
  BY <1>4, <1>5, <1>6, <1>8

(* The last sync of a scan that fails.                                     *)
LEMMA FailSyncKeeps == ASSUME ScanInv, FailSync PROVE ScanInv'
<1> USE DEF ScanInv, OutInv
<1>0. /\ pc = "fail" /\ UNCHANGED pipeline /\ pc' = "final"
      /\ UNCHANGED <<final, version, stamped, disk, cursor, stats, kept, unread, unlisted, healthy>>
  BY DEF FailSync, progress, history, registry, Goto
<1>1. PipeInv'
  BY <1>0, Away DEF PipeInv
<1>2. Live'
  BY <1>0 DEF Live
<1>3. ~disk.complete /\ ~cp.complete
  BY <1>0 DEF Whole
<1>4. CASE healthy /\ Sync
  <2>1. /\ OutShapes'
        /\ Sound(cp', reg', cand', unread, unlisted) /\ Sound(disk, reg', cand', unread, unlisted)
        /\ ~cp'.complete
        /\ UNCHANGED <<reg, cand>>
    BY <1>0, <1>4, Syncing
  <2>2. Stored' /\ Whole'
    BY <1>0, <1>3, <2>1 DEF Stored, Growing, Whole
  <2> QED
    BY <1>1, <1>2, <2>1, <2>2
<1>5. CASE Damage /\ UNCHANGED cp
  <2>1. OutShapes' /\ Stored'
    BY <1>0, <1>5, Damaged DEF OutShapes, Stored, Growing
  <2>2. Whole'
    BY <1>0, <1>3, <1>5 DEF Whole
  <2> QED
    BY <1>1, <1>2, <2>1, <2>2
<1>6. CASE UNCHANGED <<output, cp>>
  <2>1. OutShapes' /\ Stored' /\ Whole'
    BY <1>0, <1>3, <1>6 DEF OutShapes, Stored, Growing, Whole, output
  <2> QED
    BY <1>1, <1>2, <2>1
<1> QED
  BY <1>4, <1>5, <1>6 DEF FailSync

(* The final checkpoint.                                                   *)
LEMMA FinishKeeps == ASSUME ScanInv, Finish PROVE ScanInv'
<1> USE DEF ScanInv, OutInv
<1>0. /\ pc = "final" /\ pc' = "down" /\ Quiet /\ kept' = {} /\ disk' \in {cp, disk}
      /\ UNCHANGED <<final, version, stamped, reg, regSynced, cand, candSynced, cp, cursor, stats,
                     unread, unlisted, healthy>>
  BY DEF Finish, history, registry, output, Goto
<1>1. PipeInv'
  BY <1>0, AtRest
<1>2. OutShapes' /\ Stored' /\ Live'
  BY <1>0 DEF OutShapes, Stored, Growing, Live
<1>3. Whole'
  BY <1>0 DEF Whole
<1> QED
  BY <1>1, <1>2, <1>3

(* A crash loses only what was not synced.                                 *)
LEMMA CrashKeeps == ASSUME ScanInv, Crash PROVE ScanInv'
<1> USE DEF ScanInv, OutInv
<1>0. /\ pc' = "down" /\ Quiet /\ kept' = {} /\ Damage
      /\ UNCHANGED <<final, version, stamped, disk, cp, cursor, stats, unread, unlisted, healthy>>
  BY DEF Crash, history, registry, Goto
<1>1. PipeInv'
  BY <1>0, AtRest
<1>2. OutShapes' /\ Stored' /\ Live'
  BY <1>0, Damaged DEF OutShapes, Stored, Growing, Live
<1>3. Whole'
  BY <1>0 DEF Whole
<1> QED
  BY <1>1, <1>2, <1>3

(* A removed file only keeps the checkpoint from being resumed from.       *)
LEMMA TamperKeeps == ASSUME ScanInv, Tamper PROVE ScanInv'
<1> USE DEF ScanInv, OutInv
<1>0. /\ pc = "down" /\ pc' = "down" /\ ~disk.complete /\ UNCHANGED pipeline
      /\ UNCHANGED <<disk, cp, cursor, stats, kept, unread, unlisted, healthy>>
  BY DEF Tamper, history, progress
<1>1. PipeInv'
  BY <1>0, Away DEF PipeInv, Piped
<1>2. Live' /\ Whole'
  BY <1>0 DEF Live, Whole
<1>3. reg \in Seq(0..Last) /\ cand \in Seq(Key) /\ disk \in CpOf
  BY DEF OutShapes
<1>4. /\ reg = Prefix(reg, Len(reg)) /\ cand = Prefix(cand, Len(cand))
      /\ <<>> = Prefix(reg, 0) /\ <<>> = Prefix(cand, 0)
  BY <1>3, PrefixAll DEF Prefix
<1>5. /\ 0 \in 0..Len(reg) /\ Len(cand) \in 0..Len(cand)
      /\ 0 \in 0..Len(cand) /\ Len(reg) \in 0..Len(reg)
  BY <1>3
<1>6. CASE reg' = <<>> /\ regSynced' = 0 /\ UNCHANGED <<cand, candSynced, registry>>
  <2>1. Sound(disk, reg', cand, unread, unlisted)
    BY <1>3, <1>4, <1>5, <1>6, SoundCut DEF Stored
  <2>2. reg' \in Seq(0..Last) /\ Len(reg') = 0
    BY <1>6
  <2>3. OutShapes' /\ Stored'
    BY <1>0, <1>6, <2>1, <2>2 DEF OutShapes, Stored, Growing, registry
  <2> QED
    BY <1>1, <1>2, <2>3
<1>7. CASE cand' = <<>> /\ candSynced' = 0 /\ UNCHANGED <<reg, regSynced, registry>>
  <2>1. Sound(disk, reg, cand', unread, unlisted)
    BY <1>3, <1>4, <1>5, <1>7, SoundCut DEF Stored
  <2>2. cand' \in Seq(Key) /\ Len(cand') = 0
    BY <1>7
  <2>3. OutShapes' /\ Stored'
    BY <1>0, <1>7, <2>1, <2>2 DEF OutShapes, Stored, Growing, registry
  <2> QED
    BY <1>1, <1>2, <2>3
<1>8. CASE version' = version + 1 /\ UNCHANGED output
  <2>1. OutShapes' /\ Stored'
    BY <1>0, <1>8 DEF OutShapes, Stored, Growing, output
  <2> QED
    BY <1>1, <1>2, <2>1
<1> QED
  BY <1>6, <1>7, <1>8 DEF Tamper

(* Every step of a scan and of its environment preserves the invariant.    *)
LEMMA ScanInvNext == ASSUME NoReborn, ScanInv, [Next]_vars PROVE ScanInv'
<1>1. CASE Main
  BY <1>1, StartKeeps, OpenResumedKeeps, OpenScratchKeeps, PhaseKeeps, JoinedKeeps, RestKeeps, PlaceKeeps,
     StampKeeps, CompleteKeeps, FailSyncKeeps, FinishKeeps DEF Main
<1>2. CASE Walker \/ Worker
  BY <1>2, WalkVisitKeeps, WalkJobKeeps, WalkQueueKeeps, WorkerTakeKeeps, WorkerDoneKeeps DEF Walker, Worker
<1>3. CASE Writer
  BY <1>3, WriterTakeKeeps, WriterWaitKeeps, WriterMergeKeeps, WriterEntryKeeps, WriterAdvanceKeeps,
     WriterSyncKeeps, WriterCheckpointKeeps DEF Writer
<1>4. CASE UNCHANGED vars
  <2>1. UNCHANGED <<registry, output, disk, cp, pc, progress, healthy, unread, unlisted, writer, user>>
    BY <1>4 DEF vars, registry, output, progress
  <2>2. OutInv'
    BY <2>1, OutIdle DEF ScanInv
  <2>3. CASE pc = "pipe"
    BY <1>4, <2>2, <2>3, WriterIdle DEF vars
  <2>4. CASE pc # "pipe"
    <3>1. UNCHANGED pipeline /\ pc' = pc
      BY <1>4 DEF vars, pipeline, walking, working, writing
    <3>2. PipeInv'
      BY <2>4, <3>1, Away DEF ScanInv, PipeInv, Piped
    <3> QED
      BY <2>2, <3>2 DEF ScanInv
  <2> QED
    BY <2>3, <2>4
<1> QED
  BY <1>1, <1>2, <1>3, <1>4, CancelKeeps, CrashKeeps, TamperKeeps DEF Next, Terminated

(* The invariant holds in every run.                                       *)
LEMMA ScanInvAlways == ASSUME NoReborn PROVE Spec => []ScanInv
BY ScanInvInit, ScanInvNext, PTL DEF Spec
-----------------------------------------------------------------------------
(* What is accounted for is covered.                                       *)
LEMMA FitsCovers ==
    ASSUME NEW rows, NEW bound, NEW st, \A k \in 1..bound : Accounted(k, rows, st, unread, unlisted)
    PROVE  Covers(rows, bound, st)
BY DEF Covers, Missing, Excused, Accounted

(* However often a scan is interrupted, and whatever was lost that was not *)
(* synced: the checkpoint a later process would resume from names exactly  *)
(* the rows that are within its offsets, every path up to its cursor among *)
(* them.                                                                   *)
THEOREM CheckpointsSound == ASSUME NoReborn PROVE Spec => []CheckpointAgrees
<1>1. ASSUME ScanInv PROVE CheckpointAgrees
  <2> DEFINE rows  == Rows(Prefix(reg, disk.roff))
             cands == Rows(Prefix(cand, disk.coff))
             files == {k \in rows : Kind[k] = "file" /\ k \in Payload}
  <2> SUFFICES ASSUME disk.roff > 0, Len(reg) >= disk.roff, Len(cand) >= disk.coff
               PROVE  /\ \A k \in rows : k <= disk.cursor
                      /\ Covers(rows, disk.cursor, disk.stats)
                      /\ cands \subseteq files
                      /\ \A k \in files \ cands : k \in Moved /\ Hidden(k, disk.stats)
                      /\ disk.stats.rows = Cardinality(rows)
    BY DEF CheckpointAgrees
  <2>1. Fits(rows, cands, disk.cursor, disk.stats, unread, unlisted)
    BY <1>1 DEF ScanInv, OutInv, Stored, Sound
  <2>2. disk.cursor \in 0..Last
    BY <1>1 DEF ScanInv, OutInv, OutShapes, CpOf
  <2> HIDE DEF rows, cands
  <2>3. \A k \in rows : k <= disk.cursor
    BY <2>1, <2>2, ScanAssumption DEF Fits
  <2>4. Covers(rows, disk.cursor, disk.stats)
    BY <2>1, FitsCovers DEF Fits
  <2>5. cands \subseteq files /\ disk.stats.rows = Cardinality(rows)
    BY <2>1 DEF Fits
  <2>6. \A k \in files \ cands : k \in Moved /\ Hidden(k, disk.stats)
    BY <2>1 DEF Fits, Hidden
  <2> QED
    BY <2>3, <2>4, <2>5, <2>6
<1> QED
  BY <1>1, ScanInvAlways, PTL

(* No interruption leaves a path out: the registry of a scan that placed   *)
(* it, and of a scan that is complete, has a row of every file that is     *)
(* due, except what was found unreadable and is counted.                   *)
THEOREM PlacedWhole == ASSUME NoReborn PROVE Spec => []RegistryComplete
<1>1. ASSUME ScanInv PROVE RegistryComplete
  <2>1. pc = "stamp" => Covers(Rows(final), Last, stats)
    BY <1>1, FitsCovers DEF ScanInv, OutInv, Whole, Settled, Key
  <2>2. disk.complete => Covers(Rows(final), Last, disk.stats)
    BY <1>1, FitsCovers DEF ScanInv, OutInv, Whole, Key
  <2> QED
    BY <2>1, <2>2 DEF RegistryComplete
<1> QED
  BY <1>1, ScanInvAlways, PTL
=============================================================================
