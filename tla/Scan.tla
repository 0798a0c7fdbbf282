-------------------------------- MODULE Scan --------------------------------
(***************************************************************************)
(* The scan of one root: the goroutines of its pipeline, the output files  *)
(* with their synced parts, the checkpoint that pairs a cursor with their  *)
(* offsets, and the processes that resume from it after an interruption.   *)
(*                                                                         *)
(* Paths are numbered in walk order; 0 is the cursor before the walk and   *)
(* the header in the registry.  The registry and the candidate list are    *)
(* sequences of paths, and an offset is a length.                          *)
(*                                                                         *)
(* Simplifications: the tree and the run history do not change during the  *)
(* run; what may be unreadable is a constant, whether it is, is not; a     *)
(* missing file is an empty one; a symlink is a file; cancellation comes   *)
(* while the pipeline runs; a dry run, which never resumes, is left out.   *)
(***************************************************************************)
EXTENDS Naturals, Sequences, FiniteSets

CONSTANTS
    Last,         \* the number of paths
    Kind,         \* what is at a path of the root
    Above,        \* the directories a path lies in
    Moved,        \* paths of files a split moved out of the root
    Payload,      \* files that are candidates when present
    Shaky,        \* files and directories that may be found unreadable
    Workers, Window,
    MaxFaults     \* bound on crashes, cancellations, failing I/O, edited files

Key   == 1..Last
Kinds == {"absent", "dir", "file", "special"}

ASSUME ScanAssumption ==
    /\ Last \in Nat /\ MaxFaults \in Nat
    /\ Workers \in Nat \ {0} /\ Window \in Nat \ {0}
    /\ Kind \in [Key -> Kinds]
    /\ Above \in [Key -> SUBSET Key]
    /\ \A k \in Key : \A d \in Above[k] : d < k /\ Kind[d] = "dir"
    /\ \A k \in Key : \A d \in Above[k] :
          /\ Above[d] \subseteq Above[k]
          /\ \A j \in Key : d < j /\ j < k => d \in Above[j]
    /\ Moved \subseteq Key /\ Payload \subseteq Key /\ Shaky \subseteq Key

VARIABLES
    final,               \* the registry at its final path; <<>> when there is none
    version, stamped,    \* its identity, and whether the stamp names it
    reg, regSynced,      \* its part file with what is buffered, and the synced length
    cand, candSynced,    \* the same of candidates.jsonl
    disk,                \* checkpoint.json
    cp,                  \* Session.cp: what the next checkpoint will store
    pc,                  \* where Scan is; "down" when no process runs
    cursor, stats, healthy,
    kept,                \* preservedQueue: the rows still to be merged
    walk,                \* the entries the walker has not visited
    walker, at,          \* its state, and its entry
    asked,               \* entries whose detection was asked for
    jobs, busy,          \* the jobs channel, and what the workers inspect
    result,              \* what is known of an entry's readability
    order,               \* the order channel
    writer, item,        \* the writer's state, and its entry
    user,                \* the run was cancelled
    unread, unlisted,    \* history: what was found unreadable, and which directories
                         \* could not be listed when they were the cursor
    sources,             \* history: the base registries the rows were taken from
    faults

registry == <<final, version, stamped>>
output   == <<reg, regSynced, cand, candSynced>>
progress == <<cursor, stats, kept>>
walking  == <<walk, walker, at>>
working  == <<asked, jobs, busy, result>>
writing  == <<order, writer, item>>
history  == <<unread, unlisted, sources>>
pipeline == <<walking, working, writing>>
vars == <<final, version, stamped, reg, regSynced, cand, candSynced, disk, cp, pc,
          cursor, stats, healthy, kept, walk, walker, at, asked, jobs, busy, result,
          order, writer, item, user, unread, unlisted, sources, faults>>

Stats == [rows : 0..Last, skipped : SUBSET Key]
Checkpoints == [cursor : 0..Last, roff : 0..(Last + 1), coff : 0..Last,
                stats : Stats, complete : BOOLEAN, base : Nat]

NoStats      == [rows |-> 0, skipped |-> {}]
Checkpoint(key, roff, coff, st, done, base) ==
    [cursor |-> key, roff |-> roff, coff |-> coff, stats |-> st,
     complete |-> done, base |-> base]

NoCheckpoint == Checkpoint(0, 0, 0, NoStats, FALSE, 0)

Pcs     == {"down", "open", "phase", "pipe", "rest", "sync", "place", "stamp",
            "complete", "fail", "final", "finished"}
Walkers == {"visit", "job", "queue", "done", "stopped"}
Writers == {"take", "wait", "write", "advance", "sync", "checkpoint", "ok", "failed"}
Results == {"unknown", "ok", "unreadable", "cancelled"}

TypeOK ==
    /\ final \in Seq(0..Last) /\ version \in Nat /\ stamped \in BOOLEAN
    /\ reg \in Seq(0..Last) /\ regSynced \in 0..Len(reg)
    /\ cand \in Seq(Key) /\ candSynced \in 0..Len(cand)
    /\ disk \in Checkpoints /\ cp \in Checkpoints
    /\ pc \in Pcs
    /\ cursor \in 0..Last /\ stats \in Stats /\ healthy \in BOOLEAN
    /\ kept \subseteq Moved
    /\ walk \subseteq Key /\ walker \in Walkers /\ at \in 0..Last
    /\ asked \subseteq Key /\ jobs \in Seq(Key) /\ Len(jobs) <= Workers
    /\ busy \subseteq Key /\ Cardinality(busy) <= Workers
    /\ result \in [Key -> Results]
    /\ order \in Seq(Key) /\ Len(order) <= Window
    /\ writer \in Writers /\ item \in 0..Last
    /\ user \in BOOLEAN /\ unread \subseteq Key /\ unlisted \subseteq Key
    /\ sources \subseteq Nat /\ faults \in 0..MaxFaults
-----------------------------------------------------------------------------
First(S) == CHOOSE k \in S : \A j \in S : k <= j
Prefix(s, n) == SubSeq(s, 1, n)

(* registryBase.baseID: nil without a stamped registry.                    *)
BaseID == IF stamped THEN version ELSE 0

CancelledByUser == user                   \* mutant: a failing writer cancels nobody

(* The context of the pipeline is done.                                    *)
Cancelled == user \/ writer = "failed"

(* against: what a resumed walk visits, and what it only descends into.    *)
Visited(k)   == k > cursor
Descended(k) == k < cursor /\ k \in Above[cursor]

(* Walk with a cursor delivers what comes after it, and a directory on its *)
(* path that cannot be listed any more.                                    *)
Delivered(k, bad) ==
    /\ Kind[k] # "absent" /\ Above[k] \cap bad = {}
    /\ Visited(k) \/ (k \in bad /\ Descended(k))

(* preparePreserved: the moved files a row is still to be written for.     *)
StillKept == {k \in Moved : k > cursor}

(* A row of the base stands for a file that has not changed since.         *)
MayReuse(k) == Kind[k] = "file" /\ cp.base # 0

(* The cursor after entry k.                                               *)
CursorAfter(k) == IF k > cursor THEN k ELSE cursor

SyncedForgetful ==                        \* mutant: the candidates' offset stays behind
    Checkpoint(cursor, Len(reg), cp.coff, stats, cp.complete, cp.base)

(* scanRun.sync: the checkpoint that matches the synced output.            *)
Synced == Checkpoint(cursor, Len(reg), Len(cand), stats, cp.complete, cp.base)

Sync == /\ cp' = Synced
        /\ regSynced' = Len(reg) /\ candSynced' = Len(cand)
        /\ UNCHANGED <<reg, cand>>

Fault == faults < MaxFaults /\ faults' = faults + 1

(* A preserved or present row, and the base it may have been taken from.   *)
WriteRow(k) ==
    /\ reg' = Append(reg, k)
    /\ sources' = sources \cup {BaseID}

Goto(label) == pc' = label

(* No goroutine is left.                                                   *)
Quiet ==
    /\ walk' = {} /\ walker' = "done" /\ at' = 0
    /\ asked' = {} /\ jobs' = <<>> /\ busy' = {} /\ result' = [k \in Key |-> "unknown"]
    /\ order' = <<>> /\ writer' = "ok" /\ item' = 0
-----------------------------------------------------------------------------
Init ==
    /\ \/ final = <<>> /\ version = 0 /\ stamped = FALSE
       \/ final = <<0>> /\ version = 1 /\ stamped = TRUE
    /\ reg = <<>> /\ regSynced = 0 /\ cand = <<>> /\ candSynced = 0
    /\ disk = NoCheckpoint /\ cp = NoCheckpoint
    /\ pc = "down"
    /\ cursor = 0 /\ stats = NoStats /\ healthy = TRUE /\ kept = {}
    /\ walk = {} /\ walker = "done" /\ at = 0
    /\ asked = {} /\ jobs = <<>> /\ busy = {} /\ result = [k \in Key |-> "unknown"]
    /\ order = <<>> /\ writer = "ok" /\ item = 0
    /\ user = FALSE /\ unread = {} /\ unlisted = {} /\ sources = {} /\ faults = 0

(* The operator runs the command, or runs it again.                        *)
Start ==
    /\ pc = "down"
    /\ Goto(IF disk.complete THEN "finished" ELSE "open")
    /\ cp' = disk /\ healthy' = TRUE /\ user' = FALSE
    /\ UNCHANGED <<registry, output, disk, progress, pipeline, history, faults>>

ResumableAnyBase ==                       \* mutant: the base is not compared
    cp.roff > 0 /\ Len(reg) >= cp.roff /\ Len(cand) >= cp.coff

(* openScan: the checkpoint names output that is there, from this base.    *)
Resumable ==
    /\ cp.roff > 0 /\ cp.base = BaseID
    /\ Len(reg) >= cp.roff /\ Len(cand) >= cp.coff

OpenResumed ==
    /\ pc = "open" /\ Resumable
    /\ reg' = Prefix(reg, cp.roff) /\ cand' = Prefix(cand, cp.coff)
    /\ regSynced' = cp.roff /\ candSynced' = cp.coff
    /\ cursor' = cp.cursor /\ stats' = cp.stats
    /\ Goto("phase")
    /\ UNCHANGED <<registry, disk, cp, healthy, kept, pipeline, user, history, faults>>

OpenScratch ==
    /\ pc = "open" /\ ~Resumable
    /\ reg' = <<0>> /\ regSynced' = 0 /\ cand' = <<>> /\ candSynced' = 0
    /\ cursor' = 0 /\ stats' = NoStats /\ sources' = {}
    /\ cp' = Checkpoint(0, 0, 0, NoStats, FALSE, BaseID)
    /\ Goto("phase")
    /\ UNCHANGED <<registry, disk, healthy, kept, pipeline, user, unread, unlisted, faults>>

(* The checkpoint at the phase boundary, the preserved rows after the      *)
(* cursor, and the start of the pipeline.                                  *)
Phase ==
    /\ pc = "phase"
    /\ \/ /\ disk' = cp
          /\ kept' = StillKept
          /\ \E bad \in SUBSET {d \in Shaky : Kind[d] = "dir"} :
                /\ walk' = {k \in Key : Delivered(k, bad)}
                /\ result' = [k \in Key |-> IF k \in bad THEN "unreadable" ELSE "unknown"]
                /\ unlisted' = unlisted \cup (bad \cap {cursor})
          /\ walker' = "visit" /\ writer' = "take"
          /\ Goto("pipe")
          /\ UNCHANGED faults
       \/ /\ Fault /\ Goto("final")
          /\ UNCHANGED <<disk, kept, walk, result, walker, writer, unlisted>>
    /\ UNCHANGED <<registry, output, cp, cursor, stats, healthy, at, asked, jobs, busy,
                   order, item, user, unread, sources>>
-----------------------------------------------------------------------------
(* THE PIPELINE *)

(* The callback of Walk: the next entry goes to the workers first, unless  *)
(* it needs no detection or a row of the base is reused.                   *)
WalkVisit ==
    /\ pc = "pipe" /\ walker = "visit"
    /\ \/ walk = {} /\ walker' = "done" /\ UNCHANGED <<walk, at, result>>
       \/ walk # {} /\ Cancelled /\ walker' = "stopped" /\ UNCHANGED <<walk, at, result>>
       \/ /\ walk # {} /\ ~Cancelled
          /\ at' = First(walk) /\ walk' = walk \ {at'}
          /\ \/ Kind[at'] = "file" /\ walker' = "job" /\ UNCHANGED result
             \/ Kind[at'] # "file" /\ walker' = "queue" /\ UNCHANGED result
             \/ /\ MayReuse(at')
                /\ walker' = "queue" /\ result' = [result EXCEPT ![at'] = "ok"]
             \/ /\ Kind[at'] = "file" /\ at' \in Shaky
                /\ walker' = "queue" /\ result' = [result EXCEPT ![at'] = "unreadable"]
    /\ UNCHANGED <<registry, output, disk, cp, pc, progress, healthy, asked, jobs, busy,
                   writing, user, history, faults>>

WalkJob ==
    /\ pc = "pipe" /\ walker = "job"
    /\ \/ /\ Len(jobs) < Workers
          /\ jobs' = Append(jobs, at) /\ asked' = asked \cup {at}
          /\ walker' = "queue"
       \/ Cancelled /\ walker' = "stopped" /\ UNCHANGED <<jobs, asked>>
    /\ UNCHANGED <<registry, output, disk, cp, pc, progress, healthy, walk, at, busy, result,
                   writing, user, history, faults>>

WalkQueue ==
    /\ pc = "pipe" /\ walker = "queue"
    /\ \/ Len(order) < Window /\ order' = Append(order, at) /\ walker' = "visit"
       \/ Cancelled /\ walker' = "stopped" /\ UNCHANGED order
    /\ UNCHANGED <<registry, output, disk, cp, pc, progress, healthy, walk, at, working,
                   writer, item, user, history, faults>>

Walker == WalkVisit \/ WalkJob \/ WalkQueue
Closed == walker \in {"done", "stopped"}

(* inspect: a worker looks at the context before it opens the file, and    *)
(* drains the channel whatever happened.                                   *)
WorkerTake ==
    /\ pc = "pipe" /\ jobs # <<>> /\ Cardinality(busy) < Workers
    /\ jobs' = Tail(jobs)
    /\ \/ ~Cancelled /\ busy' = busy \cup {Head(jobs)} /\ UNCHANGED result
       \/ Cancelled /\ result' = [result EXCEPT ![Head(jobs)] = "cancelled"] /\ UNCHANGED busy
    /\ UNCHANGED <<registry, output, disk, cp, pc, progress, healthy, walking, asked,
                   writing, user, history, faults>>

WorkerDone ==
    /\ pc = "pipe"
    /\ \E k \in busy :
        /\ busy' = busy \ {k}
        /\ \/ result' = [result EXCEPT ![k] = "ok"]
           \/ k \in Shaky /\ result' = [result EXCEPT ![k] = "unreadable"]
    /\ UNCHANGED <<registry, output, disk, cp, pc, progress, healthy, walking, asked, jobs,
                   writing, user, history, faults>>

Worker == WorkerTake \/ WorkerDone

WriterTake ==
    /\ pc = "pipe" /\ writer = "take"
    /\ \/ order # <<>> /\ item' = Head(order) /\ order' = Tail(order) /\ writer' = "wait"
       \/ order = <<>> /\ Closed /\ writer' = "ok" /\ UNCHANGED <<item, order>>
    /\ UNCHANGED <<registry, output, disk, cp, pc, progress, healthy, walking, working,
                   user, history, faults>>

Detected == item \in asked => result[item] # "unknown"

WriterWaitOnly ==                         \* mutant: the context is not looked at
    /\ pc = "pipe" /\ writer = "wait" /\ Detected
    /\ writer' = "write"
    /\ UNCHANGED <<registry, output, disk, cp, pc, progress, healthy, walking, working,
                   order, item, user, history, faults>>

(* The writer waits for the detection of its entry, then looks at the      *)
(* context: what a cancelled worker says is not written.                   *)
WriterWait ==
    /\ pc = "pipe" /\ writer = "wait" /\ Detected
    /\ writer' = IF Cancelled THEN "failed" ELSE "write"
    /\ UNCHANGED <<registry, output, disk, cp, pc, progress, healthy, walking, working,
                   order, item, user, history, faults>>

(* writePreservedBefore and writeRemainingPreserved: one row.              *)
WritePreserved ==
    /\ WriteRow(First(kept))
    /\ cursor' = First(kept) /\ kept' = kept \ {First(kept)}
    /\ stats' = [stats EXCEPT !.rows = @ + 1]
    /\ UNCHANGED <<regSynced, cand, candSynced, unread, unlisted, healthy, faults>>

(* What was not synced may be lost, from its end.                          *)
Damage ==
    /\ \E n \in regSynced..Len(reg) : reg' = Prefix(reg, n)
    /\ \E n \in candSynced..Len(cand) : cand' = Prefix(cand, n)
    /\ UNCHANGED <<regSynced, candSynced>>

WriteFails ==
    /\ Fault /\ healthy' = FALSE
    /\ Damage
    /\ UNCHANGED <<progress, history>>

Before(k) == {m \in kept : m < k}

WriterMerge ==
    /\ pc = "pipe" /\ writer = "write" /\ Before(item) # {}
    /\ \/ WritePreserved /\ UNCHANGED writer
       \/ WriteFails /\ writer' = "failed"
    /\ UNCHANGED <<registry, disk, cp, pc, walking, working, order, item, user>>

(* write: a row, or a skip; a moved file is not kept when something other  *)
(* than a directory is at its path.                                        *)
WriteEntry ==
    /\ \/ /\ Kind[item] = "file" /\ result[item] = "ok"
          /\ WriteRow(item)
          /\ cand' = IF item \in Payload THEN Append(cand, item) ELSE cand
          /\ stats' = [stats EXCEPT !.rows = @ + 1]
          /\ UNCHANGED unread
       \/ /\ Kind[item] = "special" \/ result[item] \in {"unreadable", "cancelled"}
          /\ stats' = [stats EXCEPT !.skipped = @ \cup {item}]
          /\ unread' = IF result[item] = "unreadable" THEN unread \cup {item} ELSE unread
          /\ UNCHANGED <<reg, cand, sources>>
       \/ /\ Kind[item] = "dir" /\ result[item] = "unknown"
          /\ UNCHANGED <<reg, cand, sources, stats, unread>>
    /\ kept' = IF Kind[item] = "dir" THEN kept ELSE kept \ {item}
    /\ cursor' = CursorAfter(item)
    /\ UNCHANGED <<regSynced, candSynced, healthy, unlisted, faults>>

WriterEntry ==
    /\ pc = "pipe" /\ writer = "write" /\ Before(item) = {}
    /\ \/ WriteEntry /\ writer' = "advance"
       \/ WriteFails /\ writer' = "failed"
    /\ UNCHANGED <<registry, disk, cp, pc, walking, working, order, item, user>>

(* AdvanceSync: when a checkpoint is due, the output is synced, the free   *)
(* space is looked at, and the checkpoint is written.                      *)
WriterAdvance ==
    /\ pc = "pipe" /\ writer = "advance"
    /\ writer' \in {"take", "sync"}
    /\ UNCHANGED <<registry, output, disk, cp, pc, progress, healthy, walking, working,
                   order, item, user, history, faults>>

WriterSync ==
    /\ pc = "pipe" /\ writer = "sync"
    /\ \/ Sync /\ writer' = "checkpoint" /\ UNCHANGED <<healthy, faults>>
       \/ Sync /\ Fault /\ writer' = "failed" /\ UNCHANGED healthy
       \/ WriteFails /\ writer' = "failed" /\ UNCHANGED cp
    /\ UNCHANGED <<registry, disk, pc, progress, walking, working, order, item, user, history>>

WriterCheckpoint ==
    /\ pc = "pipe" /\ writer = "checkpoint"
    /\ \/ disk' = cp /\ writer' = "take" /\ UNCHANGED faults
       \/ Fault /\ writer' = "failed" /\ UNCHANGED disk
    /\ UNCHANGED <<registry, output, cp, pc, progress, healthy, walking, working,
                   order, item, user, history>>

Writer == WriterTake \/ WriterWait \/ WriterMerge \/ WriterEntry
             \/ WriterAdvance \/ WriterSync \/ WriterCheckpoint
-----------------------------------------------------------------------------
(* The pipeline has ended: only a whole walk, wholly written, succeeds.    *)
Joined ==
    /\ pc = "pipe" /\ Closed /\ jobs = <<>> /\ busy = {} /\ writer \in {"ok", "failed"}
    /\ Goto(IF writer = "ok" /\ walker = "done" /\ ~user THEN "rest" ELSE "fail")
    /\ UNCHANGED <<registry, output, disk, cp, progress, healthy, pipeline, user, history, faults>>

(* writeRemainingPreserved, then the last sync of the output.              *)
Rest ==
    /\ pc = "rest"
    /\ \/ kept # {} /\ WritePreserved /\ UNCHANGED <<cp, pc>>
       \/ kept # {} /\ WriteFails /\ Goto("fail") /\ UNCHANGED cp
       \/ /\ kept = {} /\ Sync /\ Goto("place")
          /\ UNCHANGED <<progress, history, healthy, faults>>
       \/ /\ kept = {} /\ Sync /\ Fault /\ Goto("final")
          /\ UNCHANGED <<progress, history, healthy>>
       \/ kept = {} /\ WriteFails /\ Goto("final") /\ UNCHANGED cp
    /\ UNCHANGED <<registry, disk, pipeline, user>>

(* placeRegistry: an equal registry stays, another one is replaced; the    *)
(* rows may differ for equal paths.                                        *)
Place ==
    /\ pc = "place"
    /\ \/ /\ reg = final /\ UNCHANGED registry
          /\ reg' = <<>> /\ regSynced' = 0 /\ Goto("stamp") /\ UNCHANGED faults
       \/ /\ final' = reg /\ version' = version + 1 /\ stamped' = FALSE
          /\ reg' = <<>> /\ regSynced' = 0 /\ Goto("stamp") /\ UNCHANGED faults
       \/ Fault /\ Goto("final") /\ UNCHANGED <<registry, reg, regSynced>>
    /\ UNCHANGED <<cand, candSynced, disk, cp, progress, healthy, pipeline, user, history>>

Stamp ==
    /\ pc = "stamp"
    /\ \/ stamped' = TRUE /\ Goto("complete") /\ UNCHANGED faults
       \/ Fault /\ Goto("final") /\ UNCHANGED stamped
    /\ UNCHANGED <<final, version, output, disk, cp, progress, healthy, pipeline, user, history>>

(* The scan is complete, and the next phase's checkpoint says so.          *)
Complete ==
    /\ pc = "complete"
    /\ cp' = Checkpoint(cp.cursor, cp.roff, cp.coff, stats, TRUE, cp.base)
    /\ \/ disk' = cp' /\ Goto("finished") /\ UNCHANGED faults
       \/ Fault /\ Goto("final") /\ UNCHANGED disk
    /\ UNCHANGED <<registry, output, progress, healthy, pipeline, user, history>>

(* After an error the output is synced if it took every write.             *)
FailSync ==
    /\ pc = "fail"
    /\ \/ healthy /\ Sync /\ UNCHANGED faults
       \/ healthy /\ Fault /\ Damage /\ UNCHANGED cp
       \/ ~healthy /\ UNCHANGED <<output, cp, faults>>
    /\ Goto("final")
    /\ UNCHANGED <<registry, disk, progress, healthy, pipeline, user, history>>

(* Finish: the final checkpoint, unless the lock is lost.                  *)
Finish ==
    /\ pc = "final"
    /\ \/ disk' = cp /\ UNCHANGED faults
       \/ Fault /\ UNCHANGED disk
    /\ Goto("down") /\ Quiet /\ kept' = {}
    /\ UNCHANGED <<registry, output, cp, cursor, stats, healthy, user, history>>

Main == Start \/ OpenResumed \/ OpenScratch \/ Phase \/ Joined \/ Rest \/ Place
           \/ Stamp \/ Complete \/ FailSync \/ Finish
-----------------------------------------------------------------------------
(* THE ENVIRONMENT *)

Cancel ==
    /\ pc = "pipe" /\ ~user /\ Fault
    /\ user' = TRUE
    /\ UNCHANGED <<registry, output, disk, cp, pc, progress, healthy, pipeline, history>>

Crash ==
    /\ pc \notin {"down", "finished"} /\ Fault
    /\ Damage
    /\ Goto("down") /\ Quiet /\ kept' = {}
    /\ UNCHANGED <<registry, disk, cp, cursor, stats, healthy, user, history>>

(* Between two processes somebody removes a file of the run, or removes or *)
(* writes the registry.                                                    *)
Tamper ==
    /\ pc = "down" /\ ~disk.complete /\ Fault
    /\ \/ /\ reg # <<>> /\ reg' = <<>> /\ regSynced' = 0
          /\ UNCHANGED <<cand, candSynced, registry>>
       \/ /\ cand # <<>> /\ cand' = <<>> /\ candSynced' = 0
          /\ UNCHANGED <<reg, regSynced, registry>>
       \/ /\ final # <<>> /\ final' \in {<<>>, <<0>>}
          /\ version' = version + 1 /\ stamped' = FALSE
          /\ UNCHANGED output
    /\ UNCHANGED <<disk, cp, pc, progress, healthy, pipeline, user, history>>

Terminated == pc = "finished" /\ UNCHANGED vars

Next == Main \/ Walker \/ Worker \/ Writer \/ Cancel \/ Crash \/ Tamper \/ Terminated

Spec == Init /\ [][Next]_vars

(* Every goroutine goes on, and the operator runs the command again.       *)
FairSpec == Spec /\ WF_vars(Main) /\ WF_vars(Walker) /\ WF_vars(Worker) /\ WF_vars(Writer)
-----------------------------------------------------------------------------
(* PROPERTIES *)

Rows(s) == {s[i] : i \in 1..Len(s)} \ {0}

(* The paths that have a row: a present file, and a moved one that no      *)
(* other file has replaced.                                                *)
Due(k) == Kind[k] = "file" \/ (k \in Moved /\ Kind[k] \in {"absent", "dir"})

(* A present file is without a row only when it, or a directory above it,  *)
(* was found unreadable and is counted as skipped.                         *)
Excused(k, st) == Kind[k] = "file" /\ ({k} \cup Above[k]) \cap unread \cap st.skipped # {}

Missing(rows, bound, st) == {k \in 1..bound : Due(k) /\ k \notin rows /\ ~Excused(k, st)}

(* A directory that was the cursor when it could not be listed is the one  *)
(* case in which files are missing and not counted (MissingIsCounted).     *)
Covers(rows, bound, st) == \A k \in Missing(rows, bound, st) : Above[k] \cap unlisted # {}

(* A moved file that is back, in a directory that was not listed, has the  *)
(* row of its move and is no candidate.                                    *)
Hidden(k, st) == Above[k] \cap ((unread \cap st.skipped) \cup unlisted) # {}

(* A checkpoint a process would resume from agrees with the output: every  *)
(* row up to its cursor is within its offset, none beyond it, and the      *)
(* candidates and the counts are those of these rows.                      *)
CheckpointAgrees ==
    (/\ disk.roff > 0 /\ disk.base = BaseID
     /\ Len(reg) >= disk.roff /\ Len(cand) >= disk.coff) =>
        LET rows  == Rows(Prefix(reg, disk.roff))
            files == {k \in rows : Kind[k] = "file" /\ k \in Payload}
            cands == Rows(Prefix(cand, disk.coff)) IN
        /\ \A k \in rows : k <= disk.cursor
        /\ Covers(rows, disk.cursor, disk.stats)
        /\ cands \subseteq files
        /\ \A k \in files \ cands : k \in Moved /\ Hidden(k, disk.stats)
        /\ disk.stats.rows = Cardinality(rows)

(* Only a complete registry is placed, and a scan that is complete has     *)
(* placed it: no interruption leaves a path out.                           *)
RegistryComplete ==
    /\ pc = "stamp" => Covers(Rows(final), Last, stats)
    /\ disk.complete => Covers(Rows(final), Last, disk.stats)

(* All rows are those of one base registry.                                *)
OneBase == pc \in {"pipe", "rest", "place"} => sources \subseteq {cp.base}

(* Nobody waits for ever: after any error or cancellation all goroutines   *)
(* end, and the scan is completed by this process or a later one.          *)
EventuallyFinished == <>(pc = "finished")
=============================================================================
