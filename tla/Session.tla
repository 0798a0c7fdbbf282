------------------------------ MODULE Session -------------------------------
(***************************************************************************)
(* The life of a run (archive.Start, Session, Finish): the locks of the    *)
(* roots, the run that current names, its resumption or its replacement by *)
(* a new run, checkpoints, the report and the exit status.                 *)
(*                                                                         *)
(* Every process is one element of Proc and starts once, with one command; *)
(* the run a process creates has the process for its id.  What an          *)
(* operation does is reduced to transactions that it opens and settles one *)
(* after another, and to the videos a split hands to its preview worker.   *)
(* The lock protocol itself is RunLock: here acquiring a root is one step. *)
(* The operator may remove the lock of a process that still runs; no       *)
(* further process is started then, as two processes that work on the same *)
(* roots are promised nothing but to stop.                                 *)
(***************************************************************************)
EXTENDS Naturals, FiniteSets

CONSTANTS
  Proc,        \* processes in the order they are started, and the ids of the runs they create
  Earlier,     \* an earlier process, and its run
  Offered,     \* commands an operator may have given to each process
  ArchiveRoot, \* the archive all of them name
  NoPayload,   \* payload of a scan: no kind and no mirror root
  None,        \* no process, no run, no command, no root, no status
  Videos,      \* bound: videos of a process whose previews are made, or wait for it
  MaxFaults    \* bound: crashes, and locks the operator removes

(* A payload is a kind and a mirror root; force is --force-unlock.         *)
Runs == Proc \cup {Earlier}
Commands == UNION {Offered[p] : p \in Runs}
Mirrors == {k.payload.root : k \in {c \in Commands : c.payload # NoPayload}}
Roots == {ArchiveRoot} \cup Mirrors

ASSUME ProcAssumption == Proc \subseteq Nat /\ Earlier \notin Proc
ASSUME CommandAssumption ==
  /\ DOMAIN Offered = Runs
  /\ \A k \in Commands : /\ DOMAIN k = {"op", "payload", "newRun", "dryRun", "force"}
                         /\ k.op \in {"scan", "split", "restore"}
                         /\ {k.newRun, k.dryRun, k.force} \subseteq BOOLEAN
                         /\ (k.op = "scan") = (k.payload = NoPayload)
ASSUME NoneAssumption ==
  /\ None \notin Runs /\ None \notin Commands /\ None \notin Roots
  /\ None \notin {"needs_operator", "completed", "partial", "interrupted", "failed", "body", "late"}

VARIABLES
  lock,        \* process named by the lock file of a root
  current,     \* run named by .arxgo/current
  runs,        \* run directories: command in options.json, open transactions, checkpoint, report
  available,   \* mirror roots that exist
  session,     \* the processes
  queued,      \* videos a process submitted to its preview worker and the worker has not done
  outcomes,    \* videos whose outcome the worker wrote to the logs of the run, wal.jsonl and run.log.jsonl
  noted,       \* processes that told the run.log.jsonl of their run that a lock of it is lost
  usurped,     \* history: the lock of a live process was removed
  faults

disk == <<lock, current, runs, available>>
sidelines == <<queued, outcomes, noted>>
history == <<usurped, faults>>
sessionVars == <<disk, session, sidelines, history>>

NoRun == [cmd |-> None, open |-> FALSE, cp |-> None, report |-> FALSE]

(* Of a process: where it is, its command, the roots it locked, the mirror *)
(* root it locked for the recovery of another payload's run, its run, its  *)
(* status (Result.Status), and where it found a lock lost: in the body, so *)
(* that runErr tells Finish of it, or later.                               *)
Unborn(where) == [pc |-> where, cmd |-> None, locks |-> {}, extra |-> None, run |-> None,
                  status |-> None, lost |-> None]
Statuses == {None, "completed", "partial", "interrupted", "failed", "needs_operator", "locked",
             "insufficient_space"}

At(p, where) == session[p].pc = where
Cmd(p) == session[p].cmd
Run(p) == session[p].run
Running(p) == IF p = Earlier THEN FALSE ELSE session[p].pc \notin {"idle", "unborn", "exited", "dead"}
Goto(p, where) == session' = [session EXCEPT ![p].pc = where]

Defining(k) == [op |-> k.op, payload |-> k.payload]         \* RunOptions.SameDefinition, runPayload
Holds(p) == \A root \in session[p].locks : lock[root] = p   \* Lock.Verify of every lock

-----------------------------------------------------------------------------
SessionAt(where) ==
  /\ session = [p \in Proc |-> Unborn(where)] /\ usurped = FALSE /\ faults = 0
  /\ queued = [p \in Proc |-> 0] /\ outcomes = [p \in Proc |-> 0] /\ noted = {}

(* An earlier process was killed and left its run, with the locks of that  *)
(* run's roots or, after the operator removed them, without.               *)
LeftBehind(k, open, locked) ==
  /\ current = Earlier
  /\ runs = [r \in Runs |-> IF r = Earlier THEN [NoRun EXCEPT !.cmd = k, !.open = open] ELSE NoRun]
  /\ lock = [root \in Roots |-> IF locked /\ root \in {ArchiveRoot, k.payload.root} THEN Earlier ELSE None]

NothingLeftBehind ==
  current = None /\ runs = [r \in Runs |-> NoRun] /\ lock = [root \in Roots |-> None]

SessionInit ==
  /\ SessionAt("unborn") /\ available \in SUBSET Mirrors
  /\ \/ NothingLeftBehind
     \/ \E k \in Offered[Earlier], open, locked \in BOOLEAN :
          ~k.dryRun /\ (open => k.op # "scan") /\ LeftBehind(k, open, locked)
SessionIdle == SessionAt("idle") /\ NothingLeftBehind /\ available = {}

(* A process that ended is forgotten but for the locks it kept and whether *)
(* its exit status calls for the operator.                                 *)
Exit(p, st, kept) ==
  session' = [session EXCEPT ![p] = [Unborn("exited") EXCEPT
                !.status = IF st = "needs_operator" THEN st ELSE None, !.locks = kept]]

(* A start that fails releases what it locked, and what was locked for a   *)
(* recovery; Release leaves a lock alone that is not its own.  "failed"    *)
(* stands for an interrupted start as well.                                *)
Released(p) == [root \in Roots |-> IF root \in session[p].locks \cup {session[p].extra} /\ lock[root] = p
                                     THEN None ELSE lock[root]]
StartFails(p, st) == Exit(p, st, {}) /\ lock' = Released(p)

Launch(p, k) ==
  /\ ~usurped /\ At(p, "unborn") /\ \A q \in Proc : q < p => ~At(q, "unborn")
  /\ k.op = "restore" => k.payload.root \in available       \* the command line requires the root
  /\ session' = [session EXCEPT ![p].pc = "lock_archive", ![p].cmd = k]
  /\ UNCHANGED <<disk, sidelines, history>>

(* AcquireLock: a lock of a live process is respected, one that a dead     *)
(* process left is taken over with --force-unlock only.                    *)
Free(root, p) == IF lock[root] = None THEN TRUE ELSE ~Running(lock[root]) /\ Cmd(p).force
Acquire(root, p, next) ==
  /\ lock' = [lock EXCEPT ![root] = p]
  /\ session' = [session EXCEPT ![p].locks = @ \cup {root}, ![p].pc = next]

(* Mutant of LockArchive: a lock that is held is waited for.               *)
LockArchivePatient(p) ==
  /\ At(p, "lock_archive")
  /\ IF Free(ArchiveRoot, p)
       THEN Acquire(ArchiveRoot, p, IF Cmd(p).payload = NoPayload THEN "open" ELSE "lock_mirror")
       ELSE UNCHANGED <<lock, session>>
  /\ UNCHANGED <<current, runs, available, sidelines, history>>

LockArchive(p) ==
  /\ At(p, "lock_archive")
  /\ \/ /\ Free(ArchiveRoot, p)
        /\ Acquire(ArchiveRoot, p, IF Cmd(p).payload = NoPayload THEN "open" ELSE "lock_mirror")
     \/ ~Free(ArchiveRoot, p) /\ StartFails(p, "locked")
  /\ UNCHANGED <<current, runs, available, sidelines, history>>

(* A mirror root split has to create is created under the archive lock; a  *)
(* dry run does neither create nor lock it.                                *)
LockMirror(p) ==
  LET root == Cmd(p).payload.root IN
  /\ At(p, "lock_mirror")
  /\ \/ /\ root \notin available /\ Cmd(p).dryRun
        /\ Goto(p, "open") /\ UNCHANGED <<lock, available>>
     \/ /\ root \in available \/ ~Cmd(p).dryRun
        /\ available' = available \cup {root}
        /\ \/ Free(root, p) /\ Acquire(root, p, "open")
           \/ ~Free(root, p) /\ StartFails(p, "locked")
  /\ UNCHANGED <<current, runs, sidelines, history>>

-----------------------------------------------------------------------------
(* openRun and tryResume.                                                  *)
Interrupted == IF current = None THEN FALSE ELSE ~runs[current].report
Resumes(p, r) == ~Cmd(p).newRun /\ Defining(runs[r].cmd) = Defining(Cmd(p))

OpenRun(p) ==
  /\ At(p, "open")
  /\ \/ (Cmd(p).dryRun \/ ~Interrupted) /\ Goto(p, "create")
     \/ /\ ~Cmd(p).dryRun /\ Interrupted
        /\ session' = [session EXCEPT ![p].run = current,
                                      ![p].pc = IF Resumes(p, current) THEN "set_run_id" ELSE "replace"]
  /\ UNCHANGED <<disk, sidelines, history>>

(* Mutant of Replace: whatever the run left open is left to itself.        *)
ReplaceUnasked(p) == At(p, "replace") /\ Goto(p, "create") /\ UNCHANGED <<disk, sidelines, history>>

(* recoverReplaced: what it may do with the run that current names.        *)
Replace(p) ==
  LET prev  == runs[Run(p)]
      mine  == Cmd(p).payload
      other == mine # NoPayload /\ prev.cmd.payload.kind # mine.kind
  IN
  /\ At(p, "replace")
  /\ \/ ~prev.open /\ Goto(p, "create") /\ UNCHANGED lock
     \/ prev.open /\ prev.cmd.payload # mine /\ ~other /\ StartFails(p, "needs_operator")
     \/ prev.open /\ prev.cmd.payload = mine /\ Goto(p, "recover_replaced") /\ UNCHANGED lock
     \/ prev.open /\ other /\ Goto(p, "lock_other") /\ UNCHANGED lock
  /\ UNCHANGED <<current, runs, available, sidelines, history>>

(* lockOtherMirror: the mirror root of the other payload, unless this      *)
(* process locks it already.                                               *)
LockOther(p) ==
  LET root == runs[Run(p)].cmd.payload.root IN
  /\ At(p, "lock_other")
  /\ \/ root \in session[p].locks /\ Goto(p, "recover_replaced") /\ UNCHANGED lock
     \/ root \notin session[p].locks \cup available /\ StartFails(p, "needs_operator")
     \/ /\ root \in available \ session[p].locks /\ Free(root, p)
        /\ lock' = [lock EXCEPT ![root] = p]
        /\ session' = [session EXCEPT ![p].extra = root, ![p].pc = "recover_replaced"]
     \/ root \in available \ session[p].locks /\ ~Free(root, p) /\ StartFails(p, "locked")
  /\ UNCHANGED <<current, runs, available, sidelines, history>>

Settled(r) == [runs EXCEPT ![r].open = FALSE]

RecoverReplaced(p) ==
  /\ At(p, "recover_replaced")
  /\ \/ runs' = Settled(Run(p)) /\ Goto(p, "release_other") /\ UNCHANGED lock
     \/ (\E st \in {"failed", "needs_operator"} : StartFails(p, st)) /\ UNCHANGED runs
  /\ UNCHANGED <<current, available, sidelines, history>>

(* The deferred release of the other root; a lock lost meanwhile fails the *)
(* start.                                                                  *)
ReleaseOther(p) ==
  LET root == session[p].extra IN
  /\ At(p, "release_other")
  /\ \/ root = None /\ Goto(p, "create") /\ UNCHANGED lock
     \/ /\ root # None /\ lock[root] = p
        /\ lock' = [lock EXCEPT ![root] = None]
        /\ session' = [session EXCEPT ![p].extra = None, ![p].pc = "create"]
     \/ root # None /\ lock[root] # p /\ StartFails(p, "needs_operator")
  /\ UNCHANGED <<current, runs, available, sidelines, history>>

(* CreateRunDir with options.json, then WriteCurrent.                      *)
CreateRun(p) ==
  /\ At(p, "create")
  /\ runs' = [runs EXCEPT ![p] = [NoRun EXCEPT !.cmd = Cmd(p)]]
  /\ session' = [session EXCEPT ![p].run = p,
                                ![p].pc = IF Cmd(p).dryRun THEN "set_run_id" ELSE "write_current"]
  /\ UNCHANGED <<lock, current, available, sidelines, history>>

WriteCurrent(p) ==
  /\ At(p, "write_current") /\ current' = Run(p)
  /\ (Goto(p, "set_run_id") /\ UNCHANGED lock) \/ StartFails(p, "failed")
  /\ UNCHANGED <<runs, available, sidelines, history>>

(* Any other operation on the run state may fail, or find it corrupt.      *)
StartErrs(p) ==
  /\ \E where \in {"lock_mirror", "open", "replace", "create", "write_current", "set_run_id"} : At(p, where)
  /\ \E st \in {"failed", "needs_operator"} : StartFails(p, st)
  /\ UNCHANGED <<current, runs, available, sidelines, history>>

(* SetRunID verifies each lock before it rewrites it.                      *)
SetRunIDs(p) ==
  /\ At(p, "set_run_id")
  /\ \/ Holds(p) /\ Goto(p, "recover") /\ UNCHANGED lock
     \/ ~Holds(p) /\ StartFails(p, "needs_operator")
  /\ UNCHANGED <<current, runs, available, sidelines, history>>

(* recoverWAL on the log of the resumed run.                               *)
RecoverRun(p) ==
  /\ At(p, "recover")
  /\ \/ runs' = Settled(Run(p)) /\ Goto(p, "first_checkpoint") /\ UNCHANGED lock
     \/ /\ runs[Run(p)].open /\ UNCHANGED runs
        /\ \E st \in {"failed", "needs_operator"} : StartFails(p, st)
  /\ UNCHANGED <<current, available, sidelines, history>>

(* Checkpoint: the locks are verified, then checkpoint.json is replaced.   *)
Checkpointed(p, final) == [runs EXCEPT ![Run(p)].cp = [by |-> p, final |-> final]]

FirstCheckpoint(p) ==
  /\ At(p, "first_checkpoint")
  /\ \/ Holds(p) /\ runs' = Checkpointed(p, FALSE) /\ Goto(p, "body") /\ UNCHANGED lock
     \/ ~Holds(p) /\ StartFails(p, "needs_operator") /\ UNCHANGED runs
     \/ Holds(p) /\ StartFails(p, "failed") /\ UNCHANGED runs
  /\ UNCHANGED <<current, available, sidelines, history>>

-----------------------------------------------------------------------------
(* The body: split and restore open a transaction and settle it, a         *)
(* checkpoint may be due between two, and the body returns with the        *)
(* outcome that decides the status.  A split of videos hands those it      *)
(* moved to the preview worker, whose channel holds one behind the video   *)
(* in work; on its way out the loop waits for the worker.                  *)
OpenTransaction(p) ==
  /\ At(p, "body") /\ Cmd(p).op # "scan" /\ ~Cmd(p).dryRun /\ ~runs[Run(p)].open
  /\ runs' = [runs EXCEPT ![Run(p)].open = TRUE]
  /\ UNCHANGED <<lock, current, available, session, sidelines, history>>

SettleTransaction(p) ==
  /\ At(p, "body") /\ runs[Run(p)].open /\ runs' = Settled(Run(p))
  /\ UNCHANGED <<lock, current, available, session, sidelines, history>>

Previewing(p) == Cmd(p).op = "split" /\ Cmd(p).payload.kind = "video" /\ ~Cmd(p).dryRun

Submit(p) ==
  /\ At(p, "body") /\ Previewing(p) /\ ~runs[Run(p)].open
  /\ queued[p] < 2 /\ outcomes[p] + queued[p] < Videos
  /\ queued' = [queued EXCEPT ![p] = @ + 1]
  /\ UNCHANGED <<disk, session, outcomes, noted, history>>

(* The worker is done with a video: it logged events or an issue, or there *)
(* was nothing to generate.                                                *)
WorkerRuns(p) ==
  /\ queued[p] > 0 /\ queued' = [queued EXCEPT ![p] = @ - 1]
  /\ outcomes' \in {outcomes, [outcomes EXCEPT ![p] = @ + 1]}
  /\ UNCHANGED <<disk, session, noted, history>>

OutOfBody(p) == IF queued[p] > 0 THEN "draining" ELSE "final_checkpoint"
Drained(p) ==
  /\ At(p, "draining") /\ queued[p] = 0 /\ Goto(p, "final_checkpoint")
  /\ UNCHANGED <<disk, sidelines, history>>

BodyCheckpoint(p) ==
  /\ At(p, "body") /\ ~runs[Run(p)].open
  /\ \/ Holds(p) /\ runs' = Checkpointed(p, FALSE) /\ UNCHANGED session
     \/ /\ ~Holds(p) /\ UNCHANGED runs
        /\ session' = [session EXCEPT ![p].pc = OutOfBody(p), ![p].status = "needs_operator",
                                      ![p].lost = "body"]
  /\ UNCHANGED <<lock, current, available, sidelines, history>>

(* classify.  An error may leave a transaction open.                       *)
BodyEnds(p) ==
  /\ At(p, "body")
  /\ \E st \in Statuses \ {None, "locked"} :
       /\ st \in {"completed", "partial", "insufficient_space"} => ~runs[Run(p)].open
       /\ st \in {"completed", "partial"} => queued[p] = 0    \* the report phase follows the worker
       /\ session' = [session EXCEPT ![p].pc = OutOfBody(p), ![p].status = st]
  /\ UNCHANGED <<disk, sidelines, history>>

-----------------------------------------------------------------------------
(* Finish.  A loss found in the body keeps it from the run log             *)
(* (useConsoleOnly); one found later goes there, with the end of the run.  *)
(* Both lines are one write here, as the log is closed.                    *)
Escalated(st, lockLost) ==
  IF lockLost \/ st = "needs_operator" THEN "needs_operator"
  ELSE IF st = "interrupted" THEN st ELSE "failed"
Escalate(p, lockLost, next) ==
  session' = [session EXCEPT ![p].pc = next, ![p].status = Escalated(@, lockLost),
                             ![p].lost = IF lockLost THEN "late" ELSE @]
Reportable(p) == session[p].status \in {"completed", "partial"}

(* Mutant of FinalCheckpoint: the locks are not verified any more.         *)
FinalCheckpointUnverified(p) ==
  /\ At(p, "final_checkpoint") /\ runs' = Checkpointed(p, TRUE) /\ Goto(p, "report")
  /\ UNCHANGED <<lock, current, available, sidelines, history>>

FinalCheckpoint(p) ==
  /\ At(p, "final_checkpoint")
  /\ \/ session[p].lost = "body" /\ Goto(p, "report") /\ UNCHANGED runs
     \/ /\ session[p].lost = None /\ Holds(p)
        /\ runs' = Checkpointed(p, TRUE) /\ Goto(p, "report")
     \/ session[p].lost = None /\ Escalate(p, ~Holds(p), "report") /\ UNCHANGED runs
  /\ UNCHANGED <<lock, current, available, sidelines, history>>

(* Whether a report is written follows from runErr, so a dry run whose     *)
(* lock was found lost at the final checkpoint still writes one.           *)
Reports(p) == session[p].lost # "body" /\ (Reportable(p) \/ Cmd(p).dryRun)

Reported(p) == [runs EXCEPT ![Run(p)].report = TRUE]

WriteReport(p) ==
  /\ At(p, "report")
  /\ \/ ~Reports(p) /\ Goto(p, "release") /\ UNCHANGED runs
     \/ Reports(p) /\ runs' = Reported(p) /\ Goto(p, "release")
     \/ Reports(p) /\ runs' \in {runs, Reported(p)} /\ Escalate(p, FALSE, "release")
  /\ UNCHANGED <<lock, current, available, sidelines, history>>

ReleaseLocks(p) ==
  LET mine == session[p] IN
  /\ At(p, "release")
  /\ \/ mine.status = "needs_operator" /\ Exit(p, "needs_operator", mine.locks) /\ UNCHANGED lock
     \/ /\ mine.status # "needs_operator" /\ lock' = Released(p)
        /\ Exit(p, IF Holds(p) THEN mine.status ELSE Escalated(mine.status, TRUE), {})
  /\ noted' = IF mine.lost = "body" \/ Holds(p) THEN noted ELSE noted \cup {p}
  /\ outcomes' = [outcomes EXCEPT ![p] = 0]
  /\ UNCHANGED <<current, runs, available, queued, history>>

Step(p) ==
  \/ LockArchive(p) \/ LockMirror(p) \/ OpenRun(p) \/ Replace(p) \/ LockOther(p) \/ RecoverReplaced(p)
  \/ ReleaseOther(p) \/ CreateRun(p) \/ WriteCurrent(p) \/ StartErrs(p) \/ SetRunIDs(p) \/ RecoverRun(p)
  \/ FirstCheckpoint(p) \/ SettleTransaction(p) \/ WorkerRuns(p) \/ BodyEnds(p) \/ Drained(p)
  \/ FinalCheckpoint(p) \/ WriteReport(p) \/ ReleaseLocks(p)

-----------------------------------------------------------------------------
(* The environment.                                                        *)
CrashRun(p) ==
  /\ Running(p) /\ faults < MaxFaults /\ faults' = faults + 1
  /\ session' = [session EXCEPT ![p] = Unborn("dead")] 
  /\ queued' = [queued EXCEPT ![p] = 0] /\ outcomes' = [outcomes EXCEPT ![p] = 0]
  /\ UNCHANGED <<disk, noted, usurped>>

RemoveLock(root) ==
  /\ lock[root] # None /\ (\A q \in Proc : Running(q) => q = lock[root])
  /\ faults < MaxFaults /\ faults' = faults + 1
  /\ lock' = [lock EXCEPT ![root] = None] /\ usurped' = Running(lock[root])
  /\ UNCHANGED <<current, runs, available, session, sidelines>>

AllStopped ==
  /\ \A p \in Proc : ~Running(p) /\ ~At(p, "idle") /\ (At(p, "unborn") => usurped)
  /\ UNCHANGED sessionVars

SessionNext ==
  \/ \E p \in Proc : \/ \E k \in Offered[p] : Launch(p, k)
                     \/ Step(p) \/ OpenTransaction(p) \/ BodyCheckpoint(p) \/ Submit(p) \/ CrashRun(p)
  \/ \E root \in Roots : RemoveLock(root)
  \/ AllStopped

(* A process that was started is scheduled, and a body ends: it has        *)
(* finitely many transactions and checkpoints.                             *)
SessionFairness == \A p \in Proc : WF_sessionVars(Running(p) /\ Step(p)) /\ WF_sessionVars(BodyEnds(p))
SessionSpec == SessionInit /\ [][SessionNext]_sessionVars /\ SessionFairness

-----------------------------------------------------------------------------
(* Transactions are recovered under the locks of the roots they are about: *)
(* the archive and the mirror root of the run that opened them, also when  *)
(* it is a run of another payload that is replaced.                        *)
RecoversUnderLocks ==
  \A p \in Proc :
    (At(p, "recover_replaced") \/ At(p, "recover")) /\ runs[Run(p)].open /\ ~usurped =>
      lock[ArchiveRoot] = p /\ lock[runs[Run(p)].cmd.payload.root] = p

(* Unfinished transactions belong to the run that current names: no        *)
(* command, of any operation, payload or root, resumed, refused,           *)
(* interrupted or killed anywhere, moves current away from open work, and  *)
(* whoever finishes it holds the locks of both its roots.                  *)
OpenIsCurrent ==
  /\ \A r \in Runs : runs[r].open => usurped \/ current = r
  /\ RecoversUnderLocks

(* A process that found its lock lost ends as needs_operator and touches   *)
(* neither checkpoint, transactions nor, unless it is a dry run that       *)
(* learned it from its final checkpoint, report.  What still goes into the *)
(* run directory is the outcome of each video its preview worker already   *)
(* had, in both logs, and, if it was the final checkpoint that failed, a   *)
(* word on it in the run log.                                              *)
KnowsLoss(p) == session[p].lost # None /\ Running(p) /\ ~At(p, "dead")'
Acts(p) == session'[p] # session[p]
QuietWhenLost ==
  [][\A p \in Proc : KnowsLoss(p) =>
       /\ session'[p].status = "needs_operator"
       /\ queued'[p] <= queued[p]
       /\ outcomes'[p] > outcomes[p] => queued'[p] < queued[p]
       /\ Acts(p) => /\ runs' = runs \/ (Cmd(p).dryRun /\ session[p].lost = "late")
                     /\ noted' = noted \/ session[p].lost = "late"]_sessionVars

(* What is said of a lost lock (integrity.md, "Run lock"): nothing more    *)
(* is written into the run directory.                                      *)
NothingMoreWritten ==
  [][\A p \in Proc : KnowsLoss(p) =>
       /\ outcomes'[p] <= outcomes[p]
       /\ Acts(p) => UNCHANGED <<runs, noted>>]_sessionVars

(* Every process that is started ends, whatever else runs and fails: a     *)
(* refused or lost lock is answered, never waited for.                     *)
EveryRunEnds == []<>(\A p \in Proc : ~Running(p))
=============================================================================
