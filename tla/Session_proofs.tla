--------------------------- MODULE Session_proofs ---------------------------
(***************************************************************************)
(* What holds of runs and their locks for any number of processes, any     *)
(* commands and mirror roots, and any number of crashes and of locks the   *)
(* operator removes: unfinished transactions belong to the run that        *)
(* current names and are recovered under the locks of their roots, and a   *)
(* process that lost a lock keeps quiet.                                   *)
(*                                                                         *)
(* The lemma on an action shows that it preserves SessionInv.  A process   *)
(* past the archive lock is alone there (Alone), so for a step of it only  *)
(* its own part of the invariant and the disk are to be shown              *)
(* (InsideStep).                                                           *)
(***************************************************************************)
EXTENDS Session, TLAPS

(* Where a process is that has taken the archive lock and not ended.       *)
Starting == {"lock_mirror", "open", "replace", "lock_other", "recover_replaced", "release_other",
             "create", "write_current", "set_run_id", "recover", "first_checkpoint"}
Ending == {"draining", "final_checkpoint", "report", "release"}
InsidePcs == Starting \cup {"body"} \cup Ending
Inside(p) == session[p].pc \in InsidePcs

SessionRecord ==
  [pc : {"idle", "unborn", "exited", "dead", "lock_archive"} \cup InsidePcs,
   cmd : Commands \cup {None}, locks : SUBSET Roots, extra : Roots \cup {None},
   run : Runs \cup {None}, status : Statuses, lost : {None, "body", "late"}]
RunRecord ==
  [cmd : Commands \cup {None}, open : BOOLEAN,
   cp : [by : Proc, final : BOOLEAN] \cup {None}, report : BOOLEAN]

DiskTypes ==
  /\ lock \in [Roots -> Runs \cup {None}]
  /\ current \in Runs \cup {None}
  /\ runs \in [Runs -> RunRecord]
SessionTypes == session \in [Proc -> SessionRecord] /\ usurped \in BOOLEAN

(* Two processes never are past the archive lock, and whose lock was       *)
(* removed is the only one that runs.                                      *)
Alone ==
  /\ \A p, q \in Proc : Inside(p) /\ Inside(q) => p = q
  /\ usurped => \A p, q \in Proc : Running(p) /\ Running(q) => p = q

(* The locks a process took are still its own unless the operator removed  *)
(* one, and they include the mirror root of a command that writes.         *)
LocksOf(p) ==
  /\ Running(p) => Cmd(p) \in Commands
  /\ session[p].pc \in {"unborn", "lock_archive"} =>
       session[p].locks = {} /\ session[p].extra = None /\ session[p].lost = None
  /\ Inside(p) => ArchiveRoot \in session[p].locks
  /\ Inside(p) /\ ~usurped =>
       \A root \in Roots : root \in session[p].locks \cup {session[p].extra} => lock[root] = p
  /\ Inside(p) /\ ~At(p, "lock_mirror") /\ Cmd(p).op # "scan" /\ ~Cmd(p).dryRun =>
       Cmd(p).payload.root \in session[p].locks
  /\ At(p, "lock_mirror") => Cmd(p).op # "scan" /\ session[p].extra = None
  /\ Inside(p) => session[p].extra \notin session[p].locks

NothingOpen == \A r \in Runs : ~runs[r].open
(* Only the current run has open transactions, and it has no report then.  *)
OpenWork ==
  /\ \A r \in Runs : runs[r].open => current = r /\ ~runs[r].report /\ runs[r].cmd.op # "scan"
  /\ current \in Runs => runs[current].cmd \in Commands

AtWork(p) == session[p].pc \in {"set_run_id", "recover", "first_checkpoint", "body",
                                "draining", "final_checkpoint", "report"}
(* The run a process works on is the current one and of its own command; a *)
(* run it replaces is settled before current leaves it, under the lock of  *)
(* its mirror root; a run that is to be reported has nothing open.         *)
RunOf(p) ==
  /\ session[p].pc \in {"replace", "lock_other", "recover_replaced"} =>
       ~Cmd(p).dryRun /\ Run(p) = current /\ Run(p) \in Runs
  /\ session[p].pc \in {"release_other", "create", "write_current"} => Cmd(p).dryRun \/ NothingOpen
  /\ At(p, "lock_other") => runs[Run(p)].open
  /\ At(p, "recover_replaced") /\ runs[Run(p)].open =>
       runs[Run(p)].cmd.payload.root \in session[p].locks \cup {session[p].extra}
  /\ At(p, "write_current") =>
       ~Cmd(p).dryRun /\ Run(p) = p /\ runs[p].cmd = Cmd(p) /\ ~runs[p].report
  /\ AtWork(p) =>
       /\ Run(p) \in Runs
       /\ Defining(runs[Run(p)].cmd) = Defining(Cmd(p))
       /\ Cmd(p).dryRun => ~runs[Run(p)].open
       /\ ~Cmd(p).dryRun => Run(p) = current
       /\ ~At(p, "report") /\ ~Cmd(p).dryRun => ~runs[Run(p)].report
  /\ session[p].pc \in {"draining", "final_checkpoint", "report"} /\ Reportable(p) => ~runs[Run(p)].open

(* A lock found lost leads to the end of the process, as needs_operator.   *)
LostOf(p) ==
  Running(p) /\ session[p].lost # None =>
    /\ session[p].pc \in Ending /\ session[p].status = "needs_operator"
    /\ session[p].pc \in {"draining", "final_checkpoint"} => session[p].lost = "body"

SessionInv ==
  /\ DiskTypes /\ SessionTypes /\ Alone /\ OpenWork
  /\ \A p \in Proc : LocksOf(p) /\ RunOf(p) /\ LostOf(p)

(* The mirror root of a split or restore is one of the roots.              *)
LEMMA RootOfCommand ==
  ASSUME NEW k \in Commands, k.op # "scan" PROVE k.payload.root \in Mirrors /\ k.payload.root \in Roots
<1>1. k.payload # NoPayload
  BY CommandAssumption
<1>2. QED
  BY <1>1 DEF Mirrors, Roots

(* What a step of p left in its record, field by field.                    *)
Moved(p, where, locks, extra, run, status, lost) ==
  /\ session' \in [Proc -> SessionRecord] /\ \A q \in Proc : q # p => session'[q] = session[q]
  /\ session'[p].pc = where /\ session'[p].cmd = session[p].cmd
  /\ session'[p].locks = locks /\ session'[p].extra = extra /\ session'[p].run = run
  /\ session'[p].status = status /\ session'[p].lost = lost
Advanced(p, where, run, status, lost) == Moved(p, where, session[p].locks, session[p].extra, run, status, lost)
Gone(p, where) == Advanced(p, where, session[p].run, session[p].status, session[p].lost)

(* The fields of a record after Goto.                                      *)
LEMMA GoneTo ==
  ASSUME SessionInv, NEW p \in Proc, NEW where \in InsidePcs, Goto(p, where) PROVE Gone(p, where)
<1>1. session \in [Proc -> SessionRecord]
  BY DEF SessionInv, SessionTypes
<1>2. session[p] \in SessionRecord
  BY <1>1
<1>3. QED
  BY <1>1, <1>2 DEF SessionRecord, Moved, Advanced, Gone, Goto

(* The fields of a record after a run was chosen.                          *)
LEMMA RunChosen ==
  ASSUME SessionInv, NEW p \in Proc, NEW where \in InsidePcs, NEW r \in Runs,
         session' = [session EXCEPT ![p].run = r, ![p].pc = where]
  PROVE  Advanced(p, where, r, session[p].status, session[p].lost)
<1>1. session \in [Proc -> SessionRecord] /\ session[p] \in SessionRecord
  BY DEF SessionInv, SessionTypes
<1>2. QED
  BY <1>1 DEF SessionRecord, Advanced, Moved

(* A step of a process past the archive lock: nobody else is there, so the *)
(* invariant follows from its own part of it.                              *)
LEMMA InsideStep ==
  ASSUME SessionInv, NEW p \in Proc, Inside(p),
         session' \in [Proc -> SessionRecord], \A q \in Proc : q # p => session'[q] = session[q],
         DiskTypes', usurped' = usurped, OpenWork', LocksOf(p)', RunOf(p)', LostOf(p)'
  PROVE SessionInv'
<1>0. p # Earlier /\ Running(p)
  BY ProcAssumption DEF Inside, Running, InsidePcs, Starting, Ending
<1>1. SessionTypes'
  BY DEF SessionInv, SessionTypes
<1>2. \A q \in Proc : q # p => session'[q] = session[q] /\ ~Inside(q)
  BY DEF SessionInv, Alone
<1>3. \A q \in Proc : q # p => ~Inside(q)' /\ (Running(q)' => Running(q))
  BY <1>2 DEF Inside, Running
<1>4. Alone'
  BY <1>0, <1>3 DEF SessionInv, Alone
<1>5. ASSUME NEW q \in Proc PROVE LocksOf(q)' /\ RunOf(q)' /\ LostOf(q)'
  <2>1. CASE q = p
    BY <2>1
  <2>2. CASE q # p
    <3>1. session'[q] = session[q] /\ ~Inside(q) /\ LocksOf(q)
      BY <1>2, <2>2 DEF SessionInv
    <3>2. LocksOf(q)'
      BY <3>1 DEF LocksOf, Inside, Running, At, Cmd, InsidePcs, Starting
    <3>3. RunOf(q)'
      BY <3>1 DEF RunOf, Inside, At, AtWork, InsidePcs, Starting, Ending
    <3>4. LostOf(q)'
      <4>1. LostOf(q)
        BY DEF SessionInv
      <4>2. QED
        BY <3>1, <4>1 DEF LostOf, Running, At
    <3>5. QED
      BY <3>2, <3>3, <3>4
  <2>3. QED
    BY <2>1, <2>2
<1>6. QED
  BY <1>1, <1>4, <1>5 DEF SessionInv

(* A process past the archive lock that ends or dies.                      *)
LEMMA EndStep ==
  ASSUME SessionInv, NEW p \in Proc, Inside(p), NEW s \in SessionRecord, s.pc \in {"exited", "dead"},
         session' = [session EXCEPT ![p] = s],
         DiskTypes', usurped' = usurped, OpenWork'
  PROVE SessionInv'
<1>1. session' \in [Proc -> SessionRecord] /\ session'[p] = s
      /\ \A q \in Proc : q # p => session'[q] = session[q]
  BY DEF SessionInv, SessionTypes
<1>2. ~Running(p)' /\ ~Inside(p)'
  BY <1>1 DEF Running, Inside, InsidePcs, Starting, Ending
<1>3. LocksOf(p)' /\ LostOf(p)'
  BY <1>1, <1>2 DEF LocksOf, LostOf, At, Running
<1>4. RunOf(p)'
  BY <1>1 DEF RunOf, AtWork, At
<1>5. QED
  BY <1>1, <1>3, <1>4, InsideStep

(* Releasing locks leaves every root with a process or none.               *)
LEMMA ReleasedType ==
  ASSUME DiskTypes, NEW p \in Proc PROVE Released(p) \in [Roots -> Runs \cup {None}]
BY DEF DiskTypes, Released

(* The record of a process that ended.                                     *)
LEMMA ExitRecord ==
  ASSUME NEW st \in Statuses, NEW kept \in SUBSET Roots
  PROVE  [Unborn("exited") EXCEPT !.status = IF st = "needs_operator" THEN st ELSE None, !.locks = kept]
           \in {s \in SessionRecord : s.pc = "exited"}
BY DEF Unborn, SessionRecord, Statuses

(* A start that fails, whatever it did to the disk before.                 *)
LEMMA FailedAnywhere ==
  ASSUME SessionInv, NEW p \in Proc, Inside(p), NEW st \in Statuses, StartFails(p, st), usurped' = usurped,
         current' \in Runs \cup {None}, runs' \in [Runs -> RunRecord], OpenWork'
  PROVE SessionInv'
<1>1. DiskTypes'
  BY ReleasedType DEF SessionInv, DiskTypes, StartFails
<1>2. PICK s \in SessionRecord : s.pc = "exited" /\ session' = [session EXCEPT ![p] = s]
  BY ExitRecord DEF StartFails, Exit
<1>3. QED
  BY <1>1, <1>2, EndStep

(* A start that fails without another change.                              *)
LEMMA FailedStart ==
  ASSUME SessionInv, NEW p \in Proc, Inside(p), NEW st \in Statuses, StartFails(p, st),
         UNCHANGED <<current, runs, usurped>>
  PROVE SessionInv'
<1>1. OpenWork' /\ current' \in Runs \cup {None} /\ runs' \in [Runs -> RunRecord]
  BY DEF SessionInv, OpenWork, DiskTypes
<1>2. QED
  BY <1>1, FailedAnywhere

(* A step that takes and releases no lock keeps what is known of the       *)
(* locks.                                                                  *)
LEMMA SameLocks ==
  ASSUME SessionInv, NEW p \in Proc, Inside(p), NEW where \in InsidePcs \ {"lock_mirror"}, NEW r, NEW st, NEW lo,
         Advanced(p, where, r, st, lo), UNCHANGED <<lock, usurped>>,
         At(p, "lock_mirror") => Cmd(p).dryRun
  PROVE LocksOf(p)'
<1>1. LocksOf(p) /\ Running(p)
  BY ProcAssumption DEF SessionInv, Inside, Running, InsidePcs, Starting, Ending
<1>2. QED
  BY <1>1 DEF Moved, Advanced, LocksOf, At, Cmd, Inside, InsidePcs, Starting, Ending

(* Before the body ends no lock was found lost.                            *)
LEMMA NotLost ==
  ASSUME SessionInv, NEW p \in Proc, session[p].pc \in Starting \cup {"body"} PROVE session[p].lost = None
BY ProcAssumption DEF SessionInv, LostOf, Running, Starting, Ending

(* A step of the start or the body that goes on and keeps the locks.       *)
LEMMA GotoStep ==
  ASSUME SessionInv, NEW p \in Proc, session[p].pc \in Starting \cup {"body"}, NEW where \in InsidePcs \ {"lock_mirror"},
         Goto(p, where), At(p, "lock_mirror") => Cmd(p).dryRun,
         DiskTypes', UNCHANGED <<lock, usurped>>, OpenWork', Gone(p, where) => RunOf(p)'
  PROVE SessionInv'
<1>1. Gone(p, where)
  BY GoneTo
<1>2. Inside(p)
  BY DEF Inside, InsidePcs
<1>3. LocksOf(p)'
  BY <1>1, <1>2, SameLocks DEF Gone
<1>4. LostOf(p)'
  BY <1>1, NotLost DEF LostOf, Gone, Advanced, Moved
<1>5. QED
  BY <1>1, <1>2, <1>3, <1>4, InsideStep DEF Gone, Advanced, Moved

(* A step that leaves the disk alone.                                      *)
LEMMA SameDisk ==
  ASSUME SessionInv, UNCHANGED <<lock, current, runs>> PROVE DiskTypes' /\ OpenWork'
BY DEF SessionInv, DiskTypes, OpenWork

(* Without an interrupted run nothing is open.                             *)
LEMMA NotInterrupted ==
  ASSUME SessionInv, ~Interrupted PROVE NothingOpen
BY NoneAssumption DEF SessionInv, OpenWork, NothingOpen, Interrupted

(* openRun: a new run with nothing open, or the interrupted run to resume  *)
(* or replace.                                                             *)
LEMMA OpenRunInv ==
  ASSUME SessionInv, NEW p \in Proc, OpenRun(p) PROVE SessionInv'
<1> USE DEF OpenRun
<1>0. session[p].pc \in Starting /\ Inside(p) /\ At(p, "open")
  BY DEF At, Starting, Inside, InsidePcs
<1>1. DiskTypes' /\ OpenWork' /\ UNCHANGED <<lock, current, runs, usurped>>
  BY SameDisk DEF disk, history
<1>2. CASE (Cmd(p).dryRun \/ ~Interrupted) /\ Goto(p, "create")
  <2>1. Gone(p, "create") => RunOf(p)'
    <3>1. Cmd(p).dryRun \/ NothingOpen
      BY <1>2, NotInterrupted
    <3>2. QED
      BY <3>1, <1>1 DEF Gone, Advanced, Moved, RunOf, NothingOpen, Cmd, At, AtWork
  <2>2. QED
    BY <1>0, <1>1, <1>2, <2>1, GotoStep DEF At, InsidePcs, Starting
<1>3. CASE /\ ~Cmd(p).dryRun /\ Interrupted
           /\ session' = [session EXCEPT ![p].run = current,
                                      ![p].pc = IF Resumes(p, current) THEN "set_run_id" ELSE "replace"]
  <2>1. current \in Runs /\ runs[current].report = FALSE
    BY <1>3 DEF SessionInv, DiskTypes, Interrupted, RunRecord
  <2>2. PICK where \in {"set_run_id", "replace"} :
          /\ Advanced(p, where, current, session[p].status, session[p].lost)
          /\ where = "set_run_id" => Resumes(p, current)
    <3>1. session \in [Proc -> SessionRecord] /\ session[p] \in SessionRecord
      BY DEF SessionInv, SessionTypes
    <3>2. PICK where \in {"set_run_id", "replace"} : 
            /\ session' = [session EXCEPT ![p].run = current, ![p].pc = where]
            /\ where = "set_run_id" => Resumes(p, current)
      BY <1>3
    <3>3. where \in InsidePcs
      BY DEF InsidePcs, Starting
    <3>4. QED
      BY <3>1, <3>2, <3>3, <2>1 DEF SessionRecord, Advanced, Moved
  <2>3. LocksOf(p)'
    BY <1>0, <1>1, <2>2, SameLocks DEF InsidePcs, Starting, At
  <2>4. LostOf(p)'
    BY <1>0, <2>2, NotLost DEF LostOf, Advanced, Moved
  <2>5. RunOf(p)'
    <3>1. CASE where = "replace"
      BY <1>1, <1>3, <2>1, <2>2, <3>1 DEF RunOf, Advanced, Moved, At, AtWork, Run, Cmd
    <3>2. CASE where = "set_run_id"
      BY <1>1, <1>3, <2>1, <2>2, <3>2 DEF RunOf, Advanced, Moved, At, AtWork, Run, Cmd, Resumes, Defining
    <3>3. QED
      BY <3>1, <3>2
  <2>6. QED
    BY <1>0, <1>1, <2>2, <2>3, <2>4, <2>5, InsideStep DEF Advanced, Moved
<1>4. QED
  BY <1>2, <1>3

(* recoverReplaced, its checks.                                            *)
LEMMA ReplaceInv ==
  ASSUME SessionInv, NEW p \in Proc, Replace(p) PROVE SessionInv'
<1> USE DEF Replace
<1> DEFINE prev == runs[Run(p)]
           mine == Cmd(p).payload
           other == mine # NoPayload /\ prev.cmd.payload.kind # mine.kind
<1>0. session[p].pc \in Starting /\ Inside(p) /\ At(p, "replace") /\ session[p].pc = "replace"
  BY DEF At, Starting, Inside, InsidePcs
<1>1. UNCHANGED <<current, runs, usurped>>
  BY DEF history
<1>2. ~Cmd(p).dryRun /\ Run(p) = current /\ Run(p) \in Runs
  BY <1>0 DEF SessionInv, RunOf
<1>3. ASSUME lock' = lock PROVE DiskTypes' /\ OpenWork'
  BY <1>1, <1>3, SameDisk
<1>4. CASE ~prev.open /\ Goto(p, "create") /\ UNCHANGED lock
  <2>1. NothingOpen
    BY <1>2, <1>4 DEF SessionInv, OpenWork, NothingOpen
  <2>2. Gone(p, "create") => RunOf(p)'
    BY <2>1, <1>1 DEF Gone, Advanced, Moved, RunOf, NothingOpen, Cmd, At, AtWork
  <2>3. QED
    BY <1>0, <1>1, <1>3, <1>4, <2>2, GotoStep DEF InsidePcs, Starting, At
<1>5. CASE \E st \in {"needs_operator"} : StartFails(p, st)
  BY <1>0, <1>1, <1>5, FailedStart DEF Statuses
<1>6. CASE prev.open /\ prev.cmd.payload = mine /\ Goto(p, "recover_replaced") /\ UNCHANGED lock
  <2>1. prev.cmd.payload.root \in session[p].locks
    <3>1. prev.cmd \in Commands /\ prev.cmd.op # "scan" /\ Cmd(p) \in Commands
      BY <1>0, <1>2, <1>6, ProcAssumption
         DEF SessionInv, OpenWork, LocksOf, Running
    <3>2. Cmd(p).op # "scan"
      BY <1>6, <3>1, CommandAssumption
    <3>3. QED
      BY <1>0, <1>2, <1>6, <3>2 DEF SessionInv, LocksOf, At
  <2>2. Gone(p, "recover_replaced") => RunOf(p)'
    BY <2>1, <1>1, <1>2 DEF Gone, Advanced, Moved, RunOf, Cmd, Run, At, AtWork
  <2>3. QED
    BY <1>0, <1>1, <1>3, <1>6, <2>2, GotoStep DEF InsidePcs, Starting, At
<1>7. CASE prev.open /\ other /\ Goto(p, "lock_other") /\ UNCHANGED lock
  <2>1. Gone(p, "lock_other") => RunOf(p)'
    BY <1>1, <1>2, <1>7 DEF Gone, Advanced, Moved, RunOf, Cmd, Run, At, AtWork
  <2>2. QED
    BY <1>0, <1>1, <1>3, <1>7, <2>1, GotoStep DEF InsidePcs, Starting, At
<1>8. QED
  BY <1>4, <1>5, <1>6, <1>7

(* lockOtherMirror: the root of the other payload joins the locks.         *)
LEMMA LockOtherInv ==
  ASSUME SessionInv, NEW p \in Proc, LockOther(p) PROVE SessionInv'
<1> USE DEF LockOther
<1> DEFINE root == runs[Run(p)].cmd.payload.root
<1>0. session[p].pc \in Starting /\ Inside(p) /\ At(p, "lock_other") /\ session[p].pc = "lock_other"
  BY DEF At, Starting, Inside, InsidePcs
<1>1. UNCHANGED <<current, runs, usurped>>
  BY DEF history
<1>2. ~Cmd(p).dryRun /\ Run(p) = current /\ Run(p) \in Runs /\ runs[Run(p)].open
  BY <1>0 DEF SessionInv, RunOf
<1>3. CASE root \in session[p].locks /\ Goto(p, "recover_replaced") /\ UNCHANGED lock
  <2>1. DiskTypes' /\ OpenWork'
    BY <1>1, <1>3, SameDisk
  <2>2. Gone(p, "recover_replaced") => RunOf(p)'
    BY <1>1, <1>2, <1>3 DEF Gone, Advanced, Moved, RunOf, Cmd, Run, At, AtWork
  <2>3. QED
    BY <1>0, <1>1, <1>3, <2>1, <2>2, GotoStep DEF InsidePcs, Starting, At
<1>4. CASE \E st \in {"needs_operator", "locked"} : StartFails(p, st)
  BY <1>0, <1>1, <1>4, FailedStart DEF Statuses
<1>5. CASE /\ root \in available \ session[p].locks /\ Free(root, p)
          /\ lock' = [lock EXCEPT ![root] = p]
          /\ session' = [session EXCEPT ![p].extra = root, ![p].pc = "recover_replaced"]
  <2>1. root \in Roots
    BY <1>2, RootOfCommand DEF SessionInv, OpenWork
  <2>2. Moved(p, "recover_replaced", session[p].locks, root, session[p].run, session[p].status, session[p].lost)
    <3>1. session \in [Proc -> SessionRecord] /\ session[p] \in SessionRecord
      BY DEF SessionInv, SessionTypes
    <3>2. QED
      BY <1>5, <2>1, <3>1 DEF SessionRecord, InsidePcs, Starting, Moved
  <2>3. DiskTypes' /\ OpenWork'
    BY <1>1, <1>5, <2>1 DEF SessionInv, DiskTypes, OpenWork, Runs
  <2>4. LocksOf(p)'
    <3>1. LocksOf(p) /\ Running(p)
      BY <1>0, ProcAssumption DEF SessionInv, Running
    <3>2. lock \in [Roots -> Runs \cup {None}]
      BY DEF SessionInv, DiskTypes
    <3>3. ~usurped => \A r \in Roots : r \in session[p].locks \cup {root} => lock'[r] = p
      BY <1>0, <1>5, <2>1, <3>1, <3>2 DEF LocksOf
    <3>4. QED
      BY <1>0, <1>1, <1>5, <2>2, <3>1, <3>3 DEF LocksOf, Moved, At, Cmd, Inside
  <2>5. RunOf(p)'
    BY <1>1, <1>2, <2>2 DEF Moved, RunOf, Cmd, Run, At, AtWork
  <2>6. LostOf(p)'
    BY <1>0, <2>2, NotLost DEF LostOf, Moved
  <2>7. QED
    BY <1>0, <1>1, <2>2, <2>3, <2>4, <2>5, <2>6, InsideStep DEF Moved
<1>6. QED
  BY <1>3, <1>4, <1>5

(* A recovery settles one run and leaves the others.                       *)
LEMMA SettledDisk ==
  ASSUME SessionInv, NEW r \in Runs, runs' = Settled(r), UNCHANGED <<lock, current>>
  PROVE  /\ DiskTypes' /\ OpenWork'
         /\ runs'[r].open = FALSE /\ runs'[r].cmd = runs[r].cmd /\ runs'[r].report = runs[r].report
         /\ \A q \in Runs : q # r => runs'[q] = runs[q]
<1>1. runs \in [Runs -> RunRecord] /\ runs[r] \in RunRecord
  BY DEF SessionInv, DiskTypes
<1>2. /\ runs' \in [Runs -> RunRecord]
      /\ runs'[r].open = FALSE /\ runs'[r].cmd = runs[r].cmd /\ runs'[r].report = runs[r].report
      /\ \A q \in Runs : q # r => runs'[q] = runs[q]
  BY <1>1 DEF Settled, RunRecord
<1>3. QED
  BY <1>2 DEF SessionInv, DiskTypes, OpenWork

(* recoverReplaced: the replaced run is settled, so nothing is open.       *)
LEMMA RecoverReplacedInv ==
  ASSUME SessionInv, NEW p \in Proc, RecoverReplaced(p) PROVE SessionInv'
<1> USE DEF RecoverReplaced
<1>0. session[p].pc \in Starting /\ Inside(p) /\ At(p, "recover_replaced") /\ session[p].pc = "recover_replaced"
  BY DEF At, Starting, Inside, InsidePcs
<1>1. UNCHANGED <<current, usurped>>
  BY DEF history
<1>2. Run(p) = current /\ Run(p) \in Runs
  BY <1>0 DEF SessionInv, RunOf
<1>3. CASE runs' = Settled(Run(p)) /\ Goto(p, "release_other") /\ UNCHANGED lock
  <2>1. DiskTypes' /\ OpenWork'
    BY <1>1, <1>2, <1>3, SettledDisk
  <2>2. NothingOpen'
    BY <1>1, <1>2, <1>3, SettledDisk DEF SessionInv, OpenWork, NothingOpen
  <2>3. Gone(p, "release_other") => RunOf(p)'
    BY <2>2 DEF Gone, Advanced, Moved, RunOf, At, AtWork
  <2>4. QED
    BY <1>0, <1>1, <1>3, <2>1, <2>3, GotoStep DEF InsidePcs, Starting, At
<1>4. CASE (\E st \in {"failed", "needs_operator"} : StartFails(p, st)) /\ UNCHANGED runs
  BY <1>0, <1>1, <1>4, FailedStart DEF Statuses
<1>5. QED
  BY <1>3, <1>4

(* The other root is released; it was not among the locks of the process   *)
(* itself.                                                                 *)
LEMMA ReleaseOtherInv ==
  ASSUME SessionInv, NEW p \in Proc, ReleaseOther(p) PROVE SessionInv'
<1> USE DEF ReleaseOther
<1> DEFINE root == session[p].extra
<1>0. session[p].pc \in Starting /\ Inside(p) /\ At(p, "release_other") /\ session[p].pc = "release_other"
  BY DEF At, Starting, Inside, InsidePcs
<1>1. UNCHANGED <<current, runs, usurped>>
  BY DEF history
<1>2. Cmd(p).dryRun \/ NothingOpen
  BY <1>0 DEF SessionInv, RunOf
<1>3. CASE Goto(p, "create") /\ UNCHANGED lock
  <2>1. DiskTypes' /\ OpenWork'
    BY <1>1, <1>3, SameDisk
  <2>2. Gone(p, "create") => RunOf(p)'
    BY <1>1, <1>2 DEF Gone, Advanced, Moved, RunOf, NothingOpen, Cmd, At, AtWork
  <2>3. QED
    BY <1>0, <1>1, <1>3, <2>1, <2>2, GotoStep DEF InsidePcs, Starting, At
<1>4. CASE \E st \in {"needs_operator"} : StartFails(p, st)
  BY <1>0, <1>1, <1>4, FailedStart DEF Statuses
<1>5. CASE /\ root # None /\ lock[root] = p
          /\ lock' = [lock EXCEPT ![root] = None]
          /\ session' = [session EXCEPT ![p].extra = None, ![p].pc = "create"]
  <2>1. root \in Roots /\ lock \in [Roots -> Runs \cup {None}]
    BY <1>5 DEF SessionInv, SessionTypes, SessionRecord, DiskTypes
  <2>2. Moved(p, "create", session[p].locks, None, session[p].run, session[p].status, session[p].lost)
    <3>1. session \in [Proc -> SessionRecord] /\ session[p] \in SessionRecord
      BY DEF SessionInv, SessionTypes
    <3>2. QED
      BY <1>5, <3>1 DEF SessionRecord, InsidePcs, Starting, Moved
  <2>3. DiskTypes' /\ OpenWork'
    BY <1>1, <1>5, <2>1 DEF SessionInv, DiskTypes, OpenWork, Runs
  <2>4. LocksOf(p)'
    <3>1. LocksOf(p) /\ Running(p)
      BY <1>0, ProcAssumption DEF SessionInv, Running
    <3>2. None \notin session[p].locks
      BY NoneAssumption DEF SessionInv, SessionTypes, SessionRecord
    <3>3. ~usurped => \A r \in Roots : r \in session[p].locks => lock'[r] = p
      BY <1>0, <1>5, <2>1, <3>1 DEF LocksOf
    <3>4. QED
      BY <1>0, <1>1, <2>2, <3>1, <3>2, <3>3, NoneAssumption DEF LocksOf, Moved, At, Cmd, Inside
  <2>5. RunOf(p)'
    BY <1>1, <1>2, <2>2 DEF Moved, RunOf, NothingOpen, Cmd, Run, At, AtWork
  <2>6. LostOf(p)'
    BY <1>0, <2>2, NotLost DEF LostOf, Moved
  <2>7. QED
    BY <1>0, <1>1, <2>2, <2>3, <2>4, <2>5, <2>6, InsideStep DEF Moved
<1>6. QED
  BY <1>3, <1>4, <1>5

(* CreateRunDir: a run directory with nothing open.                        *)
LEMMA CreateRunInv ==
  ASSUME SessionInv, NEW p \in Proc, CreateRun(p) PROVE SessionInv'
<1> USE DEF CreateRun
<1>0. session[p].pc \in Starting /\ Inside(p) /\ At(p, "create") /\ session[p].pc = "create"
  BY DEF At, Starting, Inside, InsidePcs
<1>1. UNCHANGED <<lock, current, usurped>>
  BY DEF history
<1>2. Cmd(p).dryRun \/ NothingOpen
  BY <1>0 DEF SessionInv, RunOf
<1>3. p \in Runs /\ Cmd(p) \in Commands
  BY <1>0, ProcAssumption DEF Runs, SessionInv, LocksOf, Running
<1>4. /\ runs' \in [Runs -> RunRecord]
      /\ runs'[p].cmd = Cmd(p) /\ runs'[p].open = FALSE /\ runs'[p].report = FALSE
      /\ \A r \in Runs : r # p => runs'[r] = runs[r]
  <2>1. runs \in [Runs -> RunRecord]
    BY DEF SessionInv, DiskTypes
  <2>2. QED
    BY <1>3, <2>1 DEF NoRun, RunRecord
<1>5. DiskTypes' /\ OpenWork'
  BY <1>1, <1>3, <1>4 DEF SessionInv, DiskTypes, OpenWork
<1>6. PICK where \in {"set_run_id", "write_current"} :
        /\ Advanced(p, where, p, session[p].status, session[p].lost)
        /\ where = "set_run_id" => Cmd(p).dryRun
        /\ where = "write_current" => ~Cmd(p).dryRun
  <2>1. session \in [Proc -> SessionRecord] /\ session[p] \in SessionRecord
    BY DEF SessionInv, SessionTypes
  <2>2. PICK where \in {"set_run_id", "write_current"} :
          /\ session' = [session EXCEPT ![p].run = p, ![p].pc = where]
          /\ where = "set_run_id" => Cmd(p).dryRun
          /\ where = "write_current" => ~Cmd(p).dryRun
    OBVIOUS
  <2>3. where \in InsidePcs
    BY DEF InsidePcs, Starting
  <2>4. Advanced(p, where, p, session[p].status, session[p].lost)
    BY <2>2, <2>3, <1>3, RunChosen
  <2>5. QED
    BY <2>2, <2>4
<1>7. LocksOf(p)'
  BY <1>0, <1>1, <1>6, SameLocks DEF InsidePcs, Starting, At
<1>8. LostOf(p)'
  BY <1>0, <1>6, NotLost DEF LostOf, Advanced, Moved
<1>9. RunOf(p)'
  <2>1. CASE where = "set_run_id"
    BY <1>1, <1>3, <1>4, <1>6, <2>1 DEF RunOf, Advanced, Moved, At, AtWork, Run, Cmd, Defining
  <2>2. CASE where = "write_current"
    <3>1. NothingOpen'
      BY <1>2, <1>4, <1>6, <2>2 DEF NothingOpen
    <3>2. QED
      BY <3>1, <1>1, <1>3, <1>4, <1>6, <2>2 DEF RunOf, Advanced, Moved, At, AtWork, Run, Cmd
  <2>3. QED
    BY <2>1, <2>2
<1>10. QED
  BY <1>0, <1>1, <1>5, <1>6, <1>7, <1>8, <1>9, InsideStep DEF Advanced, Moved

(* WriteCurrent: current moves while nothing is open.                      *)
LEMMA WriteCurrentInv ==
  ASSUME SessionInv, NEW p \in Proc, WriteCurrent(p) PROVE SessionInv'
<1> USE DEF WriteCurrent
<1>0. session[p].pc \in Starting /\ Inside(p) /\ At(p, "write_current") /\ session[p].pc = "write_current"
  BY DEF At, Starting, Inside, InsidePcs
<1>1. UNCHANGED <<runs, usurped>>
  BY DEF history
<1>2. p \in Runs /\ Cmd(p) \in Commands
  BY <1>0, ProcAssumption DEF Runs, SessionInv, LocksOf, Running
<1>3. /\ ~Cmd(p).dryRun /\ current' = p /\ Run(p) = p
      /\ NothingOpen /\ runs[p].cmd = Cmd(p) /\ ~runs[p].report
  BY <1>0 DEF SessionInv, RunOf
<1>4. OpenWork' /\ current' \in Runs \cup {None} /\ runs' \in [Runs -> RunRecord]
  BY <1>1, <1>2, <1>3 DEF SessionInv, DiskTypes, OpenWork, NothingOpen
<1>5. CASE Goto(p, "set_run_id") /\ UNCHANGED lock
  <2>1. DiskTypes'
    BY <1>4, <1>5 DEF SessionInv, DiskTypes
  <2>2. Gone(p, "set_run_id") => RunOf(p)'
    BY <1>1, <1>2, <1>3 DEF Gone, Advanced, Moved, RunOf, Cmd, Run, At, AtWork, Defining, NothingOpen
  <2>3. QED
    BY <1>0, <1>1, <1>4, <1>5, <2>1, <2>2, GotoStep DEF InsidePcs, Starting, At
<1>6. CASE \E st \in {"failed"} : StartFails(p, st)
  BY <1>0, <1>1, <1>4, <1>6, FailedAnywhere DEF Statuses
<1>7. QED
  BY <1>5, <1>6

(* Any other failure of a start.                                           *)
LEMMA StartErrsInv ==
  ASSUME SessionInv, NEW p \in Proc, StartErrs(p) PROVE SessionInv'
<1>1. Inside(p)
  BY DEF StartErrs, At, Inside, InsidePcs, Starting
<1>2. QED
  BY <1>1, FailedStart DEF StartErrs, Statuses, history

(* SetRunID on every lock.                                                 *)
LEMMA SetRunIDsInv ==
  ASSUME SessionInv, NEW p \in Proc, SetRunIDs(p) PROVE SessionInv'
<1> USE DEF SetRunIDs
<1>0. session[p].pc \in Starting /\ Inside(p) /\ At(p, "set_run_id") /\ session[p].pc = "set_run_id"
  BY DEF At, Starting, Inside, InsidePcs
<1>1. UNCHANGED <<current, runs, usurped>>
  BY DEF history
<1>2. CASE Goto(p, "recover") /\ UNCHANGED lock
  <2>1. DiskTypes' /\ OpenWork'
    BY <1>1, <1>2, SameDisk
  <2>2. Gone(p, "recover") => RunOf(p)'
    <3>1. RunOf(p)
      BY DEF SessionInv
    <3>2. QED
      BY <1>0, <1>1, <3>1 DEF Gone, Advanced, Moved, RunOf, Cmd, Run, At, AtWork
  <2>3. QED
    BY <1>0, <1>1, <1>2, <2>1, <2>2, GotoStep DEF InsidePcs, Starting, At
<1>3. CASE \E st \in {"needs_operator"} : StartFails(p, st)
  BY <1>0, <1>1, <1>3, FailedStart DEF Statuses
<1>4. QED
  BY <1>2, <1>3

(* recoverWAL on the run of the process.                                   *)
LEMMA RecoverRunInv ==
  ASSUME SessionInv, NEW p \in Proc, RecoverRun(p) PROVE SessionInv'
<1> USE DEF RecoverRun
<1>0. session[p].pc \in Starting /\ Inside(p) /\ At(p, "recover") /\ session[p].pc = "recover"
  BY DEF At, Starting, Inside, InsidePcs
<1>1. UNCHANGED <<current, usurped>>
  BY DEF history
<1>2. CASE runs' = Settled(Run(p)) /\ Goto(p, "first_checkpoint") /\ UNCHANGED lock
  <2>1. Run(p) \in Runs /\ RunOf(p)
    BY <1>0 DEF SessionInv, RunOf, AtWork
  <2>2. /\ DiskTypes' /\ OpenWork'
        /\ runs'[Run(p)].open = FALSE /\ runs'[Run(p)].cmd = runs[Run(p)].cmd
        /\ runs'[Run(p)].report = runs[Run(p)].report
    BY <1>1, <1>2, <2>1, SettledDisk
  <2>3. Gone(p, "first_checkpoint") => RunOf(p)'
    BY <1>0, <1>1, <2>1, <2>2 DEF Gone, Advanced, Moved, RunOf, Cmd, Run, At, AtWork, Defining
  <2>4. QED
    BY <1>0, <1>1, <1>2, <2>2, <2>3, GotoStep DEF InsidePcs, Starting, At
<1>3. CASE UNCHANGED runs /\ \E st \in {"failed", "needs_operator"} : StartFails(p, st)
  BY <1>0, <1>1, <1>3, FailedStart DEF Statuses
<1>4. QED
  BY <1>2, <1>3

(* A checkpoint changes nothing but the checkpoint.                        *)
LEMMA CheckpointDisk ==
  ASSUME SessionInv, NEW p \in Proc, NEW final \in BOOLEAN, Run(p) \in Runs,
         runs' = Checkpointed(p, final), UNCHANGED <<lock, current>>
  PROVE  /\ DiskTypes' /\ OpenWork'
         /\ \A r \in Runs : runs'[r].open = runs[r].open /\ runs'[r].cmd = runs[r].cmd
                            /\ runs'[r].report = runs[r].report
<1> DEFINE cp == [by |-> p, final |-> final]
<1>1. runs \in [Runs -> RunRecord] /\ runs[Run(p)] \in RunRecord
  BY DEF SessionInv, DiskTypes
<1>2. cp \in [by : Proc, final : BOOLEAN]
  OBVIOUS
<1>3. runs' = [runs EXCEPT ![Run(p)].cp = cp]
  BY DEF Checkpointed
<1> HIDE DEF cp
<1>4. runs' \in [Runs -> RunRecord]
  BY <1>1, <1>2, <1>3 DEF RunRecord
<1>5. \A r \in Runs : runs'[r].open = runs[r].open /\ runs'[r].cmd = runs[r].cmd
                      /\ runs'[r].report = runs[r].report
  BY <1>1, <1>3 DEF RunRecord
<1>6. QED
  BY <1>4, <1>5 DEF SessionInv, DiskTypes, OpenWork

(* The first checkpoint.                                                   *)
LEMMA FirstCheckpointInv ==
  ASSUME SessionInv, NEW p \in Proc, FirstCheckpoint(p) PROVE SessionInv'
<1> USE DEF FirstCheckpoint
<1>0. session[p].pc \in Starting /\ Inside(p) /\ At(p, "first_checkpoint") /\ session[p].pc = "first_checkpoint"
  BY DEF At, Starting, Inside, InsidePcs
<1>1. UNCHANGED <<current, usurped>>
  BY DEF history
<1>2. CASE runs' = Checkpointed(p, FALSE) /\ Goto(p, "body") /\ UNCHANGED lock
  <2>1. Run(p) \in Runs /\ RunOf(p)
    BY <1>0 DEF SessionInv, RunOf, AtWork
  <2>2. /\ DiskTypes' /\ OpenWork'
        /\ runs'[Run(p)].open = runs[Run(p)].open /\ runs'[Run(p)].cmd = runs[Run(p)].cmd
        /\ runs'[Run(p)].report = runs[Run(p)].report
    BY <1>1, <1>2, <2>1, CheckpointDisk
  <2>3. Gone(p, "body") => RunOf(p)'
    BY <1>0, <1>1, <2>1, <2>2 DEF Gone, Advanced, Moved, RunOf, Cmd, Run, At, AtWork, Defining
  <2>4. QED
    BY <1>0, <1>1, <1>2, <2>2, <2>3, GotoStep DEF InsidePcs, Starting, At
<1>3. CASE UNCHANGED runs /\ \E st \in {"failed", "needs_operator"} : StartFails(p, st)
  BY <1>0, <1>1, <1>3, FailedStart DEF Statuses
<1>4. QED
  BY <1>2, <1>3

(* A transaction is opened in the current run only.                        *)
LEMMA OpenTransactionInv ==
  ASSUME SessionInv, NEW p \in Proc, OpenTransaction(p) PROVE SessionInv'
<1> USE DEF OpenTransaction
<1>0. session[p].pc = "body" /\ Inside(p) /\ UNCHANGED <<lock, current, session, usurped>>
  BY DEF At, Inside, InsidePcs, history
<1>1. /\ Run(p) \in Runs /\ Run(p) = current /\ ~runs[current].report
      /\ Defining(runs[current].cmd) = Defining(Cmd(p)) /\ RunOf(p)
  BY <1>0 DEF SessionInv, RunOf, AtWork, At
<1>2. /\ runs' \in [Runs -> RunRecord]
      /\ runs'[current].cmd = runs[current].cmd /\ runs'[current].report = runs[current].report
      /\ \A r \in Runs : r # current => runs'[r] = runs[r]
  <2>1. runs \in [Runs -> RunRecord] /\ runs[current] \in RunRecord
    BY <1>1 DEF SessionInv, DiskTypes
  <2>2. QED
    BY <1>1, <2>1 DEF RunRecord
<1>3. runs[current].cmd.op # "scan"
  BY <1>1 DEF Defining
<1>4. DiskTypes' /\ OpenWork'
  BY <1>0, <1>1, <1>2, <1>3 DEF SessionInv, DiskTypes, OpenWork
<1>5. RunOf(p)'
  BY <1>0, <1>1, <1>2 DEF RunOf, AtWork, At, Run, Cmd, Defining
<1>6. LocksOf(p)' /\ LostOf(p)'
  BY <1>0 DEF SessionInv, LocksOf, LostOf, At, Cmd, Running, Inside
<1>7. QED
  BY <1>0, <1>4, <1>5, <1>6, InsideStep DEF SessionInv, SessionTypes

(* A transaction is settled.                                               *)
LEMMA SettleTransactionInv ==
  ASSUME SessionInv, NEW p \in Proc, SettleTransaction(p) PROVE SessionInv'
<1> USE DEF SettleTransaction
<1>0. session[p].pc = "body" /\ Inside(p) /\ UNCHANGED <<lock, current, session, usurped>>
  BY DEF At, Inside, InsidePcs, history
<1>1. Run(p) \in Runs /\ RunOf(p)
  BY <1>0 DEF SessionInv, RunOf, AtWork
<1>2. /\ DiskTypes' /\ OpenWork'
      /\ runs'[Run(p)].open = FALSE /\ runs'[Run(p)].cmd = runs[Run(p)].cmd
      /\ runs'[Run(p)].report = runs[Run(p)].report
  BY <1>0, <1>1, SettledDisk
<1>3. RunOf(p)'
  BY <1>0, <1>1, <1>2 DEF RunOf, AtWork, At, Run, Cmd, Defining
<1>4. LocksOf(p)' /\ LostOf(p)'
  BY <1>0 DEF SessionInv, LocksOf, LostOf, At, Cmd, Running, Inside
<1>5. QED
  BY <1>0, <1>2, <1>3, <1>4, InsideStep DEF SessionInv, SessionTypes

(* A checkpoint in the body, or the discovery that a lock is lost.         *)
LEMMA BodyCheckpointInv ==
  ASSUME SessionInv, NEW p \in Proc, BodyCheckpoint(p) PROVE SessionInv'
<1> USE DEF BodyCheckpoint
<1>0. session[p].pc = "body" /\ Inside(p) /\ UNCHANGED <<lock, current, usurped>>
  BY DEF At, Inside, InsidePcs, history
<1>1. Run(p) \in Runs /\ RunOf(p)
  BY <1>0 DEF SessionInv, RunOf, AtWork
<1>2. CASE runs' = Checkpointed(p, FALSE) /\ UNCHANGED session
  <2>1. /\ DiskTypes' /\ OpenWork'
        /\ runs'[Run(p)].open = runs[Run(p)].open /\ runs'[Run(p)].cmd = runs[Run(p)].cmd
        /\ runs'[Run(p)].report = runs[Run(p)].report
    BY <1>0, <1>1, <1>2, CheckpointDisk
  <2>2. RunOf(p)'
    BY <1>0, <1>1, <1>2, <2>1 DEF RunOf, AtWork, At, Run, Cmd, Defining
  <2>3. LocksOf(p)' /\ LostOf(p)'
    BY <1>0, <1>2 DEF SessionInv, LocksOf, LostOf, At, Cmd, Running, Inside
  <2>4. QED
    BY <1>0, <1>2, <2>1, <2>2, <2>3, InsideStep DEF SessionInv, SessionTypes
<1>3. CASE /\ UNCHANGED runs
           /\ session' = [session EXCEPT ![p].pc = OutOfBody(p), ![p].status = "needs_operator",
                                         ![p].lost = "body"]
  <2>1. PICK out \in {"draining", "final_checkpoint"} :
          Advanced(p, out, session[p].run, "needs_operator", "body")
    <3>1. session \in [Proc -> SessionRecord] /\ session[p] \in SessionRecord
      BY DEF SessionInv, SessionTypes
    <3>2. PICK out \in {"draining", "final_checkpoint"} : out = OutOfBody(p)
      BY DEF OutOfBody
    <3>3. QED
      BY <1>3, <3>1, <3>2 DEF SessionRecord, InsidePcs, Ending, Statuses, Moved, Advanced
  <2>2. DiskTypes' /\ OpenWork'
    BY <1>0, <1>3, SameDisk
  <2>3. LocksOf(p)'
    BY <1>0, <2>1, SameLocks DEF InsidePcs, Ending, Starting, At
  <2>4. RunOf(p)'
    BY <1>0, <1>1, <1>3, <2>1 DEF RunOf, AtWork, At, Run, Cmd, Defining, Reportable, Moved, Advanced
  <2>5. LostOf(p)'
    BY <2>1 DEF LostOf, Moved, Advanced, Ending, At
  <2>6. QED
    BY <1>0, <2>1, <2>2, <2>3, <2>4, <2>5, InsideStep DEF Moved, Advanced
<1>4. QED
  BY <1>2, <1>3

(* The body ends; with a status to report nothing is open.                 *)
LEMMA BodyEndsInv ==
  ASSUME SessionInv, NEW p \in Proc, BodyEnds(p) PROVE SessionInv'
<1>0. session[p].pc = "body" /\ Inside(p) /\ UNCHANGED <<lock, current, runs, usurped>>
  BY DEF BodyEnds, At, Inside, InsidePcs, disk, history
<1>1. Run(p) \in Runs /\ RunOf(p)
  BY <1>0 DEF SessionInv, RunOf, AtWork
<1>2. PICK st \in Statuses \ {None, "locked"} :
       /\ st \in {"completed", "partial", "insufficient_space"} => ~runs[Run(p)].open
       /\ session' = [session EXCEPT ![p].pc = OutOfBody(p), ![p].status = st]
  BY DEF BodyEnds
<1>3. PICK out \in {"draining", "final_checkpoint"} :
        Advanced(p, out, session[p].run, st, session[p].lost)
  <2>1. session \in [Proc -> SessionRecord] /\ session[p] \in SessionRecord
    BY DEF SessionInv, SessionTypes
  <2>2. PICK out \in {"draining", "final_checkpoint"} : out = OutOfBody(p)
    BY DEF OutOfBody
  <2>3. QED
    BY <1>2, <2>1, <2>2 DEF SessionRecord, InsidePcs, Ending, Moved, Advanced
<1>4. DiskTypes' /\ OpenWork'
  BY <1>0, SameDisk
<1>5. LocksOf(p)'
  BY <1>0, <1>3, SameLocks DEF InsidePcs, Ending, Starting, At
<1>6. RunOf(p)'
  BY <1>0, <1>1, <1>2, <1>3 DEF RunOf, AtWork, At, Run, Cmd, Defining, Reportable, Moved, Advanced
<1>7. LostOf(p)'
  BY <1>0, <1>3, NotLost DEF LostOf, Moved, Advanced
<1>8. QED
  BY <1>0, <1>3, <1>4, <1>5, <1>6, <1>7, InsideStep DEF Moved, Advanced

(* A step of Finish that goes on.                                          *)
LEMMA EndingStep ==
  ASSUME SessionInv, NEW p \in Proc, session[p].pc \in Ending, NEW where \in Ending, NEW st, NEW lo,
         Advanced(p, where, session[p].run, st, lo), DiskTypes', OpenWork', UNCHANGED <<lock, usurped>>,
         RunOf(p)', lo # None => st = "needs_operator",
         where \in {"draining", "final_checkpoint"} => lo \in {None, "body"}
  PROVE SessionInv'
<1>1. Inside(p) /\ where \in InsidePcs \ {"lock_mirror"} /\ ~At(p, "lock_mirror")
  BY DEF Inside, InsidePcs, Ending, Starting, At
<1>2. LocksOf(p)'
  BY <1>1, SameLocks
<1>3. LostOf(p)'
  BY DEF LostOf, Advanced, Moved, At
<1>4. QED
  BY <1>1, <1>2, <1>3, InsideStep DEF Advanced, Moved

(* What Finish makes of a status after a failure.                          *)
LEMMA EscalateFields ==
  ASSUME SessionInv, NEW p \in Proc, NEW lockLost \in BOOLEAN, NEW where \in Ending,
         Escalate(p, lockLost, where)
  PROVE  /\ Advanced(p, where, session[p].run, Escalated(session[p].status, lockLost),
                     IF lockLost THEN "late" ELSE session[p].lost)
         /\ Escalated(session[p].status, lockLost) \in {"needs_operator", "interrupted", "failed"}
         /\ lockLost \/ session[p].status = "needs_operator" =>
              Escalated(session[p].status, lockLost) = "needs_operator"
<1> DEFINE st == Escalated(session[p].status, lockLost)
           lo == IF lockLost THEN "late" ELSE session[p].lost
<1>1. session \in [Proc -> SessionRecord] /\ session[p] \in SessionRecord
  BY DEF SessionInv, SessionTypes
<1>2. st \in {"needs_operator", "interrupted", "failed"} /\ st \in Statuses
  BY DEF Escalated, Statuses
<1>3. lo \in {None, "body", "late"}
  BY <1>1 DEF SessionRecord
<1>4. lockLost \/ session[p].status = "needs_operator" => st = "needs_operator"
  BY DEF Escalated
<1>5. session' = [session EXCEPT ![p] = [session[p] EXCEPT !.pc = where, !.status = st, !.lost = lo]]
  BY <1>1 DEF Escalate, SessionRecord
<1>6. Advanced(p, where, session[p].run, st, lo)
  <2> HIDE DEF st, lo
  <2>1. where \in InsidePcs
    BY DEF InsidePcs
  <2>2. QED
    BY <1>1, <1>2, <1>3, <1>5, <2>1 DEF SessionRecord, Moved, Advanced
<1>7. QED
  BY <1>2, <1>4, <1>6

(* The preview worker is done.                                             *)
LEMMA DrainedInv ==
  ASSUME SessionInv, NEW p \in Proc, Drained(p) PROVE SessionInv'
<1>0. session[p].pc = "draining" /\ session[p].pc \in Ending /\ Running(p) /\ "final_checkpoint" \in InsidePcs
  BY ProcAssumption DEF Drained, At, Ending, Running, InsidePcs
<1>1. UNCHANGED <<lock, current, runs, usurped>> /\ Run(p) \in Runs /\ RunOf(p) /\ LostOf(p)
  BY <1>0 DEF Drained, SessionInv, RunOf, AtWork, disk, history
<1>2. Gone(p, "final_checkpoint")
  BY <1>0, GoneTo DEF Drained
<1>3. DiskTypes' /\ OpenWork'
  BY <1>1, SameDisk
<1>4. RunOf(p)'
  BY <1>0, <1>1, <1>2 DEF RunOf, AtWork, At, Run, Cmd, Defining, Reportable, Gone, Advanced, Moved
<1>5. QED
  BY <1>0, <1>1, <1>2, <1>3, <1>4, EndingStep DEF Gone, LostOf, Ending

(* The final checkpoint.                                                   *)
LEMMA FinalCheckpointInv ==
  ASSUME SessionInv, NEW p \in Proc, FinalCheckpoint(p) PROVE SessionInv'
<1> USE DEF FinalCheckpoint
<1>0. session[p].pc = "final_checkpoint" /\ session[p].pc \in Ending /\ Running(p) /\ "report" \in InsidePcs
  BY ProcAssumption DEF At, Ending, Running, InsidePcs
<1>1. UNCHANGED <<lock, current, usurped>> /\ Run(p) \in Runs /\ RunOf(p) /\ LostOf(p)
  BY <1>0 DEF SessionInv, RunOf, AtWork, history
<1>2. CASE Goto(p, "report") /\ UNCHANGED runs
  <2>1. Gone(p, "report")
    BY <1>0, <1>2, GoneTo
  <2>2. DiskTypes' /\ OpenWork'
    BY <1>1, <1>2, SameDisk
  <2>3. RunOf(p)'
    BY <1>0, <1>1, <1>2, <2>1 DEF RunOf, AtWork, At, Run, Cmd, Defining, Reportable, Gone, Advanced, Moved
  <2>4. QED
    BY <1>0, <1>1, <2>1, <2>2, <2>3, EndingStep DEF Gone, LostOf, Ending
<1>3. CASE runs' = Checkpointed(p, TRUE) /\ Goto(p, "report")
  <2>1. Gone(p, "report")
    BY <1>0, <1>3, GoneTo
  <2>2. /\ DiskTypes' /\ OpenWork'
        /\ runs'[Run(p)].open = runs[Run(p)].open /\ runs'[Run(p)].cmd = runs[Run(p)].cmd
        /\ runs'[Run(p)].report = runs[Run(p)].report
    BY <1>1, <1>3, CheckpointDisk
  <2>3. RunOf(p)'
    BY <1>0, <1>1, <2>1, <2>2 DEF RunOf, AtWork, At, Run, Cmd, Defining, Reportable, Gone, Advanced, Moved
  <2>4. QED
    BY <1>0, <1>1, <2>1, <2>2, <2>3, EndingStep DEF Gone, LostOf, Ending
<1>4. CASE session[p].lost = None /\ Escalate(p, ~Holds(p), "report") /\ UNCHANGED runs
  <2>1. PICK st \in {"needs_operator", "interrupted", "failed"}, lo \in {None, "late"} :
          Advanced(p, "report", session[p].run, st, lo) /\ (lo # None => st = "needs_operator")
    BY <1>4, EscalateFields DEF Ending, Holds
  <2>2. DiskTypes' /\ OpenWork'
    BY <1>1, <1>4, SameDisk
  <2>3. RunOf(p)'
    BY <1>0, <1>1, <1>4, <2>1 DEF RunOf, AtWork, At, Run, Cmd, Defining, Reportable, Advanced, Moved
  <2>4. QED
    BY <1>0, <1>1, <2>1, <2>2, <2>3, EndingStep DEF Ending
<1>5. QED
  BY <1>2, <1>3, <1>4

(* The report is written when nothing is open.                             *)
LEMMA WriteReportInv ==
  ASSUME SessionInv, NEW p \in Proc, WriteReport(p) PROVE SessionInv'
<1> USE DEF WriteReport
<1>0. session[p].pc = "report" /\ session[p].pc \in Ending /\ Running(p) /\ "release" \in InsidePcs
  BY ProcAssumption DEF At, Ending, Running, InsidePcs
<1>1. UNCHANGED <<lock, current, usurped>> /\ Run(p) \in Runs /\ RunOf(p) /\ LostOf(p)
  BY <1>0 DEF SessionInv, RunOf, AtWork, history
<1>2. DiskTypes' /\ OpenWork'
  <2>1. CASE UNCHANGED runs
    BY <1>1, <2>1, SameDisk
  <2>2. CASE Reports(p) /\ runs' = Reported(p)
    <3>1. ~runs[Run(p)].open
      BY <1>0, <1>1, <2>2 DEF Reports, RunOf, AtWork
    <3>2. runs \in [Runs -> RunRecord] /\ runs[Run(p)] \in RunRecord
      BY <1>1 DEF SessionInv, DiskTypes
    <3>3. /\ runs' \in [Runs -> RunRecord]
          /\ \A r \in Runs : r # Run(p) => runs'[r] = runs[r]
          /\ runs'[Run(p)].open = runs[Run(p)].open /\ runs'[Run(p)].cmd = runs[Run(p)].cmd
      BY <1>1, <2>2, <3>2 DEF Reported, RunRecord
    <3>4. QED
      BY <1>1, <3>1, <3>3 DEF SessionInv, DiskTypes, OpenWork
  <2>3. QED
    BY <2>1, <2>2
<1>3. CASE Goto(p, "release")
  <2>1. Gone(p, "release")
    BY <1>0, <1>3, GoneTo
  <2>2. RunOf(p)'
    BY <2>1 DEF RunOf, AtWork, At, Gone, Advanced, Moved
  <2>3. QED
    BY <1>0, <1>1, <1>2, <2>1, <2>2, EndingStep DEF Gone, LostOf, Ending
<1>4. CASE Escalate(p, FALSE, "release")
  <2>1. PICK st \in {"needs_operator", "interrupted", "failed"} :
          /\ Advanced(p, "release", session[p].run, st, session[p].lost)
          /\ session[p].status = "needs_operator" => st = "needs_operator"
    BY <1>4, EscalateFields DEF Ending
  <2>2. RunOf(p)'
    BY <2>1 DEF RunOf, AtWork, At, Advanced, Moved
  <2>3. QED
    BY <1>0, <1>1, <1>2, <2>1, <2>2, EndingStep DEF LostOf, Ending
<1>5. QED
  BY <1>3, <1>4

(* The locks are released, or kept for the operator.                       *)
LEMMA ReleaseLocksInv ==
  ASSUME SessionInv, NEW p \in Proc, ReleaseLocks(p) PROVE SessionInv'
<1>0. Inside(p) /\ UNCHANGED <<current, runs, usurped>>
  BY DEF ReleaseLocks, At, Inside, InsidePcs, Ending, history
<1>1. session[p] \in SessionRecord
  BY DEF SessionInv, SessionTypes
<1>2. lock' = lock \/ lock' = Released(p)
  BY DEF ReleaseLocks
<1>3. DiskTypes' /\ OpenWork'
  BY <1>0, <1>2, ReleasedType DEF SessionInv, DiskTypes, OpenWork
<1>4. \E st \in Statuses, kept \in SUBSET Roots : Exit(p, st, kept)
  BY <1>1 DEF ReleaseLocks, SessionRecord, Statuses, Escalated
<1>5. PICK s \in SessionRecord : s.pc = "exited" /\ session' = [session EXCEPT ![p] = s]
  BY <1>4, ExitRecord DEF Exit
<1>6. QED
  BY <1>0, <1>3, <1>5, EndStep

(* The parts of the invariant on the processes that did not move.          *)
LEMMA OthersKept ==
  ASSUME SessionInv, NEW p \in Proc, \A q \in Proc : q # p => session'[q] = session[q],
         UNCHANGED <<current, runs, usurped>>,
         lock' = lock \/ \A q \in Proc : ~Inside(q)
  PROVE  \A q \in Proc : q # p => LocksOf(q)' /\ RunOf(q)' /\ LostOf(q)'
<1> SUFFICES ASSUME NEW q \in Proc, q # p PROVE LocksOf(q)' /\ RunOf(q)' /\ LostOf(q)'
  OBVIOUS
<1>1. session'[q] = session[q] /\ LocksOf(q) /\ RunOf(q) /\ LostOf(q)
  BY DEF SessionInv
<1>2. LocksOf(q)'
  BY <1>1 DEF LocksOf, Inside, Running, At, Cmd, InsidePcs, Starting
<1>3. RunOf(q)'
  BY <1>1 DEF RunOf, AtWork, At, Cmd, Run, NothingOpen, Reportable
<1>4. LostOf(q)'
  BY <1>1 DEF LostOf, Running, At
<1>5. QED
  BY <1>2, <1>3, <1>4

(* A process that ends or dies without a change to the disk.               *)
LEMMA OutsideEnd ==
  ASSUME SessionInv, NEW p \in Proc, NEW s \in SessionRecord, s.pc \in {"exited", "dead"},
         session' = [session EXCEPT ![p] = s], UNCHANGED <<lock, current, runs, usurped>>
  PROVE SessionInv'
<1>1. /\ session' \in [Proc -> SessionRecord] /\ session'[p] = s
      /\ \A q \in Proc : q # p => session'[q] = session[q]
  BY DEF SessionInv, SessionTypes
<1>2. ~Running(p)' /\ ~Inside(p)'
  BY <1>1 DEF Running, Inside, InsidePcs, Starting, Ending
<1>3. LocksOf(p)' /\ LostOf(p)' /\ RunOf(p)'
  BY <1>1, <1>2 DEF LocksOf, LostOf, RunOf, AtWork, At, Running
<1>4. Alone'
  BY <1>1, <1>2 DEF SessionInv, Alone, Inside, Running
<1>5. DiskTypes' /\ OpenWork' /\ SessionTypes'
  BY <1>1, SameDisk DEF SessionInv, SessionTypes
<1>6. QED
  BY <1>1, <1>3, <1>4, <1>5, OthersKept DEF SessionInv

(* A process is killed.                                                    *)
LEMMA CrashRunInv ==
  ASSUME SessionInv, NEW p \in Proc, CrashRun(p) PROVE SessionInv'
<1>1. session' = [session EXCEPT ![p] = Unborn("dead")] /\ UNCHANGED <<lock, current, runs, usurped>>
  BY DEF CrashRun, disk
<1>2. Unborn("dead") \in SessionRecord /\ Unborn("dead").pc = "dead"
  BY DEF Unborn, SessionRecord, Statuses
<1>3. QED
  BY <1>1, <1>2, OutsideEnd

(* A process is started.                                                   *)
LEMMA LaunchInv ==
  ASSUME SessionInv, NEW p \in Proc, NEW k \in Offered[p], Launch(p, k) PROVE SessionInv'
<1>1. k \in Commands
  BY DEF Commands, Runs
<1>2. /\ UNCHANGED <<lock, current, runs, usurped>> /\ ~usurped
      /\ session[p].pc = "unborn"
      /\ session' = [session EXCEPT ![p].pc = "lock_archive", ![p].cmd = k]
  BY DEF Launch, disk, history, At
<1>3. session \in [Proc -> SessionRecord] /\ session[p] \in SessionRecord
  BY DEF SessionInv, SessionTypes
<1>4. /\ session' \in [Proc -> SessionRecord]
      /\ session'[p].pc = "lock_archive" /\ session'[p].cmd = k
      /\ session'[p].locks = session[p].locks /\ session'[p].extra = session[p].extra
      /\ session'[p].lost = session[p].lost
      /\ \A q \in Proc : q # p => session'[q] = session[q]
  BY <1>1, <1>2, <1>3 DEF SessionRecord
<1>5. ~Inside(p)' /\ \A q \in Proc : q # p => Inside(q)' = Inside(q)
  BY <1>4 DEF Inside, InsidePcs, Starting, Ending
<1>6. Alone'
  BY <1>2, <1>5 DEF SessionInv, Alone
<1>7. LocksOf(p)' /\ LostOf(p)' /\ RunOf(p)'
  BY <1>1, <1>2, <1>4, <1>5 DEF SessionInv, LocksOf, LostOf, RunOf, AtWork, At, Cmd, Inside
<1>8. DiskTypes' /\ OpenWork' /\ SessionTypes'
  BY <1>2, <1>4, SameDisk DEF SessionInv, SessionTypes
<1>9. QED
  BY <1>2, <1>4, <1>6, <1>7, <1>8, OthersKept DEF SessionInv

(* LockArchive: whoever takes the archive lock finds nobody past it.       *)
LEMMA LockArchiveInv ==
  ASSUME SessionInv, NEW p \in Proc, LockArchive(p) PROVE SessionInv'
<1> USE DEF LockArchive
<1>0. session[p].pc = "lock_archive" /\ ~Inside(p) /\ Running(p) /\ UNCHANGED <<current, runs, usurped>>
  BY ProcAssumption DEF At, Inside, InsidePcs, Starting, Ending, Running, history
<1>1. Cmd(p) \in Commands /\ session[p].locks = {} /\ session[p].extra = None /\ session[p].lost = None
  BY <1>0 DEF SessionInv, LocksOf, LostOf, Ending, At
<1>2. CASE ~Free(ArchiveRoot, p) /\ StartFails(p, "locked")
  <2>1. lock' = lock
    <3>1. lock \in [Roots -> Runs \cup {None}]
      BY DEF SessionInv, DiskTypes
    <3>2. QED
      BY <1>1, <1>2, <3>1, NoneAssumption DEF StartFails, Released
  <2>2. PICK s \in SessionRecord : s.pc = "exited" /\ session' = [session EXCEPT ![p] = s]
    BY <1>2, ExitRecord DEF StartFails, Exit, Statuses
  <2>3. QED
    BY <1>0, <2>1, <2>2, OutsideEnd
<1>3. CASE /\ Free(ArchiveRoot, p)
          /\ Acquire(ArchiveRoot, p, IF Cmd(p).payload = NoPayload THEN "open" ELSE "lock_mirror")
  <2>1. \A q \in Proc : ~Inside(q)
    <3> SUFFICES ASSUME NEW q \in Proc, Inside(q) PROVE FALSE
      OBVIOUS
    <3>1. q # p /\ Running(q) /\ q \in Runs /\ q # None
      BY <1>0, ProcAssumption, NoneAssumption DEF Inside, Running, Runs, InsidePcs, Starting, Ending
    <3>2. ~usurped
      BY <1>0, <3>1 DEF SessionInv, Alone
    <3>3. lock[ArchiveRoot] = q
      BY <3>2 DEF SessionInv, LocksOf, Roots
    <3>4. QED
      BY <1>3, <3>1, <3>3 DEF Free
  <2>2. PICK where \in {"open", "lock_mirror"} :
          /\ session' = [session EXCEPT ![p].locks = @ \cup {ArchiveRoot}, ![p].pc = where]
          /\ where = "lock_mirror" => Cmd(p).payload # NoPayload
          /\ where = "open" => Cmd(p).payload = NoPayload
    BY <1>3 DEF Acquire
  <2>3. Cmd(p).op = "scan" <=> Cmd(p).payload = NoPayload
    BY <1>1, CommandAssumption
  <2>4. Moved(p, where, {ArchiveRoot}, None, session[p].run, session[p].status, None)
    <3>1. session \in [Proc -> SessionRecord] /\ session[p] \in SessionRecord
      BY DEF SessionInv, SessionTypes
    <3>2. where \in InsidePcs /\ {ArchiveRoot} \in SUBSET Roots
      BY DEF InsidePcs, Starting, Roots
    <3>3. QED
      BY <1>1, <2>2, <3>1, <3>2 DEF SessionRecord, Moved
  <2>5. DiskTypes' /\ OpenWork' /\ SessionTypes' /\ lock'[ArchiveRoot] = p
    BY <1>0, <1>3, <2>4 DEF SessionInv, DiskTypes, OpenWork, SessionTypes, Acquire, Runs, Roots, Moved
  <2>6. Alone'
    <3>1. \A q \in Proc : q # p => ~Inside(q)' /\ Running(q)' = Running(q)
      BY <2>1, <2>4 DEF Inside, Running, Moved
    <3>2. QED
      BY <1>0, <3>1 DEF SessionInv, Alone
  <2>7. LocksOf(p)'
    BY <1>0, <1>1, <2>2, <2>3, <2>4, <2>5, NoneAssumption DEF LocksOf, Moved, At, Cmd, Roots
  <2>8. RunOf(p)' /\ LostOf(p)'
    BY <2>4 DEF RunOf, LostOf, AtWork, At, Moved
  <2>9. QED
    BY <1>0, <2>1, <2>4, <2>5, <2>6, <2>7, <2>8, OthersKept DEF SessionInv, Moved
<1>4. QED
  BY <1>2, <1>3

(* LockMirror.                                                             *)
LEMMA LockMirrorInv ==
  ASSUME SessionInv, NEW p \in Proc, LockMirror(p) PROVE SessionInv'
<1> USE DEF LockMirror
<1> DEFINE root == Cmd(p).payload.root
<1>0. session[p].pc = "lock_mirror" /\ session[p].pc \in Starting /\ Inside(p) /\ Running(p)
      /\ UNCHANGED <<current, runs, usurped>>
  BY ProcAssumption DEF At, Inside, InsidePcs, Starting, Running, history
<1>1. /\ Cmd(p) \in Commands /\ session[p].extra = None /\ Cmd(p).op # "scan" /\ root \in Roots
      /\ LocksOf(p)
  BY <1>0, RootOfCommand DEF SessionInv, LocksOf, At
<1>2. CASE Cmd(p).dryRun /\ Goto(p, "open") /\ UNCHANGED lock
  <2>1. DiskTypes' /\ OpenWork'
    BY <1>0, <1>2, SameDisk
  <2>2. Gone(p, "open") => RunOf(p)'
    BY DEF Gone, Advanced, Moved, RunOf, At, AtWork
  <2>3. QED
    BY <1>0, <1>2, <2>1, <2>2, GotoStep DEF InsidePcs, Starting
<1>3. CASE StartFails(p, "locked")
  BY <1>0, <1>3, FailedStart DEF Statuses
<1>4. CASE Free(root, p) /\ Acquire(root, p, "open")
  <2>1. Moved(p, "open", session[p].locks \cup {root}, None, session[p].run, session[p].status, session[p].lost)
    <3>1. session \in [Proc -> SessionRecord] /\ session[p] \in SessionRecord
      BY DEF SessionInv, SessionTypes
    <3>2. "open" \in InsidePcs /\ session[p].locks \cup {root} \in SUBSET Roots
      BY <1>1, <3>1 DEF InsidePcs, Starting, SessionRecord
    <3>3. QED
      BY <1>1, <1>4, <3>1, <3>2 DEF SessionRecord, Moved, Acquire
  <2>2. DiskTypes' /\ OpenWork'
    BY <1>0, <1>1, <1>4 DEF SessionInv, DiskTypes, OpenWork, Acquire, Runs
  <2>3. LocksOf(p)'
    <3>1. lock \in [Roots -> Runs \cup {None}] /\ None \notin session[p].locks \cup {root}
      BY <1>1, NoneAssumption DEF SessionInv, DiskTypes, SessionTypes, SessionRecord
    <3>2. ~usurped => \A r \in Roots : r \in session[p].locks \cup {root} => lock'[r] = p
      BY <1>0, <1>1, <1>4, <3>1 DEF LocksOf, Acquire
    <3>3. QED
      BY <1>0, <1>1, <2>1, <3>1, <3>2, NoneAssumption DEF LocksOf, Moved, At, Cmd
  <2>4. RunOf(p)' /\ LostOf(p)'
    BY <1>0, <2>1, NotLost DEF RunOf, LostOf, AtWork, At, Moved
  <2>5. QED
    BY <1>0, <2>1, <2>2, <2>3, <2>4, InsideStep DEF Moved
<1>5. QED
  BY <1>2, <1>3, <1>4

(* The operator removes a lock.                                            *)
LEMMA RemoveLockInv ==
  ASSUME SessionInv, NEW root \in Roots, RemoveLock(root) PROVE SessionInv'
<1>0. UNCHANGED <<current, runs, session>> /\ lock[root] # None /\ lock' = [lock EXCEPT ![root] = None]
      /\ usurped' = Running(lock[root]) /\ \A q \in Proc : Running(q) => q = lock[root]
  BY DEF RemoveLock
<1>1. DiskTypes' /\ OpenWork'
  BY <1>0 DEF SessionInv, DiskTypes, OpenWork
<1>2. usurped' \in BOOLEAN /\ (~usurped' => \A q \in Proc : ~Running(q))
  <2>1. Running(lock[root]) \in BOOLEAN
    BY Zenon DEF Running
  <2>2. QED
    BY <1>0, <2>1, Zenon
<1>3. SessionTypes' /\ Alone'
  BY <1>0, <1>2 DEF SessionInv, SessionTypes, Alone, Inside, Running
<1>4. ASSUME NEW q \in Proc PROVE LocksOf(q)' /\ RunOf(q)' /\ LostOf(q)'
  <2>1. LocksOf(q) /\ RunOf(q) /\ LostOf(q)
    BY DEF SessionInv
  <2>2. Inside(q) => Running(q)
    BY ProcAssumption DEF Inside, Running, InsidePcs, Starting, Ending
  <2>3. LocksOf(q)'
    BY <1>0, <1>2, <2>1, <2>2 DEF LocksOf, Inside, Running, At, Cmd
  <2>4. RunOf(q)'
    BY <1>0, <2>1 DEF RunOf, AtWork, At, Cmd, Run, NothingOpen, Reportable
  <2>5. LostOf(q)'
    BY <1>0, <2>1 DEF LostOf, Running, At
  <2>6. QED
    BY <2>3, <2>4, <2>5
<1>5. QED
  BY <1>1, <1>3, <1>4 DEF SessionInv

(* What an earlier process left satisfies the invariant.                   *)
LEMMA InitInv ==
  ASSUME SessionInit PROVE SessionInv
<1>1. session = [p \in Proc |-> Unborn("unborn")] /\ usurped = FALSE
  BY DEF SessionInit, SessionAt
<1>2. Unborn("unborn") \in SessionRecord /\ Unborn("unborn").pc = "unborn"
  BY DEF Unborn, SessionRecord, Statuses
<1>3. SessionTypes /\ \A p \in Proc : session[p].pc = "unborn"
  BY <1>1, <1>2 DEF SessionTypes
<1>4. \A p \in Proc : ~Inside(p) /\ ~Running(p)
  BY <1>3 DEF Inside, Running, InsidePcs, Starting, Ending
<1>5. Alone /\ \A p \in Proc : LocksOf(p) /\ RunOf(p) /\ LostOf(p)
  BY <1>1, <1>3, <1>4 DEF Alone, LocksOf, RunOf, LostOf, At, AtWork, Unborn
<1>6. Earlier \in Runs /\ NoRun \in RunRecord /\ NoRun.open = FALSE
  BY DEF Runs, NoRun, RunRecord
<1>7. CASE NothingLeftBehind
  <2>1. runs \in [Runs -> RunRecord] /\ \A r \in Runs : ~runs[r].open
    BY <1>6, <1>7 DEF NothingLeftBehind
  <2>2. DiskTypes /\ OpenWork
    BY <1>7, <2>1, NoneAssumption DEF NothingLeftBehind, DiskTypes, OpenWork
  <2>3. QED
    BY <1>3, <1>5, <2>2 DEF SessionInv
<1>8. ASSUME NEW k \in Offered[Earlier], NEW open \in BOOLEAN, NEW locked \in BOOLEAN,
             open => k.op # "scan", LeftBehind(k, open, locked)
      PROVE  SessionInv
  <2>1. k \in Commands
    BY <1>6 DEF Commands
  <2>2. [NoRun EXCEPT !.cmd = k, !.open = open] \in RunRecord
    BY <2>1 DEF NoRun, RunRecord
  <2>3. /\ runs \in [Runs -> RunRecord] /\ current = Earlier
        /\ runs[Earlier].cmd = k /\ runs[Earlier].open = open /\ runs[Earlier].report = FALSE
        /\ \A r \in Runs : r # Earlier => runs[r].open = FALSE
    BY <1>6, <1>8, <2>2 DEF LeftBehind, NoRun
  <2>4. lock \in [Roots -> Runs \cup {None}]
    BY <1>6, <1>8 DEF LeftBehind
  <2>5. DiskTypes /\ OpenWork
    BY <1>6, <1>8, <2>1, <2>3, <2>4 DEF DiskTypes, OpenWork
  <2>6. QED
    BY <1>3, <1>5, <2>5 DEF SessionInv
<1>9. QED
  BY <1>7, <1>8 DEF SessionInit

(* Every step preserves the invariant.                                     *)
LEMMA NextInv ==
  ASSUME SessionInv, [SessionNext]_sessionVars PROVE SessionInv'
<1>0. ASSUME UNCHANGED <<disk, session, usurped>> PROVE SessionInv'
  BY <1>0 DEF disk, SessionInv, DiskTypes, SessionTypes, Alone, OpenWork, LocksOf, RunOf, LostOf,
     Inside, Running, At, Cmd, Run, AtWork, NothingOpen, Reportable
<1>1. ASSUME UNCHANGED sessionVars PROVE SessionInv'
  BY <1>0, <1>1 DEF sessionVars, history
<1>7. ASSUME NEW p \in Proc, Submit(p) \/ WorkerRuns(p) PROVE SessionInv'
  BY <1>0, <1>7 DEF Submit, WorkerRuns, history
<1>2. ASSUME NEW p \in Proc, Step(p) PROVE SessionInv'
  BY <1>2, LockArchiveInv, LockMirrorInv, OpenRunInv, ReplaceInv, LockOtherInv, RecoverReplacedInv, ReleaseOtherInv,
     CreateRunInv, WriteCurrentInv, StartErrsInv, SetRunIDsInv, RecoverRunInv, FirstCheckpointInv,
     SettleTransactionInv, BodyEndsInv, DrainedInv, <1>7, FinalCheckpointInv, WriteReportInv, ReleaseLocksInv
     DEF Step
<1>3. ASSUME NEW p \in Proc, OpenTransaction(p) \/ BodyCheckpoint(p) \/ CrashRun(p) PROVE SessionInv'
  BY <1>3, OpenTransactionInv, BodyCheckpointInv, CrashRunInv
<1>4. ASSUME NEW p \in Proc, NEW k \in Offered[p], Launch(p, k) PROVE SessionInv'
  BY <1>4, LaunchInv
<1>5. ASSUME NEW root \in Roots, RemoveLock(root) PROVE SessionInv'
  BY <1>5, RemoveLockInv
<1>6. QED
  BY <1>1, <1>2, <1>3, <1>4, <1>5, <1>7 DEF SessionNext, AllStopped

(* The invariant of the session: two processes are never past the archive  *)
(* lock, whatever is forced, killed or removed, and each works on the      *)
(* current run under the locks of its roots.                               *)
THEOREM SessionCorrect == SessionSpec => []SessionInv
BY InitInv, NextInv, PTL DEF SessionSpec

(* The invariant implies what the runs check.                              *)
LEMMA OpenIsCurrentOf ==
  ASSUME SessionInv PROVE OpenIsCurrent
<1>1. \A r \in Runs : runs[r].open => current = r
  BY DEF SessionInv, OpenWork
<1>2. ASSUME NEW p \in Proc, At(p, "recover_replaced") \/ At(p, "recover"), runs[Run(p)].open, ~usurped
      PROVE  lock[ArchiveRoot] = p /\ lock[runs[Run(p)].cmd.payload.root] = p
  <2> DEFINE root == runs[Run(p)].cmd.payload.root
  <2>1. /\ Inside(p) /\ Running(p) /\ LocksOf(p) /\ RunOf(p)
    BY <1>2, ProcAssumption DEF SessionInv, At, Inside, InsidePcs, Starting, Running
  <2>2. Run(p) \in Runs /\ Run(p) = current /\ ~Cmd(p).dryRun
    BY <1>2, <2>1 DEF RunOf, At, AtWork
  <2>3. runs[Run(p)].cmd \in Commands /\ runs[Run(p)].cmd.op # "scan"
    BY <1>2, <2>2 DEF SessionInv, OpenWork
  <2>4. root \in Roots
    BY <2>3, RootOfCommand
  <2>5. root \in session[p].locks \cup {session[p].extra}
    <3>1. CASE At(p, "recover_replaced")
      BY <1>2, <2>1, <3>1 DEF RunOf
    <3>2. CASE At(p, "recover")
      <4>1. Defining(runs[Run(p)].cmd) = Defining(Cmd(p))
        BY <2>1, <3>2 DEF RunOf, At, AtWork
      <4>2. Cmd(p).op # "scan" /\ Cmd(p).payload = runs[Run(p)].cmd.payload
        BY <2>3, <4>1 DEF Defining
      <4>3. QED
        BY <2>1, <2>2, <3>2, <4>2 DEF LocksOf, At
    <3>3. QED
      BY <1>2, <3>1, <3>2
  <2>6. QED
    BY <1>2, <2>1, <2>4, <2>5 DEF LocksOf, Roots
<1>3. QED
  BY <1>1, <1>2 DEF OpenIsCurrent, RecoversUnderLocks

(* Unfinished transactions always belong to the run that current names,    *)
(* and whoever recovers them holds the locks of both its roots.            *)
THEOREM OpenWorkGuarded == SessionSpec => []OpenIsCurrent
BY SessionCorrect, OpenIsCurrentOf, PTL

(* What a process does.                                                    *)
Moves(q) ==
  \/ Step(q) \/ OpenTransaction(q) \/ BodyCheckpoint(q) \/ Submit(q) \/ CrashRun(q)
  \/ \E k \in Offered[q] : Launch(q, k)

(* A preview worker is at work, and the run log is written, in five steps. *)
LEMMA Sidelined ==
  ASSUME NEW q \in Proc, Moves(q)
  PROVE  UNCHANGED sidelines \/ Submit(q) \/ WorkerRuns(q) \/ ReleaseLocks(q) \/ CrashRun(q)
<1>1. CASE LockArchive(q) \/ LockMirror(q) \/ OpenRun(q) \/ Replace(q) \/ LockOther(q)
  BY <1>1 DEF LockArchive, LockMirror, OpenRun, Replace, LockOther
<1>2. CASE RecoverReplaced(q) \/ ReleaseOther(q) \/ CreateRun(q) \/ WriteCurrent(q) \/ StartErrs(q)
  BY <1>2 DEF RecoverReplaced, ReleaseOther, CreateRun, WriteCurrent, StartErrs
<1>3. CASE SetRunIDs(q) \/ RecoverRun(q) \/ FirstCheckpoint(q) \/ SettleTransaction(q) \/ BodyEnds(q)
  BY <1>3 DEF SetRunIDs, RecoverRun, FirstCheckpoint, SettleTransaction, BodyEnds
<1>4. CASE Drained(q) \/ FinalCheckpoint(q) \/ WriteReport(q)
  BY <1>4 DEF Drained, FinalCheckpoint, WriteReport
<1>5. CASE OpenTransaction(q) \/ BodyCheckpoint(q) \/ \E k \in Offered[q] : Launch(q, k)
  BY <1>5 DEF OpenTransaction, BodyCheckpoint, Launch
<1>6. QED
  BY <1>1, <1>2, <1>3, <1>4, <1>5 DEF Step, Moves

(* The videos of a preview worker are counted.                             *)
QueueTypes == queued \in [Proc -> Nat] /\ outcomes \in [Proc -> Nat]

LEMMA QueueTyped ==
  ASSUME QueueTypes, [SessionNext]_sessionVars PROVE QueueTypes'
<1> USE DEF QueueTypes
<1>1. ASSUME UNCHANGED sidelines PROVE QueueTypes'
  BY <1>1 DEF sidelines
<1>2. ASSUME NEW p \in Proc, Moves(p) PROVE QueueTypes'
  <2>1. CASE Submit(p)
    BY <2>1 DEF Submit
  <2>2. CASE WorkerRuns(p)
    BY <2>2 DEF WorkerRuns
  <2>3. CASE ReleaseLocks(p)
    BY <2>3 DEF ReleaseLocks
  <2>4. CASE CrashRun(p)
    BY <2>4 DEF CrashRun
  <2>5. QED
    BY <1>1, <1>2, <2>1, <2>2, <2>3, <2>4, Sidelined
<1>3. (\E root \in Roots : RemoveLock(root)) \/ AllStopped \/ UNCHANGED sessionVars => UNCHANGED sidelines
  BY DEF RemoveLock, AllStopped, sessionVars
<1>4. QED
  BY <1>1, <1>2, <1>3 DEF SessionNext, Moves

LEMMA QueueTypedAtFirst ==
  ASSUME SessionInit PROVE QueueTypes
BY DEF SessionInit, SessionAt, QueueTypes

(* A step of one process leaves the record and the preview worker of every *)
(* other alone.                                                            *)
LEMMA OnlyOne ==
  ASSUME SessionInv, QueueTypes, NEW q \in Proc, NEW p \in Proc, q # p, Moves(q)
  PROVE  session'[p] = session[p] /\ queued'[p] = queued[p] /\ outcomes'[p] = outcomes[p]
<1>6. session'[p] = session[p]
  <2> USE DEF Goto, StartFails, Exit, Acquire, Escalate, SessionInv, SessionTypes
  <2>1. CASE LockArchive(q) \/ LockMirror(q) \/ OpenRun(q) \/ Replace(q) \/ LockOther(q)
    BY <2>1 DEF LockArchive, LockMirror, OpenRun, Replace, LockOther
  <2>2. CASE RecoverReplaced(q) \/ ReleaseOther(q) \/ CreateRun(q) \/ WriteCurrent(q) \/ StartErrs(q)
    BY <2>2 DEF RecoverReplaced, ReleaseOther, CreateRun, WriteCurrent, StartErrs
  <2>3. CASE SetRunIDs(q) \/ RecoverRun(q) \/ FirstCheckpoint(q) \/ SettleTransaction(q) \/ BodyEnds(q)
    BY <2>3 DEF SetRunIDs, RecoverRun, FirstCheckpoint, SettleTransaction, BodyEnds
  <2>4. CASE WorkerRuns(q) \/ Drained(q) \/ FinalCheckpoint(q) \/ WriteReport(q) \/ ReleaseLocks(q)
    BY <2>4 DEF WorkerRuns, Drained, FinalCheckpoint, WriteReport, ReleaseLocks
  <2>5. CASE \/ OpenTransaction(q) \/ BodyCheckpoint(q) \/ Submit(q) \/ CrashRun(q)
             \/ \E k \in Offered[q] : Launch(q, k)
    BY <2>5 DEF OpenTransaction, BodyCheckpoint, Submit, CrashRun, Launch
  <2>6. QED
    BY <2>1, <2>2, <2>3, <2>4, <2>5 DEF Step, Moves
<1>7. queued'[p] = queued[p] /\ outcomes'[p] = outcomes[p]
  <2>1. CASE UNCHANGED sidelines
    BY <2>1 DEF sidelines
  <2>2. CASE Submit(q) \/ WorkerRuns(q)
    BY <2>2 DEF Submit, WorkerRuns, QueueTypes
  <2>3. CASE ReleaseLocks(q) \/ CrashRun(q)
    BY <2>3 DEF ReleaseLocks, CrashRun, QueueTypes
  <2>4. QED
    BY <2>1, <2>2, <2>3, Sidelined
<1>8. QED
  BY <1>6, <1>7

(* What a step may do to a process that found a lock lost.                 *)
Quiet(p) ==
  /\ session'[p].status = "needs_operator"
  /\ queued'[p] <= queued[p]
  /\ outcomes'[p] > outcomes[p] => queued'[p] < queued[p]
  /\ session'[p] # session[p] => /\ runs' = runs \/ (Cmd(p).dryRun /\ session[p].lost = "late")
                                 /\ noted' = noted \/ session[p].lost = "late"

(* A process that found a lock lost, step by step.                         *)
LEMMA QuietStep ==
  ASSUME SessionInv, QueueTypes, [SessionNext]_sessionVars,
         NEW p \in Proc, session[p].lost # None, Running(p), ~At(p, "dead")'
  PROVE  Quiet(p)
<1>1. /\ session[p].pc \in Ending /\ session[p].status = "needs_operator"
      /\ session[p].pc \in {"draining", "final_checkpoint"} => session[p].lost = "body"
      /\ session[p].lost \in {"body", "late"} /\ Inside(p)
      /\ session \in [Proc -> SessionRecord] /\ queued[p] \in Nat /\ outcomes[p] \in Nat
  BY DEF SessionInv, LostOf, SessionTypes, SessionRecord, Inside, InsidePcs, QueueTypes
<1>2. ASSUME session'[p] = session[p], queued'[p] = queued[p], outcomes'[p] = outcomes[p] PROVE Quiet(p)
  BY <1>1, <1>2 DEF Quiet
<1>3. ASSUME session'[p].status = "needs_operator", UNCHANGED <<runs, sidelines>> PROVE Quiet(p)
  BY <1>1, <1>3 DEF Quiet, sidelines
<1>4. CASE Drained(p) \/ FinalCheckpoint(p)
  <2>1. \E where \in InsidePcs : Goto(p, where) /\ UNCHANGED <<runs, sidelines>>
    BY <1>1, <1>4, NoneAssumption DEF Drained, FinalCheckpoint, InsidePcs, Ending, At, disk
  <2>2. session'[p].status = "needs_operator"
    BY <1>1, <2>1, GoneTo DEF Gone, Advanced, Moved
  <2>3. QED
    BY <1>3, <2>1, <2>2
<1>5. CASE WriteReport(p)
  <2>1. session'[p].status = "needs_operator"
    <3>1. CASE Goto(p, "release")
      BY <1>1, <3>1, GoneTo DEF InsidePcs, Ending, Gone, Advanced, Moved
    <3>2. CASE Escalate(p, FALSE, "release")
      BY <1>1, <3>2, EscalateFields DEF Ending, Advanced, Moved
    <3>3. QED
      BY <1>5, <3>1, <3>2 DEF WriteReport
  <2>2. Reports(p) => Cmd(p).dryRun /\ session[p].lost = "late"
    BY <1>1 DEF Reports, Reportable
  <2>3. UNCHANGED sidelines /\ (runs' = runs \/ Reports(p))
    BY <1>5 DEF WriteReport
  <2>4. QED
    BY <1>1, <2>1, <2>2, <2>3 DEF Quiet, sidelines
<1>6. CASE ReleaseLocks(p)
  <2>1. Exit(p, "needs_operator", session[p].locks) /\ runs' = runs
    BY <1>1, <1>6 DEF ReleaseLocks
  <2>2. session'[p].status = "needs_operator"
    BY <1>1, <2>1 DEF Exit, Unborn
  <2>3. queued' = queued /\ outcomes'[p] = 0 /\ (noted' = noted \/ session[p].lost = "late")
    BY <1>1, <1>6 DEF ReleaseLocks, QueueTypes
  <2>4. QED
    BY <1>1, <2>1, <2>2, <2>3 DEF Quiet
<1>7. CASE CrashRun(p)
  BY <1>1, <1>7 DEF CrashRun, At, Unborn
<1>8. CASE WorkerRuns(p)
  <2>1. session' = session /\ queued'[p] = queued[p] - 1
    BY <1>8 DEF WorkerRuns, QueueTypes
  <2>2. QED
    BY <1>1, <2>1 DEF Quiet
<1>9. ASSUME NEW q \in Proc, Moves(q) PROVE Quiet(p)
  <2>1. CASE q # p
    BY <1>2, <1>9, <2>1, OnlyOne
  <2>2. CASE q = p
    <3>1. \/ Drained(p) \/ FinalCheckpoint(p) \/ WriteReport(p) \/ ReleaseLocks(p)
          \/ CrashRun(p) \/ WorkerRuns(p)
      BY <1>1, <1>9, <2>2
         DEF Step, Moves, LockArchive, LockMirror, OpenRun, Replace, LockOther, RecoverReplaced, ReleaseOther,
             CreateRun, WriteCurrent, StartErrs, SetRunIDs, RecoverRun, FirstCheckpoint, SettleTransaction, BodyEnds,
             OpenTransaction, BodyCheckpoint, Submit, Launch, At, Ending
    <3>2. QED
      BY <1>4, <1>5, <1>6, <1>7, <1>8, <3>1
  <2>3. QED
    BY <2>1, <2>2
<1>10. (\E root \in Roots : RemoveLock(root)) \/ AllStopped \/ UNCHANGED sessionVars =>
         UNCHANGED <<session, sidelines>>
  BY DEF RemoveLock, AllStopped, sessionVars
<1>11. UNCHANGED <<session, sidelines>> => Quiet(p)
  BY <1>2 DEF sidelines
<1>12. (\E q \in Proc : Moves(q)) \/ (\E root \in Roots : RemoveLock(root)) \/ AllStopped \/ UNCHANGED sessionVars
  BY DEF SessionNext, Moves
<1>13. QED
  BY <1>9, <1>10, <1>11, <1>12

(* A process that found its lock lost ends as needs_operator and touches   *)
(* neither checkpoint, transactions nor, but for a dry run, report; its    *)
(* preview worker takes on nothing new, and what it logs is the outcome of *)
(* a video it already had; the run log tells of the loss only if the final *)
(* checkpoint found it.                                                    *)
THEOREM LostIsQuiet == SessionSpec => QuietWhenLost
<1>1. SessionInit => QueueTypes
  BY QueueTypedAtFirst
<1>2. QueueTypes /\ [SessionNext]_sessionVars => QueueTypes'
  BY QueueTyped
<1>3. SessionInv /\ QueueTypes /\ [SessionNext]_sessionVars =>
        [\A p \in Proc : KnowsLoss(p) =>
           /\ session'[p].status = "needs_operator"
           /\ queued'[p] <= queued[p]
           /\ outcomes'[p] > outcomes[p] => queued'[p] < queued[p]
           /\ Acts(p) => /\ runs' = runs \/ (Cmd(p).dryRun /\ session[p].lost = "late")
                         /\ noted' = noted \/ session[p].lost = "late"]_sessionVars
  BY QuietStep DEF Quiet, KnowsLoss, Acts
<1>4. QED
  BY <1>1, <1>2, <1>3, SessionCorrect, PTL DEF SessionSpec, QuietWhenLost
=============================================================================
