------------------------------ MODULE Sidecar ------------------------------
(***************************************************************************)
(* The files arxgo writes beside a moved file after its transaction        *)
(* committed: video previews, generated by one worker goroutine while the  *)
(* split loop moves the next videos, and CATIA text sidecars, generated by *)
(* the loop itself.  Each generation and each deletion is surrounded by    *)
(* events of the transaction log; the index of owned sidecars is replayed  *)
(* from them (internal/archive: previews_*.go, text.go, payload_*.go).     *)
(*                                                                         *)
(* One process at a time runs a split or a restore; moves are single       *)
(* steps, see Transfer.  Crashes, Ctrl+C and failing log writes may come   *)
(* anywhere; the operator adds, changes and removes files at the sidecars' *)
(* paths between processes, while a file is generated and between the      *)
(* loop's files, but does not replace a file between its publication or    *)
(* validation and the record of its size.  A generated file has size 1,    *)
(* one the operator changed 2, one of the operator 3: a file of the        *)
(* recorded size that is not arxgo's is beyond what the code can tell.     *)
(***************************************************************************)
EXTENDS Naturals, FiniteSets, SequencesExt

CONSTANTS
  Owners,         \* the payload files, a sequence in walk order
  Path,           \* paths in the archive
  PreviewNames,   \* owner -> planned name and fallback of its preview
  TextNames,      \* owner -> candidate names of its text sidecar
  Crowded,        \* owners whose description may find both its fixed names taken
  Nothing,        \* no file, no path, no description
  MaxRuns,        \* bound: runs started
  MaxTroubles     \* bound: crashes, cancellations, failed log writes and
                  \* changes by the operator, together

ASSUME SidecarAssumption ==
  /\ DOMAIN Owners = 1..Len(Owners) /\ Len(Owners) \in Nat
  /\ Nothing \notin ToSet(Owners) \cup Path
  /\ \A o \in ToSet(Owners) : PreviewNames[o] \in Seq(Path) /\ TextNames[o] \in Seq(Path)

VARIABLES
  family,    \* "preview" or "text"
  file,      \* path -> file there
  parts,     \* paths whose part file exists
  disk,      \* the index, as the events in the logs replay
  tx,        \* owner -> its last committed transaction
  links,     \* owner -> previews its description lists
  indexed,   \* owners whose description has neither of its two fixed names
  run,       \* the last run
  pc, phase, \* the process: next step, and what a cleanup works for
  todo, pending,   \* owners still to visit, sidecars of the first to delete
  idx,       \* the index in memory
  plan,      \* owner -> planned preview
  queue, closed,   \* channel of the preview worker
  wpc, job, wpath, werr,  \* the worker: step, owner, path, fatal error
  err,       \* error of the loop
  cancelled, failed,      \* Ctrl+C; owners with a reported issue
  budget,    \* stops, operator changes, log errors so far
  touched    \* the operator changed a file while this process ran

durable == <<family, file, parts, disk, tx, links, indexed, run, budget, touched>>
loopVars == <<pc, phase, todo, pending, plan, err, cancelled>>
workVars == <<wpc, job, wpath, werr>>
sidecarVars == <<durable, loopVars, idx, queue, closed, workVars, failed>>

AllOwners == ToSet(Owners)
Names == IF family = "preview" THEN PreviewNames ELSE TextNames
File == [by : AllOwners \cup {Nothing}, size : 1..3]
(* The first owner still to visit.                                         *)
Current == Owners[Min({n \in DOMAIN Owners : Owners[n] \in todo})]
Rest == todo \ {Current}

-----------------------------------------------------------------------------
(* The index: owned sidecars with sizes, generations and deletions without *)
(* an outcome.  Zero is "not there".                                       *)
NoSizes == [o \in AllOwners |-> [p \in Path |-> 0]]
EmptyIndex == [owned |-> NoSizes, deleting |-> NoSizes, generating |-> {}]
Recorded(i, o) == {p \in Path : i.owned[o][p] > 0}

Begun(i, o, p) == [i EXCEPT !.generating = @ \cup {<<o, p>>}]
Failing(i, o, p) == [i EXCEPT !.generating = @ \ {<<o, p>>}]
Remember(i, o, p, size) == [i EXCEPT !.owned[o][p] = size, !.generating = @ \ {<<o, p>>}]
Deleting(i, o, p, size) == [i EXCEPT !.deleting[o][p] = size]
Deleted(i, o, p) == [i EXCEPT !.owned[o][p] = 0, !.deleting[o][p] = 0]

Present(p) == file[p] # Nothing
Published(o, p) == idx.owned[o][p] > 0 /\ Present(p) /\ file[p].size = idx.owned[o][p]
(* The links of an owned description of a fixed name; a missing one is     *)
(* left alone, and one of an indexed name is not looked for.               *)
Refreshed(i, o) ==
  IF links[o] = Nothing \/ o \in indexed THEN links ELSE [links EXCEPT ![o] = Recorded(i, o)]

-----------------------------------------------------------------------------
NoWork == wpc = "idle" /\ job = Nothing /\ wpath = Nothing /\ werr = FALSE
SidecarInit ==
  /\ family \in {"preview", "text"}
  /\ file = [p \in Path |-> Nothing]
  /\ parts = {} /\ disk = EmptyIndex /\ idx = EmptyIndex
  /\ tx = [o \in AllOwners |-> [op |-> "none", run |-> 0, cleanup |-> FALSE]]
  /\ links = [o \in AllOwners |-> Nothing] /\ indexed = {}
  /\ run = [id |-> 0, op |-> "none", cleanup |-> FALSE, committed |-> {}, open |-> FALSE]
  /\ pc = "down" /\ phase = "none" /\ todo = {} /\ pending = {}
  /\ plan = [o \in AllOwners |-> Nothing] /\ queue = <<>> /\ closed = FALSE
  /\ NoWork /\ err = "none" /\ cancelled = FALSE /\ failed = {}
  /\ budget = [stops |-> 0, changes |-> 0, errors |-> 0] /\ touched = FALSE

TroubleLeft == budget.stops + budget.changes + budget.errors < MaxTroubles

(* Memory of a process that is gone.                                       *)
Forget ==
  /\ idx' = EmptyIndex /\ phase' = "none" /\ todo' = {} /\ pending' = {}
  /\ plan' = [o \in AllOwners |-> Nothing] /\ queue' = <<>> /\ closed' = FALSE
  /\ wpc' = "idle" /\ job' = Nothing /\ wpath' = Nothing /\ werr' = FALSE
  /\ cancelled' = FALSE /\ failed' = {}

(* A process starts: it resumes an unfinished run of the same command or   *)
(* creates one, and replays the history of all runs.                       *)
Launch(op, cleanup) ==
  /\ pc = "down"
  /\ \/ run.open /\ run.op = op /\ run.cleanup = cleanup /\ UNCHANGED run
     \/ run.id < MaxRuns
        /\ run' = [id |-> run.id + 1, op |-> op, cleanup |-> cleanup, committed |-> {}, open |-> TRUE]
  /\ pc' = "prepare" /\ idx' = disk /\ touched' = FALSE /\ err' = "none"
  /\ UNCHANGED <<family, file, parts, disk, tx, links, indexed, budget, phase, todo, pending, plan,
                 cancelled, queue, closed, workVars, failed>>

PartsOfUnfinished == {x[2] : x \in idx.generating}

(* Both commands first remove the part files of unfinished generations.    *)
Prepare ==
  /\ pc = "prepare"
  /\ parts' = parts \ PartsOfUnfinished
  /\ IF run.op = "split"
     THEN pc' = "plan" /\ UNCHANGED <<phase, todo, pending>>
     ELSE /\ pc' = "pick" /\ phase' = "unfinished"
          /\ todo' = {o \in AllOwners : \E p \in Path : idx.deleting[o][p] > 0}
          /\ pending' = {}
  /\ UNCHANGED <<family, file, disk, tx, links, indexed, run, budget, touched, plan, err, cancelled, idx,
                 queue, closed, workVars, failed>>

-----------------------------------------------------------------------------
(* Split.                                                                  *)
Moved == {o \in AllOwners : tx[o].op = "split"}

(* The first name of an owner in a set, if there is one.                   *)
FirstName(o, free) ==
  LET fit == {n \in DOMAIN Names[o] : Names[o][n] \in free}
  IN IF fit = {} THEN Nothing ELSE Names[o][Min(fit)]

(* A name is free for an owner that owns or started it, and taken by other *)
(* plans of this run and by existing files.                                *)
Occupied(o, p, reserved) ==
  \/ p \in reserved
  \/ ~(idx.owned[o][p] > 0 \/ <<o, p>> \in idx.generating) /\ Present(p)
ChooseName(o, reserved) ==
  FirstName(o, {p \in Path : ~Occupied(o, p, reserved)})
(* Owner after owner, none the name of one before it.                      *)
PlanAll ==
  {f \in [AllOwners -> Path \cup {Nothing}] :
     \A n \in DOMAIN Owners : f[Owners[n]] = ChooseName(Owners[n], {f[Owners[m]] : m \in 1..(n - 1)})}

PlanPreviews ==
  /\ pc = "plan"
  /\ plan' \in IF family = "preview" THEN PlanAll ELSE {plan}
  /\ pc' = "visit" /\ phase' = "catchup" /\ todo' = Moved
  /\ UNCHANGED <<durable, pending, err, cancelled, idx, queue, closed, workVars, failed>>

(* Stop with an error, or after the last candidate.                        *)
Halt(e) == pc' = "stop" /\ err' = e

(* Where a description goes: to a fixed name that is its own or free, else *)
(* to an indexed one.                                                      *)
Placed(o) ==
  IF o \notin Crowded \/ family = "text" \/ (links[o] # Nothing /\ o \notin indexed)
    THEN indexed' = indexed
    ELSE indexed' \in {indexed \cup {o}, indexed \ {o}}

(* The next moved file is handed to the generator; when all are, the loop  *)
(* moves the candidates.  The loop looks for Ctrl+C before each file.      *)
Visit ==
  /\ pc = "visit"
  /\ \/ /\ todo = {} /\ phase = "catchup"
        /\ phase' = "loop" /\ todo' = AllOwners \ Moved /\ UNCHANGED <<pc, err, tx, run, links, indexed>>
     \/ /\ todo = {} /\ phase = "loop" /\ Halt("none") /\ UNCHANGED <<phase, todo, tx, run, links, indexed>>
     \/ /\ todo # {} /\ cancelled /\ ~(phase = "catchup" /\ family = "preview")
        /\ Halt("cancelled") /\ UNCHANGED <<phase, todo, tx, run, links, indexed>>
     \/ /\ todo # {} /\ phase = "catchup" /\ (~cancelled \/ family = "preview")
        /\ pc' = "submit" /\ UNCHANGED <<phase, todo, err, tx, run, links, indexed>>
     \/ /\ todo # {} /\ phase = "loop" /\ ~cancelled
        /\ tx' = [tx EXCEPT ![Current] = [op |-> "split", run |-> run.id, cleanup |-> FALSE]]
        /\ links' = [links EXCEPT ![Current] = {}] /\ Placed(Current)
        /\ run' = [run EXCEPT !.committed = @ \cup {Current}]
        /\ pc' = "submit" /\ UNCHANGED <<phase, todo, err>>
  /\ UNCHANGED <<family, file, parts, disk, budget, touched, pending, plan, cancelled, idx, queue,
                 closed, workVars, failed>>

(* Previews: submit looks for the worker's error, then sends.  Texts: the  *)
(* loop generates the file itself and goes on when that returns.           *)
Submit ==
  /\ pc = "submit"
  /\ IF family = "text"
     THEN wpc' = "look" /\ job' = Current /\ pc' = "return" /\ UNCHANGED <<wpath, werr, err>>
     ELSE UNCHANGED workVars /\ IF werr THEN Halt("fatal") ELSE pc' = "send" /\ UNCHANGED err
  /\ UNCHANGED <<durable, phase, todo, pending, plan, cancelled, idx, queue, closed, failed>>

Send ==
  /\ pc = "send" /\ queue = <<>>
  /\ queue' = <<Current>> /\ todo' = Rest /\ pc' = "visit"
  /\ UNCHANGED <<durable, phase, pending, plan, err, cancelled, idx, closed, workVars, failed>>

Return ==
  /\ pc = "return" /\ wpc = "idle"
  /\ IF werr THEN Halt("fatal") /\ UNCHANGED todo
     ELSE pc' = "visit" /\ todo' = Rest /\ UNCHANGED err
  /\ UNCHANGED <<durable, phase, pending, plan, cancelled, idx, queue, closed, workVars, failed>>

(* Mutant of Join: the worker's error is not asked for.                    *)
JoinUnasked == err
Join == IF err = "none" /\ werr THEN "fatal" ELSE err

(* close(jobs), wait for the worker, and join its error.  A run that ended *)
(* by Ctrl+C or a fatal error stays unfinished and can be resumed.         *)
Stop ==
  /\ pc = "stop" /\ run.op = "split"
  /\ \/ family = "preview" /\ ~closed /\ closed' = TRUE /\ UNCHANGED <<pc, err, run>>
     \/ /\ family = "text" \/ wpc = "done"
        /\ err' = Join /\ pc' = "ended" /\ UNCHANGED closed
        /\ run' = [run EXCEPT !.open = Join # "none"]
  /\ UNCHANGED <<family, file, parts, disk, tx, links, indexed, budget, touched, phase, todo, pending, plan,
                 cancelled, idx, queue, workVars, failed>>

-----------------------------------------------------------------------------
(* Generation: the worker for previews, the loop for texts.                *)
WorkerRest == <<tx, indexed, run, budget, touched, family, loopVars, closed>>
(* The job is done, or ends with an error the loop will see.               *)
Idle == wpc' = "idle" /\ job' = Nothing /\ wpath' = Nothing
Abandon == Idle /\ werr' = TRUE
Issue(o) == failed' = failed \cup {o}
(* A preview's description is refreshed when its jobs are done.            *)
JobDone == IF family = "preview" THEN wpc' = "refresh" /\ UNCHANGED <<job, wpath, werr>>
                                 ELSE Idle /\ UNCHANGED werr

(* Mutant of Take: a worker with an error stops receiving.                 *)
TakeUntilError ==
  /\ wpc = "idle" /\ family = "preview" /\ ~werr
  /\ \/ /\ queue # <<>> /\ queue' = Tail(queue)
        /\ wpc' = "look" /\ job' = Head(queue) /\ UNCHANGED <<wpath, werr>>
     \/ queue = <<>> /\ closed /\ wpc' = "done" /\ UNCHANGED <<job, wpath, werr, queue>>
  /\ UNCHANGED <<file, parts, disk, links, idx, failed, WorkerRest>>

(* Receive; after an error only drain the channel.                         *)
Take ==
  /\ wpc = "idle" /\ family = "preview"
  /\ \/ /\ queue # <<>> /\ queue' = Tail(queue)
        /\ IF werr THEN UNCHANGED workVars
           ELSE wpc' = "look" /\ job' = Head(queue) /\ UNCHANGED <<wpath, werr>>
     \/ queue = <<>> /\ closed /\ wpc' = "done" /\ UNCHANGED <<job, wpath, werr, queue>>
  /\ UNCHANGED <<file, parts, disk, links, idx, failed, WorkerRest>>

(* Where a text goes: the path of an unfinished generation, else the first *)
(* candidate that is absent or, by its first line, this owner's.           *)
Mine(o, p) == Present(p) /\ file[p].by = o
TextPath(o) ==
  LET begun == FirstName(o, {p \in Path : <<o, p>> \in idx.generating})
  IN IF begun # Nothing THEN begun ELSE FirstName(o, {p \in Path : ~Present(p) \/ Mine(o, p)})
Target == IF family = "preview" THEN plan[job] ELSE TextPath(job)

(* Nothing to do: the sidecar is there with its recorded size.             *)
Satisfied ==
  IF family = "preview" THEN Published(job, Target) ELSE \E p \in Path : Published(job, p)

(* Mutant of Adoptable: any file there is taken for the preview.           *)
AdoptableAny(o, p) == TRUE
(* Only a file whose generation started and never logged its outcome, and  *)
(* whose content passes the checks; a text is known by its first line.     *)
Adoptable(o, p) == Mine(o, p) /\ (family = "text" \/ <<o, p>> \in idx.generating)

LogFails == budget' = [budget EXCEPT !.errors = @ + 1] /\ TroubleLeft

(* Look at the target: skip, adopt, report, or begin a generation.         *)
Look ==
  /\ wpc = "look"
  /\ LET o == job  p == Target
         begins == p # Nothing /\ ~Satisfied /\ (~Present(p) \/ Adoptable(o, p))
     IN \/ /\ p = Nothing /\ ~(family = "text" /\ Satisfied)     \* no name left
           /\ Issue(o) /\ Idle /\ UNCHANGED <<werr, disk, budget>>
        \/ /\ family = "preview" /\ p # Nothing /\ cancelled
           /\ Abandon /\ UNCHANGED <<failed, disk, budget>>
        \/ /\ (p # Nothing \/ family = "text") /\ Satisfied /\ ~(family = "preview" /\ cancelled)
           /\ JobDone /\ UNCHANGED <<failed, disk, budget>>
        \/ /\ p # Nothing /\ ~Satisfied /\ Present(p) /\ ~Adoptable(o, p)
           /\ ~(family = "preview" /\ cancelled)
           /\ Issue(o) /\ JobDone /\ UNCHANGED <<disk, budget>>
        \/ /\ begins /\ ~(family = "preview" /\ cancelled)
           /\ \/ /\ disk' = Begun(disk, o, p) /\ wpath' = p
                 /\ wpc' = IF Present(p) THEN "made" ELSE "begun"
                 /\ UNCHANGED <<job, werr, budget>>
              \/ LogFails /\ Abandon /\ UNCHANGED disk
           /\ UNCHANGED failed
  /\ UNCHANGED <<file, parts, links, idx, queue, tx, indexed, run, touched, family, loopVars, closed>>

(* The tool writes a part file beside the target.  An existing part is     *)
(* overwritten by a text and fails a preview.                              *)
WritePart ==
  /\ wpc = "begun"
  /\ \/ /\ family = "text" /\ cancelled /\ Abandon /\ UNCHANGED parts
     \/ /\ ~(family = "text" /\ cancelled)
        /\ wpc' \in IF wpath \in parts /\ family = "preview" THEN {"failing"} ELSE {"making", "failing"}
        /\ parts' = IF wpc' = "making" THEN parts \cup {wpath} ELSE parts
        /\ UNCHANGED <<job, wpath, werr>>
  /\ UNCHANGED <<file, disk, links, idx, queue, failed, WorkerRest>>

Renamed == file' = [file EXCEPT ![wpath] = [by |-> job, size |-> 1]]

(* The part is validated and renamed without replacing, or it is removed.  *)
(* After Ctrl+C a generation that did not succeed stays open; a text whose *)
(* part is written is still published.                                     *)
Publish ==
  /\ wpc = "making" /\ parts' = parts \ {wpath}
  /\ \/ /\ (family = "text" \/ ~cancelled) /\ ~Present(wpath)
        /\ Renamed /\ wpc' = "made" /\ UNCHANGED <<job, wpath, werr>>
     \/ /\ ~cancelled /\ (family = "preview" \/ Present(wpath))
        /\ wpc' = "failing" /\ UNCHANGED <<file, job, wpath, werr>>
     \/ cancelled /\ (family = "preview" \/ Present(wpath)) /\ Abandon /\ UNCHANGED file
  /\ UNCHANGED <<disk, links, idx, queue, failed, WorkerRest>>

(* A failure is logged and reported; a preview's not after Ctrl+C.         *)
FinishFailed ==
  /\ wpc = "failing"
  /\ LET stopped == cancelled /\ family = "preview" IN
     \/ stopped /\ Abandon /\ UNCHANGED <<disk, failed, budget>>
     \/ /\ ~stopped /\ disk' = Failing(disk, job, wpath) /\ Issue(job) /\ JobDone
        /\ UNCHANGED budget
     \/ ~stopped /\ LogFails /\ Abandon /\ UNCHANGED <<disk, failed>>
  /\ UNCHANGED <<file, parts, links, idx, queue, tx, indexed, run, touched, family, loopVars, closed>>

(* Mutant of Done: the index in memory is not told.                        *)
DoneUnremembered ==
  /\ wpc = "made"
  /\ \/ ~Present(wpath) /\ Abandon /\ UNCHANGED <<disk, budget, idx>>
     \/ /\ Present(wpath) /\ disk' = Remember(disk, job, wpath, file[wpath].size)
        /\ JobDone /\ UNCHANGED <<budget, idx>>
     \/ Present(wpath) /\ LogFails /\ Abandon /\ UNCHANGED <<disk, idx>>
  /\ UNCHANGED <<file, parts, links, queue, failed, tx, indexed, run, touched, family, loopVars, closed>>

(* The outcome is logged with the size the file has now; a file that is    *)
(* gone again is a fatal error.                                            *)
Done ==
  /\ wpc = "made"
  /\ \/ ~Present(wpath) /\ Abandon /\ UNCHANGED <<disk, budget, idx>>
     \/ /\ Present(wpath) /\ disk' = Remember(disk, job, wpath, file[wpath].size)
        /\ idx' = Remember(idx, job, wpath, file[wpath].size)
        /\ JobDone /\ UNCHANGED budget
     \/ Present(wpath) /\ LogFails /\ Abandon /\ UNCHANGED <<disk, idx>>
  /\ UNCHANGED <<file, parts, links, queue, failed, tx, indexed, run, touched, family, loopVars, closed>>

Refresh ==
  /\ wpc = "refresh"
  /\ links' = Refreshed(idx, job) /\ Idle
  /\ UNCHANGED <<file, parts, disk, idx, queue, failed, werr, WorkerRest>>

-----------------------------------------------------------------------------
(* Restore: finish interrupted deletions; with cleanup, delete what this   *)
(* run's and earlier runs' restored files left; then restore the moved     *)
(* files, each followed by its deletions.                                  *)
Quiet == phase = "earlier"

(* Mutant of EarlierRestored: a file that was split again is not excluded. *)
EarlierRestoredOnce == {o \in AllOwners : tx[o].run # run.id /\ Recorded(idx, o) # {}}
EarlierRestored ==
  {o \in AllOwners : /\ tx[o].op = "restore" /\ tx[o].cleanup /\ tx[o].run # run.id
                     /\ Recorded(idx, o) # {}}

(* Mutant of NextPhase: a new run does not look for what others left.      *)
NextPhaseOwnOnly ==
  IF phase = "unfinished" /\ run.cleanup THEN <<"own", run.committed>> ELSE <<"loop", Moved>>
(* The next phase and its owners.                                          *)
NextPhase ==
  IF phase = "unfinished" /\ run.cleanup THEN <<"own", run.committed>>
  ELSE IF phase = "own" THEN <<"earlier", EarlierRestored>>
  ELSE <<"loop", Moved>>

Pick ==
  /\ pc = "pick" /\ pending = {}
  /\ \/ /\ todo = {} /\ phase # "loop"
        /\ phase' = NextPhase[1] /\ todo' = NextPhase[2]
        /\ pc' = IF phase' = "loop" THEN "restore" ELSE "pick"
        /\ UNCHANGED pending
     \/ /\ todo # {} /\ pc' = "delete" /\ UNCHANGED <<phase, todo>>
        /\ pending' = IF phase = "unfinished"
                      THEN {p \in Path : idx.deleting[Current][p] > 0}
                      ELSE Recorded(idx, Current)
  /\ UNCHANGED <<durable, plan, err, cancelled, idx, queue, closed, workVars, failed>>

RestoreRest == <<family, parts, plan, cancelled, queue, closed, workVars, touched>>

(* A regular file of the recorded size; a text also by its first line.     *)
Deletable(o, p) ==
  LET want == IF idx.owned[o][p] > 0 THEN idx.owned[o][p] ELSE idx.deleting[o][p]
  IN Present(p) /\ file[p].size = want /\ (family = "text" => file[p].by = o)

(* One sidecar: a changed file is kept, else the intent is logged first.   *)
(* A file already gone completes the deletion.                             *)
DeleteOne ==
  /\ pc = "delete" /\ pending # {}
  /\ \E p \in pending :
       LET o == Current IN
       \/ /\ Present(p) /\ ~Deletable(o, p)
          /\ pending' = pending \ {p}
          /\ IF Quiet THEN UNCHANGED failed ELSE Issue(o)
          /\ UNCHANGED <<pc, disk, wpath, err, budget>>
       \/ /\ ~Present(p) \/ Deletable(o, p)
          /\ \/ /\ disk' = Deleting(disk, o, p, IF idx.owned[o][p] > 0 THEN idx.owned[o][p]
                                                ELSE idx.deleting[o][p])
                /\ pc' = IF Present(p) THEN "unlink" ELSE "deleted"
                /\ wpath' = p /\ UNCHANGED <<err, budget>>
             \/ LogFails /\ Halt("fatal") /\ UNCHANGED <<disk, wpath>>
          /\ UNCHANGED <<pending, failed>>
  /\ UNCHANGED <<file, tx, links, indexed, run, phase, todo, idx, family, parts, plan, cancelled, queue,
                 closed, wpc, job, werr, touched>>

Unlink ==
  /\ pc = "unlink" /\ file' = [file EXCEPT ![wpath] = Nothing] /\ pc' = "deleted"
  /\ UNCHANGED <<disk, tx, links, indexed, run, budget, phase, todo, pending, err, idx, failed, RestoreRest>>

FinishDeleted ==
  /\ pc = "deleted"
  /\ \/ /\ disk' = Deleted(disk, Current, wpath) /\ idx' = Deleted(idx, Current, wpath)
        /\ pending' = pending \ {wpath} /\ pc' = "delete" /\ UNCHANGED <<err, budget>>
     \/ LogFails /\ Halt("fatal") /\ UNCHANGED <<disk, idx, pending>>
  /\ wpath' = Nothing
  /\ UNCHANGED <<file, tx, links, indexed, run, phase, todo, family, parts, plan, cancelled, queue, closed,
                 wpc, job, werr, touched, failed>>

(* After an owner's deletions its description's links are refreshed.       *)
AfterDelete ==
  /\ pc = "delete" /\ pending = {}
  /\ links' = IF family = "preview" THEN Refreshed(idx, Current) ELSE links
  /\ todo' = Rest /\ pc' = IF phase = "loop" THEN "restore" ELSE "pick"
  /\ UNCHANGED <<file, disk, tx, indexed, run, budget, phase, pending, err, idx, failed, RestoreRest>>

(* One file goes back; its description is removed or kept.                 *)
Restore ==
  /\ pc = "restore"
  /\ \/ todo = {} /\ Halt("none") /\ UNCHANGED <<tx, links, indexed, run, todo>>
     \/ todo # {} /\ cancelled /\ Halt("cancelled") /\ UNCHANGED <<tx, links, indexed, run, todo>>
     \/ /\ todo # {} /\ ~cancelled
        /\ tx' = [tx EXCEPT ![Current] =
                    [op |-> "restore", run |-> run.id, cleanup |-> run.cleanup]]
        /\ \/ UNCHANGED <<links, indexed>>
           \/ links' = [links EXCEPT ![Current] = Nothing] /\ indexed' = indexed \ {Current}
        /\ run' = [run EXCEPT !.committed = @ \cup {Current}]
        /\ IF run.cleanup THEN pc' = "pick" /\ UNCHANGED todo
                          ELSE pc' = "restore" /\ todo' = Rest
        /\ UNCHANGED err
  /\ UNCHANGED <<file, disk, budget, phase, pending, idx, failed, RestoreRest>>

RestoreEnds ==
  /\ pc = "stop" /\ run.op = "restore"
  /\ run' = [run EXCEPT !.open = err # "none"] /\ pc' = "ended"
  /\ UNCHANGED <<file, disk, tx, links, indexed, budget, phase, todo, pending, err, idx, failed, RestoreRest>>

-----------------------------------------------------------------------------
Leave ==
  /\ pc = "ended" /\ pc' = "down" /\ err' = "none" /\ Forget
  /\ UNCHANGED durable

Stopping == TroubleLeft /\ budget' = [budget EXCEPT !.stops = @ + 1]
Crash ==
  /\ pc \notin {"down", "ended"} /\ Stopping /\ pc' = "down" /\ err' = "none" /\ Forget
  /\ UNCHANGED <<family, file, parts, disk, tx, links, indexed, run, touched>>
CtrlC ==
  /\ pc \notin {"down", "ended"} /\ ~cancelled /\ Stopping /\ cancelled' = TRUE
  /\ UNCHANGED <<family, file, parts, disk, tx, links, indexed, run, touched, pc, phase, todo, pending, plan,
                 err, idx, queue, closed, workVars, failed>>

(* The operator adds a file, changes one or removes one.                   *)
Operator ==
  /\ TroubleLeft /\ budget' = [budget EXCEPT !.changes = @ + 1]
  /\ pc = "down" \/ wpc \in {"begun", "making", "made"} \/ pc = "visit"
  /\ touched' = TRUE
  /\ \E p \in Path :
       \/ ~Present(p) /\ wpc # "made" /\ file' = [file EXCEPT ![p] = [by |-> Nothing, size |-> 3]]
       \/ Present(p) /\ file' = [file EXCEPT ![p] = Nothing]
       \/ Present(p) /\ wpc # "made"
          /\ \/ file[p].by # Nothing /\ file' = [file EXCEPT ![p].size = 2]
             \/ file' = [file EXCEPT ![p] = [by |-> Nothing, size |-> 3]]
  /\ UNCHANGED <<family, parts, disk, tx, links, indexed, run, loopVars, idx, queue, closed, workVars, failed>>

LoopNext ==
  \/ Prepare \/ PlanPreviews \/ Visit \/ Submit \/ Send \/ Return \/ Stop
  \/ Pick \/ DeleteOne \/ Unlink \/ FinishDeleted \/ AfterDelete \/ Restore \/ RestoreEnds
WorkerNext == Take \/ Look \/ WritePart \/ Publish \/ FinishFailed \/ Done \/ Refresh
SidecarNext ==
  \/ \E op \in {"split", "restore"}, cleanup \in BOOLEAN : (op = "split" => ~cleanup) /\ Launch(op, cleanup)
  \/ LoopNext \/ WorkerNext \/ Leave \/ Crash \/ CtrlC \/ Operator

SidecarFairness == WF_sidecarVars(LoopNext) /\ WF_sidecarVars(WorkerNext)
SidecarSpec == SidecarInit /\ [][SidecarNext]_sidecarVars /\ SidecarFairness
-----------------------------------------------------------------------------
(* No step of arxgo replaces a file or removes one of the operator: what   *)
(* it removes is a sidecar of a size that the log recorded for an owner at *)
(* this path, and a text only as its owner's (publication without replace, *)
(* adoption, deleteOne).                                                   *)
ByOperator == budget'.changes # budget.changes
FilesKept ==
  [][ByOperator \/ \A p \in Path :
       \/ file'[p] = file[p]
       \/ file[p] = Nothing /\ file'[p].by # Nothing
       \/ /\ file[p] # Nothing /\ file'[p] = Nothing /\ file[p].by # Nothing
          /\ \E o \in AllOwners :
               /\ file[p].size \in {disk.owned[o][p], disk.deleting[o][p]}
               /\ family = "text" => file[p].by = o]_sidecarVars

(* A deletion is begun only for a file whose last transaction returned it  *)
(* to the archive by a restore that deletes sidecars, whichever run that   *)
(* was; one split again is excluded (deleteEarlierRestored).               *)
DeletesRestoredOnly ==
  [][\A o \in AllOwners, p \in Path :
       disk.deleting[o][p] = 0 /\ disk'.deleting[o][p] # 0
         => tx[o].op = "restore" /\ tx[o].cleanup]_sidecarVars

(* A split that completed has for every moved file a sidecar of the        *)
(* recorded size, or has reported it, whatever earlier processes left, and *)
(* the error of the worker is not lost (previewQueue.close, catchUp).      *)
CaughtUp ==
  pc = "ended" /\ run.op = "split" /\ err = "none" /\ ~touched =>
    \A o \in AllOwners :
      /\ tx[o].op = "split"
      /\ \/ o \in failed
         \/ family = "preview" /\ plan[o] # Nothing /\ Published(o, plan[o])
         \/ family = "text" /\ \E p \in Path : Published(o, p)

(* After a split that completed, an owned description lists exactly the    *)
(* previews the log records, also when a crash or a later move left it     *)
(* stale (refreshPreviewDescription); one of an indexed name need not.     *)
LinksMatch ==
  pc = "ended" /\ run.op = "split" /\ err = "none" /\ family = "preview" =>
    \A o \in AllOwners \ indexed : plan[o] # Nothing => links[o] \in {Nothing, Recorded(disk, o)}

(* A completed restore that deletes sidecars leaves none that is unchanged *)
(* beside a file such a restore returned, even one that was interrupted    *)
(* between commit and deletion and replaced by other runs.                 *)
CleanedUp ==
  pc = "ended" /\ run.op = "restore" /\ run.cleanup /\ err = "none" /\ ~touched =>
    \A o \in AllOwners, p \in Path :
      tx[o].op = "restore" /\ tx[o].cleanup /\ disk.owned[o][p] > 0 => ~Deletable(o, p)

(* A process ends: the loop never waits for a worker that failed, nor the  *)
(* worker for the loop.                                                    *)
SidecarEnds == pc \notin {"down", "ended"} ~> pc \in {"down", "ended"}

(* What docs/openspec/stage-4-catia/split-restore.md says of sidecars of a *)
(* file split again after a restore: they are never removed by a later     *)
(* restore while the file is in the mirror.                                *)
SplitAgainKept ==
  [][ByOperator \/ \A p \in Path :
       file[p] # Nothing /\ file'[p] = Nothing => tx[file[p].by].op = "restore"]_sidecarVars
=============================================================================
