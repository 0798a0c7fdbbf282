---------------------------- MODULE RegistryView ----------------------------
(***************************************************************************)
(* What the registries of an archive say, over many runs: the file         *)
(* registry that scan and split write and restore updates, with the rows   *)
(* of files that were moved out (archive_view.go, scan_preserved.go), rows *)
(* reused from the registry before (scan_reuse.go, registry_base.go), and  *)
(* the two copies of a payload registry, replayed from the logs of every   *)
(* run (split_report.go, restore_report.go).                               *)
(*                                                                         *)
(* A file is a version of its content and a modification time in seconds;  *)
(* every version has the same size, so that only time tells them apart.    *)
(* A transaction is one step (Transfer has its steps), as is the detection *)
(* of one file (Scan has the pipeline and its cursor).  The clock advances *)
(* between runs and while files are detected.  A description is written to *)
(* the first of two names that no file of the operator occupies.  Symbolic *)
(* links, --exclude, --overwrite and previews are left out.                *)
(***************************************************************************)
EXTENDS Naturals, Sequences, Functions

CONSTANTS
  Path,        \* rel_path values
  KindOf,      \* payload kind that selects each path
  Offered,     \* what the operator may run first, second, ...
  MaxRuns,     \* bound: commands started
  MaxTime,     \* bound: seconds
  MaxChanges,  \* bound: changes by the operator
  MaxCrashes   \* bound: processes that die

ASSUME ViewBoundsAssumption ==
  {MaxRuns, MaxTime, MaxChanges, MaxCrashes} \subseteq Nat
ASSUME KindOfAssumption == KindOf \in [Path -> {"video", "catia"}]
(* A scan has no payload; a restore has no detection settings (0).         *)
Command == [op : {"scan", "split", "restore"}, kind : {"none", "video", "catia"},
            settings : Nat, update : BOOLEAN, keep : BOOLEAN]
ASSUME OfferedAssumption == \A i \in 1..MaxRuns : \A cmd \in Offered[i] :
  cmd \in Command /\ (cmd.op = "scan" <=> cmd.kind = "none") /\ (cmd.op = "restore" <=> cmd.settings = 0)

VARIABLES
  clock,
  file, mirror,    \* [data, mtime] of each path in the archive and in its mirror
  mounted,         \* the mirrors can be read
  note,            \* descriptions in the archive, by path and name
  history,         \* the logs: one record per split or restore run
  registry,        \* the file registry: rows by path, and descriptions that have a row
  stamp,           \* registry.json
  copies,          \* payload registries by kind: statuses in the archive's and the mirror's copy
  job,             \* the run that current names, as its checkpoint has it
  base, kept, skip, \* of the scanning process: the registry before, preserved rows, owned paths
  issues, existing, \* of the executing process: skipped candidates, payload registry as it was read
  pc,
  changed,         \* history: paths the operator changed since the scan began
  quiet,           \* history: settings of a completed split nothing has changed since, or 0
  budget

viewVars == <<clock, file, mirror, mounted, note, history, registry, stamp, copies, job,
              base, kept, skip, issues, existing, pc, changed, quiet, budget>>

Names == {1, 2}
NoFile == [data |-> 0, mtime |-> 0]
Guessed == [data |-> 0, settings |-> 0]       \* reconstructed from the payload registry
Typed == [data |-> 0, settings |-> 1]         \* entered by the operator
NoRegistry == [rows |-> <<>>, notes |-> {}]
NoStamp == [registry |-> NoRegistry, started |-> 0, settings |-> 0]
NoCopy == [rows |-> <<>>, there |-> FALSE]
Copy(statuses) == [rows |-> statuses, there |-> TRUE]
NoBase == [registry |-> NoRegistry, reusable |-> FALSE, id |-> NoRegistry, started |-> 0]
Idle == [op |-> "none", kind |-> "none", settings |-> 0, update |-> FALSE, keep |-> FALSE]
NoJob == [cmd |-> Idle, complete |-> FALSE, started |-> 0, rows |-> <<>>, notes |-> {},
          visited |-> {}, id |-> NoRegistry, run |-> 0]

(* locationOf.                                                             *)
LocationOf(p) == IF KindOf[p] = "catia" THEN "catia-archive" ELSE "video-archive"
Row(loc, mtime, val) == [loc |-> loc, mtime |-> mtime, val |-> val]
WithRow(rows, p, row) == [q \in DOMAIN rows \cup {p} |-> IF q = p THEN row ELSE rows[q]]
(* Detection of a file under given settings.                               *)
Detect(f, settings) == [data |-> f.data, settings |-> settings]
-----------------------------------------------------------------------------
(* The history of a payload: its runs in the order they were created.      *)
ReadHistory(kind) == {i \in DOMAIN history : history[i].kind = kind}
Earliest(S) == CHOOSE i \in S : \A j \in S : i <= j
Latest(S) == CHOOSE i \in S : \A j \in S : j <= i

(* splitEvents: the final split transaction of each path in one run (an    *)
(* abort never undoes a commit), and the paths it restored.                *)
PathsWith(run, op, statuses) ==
  {e.path : e \in {x \in Range(run.events) : run.op = op /\ x.status \in statuses}}
EventsOf(run, p) == {i \in DOMAIN run.events : run.events[i].path = p}
LastEvent(run, p) == run.events[Latest(EventsOf(run, p))]
MovedBy(run) == PathsWith(run, "split", {"moved"})
SplitEvents(run) ==
  [p \in PathsWith(run, "split", {"moved", "conflict", "skipped"}) |->
     IF p \in MovedBy(run) THEN "moved" ELSE LastEvent(run, p).status]
RestoredBy(run) == PathsWith(run, "restore", {"restored"})
(* restoreCommitTimes: the last commit of the run counts.                  *)
CommitTime(run, p) == LastEvent(run, p).at

(* replayMoves: what is still moved, and when what was moved came back;    *)
(* the first restore after the last move counts.                           *)
Moves(kind, p) == {i \in ReadHistory(kind) : p \in MovedBy(history[i])}
Returns(kind, p) == {i \in ReadHistory(kind) :
                       p \in RestoredBy(history[i]) /\ \A m \in Moves(kind, p) : m <= i}
ReplayMoves(kind) ==
  LET known == {p \in Path : Moves(kind, p) # {}}
      back == {p \in known : Returns(kind, p) # {}}
  IN [moved |-> known \ back,
      restored |-> [p \in back |-> CommitTime(history[Earliest(Returns(kind, p))], p)]]
Kinds == {"video", "catia"}
Moved == UNION {ReplayMoves(kind).moved : kind \in Kinds}
Restored ==
  LET back(kind) == ReplayMoves(kind).restored
  IN [p \in UNION {DOMAIN back(kind) : kind \in Kinds} |-> back(KindOf[p])[p]]

(* ownedDescriptions: written and not removed since, or recorded by a      *)
(* restore and still carrying the marker.                                  *)
Records(d) ==
  {x \in (DOMAIN history) \X UNION {DOMAIN history[i].events : i \in DOMAIN history} :
     /\ x[2] \in DOMAIN history[x[1]].events
     /\ history[x[1]].events[x[2]].path = d[1] /\ history[x[1]].events[x[2]].note = d[2]}
Newest(S) ==
  CHOOSE x \in S : \A y \in S : y[1] < x[1] \/ (y[1] = x[1] /\ y[2] <= x[2])
LastRecord(d) == history[Newest(Records(d))[1]].events[Newest(Records(d))[2]]
OwnedDescriptions ==
  {d \in Path \X Names :
     Records(d) # {} /\ (LastRecord(d).status = "moved" \/ note[d] = "owned")}

(* MergeVideoRows, MarkRestored: a moved row is not replaced by a lesser   *)
(* status; only rows that exist are marked.                                *)
Merge(rows, incoming) ==
  [p \in DOMAIN rows \cup DOMAIN incoming |->
     IF p \notin DOMAIN incoming \/ (p \in DOMAIN rows /\ rows[p] = "moved")
       THEN rows[p] ELSE incoming[p]]
MarkRestored(rows, paths) ==
  [p \in DOMAIN rows |-> IF p \in paths THEN "restored" ELSE rows[p]]
ReplayNewest(rows, kind) ==               \* mutant: only the last run is replayed
  LET runs == ReadHistory(kind)
      last == history[Latest(runs)]
  IN IF runs = {} THEN rows ELSE MarkRestored(Merge(rows, SplitEvents(last)), RestoredBy(last))
Replay(rows, kind) ==
  LET replayed[n \in 0..Len(history)] ==
        IF n = 0 THEN rows
        ELSE IF n \notin ReadHistory(kind) THEN replayed[n - 1]
        ELSE MarkRestored(Merge(replayed[n - 1], SplitEvents(history[n])), RestoredBy(history[n]))
  IN replayed[Len(history)]
-----------------------------------------------------------------------------
(* openRegistryBase: the registry is the one the stamp names, and was      *)
(* detected with the same settings.                                        *)
Stamped == stamp.registry = registry
OpenBase == [registry |-> registry, started |-> stamp.started,
             id |-> IF Stamped THEN registry ELSE NoRegistry,
             reusable |-> Stamped /\ stamp.settings = job.cmd.settings]

(* preservedFromBase, preservedFromMirror, reconstructRow: the first       *)
(* source that has a row for a moved file.                                 *)
PreservedRowAsIs(b, p) ==                 \* mutant: the location stays as it was
  IF p \in DOMAIN b.registry.rows THEN b.registry.rows[p]
  ELSE Row(LocationOf(p), mirror[p].mtime, Detect(mirror[p], job.cmd.settings))
PreservedRow(b, p) ==
  LET known == p \in DOMAIN b.registry.rows
  IN CASE known /\ b.reusable -> [b.registry.rows[p] EXCEPT !.loc = LocationOf(p)]
       [] mounted /\ mirror[p] # NoFile ->
            Row(LocationOf(p), mirror[p].mtime, Detect(mirror[p], job.cmd.settings))
       [] known -> [b.registry.rows[p] EXCEPT !.loc = LocationOf(p)]
       [] OTHER -> Row(LocationOf(p), mirror[p].mtime, Guessed)

(* baseStream.at: whether the row of the base stands for a file that is    *)
(* present.                                                                *)
RestoredSinceBaseNever(p) == FALSE        \* mutant: a restored file's row is trusted
RestoredSinceBase(p) == p \in DOMAIN Restored /\ Restored[p] >= base.started
Unchanged(p) ==
  /\ file[p].mtime = base.registry.rows[p].mtime
  /\ file[p].mtime < base.started
Reusable(p) ==
  /\ base.reusable /\ p \in DOMAIN base.registry.rows
  /\ base.registry.rows[p].loc = "archive"
  /\ ~RestoredSinceBase(p)
  /\ Unchanged(p)
PresentRow(p) ==
  IF Reusable(p) THEN base.registry.rows[p]
  ELSE Row("archive", file[p].mtime, Detect(file[p], job.cmd.settings))
-----------------------------------------------------------------------------
Goto(label) == pc' = label
Spend(what) == budget[what] > 0 /\ budget' = [budget EXCEPT ![what] = @ - 1]

ViewStart(at, left) ==
  /\ clock = 1
  /\ file = [p \in Path |-> [data |-> 1, mtime |-> 0]]
  /\ mirror = [p \in Path |-> NoFile] /\ mounted = TRUE
  /\ note = [d \in Path \X Names |-> "none"]
  /\ history = <<>> /\ registry = NoRegistry /\ stamp = NoStamp
  /\ copies = [kind \in Kinds |-> [archive |-> NoCopy, mirror |-> NoCopy]]
  /\ job = NoJob /\ base = NoBase /\ kept = <<>> /\ skip = {}
  /\ issues = <<>> /\ existing = NoCopy
  /\ changed = {} /\ quiet = 0 /\ pc = at /\ budget = left
ViewInit == ViewStart("down", [runs |-> MaxRuns, changes |-> MaxChanges, crashes |-> MaxCrashes])
ViewIdle == ViewStart("idle", [runs |-> 0, changes |-> 0, crashes |-> 0])  \* nothing happens

files == <<file, mirror, mounted, note>>
outputs == <<registry, stamp, copies>>
memory == <<base, kept, skip, issues, existing>>

(* A new run, or the process that resumes the run current names.           *)
LoadCopy(kind) ==                         \* loadVideoRegistry, loadCatiaRegistry
  IF kind = "none" THEN NoCopy
  ELSE IF copies[kind].archive.there THEN copies[kind].archive ELSE copies[kind].mirror
Begin(cmd) ==
  /\ existing' = LoadCopy(cmd.kind) /\ issues' = <<>>
  /\ mounted \/ cmd.op = "scan"
  /\ Goto(IF cmd.op = "restore" \/ job'.complete THEN "move" ELSE "open")
  /\ UNCHANGED <<base, kept, skip>>
StartRun(cmd) ==
  /\ pc = "down" /\ Spend("runs") /\ cmd \in Offered[1 + MaxRuns - budget.runs]
  /\ IF cmd.kind = "none" THEN UNCHANGED history
     ELSE history' = Append(history, [kind |-> cmd.kind, op |-> cmd.op, events |-> <<>>])
  /\ job' = [NoJob EXCEPT !.cmd = cmd, !.run = Len(history')]
  /\ Begin(cmd)
  /\ UNCHANGED <<clock, files, outputs, changed, quiet>>
Resume ==
  /\ pc = "down" /\ job # NoJob
  /\ UNCHANGED job /\ Begin(job.cmd)
  /\ UNCHANGED <<clock, files, history, outputs, changed, quiet, budget>>

(* openScan: rows so far are kept when they came from this base; the start *)
(* of the scan is that of the run's first process.                         *)
Started == IF job.started # 0 THEN job.started ELSE clock
ScanOpen ==
  LET b == OpenBase
      resumed == job.visited # {} /\ job.id = b.id
      j == [(IF resumed THEN job ELSE [NoJob EXCEPT !.cmd = job.cmd, !.run = job.run])
            EXCEPT !.started = Started, !.id = b.id]
  IN /\ pc = "open" /\ Goto("scan")
     /\ base' = b
     /\ job' = j
     /\ kept' = [p \in Moved |-> PreservedRow(b, p)]
     /\ skip' = OwnedDescriptions
     /\ changed' = IF resumed THEN changed ELSE {}
     /\ UNCHANGED <<clock, files, history, outputs, issues, existing, quiet, budget>>

(* One path: a present file, or the preserved row of one that is absent;   *)
(* and the descriptions beside it that are not owned.                      *)
Visit(p) ==
  /\ pc = "scan" /\ p \notin job.visited
  /\ job' = [job EXCEPT
       !.visited = @ \cup {p},
       !.rows = IF file[p] # NoFile THEN WithRow(@, p, PresentRow(p))
                ELSE IF p \in DOMAIN kept THEN WithRow(@, p, kept[p]) ELSE @,
       !.notes = @ \cup {d \in {p} \X Names : note[d] # "none" /\ d \notin skip}]
  /\ UNCHANGED <<clock, files, history, outputs, memory, pc, changed, quiet, budget>>

(* placeRegistry, then the stamp.                                          *)
Place ==
  /\ pc = "scan" /\ job.visited = Path
  /\ registry' = [rows |-> job.rows, notes |-> job.notes]
  /\ quiet' = IF quiet = job.cmd.settings THEN quiet ELSE 0
  /\ Goto("stamp")
  /\ base' = NoBase /\ kept' = <<>> /\ skip' = {}
  /\ UNCHANGED <<clock, files, history, stamp, copies, job, issues, existing, changed, budget>>
WriteStamp == stamp' = [registry |-> registry, started |-> job.started, settings |-> job.cmd.settings]
Stamp ==
  /\ pc = "stamp"
  /\ WriteStamp
  /\ job' = [job EXCEPT !.complete = TRUE, !.notes = {}, !.id = NoRegistry]
  /\ Goto(IF job.cmd.op = "scan" THEN "done" ELSE "move")
  /\ UNCHANGED <<clock, files, history, registry, copies, memory, changed, quiet, budget>>
-----------------------------------------------------------------------------
Log(p, status, n) ==
  history' = [history EXCEPT ![job.run].events =
                Append(@, [path |-> p, status |-> status, at |-> clock, note |-> n])]
Committed == {e.path : e \in {x \in Range(history[job.run].events) : x.status \in {"moved", "restored"}}}
Tried == Committed \cup DOMAIN issues
Name(p) == IF \E n \in Names : note[<<p, n>>] = "owned"
             THEN CHOOSE n \in Names : note[<<p, n>>] = "owned"
             ELSE IF note[<<p, 1>>] = "none" THEN 1 ELSE 2

(* A split moves a candidate of its scan out, or adopts an equal file in   *)
(* the mirror; another file there is a conflict, seen before the           *)
(* transaction or by it; a source that changes under it is skipped.        *)
Candidates ==
  IF job.cmd.op = "split"
    THEN {p \in DOMAIN job.rows : KindOf[p] = job.cmd.kind /\ job.rows[p].loc = "archive"}
    ELSE {p \in Path : KindOf[p] = job.cmd.kind /\ mirror[p] # NoFile}
MayMoveOut(p) == /\ pc = "move" /\ job.cmd.op = "split"
                 /\ p \in Candidates \ Tried /\ file[p] # NoFile
MoveOut(p) ==
  /\ MayMoveOut(p) /\ mirror[p].data \in {0, file[p].data}
  /\ mirror' = [mirror EXCEPT ![p] = IF @ = NoFile THEN file[p] ELSE @]
  /\ file' = [file EXCEPT ![p] = NoFile]
  /\ note' = [note EXCEPT ![<<p, Name(p)>>] = "owned"]
  /\ Log(p, "moved", Name(p))
  /\ quiet' = 0
  /\ UNCHANGED <<clock, mounted, outputs, job, memory, pc, changed, budget>>
Refuse(p) ==
  /\ MayMoveOut(p) /\ mirror[p].data \notin {0, file[p].data}
  /\ issues' = WithRow(issues, p, "conflict")
  /\ UNCHANGED <<clock, files, history, outputs, job, base, kept, skip, existing, pc, changed, quiet, budget>>
Abort(p) ==
  /\ MayMoveOut(p) /\ mirror[p] = NoFile /\ Spend("changes")
  /\ \E status \in {"conflict", "skipped"} :
       Log(p, status, 0) /\ issues' = WithRow(issues, p, status)
  /\ UNCHANGED <<clock, files, outputs, job, base, kept, skip, existing, pc, changed, quiet>>

(* A restore returns a file of the mirror, with or without its             *)
(* description, unless another one is at its path.                         *)
RestoreOne(p) ==
  LET n == IF \E m \in Names : note[<<p, m>>] = "owned" THEN Name(p) ELSE 0
  IN /\ pc = "move" /\ job.cmd.op = "restore" /\ p \in Candidates \ Tried
     /\ IF file[p] = NoFile \/ file[p].data = mirror[p].data
          THEN /\ file' = [file EXCEPT ![p] = IF @ = NoFile THEN mirror[p] ELSE @]
               /\ mirror' = [mirror EXCEPT ![p] = NoFile]
               /\ note' = IF n = 0 \/ job.cmd.keep THEN note ELSE [note EXCEPT ![<<p, n>>] = "none"]
               /\ Log(p, "restored", n)
               /\ UNCHANGED issues
          ELSE /\ issues' = WithRow(issues, p, "conflict")
               /\ UNCHANGED <<file, mirror, note, history>>
     /\ quiet' = 0
     /\ UNCHANGED <<clock, mounted, outputs, job, base, kept, skip, existing, pc, changed, budget>>

Moving == {p \in Candidates \ Tried : job.cmd.op = "restore" \/ file[p] # NoFile}
Executed ==
  /\ pc = "move" /\ Moving = {}
  /\ Goto(IF job.cmd.op = "restore" /\ ~job.cmd.update THEN "done"
          ELSE IF job.cmd.op = "restore" /\ ~existing.there THEN "locate" ELSE "report")
  /\ UNCHANGED <<clock, files, history, outputs, job, memory, changed, quiet, budget>>

(* writeVideoOutputs, writeRestoreOutputs and their CATIA counterparts:    *)
(* the archive's copy, then the mirror's; a restore that leaves nothing    *)
(* moved and removed the descriptions retires both.                        *)
SplitRows == Merge(Replay(LoadCopy(job.cmd.kind).rows, job.cmd.kind), issues)
RestoredRows == Replay(existing.rows, job.cmd.kind)
ReportRows == IF job.cmd.op = "split" THEN SplitRows ELSE RestoredRows
HasMoved(rows) == \E p \in DOMAIN rows : rows[p] = "moved"
Retire(rows) == job.cmd.op = "restore" /\ ~job.cmd.keep /\ ~HasMoved(rows)
WriteCopy(where) ==
  copies' = [copies EXCEPT ![job.cmd.kind][where] = IF Retire(ReportRows) THEN NoCopy ELSE Copy(ReportRows)]
ReportArchive ==
  /\ pc = "report"
  /\ WriteCopy("archive")
  /\ existing' = Copy(ReportRows)
  /\ Goto("report-mirror")
  /\ UNCHANGED <<clock, files, history, registry, stamp, job, base, kept, skip, issues, changed, quiet, budget>>
ReportMirror ==
  /\ pc = "report-mirror"
  /\ copies' = [copies EXCEPT ![job.cmd.kind].mirror = IF Retire(existing.rows) THEN NoCopy ELSE existing]
  /\ Goto("locate")
  /\ UNCHANGED <<clock, files, history, registry, stamp, job, memory, changed, quiet, budget>>

(* updateSplitLocations: the registry as it is now, whoever wrote it, with *)
(* the location of the files this run moved; then its stamp.               *)
LocateSplitUnlisted ==                    \* mutant: only the stamp is written
  /\ pc = "locate" /\ job.cmd.op = "split"
  /\ Goto("restamp")
  /\ UNCHANGED <<clock, files, history, outputs, job, memory, changed, quiet, budget>>
LocateSplit ==
  /\ pc = "locate" /\ job.cmd.op = "split"
  /\ LET moves == Committed # {} /\ registry.rows # <<>>
     IN /\ registry' = IF moves
             THEN [registry EXCEPT !.rows = [p \in DOMAIN @ |->
                     IF p \in Committed THEN [@[p] EXCEPT !.loc = LocationOf(p)] ELSE @[p]]]
             ELSE registry
        /\ Goto(IF moves THEN "restamp" ELSE "settle")
  /\ UNCHANGED <<clock, files, history, stamp, copies, job, memory, changed, quiet, budget>>
Restamp ==
  /\ pc = "restamp"
  /\ IF job.cmd.op = "split" THEN WriteStamp
     ELSE stamp' = [stamp EXCEPT !.registry = registry]
  /\ Goto(IF job.cmd.op = "split" THEN "settle" ELSE "done")
  /\ UNCHANGED <<clock, files, history, registry, copies, job, memory, changed, quiet, budget>>
Settle ==
  /\ pc = "settle"
  /\ quiet' = IF changed = {} THEN job.cmd.settings ELSE 0
  /\ Goto("done")
  /\ UNCHANGED <<clock, files, history, outputs, job, memory, changed, budget>>

(* updateRestoredLocations: only in the registry the stamp names.          *)
LocateRestored ==
  /\ pc = "locate" /\ job.cmd.op = "restore"
  /\ LET back == {p \in DOMAIN registry.rows :
                    p \in DOMAIN ReplayMoves(job.cmd.kind).restored /\ registry.rows[p].loc = LocationOf(p)}
         updates == Stamped /\ back # {}
     IN /\ registry' = IF updates
             THEN [registry EXCEPT !.rows = [p \in DOMAIN @ |->
                     IF p \in back THEN [@[p] EXCEPT !.loc = "archive"] ELSE @[p]]]
             ELSE registry
        /\ Goto(IF updates THEN "restamp" ELSE "done")
  /\ UNCHANGED <<clock, files, history, stamp, copies, job, memory, changed, quiet, budget>>

(* The run is over; current still names it, and it is complete.            *)
Forget == base' = NoBase /\ kept' = <<>> /\ skip' = {} /\ issues' = <<>> /\ existing' = NoCopy
Finish ==
  /\ pc = "done" /\ Goto("down")
  /\ job' = NoJob /\ Forget
  /\ UNCHANGED <<clock, files, history, outputs, changed, quiet, budget>>
-----------------------------------------------------------------------------
Tick ==
  /\ clock < MaxTime /\ pc \in {"down", "scan"}
  /\ clock' = clock + 1
  /\ UNCHANGED <<files, history, outputs, job, memory, pc, changed, quiet, budget>>
Crash ==
  /\ pc \notin {"down", "done"} /\ Spend("crashes")
  /\ Goto("down") /\ Forget
  /\ UNCHANGED <<clock, files, history, outputs, job, changed, quiet>>

(* The mirrors are on disks that are not always there.                     *)
Mount ==
  /\ pc = "down" /\ mounted' = ~mounted
  /\ UNCHANGED <<clock, file, mirror, note, history, outputs, job, memory, pc, changed, quiet, budget>>

(* The operator rewrites, adds or removes a file, deletes a registry or    *)
(* edits a row, or puts a file of his own where a description is.          *)
Newer == [data |-> 1 + MaxChanges - budget.changes + 1, mtime |-> clock]
Edit(p) ==
  /\ file' = [file EXCEPT ![p] = Newer] /\ changed' = changed \cup {p}
  /\ UNCHANGED <<mirror, mounted, note, registry, copies>>
Delete(p) ==
  /\ file[p] # NoFile
  /\ file' = [file EXCEPT ![p] = NoFile] /\ changed' = changed \cup {p}
  /\ UNCHANGED <<mirror, mounted, note, registry, copies>>
EditRegistry(p) ==
  /\ p \in DOMAIN registry.rows /\ registry' = [registry EXCEPT !.rows[p].val = Typed]
  /\ changed' = Path
  /\ UNCHANGED <<files, copies>>
DeleteRegistry ==
  /\ registry' = NoRegistry /\ changed' = Path
  /\ UNCHANGED <<files, copies>>
DeleteCopy(kind) ==
  /\ pc = "down" /\ copies[kind].archive.there
  /\ copies' = [copies EXCEPT ![kind].archive = NoCopy]
  /\ UNCHANGED <<files, registry, changed>>
OwnNote(p) ==
  /\ note' = [note EXCEPT ![<<p, 1>>] = "operator"] /\ changed' = changed \cup {p}
  /\ UNCHANGED <<file, mirror, mounted, registry, copies>>
Operator ==
  /\ pc \in {"down", "scan", "move", "locate"} /\ Spend("changes")
  /\ quiet' = 0
  /\ \/ \E p \in Path : Edit(p) \/ Delete(p) \/ EditRegistry(p) \/ OwnNote(p)
     \/ DeleteRegistry \/ \E kind \in Kinds : DeleteCopy(kind)
  /\ UNCHANGED <<clock, history, stamp, job, memory, pc>>

ViewNext ==
  \/ \E cmd \in UNION Range(Offered) : StartRun(cmd)
  \/ Resume \/ ScanOpen \/ Place \/ Stamp
  \/ \E p \in Path : Visit(p) \/ MoveOut(p) \/ Refuse(p) \/ Abort(p) \/ RestoreOne(p)
  \/ Executed \/ ReportArchive \/ ReportMirror
  \/ LocateSplit \/ LocateRestored \/ Restamp \/ Settle \/ Finish
  \/ Tick \/ Crash \/ Mount \/ Operator
ViewSpec == ViewInit /\ [][ViewNext]_viewVars
-----------------------------------------------------------------------------
(* A row of a present file is the one detection would write now, reused or *)
(* not, unless the operator changed the file during the scan, or entered   *)
(* the value and the registry was then stamped by a split: no crash        *)
(* between registry and stamp, no restored or reconstructed row and no     *)
(* edit within a second makes a stale row pass (baseStream.at).            *)
RowsTrue ==
  pc = "stamp" =>
    \A p \in DOMAIN registry.rows \ changed :
      LET row == registry.rows[p]
      IN row.loc = "archive" /\ row.val # Typed =>
           row.mtime = file[p].mtime /\ row.val = Detect(file[p], job.cmd.settings)

(* Presence wins, removal is real: a scan leaves a row for exactly what is *)
(* in the archive or was moved out and not returned, at its location       *)
(* (loadArchiveView, preparePreserved).  No description of arxgo has a row, *)
(* also after a restore that kept it; a file of the operator that no run   *)
(* wrote has one (ownedDescriptions).                                      *)
OneInventory ==
  pc = "stamp" =>
    /\ \A p \in Path \ changed :
         /\ (p \in DOMAIN registry.rows) <=> (file[p] # NoFile \/ mirror[p] # NoFile)
         /\ p \in DOMAIN registry.rows =>
              (registry.rows[p].loc = "archive") <=> (file[p] # NoFile)
    /\ \A d \in Path \X Names : d[1] \notin changed =>
         /\ note[d] = "owned" => d \notin registry.notes
         /\ /\ note[d] = "operator"
            /\ \A i \in DOMAIN history : \A e \in Range(history[i].events) : <<e.path, e.note>> # d
            => d \in registry.notes

(* When a split or restore has updated the payload registries, both copies *)
(* are the same and call moved exactly what is in the mirror, whatever     *)
(* earlier runs were interrupted before they reported and whichever copy   *)
(* is missing; a registry is retired only when nothing is.                 *)
StatusTruth ==
  pc = "done" /\ (job.cmd.op = "split" \/ (job.cmd.op = "restore" /\ job.cmd.update)) =>
    LET copy == copies[job.cmd.kind]
        here == {p \in Path : KindOf[p] = job.cmd.kind /\ mirror[p] # NoFile}
    IN /\ copy.archive = copy.mirror
       /\ copy.archive.there => {p \in DOMAIN copy.archive.rows : copy.archive.rows[p] = "moved"} = here
       /\ ~copy.archive.there => here = {} \/ ~existing.there

(* A scan after a completed split finds nothing to change                  *)
(* (updateSplitLocations): unless the operator changed something, the      *)
(* registry it places is the one the split left.                           *)
NothingToChange ==
  [][pc = "scan" /\ pc' = "stamp" /\ quiet = job.cmd.settings => registry' = registry]_viewVars
=============================================================================
