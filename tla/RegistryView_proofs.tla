------------------------ MODULE RegistryView_proofs ------------------------
(***************************************************************************)
(* The registries, proved for any paths, kinds, commands and histories:    *)
(* RowsTrue, OneInventory, StatusTruth and NothingToChange of RegistryView *)
(* follow from one invariant, RegistryInv.  What the logs say is what lies *)
(* in the mirror (Truthful); a row that agrees with its file in the time   *)
(* is to be trusted under stated conditions (Honest), which is what lets a *)
(* later scan reuse it; and each command leaves the registry in step with  *)
(* both (Inventory, Reports, Known, Undisturbed).                          *)
(***************************************************************************)
EXTENDS RegistryView, SequenceTheorems, WellFoundedInduction, TLAPS

Notes == Path \X Names
Status == {"moved", "conflict", "skipped", "restored"}
Version == [data : Nat, mtime : Nat]
Value == [data : Nat, settings : Nat]
AnyRow == [loc : {"archive", "video-archive", "catia-archive"}, mtime : Nat, val : Value]
RowsType == UNION {[S -> AnyRow] : S \in SUBSET Path}
StatusesType == UNION {[S -> Status] : S \in SUBSET Path}
RegistryType == [rows : RowsType, notes : SUBSET Notes]
CopyType == [rows : StatusesType, there : BOOLEAN]
EventType == [path : Path, status : Status, at : Nat, note : 0..2]
RunType == [kind : Kinds, op : {"split", "restore"}, events : Seq(EventType)]
Labels == {"down", "open", "scan", "stamp", "move", "report", "report-mirror", "locate", "restamp",
           "settle", "done"}

ViewTypes ==
  /\ clock \in Nat \ {0}
  /\ file \in [Path -> Version] /\ mirror \in [Path -> Version] /\ mounted \in BOOLEAN
  /\ note \in [Notes -> {"none", "owned", "operator"}]
  /\ history \in Seq(RunType)
  /\ registry \in RegistryType
  /\ stamp \in [registry : RegistryType, started : Nat, settings : Nat]
  /\ copies \in [Kinds -> [archive : CopyType, mirror : CopyType]]
  /\ job \in [cmd : Command \cup {Idle}, complete : BOOLEAN, started : Nat, rows : RowsType,
              notes : SUBSET Notes, visited : SUBSET Path, id : RegistryType, run : Nat]
  /\ base \in [registry : RegistryType, reusable : BOOLEAN, id : RegistryType, started : Nat]
  /\ kept \in RowsType /\ skip \subseteq Notes
  /\ issues \in StatusesType /\ existing \in CopyType
  /\ pc \in Labels
  /\ changed \subseteq Path /\ quiet \in Nat
  /\ budget \in [runs : 0..MaxRuns, changes : 0..MaxChanges, crashes : 0..MaxCrashes]

(* Rows stand at the archive or where the payload kind has its files.      *)
Placed(rows) == \A p \in DOMAIN rows : rows[p].loc \in {"archive", LocationOf(p)}
Locations ==
  /\ Placed(registry.rows) /\ Placed(stamp.registry.rows) /\ Placed(job.rows)
  /\ Placed(base.registry.rows)
  /\ \A p \in DOMAIN kept : kept[p].loc = LocationOf(p)

Scans == job.cmd.op \in {"scan", "split"}
Splitting == job.cmd.op = "split"
Restoring == job.cmd.op = "restore"
Phases ==
  /\ job = NoJob \/ job.cmd \in Command
  /\ job = NoJob => pc = "down"
  /\ job.cmd.op = "scan" <=> job.cmd.kind = "none" /\ job # NoJob
  /\ Scans => job.cmd.settings > 0
  /\ Restoring => job.rows = <<>> /\ job.visited = {} /\ ~job.complete
  /\ pc \in {"open", "scan", "stamp"} => Scans /\ ~job.complete
  /\ pc \in {"move", "report", "report-mirror", "locate", "restamp"} =>
       Restoring \/ (Splitting /\ job.complete)
  /\ pc = "settle" => Splitting /\ job.complete
  /\ job.cmd.op = "scan" /\ job.complete => pc = "done"
  /\ pc = "done" => job.complete \/ Restoring
  /\ Splitting \/ Restoring =>
       /\ job.run = Len(history) /\ job.run > 0
       /\ history[job.run].kind = job.cmd.kind /\ history[job.run].op = job.cmd.op
  /\ Splitting /\ ~job.complete => history[job.run].events = <<>>
  /\ pc \in {"scan", "stamp"} => job.started > 0
  /\ DOMAIN job.rows \subseteq job.visited /\ \A d \in job.notes : d[1] \in job.visited
  /\ job.visited # {} => job.started > 0
  /\ pc = "stamp" => job.visited = Path /\ registry = [rows |-> job.rows, notes |-> job.notes]

(* The logs say what lies in the mirror and which descriptions are ours.   *)
InMirror(p) == mirror[p] # NoFile
InArchive(p) == file[p] # NoFile
Truthful ==
  /\ \A i \in DOMAIN history : \A j \in DOMAIN history[i].events :
       LET e == history[i].events[j]
       IN /\ KindOf[e.path] = history[i].kind
          /\ history[i].op = "restore" <=> e.status = "restored"
          /\ e.status = "moved" => e.note # 0
  /\ \A p \in Path : InMirror(p) <=> Moves(KindOf[p], p) # {} /\ Returns(KindOf[p], p) = {}
  /\ \A p \in Path : (file[p].data = 0 => file[p] = NoFile) /\ (mirror[p].data = 0 => mirror[p] = NoFile)
  /\ \A d \in Notes : note[d] = "owned" => Records(d) # {}
  /\ \A p \in Path : note[<<p, 2>>] # "operator"
  /\ Splitting => \A p \in Committed : InMirror(p)

(* Rows that may be reused: what detection under these settings would say  *)
(* of the file now, as far as nothing suggests that it changed; and a row  *)
(* of a file that is away tells of one that was not back before.           *)
BackSince(back, p, time) == p \in DOMAIN back /\ back[p] >= time
Honest(rows, started, settings, f, back) ==
  \A p \in DOMAIN rows :
    IF rows[p].loc = "archive"
      THEN /\ rows[p].val # Typed /\ f[p] # NoFile
           /\ rows[p].mtime = f[p].mtime /\ rows[p].mtime < started /\ ~BackSince(back, p, started)
           => rows[p].val = Detect(f[p], settings)
      ELSE p \in DOMAIN back => back[p] >= started

Reuse ==
  /\ stamp.started <= clock /\ job.started <= clock
  /\ job.started > 0 => stamp.started <= job.started
  /\ Honest(stamp.registry.rows, stamp.started, stamp.settings, file, Restored)
  /\ Scans => Honest(job.rows, job.started, job.cmd.settings, file, Restored)
  /\ Scans /\ (job.complete \/ pc = "stamp") =>
       Honest(registry.rows, job.started, job.cmd.settings, file, Restored)
  /\ pc = "restamp" /\ Restoring =>
       Honest(registry.rows, stamp.started, stamp.settings, file, Restored)
  /\ pc = "scan" => base.started <= job.started
  /\ pc = "scan" /\ base.reusable =>
       Honest(base.registry.rows, base.started, job.cmd.settings, file, Restored)

(* What a scan under these settings would write of a path and beside it.   *)
TrueRowAt(rows, p, settings, started, f, m, back) ==
  /\ p \in DOMAIN rows <=> f[p] # NoFile \/ m[p] # NoFile
  /\ p \in DOMAIN rows => (rows[p].loc = "archive" <=> f[p] # NoFile)
  /\ f[p] # NoFile =>
       /\ rows[p].mtime = f[p].mtime
       /\ \/ rows[p].val = Detect(f[p], settings)
          \/ rows[p].val = Typed /\ rows[p].mtime < started /\ ~BackSince(back, p, started)
TrueNotesAt(notes, p, written, owned) ==
  \A n \in Names : <<p, n>> \in notes <=> written[<<p, n>>] # "none" /\ <<p, n>> \notin owned
TrueRow(rows, p, settings, started) == TrueRowAt(rows, p, settings, started, file, mirror, Restored)
TrueNotes(notes, p) == TrueNotesAt(notes, p, note, OwnedDescriptions)

Inventory ==
  /\ Scans /\ ~job.complete => \A p \in job.visited \ changed :
       TrueRow(job.rows, p, job.cmd.settings, job.started) /\ TrueNotes(job.notes, p)
  /\ pc = "scan" =>
       /\ \A p \in Path : p \in DOMAIN kept <=> InMirror(p)
       /\ \A d \in Notes : d[1] \notin changed => (d \in skip <=> d \in OwnedDescriptions)

(* A registry copy calls moved only what some run moved; after a report,   *)
(* exactly what is in the mirror.                                          *)
MovedRows(rows) == {p \in DOMAIN rows : rows[p] = "moved"}
Here(kind) == {p \in Path : KindOf[p] = kind /\ InMirror(p)}
WereMoved(rows, kind) == \A p \in MovedRows(rows) : Moves(kind, p) # {}
Updates == Splitting \/ (Restoring /\ job.cmd.update)
CopiesTell == \A kind \in Kinds : \A c \in {copies[kind].archive, copies[kind].mirror} :
                WereMoved(c.rows, kind) /\ (c.there \/ c = NoCopy)
Loaded == existing = LoadCopy(job.cmd.kind)
HalfReported ==
  /\ existing.there /\ MovedRows(existing.rows) = Here(job.cmd.kind)
  /\ copies[job.cmd.kind].archive = IF Retire(existing.rows) THEN NoCopy ELSE existing
Reported ==
  LET copy == copies[job.cmd.kind]
  IN /\ copy.archive = copy.mirror
     /\ copy.archive.there => MovedRows(copy.archive.rows) = Here(job.cmd.kind)
     /\ ~copy.archive.there => Here(job.cmd.kind) = {} \/ ~existing.there
Reports ==
  /\ CopiesTell
  /\ \A p \in DOMAIN issues : issues[p] # "moved"
  /\ pc \in {"open", "scan", "stamp", "move", "report"} /\ ~(job.cmd.op = "scan") => Loaded
  /\ pc \in {"report", "report-mirror", "locate"} => Updates
  /\ pc = "report-mirror" => HalfReported
  /\ pc \in {"locate", "restamp", "settle", "done"} /\ Updates => Reported

(* A split during which nobody changed anything knows the archive.         *)
Known ==
  Splitting /\ job.complete /\ changed = {} =>
    /\ stamp.settings = job.cmd.settings /\ stamp.started = job.started
    /\ \A p \in Path : TrueNotes(registry.notes, p)
    /\ \A p \in Path :
         IF p \in Committed
           THEN /\ p \in DOMAIN registry.rows /\ ~InArchive(p)
                /\ pc \in {"restamp", "settle", "done"} => registry.rows[p].loc = LocationOf(p)
           ELSE TrueRow(registry.rows, p, job.cmd.settings, job.started)
    /\ Committed = {} \/ pc \in {"settle", "done"} => registry = stamp.registry

(* After such a split, as long as nothing changes, its registry is what a  *)
(* scan would write, and a scan with its settings reuses it.               *)
Repeating == quiet # 0 /\ Scans /\ ~job.complete /\ job.cmd.settings = quiet
Undisturbed ==
  /\ quiet # 0 =>
       /\ registry = stamp.registry /\ stamp.settings = quiet
       /\ \A p \in Path : TrueRow(registry.rows, p, quiet, stamp.started) /\ TrueNotes(registry.notes, p)
       /\ pc # "restamp"
       /\ pc = "stamp" => job.cmd.settings = quiet
       /\ Splitting /\ pc # "done" => Committed = {}
  /\ Repeating => \A p \in job.visited :
       /\ p \in DOMAIN job.rows <=> p \in DOMAIN registry.rows
       /\ p \in DOMAIN job.rows => job.rows[p] = registry.rows[p]
       /\ \A n \in Names : <<p, n>> \in job.notes <=> <<p, n>> \in registry.notes
  /\ Repeating /\ pc = "scan" =>
       /\ base.registry = registry /\ base.reusable /\ base.started = stamp.started
       /\ \A p \in DOMAIN kept : kept[p] = [registry.rows[p] EXCEPT !.loc = LocationOf(p)]
       /\ skip = OwnedDescriptions

RegistryInv ==
  ViewTypes /\ Locations /\ Phases /\ Truthful /\ Reuse /\ Inventory /\ Reports /\ Known /\ Undisturbed
-----------------------------------------------------------------------------
(* Numbers and functions.                                                  *)
LEMMA LeastOf ==
  ASSUME NEW T, T \subseteq Nat, T # {}
  PROVE  \E k \in T : \A j \in T : k <= j
<1>1. PICK k \in T : \A j \in T : ~ (<<j, k>> \in OpToRel(<, Nat))
  BY NatLessThanWellFounded, WFMin
<1>2. \A j \in T : ~(j < k)
  BY <1>1, Zenon DEF OpToRel
<1> QED
  BY <1>2

LEMMA GreatestOf ==
  ASSUME NEW n \in Nat, NEW T, T \subseteq 1..n, T # {}
  PROVE  \E k \in T : \A j \in T : j <= k
<1> DEFINE U == {n - k : k \in T}
<1>1. U \subseteq Nat /\ U # {}
  <2>1. \A k \in T : n - k \in Nat
    OBVIOUS
  <2> QED
    BY <2>1
<1>2. PICK m \in U : \A j \in U : m <= j
  BY <1>1, LeastOf
<1>3. PICK k \in T : m = n - k
  OBVIOUS
<1>4. \A j \in T : n - j \in U
  OBVIOUS
<1>5. \A j \in T : n - k <= n - j
  BY <1>2, <1>3, <1>4
<1>6. \A j \in T : j <= k
  BY <1>5
<1> QED
  BY <1>6

LEMMA LatestIs ==
  ASSUME NEW n \in Nat, NEW S, S \subseteq 1..n, S # {}
  PROVE  Latest(S) \in S /\ \A j \in S : j <= Latest(S)
BY GreatestOf DEF Latest

LEMMA EarliestIs ==
  ASSUME NEW S, S \subseteq Nat, S # {}
  PROVE  Earliest(S) \in S /\ \A j \in S : Earliest(S) <= j
BY LeastOf DEF Earliest

(* Rows by path.                                                           *)
LEMMA RowsAre ==
  ASSUME NEW f
  PROVE  f \in RowsType <=> DOMAIN f \subseteq Path /\ f \in [DOMAIN f -> AnyRow]
<1>1. ASSUME f \in RowsType PROVE DOMAIN f \subseteq Path /\ f \in [DOMAIN f -> AnyRow]
  <2>1. PICK S \in SUBSET Path : f \in [S -> AnyRow]
    BY <1>1 DEF RowsType
  <2> QED
    BY <2>1
<1>2. ASSUME DOMAIN f \subseteq Path, f \in [DOMAIN f -> AnyRow] PROVE f \in RowsType
  BY <1>2 DEF RowsType
<1> QED
  BY <1>1, <1>2

LEMMA StatusesAre ==
  ASSUME NEW f
  PROVE  f \in StatusesType <=> DOMAIN f \subseteq Path /\ f \in [DOMAIN f -> Status]
<1>1. ASSUME f \in StatusesType PROVE DOMAIN f \subseteq Path /\ f \in [DOMAIN f -> Status]
  <2>1. PICK S \in SUBSET Path : f \in [S -> Status]
    BY <1>1 DEF StatusesType
  <2> QED
    BY <2>1
<1>2. ASSUME DOMAIN f \subseteq Path, f \in [DOMAIN f -> Status] PROVE f \in StatusesType
  BY <1>2 DEF StatusesType
<1> QED
  BY <1>1, <1>2

LEMMA NoRows == <<>> \in RowsType /\ <<>> \in StatusesType /\ DOMAIN <<>> = {}
<1>1. DOMAIN <<>> = {} /\ <<>> \in [{} -> AnyRow] /\ <<>> \in [{} -> Status]
  OBVIOUS
<1> QED
  BY <1>1, RowsAre, StatusesAre

LEMMA OneMoreRow ==
  ASSUME NEW f, NEW p, NEW row
  PROVE  /\ DOMAIN WithRow(f, p, row) = DOMAIN f \cup {p}
         /\ WithRow(f, p, row)[p] = row
         /\ \A q \in DOMAIN f : q # p => WithRow(f, p, row)[q] = f[q]
BY DEF WithRow

LEMMA RowAdded ==
  ASSUME NEW p \in Path, NEW f
  PROVE  /\ \A row \in AnyRow : f \in RowsType => WithRow(f, p, row) \in RowsType
         /\ \A status \in Status : f \in StatusesType => WithRow(f, p, status) \in StatusesType
<1>1. ASSUME NEW row \in AnyRow, f \in RowsType PROVE WithRow(f, p, row) \in RowsType
  <2>1. DOMAIN f \subseteq Path /\ f \in [DOMAIN f -> AnyRow]
    BY <1>1, RowsAre
  <2>2. WithRow(f, p, row) \in [DOMAIN f \cup {p} -> AnyRow]
    BY <1>1, <2>1 DEF WithRow
  <2> QED
    BY <2>1, <2>2, RowsAre, OneMoreRow
<1>2. ASSUME NEW status \in Status, f \in StatusesType PROVE WithRow(f, p, status) \in StatusesType
  <2>1. DOMAIN f \subseteq Path /\ f \in [DOMAIN f -> Status]
    BY <1>2, StatusesAre
  <2>2. WithRow(f, p, status) \in [DOMAIN f \cup {p} -> Status]
    BY <1>2, <2>1 DEF WithRow
  <2> QED
    BY <2>1, <2>2, StatusesAre, OneMoreRow
<1> QED
  BY <1>1, <1>2
-----------------------------------------------------------------------------
(* What the logs say, and how a new run and a new event change it.         *)
LEMMA PathsAre ==
  ASSUME NEW run, NEW op, NEW statuses, NEW p
  PROVE  p \in PathsWith(run, op, statuses) <=>
           run.op = op /\ \E j \in DOMAIN run.events :
                            run.events[j].path = p /\ run.events[j].status \in statuses
BY DEF PathsWith, Range

LEMMA RecordsAre ==
  ASSUME NEW d
  PROVE  /\ \A i, j : <<i, j>> \in Records(d) <=>
              /\ i \in DOMAIN history /\ j \in DOMAIN history[i].events
              /\ history[i].events[j].path = d[1] /\ history[i].events[j].note = d[2]
         /\ \A x \in Records(d) : x = <<x[1], x[2]>>
<1>1. ASSUME NEW i, NEW j
      PROVE  <<i, j>> \in Records(d) <=>
              /\ i \in DOMAIN history /\ j \in DOMAIN history[i].events
              /\ history[i].events[j].path = d[1] /\ history[i].events[j].note = d[2]
  BY DEF Records
<1>2. \A x \in Records(d) : x = <<x[1], x[2]>>
  BY DEF Records
<1> QED
  BY <1>1, <1>2

(* What a replay of the logs can tell of a path, and of a description.     *)
SameMoves(p) ==
  /\ \A kind \in Kinds : Moves(kind, p)' = Moves(kind, p) /\ Returns(kind, p)' = Returns(kind, p)
  /\ p \in DOMAIN Restored' <=> p \in DOMAIN Restored
  /\ p \in DOMAIN Restored => Restored'[p] = Restored[p]
SameRecords(d) ==
  /\ Records(d)' = Records(d)
  /\ Records(d) # {} => LastRecord(d)' = LastRecord(d)

LEMMA RestoredIs ==
  ASSUME ViewTypes, Truthful, NEW p \in Path
  PROVE  LET kind == KindOf[p]
         IN /\ kind \in Kinds
            /\ p \in DOMAIN Restored <=> Moves(kind, p) # {} /\ Returns(kind, p) # {}
            /\ p \in DOMAIN Restored =>
                 Restored[p] = CommitTime(history[Earliest(Returns(kind, p))], p)
<1> DEFINE kind == KindOf[p]
<1>1. kind \in Kinds
  BY KindOfAssumption DEF Kinds
<1>2. ASSUME NEW k \in Kinds, Moves(k, p) # {} PROVE k = kind
  <2>1. PICK i \in DOMAIN history : history[i].kind = k /\ p \in MovedBy(history[i])
    BY <1>2 DEF Moves, ReadHistory
  <2>2. PICK j \in DOMAIN history[i].events : history[i].events[j].path = p
    BY <2>1, PathsAre DEF MovedBy
  <2> QED
    BY <2>1, <2>2 DEF Truthful
<1>3. \A k : DOMAIN ReplayMoves(k).restored = {q \in Path : Moves(k, q) # {} /\ Returns(k, q) # {}}
  BY DEF ReplayMoves
<1>4. p \in DOMAIN Restored <=> \E k \in Kinds : p \in DOMAIN ReplayMoves(k).restored
  BY Zenon DEF Restored
<1>5. p \in DOMAIN Restored => Restored[p] = ReplayMoves(kind).restored[p]
  BY Zenon DEF Restored
<1>6. p \in DOMAIN ReplayMoves(kind).restored =>
        ReplayMoves(kind).restored[p] = CommitTime(history[Earliest(Returns(kind, p))], p)
  BY DEF ReplayMoves
<1> QED
  BY <1>1, <1>2, <1>3, <1>4, <1>5, <1>6

LEMMA MovedIs ==
  ASSUME ViewTypes, Truthful, NEW p \in Path
  PROVE  p \in Moved <=> Moves(KindOf[p], p) # {} /\ Returns(KindOf[p], p) = {}
<1> DEFINE kind == KindOf[p]
<1>1. kind \in Kinds
  BY KindOfAssumption DEF Kinds
<1>2. ASSUME NEW k \in Kinds, Moves(k, p) # {} PROVE k = kind
  <2>1. PICK i \in DOMAIN history : history[i].kind = k /\ p \in MovedBy(history[i])
    BY <1>2 DEF Moves, ReadHistory
  <2>2. PICK j \in DOMAIN history[i].events : history[i].events[j].path = p
    BY <2>1, PathsAre DEF MovedBy
  <2> QED
    BY <2>1, <2>2 DEF Truthful
<1>3. \A k : p \in ReplayMoves(k).moved <=> Moves(k, p) # {} /\ Returns(k, p) = {}
  BY DEF ReplayMoves
<1> QED
  BY <1>1, <1>2, <1>3 DEF Moved

LEMMA RestoredIsNext ==
  ASSUME NEW p \in Path
  PROVE  LET kind == KindOf[p]
         IN /\ p \in DOMAIN Restored' <=> \E k \in Kinds : Moves(k, p)' # {} /\ Returns(k, p)' # {}
            /\ Moves(kind, p)' # {} /\ Returns(kind, p)' # {} =>
                 Restored'[p] = CommitTime(history[Earliest(Returns(kind, p))], p)'
<1> DEFINE kind == KindOf[p]
<1>1. kind \in Kinds
  BY KindOfAssumption DEF Kinds
<1>3. \A k : DOMAIN ReplayMoves(k).restored' = {q \in Path : Moves(k, q)' # {} /\ Returns(k, q)' # {}}
  BY DEF ReplayMoves
<1>4. p \in DOMAIN Restored' <=> \E k \in Kinds : p \in DOMAIN ReplayMoves(k).restored'
  BY Zenon DEF Restored
<1>5. p \in DOMAIN Restored' => Restored'[p] = ReplayMoves(kind).restored'[p]
  BY Zenon DEF Restored
<1>6. p \in DOMAIN ReplayMoves(kind).restored' =>
        ReplayMoves(kind).restored'[p] = CommitTime(history[Earliest(Returns(kind, p))], p)'
  BY DEF ReplayMoves
<1> QED
  BY <1>1, <1>3, <1>4, <1>5, <1>6

(* An event is written at the end of the log of the run.                   *)
LoggedEvent(p, status, n) == [path |-> p, status |-> status, at |-> clock, note |-> n]
LEMMA Logged ==
  ASSUME ViewTypes, job.run \in DOMAIN history,
         NEW p \in Path, NEW status \in Status, NEW n \in 0..2, Log(p, status, n)
  PROVE  /\ history' \in Seq(RunType) /\ DOMAIN history' = DOMAIN history /\ Len(history') = Len(history)
         /\ \A i \in DOMAIN history : i # job.run => history'[i] = history[i]
         /\ \A i \in DOMAIN history : history'[i].kind = history[i].kind /\ history'[i].op = history[i].op
         /\ history'[job.run].events = Append(history[job.run].events, LoggedEvent(p, status, n))
<1> DEFINE run == history[job.run]
           e == LoggedEvent(p, status, n)
<1>1. run \in RunType /\ e \in EventType
  BY DEF ViewTypes, EventType, LoggedEvent
<1>2. [run EXCEPT !.events = Append(@, e)] \in RunType
  <2>1. Append(run.events, e) \in Seq(EventType)
    BY <1>1 DEF RunType
  <2> QED
    BY <1>1, <2>1 DEF RunType
<1>3. history' = [history EXCEPT ![job.run] = [run EXCEPT !.events = Append(@, e)]]
  BY DEF Log, LoggedEvent
<1>4. history \in Seq(RunType)
  BY DEF ViewTypes
<1>5. history' \in Seq(RunType) /\ DOMAIN history' = DOMAIN history /\ Len(history') = Len(history)
  BY <1>2, <1>3, <1>4
<1>6. \A i \in DOMAIN history : i # job.run => history'[i] = history[i]
  BY <1>3, <1>4
<1>7. history'[job.run] = [run EXCEPT !.events = Append(@, e)]
  BY <1>3, <1>4
<1> HIDE DEF run, e
<1>8. /\ history'[job.run].events = Append(run.events, e)
      /\ history'[job.run].kind = run.kind /\ history'[job.run].op = run.op
  BY <1>1, <1>7 DEF RunType
<1> QED
  BY <1>5, <1>6, <1>8 DEF run, e

LEMMA LoggedPaths ==
  ASSUME ViewTypes, job.run \in DOMAIN history,
         NEW p \in Path, NEW status \in Status, NEW n \in 0..2, Log(p, status, n)
  PROVE  /\ \A i \in DOMAIN history : \A q, op, statuses :
              q \in PathsWith(history'[i], op, statuses) <=>
                \/ q \in PathsWith(history[i], op, statuses)
                \/ i = job.run /\ q = p /\ history[i].op = op /\ status \in statuses
         /\ \A i \in DOMAIN history : \A q :
              i # job.run \/ (q # p /\ EventsOf(history[i], q) # {}) =>
                LastEvent(history'[i], q) = LastEvent(history[i], q)
         /\ LastEvent(history'[job.run], p) = LoggedEvent(p, status, n)
         /\ \A kind : ReadHistory(kind)' = ReadHistory(kind)
<1> DEFINE run == history[job.run]
           e == LoggedEvent(p, status, n)
           m == Len(run.events)
<1>1. /\ DOMAIN history' = DOMAIN history
      /\ \A i \in DOMAIN history : i # job.run => history'[i] = history[i]
      /\ \A i \in DOMAIN history : history'[i].kind = history[i].kind /\ history'[i].op = history[i].op
      /\ history'[job.run].events = Append(run.events, e)
  BY Logged
<1>2. run.events \in Seq(EventType) /\ e.path = p /\ e.status = status
  <2>1. run \in RunType
    BY DEF ViewTypes
  <2>2. run.events \in Seq(EventType)
    BY <2>1 DEF RunType
  <2> QED
    BY <2>2 DEF LoggedEvent
<1> HIDE DEF e
<1>3. /\ m \in Nat /\ DOMAIN run.events = 1..m /\ DOMAIN history'[job.run].events = 1..(m + 1)
      /\ \A j \in 1..m : history'[job.run].events[j] = run.events[j]
      /\ history'[job.run].events[m + 1] = e
  BY <1>1, <1>2
<1> HIDE DEF m, run
<1>4. ASSUME NEW q, NEW op, NEW statuses
      PROVE  q \in PathsWith(history'[job.run], op, statuses) <=>
               q \in PathsWith(run, op, statuses) \/ (q = p /\ run.op = op /\ status \in statuses)
  <2>1. q \in PathsWith(history'[job.run], op, statuses) <=>
          run.op = op /\ \E j \in 1..(m + 1) : history'[job.run].events[j].path = q
                                             /\ history'[job.run].events[j].status \in statuses
    <3>1. history'[job.run].op = run.op
      BY <1>1 DEF run
    <3>2. q \in PathsWith(history'[job.run], op, statuses) <=>
            history'[job.run].op = op /\ \E j \in DOMAIN history'[job.run].events :
              history'[job.run].events[j].path = q /\ history'[job.run].events[j].status \in statuses
      BY PathsAre
    <3> QED
      BY <1>3, <3>1, <3>2
  <2>2. q \in PathsWith(run, op, statuses) <=>
          run.op = op /\ \E j \in 1..m : run.events[j].path = q /\ run.events[j].status \in statuses
    BY <1>3, PathsAre
  <2>3. 1..(m + 1) = 1..m \cup {m + 1}
    BY <1>3
  <2> QED
    BY <1>2, <1>3, <2>1, <2>2, <2>3
<1>5. ASSUME NEW q, q # p, EventsOf(run, q) # {}
      PROVE  LastEvent(history'[job.run], q) = LastEvent(run, q)
  <2>1. EventsOf(history'[job.run], q) = EventsOf(run, q)
    BY <1>2, <1>3, <1>5 DEF EventsOf
  <2>2. Latest(EventsOf(run, q)) \in EventsOf(run, q)
    <3>1. EventsOf(run, q) \subseteq 1..m
      BY <1>3 DEF EventsOf
    <3> QED
      BY <1>3, <1>5, <3>1, LatestIs
  <2>3. Latest(EventsOf(run, q)) \in 1..m
    BY <1>3, <2>2 DEF EventsOf
  <2> QED
    BY <1>3, <2>1, <2>3 DEF LastEvent
<1>6. LastEvent(history'[job.run], p) = e
  <2>1. m + 1 \in EventsOf(history'[job.run], p) /\ EventsOf(history'[job.run], p) \subseteq 1..(m + 1)
    BY <1>2, <1>3 DEF EventsOf
  <2>2. Latest(EventsOf(history'[job.run], p)) = m + 1
    BY <1>3, <2>1, LatestIs
  <2> QED
    BY <1>3, <2>2 DEF LastEvent
<1>7. \A kind : ReadHistory(kind)' = ReadHistory(kind)
  BY <1>1 DEF ReadHistory
<1>8. ASSUME NEW i \in DOMAIN history, NEW q, NEW op, NEW statuses
      PROVE  q \in PathsWith(history'[i], op, statuses) <=>
               \/ q \in PathsWith(history[i], op, statuses)
               \/ i = job.run /\ q = p /\ history[i].op = op /\ status \in statuses
  <2>1. CASE i = job.run
    BY <1>4, <2>1 DEF run
  <2>2. CASE i # job.run
    BY <1>1, <2>2
  <2> QED
    BY <2>1, <2>2
<1>9. ASSUME NEW i \in DOMAIN history, NEW q, i # job.run \/ (q # p /\ EventsOf(history[i], q) # {})
      PROVE  LastEvent(history'[i], q) = LastEvent(history[i], q)
  <2>1. CASE i = job.run
    BY <1>5, <1>9, <2>1 DEF run
  <2>2. CASE i # job.run
    BY <1>1, <2>2
  <2> QED
    BY <2>1, <2>2
<1> QED
  BY <1>6, <1>7, <1>8, <1>9 DEF e

LEMMA NewestIs ==
  ASSUME NEW n \in Nat, NEW m, \A i \in 1..n : m[i] \in Nat,
         NEW S, \A x \in S : x = <<x[1], x[2]>> /\ x[1] \in 1..n /\ x[2] \in 1..m[x[1]], S # {}
  PROVE  /\ Newest(S) \in S
         /\ \A y \in S : y[1] < Newest(S)[1] \/ (y[1] = Newest(S)[1] /\ y[2] <= Newest(S)[2])
<1> DEFINE I == {x[1] : x \in S}
<1>1. PICK i \in I : \A k \in I : k <= i
  <2>1. I \subseteq 1..n /\ I # {}
    OBVIOUS
  <2> QED
    BY <2>1, GreatestOf
<1> DEFINE J == {x[2] : x \in {y \in S : y[1] = i}}
<1>2. PICK j \in J : \A k \in J : k <= j
  <2>1. i \in 1..n /\ m[i] \in Nat
    OBVIOUS
  <2>2. J \subseteq 1..m[i] /\ J # {}
    BY <1>1
  <2> QED
    BY <2>1, <2>2, GreatestOf
<1>3. PICK x \in S : x[1] = i /\ x[2] = j
  BY <1>2
<1>4. \A y \in S : y[1] < x[1] \/ (y[1] = x[1] /\ y[2] <= x[2])
  <2> SUFFICES ASSUME NEW y \in S PROVE y[1] < x[1] \/ (y[1] = x[1] /\ y[2] <= x[2])
    OBVIOUS
  <2>1. y[1] \in I /\ y[1] <= i /\ y[1] \in 1..n /\ x[1] \in 1..n
    BY <1>1
  <2>2. y[1] = i => y[2] \in J
    OBVIOUS
  <2>3. y[1] = i => y[2] <= j
    BY <1>2, <2>2
  <2> HIDE DEF I, J
  <2> QED
    BY <1>3, <2>1, <2>3
<1> QED
  BY <1>4 DEF Newest

(* The newest record of a description is one of its records.               *)
LEMMA LastRecordIs ==
  ASSUME ViewTypes, NEW d, Records(d) # {}
  PROVE  /\ Newest(Records(d)) \in Records(d)
         /\ \A y \in Records(d) : \/ y[1] < Newest(Records(d))[1]
                                  \/ y[1] = Newest(Records(d))[1] /\ y[2] <= Newest(Records(d))[2]
<1> DEFINE m == [i \in 1..Len(history) |-> Len(history[i].events)]
<1>1. Len(history) \in Nat /\ DOMAIN history = 1..Len(history)
  BY DEF ViewTypes
<1>2. \A i \in 1..Len(history) : m[i] \in Nat /\ DOMAIN history[i].events = 1..m[i]
  <2> SUFFICES ASSUME NEW i \in 1..Len(history) PROVE m[i] \in Nat /\ DOMAIN history[i].events = 1..m[i]
    OBVIOUS
  <2>1. history[i] \in RunType
    BY DEF ViewTypes
  <2>2. history[i].events \in Seq(EventType)
    BY <2>1 DEF RunType
  <2> QED
    BY <2>2
<1> HIDE DEF m
<1>3. \A x \in Records(d) : x = <<x[1], x[2]>> /\ x[1] \in 1..Len(history) /\ x[2] \in 1..m[x[1]]
  BY <1>1, <1>2, RecordsAre
<1> QED
  BY <1>1, <1>2, <1>3, NewestIs

LEMMA LoggedRecords ==
  ASSUME ViewTypes, job.run = Len(history), job.run \in DOMAIN history,
         NEW p \in Path, NEW status \in Status, NEW n \in 0..2, Log(p, status, n)
  PROVE  /\ \A d \in Notes : d # <<p, n>> => SameRecords(d)
         /\ n # 0 => Records(<<p, n>>)' # {} /\ LastRecord(<<p, n>>)' = LoggedEvent(p, status, n)
<1> DEFINE run == history[job.run]
           e == LoggedEvent(p, status, n)
           m == Len(run.events)
<1>1. /\ history' \in Seq(RunType) /\ DOMAIN history' = DOMAIN history /\ Len(history') = Len(history)
      /\ \A i \in DOMAIN history : i # job.run => history'[i] = history[i]
      /\ history'[job.run].events = Append(run.events, e)
  BY Logged
<1>2. run.events \in Seq(EventType) /\ e.path = p /\ e.note = n
  <2>1. run \in RunType
    BY DEF ViewTypes
  <2>2. run.events \in Seq(EventType)
    BY <2>1 DEF RunType
  <2> QED
    BY <2>2 DEF LoggedEvent
<1> HIDE DEF e
<1>3. /\ m \in Nat /\ DOMAIN run.events = 1..m /\ DOMAIN history'[job.run].events = 1..(m + 1)
      /\ \A j \in 1..m : history'[job.run].events[j] = run.events[j]
      /\ history'[job.run].events[m + 1] = e
  BY <1>1, <1>2
<1> HIDE DEF m
<1>4. ASSUME NEW d
      PROVE  /\ \A i, j : <<i, j>> \in Records(d)' <=>
                  /\ i \in DOMAIN history' /\ j \in DOMAIN history'[i].events
                  /\ history'[i].events[j].path = d[1] /\ history'[i].events[j].note = d[2]
             /\ \A x \in Records(d)' : x = <<x[1], x[2]>>
  <2>1. ASSUME NEW i, NEW j
        PROVE  <<i, j>> \in Records(d)' <=>
                /\ i \in DOMAIN history' /\ j \in DOMAIN history'[i].events
                /\ history'[i].events[j].path = d[1] /\ history'[i].events[j].note = d[2]
    BY DEF Records
  <2>2. \A x \in Records(d)' : x = <<x[1], x[2]>>
    BY DEF Records
  <2> QED
    BY <2>1, <2>2
<1>5. ASSUME NEW d \in Notes, NEW i, NEW j
      PROVE  <<i, j>> \in Records(d)' <=>
               <<i, j>> \in Records(d) \/ (i = job.run /\ j = m + 1 /\ d = <<p, n>>)
  <2>1. CASE i # job.run
    BY <1>1, <1>4, <2>1, RecordsAre
  <2>2. CASE i = job.run
    <3>1. <<i, j>> \in Records(d)' <=>
            j \in 1..(m + 1) /\ history'[i].events[j].path = d[1] /\ history'[i].events[j].note = d[2]
      BY <1>1, <1>3, <1>4, <2>2
    <3>2. <<i, j>> \in Records(d) <=>
            j \in 1..m /\ run.events[j].path = d[1] /\ run.events[j].note = d[2]
      BY <1>3, <2>2, RecordsAre
    <3>3. d = <<d[1], d[2]>>
      BY DEF Notes
    <3>4. d = <<p, n>> <=> p = d[1] /\ n = d[2]
      BY <3>3
    <3>5. j \in 1..(m + 1) <=> j \in 1..m \/ j = m + 1
      BY <1>3
    <3>6. m + 1 \notin 1..m
      BY <1>3
    <3> HIDE DEF run
    <3> QED
      BY <1>2, <1>3, <2>2, <3>1, <3>2, <3>4, <3>5, <3>6
  <2> QED
    BY <2>1, <2>2
<1>6. ASSUME NEW d \in Notes, d # <<p, n>> PROVE SameRecords(d)
  <2>1. Records(d)' = Records(d)
    <3>1. \A i, j : <<i, j>> \in Records(d)' <=> <<i, j>> \in Records(d)
      BY <1>5, <1>6
    <3>2. \A x \in Records(d) : x = <<x[1], x[2]>>
      BY RecordsAre
    <3>3. \A x \in Records(d)' : x = <<x[1], x[2]>>
      BY <1>4
    <3>4. ASSUME NEW x \in Records(d) PROVE x \in Records(d)'
      <4>1. x = <<x[1], x[2]>>
        BY <3>2
      <4> QED
        BY <3>1, <4>1
    <3>5. ASSUME NEW x \in Records(d)' PROVE x \in Records(d)
      <4>1. x = <<x[1], x[2]>>
        BY <3>3
      <4> QED
        BY <3>1, <4>1
    <3> QED
      BY <3>4, <3>5
  <2>2. ASSUME Records(d) # {} PROVE LastRecord(d)' = LastRecord(d)
    <3> DEFINE x == Newest(Records(d))
    <3>1. x \in Records(d)
      BY <2>2, LastRecordIs
    <3>2. x[1] \in DOMAIN history /\ x[2] \in DOMAIN history[x[1]].events
      BY <3>1, RecordsAre
    <3> HIDE DEF x
    <3>3. history'[x[1]].events[x[2]] = history[x[1]].events[x[2]]
      <4>1. CASE x[1] = job.run
        BY <1>3, <3>2, <4>1
      <4>2. CASE x[1] # job.run
        BY <1>1, <3>2, <4>2
      <4> QED
        BY <4>1, <4>2
    <3>4. LastRecord(d)' = history'[Newest(Records(d)')[1]].events[Newest(Records(d)')[2]]
      BY DEF LastRecord
    <3> QED
      BY <2>1, <3>3, <3>4 DEF LastRecord, x
  <2> QED
    BY <2>1, <2>2 DEF SameRecords
<1>7. ASSUME n # 0 PROVE Records(<<p, n>>)' # {} /\ LastRecord(<<p, n>>)' = e
  <2> DEFINE d == <<p, n>>
             y == <<job.run, m + 1>>
             S == Records(d)'
  <2>1. d \in Notes /\ d[1] = p /\ d[2] = n
    BY <1>7 DEF Notes, Names
  <2>2. y \in S
    BY <1>5, <2>1
  <2>3. \A x \in S : x = <<x[1], x[2]>> /\ (<<x[1], x[2]>> \in Records(d) \/ x = y)
    BY <1>4, <1>5, <2>1
  <2>4. \A x \in S : x[1] \in Nat /\ x[2] \in Nat /\ (x[1] < job.run \/ (x[1] = job.run /\ x[2] <= m + 1))
    <3> SUFFICES ASSUME NEW x \in S
                 PROVE x[1] \in Nat /\ x[2] \in Nat /\ (x[1] < job.run \/ (x[1] = job.run /\ x[2] <= m + 1))
      OBVIOUS
    <3>1. x[1] \in DOMAIN history' /\ x[2] \in DOMAIN history'[x[1]].events
      BY <1>4
    <3>2. x[1] \in 1..Len(history) /\ Len(history) \in Nat
      BY <1>1, <3>1
    <3>3. history'[x[1]].events \in Seq(EventType)
      <4>1. history'[x[1]] \in RunType
        BY <1>1, <3>1
      <4> QED
        BY <4>1 DEF RunType
    <3>4. x[2] \in Nat
      BY <3>1, <3>3
    <3>5. x[1] = job.run => x[2] \in 1..(m + 1)
      BY <1>3, <3>1
    <3> QED
      BY <1>3, <3>2, <3>4, <3>5
  <2>5. Newest(S) = y
    <3>1. y \in S /\ \A z \in S : z[1] < y[1] \/ (z[1] = y[1] /\ z[2] <= y[2])
      BY <2>2, <2>4
    <3>2. ASSUME NEW x \in S, \A z \in S : z[1] < x[1] \/ (z[1] = x[1] /\ z[2] <= x[2])
          PROVE  x = y
      <4>1. y[1] < x[1] \/ (y[1] = x[1] /\ y[2] <= x[2])
        BY <2>2, <3>2
      <4>2. x[1] < y[1] \/ (x[1] = y[1] /\ x[2] <= y[2])
        BY <3>1
      <4>3. x[1] \in Nat /\ x[2] \in Nat /\ y[1] \in Nat /\ y[2] \in Nat /\ x = <<x[1], x[2]>>
        BY <2>2, <2>3, <2>4
      <4> HIDE DEF S, d
      <4>4. x[1] = y[1] /\ x[2] = y[2]
        BY <4>1, <4>2, <4>3
      <4> QED
        BY <4>3, <4>4
    <3> HIDE DEF S, y
    <3> QED
      BY <3>1, <3>2 DEF Newest
  <2>6. LastRecord(d)' = history'[Newest(S)[1]].events[Newest(S)[2]]
    BY DEF LastRecord
  <2> QED
    BY <1>3, <2>2, <2>5, <2>6
<1> QED
  BY <1>6, <1>7 DEF e
-----------------------------------------------------------------------------
(* How a step changes what the logs say.                                   *)
LEMMA MovesKept ==
  ASSUME ViewTypes, Truthful, NEW p \in Path,
         \A kind \in Kinds : Moves(kind, p)' = Moves(kind, p) /\ Returns(kind, p)' = Returns(kind, p),
         \A i \in Returns(KindOf[p], p) : LastEvent(history'[i], p) = LastEvent(history[i], p)
  PROVE  SameMoves(p)
<1> DEFINE kind == KindOf[p]
<1>1. /\ kind \in Kinds
      /\ p \in DOMAIN Restored <=> Moves(kind, p) # {} /\ Returns(kind, p) # {}
      /\ p \in DOMAIN Restored =>
           Restored[p] = CommitTime(history[Earliest(Returns(kind, p))], p)
  BY RestoredIs
<1>2. /\ p \in DOMAIN Restored' <=> \E k \in Kinds : Moves(k, p)' # {} /\ Returns(k, p)' # {}
      /\ Moves(kind, p)' # {} /\ Returns(kind, p)' # {} =>
           Restored'[p] = CommitTime(history[Earliest(Returns(kind, p))], p)'
  BY RestoredIsNext
<1>3. p \in DOMAIN Restored' <=> p \in DOMAIN Restored
  <2>1. p \in DOMAIN Restored <=> \E k \in Kinds : Moves(k, p) # {} /\ Returns(k, p) # {}
    <3>1. \A k : DOMAIN ReplayMoves(k).restored = {q \in Path : Moves(k, q) # {} /\ Returns(k, q) # {}}
      BY DEF ReplayMoves
    <3>2. p \in DOMAIN Restored <=> \E k \in Kinds : p \in DOMAIN ReplayMoves(k).restored
      BY Zenon DEF Restored
    <3> QED
      BY <3>1, <3>2
  <2> QED
    BY <1>2, <2>1
<1>4. ASSUME p \in DOMAIN Restored PROVE Restored'[p] = Restored[p]
  <2> DEFINE i == Earliest(Returns(kind, p))
  <2>1. Returns(kind, p) # {} /\ Returns(kind, p) \subseteq Nat
    <3>1. DOMAIN history \subseteq Nat
      BY DEF ViewTypes
    <3> QED
      BY <1>1, <1>4, <3>1 DEF Returns, ReadHistory
  <2>2. i \in Returns(kind, p)
    BY <2>1, EarliestIs
  <2>3. CommitTime(history[i], p) = LastEvent(history[i], p).at
    BY DEF CommitTime
  <2>4. CommitTime(history[Earliest(Returns(kind, p))], p)' =
          LastEvent(history'[Earliest(Returns(kind, p)')], p).at
    BY DEF CommitTime
  <2> QED
    BY <1>1, <1>2, <1>4, <2>2, <2>3, <2>4
<1> QED
  BY <1>3, <1>4 DEF SameMoves

LEMMA SamePast ==
  ASSUME UNCHANGED history
  PROVE  /\ \A p \in Path : SameMoves(p)
         /\ \A d \in Notes : SameRecords(d)
<1>1. \A kind, p : Moves(kind, p)' = Moves(kind, p) /\ Returns(kind, p)' = Returns(kind, p)
  BY DEF Moves, Returns, ReadHistory
<1>2. Restored' = Restored
  BY DEF Restored, ReplayMoves, Moves, Returns, ReadHistory
<1>3. \A d : Records(d)' = Records(d)
  BY DEF Records
<1>4. \A d : LastRecord(d)' = LastRecord(d)
  BY <1>3 DEF LastRecord
<1> QED
  BY <1>1, <1>2, <1>3, <1>4 DEF SameMoves, SameRecords

LEMMA NewRun ==
  ASSUME ViewTypes, Truthful, NEW run \in RunType, run.events = <<>>, history' = Append(history, run)
  PROVE  /\ \A p \in Path : SameMoves(p)
         /\ \A d \in Notes : SameRecords(d)
<1> DEFINE n == Len(history)
<1>1. /\ n \in Nat /\ DOMAIN history = 1..n /\ DOMAIN history' = 1..(n + 1)
      /\ \A i \in 1..n : history'[i] = history[i]
      /\ history'[n + 1] = run
  BY DEF ViewTypes
<1>2. \A i : i \in 1..(n + 1) <=> i \in 1..n \/ i = n + 1
  BY <1>1
<1>3. n + 1 \notin 1..n /\ DOMAIN run.events = {}
  BY <1>1
<1> HIDE DEF n
<1>4. ASSUME NEW p, NEW op, NEW statuses PROVE p \notin PathsWith(run, op, statuses)
  BY <1>3, PathsAre
<1>5. ASSUME NEW kind, NEW p PROVE Moves(kind, p)' = Moves(kind, p)
  <2>1. \A i : i \in Moves(kind, p)' <=>
                 i \in DOMAIN history' /\ history'[i].kind = kind /\ p \in MovedBy(history'[i])
    BY DEF Moves, ReadHistory
  <2>2. \A i : i \in Moves(kind, p) <=>
                 i \in DOMAIN history /\ history[i].kind = kind /\ p \in MovedBy(history[i])
    BY DEF Moves, ReadHistory
  <2>3. p \notin MovedBy(run)
    BY <1>4 DEF MovedBy
  <2>4. \A i : i \in Moves(kind, p)' <=> i \in Moves(kind, p)
    BY <1>1, <1>2, <2>1, <2>2, <2>3
  <2>5. Moves(kind, p)' \subseteq DOMAIN history' /\ Moves(kind, p) \subseteq DOMAIN history
    BY <2>1, <2>2
  <2> QED
    BY <2>4, <2>5
<1>6. ASSUME NEW kind, NEW p PROVE Returns(kind, p)' = Returns(kind, p)
  <2>1. \A i : i \in Returns(kind, p)' <=>
                 /\ i \in DOMAIN history' /\ history'[i].kind = kind /\ p \in RestoredBy(history'[i])
                 /\ \A m \in Moves(kind, p)' : m <= i
    BY DEF Returns, ReadHistory
  <2>2. \A i : i \in Returns(kind, p) <=>
                 /\ i \in DOMAIN history /\ history[i].kind = kind /\ p \in RestoredBy(history[i])
                 /\ \A m \in Moves(kind, p) : m <= i
    BY DEF Returns, ReadHistory
  <2>3. p \notin RestoredBy(run)
    BY <1>4 DEF RestoredBy
  <2>4. \A i : i \in Returns(kind, p)' <=> i \in Returns(kind, p)
    BY <1>1, <1>2, <1>5, <2>1, <2>2, <2>3
  <2>5. Returns(kind, p)' \subseteq DOMAIN history' /\ Returns(kind, p) \subseteq DOMAIN history
    BY <2>1, <2>2
  <2> QED
    BY <2>4, <2>5
<1>7. ASSUME NEW p \in Path PROVE SameMoves(p)
  <2>1. \A i \in Returns(KindOf[p], p) : LastEvent(history'[i], p) = LastEvent(history[i], p)
    BY <1>1 DEF Returns, ReadHistory
  <2> QED
    BY <1>5, <1>6, <2>1, MovesKept
<1>8. ASSUME NEW d \in Notes PROVE SameRecords(d)
  <2>1. ASSUME NEW i, NEW j
        PROVE  <<i, j>> \in Records(d)' <=> <<i, j>> \in Records(d)
    <3>1. <<i, j>> \in Records(d)' <=>
            /\ i \in DOMAIN history' /\ j \in DOMAIN history'[i].events
            /\ history'[i].events[j].path = d[1] /\ history'[i].events[j].note = d[2]
      BY DEF Records
    <3>2. <<i, j>> \in Records(d) <=>
            /\ i \in DOMAIN history /\ j \in DOMAIN history[i].events
            /\ history[i].events[j].path = d[1] /\ history[i].events[j].note = d[2]
      BY RecordsAre
    <3> QED
      BY <1>1, <1>2, <1>3, <3>1, <3>2
  <2>2. \A x \in Records(d) : x = <<x[1], x[2]>>
    BY RecordsAre
  <2>3. \A x \in Records(d)' : x = <<x[1], x[2]>>
    BY DEF Records
  <2>4. Records(d)' = Records(d)
    <3>1. ASSUME NEW x \in Records(d) PROVE x \in Records(d)'
      <4>1. x = <<x[1], x[2]>>
        BY <2>2
      <4> QED
        BY <2>1, <4>1
    <3>2. ASSUME NEW x \in Records(d)' PROVE x \in Records(d)
      <4>1. x = <<x[1], x[2]>>
        BY <2>3
      <4> QED
        BY <2>1, <4>1
    <3> QED
      BY <3>1, <3>2
  <2>5. ASSUME Records(d) # {} PROVE LastRecord(d)' = LastRecord(d)
    <3>1. Newest(Records(d)) \in Records(d)
      BY <2>5, LastRecordIs
    <3>2. Newest(Records(d))[1] \in DOMAIN history
      BY <3>1, RecordsAre
    <3>3. history'[Newest(Records(d))[1]] = history[Newest(Records(d))[1]]
      BY <1>1, <3>2
    <3>4. LastRecord(d)' = history'[Newest(Records(d)')[1]].events[Newest(Records(d)')[2]]
      BY DEF LastRecord
    <3> QED
      BY <2>4, <3>3, <3>4 DEF LastRecord
  <2> QED
    BY <2>4, <2>5 DEF SameRecords
<1> QED
  BY <1>7, <1>8

LEMMA LoggedMoves ==
  ASSUME ViewTypes, job.run = Len(history), job.run \in DOMAIN history,
         NEW p \in Path, NEW status \in Status, NEW n \in 0..2, Log(p, status, n),
         NEW kind, NEW q
  PROVE  LET run == history[job.run]
         IN /\ Moves(kind, q) \subseteq 1..job.run /\ Returns(kind, q) \subseteq 1..job.run
            /\ Moves(kind, q)' =
                 IF q = p /\ kind = run.kind /\ run.op = "split" /\ status = "moved"
                   THEN Moves(kind, q) \cup {job.run} ELSE Moves(kind, q)
            /\ Moves(kind, q)' = Moves(kind, q) =>
                 Returns(kind, q)' =
                   IF q = p /\ kind = run.kind /\ run.op = "restore" /\ status = "restored"
                     THEN Returns(kind, q) \cup {job.run} ELSE Returns(kind, q)
            /\ Moves(kind, q)' # Moves(kind, q) => Returns(kind, q)' \subseteq {job.run} \ Moves(kind, q)'
<1> DEFINE run == history[job.run]
           moves == q = p /\ kind = run.kind /\ run.op = "split" /\ status = "moved"
           returns == q = p /\ kind = run.kind /\ run.op = "restore" /\ status = "restored"
<1>1. /\ \A i \in DOMAIN history : \A op, statuses :
           q \in PathsWith(history'[i], op, statuses) <=>
             \/ q \in PathsWith(history[i], op, statuses)
             \/ i = job.run /\ q = p /\ history[i].op = op /\ status \in statuses
      /\ ReadHistory(kind)' = ReadHistory(kind)
  BY LoggedPaths
<1>2. job.run \in Nat /\ DOMAIN history = 1..job.run
  BY DEF ViewTypes
<1>3. \A i : i \in ReadHistory(kind) <=> i \in DOMAIN history /\ history[i].kind = kind
  BY DEF ReadHistory
<1>4. \A i : i \in Moves(kind, q)' <=> i \in ReadHistory(kind) /\ q \in PathsWith(history'[i], "split", {"moved"})
  BY <1>1 DEF Moves, MovedBy
<1>5. \A i : i \in Moves(kind, q) <=> i \in ReadHistory(kind) /\ q \in PathsWith(history[i], "split", {"moved"})
  BY DEF Moves, MovedBy
<1>6. \A i : i \in Returns(kind, q)' <=>
               /\ i \in ReadHistory(kind) /\ q \in PathsWith(history'[i], "restore", {"restored"})
               /\ \A m \in Moves(kind, q)' : m <= i
  BY <1>1 DEF Returns, RestoredBy
<1>7. \A i : i \in Returns(kind, q) <=>
               /\ i \in ReadHistory(kind) /\ q \in PathsWith(history[i], "restore", {"restored"})
               /\ \A m \in Moves(kind, q) : m <= i
  BY DEF Returns, RestoredBy
<1>8. \A i : i \in Moves(kind, q)' <=> i \in Moves(kind, q) \/ (i = job.run /\ moves)
  BY <1>1, <1>2, <1>3, <1>4, <1>5
<1>9. Moves(kind, q) \subseteq 1..job.run /\ Returns(kind, q) \subseteq 1..job.run
  BY <1>2, <1>3, <1>5, <1>7
<1>10. Moves(kind, q)' = IF moves THEN Moves(kind, q) \cup {job.run} ELSE Moves(kind, q)
  <2>1. Moves(kind, q)' \subseteq ReadHistory(kind) /\ Moves(kind, q) \subseteq ReadHistory(kind)
    BY <1>4, <1>5
  <2> HIDE DEF moves
  <2> QED
    BY <1>8, <2>1
<1>11. ASSUME Moves(kind, q)' = Moves(kind, q)
       PROVE  Returns(kind, q)' = IF returns THEN Returns(kind, q) \cup {job.run} ELSE Returns(kind, q)
  <2>1. \A m \in Moves(kind, q) : m <= job.run
    BY <1>2, <1>9
  <2>2. \A i : i \in Returns(kind, q)' <=> i \in Returns(kind, q) \/ (i = job.run /\ returns)
    BY <1>1, <1>2, <1>3, <1>6, <1>7, <1>11, <2>1
  <2>3. Returns(kind, q)' \subseteq ReadHistory(kind) /\ Returns(kind, q) \subseteq ReadHistory(kind)
    BY <1>6, <1>7
  <2> HIDE DEF returns
  <2> QED
    BY <2>2, <2>3
<1>12. ASSUME Moves(kind, q)' # Moves(kind, q)
       PROVE  Returns(kind, q)' \subseteq {job.run} \ Moves(kind, q)'
  <2>1. job.run \in Moves(kind, q)' /\ moves
    BY <1>10, <1>12
  <2>2. \A i \in Returns(kind, q)' : i \in 1..job.run /\ job.run <= i
    BY <1>2, <1>3, <1>6, <2>1
  <2>3. \A i \in Returns(kind, q)' : i = job.run
    BY <1>2, <2>2
  <2>4. ASSUME job.run \in Returns(kind, q)' PROVE FALSE
    <3>1. q \in PathsWith(history'[job.run], "restore", {"restored"})
      BY <1>6, <2>4
    <3>2. q \in PathsWith(run, "restore", {"restored"})
      BY <1>1, <2>1, <3>1
    <3>3. run.op = "restore"
      BY <3>2, PathsAre
    <3> QED
      BY <2>1, <3>3
  <2> QED
    BY <2>3, <2>4
<1> QED
  BY <1>9, <1>10, <1>11, <1>12

(* The events of an abort tell of no move, no return and no description.   *)
LEMMA AbortedEvent ==
  ASSUME ViewTypes, Truthful, job.run = Len(history), job.run \in DOMAIN history, history[job.run].op = "split",
         NEW p \in Path, NEW status \in {"conflict", "skipped"}, Log(p, status, 0)
  PROVE  /\ \A q \in Path : SameMoves(q)
         /\ \A d \in Notes : SameRecords(d)
<1>1. status \in Status /\ 0 \in 0..2
  BY DEF Status
<1>2. ASSUME NEW q \in Path PROVE SameMoves(q)
  <2>1. \A kind : Moves(kind, q)' = Moves(kind, q) /\ Returns(kind, q)' = Returns(kind, q)
    BY <1>1, LoggedMoves
  <2>2. ASSUME NEW i \in Returns(KindOf[q], q) PROVE LastEvent(history'[i], q) = LastEvent(history[i], q)
    <3>1. i \in DOMAIN history /\ q \in PathsWith(history[i], "restore", {"restored"})
      BY DEF Returns, ReadHistory, RestoredBy
    <3>2. i # job.run
      BY <3>1, PathsAre
    <3> QED
      BY <1>1, <3>1, <3>2, LoggedPaths
  <2> QED
    BY <2>1, <2>2, MovesKept
<1>3. \A d \in Notes : d # <<p, 0>>
  BY DEF Notes, Names
<1>4. \A d \in Notes : SameRecords(d)
  BY <1>1, <1>3, LoggedRecords
<1> QED
  BY <1>2, <1>4

LEMMA OtherMoves ==
  ASSUME ViewTypes, Truthful, job.run = Len(history), job.run \in DOMAIN history,
         NEW p \in Path, NEW status \in Status, NEW n \in 0..2, Log(p, status, n),
         NEW q \in Path, q # p
  PROVE  SameMoves(q)
<1>1. \A kind : Moves(kind, q)' = Moves(kind, q) /\ Returns(kind, q)' = Returns(kind, q)
  BY LoggedMoves
<1>2. ASSUME NEW i \in Returns(KindOf[q], q) PROVE LastEvent(history'[i], q) = LastEvent(history[i], q)
  <2>1. i \in DOMAIN history /\ q \in PathsWith(history[i], "restore", {"restored"})
    BY DEF Returns, ReadHistory, RestoredBy
  <2>2. EventsOf(history[i], q) # {}
    BY <2>1, PathsAre DEF EventsOf
  <2> QED
    BY <2>1, <2>2, LoggedPaths
<1> QED
  BY <1>1, <1>2, MovesKept

(* A file is moved out: it is not back any more.                           *)
LEMMA MovedEvent ==
  ASSUME ViewTypes, Truthful, job.run = Len(history), job.run \in DOMAIN history, history[job.run].op = "split",
         NEW p \in Path, history[job.run].kind = KindOf[p], NEW n \in 0..2, Log(p, "moved", n)
  PROVE  /\ Moves(KindOf[p], p)' # {} /\ Returns(KindOf[p], p)' = {}
         /\ p \notin DOMAIN Restored'
<1> DEFINE kind == KindOf[p]
<1>1. "moved" \in Status
  BY DEF Status
<1>2. Moves(kind, p)' = Moves(kind, p) \cup {job.run}
  BY <1>1, LoggedMoves
<1>3. Returns(kind, p)' = {}
  <2>1. CASE Moves(kind, p)' = Moves(kind, p)
    <3>1. Returns(kind, p)' = Returns(kind, p)
      BY <1>1, <2>1, LoggedMoves
    <3>2. job.run \in Moves(kind, p) /\ Returns(kind, p) \subseteq 1..job.run
      BY <1>1, <1>2, <2>1, LoggedMoves
    <3>3. \A i \in Returns(kind, p) : job.run <= i /\ history[i].op = "restore"
      BY <3>2, PathsAre DEF Returns, RestoredBy
    <3>4. job.run \in Nat
      BY DEF ViewTypes
    <3>5. \A i \in Returns(kind, p) : i = job.run
      BY <3>2, <3>3, <3>4
    <3> QED
      BY <3>1, <3>3, <3>5
  <2>2. CASE Moves(kind, p)' # Moves(kind, p)
    BY <1>1, <1>2, <2>2, LoggedMoves
  <2> QED
    BY <2>1, <2>2
<1>4. ASSUME NEW k \in Kinds, k # kind PROVE Moves(k, p)' = {}
  <2>1. Moves(k, p)' = Moves(k, p)
    BY <1>1, <1>4, LoggedMoves
  <2>2. ASSUME NEW i \in Moves(k, p) PROVE FALSE
    <3>1. i \in DOMAIN history /\ history[i].kind = k /\ p \in MovedBy(history[i])
      BY DEF Moves, ReadHistory
    <3>2. PICK j \in DOMAIN history[i].events : history[i].events[j].path = p
      BY <3>1, PathsAre DEF MovedBy
    <3> QED
      BY <1>4, <3>1, <3>2 DEF Truthful
  <2> QED
    BY <2>1, <2>2
<1> QED
  BY <1>2, <1>3, <1>4, RestoredIsNext

(* A file comes back: this is when it did.                                 *)
LEMMA RestoredEvent ==
  ASSUME ViewTypes, Truthful, job.run = Len(history), job.run \in DOMAIN history, history[job.run].op = "restore",
         NEW p \in Path, history[job.run].kind = KindOf[p], InMirror(p), NEW n \in 0..2, Log(p, "restored", n)
  PROVE  /\ Moves(KindOf[p], p)' # {} /\ Returns(KindOf[p], p)' = {job.run}
         /\ p \in DOMAIN Restored' /\ Restored'[p] = clock
<1> DEFINE kind == KindOf[p]
<1>1. "restored" \in Status
  BY DEF Status
<1>2. Moves(kind, p) # {} /\ Returns(kind, p) = {}
  BY DEF Truthful
<1>3. Moves(kind, p)' = Moves(kind, p)
  BY <1>1, LoggedMoves
<1>4. Returns(kind, p)' = {job.run}
  BY <1>1, <1>2, <1>3, LoggedMoves
<1>5. kind \in Kinds
  BY KindOfAssumption DEF Kinds
<1>6. p \in DOMAIN Restored' /\ Restored'[p] = CommitTime(history[Earliest(Returns(kind, p))], p)'
  BY <1>2, <1>3, <1>4, <1>5, RestoredIsNext
<1>7. job.run \in Nat
  BY DEF ViewTypes
<1>8. Earliest({job.run}) = job.run
  BY <1>7 DEF Earliest
<1>9. CommitTime(history[Earliest(Returns(kind, p))], p)' = LastEvent(history'[Earliest(Returns(kind, p)')], p).at
  BY DEF CommitTime
<1>10. LastEvent(history'[job.run], p).at = clock
  <2>1. LastEvent(history'[job.run], p) = LoggedEvent(p, "restored", n)
    BY <1>1, LoggedPaths
  <2> QED
    BY <2>1 DEF LoggedEvent
<1> QED
  BY <1>2, <1>3, <1>4, <1>6, <1>8, <1>9, <1>10
-----------------------------------------------------------------------------
(* The replay of the logs over the rows of a registry, run by run.         *)
ReplayRun(rows, kind, n) ==
  IF n \notin ReadHistory(kind) THEN rows
  ELSE MarkRestored(Merge(rows, SplitEvents(history[n])), RestoredBy(history[n]))
Replays(f, rows, kind, m) ==
  f = [n \in 0..m |-> IF n = 0 THEN rows ELSE ReplayRun(f[n - 1], kind, n)]

LEMMA ReplayExists ==
  ASSUME NEW rows, NEW kind, NEW m \in Nat
  PROVE  \E f : Replays(f, rows, kind, m)
<1> DEFINE Without == {n \in Nat : ~\E f : Replays(f, rows, kind, n)}
<1>1. SUFFICES ASSUME Without # {} PROVE FALSE
  OBVIOUS
<1>2. PICK n \in Without : \A k \in Without : n <= k
  <2>1. Without \subseteq Nat
    OBVIOUS
  <2> QED
    BY <1>1, <2>1, LeastOf
<1>3. CASE n = 0
  <2>1. Replays([i \in 0..0 |-> rows], rows, kind, 0)
    BY DEF Replays
  <2> QED
    BY <1>2, <1>3, <2>1
<1>4. CASE n # 0
  <2>1. n \in Nat /\ n - 1 \in Nat /\ n - 1 \notin Without
    BY <1>2, <1>4
  <2>2. PICK g : Replays(g, rows, kind, n - 1)
    BY <2>1
  <2> DEFINE f == [i \in 0..n |-> IF i = n THEN ReplayRun(g[n - 1], kind, n) ELSE g[i]]
  <2>3. \A i \in 0..(n - 1) : g[i] = IF i = 0 THEN rows ELSE ReplayRun(g[i - 1], kind, i)
    BY <2>2 DEF Replays
  <2>4. ASSUME NEW i \in 0..n PROVE f[i] = IF i = 0 THEN rows ELSE ReplayRun(f[i - 1], kind, i)
    <3>1. CASE i = n
      <4>1. n - 1 \in 0..n /\ n - 1 # n
        BY <2>1
      <4>2. f[n - 1] = g[n - 1]
        BY <4>1
      <4> QED
        BY <1>4, <3>1, <4>2
    <3>2. CASE i # n
      <4>1. i \in 0..(n - 1) /\ (i # 0 => i - 1 \in 0..n /\ i - 1 # n)
        BY <2>1, <3>2
      <4>2. f[i] = g[i] /\ (i # 0 => f[i - 1] = g[i - 1])
        BY <3>2, <4>1
      <4> HIDE DEF f
      <4> QED
        BY <2>3, <4>1, <4>2
    <3> QED
      BY <3>1, <3>2
  <2>5. f = [i \in 0..n |-> f[i]]
    OBVIOUS
  <2>6. [i \in 0..n |-> f[i]] = [i \in 0..n |-> IF i = 0 THEN rows ELSE ReplayRun(f[i - 1], kind, i)]
    <3> HIDE DEF f
    <3> QED
      BY <2>4
  <2> HIDE DEF f
  <2>7. Replays(f, rows, kind, n)
    BY <2>5, <2>6 DEF Replays
  <2> QED
    BY <1>2, <2>7
<1> QED
  BY <1>3, <1>4

LEMMA ReplayIs ==
  ASSUME ViewTypes, NEW rows, NEW kind
  PROVE  \E f : /\ Replays(f, rows, kind, Len(history))
                /\ Replay(rows, kind) = f[Len(history)]
<1> DEFINE R(f) == f = [n \in 0..Len(history) |->
                          IF n = 0 THEN rows
                          ELSE IF n \notin ReadHistory(kind) THEN f[n - 1]
                          ELSE MarkRestored(Merge(f[n - 1], SplitEvents(history[n])), RestoredBy(history[n]))]
<1>1. \A f : Replays(f, rows, kind, Len(history)) <=> R(f)
  BY DEF Replays, ReplayRun
<1>2. \E f : R(f)
  <2>1. Len(history) \in Nat
    BY DEF ViewTypes
  <2> QED
    BY <1>1, <2>1, ReplayExists
<1>3. Replay(rows, kind) = (CHOOSE f : R(f))[Len(history)]
  BY Zenon DEF Replay
<1> HIDE DEF R
<1>4. R(CHOOSE f : R(f))
  BY <1>2
<1> QED
  BY <1>1, <1>3, <1>4

LEMMA MergeIs ==
  ASSUME NEW rows \in StatusesType, NEW incoming \in StatusesType
  PROVE  /\ Merge(rows, incoming) \in StatusesType
         /\ \A q : q \in MovedRows(Merge(rows, incoming)) <=> q \in MovedRows(rows) \cup MovedRows(incoming)
<1> DEFINE m == Merge(rows, incoming)
<1>1. /\ DOMAIN rows \subseteq Path /\ rows \in [DOMAIN rows -> Status]
      /\ DOMAIN incoming \subseteq Path /\ incoming \in [DOMAIN incoming -> Status]
  BY StatusesAre
<1>2. /\ DOMAIN m = DOMAIN rows \cup DOMAIN incoming
      /\ \A q \in DOMAIN m : m[q] = IF q \notin DOMAIN incoming \/ (q \in DOMAIN rows /\ rows[q] = "moved")
                                      THEN rows[q] ELSE incoming[q]
  BY DEF Merge
<1>3. m \in [DOMAIN m -> Status]
  <2>1. \A q \in DOMAIN m : m[q] \in Status
    BY <1>1, <1>2
  <2>2. m = [q \in DOMAIN m |-> m[q]]
    BY DEF Merge
  <2> HIDE DEF m
  <2> QED
    BY <2>1, <2>2
<1> HIDE DEF m
<1>4. m \in StatusesType
  BY <1>1, <1>2, <1>3, StatusesAre
<1>5. \A q : q \in MovedRows(m) <=> q \in MovedRows(rows) \cup MovedRows(incoming)
  BY <1>2 DEF MovedRows
<1> QED
  BY <1>4, <1>5 DEF m

LEMMA MarkRestoredIs ==
  ASSUME NEW rows \in StatusesType, NEW paths
  PROVE  /\ MarkRestored(rows, paths) \in StatusesType
         /\ \A q : q \in MovedRows(MarkRestored(rows, paths)) <=> q \in MovedRows(rows) /\ q \notin paths
<1> DEFINE m == MarkRestored(rows, paths)
<1>1. DOMAIN rows \subseteq Path /\ rows \in [DOMAIN rows -> Status]
  BY StatusesAre
<1>2. DOMAIN m = DOMAIN rows /\ \A q \in DOMAIN m : m[q] = IF q \in paths THEN "restored" ELSE rows[q]
  BY DEF MarkRestored
<1>3. m \in [DOMAIN m -> Status]
  <2>1. \A q \in DOMAIN m : m[q] \in Status
    BY <1>1, <1>2 DEF Status
  <2>2. m = [q \in DOMAIN m |-> m[q]]
    BY DEF MarkRestored
  <2> HIDE DEF m
  <2> QED
    BY <2>1, <2>2
<1> HIDE DEF m
<1>4. m \in StatusesType
  BY <1>1, <1>2, <1>3, StatusesAre
<1>5. \A q : q \in MovedRows(m) <=> q \in MovedRows(rows) /\ q \notin paths
  BY <1>2 DEF MovedRows
<1> QED
  BY <1>4, <1>5 DEF m

LEMMA LastEventIs ==
  ASSUME ViewTypes, NEW i \in DOMAIN history, NEW q, EventsOf(history[i], q) # {}
  PROVE  \E j \in DOMAIN history[i].events :
           LastEvent(history[i], q) = history[i].events[j] /\ history[i].events[j].path = q
<1> DEFINE run == history[i]
<1>1. run \in RunType
  BY DEF ViewTypes
<1>2. run.events \in Seq(EventType)
  BY <1>1 DEF RunType
<1>3. Len(run.events) \in Nat /\ EventsOf(run, q) \subseteq 1..Len(run.events)
  BY <1>2 DEF EventsOf
<1>4. Latest(EventsOf(run, q)) \in EventsOf(run, q)
  BY <1>3, LatestIs
<1> QED
  BY <1>4 DEF EventsOf, LastEvent

LEMMA SplitEventsAre ==
  ASSUME ViewTypes, NEW i \in DOMAIN history
  PROVE  /\ SplitEvents(history[i]) \in StatusesType
         /\ \A q : q \in MovedRows(SplitEvents(history[i])) <=> q \in MovedBy(history[i])
<1> DEFINE run == history[i]
           s == SplitEvents(run)
<1>1. run \in RunType
  BY DEF ViewTypes
<1>2. run.events \in Seq(EventType)
  BY <1>1 DEF RunType
<1>3. /\ DOMAIN s = PathsWith(run, "split", {"moved", "conflict", "skipped"})
      /\ \A q \in DOMAIN s : s[q] = IF q \in MovedBy(run) THEN "moved" ELSE LastEvent(run, q).status
      /\ s = [q \in DOMAIN s |-> s[q]]
  BY DEF SplitEvents
<1> HIDE DEF s
<1>4. MovedBy(run) \subseteq DOMAIN s
  BY <1>3, PathsAre DEF MovedBy
<1>5. \A j \in DOMAIN run.events : run.events[j].path \in Path /\ run.events[j].status \in Status
  <2>1. \A j \in DOMAIN run.events : run.events[j] \in EventType
    BY <1>2
  <2> QED
    BY <2>1 DEF EventType
<1>6. ASSUME NEW q \in DOMAIN s
      PROVE  q \in Path /\ s[q] \in Status /\ (s[q] = "moved" => q \in MovedBy(run))
  <2>1. run.op = "split" /\ \E j \in DOMAIN run.events : run.events[j].path = q
    BY <1>3, <1>6, PathsAre
  <2>2. EventsOf(run, q) # {} /\ q \in Path
    BY <1>5, <2>1 DEF EventsOf
  <2>3. PICK j \in DOMAIN run.events : LastEvent(run, q) = run.events[j] /\ run.events[j].path = q
    BY <2>2, LastEventIs
  <2>4. run.events[j].status = "moved" => q \in MovedBy(run)
    BY <2>1, <2>3, PathsAre DEF MovedBy
  <2>5. run.events[j].status \in Status
    BY <1>5
  <2>6. "moved" \in Status
    BY DEF Status
  <2> QED
    BY <1>3, <2>2, <2>3, <2>4, <2>5, <2>6
<1>7. s \in [DOMAIN s -> Status]
  BY <1>3, <1>6
<1>8. s \in StatusesType
  BY <1>6, <1>7, StatusesAre
<1>9. \A q : q \in MovedRows(s) <=> q \in MovedBy(run)
  BY <1>3, <1>4, <1>6 DEF MovedRows
<1> QED
  BY <1>8, <1>9 DEF s

(* Runs of a payload that restored a path.                                 *)
Restores(kind, q) == {i \in ReadHistory(kind) : q \in RestoredBy(history[i])}

LEMMA ReplayRunIs ==
  ASSUME ViewTypes, NEW rows \in StatusesType, NEW kind, NEW n
  PROVE  /\ ReplayRun(rows, kind, n) \in StatusesType
         /\ \A q : q \in MovedRows(ReplayRun(rows, kind, n)) <=>
                     n \in Moves(kind, q) \/ (q \in MovedRows(rows) /\ n \notin Restores(kind, q))
<1>1. CASE n \notin ReadHistory(kind)
  BY <1>1 DEF ReplayRun, Moves, Restores
<1>2. CASE n \in ReadHistory(kind)
  <2> DEFINE merged == Merge(rows, SplitEvents(history[n]))
  <2>1. n \in DOMAIN history
    BY <1>2 DEF ReadHistory
  <2>2. /\ SplitEvents(history[n]) \in StatusesType
        /\ \A q : q \in MovedRows(SplitEvents(history[n])) <=> q \in MovedBy(history[n])
    BY <2>1, SplitEventsAre
  <2>3. /\ merged \in StatusesType
        /\ \A q : q \in MovedRows(merged) <=> q \in MovedRows(rows) \/ q \in MovedBy(history[n])
    BY <2>2, MergeIs
  <2> HIDE DEF merged
  <2>4. /\ MarkRestored(merged, RestoredBy(history[n])) \in StatusesType
        /\ \A q : q \in MovedRows(MarkRestored(merged, RestoredBy(history[n]))) <=>
                    q \in MovedRows(merged) /\ q \notin RestoredBy(history[n])
    BY <2>3, MarkRestoredIs
  <2>5. ReplayRun(rows, kind, n) = MarkRestored(merged, RestoredBy(history[n]))
    BY <1>2 DEF ReplayRun, merged
  <2>6. \A q : q \in MovedBy(history[n]) => q \notin RestoredBy(history[n])
    BY PathsAre DEF MovedBy, RestoredBy
  <2>7. \A q : /\ n \in Moves(kind, q) <=> q \in MovedBy(history[n])
               /\ n \in Restores(kind, q) <=> q \in RestoredBy(history[n])
    BY <1>2 DEF Moves, Restores
  <2> QED
    BY <2>3, <2>4, <2>5, <2>6, <2>7
<1> QED
  BY <1>1, <1>2

(* After n runs a path is moved if a run moved it that none restored       *)
(* since, or if the registry had it moved and no run restored it.          *)
StillMoved(rows, kind, n, q) ==
  \/ \E m \in Moves(kind, q) : m <= n /\ \A r \in Restores(kind, q) : r <= n => r < m
  \/ q \in MovedRows(rows) /\ \A r \in Restores(kind, q) : ~(r <= n)

LEMMA ReplayedIs ==
  ASSUME ViewTypes, NEW rows \in StatusesType, NEW kind, NEW f, Replays(f, rows, kind, Len(history)),
         NEW n \in 0..Len(history)
  PROVE  /\ f[n] \in StatusesType
         /\ \A q : q \in MovedRows(f[n]) <=> StillMoved(rows, kind, n, q)
<1> DEFINE Good(k) == /\ f[k] \in StatusesType
                      /\ \A q : q \in MovedRows(f[k]) <=> StillMoved(rows, kind, k, q)
           Bad == {k \in 0..Len(history) : ~Good(k)}
<1> SUFFICES ASSUME Bad # {} PROVE FALSE
  OBVIOUS
<1>1. Len(history) \in Nat /\ DOMAIN history = 1..Len(history)
  BY DEF ViewTypes
<1>2. PICK k \in Bad : \A j \in Bad : k <= j
  <2>1. Bad \subseteq Nat
    BY <1>1
  <2> QED
    BY <2>1, LeastOf
<1>3. \A i \in 0..Len(history) : f[i] = IF i = 0 THEN rows ELSE ReplayRun(f[i - 1], kind, i)
  BY DEF Replays
<1>4. \A q : Moves(kind, q) \subseteq 1..Len(history) /\ Restores(kind, q) \subseteq 1..Len(history)
  BY <1>1 DEF Moves, Restores, ReadHistory
<1>5. k \in 0..Len(history) /\ ~Good(k)
  BY <1>2
<1>6. CASE k = 0
  <2>1. f[0] = rows
    BY <1>1, <1>3
  <2>2. \A q : q \in MovedRows(rows) <=> StillMoved(rows, kind, 0, q)
    BY <1>1, <1>4 DEF StillMoved
  <2> QED
    BY <1>5, <1>6, <2>1, <2>2
<1>7. CASE k # 0
  <2>1. k - 1 \in 0..Len(history) /\ k \in Nat
    BY <1>1, <1>5, <1>7
  <2>2. Good(k - 1)
    BY <1>2, <2>1
  <2>3. f[k] = ReplayRun(f[k - 1], kind, k)
    BY <1>3, <1>5, <1>7
  <2>4. /\ f[k] \in StatusesType
        /\ \A q : q \in MovedRows(f[k]) <=>
                    k \in Moves(kind, q) \/ (q \in MovedRows(f[k - 1]) /\ k \notin Restores(kind, q))
    BY <2>2, <2>3, ReplayRunIs
  <2>5. ASSUME NEW q
        PROVE  StillMoved(rows, kind, k, q) <=>
                 k \in Moves(kind, q) \/ (StillMoved(rows, kind, k - 1, q) /\ k \notin Restores(kind, q))
    <3>1. k \in Moves(kind, q) => k \notin Restores(kind, q)
      BY PathsAre DEF Moves, Restores, MovedBy, RestoredBy
    <3>2. \A r \in Restores(kind, q) : r \in Nat /\ (r <= k <=> r <= k - 1 \/ r = k)
      BY <1>1, <1>4, <2>1
    <3>3. \A m \in Moves(kind, q) : m \in Nat /\ (m <= k <=> m <= k - 1 \/ m = k)
      BY <1>1, <1>4, <2>1
    <3>4. CASE k \in Moves(kind, q)
      <4>1. k <= k /\ \A r \in Restores(kind, q) : r <= k => r < k
        BY <2>1, <3>1, <3>2, <3>4
      <4> QED
        BY <3>4, <4>1 DEF StillMoved
    <3>5. CASE k \notin Moves(kind, q) /\ k \in Restores(kind, q)
      <4>1. \A m \in Moves(kind, q) : m <= k => m < k
        BY <2>1, <3>3, <3>5
      <4>2. k <= k
        BY <2>1
      <4>3. ~ StillMoved(rows, kind, k, q)
        BY <2>1, <3>3, <3>5, <4>1, <4>2 DEF StillMoved
      <4> QED
        BY <3>5, <4>3
    <3>6. CASE k \notin Moves(kind, q) /\ k \notin Restores(kind, q)
      BY <3>2, <3>3, <3>6 DEF StillMoved
    <3> QED
      BY <3>4, <3>5, <3>6
  <2> QED
    BY <1>5, <2>2, <2>4, <2>5
<1> QED
  BY <1>6, <1>7

(* Whatever the registry was, the replay calls moved what the logs call    *)
(* moved (readPayloadRegistry, ApplyTo).                                   *)
LEMMA ReplayMoved ==
  ASSUME ViewTypes, Truthful, NEW rows \in StatusesType, NEW kind \in Kinds, WereMoved(rows, kind)
  PROVE  /\ Replay(rows, kind) \in StatusesType
         /\ MovedRows(Replay(rows, kind)) = Here(kind)
<1>1. PICK f : Replays(f, rows, kind, Len(history)) /\ Replay(rows, kind) = f[Len(history)]
  BY ReplayIs
<1>2. Len(history) \in Nat /\ Len(history) \in 0..Len(history) /\ DOMAIN history = 1..Len(history)
  BY DEF ViewTypes
<1>3. /\ Replay(rows, kind) \in StatusesType
      /\ \A q : q \in MovedRows(Replay(rows, kind)) <=> StillMoved(rows, kind, Len(history), q)
  BY <1>1, <1>2, ReplayedIs
<1>4. ASSUME NEW q
      PROVE  StillMoved(rows, kind, Len(history), q) <=> Moves(kind, q) # {} /\ Returns(kind, q) = {}
  <2>1. Moves(kind, q) \subseteq 1..Len(history) /\ Restores(kind, q) \subseteq 1..Len(history)
    BY <1>2 DEF Moves, Restores, ReadHistory
  <2>2. \A r : r \in Returns(kind, q) <=> r \in Restores(kind, q) /\ \A m \in Moves(kind, q) : m <= r
    BY DEF Returns, Restores
  <2>3. ASSUME StillMoved(rows, kind, Len(history), q) PROVE Moves(kind, q) # {} /\ Returns(kind, q) = {}
    <3>1. CASE \E m \in Moves(kind, q) : \A r \in Restores(kind, q) : r <= Len(history) => r < m
      BY <1>2, <2>1, <2>2, <3>1
    <3>2. CASE q \in MovedRows(rows) /\ \A r \in Restores(kind, q) : ~(r <= Len(history))
      <4>1. Restores(kind, q) = {}
        BY <1>2, <2>1, <3>2
      <4> QED
        BY <2>2, <3>2, <4>1 DEF WereMoved
    <3> QED
      BY <2>3, <3>1, <3>2 DEF StillMoved
  <2>4. ASSUME Moves(kind, q) # {}, Returns(kind, q) = {} PROVE StillMoved(rows, kind, Len(history), q)
    <3>1. PICK m \in Moves(kind, q) : \A k \in Moves(kind, q) : k <= m
      BY <1>2, <2>1, <2>4, GreatestOf
    <3>2. \A r \in Restores(kind, q) : r < m
      <4>1. ASSUME NEW r \in Restores(kind, q), ~(r < m) PROVE FALSE
        <5>1. \A k \in Moves(kind, q) : k <= r
          BY <1>2, <2>1, <3>1, <4>1
        <5> QED
          BY <2>2, <2>4, <5>1
      <4> QED
        BY <4>1
    <3>3. m <= Len(history)
      BY <1>2, <2>1
    <3> QED
      BY <3>2, <3>3 DEF StillMoved
  <2> QED
    BY <2>3, <2>4
<1>5. ASSUME NEW q, Moves(kind, q) # {} PROVE q \in Path /\ KindOf[q] = kind
  <2>1. PICK i \in DOMAIN history : history[i].kind = kind /\ q \in MovedBy(history[i])
    BY <1>5 DEF Moves, ReadHistory
  <2>2. PICK j \in DOMAIN history[i].events : history[i].events[j].path = q
    BY <2>1, PathsAre DEF MovedBy
  <2>3. history[i] \in RunType
    BY DEF ViewTypes
  <2>4. history[i].events \in Seq(EventType)
    BY <2>3 DEF RunType
  <2>5. history[i].events[j] \in EventType
    BY <2>4
  <2> QED
    BY <2>1, <2>2, <2>5 DEF Truthful, EventType
<1>6. \A q : q \in Here(kind) <=> Moves(kind, q) # {} /\ Returns(kind, q) = {}
  BY <1>5 DEF Here, Truthful
<1>7. \A q : q \in MovedRows(Replay(rows, kind)) <=> q \in Here(kind)
  BY <1>3, <1>4, <1>6
<1>8. MovedRows(Replay(rows, kind)) = Here(kind)
  BY <1>7
<1> QED
  BY <1>3, <1>8
-----------------------------------------------------------------------------
(* Types.                                                                  *)
LEMMA CmdType ==
  ASSUME ViewTypes
  PROVE  /\ job.cmd.settings \in Nat /\ job.cmd.keep \in BOOLEAN /\ job.cmd.update \in BOOLEAN
         /\ job.cmd.kind \in Kinds \cup {"none"} /\ job.cmd.op \in {"scan", "split", "restore", "none"}
<1>1. job.cmd \in Command \/ job.cmd = Idle
  BY DEF ViewTypes
<1>2. CASE job.cmd \in Command
  BY <1>2 DEF Command, Kinds
<1>3. CASE job.cmd = Idle
  BY <1>3 DEF Idle
<1> QED
  BY <1>1, <1>2, <1>3

LEMMA FieldTypes ==
  ASSUME ViewTypes
  PROVE  /\ \A p \in Path : file[p] \in Version /\ mirror[p] \in Version /\ KindOf[p] \in Kinds
         /\ registry.rows \in RowsType /\ registry.notes \in SUBSET Notes
         /\ stamp.registry \in RegistryType /\ stamp.started \in Nat /\ stamp.settings \in Nat
         /\ job.rows \in RowsType /\ job.visited \in SUBSET Path /\ job.notes \in SUBSET Notes
         /\ base.registry.rows \in RowsType /\ base.started \in Nat
         /\ existing.rows \in StatusesType
         /\ \A kind \in Kinds : copies[kind].archive \in CopyType /\ copies[kind].mirror \in CopyType
<1>1. \A p \in Path : KindOf[p] \in Kinds
  BY KindOfAssumption DEF Kinds
<1>2. registry \in RegistryType /\ base.registry \in RegistryType /\ existing \in CopyType
  BY DEF ViewTypes
<1> QED
  BY <1>1, <1>2 DEF ViewTypes, RegistryType, CopyType

LEMMA ConstantTypes ==
  /\ NoRegistry \in RegistryType /\ NoCopy \in CopyType /\ NoFile \in Version /\ Guessed \in Value /\ Typed \in Value
  /\ NoJob \in [cmd : Command \cup {Idle}, complete : BOOLEAN, started : Nat, rows : RowsType,
                notes : SUBSET Notes, visited : SUBSET Path, id : RegistryType, run : Nat]
  /\ NoBase \in [registry : RegistryType, reusable : BOOLEAN, id : RegistryType, started : Nat]
<1>1. NoRegistry \in RegistryType /\ NoCopy \in CopyType /\ NoFile \in Version /\ Guessed \in Value /\ Typed \in Value
  BY NoRows DEF NoRegistry, RegistryType, NoCopy, CopyType, NoFile, Version, Guessed, Typed, Value
<1>2. <<>> \in RowsType
  BY NoRows
<1> QED
  BY <1>1, <1>2 DEF NoJob, NoBase, Idle

LEMMA TypesInit == ViewInit => ViewTypes
<1> SUFFICES ASSUME ViewInit PROVE ViewTypes
  OBVIOUS
<1> USE DEF ViewInit, ViewStart
<1>1. clock \in Nat /\ mounted \in BOOLEAN /\ pc \in Labels /\ changed \subseteq Path /\ quiet \in Nat /\ skip \subseteq Notes
  BY DEF Labels
<1>2. file \in [Path -> Version] /\ mirror \in [Path -> Version]
  BY DEF Version, NoFile
<1>3. note \in [Notes -> {"none", "owned", "operator"}]
  BY DEF Notes
<1>4. history \in Seq(RunType)
  OBVIOUS
<1>5. registry \in RegistryType /\ existing \in CopyType /\ kept \in RowsType /\ issues \in StatusesType
  BY NoRows, ConstantTypes
<1>6. stamp \in [registry : RegistryType, started : Nat, settings : Nat]
  BY ConstantTypes DEF NoStamp
<1>7. copies \in [Kinds -> [archive : CopyType, mirror : CopyType]]
  BY ConstantTypes
<1>8. /\ job \in [cmd : Command \cup {Idle}, complete : BOOLEAN, started : Nat, rows : RowsType,
                  notes : SUBSET Notes, visited : SUBSET Path, id : RegistryType, run : Nat]
      /\ base \in [registry : RegistryType, reusable : BOOLEAN, id : RegistryType, started : Nat]
  BY ConstantTypes
<1>9. budget \in [runs : 0..MaxRuns, changes : 0..MaxChanges, crashes : 0..MaxCrashes]
  BY ViewBoundsAssumption
<1> QED
  BY <1>1, <1>2, <1>3, <1>4, <1>5, <1>6, <1>7, <1>8, <1>9 DEF ViewTypes

LEMMA SpendType ==
  ASSUME ViewTypes, NEW what \in {"runs", "changes", "crashes"}, Spend(what)
  PROVE  budget' \in [runs : 0..MaxRuns, changes : 0..MaxChanges, crashes : 0..MaxCrashes]
<1>1. \A n, m \in Nat : n \in 0..m /\ n > 0 => n - 1 \in 0..m
  OBVIOUS
<1>2. MaxRuns \in Nat /\ MaxChanges \in Nat /\ MaxCrashes \in Nat
  BY ViewBoundsAssumption
<1>3. /\ budget.runs \in 0..MaxRuns /\ budget.changes \in 0..MaxChanges /\ budget.crashes \in 0..MaxCrashes
      /\ budget \in [runs : 0..MaxRuns, changes : 0..MaxChanges, crashes : 0..MaxCrashes]
  BY DEF ViewTypes
<1>4. budget[what] > 0 /\ budget' = [budget EXCEPT ![what] = budget[what] - 1]
  BY DEF Spend
<1>5. CASE what = "runs"
  BY <1>2, <1>3, <1>4, <1>5
<1>6. CASE what = "changes"
  BY <1>2, <1>3, <1>4, <1>6
<1>7. CASE what = "crashes"
  BY <1>2, <1>3, <1>4, <1>7
<1> QED
  BY <1>5, <1>6, <1>7

LEMMA OfferedCommand ==
  ASSUME ViewTypes, NEW cmd, StartRun(cmd)
  PROVE  /\ cmd \in Command /\ (cmd.op = "scan" <=> cmd.kind = "none") /\ (cmd.op = "restore" <=> cmd.settings = 0)
<1>1. budget.runs > 0 /\ cmd \in Offered[1 + MaxRuns - budget.runs]
  BY DEF StartRun, Spend
<1>2. budget.runs \in 0..MaxRuns /\ MaxRuns \in Nat
  BY ViewBoundsAssumption DEF ViewTypes
<1>3. 1 + MaxRuns - budget.runs \in 1..MaxRuns
  BY <1>1, <1>2
<1> QED
  BY <1>1, <1>3, OfferedAssumption

LEMMA PlacesType ==
  ASSUME NEW p \in Path
  PROVE  LocationOf(p) \in {"archive", "video-archive", "catia-archive"} /\ LocationOf(p) # "archive"
BY DEF LocationOf

LEMMA PreservedType ==
  ASSUME ViewTypes, NEW p \in Path
  PROVE  PreservedRow(OpenBase, p) \in AnyRow /\ PreservedRow(OpenBase, p).loc = LocationOf(p)
<1> DEFINE row == PreservedRow(OpenBase, p)
<1>1. registry.rows \in RowsType /\ mirror[p] \in Version /\ job.cmd.settings \in Nat
  BY FieldTypes, CmdType
<1>2. p \in DOMAIN registry.rows => registry.rows[p] \in AnyRow
  BY <1>1, RowsAre
<1>3. \/ p \in DOMAIN registry.rows /\ row = [registry.rows[p] EXCEPT !.loc = LocationOf(p)]
      \/ row = Row(LocationOf(p), mirror[p].mtime, Detect(mirror[p], job.cmd.settings))
      \/ row = Row(LocationOf(p), mirror[p].mtime, Guessed)
  BY DEF PreservedRow, OpenBase
<1> HIDE DEF row
<1>4. mirror[p].mtime \in Nat /\ Detect(mirror[p], job.cmd.settings) \in Value
  BY <1>1 DEF Version, Detect, Value
<1>5. CASE p \in DOMAIN registry.rows /\ row = [registry.rows[p] EXCEPT !.loc = LocationOf(p)]
  BY <1>2, <1>5, PlacesType DEF row, AnyRow
<1>6. CASE row = Row(LocationOf(p), mirror[p].mtime, Detect(mirror[p], job.cmd.settings))
  BY <1>4, <1>6, PlacesType DEF row, AnyRow, Row
<1>7. CASE row = Row(LocationOf(p), mirror[p].mtime, Guessed)
  BY <1>4, <1>7, PlacesType, ConstantTypes DEF row, AnyRow, Row
<1> QED
  BY <1>3, <1>5, <1>6, <1>7

LEMMA PresentType ==
  ASSUME ViewTypes, NEW p \in Path
  PROVE  PresentRow(p) \in AnyRow /\ PresentRow(p).loc = "archive"
<1>1. base.registry.rows \in RowsType /\ file[p] \in Version /\ job.cmd.settings \in Nat
  BY FieldTypes, CmdType
<1>2. CASE Reusable(p)
  <2>1. p \in DOMAIN base.registry.rows /\ base.registry.rows[p].loc = "archive"
    BY <1>2 DEF Reusable
  <2> QED
    BY <1>1, <1>2, <2>1, RowsAre DEF PresentRow
<1>3. CASE ~Reusable(p)
  <2>1. PresentRow(p) = Row("archive", file[p].mtime, Detect(file[p], job.cmd.settings))
    BY <1>3 DEF PresentRow
  <2> QED
    BY <1>1, <2>1 DEF Row, Detect, Version, AnyRow, Value
<1> QED
  BY <1>2, <1>3

LEMMA NameIs ==
  ASSUME NEW p \in Path
  PROVE  /\ Name(p) \in Names /\ <<p, Name(p)>> \in Notes
         /\ (\E n \in Names : note[<<p, n>>] = "owned") => note[<<p, Name(p)>>] = "owned"
BY DEF Name, Names, Notes

(* Rows whose locations are set, to the mirror's or to the archive's.      *)
SetLocations(rows, paths) ==
  [p \in DOMAIN rows |-> IF p \in paths THEN [rows[p] EXCEPT !.loc = LocationOf(p)] ELSE rows[p]]
SetReturned(rows, paths) ==
  [p \in DOMAIN rows |-> IF p \in paths THEN [rows[p] EXCEPT !.loc = "archive"] ELSE rows[p]]

LEMMA RelocatedType ==
  ASSUME NEW rows \in RowsType, NEW paths
  PROVE  SetLocations(rows, paths) \in RowsType /\ SetReturned(rows, paths) \in RowsType
<1>1. DOMAIN rows \subseteq Path /\ \A p \in DOMAIN rows : rows[p] \in AnyRow
  BY RowsAre
<1>2. \A p \in DOMAIN rows : [rows[p] EXCEPT !.loc = LocationOf(p)] \in AnyRow /\ [rows[p] EXCEPT !.loc = "archive"] \in AnyRow
  BY <1>1, PlacesType DEF AnyRow
<1>3. /\ SetLocations(rows, paths) \in [DOMAIN rows -> AnyRow] /\ DOMAIN SetLocations(rows, paths) = DOMAIN rows
      /\ SetReturned(rows, paths) \in [DOMAIN rows -> AnyRow] /\ DOMAIN SetReturned(rows, paths) = DOMAIN rows
  BY <1>1, <1>2 DEF SetLocations, SetReturned
<1> QED
  BY <1>1, <1>3, RowsAre

(* What the start of a scan keeps of the run.                              *)
LEMMA Opened ==
  ASSUME ViewTypes, ScanOpen
  PROVE  /\ job'.cmd = job.cmd /\ job'.run = job.run /\ job'.started = Started
         /\ job'.complete => job.complete
         /\ \/ /\ job'.rows = job.rows /\ job'.notes = job.notes /\ job'.complete = job.complete
               /\ job'.visited = job.visited /\ job.visited # {} /\ changed' = changed
            \/ job'.rows = <<>> /\ job'.notes = {} /\ job'.visited = {} /\ ~job'.complete
<1> DEFINE old == [job EXCEPT !.started = Started, !.id = OpenBase.id]
           fresh == [[NoJob EXCEPT !.cmd = job.cmd, !.run = job.run] EXCEPT !.started = Started, !.id = OpenBase.id]
<1>1. \/ job' = old /\ job.visited # {} /\ changed' = changed
      \/ job' = fresh
  BY DEF ScanOpen
<1>2. job \in [cmd : Command \cup {Idle}, complete : BOOLEAN, started : Nat, rows : RowsType,
              notes : SUBSET Notes, visited : SUBSET Path, id : RegistryType, run : Nat]
  BY DEF ViewTypes
<1>3. /\ old.cmd = job.cmd /\ old.run = job.run /\ old.started = Started
      /\ old.rows = job.rows /\ old.notes = job.notes /\ old.complete = job.complete /\ old.visited = job.visited
  BY <1>2
<1>4. /\ fresh.cmd = job.cmd /\ fresh.run = job.run /\ fresh.started = Started
      /\ fresh.rows = <<>> /\ fresh.notes = {} /\ ~fresh.complete /\ fresh.visited = {}
  BY DEF NoJob
<1> HIDE DEF old, fresh
<1> QED
  BY <1>1, <1>3, <1>4

LEMMA TypesNext ==
  ASSUME ViewTypes, Phases, ViewNext
  PROVE  ViewTypes'
<1> USE DEF Goto, files, outputs, memory
<1>1. ASSUME NEW cmd, StartRun(cmd) PROVE ViewTypes'
  <2>1. cmd \in Command /\ (cmd.op = "scan" <=> cmd.kind = "none")
    BY <1>1, OfferedCommand
  <2>2. history' \in Seq(RunType) /\ Len(history') \in Nat
    <3>1. history \in Seq(RunType)
      BY DEF ViewTypes
    <3>2. CASE cmd.kind = "none"
      BY <1>1, <3>1, <3>2 DEF StartRun
    <3>3. CASE cmd.kind # "none"
      <4>1. [kind |-> cmd.kind, op |-> cmd.op, events |-> <<>>] \in RunType
        BY <2>1, <3>3 DEF Command, RunType, Kinds
      <4> QED
        BY <1>1, <3>1, <3>3, <4>1 DEF StartRun
    <3> QED
      BY <3>2, <3>3
  <2>3. job' \in [cmd : Command \cup {Idle}, complete : BOOLEAN, started : Nat, rows : RowsType,
                  notes : SUBSET Notes, visited : SUBSET Path, id : RegistryType, run : Nat]
    <3>1. job' = [NoJob EXCEPT !.cmd = cmd, !.run = Len(history')]
      BY <1>1 DEF StartRun
    <3>2. NoRegistry \in RegistryType /\ <<>> \in RowsType
      BY ConstantTypes, NoRows
    <3> QED
      BY <2>1, <2>2, <3>1, <3>2 DEF NoJob
  <2>4. existing' \in CopyType /\ issues' = <<>> /\ pc' \in Labels
    <3>1. LoadCopy(cmd.kind) \in CopyType
      BY <2>1, FieldTypes, ConstantTypes DEF LoadCopy, Command, Kinds
    <3> QED
      BY <1>1, <3>1 DEF StartRun, Begin, Labels
  <2>5. budget' \in [runs : 0..MaxRuns, changes : 0..MaxChanges, crashes : 0..MaxCrashes]
    BY <1>1, SpendType DEF StartRun
  <2>6. UNCHANGED <<clock, files, registry, stamp, copies, base, kept, skip, changed, quiet>>
    BY <1>1 DEF StartRun, Begin
  <2> QED
    BY <2>2, <2>3, <2>4, <2>5, <2>6, NoRows DEF ViewTypes
<1>2. CASE Resume
  <2>1. existing' \in CopyType /\ issues' = <<>> /\ pc' \in Labels
    <3>1. job.cmd.kind \in Kinds \cup {"none"}
      BY CmdType
    <3>2. LoadCopy(job.cmd.kind) \in CopyType
      BY <3>1, FieldTypes, ConstantTypes DEF LoadCopy
    <3> QED
      BY <1>2, <3>2 DEF Resume, Begin, Labels
  <2>2. UNCHANGED <<clock, files, history, registry, stamp, copies, job, base, kept, skip, changed, quiet, budget>>
    BY <1>2 DEF Resume, Begin
  <2> QED
    BY <2>1, <2>2, NoRows DEF ViewTypes
<1>3. CASE ScanOpen
  <2>1. OpenBase \in [registry : RegistryType, reusable : BOOLEAN, id : RegistryType, started : Nat]
    BY FieldTypes, ConstantTypes DEF OpenBase, ViewTypes, Stamped
  <2>2. kept' \in RowsType
    <3>1. kept' = [p \in Moved |-> PreservedRow(OpenBase, p)]
      BY <1>3 DEF ScanOpen
    <3>2. Moved \subseteq Path
      BY DEF Moved, ReplayMoves
    <3>3. \A p \in Moved : PreservedRow(OpenBase, p) \in AnyRow
      BY <3>2, PreservedType
    <3>4. kept' \in [Moved -> AnyRow]
      BY <3>1, <3>3
    <3> QED
      BY <3>2, <3>4 DEF RowsType
  <2>3. job' \in [cmd : Command \cup {Idle}, complete : BOOLEAN, started : Nat, rows : RowsType,
                  notes : SUBSET Notes, visited : SUBSET Path, id : RegistryType, run : Nat]
    <3>1. Started \in Nat
      BY DEF Started, ViewTypes
    <3>2. OpenBase.id \in RegistryType
      BY <2>1
    <3>3. \/ job' = [job EXCEPT !.started = Started, !.id = OpenBase.id]
          \/ job' = [[NoJob EXCEPT !.cmd = job.cmd, !.run = job.run]
                       EXCEPT !.started = Started, !.id = OpenBase.id]
      BY <1>3 DEF ScanOpen
    <3>4. NoRegistry \in RegistryType /\ <<>> \in RowsType
      BY ConstantTypes, NoRows
    <3>5. CASE job' = [job EXCEPT !.started = Started, !.id = OpenBase.id]
      BY <3>1, <3>2, <3>5 DEF ViewTypes
    <3>6. CASE job' = [[NoJob EXCEPT !.cmd = job.cmd, !.run = job.run]
                         EXCEPT !.started = Started, !.id = OpenBase.id]
      BY <3>1, <3>2, <3>4, <3>6 DEF ViewTypes, NoJob
    <3> QED
      BY <3>3, <3>5, <3>6
  <2>4. base' = OpenBase /\ skip' \subseteq Notes /\ changed' \subseteq Path /\ pc' \in Labels
    BY <1>3 DEF ScanOpen, OwnedDescriptions, Notes, Labels, ViewTypes
  <2>5. UNCHANGED <<clock, files, history, outputs, issues, existing, quiet, budget>>
    BY <1>3 DEF ScanOpen
  <2> QED
    BY <2>1, <2>2, <2>3, <2>4, <2>5 DEF ViewTypes
<1>4. ASSUME NEW p \in Path, Visit(p) PROVE ViewTypes'
  <2>1. PresentRow(p) \in AnyRow /\ (p \in DOMAIN kept => kept[p] \in AnyRow)
    BY PresentType, RowsAre DEF ViewTypes
  <2> DEFINE rows == IF file[p] # NoFile THEN WithRow(job.rows, p, PresentRow(p))
                     ELSE IF p \in DOMAIN kept THEN WithRow(job.rows, p, kept[p]) ELSE job.rows
             notes == job.notes \cup {d \in {p} \X Names : note[d] # "none" /\ d \notin skip}
  <2>2. rows \in RowsType /\ notes \in SUBSET Notes
    BY <2>1, RowAdded, FieldTypes DEF Notes
  <2>3. job' = [job EXCEPT !.visited = job.visited \cup {p}, !.rows = rows, !.notes = notes]
    BY <1>4 DEF Visit
  <2> HIDE DEF rows, notes
  <2>4. job' \in [cmd : Command \cup {Idle}, complete : BOOLEAN, started : Nat, rows : RowsType,
                  notes : SUBSET Notes, visited : SUBSET Path, id : RegistryType, run : Nat]
    BY <2>2, <2>3 DEF ViewTypes
  <2>5. UNCHANGED <<clock, files, history, outputs, memory, pc, changed, quiet, budget>>
    BY <1>4 DEF Visit
  <2> QED
    BY <2>4, <2>5 DEF ViewTypes
<1>5. CASE Place
  <2>1. registry' \in RegistryType /\ kept' \in RowsType /\ base' = NoBase /\ skip' = {} /\ pc' \in Labels
    BY <1>5, FieldTypes, NoRows DEF Place, RegistryType, Labels
  <2>2. quiet' \in Nat
    BY <1>5 DEF Place, ViewTypes
  <2>3. UNCHANGED <<clock, files, history, stamp, copies, job, issues, existing, changed, budget>>
    BY <1>5 DEF Place
  <2> QED
    BY <2>1, <2>2, <2>3, ConstantTypes DEF ViewTypes
<1>6. CASE Stamp
  <2>1. stamp' \in [registry : RegistryType, started : Nat, settings : Nat]
    BY <1>6, CmdType DEF Stamp, WriteStamp, ViewTypes
  <2>2. job' \in [cmd : Command \cup {Idle}, complete : BOOLEAN, started : Nat, rows : RowsType,
                  notes : SUBSET Notes, visited : SUBSET Path, id : RegistryType, run : Nat]
    BY <1>6, ConstantTypes DEF Stamp, ViewTypes
  <2>3. pc' \in Labels /\ UNCHANGED <<clock, files, history, registry, copies, memory, changed, quiet, budget>>
    BY <1>6 DEF Stamp, Labels
  <2> QED
    BY <2>1, <2>2, <2>3 DEF ViewTypes
<1>7. ASSUME NEW p \in Path, MoveOut(p) PROVE ViewTypes'
  <2>1. job.run \in DOMAIN history
    BY <1>7 DEF MoveOut, MayMoveOut, Phases, Splitting, ViewTypes
  <2>2. Name(p) \in 0..2 /\ <<p, Name(p)>> \in Notes /\ "moved" \in Status
    <3>1. Name(p) \in {1, 2} /\ <<p, Name(p)>> \in Notes
      BY NameIs DEF Names
    <3> QED
      BY <3>1 DEF Status
  <2>3. history' \in Seq(RunType)
    BY <1>7, <2>1, <2>2, Logged DEF MoveOut
  <2>4. mirror' \in [Path -> Version] /\ file' \in [Path -> Version]
    <3>1. NoFile \in Version /\ file[p] \in Version /\ mirror[p] \in Version
      BY ConstantTypes, FieldTypes
    <3> QED
      BY <1>7, <3>1 DEF MoveOut, ViewTypes
  <2>5. note' \in [Notes -> {"none", "owned", "operator"}]
    BY <1>7, <2>2 DEF MoveOut, ViewTypes
  <2>6. quiet' \in Nat /\ UNCHANGED <<clock, mounted, outputs, job, memory, pc, changed, budget>>
    BY <1>7 DEF MoveOut
  <2> QED
    BY <2>3, <2>4, <2>5, <2>6 DEF ViewTypes
<1>8. ASSUME NEW p \in Path, Refuse(p) PROVE ViewTypes'
  <2>1. issues' \in StatusesType
    BY <1>8, RowAdded DEF Refuse, Status, ViewTypes
  <2>2. UNCHANGED <<clock, files, history, outputs, job, base, kept, skip, existing, pc, changed, quiet, budget>>
    BY <1>8 DEF Refuse
  <2> QED
    BY <2>1, <2>2 DEF ViewTypes
<1>9. ASSUME NEW p \in Path, Abort(p) PROVE ViewTypes'
  <2>1. job.run \in DOMAIN history
    BY <1>9 DEF Abort, MayMoveOut, Phases, Splitting, ViewTypes
  <2>2. PICK status \in {"conflict", "skipped"} : Log(p, status, 0) /\ issues' = WithRow(issues, p, status)
    BY <1>9 DEF Abort
  <2>3. status \in Status /\ 0 \in 0..2
    BY DEF Status
  <2>4. history' \in Seq(RunType)
    BY <2>1, <2>2, <2>3, Logged
  <2>5. issues' \in StatusesType
    BY <2>2, <2>3, RowAdded DEF ViewTypes
  <2>6. budget' \in [runs : 0..MaxRuns, changes : 0..MaxChanges, crashes : 0..MaxCrashes]
    BY <1>9, SpendType DEF Abort
  <2>7. UNCHANGED <<clock, files, outputs, job, base, kept, skip, existing, pc, changed, quiet>>
    BY <1>9 DEF Abort
  <2> QED
    BY <2>4, <2>5, <2>6, <2>7 DEF ViewTypes
<1>10. ASSUME NEW p \in Path, RestoreOne(p) PROVE ViewTypes'
  <2>1. job.run \in DOMAIN history
    BY <1>10 DEF RestoreOne, Phases, Restoring, ViewTypes
  <2>2. quiet' \in Nat /\ UNCHANGED <<clock, mounted, outputs, job, base, kept, skip, existing, pc, changed, budget>>
    BY <1>10 DEF RestoreOne
  <2>3. CASE file[p] = NoFile \/ file[p].data = mirror[p].data
    <3> DEFINE n == IF \E m \in Names : note[<<p, m>>] = "owned" THEN Name(p) ELSE 0
    <3>1. n \in 0..2 /\ (n # 0 => <<p, n>> \in Notes) /\ "restored" \in Status
      BY NameIs DEF Names, Status
    <3>2. /\ file' = [file EXCEPT ![p] = IF @ = NoFile THEN mirror[p] ELSE @]
          /\ mirror' = [mirror EXCEPT ![p] = NoFile]
          /\ note' = IF n = 0 \/ job.cmd.keep THEN note ELSE [note EXCEPT ![<<p, n>>] = "none"]
          /\ Log(p, "restored", n) /\ UNCHANGED issues
      BY <1>10, <2>3 DEF RestoreOne
    <3> HIDE DEF n
    <3>3. history' \in Seq(RunType)
      BY <2>1, <3>1, <3>2, Logged
    <3>4. mirror' \in [Path -> Version] /\ file' \in [Path -> Version]
      <4>1. NoFile \in Version /\ file[p] \in Version /\ mirror[p] \in Version
        BY ConstantTypes, FieldTypes
      <4> QED
        BY <3>2, <4>1 DEF ViewTypes
    <3>5. note' \in [Notes -> {"none", "owned", "operator"}]
      BY <3>1, <3>2 DEF ViewTypes
    <3> QED
      BY <2>2, <3>2, <3>3, <3>4, <3>5 DEF ViewTypes
  <2>4. CASE ~(file[p] = NoFile \/ file[p].data = mirror[p].data)
    <3>1. issues' = WithRow(issues, p, "conflict") /\ UNCHANGED <<file, mirror, note, history>>
      BY <1>10, <2>4 DEF RestoreOne
    <3>2. issues' \in StatusesType
      BY <3>1, RowAdded DEF Status, ViewTypes
    <3> QED
      BY <2>2, <3>1, <3>2 DEF ViewTypes
  <2> QED
    BY <2>3, <2>4
<1>11. CASE Executed
  BY <1>11 DEF Executed, ViewTypes, Labels
<1>12. CASE ReportArchive \/ ReportMirror
  <2>1. job.cmd.kind \in Kinds
    BY <1>12, CmdType DEF ReportArchive, ReportMirror, Phases, Restoring, Splitting
  <2>2. \A rows \in StatusesType : Replay(rows, job.cmd.kind) \in StatusesType
    <3> SUFFICES ASSUME NEW rows \in StatusesType PROVE Replay(rows, job.cmd.kind) \in StatusesType
      OBVIOUS
    <3>1. PICK f : Replays(f, rows, job.cmd.kind, Len(history)) /\ Replay(rows, job.cmd.kind) = f[Len(history)]
      BY ReplayIs
    <3>2. Len(history) \in 0..Len(history)
      BY DEF ViewTypes
    <3> QED
      BY <3>1, <3>2, ReplayedIs
  <2>3. LoadCopy(job.cmd.kind) \in CopyType
    BY <2>1, FieldTypes DEF LoadCopy, Kinds
  <2>4. SplitRows \in StatusesType /\ RestoredRows \in StatusesType
    <3>1. LoadCopy(job.cmd.kind).rows \in StatusesType
      BY <2>3 DEF CopyType
    <3>2. existing.rows \in StatusesType /\ issues \in StatusesType
      BY FieldTypes DEF ViewTypes
    <3> QED
      BY <2>2, <3>1, <3>2, MergeIs DEF SplitRows, RestoredRows
  <2>5. Copy(ReportRows) \in CopyType
    BY <2>4 DEF ReportRows, Copy, CopyType
  <2>6. existing \in CopyType /\ NoCopy \in CopyType
    BY ConstantTypes DEF ViewTypes
  <2>7. existing' \in CopyType
    BY <1>12, <2>5, <2>6 DEF ReportArchive, ReportMirror
  <2>8. copies' \in [Kinds -> [archive : CopyType, mirror : CopyType]]
    <3>1. CASE ReportArchive
      <4> DEFINE c == IF Retire(ReportRows) THEN NoCopy ELSE Copy(ReportRows)
      <4>1. c \in CopyType
        BY <2>5, <2>6
      <4>2. copies' = [copies EXCEPT ![job.cmd.kind]["archive"] = c]
        BY <3>1 DEF ReportArchive, WriteCopy
      <4> HIDE DEF c
      <4>3. copies \in [Kinds -> [archive : CopyType, mirror : CopyType]]
        BY DEF ViewTypes
      <4> QED
        BY <2>1, <4>1, <4>2, <4>3
    <3>2. CASE ReportMirror
      <4> DEFINE c == IF Retire(existing.rows) THEN NoCopy ELSE existing
      <4>1. c \in CopyType
        BY <2>6
      <4>2. copies' = [copies EXCEPT ![job.cmd.kind].mirror = c]
        BY <3>2 DEF ReportMirror
      <4> HIDE DEF c
      <4> QED
        BY <2>1, <4>1, <4>2 DEF ViewTypes
    <3> QED
      BY <1>12, <3>1, <3>2
  <2>9. pc' \in Labels
        /\ UNCHANGED <<clock, files, history, registry, stamp, job, base, kept, skip, issues, changed, quiet, budget>>
    BY <1>12 DEF ReportArchive, ReportMirror, Labels
  <2> QED
    BY <2>7, <2>8, <2>9 DEF ViewTypes
<1>13. CASE LocateSplit \/ LocateRestored
  <2>1. registry' \in RegistryType
    <3>1. registry.rows \in RowsType /\ registry \in RegistryType
      BY FieldTypes DEF ViewTypes
    <3>2. \A paths : SetLocations(registry.rows, paths) \in RowsType /\ SetReturned(registry.rows, paths) \in RowsType
      BY <3>1, RelocatedType
    <3>3. \/ registry' = registry
          \/ \E paths : registry' = [registry EXCEPT !.rows = SetLocations(registry.rows, paths)]
          \/ \E paths : registry' = [registry EXCEPT !.rows = SetReturned(registry.rows, paths)]
      BY <1>13 DEF LocateSplit, LocateRestored, SetLocations, SetReturned
    <3> QED
      BY <3>1, <3>2, <3>3 DEF RegistryType
  <2>2. pc' \in Labels
        /\ UNCHANGED <<clock, files, history, stamp, copies, job, memory, changed, quiet, budget>>
    BY <1>13 DEF LocateSplit, LocateRestored, Labels
  <2> QED
    BY <2>1, <2>2 DEF ViewTypes
<1>14. CASE Restamp
  <2>1. stamp' \in [registry : RegistryType, started : Nat, settings : Nat]
    BY <1>14, CmdType DEF Restamp, WriteStamp, ViewTypes
  <2>2. pc' \in Labels /\ UNCHANGED <<clock, files, history, registry, copies, job, memory, changed, quiet, budget>>
    BY <1>14 DEF Restamp, Labels
  <2> QED
    BY <2>1, <2>2 DEF ViewTypes
<1>15. CASE Settle
  <2>1. quiet' \in Nat /\ pc' \in Labels
    BY <1>15, CmdType DEF Settle, Labels
  <2>2. UNCHANGED <<clock, files, history, outputs, job, memory, changed, budget>>
    BY <1>15 DEF Settle
  <2> QED
    BY <2>1, <2>2 DEF ViewTypes
<1>16. CASE Finish
  <2>1. /\ job' = NoJob /\ base' = NoBase /\ kept' = <<>> /\ skip' = {} /\ issues' = <<>> /\ existing' = NoCopy
        /\ pc' \in Labels
    BY <1>16 DEF Finish, Forget, Labels
  <2>2. UNCHANGED <<clock, files, history, outputs, changed, quiet, budget>>
    BY <1>16 DEF Finish
  <2> QED
    BY <2>1, <2>2, NoRows, ConstantTypes DEF ViewTypes
<1>17. CASE Tick \/ Mount
  <2>1. clock' \in Nat \ {0} /\ mounted' \in BOOLEAN
    <3>1. clock \in Nat \ {0} /\ mounted \in BOOLEAN /\ (~mounted) \in BOOLEAN
      BY DEF ViewTypes
    <3>2. CASE Tick
      BY <3>1, <3>2 DEF Tick
    <3>3. CASE Mount
      BY <3>1, <3>3 DEF Mount
    <3> QED
      BY <1>17, <3>2, <3>3
  <2>2. UNCHANGED <<file, mirror, note, history, outputs, job, memory, pc, changed, quiet, budget>>
    BY <1>17 DEF Tick, Mount
  <2> QED
    BY <2>1, <2>2 DEF ViewTypes
<1>18. CASE Crash
  <2>1. budget' \in [runs : 0..MaxRuns, changes : 0..MaxChanges, crashes : 0..MaxCrashes]
    BY <1>18, SpendType DEF Crash
  <2>2. /\ base' = NoBase /\ kept' = <<>> /\ skip' = {} /\ issues' = <<>> /\ existing' = NoCopy
        /\ pc' \in Labels
    BY <1>18 DEF Crash, Forget, Labels
  <2>3. UNCHANGED <<clock, files, history, outputs, job, changed, quiet>>
    BY <1>18 DEF Crash
  <2> QED
    BY <2>1, <2>2, <2>3, NoRows, ConstantTypes DEF ViewTypes
<1>19. CASE Operator
  <2>1. budget' \in [runs : 0..MaxRuns, changes : 0..MaxChanges, crashes : 0..MaxCrashes]
    BY <1>19, SpendType DEF Operator
  <2>2. quiet' \in Nat /\ UNCHANGED <<clock, history, stamp, job, memory, pc>>
    BY <1>19 DEF Operator
  <2> DEFINE WellTyped ==
        /\ file' \in [Path -> Version] /\ note' \in [Notes -> {"none", "owned", "operator"}]
        /\ registry' \in RegistryType /\ copies' \in [Kinds -> [archive : CopyType, mirror : CopyType]]
        /\ changed' \subseteq Path /\ UNCHANGED <<mirror, mounted>>
  <2>3. WellTyped
    <3>1. ASSUME NEW p \in Path, Edit(p) PROVE WellTyped
      <4>1. Newer \in Version
        <5>1. budget.changes \in 0..MaxChanges /\ MaxChanges \in Nat /\ clock \in Nat
          BY ViewBoundsAssumption DEF ViewTypes
        <5>2. 1 + MaxChanges - budget.changes + 1 \in Nat
          BY <5>1
        <5> QED
          BY <5>1, <5>2 DEF Newer, Version
      <4> QED
        BY <3>1, <4>1 DEF Edit, ViewTypes
    <3>2. ASSUME NEW p \in Path, Delete(p) PROVE WellTyped
      BY <3>2, ConstantTypes DEF Delete, ViewTypes
    <3>3. ASSUME NEW p \in Path, EditRegistry(p) PROVE WellTyped
      <4>1. registry' \in RegistryType
        <5> DEFINE row == [registry.rows[p] EXCEPT !.val = Typed]
                   rows == [registry.rows EXCEPT ![p] = row]
        <5>1. DOMAIN registry.rows \subseteq Path /\ registry.rows \in [DOMAIN registry.rows -> AnyRow]
          BY FieldTypes, RowsAre
        <5>2. row \in AnyRow
          BY <3>3, <5>1, ConstantTypes DEF EditRegistry, AnyRow
        <5>3. registry' = [registry EXCEPT !.rows = rows]
          BY <3>3 DEF EditRegistry
        <5> HIDE DEF row
        <5>4. rows \in [DOMAIN registry.rows -> AnyRow] /\ DOMAIN rows = DOMAIN registry.rows
          BY <5>1, <5>2
        <5> HIDE DEF rows
        <5>5. rows \in RowsType
          BY <5>1, <5>4, RowsAre
        <5> QED
          BY <5>3, <5>5 DEF ViewTypes, RegistryType
      <4> QED
        BY <3>3, <4>1 DEF EditRegistry, ViewTypes
    <3>4. ASSUME NEW p \in Path, OwnNote(p) PROVE WellTyped
      BY <3>4 DEF OwnNote, ViewTypes, Notes, Names
    <3>5. CASE DeleteRegistry
      BY <3>5, ConstantTypes DEF DeleteRegistry, ViewTypes
    <3>6. ASSUME NEW kind \in Kinds, DeleteCopy(kind) PROVE WellTyped
      BY <3>6, ConstantTypes DEF DeleteCopy, ViewTypes
    <3> QED
      BY <1>19, <3>1, <3>2, <3>3, <3>4, <3>5, <3>6 DEF Operator
  <2> QED
    BY <2>1, <2>2, <2>3 DEF ViewTypes
<1> QED
  BY <1>1, <1>2, <1>3, <1>4, <1>5, <1>6, <1>7, <1>8, <1>9, <1>10, <1>11, <1>12, <1>13, <1>14, <1>15, <1>16,
     <1>17, <1>18, <1>19 DEF ViewNext

LEMMA LocationsNext ==
  ASSUME ViewTypes, Locations, ViewNext
  PROVE  Locations'
<1> USE DEF Goto, files, outputs, memory
<1>1. ASSUME UNCHANGED <<registry, stamp, base, kept>>, Placed(job'.rows) PROVE Locations'
  BY <1>1 DEF Locations, Placed
<1>2. Placed(<<>>) /\ Placed(NoJob.rows) /\ Placed(NoRegistry.rows) /\ Placed(NoBase.registry.rows)
  BY NoRows DEF Placed, NoJob, NoBase, NoRegistry
<1>3. ASSUME NEW cmd, StartRun(cmd) PROVE Locations'
  <2>1. job'.rows = <<>>
    BY <1>3 DEF StartRun, NoJob
  <2> QED
    BY <1>1, <1>2, <1>3, <2>1 DEF StartRun, Begin
<1>4. CASE Resume
  BY <1>1, <1>4 DEF Resume, Begin, Locations
<1>5. CASE ScanOpen
  <2>1. job'.rows = job.rows \/ job'.rows = <<>>
    BY <1>5, Opened
  <2>2. base'.registry = registry
    BY <1>5 DEF ScanOpen, OpenBase
  <2>3. \A p \in DOMAIN kept' : kept'[p].loc = LocationOf(p)
    <3>1. kept' = [p \in Moved |-> PreservedRow(OpenBase, p)]
      BY <1>5 DEF ScanOpen
    <3>2. Moved \subseteq Path
      BY DEF Moved, ReplayMoves
    <3> QED
      BY <3>1, <3>2, PreservedType
  <2>4. UNCHANGED <<registry, stamp>>
    BY <1>5 DEF ScanOpen
  <2> QED
    BY <1>2, <2>1, <2>2, <2>3, <2>4 DEF Locations, Placed
<1>6. ASSUME NEW p \in Path, Visit(p) PROVE Locations'
  <2>1. Placed(job.rows)
    BY DEF Locations
  <2>2. \/ job'.rows = job.rows
        \/ job'.rows = WithRow(job.rows, p, PresentRow(p))
        \/ p \in DOMAIN kept /\ job'.rows = WithRow(job.rows, p, kept[p])
    BY <1>6 DEF Visit, ViewTypes
  <2>3. Placed(job'.rows)
    <3>1. ASSUME NEW row, row.loc \in {"archive", LocationOf(p)} PROVE Placed(WithRow(job.rows, p, row))
      <4> DEFINE rows == WithRow(job.rows, p, row)
      <4>1. /\ DOMAIN rows = DOMAIN job.rows \cup {p} /\ rows[p] = row
            /\ \A q \in DOMAIN job.rows : q # p => rows[q] = job.rows[q]
        BY DEF WithRow
      <4> HIDE DEF rows
      <4>2. \A q \in DOMAIN rows : rows[q].loc \in {"archive", LocationOf(q)}
        BY <2>1, <3>1, <4>1 DEF Placed
      <4> QED
        BY <4>2 DEF Placed, rows
    <3>2. PresentRow(p).loc \in {"archive", LocationOf(p)} /\ (p \in DOMAIN kept => kept[p].loc \in {"archive", LocationOf(p)})
      BY PresentType DEF Locations
    <3> QED
      BY <2>1, <2>2, <3>1, <3>2
  <2> QED
    BY <1>1, <1>6, <2>3 DEF Visit
<1>7. CASE Place
  <2>1. /\ registry'.rows = job.rows /\ base' = NoBase /\ kept' = <<>> /\ UNCHANGED <<stamp, job>>
    BY <1>7 DEF Place
  <2> QED
    BY <1>2, <2>1, NoRows DEF Locations, Placed
<1>8. CASE Stamp
  <2>1. /\ stamp'.registry = registry /\ job'.rows = job.rows /\ UNCHANGED <<registry, base, kept>>
    BY <1>8 DEF Stamp, WriteStamp, ViewTypes
  <2> QED
    BY <2>1 DEF Locations, Placed
<1>9. ASSUME NEW p \in Path, MoveOut(p) \/ Refuse(p) \/ Abort(p) \/ RestoreOne(p) PROVE Locations'
  BY <1>1, <1>9 DEF MoveOut, Refuse, Abort, RestoreOne, Locations
<1>10. CASE Executed \/ ReportArchive \/ ReportMirror \/ Settle
  BY <1>1, <1>10 DEF Executed, ReportArchive, ReportMirror, Settle, Locations
<1>11. CASE LocateSplit
  <2>1. UNCHANGED <<stamp, job, base, kept>>
    BY <1>11 DEF LocateSplit
  <2>2. registry' = registry \/ registry' = [registry EXCEPT !.rows = SetLocations(registry.rows, Committed)]
    BY <1>11 DEF LocateSplit, SetLocations
  <2>3. registry'.rows = registry.rows \/ registry'.rows = SetLocations(registry.rows, Committed)
    BY <2>2 DEF ViewTypes, RegistryType
  <2>4. Placed(SetLocations(registry.rows, Committed))
    <3>1. DOMAIN registry.rows \subseteq Path /\ \A p \in DOMAIN registry.rows : registry.rows[p] \in AnyRow
      BY FieldTypes, RowsAre
    <3> QED
      BY <3>1 DEF Locations, Placed, SetLocations, AnyRow
  <2> QED
    BY <2>1, <2>3, <2>4 DEF Locations, Placed
<1>12. CASE LocateRestored
  <2> DEFINE back == {p \in DOMAIN registry.rows :
                        p \in DOMAIN ReplayMoves(job.cmd.kind).restored /\ registry.rows[p].loc = LocationOf(p)}
  <2>1. UNCHANGED <<stamp, job, base, kept>>
    BY <1>12 DEF LocateRestored
  <2>2. registry' = registry \/ registry' = [registry EXCEPT !.rows = SetReturned(registry.rows, back)]
    BY <1>12 DEF LocateRestored, SetReturned
  <2> HIDE DEF back
  <2>3. registry'.rows = registry.rows \/ registry'.rows = SetReturned(registry.rows, back)
    BY <2>2 DEF ViewTypes, RegistryType
  <2>4. Placed(SetReturned(registry.rows, back))
    <3>1. DOMAIN registry.rows \subseteq Path /\ \A p \in DOMAIN registry.rows : registry.rows[p] \in AnyRow
      BY FieldTypes, RowsAre
    <3> QED
      BY <3>1 DEF Locations, Placed, SetReturned, AnyRow
  <2> QED
    BY <2>1, <2>3, <2>4 DEF Locations, Placed
<1>13. CASE Restamp
  <2>1. (stamp'.registry = registry) /\ UNCHANGED <<registry, job, base, kept>>
    BY <1>13 DEF Restamp, WriteStamp, ViewTypes
  <2> QED
    BY <2>1 DEF Locations, Placed
<1>14. CASE Finish
  <2>1. job' = NoJob /\ base' = NoBase /\ kept' = <<>> /\ UNCHANGED <<registry, stamp>>
    BY <1>14 DEF Finish, Forget
  <2> QED
    BY <1>2, <2>1, NoRows DEF Locations, Placed
<1>15. CASE Tick \/ Mount
  BY <1>1, <1>15 DEF Tick, Mount, Locations
<1>16. CASE Crash
  <2>1. base' = NoBase /\ kept' = <<>> /\ UNCHANGED <<registry, stamp, job>>
    BY <1>16 DEF Crash, Forget
  <2> QED
    BY <1>2, <2>1, NoRows DEF Locations, Placed
<1>17. CASE Operator
  <2>1. UNCHANGED <<stamp, job, base, kept>>
    BY <1>17 DEF Operator
  <2>2. \/ registry' = registry
        \/ registry' = NoRegistry
        \/ \E p \in DOMAIN registry.rows : registry' = [registry EXCEPT !.rows[p].val = Typed]
    BY <1>17 DEF Operator, Edit, Delete, EditRegistry, OwnNote, DeleteRegistry, DeleteCopy
  <2>3. ASSUME NEW p \in DOMAIN registry.rows, registry' = [registry EXCEPT !.rows[p].val = Typed]
        PROVE  Placed(registry'.rows)
    <3>1. registry.rows \in RowsType /\ DOMAIN registry.rows \subseteq Path
          /\ \A q \in DOMAIN registry.rows : registry.rows[q] \in AnyRow
      BY FieldTypes, RowsAre
    <3>2. registry'.rows = [registry.rows EXCEPT ![p].val = Typed]
      BY <2>3 DEF ViewTypes, RegistryType
    <3>3. DOMAIN registry'.rows = DOMAIN registry.rows
          /\ \A q \in DOMAIN registry.rows : registry'.rows[q].loc = registry.rows[q].loc
      BY <3>1, <3>2 DEF AnyRow
    <3> QED
      BY <3>3 DEF Locations, Placed
  <2>4. Placed(registry'.rows)
    BY <1>2, <2>2, <2>3 DEF Locations
  <2> QED
    BY <2>1, <2>4 DEF Locations, Placed
<1> QED
  BY <1>3, <1>4, <1>5, <1>6, <1>7, <1>8, <1>9, <1>10, <1>11, <1>12, <1>13, <1>14, <1>15, <1>16, <1>17 DEF ViewNext

LEMMA PhasesNext ==
  ASSUME ViewTypes, Phases, ViewNext
  PROVE  Phases'
<1> USE DEF Goto, files, outputs, memory
<1> USE DEF Scans, Splitting, Restoring
<1>1. ASSUME UNCHANGED <<job, history>>, pc' = "stamp" => UNCHANGED <<pc, registry>>,
             job = NoJob => pc' = "down",
             pc' \in {"open", "scan", "stamp"} => Scans /\ ~job.complete,
             pc' \in {"move", "report", "report-mirror", "locate", "restamp"} => Restoring \/ (Splitting /\ job.complete),
             pc' = "settle" => Splitting /\ job.complete,
             job.cmd.op = "scan" /\ job.complete => pc' = "done",
             pc' = "done" => job.complete \/ Restoring,
             pc' \in {"scan", "stamp"} => job.started > 0
      PROVE  Phases'
  BY <1>1 DEF Phases
<1>2. ASSUME NEW cmd, StartRun(cmd) PROVE Phases'
  <2>1. /\ cmd \in Command /\ (cmd.op = "scan" <=> cmd.kind = "none") /\ (cmd.op = "restore" <=> cmd.settings = 0)
    BY <1>2, OfferedCommand
  <2>2. job' = [NoJob EXCEPT !.cmd = cmd, !.run = Len(history')]
    BY <1>2 DEF StartRun
  <2>3. /\ job'.cmd = cmd /\ job'.run = Len(history') /\ ~job'.complete /\ job'.rows = <<>> /\ job'.visited = {}
        /\ job'.started = 0 /\ DOMAIN job'.rows = {} /\ job'.notes = {}
    BY <2>2, NoRows DEF NoJob
  <2>4. pc' \in {"open", "move"} /\ (pc' = "move" <=> cmd.op = "restore")
    BY <1>2, <2>3 DEF StartRun, Begin
  <2>5. cmd.op \in {"scan", "split", "restore"} /\ cmd.settings \in Nat /\ cmd # Idle
    BY <2>1 DEF Command, Idle
  <2>6. cmd.op # "scan" =>
          /\ Len(history') > 0
          /\ history'[Len(history')].kind = cmd.kind /\ history'[Len(history')].op = cmd.op
          /\ history'[Len(history')].events = <<>>
    <3> SUFFICES ASSUME cmd.op # "scan" PROVE <2>6
      OBVIOUS
    <3>1. history \in Seq(RunType) /\ history' = Append(history, [kind |-> cmd.kind, op |-> cmd.op, events |-> <<>>])
      BY <1>2, <2>1 DEF StartRun, ViewTypes
    <3> QED
      BY <3>1
  <2>7. job' # NoJob
    BY <2>3, <2>5 DEF NoJob
  <2>8. job'.cmd.op = "scan" <=> job'.cmd.kind = "none" /\ job' # NoJob
    BY <2>1, <2>3, <2>7
  <2>9. Scans' => job'.cmd.settings > 0
    BY <2>1, <2>3, <2>5
  <2>10. Splitting' \/ Restoring' =>
           /\ job'.run = Len(history') /\ job'.run > 0
           /\ history'[job'.run].kind = job'.cmd.kind /\ history'[job'.run].op = job'.cmd.op
           /\ history'[job'.run].events = <<>>
    BY <2>3, <2>6
  <2>11. pc' = "open" => Scans'
    BY <2>3, <2>4, <2>5
  <2> QED
    BY <2>1, <2>3, <2>4, <2>7, <2>8, <2>9, <2>10, <2>11 DEF Phases
<1>3. CASE Resume
  <2>1. /\ job # NoJob /\ UNCHANGED <<job, history>>
        /\ pc' = IF job.cmd.op = "restore" \/ job.complete THEN "move" ELSE "open"
        /\ pc = "down"
    BY <1>3 DEF Resume, Begin
  <2>2. job.cmd.op \in {"scan", "split", "restore"}
    BY <2>1 DEF Phases, Command
  <2> QED
    BY <1>1, <2>1, <2>2 DEF Phases
<1>4. CASE ScanOpen
  <2>2. Started > 0
    BY DEF Started, ViewTypes
  <2>3. /\ job'.cmd = job.cmd /\ job'.run = job.run /\ job'.started = Started
        /\ \/ job'.rows = job.rows /\ job'.visited = job.visited /\ job'.notes = job.notes /\ job'.complete = job.complete
           \/ job'.rows = <<>> /\ job'.visited = {} /\ job'.notes = {} /\ ~job'.complete
    BY <1>4, Opened
  <2>4. pc = "open" /\ pc' = "scan" /\ UNCHANGED history
    BY <1>4 DEF ScanOpen
  <2>5. Scans /\ ~job.complete /\ job # NoJob /\ job' # NoJob
    BY <2>2, <2>3, <2>4 DEF Phases, NoJob
  <2> QED
    BY <2>2, <2>3, <2>4, <2>5, NoRows DEF Phases
<1>5. ASSUME NEW p \in Path, Visit(p) PROVE Phases'
  <2>1. /\ job'.cmd = job.cmd /\ job'.run = job.run /\ job'.started = job.started /\ job'.complete = job.complete
        /\ job'.visited = job.visited \cup {p}
        /\ job'.notes = job.notes \cup {d \in {p} \X Names : note[d] # "none" /\ d \notin skip}
        /\ \/ job'.rows = job.rows
           \/ \E row : job'.rows = WithRow(job.rows, p, row)
        /\ pc = "scan" /\ pc' = "scan" /\ UNCHANGED history
    BY <1>5 DEF Visit, ViewTypes
  <2>2. DOMAIN job'.rows \subseteq job'.visited /\ \A d \in job'.notes : d[1] \in job'.visited
    BY <2>1 DEF Phases, WithRow
  <2>3. Scans /\ ~job.complete /\ job # NoJob /\ job' # NoJob /\ job.started > 0
    BY <2>1 DEF Phases, NoJob
  <2> QED
    BY <2>1, <2>2, <2>3 DEF Phases
<1>6. CASE Place
  <2>1. /\ pc = "scan" /\ pc' = "stamp" /\ job.visited = Path
        /\ registry' = [rows |-> job.rows, notes |-> job.notes]
        /\ UNCHANGED <<job, history>>
    BY <1>6 DEF Place
  <2> QED
    BY <2>1 DEF Phases
<1>7. CASE Stamp
  <2>1. /\ pc = "stamp" /\ pc' = IF job.cmd.op = "scan" THEN "done" ELSE "move"
        /\ job' = [job EXCEPT !.complete = TRUE, !.notes = {}, !.id = NoRegistry]
        /\ UNCHANGED history
    BY <1>7 DEF Stamp
  <2>2. /\ job'.cmd = job.cmd /\ job'.run = job.run /\ job'.started = job.started /\ job'.complete
        /\ job'.visited = job.visited /\ job'.rows = job.rows /\ job'.notes = {}
    BY <2>1 DEF ViewTypes
  <2>3. Scans /\ job # NoJob /\ job' # NoJob
    BY <2>1, <2>2 DEF Phases, NoJob
  <2> QED
    BY <2>1, <2>2, <2>3 DEF Phases
<1>8. ASSUME NEW p \in Path, NEW status \in Status, NEW n \in 0..2, Log(p, status, n), UNCHANGED <<job, pc>>, pc = "move"
      PROVE  Phases'
  <2>1. Restoring \/ (Splitting /\ job.complete)
    BY <1>8 DEF Phases
  <2>2. job.run = Len(history) /\ job.run \in DOMAIN history
    <3>1. job.run = Len(history) /\ job.run > 0
      BY <2>1 DEF Phases
    <3>2. history \in Seq(RunType)
      BY DEF ViewTypes
    <3> QED
      BY <3>1, <3>2
  <2>3. /\ Len(history') = Len(history)
        /\ history'[job.run].kind = history[job.run].kind /\ history'[job.run].op = history[job.run].op
    BY <1>8, <2>2, Logged
  <2> QED
    BY <1>8, <2>1, <2>3 DEF Phases
<1>9. ASSUME NEW p \in Path, MoveOut(p) PROVE Phases'
  <2>1. Name(p) \in 0..2 /\ "moved" \in Status
    <3>1. Name(p) \in {1, 2}
      BY NameIs DEF Names
    <3> QED
      BY <3>1 DEF Status
  <2> QED
    BY <1>8, <1>9, <2>1 DEF MoveOut, MayMoveOut
<1>10. ASSUME NEW p \in Path, Refuse(p) PROVE Phases'
  BY <1>1, <1>10 DEF Refuse, MayMoveOut, Phases
<1>11. ASSUME NEW p \in Path, Abort(p) PROVE Phases'
  <2>1. PICK status \in {"conflict", "skipped"} : Log(p, status, 0)
    BY <1>11 DEF Abort
  <2>2. status \in Status /\ 0 \in 0..2
    BY DEF Status
  <2> QED
    BY <1>8, <1>11, <2>1, <2>2 DEF Abort, MayMoveOut
<1>12. ASSUME NEW p \in Path, RestoreOne(p) PROVE Phases'
  <2>1. CASE UNCHANGED history
    BY <1>1, <1>12, <2>1 DEF RestoreOne, Phases
  <2>2. CASE ~UNCHANGED history
    <3> DEFINE n == IF \E m \in Names : note[<<p, m>>] = "owned" THEN Name(p) ELSE 0
    <3>1. n \in 0..2 /\ "restored" \in Status
      <4>1. Name(p) \in {1, 2}
        BY NameIs DEF Names
      <4> QED
        BY <4>1 DEF Status
    <3>2. Log(p, "restored", n) /\ UNCHANGED <<job, pc>> /\ pc = "move"
      BY <1>12, <2>2 DEF RestoreOne
    <3> HIDE DEF n
    <3> QED
      BY <1>8, <3>1, <3>2
  <2> QED
    BY <2>1, <2>2
<1>13. CASE Executed
  BY <1>1, <1>13 DEF Executed, Phases
<1>14. CASE ReportArchive \/ ReportMirror
  BY <1>1, <1>14 DEF ReportArchive, ReportMirror, Phases
<1>15. CASE LocateSplit \/ LocateRestored
  BY <1>1, <1>15 DEF LocateSplit, LocateRestored, Phases
<1>16. CASE Restamp \/ Settle
  BY <1>1, <1>16 DEF Restamp, Settle, Phases
<1>17. CASE Finish
  <2>1. job' = NoJob /\ pc' = "down"
    BY <1>17 DEF Finish
  <2>2. /\ job'.cmd.op = "none" /\ ~job'.complete /\ job'.visited = {} /\ job'.rows = <<>> /\ job'.notes = {}
    BY <2>1 DEF NoJob, Idle
  <2> QED
    BY <2>1, <2>2, NoRows DEF Phases
<1>18. CASE Tick \/ Mount
  BY <1>1, <1>18 DEF Tick, Mount, Phases
<1>19. CASE Crash
  BY <1>1, <1>19 DEF Crash, Phases
<1>20. CASE Operator
  BY <1>1, <1>20 DEF Operator, Phases
<1> QED
  BY <1>2, <1>3, <1>4, <1>5, <1>6, <1>7, <1>9, <1>10, <1>11, <1>12, <1>13, <1>14, <1>15, <1>16, <1>17, <1>18,
     <1>19, <1>20 DEF ViewNext
-----------------------------------------------------------------------------
(* What the logs say is true.                                              *)
EventTrue(run, e) ==
  /\ KindOf[e.path] = run.kind
  /\ run.op = "restore" <=> e.status = "restored"
  /\ e.status = "moved" => e.note # 0
EventsTrue == \A i \in DOMAIN history : \A j \in DOMAIN history[i].events : EventTrue(history[i], history[i].events[j])
LogsTrue ==
  /\ EventsTrue
  /\ \A p \in Path : InMirror(p) <=> Moves(KindOf[p], p) # {} /\ Returns(KindOf[p], p) = {}
  /\ \A d \in Notes : note[d] = "owned" => Records(d) # {}
  /\ Splitting => \A p \in Committed : InMirror(p)

LEMMA TruthfulIs ==
  Truthful <=>
    /\ LogsTrue
    /\ \A p \in Path : (file[p].data = 0 => file[p] = NoFile) /\ (mirror[p].data = 0 => mirror[p] = NoFile)
    /\ \A p \in Path : note[<<p, 2>>] # "operator"
BY DEF Truthful, LogsTrue, EventsTrue, EventTrue

LEMMA CommittedAre ==
  ASSUME NEW p
  PROVE  p \in Committed <=> \E j \in DOMAIN history[job.run].events :
                               /\ history[job.run].events[j].path = p
                               /\ history[job.run].events[j].status \in {"moved", "restored"}
BY DEF Committed, Range

LEMMA LoggedCommitted ==
  ASSUME ViewTypes, job.run \in DOMAIN history, UNCHANGED job,
         NEW p \in Path, NEW status \in Status, NEW n \in 0..2, Log(p, status, n), NEW q
  PROVE  q \in Committed' <=> q \in Committed \/ (q = p /\ status \in {"moved", "restored"})
<1> DEFINE run == history[job.run]
<1>1. q \in PathsWith(history'[job.run], run.op, {"moved", "restored"}) <=>
        \/ q \in PathsWith(run, run.op, {"moved", "restored"})
        \/ q = p /\ status \in {"moved", "restored"}
  BY LoggedPaths
<1>2. q \in Committed <=> q \in PathsWith(run, run.op, {"moved", "restored"})
  BY CommittedAre, PathsAre
<1>3. history'[job.run].op = run.op
  BY Logged
<1>4. q \in Committed' <=> \E j \in DOMAIN history'[job.run].events :
                             /\ history'[job.run].events[j].path = q
                             /\ history'[job.run].events[j].status \in {"moved", "restored"}
  BY DEF Committed, Range
<1>5. q \in Committed' <=> q \in PathsWith(history'[job.run], run.op, {"moved", "restored"})
  BY <1>3, <1>4, PathsAre
<1> QED
  BY <1>1, <1>2, <1>5

LEMMA LoggedTrue ==
  ASSUME ViewTypes, EventsTrue, job.run \in DOMAIN history,
         NEW p \in Path, NEW status \in Status, NEW n \in 0..2, Log(p, status, n),
         EventTrue(history[job.run], LoggedEvent(p, status, n))
  PROVE  EventsTrue'
<1> DEFINE run == history[job.run]
           e == LoggedEvent(p, status, n)
<1>1. /\ DOMAIN history' = DOMAIN history
      /\ \A i \in DOMAIN history : i # job.run => history'[i] = history[i]
      /\ history'[job.run].kind = run.kind /\ history'[job.run].op = run.op
      /\ history'[job.run].events = Append(run.events, e)
  BY Logged
<1>2. run.events \in Seq(EventType)
  <2>1. run \in RunType
    BY DEF ViewTypes
  <2> QED
    BY <2>1 DEF RunType
<1> HIDE DEF e
<1>3. \A j \in DOMAIN history'[job.run].events :
        history'[job.run].events[j] = e \/ (j \in DOMAIN run.events /\ history'[job.run].events[j] = run.events[j])
  BY <1>1, <1>2
<1>4. \A j \in DOMAIN history'[job.run].events : EventTrue(history'[job.run], history'[job.run].events[j])
  <2>1. \A x : EventTrue(history'[job.run], x) <=> EventTrue(run, x)
    BY <1>1 DEF EventTrue
  <2> QED
    BY <1>3, <2>1 DEF EventsTrue, e
<1>5. \A i \in DOMAIN history' : \A j \in DOMAIN history'[i].events : EventTrue(history'[i], history'[i].events[j])
  BY <1>1, <1>4 DEF EventsTrue
<1> QED
  BY <1>5 DEF EventsTrue, EventTrue

(* Nothing is moved or returned and no description is recorded.            *)
NoNews == (\A p \in Path : SameMoves(p)) /\ (\A d \in Notes : SameRecords(d))
Unlogged ==
  /\ NoNews /\ UNCHANGED mirror
  /\ \A p \in Path : file'[p] = file[p] \/ file'[p].data # 0 \/ file'[p] = NoFile
  /\ \A d \in Notes : note'[d] = note[d] \/ (note'[d] = "operator" /\ d[2] = 1)

LEMMA TruthfulKept ==
  ASSUME ViewTypes, Truthful, Unlogged, EventsTrue', Splitting' => \A p \in Committed' : InMirror(p)
  PROVE  Truthful'
<1>1. \A p \in Path : InMirror(p)' <=> Moves(KindOf[p], p)' # {} /\ Returns(KindOf[p], p)' = {}
  <2>1. \A p \in Path : KindOf[p] \in Kinds
    BY FieldTypes
  <2> QED
    BY <2>1 DEF Unlogged, NoNews, SameMoves, Truthful, InMirror
<1>2. \A d \in Notes : note'[d] = "owned" => Records(d)' # {}
  BY DEF Unlogged, NoNews, SameRecords, Truthful
<1>3. \A p \in Path : (file'[p].data = 0 => file'[p] = NoFile) /\ (mirror'[p].data = 0 => mirror'[p] = NoFile)
  BY DEF Unlogged, Truthful
<1>4. \A p \in Path : note'[<<p, 2>>] # "operator"
  <2> SUFFICES ASSUME NEW p \in Path PROVE note'[<<p, 2>>] # "operator"
    OBVIOUS
  <2> DEFINE d == <<p, 2>>
  <2>1. d \in Notes /\ d[2] # 1
    BY DEF Notes, Names
  <2>2. note[d] # "operator"
    BY DEF Truthful
  <2> HIDE DEF d
  <2>3. note'[d] # "operator"
    BY <2>1, <2>2 DEF Unlogged
  <2> QED
    BY <2>3 DEF d
<1>5. (Splitting => \A p \in Committed : InMirror(p))'
  BY DEF Unlogged, InMirror
<1> QED
  BY <1>1, <1>2, <1>3, <1>4, <1>5 DEF Truthful, EventsTrue, EventTrue

(* What a split or restore run may do.                                     *)
LEMMA Working ==
  ASSUME ViewTypes, Phases, pc = "move"
  PROVE  /\ job.run = Len(history) /\ job.run \in DOMAIN history /\ job.run \in Nat
         /\ history[job.run].kind = job.cmd.kind /\ history[job.run].op = job.cmd.op
         /\ \A p \in Candidates : p \in Path /\ KindOf[p] = job.cmd.kind
         /\ Splitting => job.complete
<1>1. Restoring \/ (Splitting /\ job.complete)
  BY DEF Phases
<1>2. /\ job.run = Len(history) /\ job.run > 0
      /\ history[job.run].kind = job.cmd.kind /\ history[job.run].op = job.cmd.op
  BY <1>1 DEF Phases
<1>3. history \in Seq(RunType)
  BY DEF ViewTypes
<1>4. DOMAIN job.rows \subseteq Path
  BY FieldTypes, RowsAre
<1>5. \A p \in Candidates : p \in Path /\ KindOf[p] = job.cmd.kind
  BY <1>4 DEF Candidates
<1>6. Splitting => job.complete
  BY <1>1 DEF Splitting, Restoring
<1> QED
  BY <1>2, <1>3, <1>5, <1>6

LEMMA CommittedPaths ==
  ASSUME ViewTypes, Phases, Splitting
  PROVE  \A q \in Committed : q \in Path
<1> SUFFICES ASSUME NEW q \in Committed PROVE q \in Path
  OBVIOUS
<1>1. PICK j \in DOMAIN history[job.run].events : history[job.run].events[j].path = q
  BY CommittedAre
<1>2. job.run \in DOMAIN history
  BY DEF Phases, ViewTypes
<1>3. history[job.run] \in RunType
  BY <1>2 DEF ViewTypes
<1>4. history[job.run].events \in Seq(EventType)
  BY <1>3 DEF RunType
<1>5. history[job.run].events[j] \in EventType
  BY <1>4
<1> QED
  BY <1>1, <1>5 DEF EventType

(* The three kinds of steps that write an event.                           *)
MovedOut(p, n) ==
  /\ n = Name(p) /\ n \in Names /\ <<p, n>> \in Notes
  /\ \A q \in Path : q # p => SameMoves(q)
  /\ \A d \in Notes : d # <<p, n>> => SameRecords(d)
  /\ Moves(KindOf[p], p)' # {} /\ Returns(KindOf[p], p)' = {} /\ p \notin DOMAIN Restored'
  /\ Records(<<p, n>>)' # {} /\ LastRecord(<<p, n>>)'.status = "moved"
  /\ EventsTrue'
  /\ \A q : q \in Committed' <=> q \in Committed \/ q = p

LEMMA MoveOutNews ==
  ASSUME ViewTypes, Phases, Truthful, NEW p \in Path, MoveOut(p)
  PROVE  \E n \in Names : MovedOut(p, n)
<1>0. PICK n \in Names : n = Name(p) /\ <<p, n>> \in Notes
  BY NameIs
<1>1. /\ Log(p, "moved", n) /\ UNCHANGED job /\ pc = "move" /\ job.cmd.op = "split" /\ p \in Candidates
  BY <1>0 DEF MoveOut, MayMoveOut
<1>2. /\ job.run = Len(history) /\ job.run \in DOMAIN history /\ history[job.run].kind = KindOf[p]
      /\ history[job.run].op = "split"
  BY <1>1, Working
<1>3. n \in 0..2 /\ n # 0 /\ "moved" \in Status
  BY DEF Names, Status
<1>4. \A q \in Path : q # p => SameMoves(q)
  BY <1>1, <1>2, <1>3, OtherMoves
<1>5. /\ \A d \in Notes : d # <<p, n>> => SameRecords(d)
      /\ Records(<<p, n>>)' # {} /\ LastRecord(<<p, n>>)' = LoggedEvent(p, "moved", n)
  BY <1>1, <1>2, <1>3, LoggedRecords
<1>6. Moves(KindOf[p], p)' # {} /\ Returns(KindOf[p], p)' = {} /\ p \notin DOMAIN Restored'
  BY <1>1, <1>2, <1>3, MovedEvent
<1>7. EventsTrue'
  <2>1. EventsTrue /\ EventTrue(history[job.run], LoggedEvent(p, "moved", n))
    BY <1>2, <1>3, TruthfulIs DEF LogsTrue, EventTrue, LoggedEvent
  <2> QED
    BY <1>1, <1>2, <1>3, <2>1, LoggedTrue
<1>8. \A q : q \in Committed' <=> q \in Committed \/ q = p
  BY <1>1, <1>2, <1>3, LoggedCommitted
<1> QED
  BY <1>0, <1>4, <1>5, <1>6, <1>7, <1>8 DEF MovedOut, LoggedEvent

LEMMA AbortNews ==
  ASSUME ViewTypes, Phases, Truthful, NEW p \in Path, Abort(p)
  PROVE  /\ NoNews /\ EventsTrue'
         /\ \A q : q \in Committed' <=> q \in Committed
<1>1. UNCHANGED job /\ pc = "move" /\ job.cmd.op = "split" /\ p \in Candidates
  BY DEF Abort, MayMoveOut
<1>2. PICK status \in {"conflict", "skipped"} : Log(p, status, 0)
  BY DEF Abort
<1>3. /\ job.run = Len(history) /\ job.run \in DOMAIN history /\ history[job.run].kind = KindOf[p]
      /\ history[job.run].op = "split"
  BY <1>1, Working
<1>4. status \in Status /\ 0 \in 0..2 /\ status \notin {"moved", "restored"}
  BY DEF Status
<1>5. NoNews
  BY <1>2, <1>3, AbortedEvent DEF NoNews
<1>6. EventsTrue'
  <2>1. EventsTrue /\ EventTrue(history[job.run], LoggedEvent(p, status, 0))
    BY <1>3, <1>4, TruthfulIs DEF LogsTrue, EventTrue, LoggedEvent
  <2> QED
    BY <1>2, <1>3, <1>4, <2>1, LoggedTrue
<1>7. \A q : q \in Committed' <=> q \in Committed
  BY <1>1, <1>2, <1>3, <1>4, LoggedCommitted
<1> QED
  BY <1>5, <1>6, <1>7

(* A file of the mirror is returned, under the name its description has.   *)
ReturnedName(p) == IF \E m \in Names : note[<<p, m>>] = "owned" THEN Name(p) ELSE 0
Returned(p, n) ==
  /\ n = ReturnedName(p) /\ n \in 0..2 /\ (n # 0 => n \in Names /\ <<p, n>> \in Notes)
  /\ InMirror(p)
  /\ \A q \in Path : q # p => SameMoves(q)
  /\ \A d \in Notes : d # <<p, n>> => SameRecords(d)
  /\ Moves(KindOf[p], p)' # {} /\ Returns(KindOf[p], p)' # {}
  /\ p \in DOMAIN Restored' /\ Restored'[p] = clock
  /\ n # 0 =>
       Records(<<p, n>>)' # {} /\ LastRecord(<<p, n>>)'.status = "restored"
  /\ EventsTrue'
  /\ file' = [file EXCEPT ![p] = IF @ = NoFile THEN mirror[p] ELSE @]
  /\ mirror' = [mirror EXCEPT ![p] = NoFile]
  /\ note' = IF n = 0 \/ job.cmd.keep THEN note ELSE [note EXCEPT ![<<p, n>>] = "none"]

LEMMA RestoreNews ==
  ASSUME ViewTypes, Phases, Truthful, NEW p \in Path, RestoreOne(p)
  PROVE  (\E n \in 0..2 : Returned(p, n)) \/ UNCHANGED <<file, mirror, note, history>>
<1>1. UNCHANGED job /\ pc = "move" /\ job.cmd.op = "restore" /\ p \in Candidates /\ InMirror(p)
  BY DEF RestoreOne, Candidates, InMirror
<1>2. SUFFICES ASSUME file[p] = NoFile \/ file[p].data = mirror[p].data
               PROVE  \E n \in 0..2 : Returned(p, n)
  BY DEF RestoreOne
<1>3. /\ job.run = Len(history) /\ job.run \in DOMAIN history /\ history[job.run].kind = KindOf[p]
      /\ history[job.run].op = "restore"
  BY <1>1, Working
<1>5. PICK n \in 0..2 : n = ReturnedName(p) /\ (n # 0 => n \in Names /\ <<p, n>> \in Notes)
  <2>1. Name(p) \in {1, 2} /\ Name(p) \in Names /\ <<p, Name(p)>> \in Notes
    BY NameIs DEF Names
  <2> QED
    BY <2>1 DEF ReturnedName
<1>4. /\ file' = [file EXCEPT ![p] = IF @ = NoFile THEN mirror[p] ELSE @]
      /\ mirror' = [mirror EXCEPT ![p] = NoFile]
      /\ note' = IF n = 0 \/ job.cmd.keep THEN note ELSE [note EXCEPT ![<<p, n>>] = "none"]
      /\ Log(p, "restored", n)
  BY <1>2, <1>5 DEF RestoreOne, ReturnedName
<1>10. "restored" \in Status
  BY DEF Status
<1>6. \A q \in Path : q # p => SameMoves(q)
  BY <1>3, <1>4, <1>5, <1>10, OtherMoves
<1>7. /\ \A d \in Notes : d # <<p, n>> => SameRecords(d)
      /\ n # 0 => Records(<<p, n>>)' # {} /\ LastRecord(<<p, n>>)' = LoggedEvent(p, "restored", n)
  BY <1>3, <1>4, <1>5, <1>10, LoggedRecords
<1>8. /\ Moves(KindOf[p], p)' # {} /\ Returns(KindOf[p], p)' # {}
      /\ p \in DOMAIN Restored' /\ Restored'[p] = clock
  BY <1>1, <1>3, <1>4, <1>5, <1>10, RestoredEvent
<1>9. EventsTrue'
  <2>1. EventsTrue /\ EventTrue(history[job.run], LoggedEvent(p, "restored", n))
    BY <1>3, TruthfulIs DEF LogsTrue, EventTrue, LoggedEvent
  <2> QED
    BY <1>3, <1>4, <1>5, <1>10, <2>1, LoggedTrue
<1>11. n # 0 => LastRecord(<<p, n>>)'.status = "restored"
  BY <1>7 DEF LoggedEvent
<1>12. Returned(p, n)
  BY <1>1, <1>4, <1>5, <1>6, <1>7, <1>8, <1>9, <1>11 DEF Returned
<1> QED
  BY <1>12

(* Steps that leave the logs, and a new run, whose log is empty.           *)
LEMMA SameNews ==
  ASSUME UNCHANGED history
  PROVE  NoNews /\ (Truthful => EventsTrue')
BY SamePast, TruthfulIs DEF NoNews, LogsTrue, EventsTrue, EventTrue

LEMMA StartNews ==
  ASSUME ViewTypes, Truthful, NEW cmd, StartRun(cmd)
  PROVE  /\ NoNews /\ EventsTrue'
         /\ cmd.op # "scan" => Committed' = {}
<1>1. cmd \in Command /\ (cmd.op = "scan" <=> cmd.kind = "none")
  BY OfferedCommand
<1>2. CASE cmd.kind = "none"
  BY <1>1, <1>2, SameNews DEF StartRun
<1>3. CASE cmd.kind # "none"
  <2> DEFINE run == [kind |-> cmd.kind, op |-> cmd.op, events |-> <<>>]
  <2>1. run \in RunType
    BY <1>1, <1>3 DEF Command, RunType, Kinds
  <2>2. history' = Append(history, run) /\ run.events = <<>> /\ DOMAIN run.events = {}
    BY <1>3 DEF StartRun
  <2> HIDE DEF run
  <2>3. NoNews
    BY <2>1, <2>2, NewRun DEF NoNews
  <2>4. /\ Len(history) \in Nat /\ DOMAIN history' = 1..(Len(history) + 1) /\ Len(history') = Len(history) + 1
        /\ \A i \in DOMAIN history : history'[i] = history[i]
        /\ history'[Len(history) + 1] = run
        /\ \A i \in DOMAIN history' : i \in DOMAIN history \/ i = Len(history) + 1
    BY <2>1, <2>2 DEF ViewTypes
  <2>5. EventsTrue'
    <3>1. EventsTrue
      BY TruthfulIs DEF LogsTrue
    <3>2. \A i \in DOMAIN history' : \A j \in DOMAIN history'[i].events : EventTrue(history'[i], history'[i].events[j])
      BY <2>2, <2>4, <3>1 DEF EventsTrue
    <3> QED
      BY <3>2 DEF EventsTrue, EventTrue
  <2>6. Committed' = {}
    <3>1. job'.run = Len(history')
      BY DEF StartRun, NoJob
    <3>2. history'[job'.run].events = <<>>
      BY <2>2, <2>4, <3>1
    <3> QED
      BY <3>2 DEF Committed, Range
  <2> QED
    BY <2>3, <2>5, <2>6
<1> QED
  BY <1>2, <1>3

LEMMA TruthfulNext ==
  ASSUME ViewTypes, Phases, Truthful, ViewNext
  PROVE  Truthful'
<1> USE DEF Goto, files, outputs, memory, Splitting
<1>1. ASSUME UNCHANGED <<file, mirror, note, history>>,
             job'.run = job.run, Splitting' => Splitting
      PROVE  Truthful'
  <2>1. Unlogged
    BY <1>1, SameNews DEF Unlogged
  <2>2. EventsTrue'
    BY <1>1, SameNews
  <2>3. Committed' = Committed
    BY <1>1 DEF Committed
  <2> HIDE DEF Splitting
  <2> QED
    BY <1>1, <2>1, <2>2, <2>3, TruthfulKept DEF Truthful, InMirror
<1>2. ASSUME NEW cmd, StartRun(cmd) PROVE Truthful'
  <2>1. Unlogged /\ EventsTrue'
    BY <1>2, StartNews DEF Unlogged, StartRun
  <2>2. job'.cmd = cmd
    BY <1>2 DEF StartRun, NoJob
  <2>3. Splitting' => Committed' = {}
    BY <1>2, <2>2, StartNews
  <2> QED
    BY <2>1, <2>3, TruthfulKept
<1>3. CASE Resume
  BY <1>1, <1>3 DEF Resume, Begin
<1>4. CASE ScanOpen
  <2>1. job'.cmd = job.cmd /\ job'.run = job.run
    BY <1>4, Opened
  <2> QED
    BY <1>1, <1>4, <2>1 DEF ScanOpen
<1>5. ASSUME NEW p \in Path, Visit(p) PROVE Truthful'
  <2>1. job'.cmd = job.cmd /\ job'.run = job.run
    BY <1>5 DEF Visit, ViewTypes
  <2> QED
    BY <1>1, <1>5, <2>1 DEF Visit
<1>6. CASE Place \/ Executed \/ ReportArchive \/ ReportMirror \/ LocateSplit \/ LocateRestored \/ Restamp \/ Settle
           \/ Tick \/ Crash \/ Mount
  BY <1>1, <1>6 DEF Place, Executed, ReportArchive, ReportMirror, LocateSplit, LocateRestored, Restamp, Settle,
                    Tick, Crash, Mount
<1>7. CASE Stamp
  <2>1. job'.cmd = job.cmd /\ job'.run = job.run
    BY <1>7 DEF Stamp, ViewTypes
  <2> QED
    BY <1>1, <1>7, <2>1 DEF Stamp
<1>8. ASSUME NEW p \in Path, MoveOut(p) PROVE Truthful'
  <2>1. PICK n \in Names : MovedOut(p, n)
    BY <1>8, MoveOutNews
  <2>2. /\ file[p] # NoFile /\ UNCHANGED job
        /\ mirror' = [mirror EXCEPT ![p] = IF @ = NoFile THEN file[p] ELSE @]
        /\ file' = [file EXCEPT ![p] = NoFile]
        /\ note' = [note EXCEPT ![<<p, n>>] = "owned"]
    BY <1>8, <2>1 DEF MoveOut, MayMoveOut, MovedOut
  <2>3. /\ mirror'[p] # NoFile /\ \A q \in Path : q # p => mirror'[q] = mirror[q]
        /\ \A q \in Path : file'[q] = file[q] \/ file'[q] = NoFile
        /\ mirror'[p].data = 0 => mirror'[p] = NoFile
    BY <2>2 DEF ViewTypes, Truthful
  <2>4. /\ \A q \in Path : InMirror(q)' <=> InMirror(q) \/ q = p
        /\ \A q \in Path : (file'[q].data = 0 => file'[q] = NoFile) /\ (mirror'[q].data = 0 => mirror'[q] = NoFile)
    BY <2>3 DEF InMirror, Truthful
  <2>5. \A q \in Path : InMirror(q)' <=> Moves(KindOf[q], q)' # {} /\ Returns(KindOf[q], q)' = {}
    <3>1. \A q \in Path : q # p => Moves(KindOf[q], q)' = Moves(KindOf[q], q) /\ Returns(KindOf[q], q)' = Returns(KindOf[q], q)
      BY <2>1, FieldTypes DEF MovedOut, SameMoves
    <3> QED
      BY <2>1, <2>4, <3>1 DEF MovedOut, Truthful
  <2>6. \A d \in Notes : note'[d] = "owned" => Records(d)' # {}
    <3>1. \A d \in Notes : d # <<p, n>> => note'[d] = note[d] /\ Records(d)' = Records(d)
      BY <2>1, <2>2 DEF MovedOut, SameRecords, ViewTypes
    <3> QED
      BY <2>1, <3>1 DEF MovedOut, Truthful
  <2>7. \A q \in Path : note'[<<q, 2>>] # "operator"
    <3>1. \A d \in Notes : note'[d] = note[d] \/ note'[d] = "owned"
      BY <2>2 DEF ViewTypes
    <3>2. \A q \in Path : <<q, 2>> \in Notes
      BY DEF Notes, Names
    <3> QED
      BY <3>1, <3>2 DEF Truthful
  <2>8. Splitting => \A q \in Committed' : InMirror(q)'
    <3>1. Splitting => \A q \in Committed : q \in Path
      BY CommittedPaths
    <3> QED
      BY <2>1, <2>4, <3>1 DEF MovedOut, Truthful
  <2>9. EventsTrue' /\ (Splitting' <=> Splitting)
    BY <2>1, <2>2 DEF MovedOut
  <2> QED
    BY <2>4, <2>5, <2>6, <2>7, <2>8, <2>9 DEF Truthful, EventsTrue, EventTrue
<1>9. ASSUME NEW p \in Path, Refuse(p) PROVE Truthful'
  BY <1>1, <1>9 DEF Refuse
<1>10. ASSUME NEW p \in Path, Abort(p) PROVE Truthful'
  <2>1. NoNews /\ EventsTrue' /\ \A q : q \in Committed' <=> q \in Committed
    BY <1>10, AbortNews
  <2>2. UNCHANGED <<file, mirror, note, job>>
    BY <1>10 DEF Abort
  <2>3. Unlogged
    BY <2>1, <2>2 DEF Unlogged
  <2> QED
    BY <2>1, <2>2, <2>3, TruthfulKept DEF Truthful, InMirror
<1>11. ASSUME NEW p \in Path, RestoreOne(p) PROVE Truthful'
  <2>1. UNCHANGED job /\ pc = "move" /\ job.cmd.op = "restore"
    BY <1>11 DEF RestoreOne
  <2>2. CASE UNCHANGED <<file, mirror, note, history>>
    BY <1>1, <2>1, <2>2
  <2>3. ASSUME NEW n \in 0..2, Returned(p, n) PROVE Truthful'
    <3>1. /\ file' = [file EXCEPT ![p] = IF @ = NoFile THEN mirror[p] ELSE @]
          /\ mirror' = [mirror EXCEPT ![p] = NoFile]
          /\ note' = note \/ (n # 0 /\ note' = [note EXCEPT ![<<p, n>>] = "none"])
      BY <2>3 DEF Returned
    <3>2. /\ \A q \in Path : InMirror(q)' <=> InMirror(q) /\ q # p
          /\ \A q \in Path : (file'[q].data = 0 => file'[q] = NoFile) /\ (mirror'[q].data = 0 => mirror'[q] = NoFile)
      BY <3>1 DEF InMirror, Truthful, ViewTypes
    <3>3. \A q \in Path : InMirror(q)' <=> Moves(KindOf[q], q)' # {} /\ Returns(KindOf[q], q)' = {}
      <4>1. \A q \in Path : q # p => Moves(KindOf[q], q)' = Moves(KindOf[q], q) /\ Returns(KindOf[q], q)' = Returns(KindOf[q], q)
        BY <2>3, FieldTypes DEF Returned, SameMoves
      <4> QED
        BY <2>3, <3>2, <4>1 DEF Returned, Truthful
    <3>4. \A d \in Notes : note'[d] = note[d] \/ note'[d] = "none"
      BY <3>1 DEF ViewTypes
    <3>5. \A d \in Notes : note'[d] = "owned" => Records(d)' # {}
      <4> SUFFICES ASSUME NEW d \in Notes, note'[d] = "owned" PROVE Records(d)' # {}
        OBVIOUS
      <4>1. Records(d) # {}
        BY <3>4 DEF Truthful
      <4>2. CASE d # <<p, n>>
        BY <2>3, <4>1, <4>2 DEF Returned, SameRecords
      <4>3. CASE d = <<p, n>>
        <5>1. n # 0
          BY <4>3 DEF Notes, Names
        <5> QED
          BY <2>3, <4>3, <5>1 DEF Returned
      <4> QED
        BY <4>2, <4>3
    <3>6. \A q \in Path : note'[<<q, 2>>] # "operator"
      <4>1. \A q \in Path : <<q, 2>> \in Notes
        BY DEF Notes, Names
      <4> QED
        BY <3>4, <4>1 DEF Truthful
    <3>7. EventsTrue' /\ ~Splitting'
      BY <2>1, <2>3 DEF Returned
    <3> QED
      BY <3>2, <3>3, <3>5, <3>6, <3>7 DEF Truthful, EventsTrue, EventTrue
  <2> QED
    BY <1>11, <2>2, <2>3, RestoreNews
<1>12. CASE Finish
  <2>1. UNCHANGED <<file, mirror, note, history>> /\ job' = NoJob
    BY <1>12 DEF Finish
  <2>2. Unlogged /\ EventsTrue' /\ ~Splitting'
    BY <2>1, SameNews DEF Unlogged, NoJob, Idle
  <2> QED
    BY <2>2, TruthfulKept
<1>13. CASE Operator
  <2>1. UNCHANGED <<mirror, history, job>>
    BY <1>13 DEF Operator, Edit, Delete, EditRegistry, OwnNote, DeleteRegistry, DeleteCopy
  <2>2. /\ \/ UNCHANGED file
           \/ \E p \in Path : file' = [file EXCEPT ![p] = Newer]
           \/ \E p \in Path : file' = [file EXCEPT ![p] = NoFile]
        /\ \/ UNCHANGED note
           \/ \E p \in Path : note' = [note EXCEPT ![<<p, 1>>] = "operator"]
    BY <1>13 DEF Operator, Edit, Delete, EditRegistry, OwnNote, DeleteRegistry, DeleteCopy
  <2>3. Newer.data # 0
    <3>1. budget.changes \in 0..MaxChanges /\ MaxChanges \in Nat
      BY ViewBoundsAssumption DEF ViewTypes
    <3>2. 1 + MaxChanges - budget.changes + 1 # 0
      BY <3>1
    <3> QED
      BY <3>2 DEF Newer
  <2>4. \A p \in Path : file'[p] = file[p] \/ file'[p].data # 0 \/ file'[p] = NoFile
    BY <2>2, <2>3 DEF ViewTypes
  <2>5. \A d \in Notes : note'[d] = note[d] \/ (note'[d] = "operator" /\ d[2] = 1)
    <3>1. ASSUME NEW p \in Path, note' = [note EXCEPT ![<<p, 1>>] = "operator"], NEW d \in Notes
          PROVE  note'[d] = note[d] \/ (note'[d] = "operator" /\ d[2] = 1)
      <4>1. CASE d = <<p, 1>>
        BY <3>1, <4>1 DEF ViewTypes
      <4>2. CASE d # <<p, 1>>
        BY <3>1, <4>2 DEF ViewTypes
      <4> QED
        BY <4>1, <4>2
    <3> QED
      BY <2>2, <3>1
  <2>6. Unlogged /\ EventsTrue'
    BY <2>1, <2>4, <2>5, SameNews DEF Unlogged
  <2>7. Committed' = Committed
    BY <2>1 DEF Committed
  <2> QED
    BY <2>1, <2>6, <2>7, TruthfulKept DEF Truthful, InMirror
<1> QED
  BY <1>2, <1>3, <1>4, <1>5, <1>6, <1>7, <1>8, <1>9, <1>10, <1>11, <1>12, <1>13 DEF ViewNext
-----------------------------------------------------------------------------
(* Reused rows.  What can happen to a path in a step at time t: nothing;   *)
(* it is moved out; it is deleted or rewritten; it is returned.            *)
Drift(t, f, back, f2, back2) ==
  \A p \in Path :
    LET same == p \in DOMAIN back2 <=> p \in DOMAIN back
        time == p \in DOMAIN back => back2[p] = back[p]
    IN \/ f2[p] = f[p] /\ same /\ time
       \/ f2[p] = NoFile /\ p \notin DOMAIN back2
       \/ (f2[p] = NoFile \/ f2[p].mtime = t) /\ same /\ time
       \/ p \in DOMAIN back2 /\ back2[p] = t

LEMMA HonestKept ==
  ASSUME NEW t \in Nat, NEW f, NEW back, NEW f2, NEW back2, Drift(t, f, back, f2, back2),
         NEW rows, DOMAIN rows \subseteq Path, NEW started \in Nat, started <= t, NEW settings,
         Honest(rows, started, settings, f, back)
  PROVE  Honest(rows, started, settings, f2, back2)
<1> SUFFICES ASSUME NEW p \in DOMAIN rows
             PROVE  IF rows[p].loc = "archive"
                      THEN /\ rows[p].val # Typed /\ f2[p] # NoFile
                           /\ rows[p].mtime = f2[p].mtime /\ rows[p].mtime < started /\ ~BackSince(back2, p, started)
                           => rows[p].val = Detect(f2[p], settings)
                      ELSE p \in DOMAIN back2 => back2[p] >= started
  BY DEF Honest
<1>1. /\ rows[p].loc = "archive" =>
           (/\ rows[p].val # Typed /\ f[p] # NoFile
            /\ rows[p].mtime = f[p].mtime /\ rows[p].mtime < started /\ ~BackSince(back, p, started)
            => rows[p].val = Detect(f[p], settings))
      /\ rows[p].loc # "archive" => (p \in DOMAIN back => back[p] >= started)
  BY DEF Honest
<1>2. ~(t < started) /\ t >= started
  OBVIOUS
<1> DEFINE same == (p \in DOMAIN back2 <=> p \in DOMAIN back) /\ (p \in DOMAIN back => back2[p] = back[p])
<1>3. \/ f2[p] = f[p] /\ same
      \/ f2[p] = NoFile /\ p \notin DOMAIN back2
      \/ (f2[p] = NoFile \/ f2[p].mtime = t) /\ same
      \/ p \in DOMAIN back2 /\ back2[p] = t
  BY DEF Drift
<1>4. CASE f2[p] = f[p] /\ same
  BY <1>1, <1>4 DEF BackSince
<1>5. CASE f2[p] = NoFile /\ p \notin DOMAIN back2
  BY <1>5
<1>6. CASE (f2[p] = NoFile \/ f2[p].mtime = t) /\ same
  BY <1>1, <1>2, <1>6
<1>7. CASE p \in DOMAIN back2 /\ back2[p] = t
  BY <1>2, <1>7 DEF BackSince
<1> QED
  BY <1>3, <1>4, <1>5, <1>6, <1>7

LEMMA DriftNext ==
  ASSUME ViewTypes, Phases, Truthful, ViewNext
  PROVE  Drift(clock, file, Restored, file', Restored')
<1> USE DEF files
<1>1. ASSUME NoNews, UNCHANGED file PROVE Drift(clock, file, Restored, file', Restored')
  BY <1>1 DEF Drift, NoNews, SameMoves
<1>2. ASSUME UNCHANGED <<file, history>> PROVE Drift(clock, file, Restored, file', Restored')
  BY <1>1, <1>2, SameNews
<1>3. ASSUME NEW cmd, StartRun(cmd) PROVE Drift(clock, file, Restored, file', Restored')
  BY <1>1, <1>3, StartNews DEF StartRun
<1>4. CASE Resume \/ ScanOpen \/ Place \/ Stamp \/ Executed \/ ReportArchive \/ ReportMirror \/ LocateSplit
           \/ LocateRestored \/ Restamp \/ Settle \/ Finish \/ Tick \/ Crash \/ Mount
  BY <1>2, <1>4 DEF Resume, ScanOpen, Place, Stamp, Executed, ReportArchive, ReportMirror, LocateSplit,
                    LocateRestored, Restamp, Settle, Finish, Tick, Crash, Mount
<1>5. ASSUME NEW p \in Path, Visit(p) \/ Refuse(p) PROVE Drift(clock, file, Restored, file', Restored')
  BY <1>2, <1>5 DEF Visit, Refuse
<1>6. ASSUME NEW p \in Path, MoveOut(p) PROVE Drift(clock, file, Restored, file', Restored')
  <2>1. PICK n \in Names : MovedOut(p, n)
    BY <1>6, MoveOutNews
  <2>2. file'[p] = NoFile /\ p \notin DOMAIN Restored' /\ \A q \in Path : q # p => file'[q] = file[q] /\ SameMoves(q)
    BY <1>6, <2>1 DEF MoveOut, MovedOut, ViewTypes
  <2> QED
    BY <2>2 DEF Drift, SameMoves
<1>7. ASSUME NEW p \in Path, Abort(p) PROVE Drift(clock, file, Restored, file', Restored')
  BY <1>1, <1>7, AbortNews DEF Abort
<1>8. ASSUME NEW p \in Path, RestoreOne(p) PROVE Drift(clock, file, Restored, file', Restored')
  <2>1. ASSUME NEW n \in 0..2, Returned(p, n) PROVE Drift(clock, file, Restored, file', Restored')
    <3>1. p \in DOMAIN Restored' /\ Restored'[p] = clock /\ \A q \in Path : q # p => file'[q] = file[q] /\ SameMoves(q)
      BY <2>1 DEF Returned, ViewTypes
    <3> QED
      BY <3>1 DEF Drift, SameMoves
  <2> QED
    BY <1>2, <1>8, <2>1, RestoreNews
<1>9. CASE Operator
  <2>1. \A p \in Path : SameMoves(p)
    BY <1>9, SamePast DEF Operator
  <2>2. \A p \in Path : file'[p] = file[p] \/ file'[p] = NoFile \/ file'[p].mtime = clock
    <3>1. \/ UNCHANGED file
          \/ \E p \in Path : file' = [file EXCEPT ![p] = Newer]
          \/ \E p \in Path : file' = [file EXCEPT ![p] = NoFile]
      BY <1>9 DEF Operator, Edit, Delete, EditRegistry, OwnNote, DeleteRegistry, DeleteCopy
    <3>2. Newer.mtime = clock
      BY DEF Newer
    <3> QED
      BY <3>1, <3>2 DEF ViewTypes
  <2> QED
    BY <2>1, <2>2 DEF Drift, SameMoves
<1> QED
  BY <1>3, <1>4, <1>5, <1>6, <1>7, <1>8, <1>9 DEF ViewNext

(* A row that a scan writes is honest.                                     *)
LEMMA VisitedHonest ==
  ASSUME ViewTypes, Phases, Truthful, Reuse, Inventory, Locations, NEW p \in Path, Visit(p)
  PROVE  Honest(job'.rows, job.started, job.cmd.settings, file, Restored)
<1>1. /\ Scans /\ Honest(job.rows, job.started, job.cmd.settings, file, Restored)
      /\ base.started <= job.started /\ pc = "scan"
  BY DEF Visit, Phases, Reuse
<1>2. ASSUME NEW row,
             IF row.loc = "archive"
               THEN /\ row.val # Typed /\ file[p] # NoFile
                    /\ row.mtime = file[p].mtime /\ row.mtime < job.started /\ ~BackSince(Restored, p, job.started)
                    => row.val = Detect(file[p], job.cmd.settings)
               ELSE p \in DOMAIN Restored => Restored[p] >= job.started
      PROVE  Honest(WithRow(job.rows, p, row), job.started, job.cmd.settings, file, Restored)
  <2> DEFINE rows == WithRow(job.rows, p, row)
  <2>1. DOMAIN rows = DOMAIN job.rows \cup {p} /\ \A q \in DOMAIN rows : rows[q] = IF q = p THEN row ELSE job.rows[q]
    BY DEF WithRow
  <2> HIDE DEF rows
  <2>2. Honest(rows, job.started, job.cmd.settings, file, Restored)
    BY <1>1, <1>2, <2>1 DEF Honest
  <2> QED
    BY <2>2 DEF rows
<1>3. CASE file[p] # NoFile
  <2> DEFINE row == PresentRow(p)
  <2>1. job'.rows = WithRow(job.rows, p, row)
    BY <1>3 DEF Visit, ViewTypes
  <2>2. row.loc = "archive"
    BY PresentType
  <2>3. CASE Reusable(p)
    <3>1. /\ row = base.registry.rows[p] /\ base.reusable /\ p \in DOMAIN base.registry.rows
          /\ file[p].mtime = base.registry.rows[p].mtime /\ file[p].mtime < base.started
          /\ ~BackSince(Restored, p, base.started)
      BY <2>3 DEF PresentRow, Reusable, Unchanged, RestoredSinceBase, BackSince
    <3>2. Honest(base.registry.rows, base.started, job.cmd.settings, file, Restored)
      BY <1>1, <3>1 DEF Reuse
    <3>3. row.val # Typed => row.val = Detect(file[p], job.cmd.settings)
      BY <1>3, <2>2, <3>1, <3>2 DEF Honest
    <3> HIDE DEF row
    <3> QED
      BY <1>2, <2>1, <2>2, <3>3
  <2>4. CASE ~Reusable(p)
    <3>1. row.val = Detect(file[p], job.cmd.settings)
      BY <2>4 DEF PresentRow, Row
    <3> HIDE DEF row
    <3> QED
      BY <1>2, <2>1, <2>2, <3>1
  <2> QED
    BY <2>3, <2>4
<1>4. CASE file[p] = NoFile /\ p \in DOMAIN kept
  <2>1. job'.rows = WithRow(job.rows, p, kept[p])
    BY <1>4 DEF Visit, ViewTypes
  <2>2. kept[p].loc # "archive"
    BY <1>4, PlacesType DEF Locations
  <2>3. p \notin DOMAIN Restored
    <3>1. InMirror(p)
      BY <1>1, <1>4 DEF Inventory
    <3> QED
      BY <3>1, RestoredIs DEF Truthful
  <2> QED
    BY <1>2, <2>1, <2>2, <2>3
<1>5. CASE file[p] = NoFile /\ p \notin DOMAIN kept
  <2>1. job'.rows = job.rows
    BY <1>5 DEF Visit, ViewTypes
  <2> QED
    BY <1>1, <2>1
<1> QED
  BY <1>3, <1>4, <1>5

LEMMA RelocatedHonest ==
  ASSUME ViewTypes, Truthful, NEW rows, DOMAIN rows \subseteq Path, \A p \in DOMAIN rows : rows[p] \in AnyRow,
         NEW started, NEW settings, Honest(rows, started, settings, file, Restored), NEW paths
  PROVE  /\ (\A p \in paths : InMirror(p)) => Honest(SetLocations(rows, paths), started, settings, file, Restored)
         /\ (\A p \in paths : p \in DOMAIN Restored /\ rows[p].loc # "archive") =>
              Honest(SetReturned(rows, paths), started, settings, file, Restored)
<1>1. ASSUME \A p \in paths : InMirror(p)
      PROVE  Honest(SetLocations(rows, paths), started, settings, file, Restored)
  <2> DEFINE new == SetLocations(rows, paths)
  <2>1. /\ DOMAIN new = DOMAIN rows
        /\ \A p \in DOMAIN rows : p \in paths => new[p].loc # "archive"
        /\ \A p \in DOMAIN rows : p \notin paths => new[p] = rows[p]
    BY PlacesType DEF SetLocations, AnyRow
  <2> HIDE DEF new
  <2>2. \A p \in DOMAIN rows : p \in paths => p \notin DOMAIN Restored
    BY <1>1, RestoredIs DEF Truthful
  <2>3. Honest(new, started, settings, file, Restored)
    BY <2>1, <2>2 DEF Honest
  <2> QED
    BY <2>3 DEF new
<1>2. ASSUME \A p \in paths : p \in DOMAIN Restored /\ rows[p].loc # "archive"
      PROVE  Honest(SetReturned(rows, paths), started, settings, file, Restored)
  <2> DEFINE new == SetReturned(rows, paths)
  <2>1. /\ DOMAIN new = DOMAIN rows
        /\ \A p \in DOMAIN rows : p \in paths => new[p].loc = "archive"
        /\ \A p \in DOMAIN rows : p \notin paths => new[p] = rows[p]
    BY DEF SetReturned, AnyRow
  <2> HIDE DEF new
  <2>2. \A p \in DOMAIN rows : p \in paths => BackSince(Restored, p, started)
    BY <1>2 DEF Honest, BackSince
  <2>3. Honest(new, started, settings, file, Restored)
    BY <2>1, <2>2 DEF Honest
  <2> QED
    BY <2>3 DEF new
<1> QED
  BY <1>1, <1>2

LEMMA ReuseNext ==
  ASSUME ViewTypes, Locations, Phases, Truthful, Reuse, Inventory, ViewNext
  PROVE  Reuse'
<1> USE DEF Goto, files, outputs, memory, Scans, Restoring
<1>1. clock \in Nat /\ clock > 0 /\ stamp.started \in Nat /\ job.started \in Nat /\ base.started \in Nat
  BY DEF ViewTypes
<1>2. Drift(clock, file, Restored, file', Restored')
  BY DriftNext
<1>3. ASSUME NEW rows, DOMAIN rows \subseteq Path, NEW started \in Nat, started <= clock, NEW settings,
             Honest(rows, started, settings, file, Restored)
      PROVE  Honest(rows, started, settings, file', Restored')
  BY <1>1, <1>2, <1>3, HonestKept
<1>4. /\ DOMAIN registry.rows \subseteq Path /\ DOMAIN stamp.registry.rows \subseteq Path
      /\ DOMAIN job.rows \subseteq Path /\ DOMAIN base.registry.rows \subseteq Path
  <2>1. stamp.registry.rows \in RowsType
    BY FieldTypes DEF RegistryType
  <2> QED
    BY <2>1, FieldTypes, RowsAre
<1>5. \A started, settings, f, back : Honest(<<>>, started, settings, f, back)
  BY NoRows DEF Honest
(* What the old registry, stamp and job said still holds.                  *)
<1> DEFINE StampHolds == Honest(stamp.registry.rows, stamp.started, stamp.settings, file', Restored')
           JobHolds == Scans => Honest(job.rows, job.started, job.cmd.settings, file', Restored')
           RegistryHolds == Scans /\ (job.complete \/ pc = "stamp") =>
             Honest(registry.rows, job.started, job.cmd.settings, file', Restored')
           RestampHolds == pc = "restamp" /\ Restoring =>
             Honest(registry.rows, stamp.started, stamp.settings, file', Restored')
           BaseHolds == pc = "scan" /\ base.reusable =>
             Honest(base.registry.rows, base.started, job.cmd.settings, file', Restored')
<1>6. StampHolds /\ JobHolds /\ RegistryHolds /\ RestampHolds /\ BaseHolds
  <2>1. stamp.started <= clock /\ job.started <= clock /\ (pc = "scan" => base.started <= clock)
    BY <1>1 DEF Reuse
  <2> QED
    BY <1>1, <1>3, <1>4, <2>1 DEF Reuse
<1>7. /\ stamp.started <= clock /\ job.started <= clock
      /\ job.started > 0 => stamp.started <= job.started
      /\ pc = "scan" => base.started <= job.started
  BY DEF Reuse
<1> HIDE DEF StampHolds, JobHolds, RegistryHolds, RestampHolds, BaseHolds
<1>8. ASSUME UNCHANGED <<clock, stamp, registry, job>>,
             pc' # "stamp" \/ pc = "stamp", ~(pc' = "restamp" /\ Restoring), pc' # "scan"
      PROVE  Reuse'
  BY <1>6, <1>7, <1>8 DEF Reuse, StampHolds, JobHolds, RegistryHolds
<1>9. ASSUME NEW cmd, StartRun(cmd) PROVE Reuse'
  <2>1. /\ job'.rows = <<>> /\ job'.started = 0 /\ ~job'.complete
        /\ pc' \in {"open", "move"} /\ UNCHANGED <<clock, stamp, registry>>
    BY <1>9 DEF StartRun, Begin, NoJob
  <2> QED
    BY <1>1, <1>5, <1>6, <1>7, <2>1 DEF Reuse, StampHolds
<1>10. CASE Resume
  BY <1>8, <1>10 DEF Resume, Begin
<1>11. CASE ScanOpen
  <2>2. /\ job'.cmd = job.cmd /\ job'.started = Started
        /\ \/ job'.rows = <<>> /\ ~job'.complete
           \/ job'.rows = job.rows /\ job'.complete = job.complete /\ job.visited # {}
    BY <1>11, Opened
  <2>3. pc = "open" /\ pc' = "scan" /\ base' = OpenBase /\ UNCHANGED <<clock, file, stamp, registry, history>>
    BY <1>11 DEF ScanOpen
  <2>4. ~job.complete /\ ~job'.complete /\ Scans
    BY <2>2, <2>3 DEF Phases
  <2>5. job.visited # {} => Started = job.started
    <3>1. job.visited # {} => job.started > 0
      BY DEF Phases
    <3>2. job.started > 0 => job.started # 0
      BY <1>1
    <3> QED
      BY <3>1, <3>2 DEF Started
  <2>6. Started <= clock /\ stamp.started <= Started
    BY <1>1, <1>7 DEF Started
  <2>7. /\ base'.started = stamp.started /\ base'.registry = registry
        /\ base'.reusable => stamp.registry = registry /\ stamp.settings = job.cmd.settings
    BY <2>3 DEF OpenBase, Stamped
  <2>8. base'.reusable => Honest(base'.registry.rows, base'.started, job.cmd.settings, file', Restored')
    BY <1>6, <2>7 DEF StampHolds
  <2>9. Honest(job'.rows, job'.started, job.cmd.settings, file', Restored')
    BY <1>5, <1>6, <2>2, <2>4, <2>5 DEF JobHolds
  <2> QED
    BY <1>6, <2>2, <2>3, <2>4, <2>6, <2>7, <2>8, <2>9 DEF Reuse, StampHolds
<1>12. ASSUME NEW p \in Path, Visit(p) PROVE Reuse'
  <2>1. /\ job'.cmd = job.cmd /\ job'.started = job.started /\ job'.complete = job.complete
        /\ pc = "scan" /\ pc' = "scan" /\ UNCHANGED <<clock, file, stamp, registry, base, history>>
    BY <1>12 DEF Visit, ViewTypes
  <2>2. Honest(job'.rows, job.started, job.cmd.settings, file, Restored)
    BY <1>12, VisitedHonest
  <2>3. Restored' = Restored
    BY <2>1 DEF Restored, ReplayMoves, Moves, Returns, ReadHistory
  <2>4. ~job.complete
    BY <2>1 DEF Phases
  <2> QED
    BY <1>6, <1>7, <2>1, <2>2, <2>3, <2>4 DEF Reuse, StampHolds, BaseHolds
<1>13. CASE Place
  <2>1. /\ registry'.rows = job.rows /\ pc = "scan" /\ pc' = "stamp" /\ UNCHANGED <<clock, stamp, job>>
    BY <1>13 DEF Place
  <2> QED
    BY <1>6, <1>7, <2>1 DEF Reuse, StampHolds, JobHolds
<1>14. CASE Stamp
  <2>1. /\ stamp' = [registry |-> registry, started |-> job.started, settings |-> job.cmd.settings]
        /\ pc = "stamp" /\ pc' \in {"done", "move"} /\ UNCHANGED <<clock, registry>>
        /\ job'.cmd = job.cmd /\ job'.started = job.started /\ job'.rows = job.rows
    BY <1>14 DEF Stamp, WriteStamp, ViewTypes
  <2>2. Scans
    BY <2>1 DEF Phases
  <2> QED
    BY <1>1, <1>6, <1>7, <2>1, <2>2 DEF Reuse, JobHolds, RegistryHolds
<1>15. ASSUME NEW p \in Path, MoveOut(p) \/ Refuse(p) \/ Abort(p) \/ RestoreOne(p) PROVE Reuse'
  BY <1>8, <1>15 DEF MoveOut, Refuse, Abort, RestoreOne, MayMoveOut
<1>16. CASE Executed \/ ReportArchive \/ ReportMirror \/ Settle \/ Crash \/ Mount
  BY <1>8, <1>16 DEF Executed, ReportArchive, ReportMirror, Settle, Crash, Mount
<1>17. CASE LocateSplit
  <2>1. /\ pc = "locate" /\ job.cmd.op = "split" /\ pc' \in {"restamp", "settle"}
        /\ UNCHANGED <<clock, file, history, stamp, job>>
        /\ registry' = registry \/ registry' = [registry EXCEPT !.rows = SetLocations(registry.rows, Committed)]
    BY <1>17 DEF LocateSplit, SetLocations
  <2>2. registry'.rows = registry.rows \/ registry'.rows = SetLocations(registry.rows, Committed)
    BY <2>1 DEF ViewTypes, RegistryType
  <2>3. job.complete
    BY <2>1 DEF Phases, Splitting
  <2>4. Honest(registry.rows, job.started, job.cmd.settings, file, Restored)
    BY <2>1, <2>3 DEF Reuse
  <2>5. Honest(SetLocations(registry.rows, Committed), job.started, job.cmd.settings, file, Restored)
    <3>1. \A p \in Committed : InMirror(p)
      BY <2>1 DEF Truthful, Splitting
    <3>2. \A p \in DOMAIN registry.rows : registry.rows[p] \in AnyRow
      BY FieldTypes, RowsAre
    <3> QED
      BY <1>4, <2>4, <3>1, <3>2, RelocatedHonest
  <2>6. Honest(registry'.rows, job.started, job.cmd.settings, file, Restored)
    BY <2>2, <2>4, <2>5
  <2>7. Restored' = Restored
    BY <2>1 DEF Restored, ReplayMoves, Moves, Returns, ReadHistory
  <2> QED
    BY <1>6, <1>7, <2>1, <2>6, <2>7 DEF Reuse, StampHolds, JobHolds
<1>18. CASE LocateRestored
  <2> DEFINE back == {p \in DOMAIN registry.rows :
                        p \in DOMAIN ReplayMoves(job.cmd.kind).restored /\ registry.rows[p].loc = LocationOf(p)}
  <2>1. /\ pc = "locate" /\ job.cmd.op = "restore" /\ pc' \in {"restamp", "done"}
        /\ UNCHANGED <<clock, file, history, stamp, job>>
        /\ \/ registry' = registry /\ pc' = "done"
           \/ Stamped /\ registry' = [registry EXCEPT !.rows = SetReturned(registry.rows, back)]
    BY <1>18 DEF LocateRestored, SetReturned
  <2>2. \A p \in back : p \in DOMAIN Restored /\ registry.rows[p].loc # "archive"
    <3> SUFFICES ASSUME NEW p \in back PROVE p \in DOMAIN Restored /\ registry.rows[p].loc # "archive"
      OBVIOUS
    <3>1. p \in Path
      BY <1>4
    <3>2. registry.rows[p].loc # "archive"
      BY <3>1, PlacesType
    <3>3. job.cmd.kind \in Kinds
      <4>1. Restoring
        BY <2>1
      <4>2. job.cmd.kind # "none"
        BY <2>1, <4>1 DEF Phases
      <4> QED
        BY <4>2, CmdType
    <3>4. \E k \in Kinds : p \in DOMAIN ReplayMoves(k).restored
      BY <3>3
    <3>5. p \in DOMAIN Restored
      BY <3>4, Zenon DEF Restored
    <3> QED
      BY <3>2, <3>5
  <2> HIDE DEF back
  <2>3. registry'.rows = registry.rows \/ registry'.rows = SetReturned(registry.rows, back)
    BY <2>1 DEF ViewTypes, RegistryType
  <2>4. Stamped => Honest(SetReturned(registry.rows, back), stamp.started, stamp.settings, file, Restored)
    <3>1. \A p \in DOMAIN registry.rows : registry.rows[p] \in AnyRow
      BY FieldTypes, RowsAre
    <3>2. Stamped => Honest(registry.rows, stamp.started, stamp.settings, file, Restored)
      BY DEF Reuse, Stamped
    <3> QED
      BY <1>4, <2>2, <3>1, <3>2, RelocatedHonest
  <2>5. Restored' = Restored
    BY <2>1 DEF Restored, ReplayMoves, Moves, Returns, ReadHistory
  <2>6. pc' = "restamp" => Honest(registry'.rows, stamp.started, stamp.settings, file', Restored')
    <3>1. pc' = "restamp" => Stamped /\ registry'.rows = SetReturned(registry.rows, back)
      BY <2>1 DEF ViewTypes, RegistryType
    <3> QED
      BY <2>1, <2>4, <2>5, <3>1
  <2> QED
    BY <1>6, <1>7, <2>1, <2>6 DEF Reuse, StampHolds, JobHolds
<1>19. CASE Restamp
  <2>1. /\ pc = "restamp" /\ pc' \in {"settle", "done"} /\ UNCHANGED <<clock, registry, job>>
        /\ Restoring \/ (Splitting /\ job.complete)
    BY <1>19 DEF Restamp, Phases
  <2>2. CASE Splitting /\ job.complete
    <3>1. stamp' = [registry |-> registry, started |-> job.started, settings |-> job.cmd.settings]
      BY <1>19, <2>2 DEF Restamp, WriteStamp, Splitting
    <3> QED
      BY <1>1, <1>6, <1>7, <2>1, <2>2, <3>1 DEF Reuse, JobHolds, RegistryHolds, Splitting
  <2>3. CASE Restoring
    <3>1. stamp'.registry = registry /\ stamp'.started = stamp.started /\ stamp'.settings = stamp.settings
      BY <1>19, <2>3 DEF Restamp, ViewTypes
    <3> QED
      BY <1>6, <1>7, <2>1, <2>3, <3>1 DEF Reuse, RestampHolds
  <2> QED
    BY <2>1, <2>2, <2>3
<1>20. CASE Finish
  <2>1. job'.cmd.op = "none" /\ job'.started = 0 /\ pc' = "down" /\ UNCHANGED <<clock, stamp, registry>>
    BY <1>20 DEF Finish, NoJob, Idle
  <2> QED
    BY <1>1, <1>6, <1>7, <2>1 DEF Reuse, StampHolds
<1>21. CASE Tick
  <2>1. clock' = clock + 1 /\ pc \in {"down", "scan"} /\ UNCHANGED <<stamp, registry, job, base, pc>>
    BY <1>21 DEF Tick
  <2> QED
    BY <1>1, <1>6, <1>7, <2>1 DEF Reuse, StampHolds, JobHolds, RegistryHolds, BaseHolds
<1>22. CASE Operator
  <2>1. pc \in {"down", "scan", "move", "locate"} /\ UNCHANGED <<clock, stamp, job, base, pc>>
    BY <1>22 DEF Operator
  <2>2. \/ registry' = registry
        \/ registry' = NoRegistry
        \/ \E p \in DOMAIN registry.rows : registry' = [registry EXCEPT !.rows[p].val = Typed]
    BY <1>22 DEF Operator, Edit, Delete, EditRegistry, OwnNote, DeleteRegistry, DeleteCopy
  <2>3. Scans /\ job.complete => Honest(registry'.rows, job.started, job.cmd.settings, file', Restored')
    <3> SUFFICES ASSUME Scans, job.complete
                 PROVE  Honest(registry'.rows, job.started, job.cmd.settings, file', Restored')
      OBVIOUS
    <3>1. Honest(registry.rows, job.started, job.cmd.settings, file', Restored')
      BY <1>6 DEF RegistryHolds
    <3>2. CASE registry' = registry
      BY <3>1, <3>2
    <3>3. CASE registry' = NoRegistry
      BY <1>5, <3>3 DEF NoRegistry
    <3>4. ASSUME NEW p \in DOMAIN registry.rows, registry' = [registry EXCEPT !.rows[p].val = Typed]
          PROVE  Honest(registry'.rows, job.started, job.cmd.settings, file', Restored')
      <4>1. \A q \in DOMAIN registry.rows : registry.rows[q] \in AnyRow
        BY FieldTypes, RowsAre
      <4>2. registry'.rows = [registry.rows EXCEPT ![p].val = Typed]
        BY <3>4 DEF ViewTypes, RegistryType
      <4>3. /\ DOMAIN registry'.rows = DOMAIN registry.rows
            /\ registry'.rows[p].val = Typed /\ registry'.rows[p].loc = registry.rows[p].loc
            /\ \A q \in DOMAIN registry.rows : q # p => registry'.rows[q] = registry.rows[q]
        BY <4>1, <4>2 DEF AnyRow
      <4> QED
        BY <3>1, <4>3 DEF Honest
    <3> QED
      BY <2>2, <3>2, <3>3, <3>4
  <2> QED
    BY <1>6, <1>7, <2>1, <2>3 DEF Reuse, StampHolds, JobHolds, BaseHolds
<1> QED
  BY <1>9, <1>10, <1>11, <1>12, <1>13, <1>14, <1>15, <1>16, <1>17, <1>18, <1>19, <1>20, <1>21, <1>22 DEF ViewNext
-----------------------------------------------------------------------------
(* The inventory.                                                          *)
LEMMA RestoredTime ==
  ASSUME ViewTypes, Truthful, NEW p \in DOMAIN Restored
  PROVE  p \in Path => Restored[p] \in Nat
<1> SUFFICES ASSUME p \in Path PROVE Restored[p] \in Nat
  OBVIOUS
<1> DEFINE kind == KindOf[p]
           i == Earliest(Returns(kind, p))
<1>1. Returns(kind, p) # {} /\ Restored[p] = CommitTime(history[i], p)
  BY RestoredIs
<1>2. Returns(kind, p) \subseteq Nat
  BY DEF Returns, ReadHistory, ViewTypes
<1>3. i \in Returns(kind, p)
  BY <1>1, <1>2, EarliestIs
<1>4. i \in DOMAIN history /\ p \in PathsWith(history[i], "restore", {"restored"})
  BY <1>3 DEF Returns, ReadHistory, RestoredBy
<1>5. EventsOf(history[i], p) # {}
  BY <1>4, PathsAre DEF EventsOf
<1> HIDE DEF i
<1>6. PICK j \in DOMAIN history[i].events : LastEvent(history[i], p) = history[i].events[j]
  BY <1>4, <1>5, LastEventIs
<1>7. history[i] \in RunType
  BY <1>4 DEF ViewTypes
<1>8. history[i].events \in Seq(EventType)
  BY <1>7 DEF RunType
<1>9. history[i].events[j] \in EventType
  BY <1>8
<1> QED
  BY <1>1, <1>6, <1>9 DEF CommitTime, EventType, i

LEMMA OwnedIs ==
  ASSUME NEW d \in Notes
  PROVE  /\ d \in OwnedDescriptions <=> Records(d) # {} /\ (LastRecord(d).status = "moved" \/ note[d] = "owned")
         /\ d \in OwnedDescriptions' <=> Records(d)' # {} /\ (LastRecord(d)'.status = "moved" \/ note'[d] = "owned")
<1>1. d \in OwnedDescriptions <=> Records(d) # {} /\ (LastRecord(d).status = "moved" \/ note[d] = "owned")
  BY DEF OwnedDescriptions, Notes
<1>2. d \in OwnedDescriptions' <=> Records(d)' # {} /\ (LastRecord(d)'.status = "moved" \/ note'[d] = "owned")
  BY DEF OwnedDescriptions, Notes
<1> QED
  BY <1>1, <1>2

(* A path and what lies beside it are as they were.                        *)
Still(p) ==
  /\ file'[p] = file[p] /\ mirror'[p] = mirror[p] /\ SameMoves(p)
  /\ \A n \in Names : note'[<<p, n>>] = note[<<p, n>>] /\ SameRecords(<<p, n>>)

LEMMA StillTrue ==
  ASSUME NEW p \in Path, Still(p)
  PROVE  /\ \A rows, settings, started :
              TrueRowAt(rows, p, settings, started, file, mirror, Restored) =>
                TrueRowAt(rows, p, settings, started, file', mirror', Restored')
         /\ \A notes : TrueNotesAt(notes, p, note, OwnedDescriptions) =>
              TrueNotesAt(notes, p, note', OwnedDescriptions')
         /\ \A n \in Names : <<p, n>> \in OwnedDescriptions' <=> <<p, n>> \in OwnedDescriptions
         /\ InMirror(p)' <=> InMirror(p)
<1>1. \A rows, settings, started :
        TrueRowAt(rows, p, settings, started, file, mirror, Restored) =>
          TrueRowAt(rows, p, settings, started, file', mirror', Restored')
  BY DEF Still, TrueRowAt, BackSince, SameMoves
<1>2. ASSUME NEW n \in Names PROVE <<p, n>> \in OwnedDescriptions' <=> <<p, n>> \in OwnedDescriptions
  <2>1. <<p, n>> \in Notes
    BY DEF Notes
  <2> QED
    BY <2>1, OwnedIs DEF Still, SameRecords
<1>3. \A notes : TrueNotesAt(notes, p, note, OwnedDescriptions) => TrueNotesAt(notes, p, note', OwnedDescriptions')
  BY <1>2 DEF Still, TrueNotesAt
<1>4. InMirror(p)' <=> InMirror(p)
  BY DEF Still, InMirror
<1> QED
  BY <1>1, <1>2, <1>3, <1>4

(* Between its start and its moves, what a step changes is in changed.     *)
LEMMA ScanStill ==
  ASSUME ViewTypes, Phases, Truthful, ViewNext, Scans /\ ~job.complete, NEW p \in Path, p \notin changed'
  PROVE  Still(p) /\ (p \in changed => job'.visited = {})
<1> USE DEF files
<1>1. ASSUME NoNews, UNCHANGED <<file, mirror, note>> PROVE Still(p)
  <2>1. \A n \in Names : <<p, n>> \in Notes
    BY DEF Notes
  <2> QED
    BY <1>1, <2>1 DEF Still, NoNews
<1>2. ASSUME UNCHANGED <<file, mirror, note, history>> PROVE Still(p)
  BY <1>1, <1>2, SameNews
<1>3. ASSUME NEW cmd, StartRun(cmd) PROVE Still(p) /\ job'.visited = {}
  <2>1. Still(p)
    BY <1>1, <1>3, StartNews DEF StartRun
  <2>2. job'.visited = {}
    BY <1>3 DEF StartRun, NoJob
  <2> QED
    BY <2>1, <2>2
<1>4. CASE ScanOpen
  <2>1. Still(p)
    BY <1>2, <1>4 DEF ScanOpen
  <2>2. \/ changed' = changed
        \/ job'.visited = {}
    BY <1>4, Opened
  <2> QED
    BY <2>1, <2>2
<1>5. CASE Resume \/ Place \/ Stamp \/ Executed \/ ReportArchive \/ ReportMirror \/ LocateSplit
           \/ LocateRestored \/ Restamp \/ Settle \/ Finish \/ Tick \/ Crash \/ Mount
  <2>1. UNCHANGED <<file, mirror, note, history, changed>>
    BY <1>5 DEF Resume, Place, Stamp, Executed, ReportArchive, ReportMirror, LocateSplit,
                LocateRestored, Restamp, Settle, Finish, Tick, Crash, Mount
  <2> QED
    BY <1>2, <2>1
<1>6. ASSUME NEW q \in Path, Visit(q) PROVE Still(p) /\ UNCHANGED changed
  BY <1>2, <1>6 DEF Visit
<1>7. ASSUME NEW q \in Path, MoveOut(q) \/ Refuse(q) \/ Abort(q) \/ RestoreOne(q) PROVE FALSE
  BY <1>7 DEF MoveOut, Refuse, Abort, RestoreOne, MayMoveOut, Phases, Scans, Splitting, Restoring
<1>8. CASE Operator
  <2>1. (\A d \in Notes : SameRecords(d)) /\ SameMoves(p)
    BY <1>8, SamePast DEF Operator
  <2>2. UNCHANGED mirror /\ changed \subseteq changed'
    BY <1>8 DEF Operator, Edit, Delete, EditRegistry, OwnNote, DeleteRegistry, DeleteCopy, ViewTypes
  <2>3. file'[p] = file[p] /\ \A n \in Names : note'[<<p, n>>] = note[<<p, n>>]
    <3>1. ASSUME NEW q \in Path, Edit(q) \/ Delete(q) PROVE <2>3
      <4>1. q # p /\ UNCHANGED note
        BY <3>1 DEF Edit, Delete
      <4> QED
        BY <3>1, <4>1 DEF Edit, Delete, ViewTypes
    <3>2. ASSUME NEW q \in Path, EditRegistry(q) PROVE <2>3
      BY <3>2 DEF EditRegistry
    <3>3. ASSUME NEW q \in Path, OwnNote(q) PROVE <2>3
      <4>1. q # p /\ UNCHANGED file
        BY <3>3 DEF OwnNote
      <4>2. \A n \in Names : <<p, n>> \in Notes /\ <<p, n>> # <<q, 1>>
        BY <4>1 DEF Notes
      <4> QED
        BY <3>3, <4>1, <4>2 DEF OwnNote, ViewTypes
    <3>4. CASE DeleteRegistry \/ \E kind \in Kinds : DeleteCopy(kind)
      BY <3>4 DEF DeleteRegistry, DeleteCopy
    <3> QED
      BY <1>8, <3>1, <3>2, <3>3, <3>4 DEF Operator
  <2>4. \A n \in Names : <<p, n>> \in Notes
    BY DEF Notes
  <2> QED
    BY <2>1, <2>2, <2>3, <2>4 DEF Still
<1> QED
  BY <1>3, <1>4, <1>5, <1>6, <1>7, <1>8 DEF ViewNext

(* What a scan writes of a path and beside it is true.                     *)
LEMMA VisitedTrue ==
  ASSUME ViewTypes, Locations, Phases, Truthful, Reuse, Inventory, NEW p \in Path, Visit(p), p \notin changed
  PROVE  /\ TrueRowAt(job'.rows, p, job.cmd.settings, job.started, file, mirror, Restored)
         /\ TrueNotesAt(job'.notes, p, note, OwnedDescriptions)
<1>1. /\ pc = "scan" /\ p \notin job.visited
      /\ job' = [job EXCEPT
           !.visited = job.visited \cup {p},
           !.rows = IF file[p] # NoFile THEN WithRow(job.rows, p, PresentRow(p))
                    ELSE IF p \in DOMAIN kept THEN WithRow(job.rows, p, kept[p]) ELSE job.rows,
           !.notes = job.notes \cup {d \in {p} \X Names : note[d] # "none" /\ d \notin skip}]
  BY DEF Visit
<1>2. /\ job'.rows = IF file[p] # NoFile THEN WithRow(job.rows, p, PresentRow(p))
                     ELSE IF p \in DOMAIN kept THEN WithRow(job.rows, p, kept[p]) ELSE job.rows
      /\ job'.notes = job.notes \cup {d \in {p} \X Names : note[d] # "none" /\ d \notin skip}
  BY <1>1 DEF ViewTypes
<1>3. p \in DOMAIN kept <=> InMirror(p)
  BY <1>1 DEF Inventory
<1>4. TrueNotesAt(job'.notes, p, note, OwnedDescriptions)
  <2> SUFFICES ASSUME NEW n \in Names
               PROVE  <<p, n>> \in job'.notes <=> note[<<p, n>>] # "none" /\ <<p, n>> \notin OwnedDescriptions
    BY DEF TrueNotesAt
  <2>1. <<p, n>> \notin job.notes
    <3>1. \A d \in job.notes : d[1] # p
      BY <1>1 DEF Phases
    <3> QED
      BY <3>1
  <2>2. <<p, n>> \in skip <=> <<p, n>> \in OwnedDescriptions
    <3>1. <<p, n>> \in Notes /\ <<p, n>>[1] = p
      BY DEF Notes
    <3> QED
      BY <1>1, <3>1 DEF Inventory
  <2> QED
    BY <1>2, <2>1, <2>2
<1>5. ASSUME NEW row,
             row.loc = "archive" <=> file[p] # NoFile,
             file[p] # NoFile \/ mirror[p] # NoFile,
             file[p] # NoFile =>
               /\ row.mtime = file[p].mtime
               /\ \/ row.val = Detect(file[p], job.cmd.settings)
                  \/ row.val = Typed /\ row.mtime < job.started /\ ~BackSince(Restored, p, job.started)
      PROVE  TrueRowAt(WithRow(job.rows, p, row), p, job.cmd.settings, job.started, file, mirror, Restored)
  <2> DEFINE rows == WithRow(job.rows, p, row)
  <2>1. p \in DOMAIN rows /\ rows[p] = row
    BY DEF WithRow
  <2> HIDE DEF rows
  <2>2. TrueRowAt(rows, p, job.cmd.settings, job.started, file, mirror, Restored)
    BY <1>5, <2>1 DEF TrueRowAt
  <2> QED
    BY <2>2 DEF rows
<1> DEFINE RowTrue == TrueRowAt(job'.rows, p, job.cmd.settings, job.started, file, mirror, Restored)
<1> HIDE DEF RowTrue
<1>6. ASSUME file[p] # NoFile PROVE RowTrue
  <2> DEFINE row == PresentRow(p)
  <2>1. row.loc = "archive"
    BY PresentType
  <2>2. CASE Reusable(p)
    <3>1. /\ row = base.registry.rows[p] /\ base.reusable /\ p \in DOMAIN base.registry.rows
          /\ file[p].mtime = base.registry.rows[p].mtime /\ file[p].mtime < base.started
          /\ ~BackSince(Restored, p, base.started)
      BY <2>2 DEF PresentRow, Reusable, Unchanged, RestoredSinceBase, BackSince
    <3>2. Honest(base.registry.rows, base.started, job.cmd.settings, file, Restored)
      BY <1>1, <3>1 DEF Reuse
    <3>3. row.val # Typed => row.val = Detect(file[p], job.cmd.settings)
      BY <1>6, <2>1, <3>1, <3>2 DEF Honest
    <3>4. row.mtime = file[p].mtime
      BY <3>1
    <3> HIDE DEF row
    <3>5. base.started \in Nat /\ job.started \in Nat /\ base.started <= job.started /\ file[p].mtime \in Nat
      <4>1. file[p] \in Version
        BY FieldTypes
      <4> QED
        BY <1>1, <4>1 DEF Reuse, ViewTypes, Version
    <3>6. file[p].mtime < job.started
      BY <3>1, <3>5
    <3>7. ~BackSince(Restored, p, job.started)
      <4>1. p \in DOMAIN Restored => Restored[p] \in Nat
        BY RestoredTime
      <4> QED
        BY <3>1, <3>5, <4>1 DEF BackSince
    <3> QED
      BY <1>2, <1>5, <1>6, <2>1, <3>3, <3>4, <3>6, <3>7 DEF row, RowTrue
  <2>3. CASE ~Reusable(p)
    <3>1. row.val = Detect(file[p], job.cmd.settings) /\ row.mtime = file[p].mtime
      BY <2>3 DEF PresentRow, Row
    <3> QED
      BY <1>2, <1>5, <1>6, <2>1, <3>1 DEF RowTrue
  <2> QED
    BY <2>2, <2>3
<1>7. ASSUME file[p] = NoFile, p \in DOMAIN kept PROVE RowTrue
  <2>1. kept[p].loc # "archive" /\ mirror[p] # NoFile
    BY <1>3, <1>7, PlacesType DEF Locations, InMirror
  <2> QED
    BY <1>2, <1>5, <1>7, <2>1 DEF RowTrue
<1>8. ASSUME file[p] = NoFile, p \notin DOMAIN kept PROVE RowTrue
  <2>1. job'.rows = job.rows /\ p \notin DOMAIN job.rows /\ mirror[p] = NoFile
    BY <1>1, <1>2, <1>3, <1>8 DEF InMirror, Phases
  <2> QED
    BY <1>8, <2>1 DEF TrueRowAt, RowTrue
<1> QED
  BY <1>4, <1>6, <1>7, <1>8 DEF RowTrue

(* Beside the path that is visited, nothing changes.                       *)
LEMMA VisitedOthers ==
  ASSUME ViewTypes, NEW p \in Path, Visit(p), NEW q \in Path, q # p
  PROVE  /\ \A settings, started, f, m, back :
              TrueRowAt(job.rows, q, settings, started, f, m, back) =>
                TrueRowAt(job'.rows, q, settings, started, f, m, back)
         /\ \A written, owned : TrueNotesAt(job.notes, q, written, owned) => TrueNotesAt(job'.notes, q, written, owned)
         /\ q \in DOMAIN job'.rows <=> q \in DOMAIN job.rows
         /\ q \in DOMAIN job.rows => job'.rows[q] = job.rows[q]
         /\ \A n \in Names : <<q, n>> \in job'.notes <=> <<q, n>> \in job.notes
<1>1. /\ job'.rows = job.rows \/ \E row : job'.rows = WithRow(job.rows, p, row)
      /\ job'.notes = job.notes \cup {d \in {p} \X Names : note[d] # "none" /\ d \notin skip}
  BY DEF Visit, ViewTypes
<1>2. /\ q \in DOMAIN job'.rows <=> q \in DOMAIN job.rows
      /\ q \in DOMAIN job.rows => job'.rows[q] = job.rows[q]
  BY <1>1 DEF WithRow
<1>3. \A n \in Names : <<q, n>> \in job'.notes <=> <<q, n>> \in job.notes
  BY <1>1
<1> QED
  BY <1>2, <1>3 DEF TrueRowAt, TrueNotesAt

LEMMA InventoryNext ==
  ASSUME ViewTypes, Locations, Phases, Truthful, Reuse, Inventory, ViewNext
  PROVE  Inventory'
<1> USE DEF Goto, files, outputs, memory
<1> DEFINE Row1(rows, p) == TrueRowAt(rows, p, job.cmd.settings, job.started, file', mirror', Restored')
           Notes1(notes, p) == TrueNotesAt(notes, p, note', OwnedDescriptions')
(* While a scan is under way, what it has is still true.                   *)
<1>1. ASSUME Scans, ~job.complete, NEW p \in Path, p \notin changed', job'.visited # {}
      PROVE  /\ Still(p) /\ p \notin changed
             /\ p \in job.visited => Row1(job.rows, p) /\ Notes1(job.notes, p)
  <2>1. Still(p) /\ p \notin changed
    BY <1>1, ScanStill
  <2> QED
    BY <1>1, <2>1, StillTrue DEF Inventory, TrueRow, TrueNotes
<1>2. ASSUME job'.cmd = job.cmd, job'.started = job.started, job'.complete = job.complete, job'.visited = job.visited,
             job'.rows = job.rows, job'.notes = job.notes
      PROVE  (Scans /\ ~job.complete => \A p \in job.visited \ changed :
                TrueRow(job.rows, p, job.cmd.settings, job.started) /\ TrueNotes(job.notes, p))'
  <2> SUFFICES ASSUME Scans, ~job.complete, NEW p \in job.visited, p \notin changed'
               PROVE  Row1(job.rows, p) /\ Notes1(job.notes, p)
    BY <1>2 DEF TrueRow, TrueNotes, Scans
  <2>1. p \in Path /\ job.visited # {}
    BY FieldTypes
  <2> QED
    BY <1>1, <1>2, <2>1
<1>3. ASSUME UNCHANGED job, pc' # "scan" PROVE Inventory'
  BY <1>2, <1>3 DEF Inventory
<1>4. ASSUME NEW cmd, StartRun(cmd) PROVE Inventory'
  <2>1. job'.visited = {} /\ pc' \in {"open", "move"}
    BY <1>4 DEF StartRun, Begin, NoJob
  <2> QED
    BY <2>1 DEF Inventory
<1>5. CASE ScanOpen
  <2>2. /\ kept' = [p \in Moved |-> PreservedRow(OpenBase, p)] /\ skip' = OwnedDescriptions
        /\ UNCHANGED <<file, mirror, note, history>> /\ pc = "open"
    BY <1>5 DEF ScanOpen
  <2>3. job'.visited = {} \/ (/\ job'.cmd = job.cmd /\ job'.started = job.started /\ job'.complete = job.complete
                              /\ job'.visited = job.visited /\ job'.rows = job.rows /\ job'.notes = job.notes)
    <3>1. job.visited # {} => Started = job.started
      <4>1. job.visited # {} => job.started > 0
        BY DEF Phases
      <4>2. job.started > 0 => job.started # 0
        BY DEF ViewTypes
      <4> QED
        BY <4>1, <4>2 DEF Started
    <3> QED
      BY <1>5, <3>1, Opened
  <2>4. \A p \in Path : p \in DOMAIN kept' <=> InMirror(p)'
    <3>1. \A p \in Path : p \in DOMAIN kept' <=> InMirror(p)
      BY <2>2, MovedIs DEF Truthful
    <3> QED
      BY <2>2, <3>1 DEF InMirror
  <2>5. \A d \in Notes : d \in skip' <=> d \in OwnedDescriptions'
    <3>1. NoNews
      BY <2>2, SameNews
    <3> QED
      BY <2>2, <3>1, OwnedIs DEF NoNews, SameRecords
  <2> QED
    BY <1>2, <2>3, <2>4, <2>5 DEF Inventory
<1>6. ASSUME NEW p \in Path, Visit(p) PROVE Inventory'
  <2>1. /\ job'.cmd = job.cmd /\ job'.started = job.started /\ job'.complete = job.complete
        /\ job'.visited = job.visited \cup {p} /\ pc = "scan" /\ pc' = "scan"
        /\ UNCHANGED <<file, mirror, note, history, kept, skip, changed>>
    BY <1>6 DEF Visit, ViewTypes
  <2>2. Scans /\ ~job.complete
    BY <2>1 DEF Phases
  <2>3. ASSUME NEW q \in job'.visited, q \notin changed
        PROVE  Row1(job'.rows, q) /\ Notes1(job'.notes, q)
    <3>1. q \in Path /\ job'.visited # {} /\ q \notin changed'
      BY <2>1, <2>3, FieldTypes
    <3>2. Still(q)
      BY <1>1, <2>2, <3>1
    <3>3. CASE q = p
      BY <1>6, <2>3, <3>1, <3>2, <3>3, VisitedTrue, StillTrue
    <3>4. CASE q # p
      <4>1. Row1(job.rows, q) /\ Notes1(job.notes, q)
        BY <1>1, <2>1, <2>2, <3>1, <3>4
      <4> QED
        BY <1>6, <3>1, <3>4, <4>1, VisitedOthers
    <3> QED
      BY <3>3, <3>4
  <2>4. \A q \in job'.visited \ changed' :
          TrueRow(job.rows, q, job.cmd.settings, job.started)' /\ TrueNotes(job.notes, q)'
    BY <2>1, <2>3 DEF TrueRow, TrueNotes
  <2>5. /\ \A q \in Path : q \in DOMAIN kept' <=> InMirror(q)'
        /\ \A d \in Notes : d[1] \notin changed' => (d \in skip' <=> d \in OwnedDescriptions')
    <3>1. NoNews
      BY <2>1, SameNews
    <3>2. \A d \in Notes : d \in OwnedDescriptions' <=> d \in OwnedDescriptions
      BY <2>1, <3>1, OwnedIs DEF NoNews, SameRecords
    <3> QED
      BY <2>1, <3>2 DEF Inventory, InMirror
  <2> QED
    BY <2>4, <2>5 DEF Inventory
<1>7. CASE Stamp
  <2>1. job'.complete /\ pc' # "scan"
    BY <1>7 DEF Stamp, ViewTypes
  <2> QED
    BY <2>1 DEF Inventory
<1>8. ASSUME NEW p \in Path, MoveOut(p) \/ Refuse(p) \/ Abort(p) \/ RestoreOne(p) PROVE Inventory'
  BY <1>3, <1>8 DEF MoveOut, Refuse, Abort, RestoreOne, MayMoveOut
<1>9. CASE Resume \/ Place \/ Executed \/ ReportArchive \/ ReportMirror \/ LocateSplit \/ LocateRestored
           \/ Restamp \/ Settle \/ Crash \/ Mount
  BY <1>3, <1>9 DEF Resume, Begin, Place, Executed, ReportArchive, ReportMirror, LocateSplit, LocateRestored,
                    Restamp, Settle, Crash, Mount
<1>10. CASE Finish
  <2>1. job'.visited = {} /\ pc' = "down"
    BY <1>10 DEF Finish, NoJob
  <2> QED
    BY <2>1 DEF Inventory
<1>11. CASE Tick \/ Operator
  <2>1. UNCHANGED <<job, kept, skip, pc, mirror>>
    BY <1>11 DEF Tick, Operator, Edit, Delete, EditRegistry, OwnNote, DeleteRegistry, DeleteCopy
  <2>2. ASSUME pc = "scan"
        PROVE  /\ \A q \in Path : q \in DOMAIN kept' <=> InMirror(q)'
               /\ \A d \in Notes : d[1] \notin changed' => (d \in skip' <=> d \in OwnedDescriptions')
    <3>1. Scans /\ ~job.complete
      BY <2>2 DEF Phases
    <3>2. ASSUME NEW d \in Notes, d[1] \notin changed' PROVE d \in skip' <=> d \in OwnedDescriptions'
      <4>1. d[1] \in Path /\ d[2] \in Names /\ d = <<d[1], d[2]>>
        BY DEF Notes
      <4>2. Still(d[1])
        BY <3>1, <3>2, <4>1, ScanStill
      <4>3. d[1] \notin changed
        BY <1>11, <3>2 DEF Tick, Operator, Edit, Delete, EditRegistry, OwnNote, DeleteRegistry, DeleteCopy, ViewTypes
      <4>4. d \in OwnedDescriptions' <=> d \in OwnedDescriptions
        BY <4>1, <4>2, StillTrue
      <4> QED
        BY <2>1, <2>2, <4>3, <4>4 DEF Inventory
    <3>3. \A q \in Path : q \in DOMAIN kept' <=> InMirror(q)'
      BY <2>1, <2>2 DEF Inventory, InMirror
    <3> QED
      BY <3>2, <3>3
  <2> QED
    BY <1>2, <2>1, <2>2 DEF Inventory
<1> QED
  BY <1>4, <1>5, <1>6, <1>7, <1>8, <1>9, <1>10, <1>11 DEF ViewNext
-----------------------------------------------------------------------------
(* The payload registries.  What was ever moved stays in the logs.         *)
LEMMA OneKind ==
  ASSUME ViewTypes, Truthful, NEW p \in Path, NEW kind, Moves(kind, p) # {}
  PROVE  kind = KindOf[p]
<1>1. PICK i \in DOMAIN history : history[i].kind = kind /\ p \in MovedBy(history[i])
  BY DEF Moves, ReadHistory
<1>2. PICK j \in DOMAIN history[i].events : history[i].events[j].path = p
  BY <1>1, PathsAre DEF MovedBy
<1> QED
  BY <1>1, <1>2 DEF Truthful

LEMMA MovesGrow ==
  ASSUME ViewTypes, Phases, Truthful, ViewNext, NEW kind \in Kinds, NEW p \in Path, Moves(kind, p) # {}
  PROVE  Moves(kind, p)' # {}
<1> USE DEF files
<1>1. ASSUME SameMoves(p) PROVE Moves(kind, p)' # {}
  BY <1>1 DEF SameMoves
<1>2. ASSUME UNCHANGED history PROVE Moves(kind, p)' # {}
  BY <1>1, <1>2, SameNews DEF NoNews
<1>3. ASSUME NEW cmd, StartRun(cmd) PROVE Moves(kind, p)' # {}
  BY <1>1, <1>3, StartNews DEF NoNews
<1>4. CASE Resume \/ ScanOpen \/ Place \/ Stamp \/ Executed \/ ReportArchive \/ ReportMirror \/ LocateSplit
           \/ LocateRestored \/ Restamp \/ Settle \/ Finish \/ Tick \/ Crash \/ Mount \/ Operator
  BY <1>2, <1>4 DEF Resume, ScanOpen, Place, Stamp, Executed, ReportArchive, ReportMirror, LocateSplit,
                    LocateRestored, Restamp, Settle, Finish, Tick, Crash, Mount, Operator
<1>5. ASSUME NEW q \in Path, Visit(q) \/ Refuse(q) PROVE Moves(kind, p)' # {}
  BY <1>2, <1>5 DEF Visit, Refuse
<1>6. ASSUME NEW q \in Path, MoveOut(q) PROVE Moves(kind, p)' # {}
  <2>1. PICK n \in Names : MovedOut(q, n)
    BY <1>6, MoveOutNews
  <2>2. CASE q = p
    BY <2>1, <2>2, OneKind DEF MovedOut
  <2>3. CASE q # p
    BY <1>1, <2>1, <2>3 DEF MovedOut
  <2> QED
    BY <2>2, <2>3
<1>7. ASSUME NEW q \in Path, Abort(q) PROVE Moves(kind, p)' # {}
  BY <1>1, <1>7, AbortNews DEF NoNews
<1>8. ASSUME NEW q \in Path, RestoreOne(q) PROVE Moves(kind, p)' # {}
  <2>1. ASSUME NEW n \in 0..2, Returned(q, n) PROVE Moves(kind, p)' # {}
    <3>1. CASE q = p
      BY <2>1, <3>1, OneKind DEF Returned
    <3>2. CASE q # p
      BY <1>1, <2>1, <3>2 DEF Returned
    <3> QED
      BY <3>1, <3>2
  <2> QED
    BY <1>2, <1>8, <2>1, RestoreNews
<1> QED
  BY <1>3, <1>4, <1>5, <1>6, <1>7, <1>8 DEF ViewNext

LEMMA StillTelling ==
  ASSUME ViewTypes, Phases, Truthful, CopiesTell, ViewNext, UNCHANGED copies
  PROVE  CopiesTell'
<1>1. ASSUME NEW kind \in Kinds, NEW c \in CopyType, WereMoved(c.rows, kind)
      PROVE  WereMoved(c.rows, kind)'
  <2>1. c.rows \in StatusesType
    BY <1>1 DEF CopyType
  <2>2. DOMAIN c.rows \subseteq Path
    BY <2>1, StatusesAre
  <2> QED
    BY <1>1, <2>2, MovesGrow DEF WereMoved, MovedRows
<1>2. \A kind \in Kinds : copies[kind].archive \in CopyType /\ copies[kind].mirror \in CopyType
  BY FieldTypes
<1>3. ASSUME NEW kind \in Kinds, NEW c \in {copies[kind].archive, copies[kind].mirror}
      PROVE  WereMoved(c.rows, kind)' /\ (c.there \/ c = NoCopy)
  BY <1>1, <1>2, <1>3 DEF CopiesTell
<1>4. \A kind \in Kinds : \A c \in {copies[kind].archive, copies[kind].mirror} : WereMoved(c.rows, kind)'
  BY <1>3
<1>5. \A kind \in Kinds : \A c \in {copies[kind].archive, copies[kind].mirror} : c.there \/ c = NoCopy
  BY <1>3
<1> QED
  BY <1>4, <1>5 DEF CopiesTell, WereMoved

LEMMA ReportsKept ==
  ASSUME ViewTypes, Phases, Truthful, Reports, ViewNext,
         UNCHANGED <<copies, mirror, existing>>, job'.cmd = job.cmd,
         \A p \in DOMAIN issues' : issues'[p] # "moved",
         pc' \in {"open", "scan", "stamp", "move", "report"} /\ ~(job.cmd.op = "scan") => Loaded,
         pc' \in {"report", "report-mirror", "locate"} => Updates,
         pc' = "report-mirror" => pc = "report-mirror",
         pc' \in {"locate", "restamp", "settle", "done"} /\ Updates => Reported
  PROVE  Reports'
<1>1. CopiesTell'
  BY StillTelling DEF Reports
<1>2. (Updates' <=> Updates) /\ (Loaded' <=> Loaded)
  BY DEF Updates, Splitting, Restoring, Loaded, LoadCopy
<1>3. Here(job.cmd.kind)' = Here(job.cmd.kind)
  BY DEF Here, InMirror
<1>4. (HalfReported' <=> HalfReported) /\ (Reported' <=> Reported)
  BY <1>3 DEF HalfReported, Reported, Retire, HasMoved, MovedRows
<1> QED
  BY <1>1, <1>2, <1>4 DEF Reports

(* The report that a split or a restore writes tells what is in the mirror. *)
LEMMA ReportTells ==
  ASSUME ViewTypes, Phases, Truthful, Reports, pc = "report"
  PROVE  /\ ReportRows \in StatusesType /\ MovedRows(ReportRows) = Here(job.cmd.kind)
         /\ WereMoved(ReportRows, job.cmd.kind) /\ job.cmd.kind \in Kinds
<1> DEFINE kind == job.cmd.kind
           c == LoadCopy(kind)
<1>1. kind \in Kinds
  BY CmdType DEF Phases, Restoring, Splitting
<1>2. existing = c
  BY CmdType DEF Reports, Updates, Splitting, Restoring, Loaded
<1>3. c.rows \in StatusesType /\ WereMoved(c.rows, kind)
  <2>1. c = copies[kind].archive \/ c = copies[kind].mirror
    BY <1>1 DEF LoadCopy, Kinds
  <2>2. c.rows \in StatusesType
    BY <1>1, <2>1, FieldTypes DEF CopyType
  <2> QED
    BY <1>1, <2>1, <2>2 DEF Reports, CopiesTell
<1> HIDE DEF c
<1>4. Replay(c.rows, kind) \in StatusesType /\ MovedRows(Replay(c.rows, kind)) = Here(kind)
  BY <1>1, <1>3, ReplayMoved
<1>5. issues \in StatusesType /\ MovedRows(issues) = {}
  BY DEF ViewTypes, Reports, MovedRows
<1>6. SplitRows \in StatusesType /\ MovedRows(SplitRows) = Here(kind)
  <2> DEFINE r == Replay(c.rows, kind)
  <2>1. SplitRows = Merge(r, issues)
    BY DEF SplitRows, c
  <2> HIDE DEF r
  <2>2. r \in StatusesType /\ MovedRows(r) = Here(kind)
    BY <1>4 DEF r
  <2>3. MovedRows(Merge(r, issues)) = MovedRows(r)
    BY <1>5, <2>2, MergeIs
  <2> QED
    BY <1>5, <2>1, <2>2, <2>3, MergeIs
<1>7. ReportRows \in StatusesType /\ MovedRows(ReportRows) = Here(kind)
  BY <1>2, <1>4, <1>6 DEF ReportRows, RestoredRows
<1>8. WereMoved(ReportRows, kind)
  BY <1>7 DEF WereMoved, Here, Truthful
<1> QED
  BY <1>1, <1>7, <1>8

LEMMA ReportsNext ==
  ASSUME ViewTypes, Phases, Truthful, Reports, ViewNext
  PROVE  Reports'
<1> USE DEF Goto, files, outputs, memory
<1>1. ASSUME UNCHANGED <<copies, mirror, existing>>, job'.cmd = job.cmd,
             \A p \in DOMAIN issues' : issues'[p] # "moved",
             pc' = pc \/ <<pc, pc'>> \in {<<"open", "scan">>, <<"scan", "stamp">>, <<"stamp", "move">>,
                                          <<"locate", "restamp">>, <<"locate", "settle">>, <<"locate", "done">>,
                                          <<"restamp", "settle">>, <<"restamp", "done">>, <<"settle", "done">>}
      PROVE  Reports'
  <2>1. /\ pc' \in {"open", "scan", "stamp", "move", "report"} =>
             pc \in {"open", "scan", "stamp", "move", "report"}
        /\ pc' \in {"report", "report-mirror", "locate"} => pc' = pc
        /\ pc' \in {"locate", "restamp", "settle", "done"} => pc \in {"locate", "restamp", "settle", "done"}
    BY <1>1
  <2> QED
    BY <1>1, <2>1, ReportsKept DEF Reports
<1>2. ASSUME NEW cmd, StartRun(cmd) \/ (Resume /\ cmd = job.cmd) PROVE Reports'
  <2>1. job'.cmd = cmd
    BY <1>2 DEF StartRun, Resume, NoJob
  <2>2. /\ UNCHANGED copies /\ existing' = LoadCopy(cmd.kind) /\ issues' = <<>>
        /\ pc' \in {"move", "open"}
    BY <1>2 DEF StartRun, Resume, Begin
  <2>3. CopiesTell'
    BY <2>2, StillTelling DEF Reports
  <2>4. Loaded'
    BY <2>1, <2>2 DEF Loaded, LoadCopy
  <2> QED
    BY <2>2, <2>3, <2>4, NoRows DEF Reports
<1>3. CASE ScanOpen
  <2>1. job'.cmd = job.cmd
    BY <1>3, Opened
  <2> QED
    BY <1>1, <1>3, <2>1 DEF ScanOpen, Reports
<1>4. ASSUME NEW p \in Path, Visit(p) PROVE Reports'
  <2>1. job'.cmd = job.cmd
    BY <1>4 DEF Visit, ViewTypes
  <2> QED
    BY <1>1, <1>4, <2>1 DEF Visit, Reports
<1>5. CASE Place \/ LocateSplit \/ LocateRestored \/ Restamp \/ Settle \/ Tick \/ Mount
  BY <1>1, <1>5 DEF Place, LocateSplit, LocateRestored, Restamp, Settle, Tick, Mount, Reports
<1>6. CASE Stamp
  <2>1. job'.cmd = job.cmd
    BY <1>6 DEF Stamp, ViewTypes
  <2>2. CASE job.cmd.op = "scan"
    <3>1. ~Updates
      BY <2>2 DEF Updates, Splitting, Restoring
    <3> QED
      BY <1>6, <2>1, <2>2, <3>1, ReportsKept DEF Stamp, Reports
  <2>3. CASE job.cmd.op # "scan"
    BY <1>1, <1>6, <2>1, <2>3 DEF Stamp, Reports
  <2> QED
    BY <2>2, <2>3
<1>7. ASSUME NEW p \in Path, MoveOut(p) PROVE Reports'
  <2>1. /\ UNCHANGED <<copies, existing, issues, job, pc>> /\ pc = "move"
    BY <1>7 DEF MoveOut, MayMoveOut
  <2>2. CopiesTell'
    BY <2>1, StillTelling DEF Reports
  <2>3. Loaded' <=> Loaded
    BY <2>1 DEF Loaded, LoadCopy
  <2> QED
    BY <2>1, <2>2, <2>3 DEF Reports
<1>8. ASSUME NEW p \in Path, Refuse(p) \/ Abort(p) PROVE Reports'
  <2>1. /\ UNCHANGED <<copies, mirror, existing, job, pc>> /\ pc = "move"
    BY <1>8 DEF Refuse, Abort, MayMoveOut
  <2>2. \E status \in {"conflict", "skipped"} : issues' = WithRow(issues, p, status)
    BY <1>8 DEF Refuse, Abort
  <2>3. \A q \in DOMAIN issues' : issues'[q] # "moved"
    BY <2>2 DEF WithRow, Reports
  <2> QED
    BY <1>1, <2>1, <2>3
<1>9. ASSUME NEW p \in Path, RestoreOne(p) PROVE Reports'
  <2>1. /\ UNCHANGED <<copies, existing, job, pc>> /\ pc = "move"
        /\ issues' = issues \/ issues' = WithRow(issues, p, "conflict")
    BY <1>9 DEF RestoreOne
  <2>2. \A q \in DOMAIN issues' : issues'[q] # "moved"
    BY <2>1 DEF WithRow, Reports
  <2>3. CopiesTell'
    BY <2>1, StillTelling DEF Reports
  <2>4. Loaded' <=> Loaded
    BY <2>1 DEF Loaded, LoadCopy
  <2> QED
    BY <2>1, <2>2, <2>3, <2>4 DEF Reports
<1>10. CASE Executed
  <2>1. /\ pc = "move" /\ UNCHANGED <<copies, mirror, existing, issues, job>>
        /\ pc' = IF job.cmd.op = "restore" /\ ~job.cmd.update THEN "done"
                 ELSE IF job.cmd.op = "restore" /\ ~existing.there THEN "locate" ELSE "report"
    BY <1>10 DEF Executed
  <2>2. (Restoring \/ Splitting) /\ job.cmd.kind \in Kinds /\ Loaded
    BY <2>1, CmdType DEF Phases, Restoring, Splitting, Reports
  <2>3. CASE pc' = "done"
    <3>1. ~Updates
      BY <2>1, <2>3 DEF Updates, Splitting, Restoring
    <3> QED
      BY <2>1, <2>3, <3>1, ReportsKept DEF Reports
  <2>4. CASE pc' = "locate"
    <3>1. Updates /\ ~existing.there
      BY <2>1, <2>4 DEF Updates, Restoring
    <3>2. Reported
      <4>1. LET copy == copies[job.cmd.kind] IN copy.archive = NoCopy /\ copy.mirror = NoCopy
        BY <2>2, <3>1 DEF Loaded, LoadCopy, Reports, CopiesTell, Kinds
      <4> QED
        BY <3>1, <4>1 DEF Reported, NoCopy
    <3> QED
      BY <2>1, <2>4, <3>1, <3>2, ReportsKept DEF Reports
  <2>5. CASE pc' = "report"
    <3>1. Updates
      BY <2>1, <2>2, <2>5 DEF Updates, Restoring
    <3> QED
      BY <2>1, <2>2, <2>5, <3>1, ReportsKept DEF Reports
  <2> QED
    BY <2>1, <2>3, <2>4, <2>5
<1>11. CASE ReportArchive
  <2> DEFINE kind == job.cmd.kind
             c == IF Retire(ReportRows) THEN NoCopy ELSE Copy(ReportRows)
  <2>1. /\ pc = "report" /\ pc' = "report-mirror" /\ UNCHANGED <<mirror, issues, job>>
        /\ copies' = [copies EXCEPT ![kind]["archive"] = c] /\ existing' = Copy(ReportRows)
    BY <1>11 DEF ReportArchive, WriteCopy
  <2>2. PICK rows : rows = ReportRows
    OBVIOUS
  <2>3. /\ rows \in StatusesType /\ MovedRows(rows) = Here(kind)
        /\ WereMoved(rows, kind) /\ kind \in Kinds
    BY <2>1, <2>2, ReportTells
  <2>4. /\ c = IF Retire(rows) THEN NoCopy ELSE Copy(rows)
        /\ existing' = Copy(rows)
    BY <2>1, <2>2
  <2> HIDE DEF c
  <2>5. /\ copies'[kind].archive = c /\ copies'[kind].mirror = copies[kind].mirror
        /\ \A k \in Kinds : k # kind => copies'[k] = copies[k]
    BY <2>1, <2>3 DEF ViewTypes
  <2>6. UNCHANGED history
    BY <1>11 DEF ReportArchive
  <2>7. \A k, r : WereMoved(r, k)' <=> WereMoved(r, k)
    BY <2>6 DEF WereMoved, Moves, ReadHistory
  <2>8. WereMoved(c.rows, kind) /\ (c.there \/ c = NoCopy)
    BY <2>3, <2>4, NoRows DEF Copy, NoCopy, WereMoved, MovedRows
  <2>9. CopiesTell'
    <3> SUFFICES ASSUME NEW k \in Kinds, NEW d \in {copies'[k].archive, copies'[k].mirror}
                 PROVE  WereMoved(d.rows, k) /\ (d.there \/ d = NoCopy)
      BY <2>7 DEF CopiesTell, WereMoved
    <3>1. d \in {copies[k].archive, copies[k].mirror} \/ (d = c /\ k = kind)
      BY <2>5
    <3> QED
      BY <2>8, <3>1 DEF Reports, CopiesTell
  <2>10. HalfReported'
    <3>1. Here(kind)' = Here(kind)
      BY <2>1 DEF Here, InMirror
    <3>2. existing'.there /\ existing'.rows = rows
      BY <2>4 DEF Copy
    <3>3. Retire(existing.rows)' <=> Retire(rows)
      BY <2>1, <3>2 DEF Retire, HasMoved
    <3> QED
      BY <2>1, <2>3, <2>4, <2>5, <3>1, <3>2, <3>3 DEF HalfReported, MovedRows
  <2>11. Updates'
    BY <2>1 DEF Reports, Updates, Splitting, Restoring
  <2> QED
    BY <2>1, <2>9, <2>10, <2>11 DEF Reports
<1>12. CASE ReportMirror
  <2> DEFINE kind == job.cmd.kind
             c == IF Retire(existing.rows) THEN NoCopy ELSE existing
  <2>1. /\ pc = "report-mirror" /\ pc' = "locate" /\ UNCHANGED <<mirror, issues, job, existing, history>>
        /\ copies' = [copies EXCEPT ![kind].mirror = c]
    BY <1>12 DEF ReportMirror
  <2>2. HalfReported /\ Updates
    BY <2>1 DEF Reports
  <2>3. kind \in Kinds
    BY <2>1, <2>2, CmdType DEF Updates, Phases, Restoring, Splitting
  <2>4. c = copies[kind].archive
    BY <2>2 DEF HalfReported
  <2> HIDE DEF c
  <2>5. /\ copies'[kind].mirror = c /\ copies'[kind].archive = c
        /\ \A k \in Kinds : k # kind => copies'[k] = copies[k]
    BY <2>1, <2>3, <2>4 DEF ViewTypes
  <2>6. CopiesTell'
    <3>1. \A k, r : WereMoved(r, k)' <=> WereMoved(r, k)
      BY <2>1 DEF WereMoved, Moves, ReadHistory
    <3> SUFFICES ASSUME NEW k \in Kinds, NEW d \in {copies'[k].archive, copies'[k].mirror}
                 PROVE  WereMoved(d.rows, k) /\ (d.there \/ d = NoCopy)
      BY <3>1 DEF CopiesTell, WereMoved
    <3>2. d \in {copies[k].archive, copies[k].mirror}
      BY <2>4, <2>5
    <3> QED
      BY <3>2 DEF Reports, CopiesTell
  <2>7. Reported'
    <3>1. Here(kind)' = Here(kind)
      BY <2>1 DEF Here, InMirror
    <3>2. c.there => MovedRows(c.rows) = Here(kind)
      BY <2>2 DEF HalfReported, c, NoCopy
    <3>3. ~c.there => Here(kind) = {}
      BY <2>2 DEF HalfReported, c, Retire, HasMoved, MovedRows
    <3> QED
      BY <2>1, <2>5, <3>1, <3>2, <3>3 DEF Reported, MovedRows
  <2>8. Updates'
    BY <2>1, <2>2 DEF Updates, Splitting, Restoring
  <2> QED
    BY <2>1, <2>6, <2>7, <2>8 DEF Reports
<1>13. ASSUME UNCHANGED copies, issues' = <<>> \/ issues' = issues, pc' = "down" PROVE Reports'
  <2>1. CopiesTell'
    BY <1>13, StillTelling DEF Reports
  <2> QED
    BY <1>13, <2>1, NoRows DEF Reports
<1>14. CASE Finish \/ Crash
  BY <1>13, <1>14 DEF Finish, Crash, Forget
<1>15. CASE Operator
  <2>1. /\ UNCHANGED <<mirror, existing, issues, job, pc, history>>
        /\ UNCHANGED copies \/ \E kind \in Kinds : DeleteCopy(kind)
    BY <1>15 DEF Operator, Edit, Delete, EditRegistry, OwnNote, DeleteRegistry, DeleteCopy
  <2>2. CASE UNCHANGED copies
    BY <1>1, <2>1, <2>2 DEF Reports
  <2>3. ASSUME NEW kind \in Kinds, DeleteCopy(kind) PROVE Reports'
    <3>1. /\ pc = "down" /\ copies' = [copies EXCEPT ![kind].archive = NoCopy]
      BY <2>3 DEF DeleteCopy
    <3>2. /\ copies'[kind].archive = NoCopy /\ copies'[kind].mirror = copies[kind].mirror
          /\ \A k \in Kinds : k # kind => copies'[k] = copies[k]
      BY <3>1 DEF ViewTypes
    <3>3. CopiesTell'
      <4>1. \A k, r : WereMoved(r, k)' <=> WereMoved(r, k)
        BY <2>1 DEF WereMoved, Moves, ReadHistory
      <4> SUFFICES ASSUME NEW k \in Kinds, NEW d \in {copies'[k].archive, copies'[k].mirror}
                   PROVE  WereMoved(d.rows, k) /\ (d.there \/ d = NoCopy)
        BY <4>1 DEF CopiesTell, WereMoved
      <4>2. d \in {copies[k].archive, copies[k].mirror} \/ d = NoCopy
        BY <3>2
      <4>3. WereMoved(NoCopy.rows, k)
        BY NoRows DEF NoCopy, WereMoved, MovedRows
      <4> QED
        BY <4>2, <4>3 DEF Reports, CopiesTell
    <3> QED
      BY <2>1, <3>1, <3>3 DEF Reports
  <2> QED
    BY <2>1, <2>2, <2>3
<1> QED
  BY <1>2, <1>3, <1>4, <1>5, <1>6, <1>7, <1>8, <1>9, <1>10, <1>11, <1>12, <1>14, <1>15 DEF ViewNext
-----------------------------------------------------------------------------
(* What a completed split knows of the archive.                            *)
LEMMA AllStill ==
  ASSUME NoNews, UNCHANGED <<file, mirror, note>>
  PROVE  /\ \A p \in Path : Still(p)
         /\ \A rows, settings, started : \A p \in Path :
              TrueRow(rows, p, settings, started) => TrueRow(rows, p, settings, started)'
         /\ \A notes : \A p \in Path : TrueNotes(notes, p) => TrueNotes(notes, p)'
         /\ \A d \in Notes : d \in OwnedDescriptions' <=> d \in OwnedDescriptions
<1>1. ASSUME NEW p \in Path PROVE Still(p)
  <2>1. \A n \in Names : <<p, n>> \in Notes
    BY DEF Notes
  <2> QED
    BY <2>1 DEF Still, NoNews
<1>2. \A rows, settings, started : \A p \in Path :
        TrueRowAt(rows, p, settings, started, file, mirror, Restored) =>
          TrueRowAt(rows, p, settings, started, file', mirror', Restored')
  BY <1>1, StillTrue
<1>3. \A notes : \A p \in Path :
        TrueNotesAt(notes, p, note, OwnedDescriptions) => TrueNotesAt(notes, p, note', OwnedDescriptions')
  BY <1>1, StillTrue
<1>4. \A d \in Notes : d \in OwnedDescriptions' <=> d \in OwnedDescriptions
  BY OwnedIs DEF NoNews, SameRecords
<1> QED
  BY <1>1, <1>2, <1>3, <1>4 DEF TrueRow, TrueNotes

(* Known, of constants.                                                    *)
KnownRow(p, rows, committed, label, f, settings, started, m, back) ==
  IF p \in committed
    THEN /\ p \in DOMAIN rows /\ f[p] = NoFile
         /\ label \in {"restamp", "settle", "done"} => rows[p].loc = LocationOf(p)
    ELSE TrueRowAt(rows, p, settings, started, f, m, back)

LEMMA KnownIs ==
  Known <=>
    (Splitting /\ job.complete /\ changed = {} =>
       /\ stamp.settings = job.cmd.settings /\ stamp.started = job.started
       /\ \A p \in Path : TrueNotes(registry.notes, p)
       /\ \A p \in Path : KnownRow(p, registry.rows, Committed, pc, file, job.cmd.settings, job.started, mirror, Restored)
       /\ Committed = {} \/ pc \in {"settle", "done"} => registry = stamp.registry)
BY DEF Known, KnownRow, InArchive, TrueRow

LEMMA KnownKept ==
  ASSUME ViewTypes, Known, NoNews, UNCHANGED <<registry, stamp, file, mirror, note, changed, job>>,
         \A q : q \in Committed' <=> q \in Committed,
         pc' \in {"restamp", "settle", "done"} => pc \in {"restamp", "settle", "done"} \/ ~Splitting,
         pc' \in {"settle", "done"} => pc \in {"settle", "done"} \/ ~Splitting
  PROVE  Known'
<1> SUFFICES ASSUME Splitting, job.complete, changed = {}
             PROVE  /\ stamp.settings = job.cmd.settings /\ stamp.started = job.started
                    /\ \A p \in Path : TrueNotes(registry.notes, p)'
                    /\ \A p \in Path : KnownRow(p, registry.rows, Committed', pc', file', job.cmd.settings, job.started,
                                                mirror', Restored')
                    /\ Committed' = {} \/ pc' \in {"settle", "done"} => registry = stamp.registry
  BY DEF Known, KnownRow, InArchive, TrueRow, TrueNotes, Splitting
<1>1. \A p \in Path : TrueNotes(registry.notes, p)'
  BY AllStill, KnownIs DEF TrueNotes
<1>2. \A p \in Path : KnownRow(p, registry.rows, Committed', pc', file', job.cmd.settings, job.started, mirror', Restored')
  BY AllStill, KnownIs DEF KnownRow, TrueRow
<1> QED
  BY <1>1, <1>2, KnownIs

LEMMA KnownNext ==
  ASSUME ViewTypes, Locations, Phases, Truthful, Inventory, Known, ViewNext
  PROVE  Known'
<1> USE DEF Goto, files, outputs, memory
<1>1. ASSUME UNCHANGED <<history, registry, stamp, file, mirror, note, changed, job>>,
             pc' \in {"restamp", "settle", "done"} => pc \in {"restamp", "settle", "done"} \/ ~Splitting,
             pc' \in {"settle", "done"} => pc \in {"settle", "done"} \/ ~Splitting
      PROVE  Known'
  <2>1. NoNews
    BY <1>1, SameNews
  <2>2. Committed' = Committed
    BY <1>1 DEF Committed
  <2> QED
    BY <1>1, <2>1, <2>2, KnownKept
<1>2. ASSUME ~job'.complete \/ ~Splitting' PROVE Known'
  BY <1>2 DEF Known
<1>3. ASSUME NEW cmd, StartRun(cmd) PROVE Known'
  BY <1>2, <1>3 DEF StartRun, NoJob
<1>4. CASE Resume
  BY <1>1, <1>4 DEF Resume, Begin
<1>5. CASE ScanOpen
  <2>1. ~job'.complete
    BY <1>5, Opened DEF ScanOpen, Phases
  <2> QED
    BY <1>2, <2>1
<1>6. ASSUME NEW p \in Path, Visit(p) PROVE Known'
  <2>1. ~job'.complete
    BY <1>6 DEF Visit, Phases, ViewTypes
  <2> QED
    BY <1>2, <2>1
<1>7. CASE Place
  BY <1>2, <1>7 DEF Place, Phases
<1>8. CASE Stamp
  <2>1. /\ pc = "stamp" /\ UNCHANGED <<registry, file, mirror, note, history, changed>>
        /\ stamp' = [registry |-> registry, started |-> job.started, settings |-> job.cmd.settings]
        /\ job' = [job EXCEPT !.complete = TRUE, !.notes = {}, !.id = NoRegistry]
    BY <1>8 DEF Stamp, WriteStamp
  <2>2. job'.cmd = job.cmd /\ job'.run = job.run /\ job'.started = job.started
    BY <2>1 DEF ViewTypes
  <2>3. /\ job.visited = Path /\ registry = [rows |-> job.rows, notes |-> job.notes]
        /\ Scans /\ ~job.complete
    BY <2>1 DEF Phases
  <2>4. SUFFICES ASSUME Splitting, changed = {} PROVE Known'
    BY <2>1, <2>2 DEF Known, Splitting
  <2>5. Committed' = {} /\ NoNews
    <3>1. history[job.run].events = <<>>
      BY <2>3, <2>4 DEF Phases
    <3> QED
      BY <2>1, <2>2, <3>1, SameNews DEF Committed, Range
  <2>6. \A p \in Path : TrueRow(registry.rows, p, job.cmd.settings, job.started) /\ TrueNotes(registry.notes, p)
    BY <2>3, <2>4 DEF Inventory
  <2>7. \A p \in Path : TrueRowAt(registry.rows, p, job.cmd.settings, job.started, file', mirror', Restored')
                     /\ TrueNotesAt(registry.notes, p, note', OwnedDescriptions')
    BY <2>1, <2>5, <2>6, AllStill DEF TrueRow, TrueNotes
  <2> QED
    BY <2>1, <2>2, <2>5, <2>7 DEF Known, TrueRow, TrueNotes
<1>9. ASSUME NEW p \in Path, MoveOut(p) PROVE Known'
  <2>1. /\ UNCHANGED <<registry, stamp, job, changed, pc>> /\ pc = "move"
        /\ p \notin Committed /\ file[p] # NoFile
    BY <1>9 DEF MoveOut, MayMoveOut, Tried
  <2>2. SUFFICES ASSUME Splitting, job.complete, changed = {} PROVE Known'
    BY <2>1 DEF Known, Splitting
  <2>3. PICK n \in Names : MovedOut(p, n)
    BY <1>9, MoveOutNews
  <2>4. /\ mirror' = [mirror EXCEPT ![p] = IF @ = NoFile THEN file[p] ELSE @]
        /\ file' = [file EXCEPT ![p] = NoFile]
        /\ note' = [note EXCEPT ![<<p, n>>] = "owned"]
        /\ <<p, n>> \in Notes
    BY <1>9, <2>3 DEF MoveOut, MovedOut
  <2>5. ASSUME NEW q \in Path, q # p PROVE Still(q)
    <3>1. \A m \in Names : <<q, m>> \in Notes /\ <<q, m>> # <<p, n>>
      BY <2>5 DEF Notes
    <3> QED
      BY <2>3, <2>4, <2>5, <3>1 DEF Still, MovedOut, ViewTypes
  <2>6. \A q \in Path : TrueNotes(registry.notes, q)
    BY <2>2 DEF Known
  <2>7. <<p, n>> \notin registry.notes
    <3>1. note[<<p, n>>] = "owned" => <<p, n>> \in OwnedDescriptions
      BY <2>4, OwnedIs DEF Truthful
    <3>2. note[<<p, n>>] \in {"owned", "none"}
      <4>1. n = Name(p) /\ <<p, 1>> \in Notes /\ <<p, 2>> \in Notes
        BY <2>3 DEF MovedOut, Notes, Names
      <4>2. note[<<p, 2>>] # "operator"
        BY DEF Truthful
      <4>3. CASE \E m \in Names : note[<<p, m>>] = "owned"
        BY <4>1, <4>3 DEF Name
      <4>4. CASE ~\E m \in Names : note[<<p, m>>] = "owned"
        <5>1. n = IF note[<<p, 1>>] = "none" THEN 1 ELSE 2
          BY <4>1, <4>4 DEF Name
        <5>2. note[<<p, 2>>] \in {"none", "owned", "operator"}
          BY <4>1 DEF ViewTypes
        <5>3. ~(note[<<p, 2>>] = "owned")
          BY <4>4 DEF Names
        <5> QED
          BY <4>2, <5>1, <5>2, <5>3
      <4> QED
        BY <4>3, <4>4
    <3>3. TrueNotesAt(registry.notes, p, note, OwnedDescriptions)
      BY <2>6 DEF TrueNotes
    <3> QED
      BY <3>1, <3>2, <3>3 DEF TrueNotesAt
  <2>8. TrueNotesAt(registry.notes, p, note', OwnedDescriptions')
    <3> SUFFICES ASSUME NEW m \in Names
                 PROVE  <<p, m>> \in registry.notes <=> note'[<<p, m>>] # "none" /\ <<p, m>> \notin OwnedDescriptions'
      BY DEF TrueNotesAt
    <3>1. <<p, m>> \in Notes
      BY DEF Notes
    <3>2. CASE m = n
      <4>1. <<p, n>> \in OwnedDescriptions'
        BY <2>3, <2>4, OwnedIs DEF MovedOut
      <4> QED
        BY <2>7, <3>2, <4>1
    <3>3. CASE m # n
      <4>1. SameRecords(<<p, m>>) /\ note'[<<p, m>>] = note[<<p, m>>]
        BY <2>3, <2>4, <3>1, <3>3 DEF MovedOut, ViewTypes
      <4>2. <<p, m>> \in OwnedDescriptions' <=> <<p, m>> \in OwnedDescriptions
        BY <3>1, <4>1, OwnedIs DEF SameRecords
      <4> QED
        BY <2>6, <4>1, <4>2 DEF TrueNotes, TrueNotesAt
    <3> QED
      BY <3>2, <3>3
  <2>9. \A q \in Path : TrueNotesAt(registry.notes, q, note', OwnedDescriptions')
    BY <2>5, <2>6, <2>8, StillTrue DEF TrueNotes
  <2>10. \A q : q \in Committed' <=> q \in Committed \/ q = p
    BY <2>3 DEF MovedOut
  <2>11. ASSUME NEW q \in Path
         PROVE  KnownRow(q, registry.rows, Committed', pc', file', job.cmd.settings, job.started, mirror', Restored')
    <3>1. KnownRow(q, registry.rows, Committed, pc, file, job.cmd.settings, job.started, mirror, Restored)
      BY <2>2, KnownIs
    <3>2. CASE q = p
      BY <2>1, <2>4, <2>10, <3>1, <3>2 DEF KnownRow, TrueRowAt, ViewTypes
    <3>3. CASE q # p
      BY <2>1, <2>5, <2>10, <3>1, <3>3, StillTrue DEF KnownRow, Still
    <3> QED
      BY <3>2, <3>3
  <2>12. Committed' # {} /\ pc' = "move"
    BY <2>1, <2>10
  <2>13. stamp.settings = job.cmd.settings /\ stamp.started = job.started
    BY <2>2 DEF Known
  <2> QED
    BY <2>1, <2>9, <2>11, <2>12, <2>13 DEF Known, KnownRow, TrueRow, TrueNotes, InArchive
<1>10. ASSUME NEW p \in Path, Refuse(p) PROVE Known'
  BY <1>1, <1>10 DEF Refuse, MayMoveOut
<1>11. ASSUME NEW p \in Path, Abort(p) PROVE Known'
  BY <1>11, AbortNews, KnownKept DEF Abort, MayMoveOut
<1>12. ASSUME NEW p \in Path, RestoreOne(p) PROVE Known'
  BY <1>2, <1>12 DEF RestoreOne, Splitting
<1>13. CASE Executed \/ ReportArchive \/ ReportMirror
  BY <1>1, <1>13 DEF Executed, ReportArchive, ReportMirror, Splitting
<1>14. CASE LocateRestored
  BY <1>2, <1>14 DEF LocateRestored, Splitting
<1>15. CASE LocateSplit
  <2>1. UNCHANGED <<stamp, file, mirror, note, history, changed, job>> /\ pc = "locate"
    BY <1>15 DEF LocateSplit
  <2>2. SUFFICES ASSUME Splitting, job.complete, changed = {} PROVE Known'
    BY <2>1 DEF Known, Splitting
  <2>3. NoNews /\ Committed' = Committed
    BY <2>1, SameNews DEF Committed
  <2>4. CASE Committed # {} /\ registry.rows # <<>>
    <3>1. registry' = [registry EXCEPT !.rows = SetLocations(registry.rows, Committed)] /\ pc' = "restamp"
      BY <1>15, <2>4 DEF LocateSplit, SetLocations
    <3>2. registry'.rows = SetLocations(registry.rows, Committed) /\ registry'.notes = registry.notes
      BY <3>1 DEF ViewTypes, RegistryType
    <3>3. DOMAIN registry.rows \subseteq Path /\ \A p \in DOMAIN registry.rows : registry.rows[p] \in AnyRow
      BY FieldTypes, RowsAre
    <3>4. /\ DOMAIN registry'.rows = DOMAIN registry.rows
          /\ \A p \in DOMAIN registry.rows :
               IF p \in Committed THEN registry'.rows[p].loc = LocationOf(p)
               ELSE registry'.rows[p] = registry.rows[p]
      BY <3>2, <3>3 DEF SetLocations, AnyRow
    <3>5. ASSUME NEW q \in Path
          PROVE  KnownRow(q, registry'.rows, Committed', pc', file', job.cmd.settings, job.started, mirror', Restored')
      <4>1. KnownRow(q, registry.rows, Committed, pc, file, job.cmd.settings, job.started, mirror, Restored)
        BY <2>2, KnownIs
      <4>2. Still(q)
        BY <2>1, <2>3, AllStill
      <4>3. CASE q \in Committed
        BY <2>1, <2>3, <3>4, <4>1, <4>3 DEF KnownRow
      <4>4. CASE q \notin Committed
        <5>1. TrueRowAt(registry.rows, q, job.cmd.settings, job.started, file', mirror', Restored')
          BY <4>1, <4>2, <4>4, StillTrue DEF KnownRow
        <5>2. TrueRowAt(registry'.rows, q, job.cmd.settings, job.started, file', mirror', Restored')
          BY <3>4, <4>4, <5>1 DEF TrueRowAt
        <5> QED
          BY <2>3, <4>4, <5>2 DEF KnownRow
      <4> QED
        BY <4>3, <4>4
    <3>6. \A q \in Path : TrueNotesAt(registry'.notes, q, note', OwnedDescriptions')
      BY <2>1, <2>2, <2>3, <3>2, AllStill DEF Known, TrueNotes
    <3>7. stamp.settings = job.cmd.settings /\ stamp.started = job.started
      BY <2>2 DEF Known
    <3> QED
      BY <2>1, <2>3, <2>4, <3>1, <3>5, <3>6, <3>7 DEF Known, KnownRow, TrueRow, TrueNotes, InArchive
  <2>5. CASE ~(Committed # {} /\ registry.rows # <<>>)
    <3>1. UNCHANGED registry /\ pc' = "settle"
      BY <1>15, <2>5 DEF LocateSplit
    <3>2. Committed = {}
      <4> SUFFICES ASSUME NEW p \in Committed PROVE FALSE
        OBVIOUS
      <4>1. p \in Path
        BY <2>1, <2>2, CommittedPaths
      <4>2. p \in DOMAIN registry.rows
        BY <2>2, <4>1 DEF Known
      <4> QED
        BY <2>5, <4>2, NoRows
    <3>3. \A q \in Path : KnownRow(q, registry.rows, Committed', pc', file', job.cmd.settings, job.started, mirror', Restored')
      <4>1. \A q \in Path : KnownRow(q, registry.rows, Committed, pc, file, job.cmd.settings, job.started, mirror, Restored)
        BY <2>2, KnownIs
      <4> QED
        BY <2>1, <2>3, <3>2, <4>1, AllStill, StillTrue DEF KnownRow
    <3>4. \A q \in Path : TrueNotesAt(registry.notes, q, note', OwnedDescriptions')
      BY <2>1, <2>2, <2>3, AllStill DEF Known, TrueNotes
    <3>5. stamp.settings = job.cmd.settings /\ stamp.started = job.started /\ registry = stamp.registry
      BY <2>2, <3>2 DEF Known
    <3> QED
      BY <2>1, <3>1, <3>3, <3>4, <3>5 DEF Known, KnownRow, TrueRow, TrueNotes, InArchive
  <2> QED
    BY <2>4, <2>5
<1>16. CASE Restamp
  <2>1. SUFFICES ASSUME Splitting, job.complete, changed = {} PROVE Known'
    BY <1>16 DEF Restamp, Known, Splitting
  <2>2. /\ pc = "restamp" /\ pc' = "settle" /\ UNCHANGED <<registry, file, mirror, note, history, changed, job>>
        /\ stamp' = [registry |-> registry, started |-> job.started, settings |-> job.cmd.settings]
    BY <1>16, <2>1 DEF Restamp, WriteStamp, Splitting
  <2>3. NoNews /\ Committed' = Committed
    BY <2>2, SameNews DEF Committed
  <2>4. \A q \in Path : KnownRow(q, registry.rows, Committed', pc', file', job.cmd.settings, job.started, mirror', Restored')
    <3>1. \A q \in Path : KnownRow(q, registry.rows, Committed, pc, file, job.cmd.settings, job.started, mirror, Restored)
      BY <2>1, KnownIs
    <3> QED
      BY <2>2, <2>3, <3>1, AllStill, StillTrue DEF KnownRow
  <2>5. \A q \in Path : TrueNotesAt(registry.notes, q, note', OwnedDescriptions')
    BY <2>1, <2>2, <2>3, AllStill DEF Known, TrueNotes
  <2> QED
    BY <2>2, <2>4, <2>5 DEF Known, KnownRow, TrueRow, TrueNotes, InArchive
<1>17. CASE Settle
  <2>1. UNCHANGED <<history, registry, stamp, file, mirror, note, changed, job>> /\ pc = "settle" /\ pc' = "done"
    BY <1>17 DEF Settle
  <2> QED
    BY <1>1, <2>1
<1>18. CASE Finish
  BY <1>2, <1>18 DEF Finish, NoJob
<1>19. CASE Tick \/ Crash \/ Mount
  BY <1>1, <1>19 DEF Tick, Crash, Mount
<1>20. CASE Operator
  <2>1. UNCHANGED <<stamp, history, job, pc>>
    BY <1>20 DEF Operator
  <2>2. CASE \E kind \in Kinds : DeleteCopy(kind)
    BY <1>1, <2>1, <2>2 DEF DeleteCopy
  <2>3. CASE \E p \in Path : Edit(p) \/ Delete(p) \/ EditRegistry(p) \/ OwnNote(p)
    <3>1. changed' # {}
      BY <2>3 DEF Edit, Delete, EditRegistry, OwnNote
    <3> QED
      BY <3>1 DEF Known
  <2>4. CASE DeleteRegistry
    <3>1. CASE Path = {}
      <4>1. registry = NoRegistry
        <5>1. registry.rows \in [{} -> AnyRow] /\ registry.notes = {}
          BY <3>1, FieldTypes, RowsAre DEF Notes
        <5>2. registry.rows = <<>>
          BY <5>1
        <5> QED
          BY <5>1, <5>2 DEF NoRegistry, ViewTypes, RegistryType
      <4>2. changed = changed'
        BY <2>4, <3>1 DEF DeleteRegistry, ViewTypes
      <4> QED
        BY <1>1, <2>1, <2>4, <4>1, <4>2 DEF DeleteRegistry
    <3>2. CASE Path # {}
      BY <2>4, <3>2 DEF DeleteRegistry, Known
    <3> QED
      BY <3>1, <3>2
  <2> QED
    BY <1>20, <2>2, <2>3, <2>4 DEF Operator
<1> QED
  BY <1>3, <1>4, <1>5, <1>6, <1>7, <1>8, <1>9, <1>10, <1>11, <1>12, <1>13, <1>14, <1>15, <1>16, <1>17, <1>18,
     <1>19, <1>20 DEF ViewNext
-----------------------------------------------------------------------------
(* After a split that nobody disturbed.  A later start only makes more     *)
(* rows true.                                                              *)
LEMMA TrueLater ==
  ASSUME ViewTypes, Truthful, NEW p \in Path, NEW rows, NEW settings, NEW s \in Nat, NEW t \in Nat, s <= t,
         TrueRow(rows, p, settings, s)
  PROVE  TrueRow(rows, p, settings, t)
<1>1. file[p].mtime \in Nat
  BY FieldTypes DEF Version
<1>2. p \in DOMAIN Restored => Restored[p] \in Nat
  BY RestoredTime
<1>3. ASSUME file[p].mtime < s PROVE file[p].mtime < t
  BY <1>1, <1>3
<1>4. ASSUME ~BackSince(Restored, p, s) PROVE ~BackSince(Restored, p, t)
  BY <1>2, <1>4 DEF BackSince
<1> QED
  BY <1>3, <1>4 DEF TrueRow, TrueRowAt

(* What the split left, and what a scan with its settings has of it.       *)
Left(settings, started) ==
  /\ registry = stamp.registry /\ stamp.settings = settings
  /\ \A p \in Path : TrueRow(registry.rows, p, settings, started) /\ TrueNotes(registry.notes, p)
SameAt(p, rows, notes, rows2, notes2) ==
  /\ p \in DOMAIN rows <=> p \in DOMAIN rows2
  /\ p \in DOMAIN rows => rows[p] = rows2[p]
  /\ \A n \in Names : <<p, n>> \in notes <=> <<p, n>> \in notes2
LEMMA UndisturbedIs ==
  Undisturbed <=>
    /\ quiet # 0 =>
         /\ Left(quiet, stamp.started)
         /\ pc # "restamp"
         /\ pc = "stamp" => job.cmd.settings = quiet
         /\ Splitting /\ pc # "done" => Committed = {}
    /\ Repeating => \A p \in job.visited : SameAt(p, job.rows, job.notes, registry.rows, registry.notes)
    /\ Repeating /\ pc = "scan" =>
         /\ base.registry = registry /\ base.reusable /\ base.started = stamp.started
         /\ \A p \in DOMAIN kept : kept[p] = [registry.rows[p] EXCEPT !.loc = LocationOf(p)]
         /\ skip = OwnedDescriptions
BY DEF Undisturbed, Left, SameAt

LEMMA LeftKept ==
  ASSUME NoNews, UNCHANGED <<registry, stamp, file, mirror, note>>, NEW settings, NEW started, Left(settings, started)
  PROVE  Left(settings, started)'
<1>1. \A p \in Path : TrueRow(registry.rows, p, settings, started)' /\ TrueNotes(registry.notes, p)'
  BY AllStill DEF Left, TrueRow, TrueNotes
<1> QED
  BY <1>1 DEF Left

LEMMA UndisturbedKept ==
  ASSUME Undisturbed, NoNews, UNCHANGED <<registry, stamp, file, mirror, note, quiet>>,
         job'.cmd = job.cmd, job'.complete = job.complete, job'.visited = job.visited, job'.rows = job.rows,
         job'.notes = job.notes, \A q : q \in Committed' <=> q \in Committed,
         quiet # 0 => pc' # "restamp", pc' = "stamp" => pc = "stamp",
         Splitting /\ pc' # "done" => pc # "done",
         pc' # "scan"
  PROVE  Undisturbed'
<1>1. quiet # 0 => Left(quiet, stamp.started)'
  BY LeftKept, UndisturbedIs
<1>2. \A p \in job.visited :
        SameAt(p, job.rows, job.notes, registry.rows, registry.notes)' <=> SameAt(p, job.rows, job.notes, registry.rows, registry.notes)
  BY DEF SameAt
<1>3. (Repeating' <=> Repeating) /\ (Splitting' <=> Splitting)
  BY DEF Repeating, Scans, Splitting
<1>4. quiet # 0 =>
         /\ Left(quiet, stamp.started)' /\ pc' # "restamp"
         /\ pc' = "stamp" => job.cmd.settings = quiet
         /\ Splitting /\ pc' # "done" => Committed' = {}
  BY <1>1, UndisturbedIs
<1>5. quiet # 0 => \A p \in Path : TrueRow(registry.rows, p, quiet, stamp.started)' /\ TrueNotes(registry.notes, p)'
  BY <1>4 DEF Left, TrueRow, TrueNotes
<1>6. quiet # 0 => registry' = stamp'.registry /\ stamp'.settings = quiet'
  BY <1>4 DEF Left
<1>7. Repeating' => \A p \in job'.visited :
       /\ p \in DOMAIN job'.rows <=> p \in DOMAIN registry'.rows
       /\ p \in DOMAIN job'.rows => job'.rows[p] = registry'.rows[p]
       /\ \A n \in Names : <<p, n>> \in job'.notes <=> <<p, n>> \in registry'.notes
  BY <1>3 DEF Undisturbed
<1> QED
  BY <1>3, <1>4, <1>5, <1>6, <1>7 DEF Undisturbed, TrueRow, TrueNotes

(* The row that the scan writes is the row that the split left.            *)
LEMMA VisitedSame ==
  ASSUME ViewTypes, Locations, Phases, Truthful, Inventory, Undisturbed, Repeating, NEW p \in Path, Visit(p)
  PROVE  SameAt(p, job'.rows, job'.notes, registry.rows, registry.notes)
<1>1. /\ pc = "scan" /\ p \notin job.visited
      /\ job'.rows = IF file[p] # NoFile THEN WithRow(job.rows, p, PresentRow(p))
                     ELSE IF p \in DOMAIN kept THEN WithRow(job.rows, p, kept[p]) ELSE job.rows
      /\ job'.notes = job.notes \cup {d \in {p} \X Names : note[d] # "none" /\ d \notin skip}
  BY DEF Visit, ViewTypes
<1>2. /\ base.registry = registry /\ base.reusable /\ base.started = stamp.started
      /\ \A q \in DOMAIN kept : kept[q] = [registry.rows[q] EXCEPT !.loc = LocationOf(q)]
      /\ skip = OwnedDescriptions /\ quiet = job.cmd.settings
  BY <1>1 DEF Undisturbed, Repeating
<1>3. /\ TrueRowAt(registry.rows, p, quiet, stamp.started, file, mirror, Restored)
      /\ TrueNotesAt(registry.notes, p, note, OwnedDescriptions)
  BY UndisturbedIs DEF Repeating, Left, TrueRow, TrueNotes
<1>4. ASSUME NEW n \in Names PROVE <<p, n>> \in job'.notes <=> <<p, n>> \in registry.notes
  <2>1. <<p, n>> \notin job.notes
    <3>1. \A d \in job.notes : d[1] # p
      BY <1>1 DEF Phases
    <3> QED
      BY <3>1
  <2> QED
    BY <1>1, <1>2, <1>3, <2>1 DEF TrueNotesAt
<1>5. p \notin DOMAIN job.rows
  BY <1>1 DEF Phases
<1>6. DOMAIN registry.rows \subseteq Path /\ \A q \in DOMAIN registry.rows : registry.rows[q] \in AnyRow
  BY FieldTypes, RowsAre
<1> DEFINE row == registry.rows[p]
           Same == SameAt(p, job'.rows, job'.notes, registry.rows, registry.notes)
<1>7. ASSUME NEW r, job'.rows = WithRow(job.rows, p, r), p \in DOMAIN registry.rows, r = row PROVE Same
  <2>1. p \in DOMAIN job'.rows /\ job'.rows[p] = r
    BY <1>7 DEF WithRow
  <2> QED
    BY <1>4, <1>7, <2>1 DEF SameAt
<1>8. CASE file[p] # NoFile
  <2>1. /\ p \in DOMAIN registry.rows /\ row.loc = "archive" /\ row.mtime = file[p].mtime
        /\ \/ row.val = Detect(file[p], quiet)
           \/ row.mtime < stamp.started /\ ~BackSince(Restored, p, stamp.started)
    BY <1>3, <1>8 DEF TrueRowAt
  <2>2. CASE Reusable(p)
    BY <1>1, <1>2, <1>7, <1>8, <2>1, <2>2 DEF PresentRow
  <2>3. CASE ~Reusable(p)
    <3>1. ~(row.mtime < stamp.started /\ ~BackSince(Restored, p, stamp.started))
      BY <1>2, <2>1, <2>3 DEF Reusable, Unchanged, RestoredSinceBase, BackSince
    <3>2. row.val = Detect(file[p], quiet)
      BY <2>1, <3>1
    <3>3. PresentRow(p) = Row("archive", file[p].mtime, Detect(file[p], quiet))
      BY <1>2, <2>3 DEF PresentRow
    <3>4. row = Row("archive", file[p].mtime, Detect(file[p], quiet))
      <4>1. row \in AnyRow
        BY <1>6, <2>1
      <4> HIDE DEF row
      <4> QED
        BY <2>1, <3>2, <4>1 DEF AnyRow, Row
    <3> QED
      BY <1>1, <1>7, <1>8, <2>1, <3>3, <3>4
  <2> QED
    BY <2>2, <2>3
<1>9. CASE file[p] = NoFile /\ p \in DOMAIN kept
  <2>1. InMirror(p)
    BY <1>1, <1>9 DEF Inventory
  <2>2. p \in DOMAIN registry.rows /\ row.loc # "archive"
    BY <1>3, <1>9, <2>1 DEF TrueRowAt, InMirror
  <2>3. row.loc = LocationOf(p)
    BY <2>2 DEF Locations, Placed
  <2>4. kept[p] = row
    <3>1. row \in AnyRow /\ kept[p] = [row EXCEPT !.loc = LocationOf(p)]
      BY <1>2, <1>6, <1>9, <2>2
    <3> HIDE DEF row
    <3> QED
      BY <2>3, <3>1 DEF AnyRow
  <2> QED
    BY <1>1, <1>7, <1>9, <2>2, <2>4
<1>10. CASE file[p] = NoFile /\ p \notin DOMAIN kept
  <2>1. ~InMirror(p)
    BY <1>1, <1>10 DEF Inventory
  <2>2. p \notin DOMAIN registry.rows
    BY <1>3, <1>10, <2>1 DEF TrueRowAt, InMirror
  <2> QED
    BY <1>1, <1>4, <1>5, <1>10, <2>2 DEF SameAt
<1> QED
  BY <1>8, <1>9, <1>10

(* What it places is what the split left.                                  *)
LEMMA PlacedSame ==
  ASSUME ViewTypes, Phases, Undisturbed, Repeating, job.visited = Path
  PROVE  [rows |-> job.rows, notes |-> job.notes] = registry
<1>1. \A p \in Path : SameAt(p, job.rows, job.notes, registry.rows, registry.notes)
  BY UndisturbedIs
<1>2. /\ job.rows \in [DOMAIN job.rows -> AnyRow] /\ DOMAIN job.rows \subseteq Path
      /\ registry.rows \in [DOMAIN registry.rows -> AnyRow] /\ DOMAIN registry.rows \subseteq Path
  BY FieldTypes, RowsAre
<1>3. DOMAIN job.rows = DOMAIN registry.rows /\ \A p \in DOMAIN job.rows : job.rows[p] = registry.rows[p]
  BY <1>1, <1>2 DEF SameAt
<1>4. job.rows = registry.rows
  BY <1>2, <1>3
<1>5. job.notes = registry.notes
  <2>1. job.notes \subseteq Path \X Names /\ registry.notes \subseteq Path \X Names
    BY FieldTypes DEF Notes
  <2>2. \A d \in Path \X Names : d \in job.notes <=> d \in registry.notes
    BY <1>1 DEF SameAt
  <2> QED
    BY <2>1, <2>2
<1> QED
  BY <1>4, <1>5 DEF ViewTypes, RegistryType

LEMMA UndisturbedNext ==
  ASSUME ViewTypes, Locations, Phases, Truthful, Reuse, Inventory, Known, Undisturbed, ViewNext
  PROVE  Undisturbed'
<1> USE DEF Goto, files, outputs, memory
<1>1. ASSUME quiet' = 0 PROVE Undisturbed'
  BY <1>1 DEF Undisturbed, Repeating
<1>2. ASSUME UNCHANGED <<history, registry, stamp, file, mirror, note, quiet, job>>,
             quiet # 0 => pc' # "restamp", pc' = "stamp" => pc = "stamp",
             Splitting /\ pc' # "done" => pc # "done",
             pc' # "scan"
      PROVE  Undisturbed'
  <2>1. NoNews /\ Committed' = Committed
    BY <1>2, SameNews DEF Committed
  <2> QED
    BY <1>2, <2>1, UndisturbedKept
<1>3. ASSUME NEW cmd, StartRun(cmd) PROVE Undisturbed'
  <2>1. /\ job'.cmd = cmd /\ ~job'.complete /\ job'.visited = {} /\ pc' \in {"open", "move"}
        /\ UNCHANGED <<registry, stamp, file, mirror, note, quiet>>
    BY <1>3 DEF StartRun, Begin, NoJob
  <2>2. NoNews
    BY <1>3, StartNews
  <2>3. Splitting' => Committed' = {}
    BY <1>3, <2>1, StartNews DEF Splitting
  <2>4. quiet # 0 => Left(quiet, stamp.started)'
    BY <2>1, <2>2, LeftKept, UndisturbedIs
  <2> QED
    BY <2>1, <2>3, <2>4 DEF Undisturbed, Left, TrueRow, TrueNotes
<1>4. CASE Resume
  <2>1. pc = "down" /\ pc' \in {"open", "move"} /\ UNCHANGED <<history, registry, stamp, file, mirror, note, quiet, job>>
    BY <1>4 DEF Resume, Begin
  <2> QED
    BY <1>2, <2>1
<1>5. CASE ScanOpen
  <2>2. /\ job'.cmd = job.cmd /\ job'.run = job.run /\ ~job'.complete
        /\ job'.visited = {} \/ (/\ job'.visited = job.visited /\ job'.rows = job.rows /\ job'.notes = job.notes)
    BY <1>5, Opened DEF ScanOpen, Phases
  <2>3. /\ pc = "open" /\ pc' = "scan" /\ UNCHANGED <<registry, stamp, file, mirror, note, history, quiet>>
        /\ base' = OpenBase /\ kept' = [p \in Moved |-> PreservedRow(OpenBase, p)] /\ skip' = OwnedDescriptions
    BY <1>5 DEF ScanOpen
  <2>4. SUFFICES ASSUME quiet # 0 PROVE Undisturbed'
    BY <1>1, <2>3
  <2>5. NoNews /\ Committed' = Committed
    BY <2>2, <2>3, SameNews DEF Committed
  <2>6. Left(quiet, stamp.started) /\ Left(quiet, stamp.started)'
    BY <2>3, <2>4, <2>5, LeftKept, UndisturbedIs
  <2>7. Splitting' => Committed' = {}
    BY <2>2, <2>3, <2>4, <2>5 DEF Undisturbed, Splitting
  <2>8. Repeating' => Repeating
    BY <2>2, <2>3, <1>5 DEF Repeating, Scans, Phases
  <2>9. Repeating' => \A p \in job'.visited : SameAt(p, job'.rows, job'.notes, registry.rows, registry.notes)
    BY <2>2, <2>8, UndisturbedIs
  <2>10. ASSUME Repeating'
         PROVE  /\ base'.registry = registry /\ base'.reusable /\ base'.started = stamp.started
                /\ \A p \in DOMAIN kept' : kept'[p] = [registry.rows[p] EXCEPT !.loc = LocationOf(p)]
    <3>1. Stamped /\ stamp.settings = job.cmd.settings
      BY <2>6, <2>8, <2>10 DEF Left, Stamped, Repeating
    <3>2. OpenBase.registry = registry /\ OpenBase.reusable /\ OpenBase.started = stamp.started
      BY <3>1 DEF OpenBase
    <3>3. ASSUME NEW p \in Moved PROVE PreservedRow(OpenBase, p) = [registry.rows[p] EXCEPT !.loc = LocationOf(p)]
      <4>1. p \in Path
        BY DEF Moved, ReplayMoves
      <4>2. mirror[p] # NoFile
        BY <4>1, MovedIs DEF Truthful, InMirror
      <4>3. p \in DOMAIN registry.rows
        BY <2>6, <4>1, <4>2 DEF Left, TrueRow, TrueRowAt
      <4> QED
        BY <3>2, <4>3 DEF PreservedRow
    <3> QED
      BY <2>3, <3>2, <3>3
  <2>11. skip' = OwnedDescriptions'
    <3>1. \A d \in Notes : d \in OwnedDescriptions' <=> d \in OwnedDescriptions
      BY <2>3, <2>5, AllStill
    <3>2. OwnedDescriptions \subseteq Notes /\ OwnedDescriptions' \subseteq Notes
      BY DEF OwnedDescriptions, Notes
    <3> QED
      BY <2>3, <3>1, <3>2
  <2> QED
    BY <2>3, <2>6, <2>7, <2>9, <2>10, <2>11 DEF Undisturbed, Left, TrueRow, TrueNotes, SameAt
<1>6. ASSUME NEW p \in Path, Visit(p) PROVE Undisturbed'
  <2>1. /\ job'.cmd = job.cmd /\ job'.run = job.run /\ job'.complete = job.complete
        /\ job'.visited = job.visited \cup {p} /\ pc = "scan" /\ pc' = "scan"
        /\ UNCHANGED <<registry, stamp, file, mirror, note, history, base, kept, skip, quiet>>
    BY <1>6 DEF Visit, ViewTypes
  <2>2. SUFFICES ASSUME quiet # 0 PROVE Undisturbed'
    BY <1>1, <2>1
  <2>3. NoNews /\ Committed' = Committed
    BY <2>1, SameNews DEF Committed
  <2>4. Left(quiet, stamp.started)'
    BY <2>1, <2>2, <2>3, LeftKept, UndisturbedIs
  <2>5. Repeating' <=> Repeating
    BY <2>1 DEF Repeating, Scans
  <2>6. ASSUME Repeating, NEW q \in job'.visited
        PROVE  SameAt(q, job'.rows, job'.notes, registry.rows, registry.notes)
    <3>1. CASE q = p
      BY <1>6, <2>6, <3>1, VisitedSame
    <3>2. CASE q # p
      <4>1. q \in job.visited /\ q \in Path
        BY <2>1, <2>6, <3>2, FieldTypes
      <4>2. SameAt(q, job.rows, job.notes, registry.rows, registry.notes)
        BY <2>6, <4>1, UndisturbedIs
      <4> QED
        BY <1>6, <3>2, <4>1, <4>2, VisitedOthers DEF SameAt
    <3> QED
      BY <3>1, <3>2
  <2>7. skip' = OwnedDescriptions' <=> skip = OwnedDescriptions
    <3>1. \A d \in Notes : d \in OwnedDescriptions' <=> d \in OwnedDescriptions
      BY <2>1, <2>3, AllStill
    <3>2. OwnedDescriptions \subseteq Notes /\ OwnedDescriptions' \subseteq Notes
      BY DEF OwnedDescriptions, Notes
    <3> QED
      BY <2>1, <3>1, <3>2
  <2>8. (Splitting /\ pc # "done" => Committed = {})'
    BY <2>1, <2>2, <2>3 DEF Undisturbed, Splitting
  <2>9. Repeating' => \A q \in job'.visited : SameAt(q, job'.rows, job'.notes, registry.rows, registry.notes)
    BY <2>5, <2>6
  <2>10. Repeating /\ pc = "scan" =>
         /\ base.registry = registry /\ base.reusable /\ base.started = stamp.started
         /\ \A q \in DOMAIN kept : kept[q] = [registry.rows[q] EXCEPT !.loc = LocationOf(q)]
         /\ skip = OwnedDescriptions
    BY UndisturbedIs
  <2>11. quiet' # 0 =>
           /\ registry' = stamp'.registry /\ stamp'.settings = quiet'
           /\ \A q \in Path : TrueRow(registry.rows, q, quiet, stamp.started)' /\ TrueNotes(registry.notes, q)'
    BY <2>1, <2>4 DEF Left, TrueRow, TrueNotes
  <2>12. Repeating' => \A q \in job'.visited :
           /\ q \in DOMAIN job'.rows <=> q \in DOMAIN registry'.rows
           /\ q \in DOMAIN job'.rows => job'.rows[q] = registry'.rows[q]
           /\ \A n \in Names : <<q, n>> \in job'.notes <=> <<q, n>> \in registry'.notes
    BY <2>1, <2>9 DEF SameAt
  <2>13. Repeating' /\ pc' = "scan" =>
         /\ base'.registry = registry' /\ base'.reusable /\ base'.started = stamp'.started
         /\ \A q \in DOMAIN kept' : kept'[q] = [registry'.rows[q] EXCEPT !.loc = LocationOf(q)]
         /\ skip' = OwnedDescriptions'
    BY <2>1, <2>5, <2>7, <2>10
  <2> QED
    BY <2>1, <2>8, <2>11, <2>12, <2>13 DEF Undisturbed, TrueRow, TrueNotes
<1>7. CASE Place
  <2>1. /\ pc = "scan" /\ pc' = "stamp" /\ job.visited = Path
        /\ registry' = [rows |-> job.rows, notes |-> job.notes]
        /\ quiet' = IF quiet = job.cmd.settings THEN quiet ELSE 0
        /\ UNCHANGED <<file, mirror, note, history, stamp, job>>
    BY <1>7 DEF Place
  <2>2. SUFFICES ASSUME quiet = job.cmd.settings, quiet # 0, quiet' = quiet PROVE Undisturbed'
    BY <1>1, <2>1
  <2>3. Repeating
    BY <2>1, <2>2 DEF Repeating, Phases
  <2>4. registry' = registry
    BY <2>1, <2>3, PlacedSame
  <2>5. NoNews /\ Committed' = Committed
    BY <2>1, SameNews DEF Committed
  <2>6. Left(quiet, stamp.started)'
    BY <2>1, <2>2, <2>4, <2>5, LeftKept, UndisturbedIs
  <2>7. \A p \in job.visited : SameAt(p, job.rows, job.notes, registry.rows, registry.notes)
    BY <2>3, UndisturbedIs
  <2>8. (Splitting /\ pc # "done" => Committed = {})'
    BY <2>1, <2>2, <2>5 DEF Undisturbed, Splitting
  <2> QED
    BY <2>1, <2>2, <2>4, <2>6, <2>7, <2>8 DEF Undisturbed, Left, TrueRow, TrueNotes, SameAt
<1>8. CASE Stamp
  <2>1. /\ pc = "stamp" /\ pc' \in {"done", "move"} /\ UNCHANGED <<registry, file, mirror, note, history, quiet>>
        /\ stamp' = [registry |-> registry, started |-> job.started, settings |-> job.cmd.settings]
        /\ job' = [job EXCEPT !.complete = TRUE, !.notes = {}, !.id = NoRegistry]
    BY <1>8 DEF Stamp, WriteStamp
  <2>2. job'.cmd = job.cmd /\ job'.run = job.run /\ job'.complete
    BY <2>1 DEF ViewTypes
  <2>3. SUFFICES ASSUME quiet # 0 PROVE Undisturbed'
    BY <1>1, <2>1
  <2>4. NoNews /\ Committed' = Committed
    BY <2>1, <2>2, SameNews DEF Committed
  <2>5. job.cmd.settings = quiet /\ Left(quiet, stamp.started)
    BY <2>1, <2>3, UndisturbedIs
  <2>6. stamp.started <= job.started /\ stamp.started \in Nat /\ job.started \in Nat
    BY <2>1, FieldTypes DEF Reuse, Phases, ViewTypes
  <2>7. \A p \in Path : TrueRow(registry.rows, p, quiet, job.started) /\ TrueNotes(registry.notes, p)
    BY <2>5, <2>6, TrueLater DEF Left
  <2>8. \A p \in Path : TrueRowAt(registry.rows, p, quiet, job.started, file', mirror', Restored')
                     /\ TrueNotesAt(registry.notes, p, note', OwnedDescriptions')
    BY <2>1, <2>4, <2>7, AllStill DEF TrueRow, TrueNotes
  <2>9. ~Repeating' /\ (Splitting' => Committed' = {})
    BY <2>1, <2>2, <2>3, <2>4 DEF Repeating, Undisturbed, Splitting
  <2> QED
    BY <2>1, <2>2, <2>5, <2>8, <2>9 DEF Undisturbed, TrueRow, TrueNotes
<1>9. ASSUME NEW p \in Path, MoveOut(p) \/ RestoreOne(p) PROVE Undisturbed'
  BY <1>1, <1>9 DEF MoveOut, RestoreOne
<1>10. ASSUME NEW p \in Path, Refuse(p) PROVE Undisturbed'
  BY <1>2, <1>10 DEF Refuse, MayMoveOut
<1>11. ASSUME NEW p \in Path, Abort(p) PROVE Undisturbed'
  <2>1. pc = "move" /\ UNCHANGED <<registry, stamp, file, mirror, note, quiet, job, pc>>
    BY <1>11 DEF Abort, MayMoveOut
  <2> QED
    BY <1>11, <2>1, AbortNews, UndisturbedKept
<1>12. CASE Executed \/ ReportArchive \/ ReportMirror
  BY <1>2, <1>12 DEF Executed, ReportArchive, ReportMirror
<1>13. CASE LocateSplit
  <2>1. SUFFICES ASSUME quiet # 0 PROVE Undisturbed'
    BY <1>1, <1>13 DEF LocateSplit
  <2>2. Committed = {}
    BY <1>13, <2>1 DEF LocateSplit, Undisturbed, Splitting
  <2>3. /\ UNCHANGED <<registry, history, stamp, file, mirror, note, quiet, job>> /\ pc = "locate" /\ pc' = "settle"
    BY <1>13, <2>2 DEF LocateSplit
  <2> QED
    BY <1>2, <2>3
<1>14. CASE LocateRestored
  <2>1. SUFFICES ASSUME quiet # 0 PROVE Undisturbed'
    BY <1>1, <1>14 DEF LocateRestored
  <2> DEFINE back == {p \in DOMAIN registry.rows :
                        p \in DOMAIN ReplayMoves(job.cmd.kind).restored /\ registry.rows[p].loc = LocationOf(p)}
  <2>2. back = {}
    <3> SUFFICES ASSUME NEW p \in back PROVE FALSE
      OBVIOUS
    <3>1. /\ p \in Path /\ p \in DOMAIN registry.rows /\ registry.rows[p].loc # "archive"
          /\ Moves(job.cmd.kind, p) # {} /\ Returns(job.cmd.kind, p) # {}
      BY FieldTypes, RowsAre, PlacesType DEF ReplayMoves
    <3>2. job.cmd.kind = KindOf[p]
      BY <3>1, OneKind
    <3>3. ~InMirror(p)
      BY <3>1, <3>2 DEF Truthful
    <3>4. TrueRowAt(registry.rows, p, quiet, stamp.started, file, mirror, Restored)
      BY <2>1, <3>1, UndisturbedIs DEF Left, TrueRow
    <3> QED
      BY <3>1, <3>3, <3>4 DEF TrueRowAt, InMirror
  <2>3. /\ UNCHANGED <<registry, history, stamp, file, mirror, note, quiet, job>> /\ pc = "locate" /\ pc' = "done"
    BY <1>14, <2>2 DEF LocateRestored
  <2> QED
    BY <1>2, <2>3
<1>15. CASE Restamp
  BY <1>1, <1>15 DEF Restamp, Undisturbed
<1>16. CASE Settle
  <2>1. /\ pc = "settle" /\ pc' = "done" /\ quiet' = (IF changed = {} THEN job.cmd.settings ELSE 0)
        /\ UNCHANGED <<registry, stamp, file, mirror, note, history, job>>
    BY <1>16 DEF Settle
  <2>2. SUFFICES ASSUME changed = {}, quiet' = job.cmd.settings, quiet' # 0 PROVE Undisturbed'
    BY <1>1, <2>1
  <2>3. Splitting /\ job.complete
    BY <2>1 DEF Phases
  <2>4. /\ stamp.settings = job.cmd.settings /\ stamp.started = job.started /\ registry = stamp.registry
        /\ \A p \in Path : TrueNotes(registry.notes, p)
        /\ \A p \in Path : KnownRow(p, registry.rows, Committed, pc, file, job.cmd.settings, job.started, mirror, Restored)
    BY <2>1, <2>2, <2>3, KnownIs
  <2>5. ASSUME NEW p \in Path PROVE TrueRow(registry.rows, p, job.cmd.settings, stamp.started)
    <3>1. CASE p \in Committed
      <4>1. mirror[p] # NoFile
        BY <2>3, <3>1 DEF Truthful, InMirror
      <4>2. p \in DOMAIN registry.rows /\ file[p] = NoFile /\ registry.rows[p].loc # "archive"
        BY <2>1, <2>4, <3>1, PlacesType DEF KnownRow
      <4> QED
        BY <4>1, <4>2 DEF TrueRow, TrueRowAt
    <3>2. CASE p \notin Committed
      BY <2>4, <3>2 DEF KnownRow, TrueRow
    <3> QED
      BY <3>1, <3>2
  <2>6. NoNews
    BY <2>1, SameNews
  <2>7. Left(job.cmd.settings, stamp.started)'
    <3>1. Left(job.cmd.settings, stamp.started)
      BY <2>4, <2>5 DEF Left
    <3> QED
      BY <2>1, <2>6, <3>1, LeftKept
  <2> QED
    BY <2>1, <2>2, <2>3, <2>7 DEF Undisturbed, Repeating, Left, TrueRow, TrueNotes
<1>17. CASE Finish
  <2>1. /\ job' = NoJob /\ pc' = "down" /\ UNCHANGED <<registry, stamp, file, mirror, note, history, quiet>>
    BY <1>17 DEF Finish
  <2>2. ~Scans' /\ ~Splitting'
    BY <2>1 DEF NoJob, Idle, Scans, Splitting
  <2>3. quiet # 0 => Left(quiet, stamp.started)'
    BY <2>1, SameNews, LeftKept, UndisturbedIs
  <2> QED
    BY <2>1, <2>2, <2>3 DEF Undisturbed, Repeating, Left, TrueRow, TrueNotes
<1>18. CASE Tick
  <2>1. UNCHANGED <<registry, stamp, file, mirror, note, history, quiet, job, base, kept, skip, pc>>
    BY <1>18 DEF Tick
  <2>2. NoNews /\ Committed' = Committed
    BY <2>1, SameNews DEF Committed
  <2>3. quiet # 0 => Left(quiet, stamp.started)'
    BY <2>1, <2>2, LeftKept, UndisturbedIs
  <2>4. OwnedDescriptions' = OwnedDescriptions
    <3>1. \A d \in Notes : d \in OwnedDescriptions' <=> d \in OwnedDescriptions
      BY <2>1, <2>2, AllStill
    <3>2. OwnedDescriptions \subseteq Notes /\ OwnedDescriptions' \subseteq Notes
      BY DEF OwnedDescriptions, Notes
    <3> QED
      BY <3>1, <3>2
  <2> QED
    BY <2>1, <2>2, <2>3, <2>4 DEF Undisturbed, Repeating, Scans, Splitting, Left, TrueRow, TrueNotes
<1>19. CASE Crash \/ Mount
  BY <1>2, <1>19 DEF Crash, Mount
<1>20. CASE Operator
  BY <1>1, <1>20 DEF Operator
<1> QED
  BY <1>3, <1>4, <1>5, <1>6, <1>7, <1>8, <1>9, <1>10, <1>11, <1>12, <1>13, <1>14, <1>15, <1>16, <1>17, <1>18,
     <1>19, <1>20 DEF ViewNext
-----------------------------------------------------------------------------
(* The invariant holds at first, and through steps that change nothing.    *)
LEMMA InvInit == ViewInit => RegistryInv
<1> SUFFICES ASSUME ViewInit PROVE RegistryInv
  OBVIOUS
<1> USE DEF ViewInit, ViewStart
<1>1. ViewTypes
  BY TypesInit
<1>2. job = NoJob /\ pc = "down" /\ registry = NoRegistry /\ stamp = NoStamp /\ base = NoBase /\ kept = <<>>
      /\ history = <<>> /\ quiet = 0 /\ issues = <<>>
  OBVIOUS
<1>3. /\ job.cmd = Idle /\ ~job.complete /\ job.rows = <<>> /\ job.visited = {} /\ job.notes = {} /\ job.started = 0
      /\ ~Scans /\ ~Splitting /\ ~Restoring /\ job.cmd.op # "scan"
  BY <1>2 DEF NoJob, Idle, Scans, Splitting, Restoring
<1>4. Placed(<<>>) /\ \A started, settings, f, back : Honest(<<>>, started, settings, f, back)
  BY NoRows DEF Placed, Honest
<1>5. Locations
  BY <1>2, <1>3, <1>4, NoRows DEF Locations, NoRegistry, NoStamp, NoBase
<1>6. Phases
  BY <1>2, <1>3, NoRows DEF Phases
<1>7. Truthful
  <2>1. DOMAIN history = {} /\ \A kind, p : Moves(kind, p) = {}
    BY <1>2 DEF Moves, ReadHistory
  <2>2. \A p \in Path : file[p].data # 0 /\ mirror[p] = NoFile
    OBVIOUS
  <2>3. \A d \in Notes : note[d] = "none"
    BY DEF Notes
  <2>4. \A p \in Path : <<p, 2>> \in Notes
    BY DEF Notes, Names
  <2> QED
    BY <1>3, <2>1, <2>2, <2>3, <2>4 DEF Truthful, InMirror
<1>8. Reuse
  <2>1. stamp.started = 0 /\ stamp.registry.rows = <<>>
    BY <1>2 DEF NoStamp, NoRegistry
  <2>2. Honest(stamp.registry.rows, stamp.started, stamp.settings, file, Restored)
    BY <1>4, <2>1
  <2> QED
    BY <1>1, <1>2, <1>3, <2>1, <2>2 DEF Reuse, ViewTypes
<1>9. Inventory /\ Known /\ Undisturbed
  BY <1>2, <1>3 DEF Inventory, Known, Undisturbed, Repeating
<1>10. Reports
  <2>1. \A kind \in Kinds : copies[kind].archive = NoCopy /\ copies[kind].mirror = NoCopy
    OBVIOUS
  <2> QED
    BY <1>2, <2>1, NoRows DEF Reports, CopiesTell, NoCopy, WereMoved, MovedRows
<1> QED
  BY <1>1, <1>5, <1>6, <1>7, <1>8, <1>9, <1>10 DEF RegistryInv

LEMMA InvStep == RegistryInv /\ [ViewNext]_viewVars => RegistryInv'
<1>1. ASSUME RegistryInv, ViewNext PROVE RegistryInv'
  BY <1>1, TypesNext, LocationsNext, PhasesNext, TruthfulNext, ReuseNext, InventoryNext, ReportsNext, KnownNext,
     UndisturbedNext DEF RegistryInv
<1>2. ASSUME RegistryInv, UNCHANGED viewVars PROVE RegistryInv'
  <2> USE <1>2 DEF viewVars
  <2>1. NoNews /\ Committed' = Committed
    BY SameNews DEF Committed
  <2>2. ViewTypes' /\ Locations' /\ Phases'
    BY DEF RegistryInv, ViewTypes, Locations, Phases, Placed, Scans, Splitting, Restoring
  <2>3. Truthful'
    <3>1. Unlogged /\ EventsTrue'
      BY <2>1, SameNews DEF Unlogged, RegistryInv
    <3> QED
      BY <2>1, <3>1, TruthfulKept DEF RegistryInv, Truthful, Splitting, InMirror
  <2>4. Drift(clock, file, Restored, file', Restored')
    BY <2>1 DEF Drift, NoNews, SameMoves
  <2>5. \A d \in Notes : d \in OwnedDescriptions' <=> d \in OwnedDescriptions
    BY <2>1, AllStill
  <2>6. OwnedDescriptions' = OwnedDescriptions
    <3>1. OwnedDescriptions \subseteq Notes /\ OwnedDescriptions' \subseteq Notes
      BY DEF OwnedDescriptions, Notes
    <3> QED
      BY <2>5, <3>1
  <2>7. Restored' = Restored
    BY DEF Restored, ReplayMoves, Moves, Returns, ReadHistory
  <2>8. Reuse'
    BY <2>7 DEF RegistryInv, Reuse, Scans, Restoring
  <2>9. Inventory'
    BY <2>6, <2>7 DEF RegistryInv, Inventory, Scans, TrueRow, TrueNotes, InMirror
  <2>10. Reports'
    <3>1. \A rows, kind : WereMoved(rows, kind)' <=> WereMoved(rows, kind)
      BY DEF WereMoved, Moves, ReadHistory
    <3>2. CopiesTell'
      BY <3>1 DEF RegistryInv, Reports, CopiesTell, WereMoved
    <3>3. Here(job.cmd.kind)' = Here(job.cmd.kind)
      BY DEF Here, InMirror
    <3>4. /\ Loaded' <=> Loaded
          /\ Updates' <=> Updates
          /\ HalfReported' <=> HalfReported
          /\ Reported' <=> Reported
      BY <3>3 DEF Loaded, LoadCopy, Updates, Splitting, Restoring, HalfReported, Reported, Retire, HasMoved, MovedRows
    <3> QED
      BY <3>2, <3>4 DEF RegistryInv, Reports
  <2>11. Known'
    BY <2>1, KnownKept DEF RegistryInv
  <2>12. Undisturbed'
    BY <2>1, <2>6, <2>7 DEF RegistryInv, Undisturbed, Repeating, Scans, Splitting, TrueRow, TrueNotes
  <2> QED
    BY <2>2, <2>3, <2>8, <2>9, <2>10, <2>11, <2>12 DEF RegistryInv
<1> QED
  BY <1>1, <1>2
-----------------------------------------------------------------------------
(* RegistryInv holds in every state, with any paths, any payload kinds of  *)
(* them, and any commands the operator may run in any order.               *)
THEOREM RegistryInvariant == ViewSpec => []RegistryInv
<1>1. ViewInit => RegistryInv
  BY InvInit
<1>2. RegistryInv /\ [ViewNext]_viewVars => RegistryInv'
  BY InvStep
<1> QED
  BY <1>1, <1>2, PTL DEF ViewSpec

(* A row of a present file, reused or detected, is what detection would    *)
(* say of the file now, whatever crashes, restores and edits came between  *)
(* (baseStream.at, preparePreserved).                                      *)
THEOREM RowsAreTrue == ViewSpec => []RowsTrue
<1>1. RegistryInv => RowsTrue
  <2> SUFFICES ASSUME RegistryInv, pc = "stamp", NEW p \in DOMAIN registry.rows \ changed,
                      registry.rows[p].loc = "archive", registry.rows[p].val # Typed
               PROVE  /\ registry.rows[p].mtime = file[p].mtime
                      /\ registry.rows[p].val = Detect(file[p], job.cmd.settings)
    BY DEF RowsTrue
  <2>1. job.visited = Path /\ registry = [rows |-> job.rows, notes |-> job.notes] /\ Scans /\ ~job.complete
    BY DEF RegistryInv, Phases
  <2>2. registry.rows = job.rows /\ p \in Path
    BY <2>1, FieldTypes, RowsAre DEF RegistryInv
  <2>3. TrueRow(job.rows, p, job.cmd.settings, job.started)
    BY <2>1, <2>2 DEF RegistryInv, Inventory
  <2> QED
    BY <2>2, <2>3 DEF TrueRow, TrueRowAt
<1> QED
  BY <1>1, RegistryInvariant, PTL

(* A scan leaves a row for exactly what is in the archive or in its        *)
(* mirror, and none for a description of arxgo's own (loadArchiveView,     *)
(* ownedDescriptions).                                                     *)
THEOREM InventoryIsOne == ViewSpec => []OneInventory
<1>1. RegistryInv => OneInventory
  <2> SUFFICES ASSUME RegistryInv, pc = "stamp" PROVE OneInventory
    BY DEF OneInventory
  <2>1. job.visited = Path /\ registry = [rows |-> job.rows, notes |-> job.notes] /\ Scans /\ ~job.complete
    BY DEF RegistryInv, Phases
  <2>2. registry.rows = job.rows /\ registry.notes = job.notes
    BY <2>1
  <2>3. \A p \in Path \ changed : TrueRowAt(registry.rows, p, job.cmd.settings, job.started, file, mirror, Restored)
                               /\ TrueNotesAt(registry.notes, p, note, OwnedDescriptions)
    BY <2>1, <2>2 DEF RegistryInv, Inventory, TrueRow, TrueNotes
  <2>4. \A p \in Path \ changed :
          /\ p \in DOMAIN registry.rows <=> file[p] # NoFile \/ mirror[p] # NoFile
          /\ p \in DOMAIN registry.rows => (registry.rows[p].loc = "archive" <=> file[p] # NoFile)
    BY <2>3 DEF TrueRowAt
  <2>5. ASSUME NEW d \in Path \X Names, d[1] \notin changed
        PROVE  /\ note[d] = "owned" => d \notin registry.notes
               /\ /\ note[d] = "operator"
                  /\ \A i \in DOMAIN history : \A e \in Range(history[i].events) : <<e.path, e.note>> # d
                  => d \in registry.notes
    <3>1. d \in Notes /\ d = <<d[1], d[2]>> /\ d[1] \in Path /\ d[2] \in Names
      BY DEF Notes
    <3>2. d \in registry.notes <=> note[d] # "none" /\ d \notin OwnedDescriptions
      BY <2>3, <2>5, <3>1 DEF TrueNotesAt
    <3>3. note[d] = "owned" => d \in OwnedDescriptions
      BY <3>1, OwnedIs DEF RegistryInv, Truthful
    <3>4. ASSUME d \in OwnedDescriptions
          PROVE  \E i \in DOMAIN history : \E e \in Range(history[i].events) : <<e.path, e.note>> = d
      <4>1. Records(d) # {}
        BY <3>1, <3>4, OwnedIs
      <4>2. PICK x \in Records(d) : TRUE
        BY <4>1
      <4>3. /\ x[1] \in DOMAIN history /\ x[2] \in DOMAIN history[x[1]].events
            /\ history[x[1]].events[x[2]].path = d[1] /\ history[x[1]].events[x[2]].note = d[2]
        BY <4>2 DEF Records
      <4>4. history[x[1]].events[x[2]] \in Range(history[x[1]].events)
        BY <4>3 DEF Range
      <4> QED
        BY <3>1, <4>3, <4>4
    <3> QED
      BY <3>2, <3>3, <3>4
  <2> QED
    BY <2>4, <2>5 DEF OneInventory
<1> QED
  BY <1>1, RegistryInvariant, PTL

(* Once a split or restore has updated the payload registries, both copies *)
(* are the same and call moved exactly what is in the mirror: the replay   *)
(* of every run's log makes up for runs that died before they reported     *)
(* (writeVideoOutputs, writeRestoreOutputs).                               *)
THEOREM StatusesAreTrue == ViewSpec => []StatusTruth
<1>1. RegistryInv => StatusTruth
  <2> SUFFICES ASSUME RegistryInv, pc = "done", Updates PROVE StatusTruth
    BY DEF StatusTruth, Updates, Splitting, Restoring
  <2>1. Reported
    BY DEF RegistryInv, Reports
  <2>2. Here(job.cmd.kind) = {p \in Path : KindOf[p] = job.cmd.kind /\ mirror[p] # NoFile}
    BY DEF Here, InMirror
  <2> QED
    BY <2>1, <2>2 DEF StatusTruth, Reported, MovedRows
<1> QED
  BY <1>1, RegistryInvariant, PTL

(* After a completed split, as long as the operator changes nothing, a     *)
(* scan with the same settings places the very registry the split left     *)
(* (updateSplitLocations, baseStream.at).                                  *)
THEOREM NothingChanges == ViewSpec => NothingToChange
<1>1. ASSUME RegistryInv, [ViewNext]_viewVars, pc = "scan", pc' = "stamp", quiet = job.cmd.settings
      PROVE  registry' = registry
  <2>1. Place
    BY <1>1 DEF ViewNext, viewVars, StartRun, Resume, Begin, ScanOpen, Stamp, Visit, MoveOut, Refuse, Abort, RestoreOne,
                MayMoveOut, Executed, ReportArchive, ReportMirror, LocateSplit, LocateRestored, Restamp, Settle, Finish,
                Tick, Crash, Mount, Operator, Goto, memory
  <2>2. job.visited = Path /\ registry' = [rows |-> job.rows, notes |-> job.notes]
    BY <2>1 DEF Place
  <2>3. Repeating
    <3>1. Scans /\ ~job.complete /\ job.cmd.settings # 0
      BY <1>1, CmdType DEF RegistryInv, Phases
    <3> QED
      BY <1>1, <3>1 DEF Repeating
  <2> QED
    BY <1>1, <2>2, <2>3, PlacedSame DEF RegistryInv
<1>2. RegistryInv /\ [ViewNext]_viewVars =>
        [pc = "scan" /\ pc' = "stamp" /\ quiet = job.cmd.settings => registry' = registry]_viewVars
  BY <1>1
<1> QED
  BY <1>2, RegistryInvariant, PTL DEF ViewSpec, NothingToChange
=============================================================================
