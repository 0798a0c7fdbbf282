----------------------------- MODULE MirrorDirs -----------------------------
(***************************************************************************)
(* The directories around a restore (archive/restore_dirs.go): the parents *)
(* it makes in the archive, level by level with the mode of the mirror's   *)
(* directory, and the mirror's directories that it empties and removes,    *)
(* known from the logs of every run of the payload.                        *)
(*                                                                         *)
(* A transfer is two steps here, the move and its commit (Transfer has the *)
(* rest).  Runs of other kinds come between and may replace one that was   *)
(* interrupted; whoever starts first commits what lies open.               *)
(***************************************************************************)
EXTENDS Integers, Sequences, FiniteSets, SequencesExt

CONSTANTS
  Payload,       \* the payload files, in the order of the candidate list
  Masked,        \* directories whose mode the umask would change
  MaxRestores,   \* processes that restore
  MaxInterrupts, \* of those, how many die
  MaxTouches     \* changes by the operator

Above(f) == {SubSeq(f, 1, n) : n \in 1..(Len(f) - 1)}
Folder == UNION {Above(Payload[i]) : i \in DOMAIN Payload}

(* A path is a sequence of names, and no file is a directory too.          *)
PathName == UNION {ToSet(Payload[i]) : i \in DOMAIN Payload}
ASSUME PayloadAssumption ==
  Payload \in Seq(Seq(PathName) \ {<<>>}) /\ ToSet(Payload) \cap Folder = {}

VARIABLES
  mode,      \* [Folder -> "none", "masked" or "full"] in the archive
  blocked,   \* a file of the operator is in the place of a directory
  mirrorDir, \* directories of the mirror
  foreign,   \* those that hold a file of the operator
  stuck,    \* the one that cannot be removed
  inArchive, inMirror,  \* where the payload files are
  uncommitted, \* moved by a transaction that is open
  logged,    \* committed restores of all runs
  restore,   \* the running restore
  torn,      \* directories made by a process that died before their mode was set
  restores, interrupts, touches

dirsVars == <<mode, blocked, mirrorDir, foreign, stuck, inArchive, inMirror, uncommitted, logged,
              restore, torn, restores, interrupts, touches>>

Off == [pc |-> "off", create |-> FALSE, keep |-> FALSE, at |-> 0, todo |-> {}]
Step(pc) == restore.pc = pc
To(pc) == [restore EXCEPT !.pc = pc]
Current == Payload[restore.at]
-----------------------------------------------------------------------------
DirsStart == blocked = {} /\ foreign = {} /\ stuck = {} /\ inArchive = {} /\ uncommitted = {}
             /\ logged = {} /\ restore = Off /\ torn = {} /\ interrupts = 0 /\ touches = 0
DirsInit ==
  /\ DirsStart /\ restores = 0
  /\ \E gone \in SUBSET Folder :
       /\ \A d \in gone, e \in Folder : IsPrefix(d, e) => e \in gone
       /\ mode = [d \in Folder |-> IF d \in gone THEN "none" ELSE "full"]
  /\ mirrorDir = Folder /\ inMirror = ToSet(Payload)
DirsIdle == DirsStart /\ restores = MaxRestores /\ mode = <<>> /\ mirrorDir = {} /\ inMirror = {}

Quiet == UNCHANGED <<stuck, restores, interrupts, touches>>

(* Recovery commits the open transaction; then the candidates are listed.  *)
BeginDirs(create, keep) ==
  /\ Step("off") /\ restores < MaxRestores
  /\ restores' = restores + 1
  /\ \E u \in {{}} \cup {{d} : d \in mirrorDir} : stuck' = u
  /\ logged' = logged \cup uncommitted /\ uncommitted' = {}
  /\ restore' = [pc |-> "next", create |-> create, keep |-> keep, at |-> 1, todo |-> {}]
  /\ UNCHANGED <<mode, blocked, mirrorDir, foreign, inArchive, inMirror, torn, interrupts, touches>>

(* The next candidate; one that is not in the mirror is none.              *)
NextCandidate ==
  /\ Step("next")
  /\ restore' = IF restore.at > Len(Payload)
                THEN IF restore.keep THEN To("done") ELSE To("plan")
                ELSE IF Current \in inMirror THEN To("dirs") ELSE [restore EXCEPT !.at = @ + 1]
  /\ Quiet /\ UNCHANGED <<mode, blocked, mirrorDir, foreign, inArchive, inMirror, uncommitted, logged, torn>>

(* ensureRestoreDirs: the parent is there; or it is not and the file is    *)
(* skipped, or it is made from the top; a file in the way fails the run.   *)
Lacking == {d \in Above(Current) : mode[d] = "none"}
Highest == CHOOSE d \in Lacking : \A e \in Lacking : Len(d) <= Len(e)
EnsureRestoreDirs ==
  /\ Step("dirs")
  /\ restore' = CASE Above(Current) \cap blocked # {} -> To("failed")
                  [] Above(Current) \cap blocked = {} /\ Lacking = {} -> To("move")
                  [] OTHER -> IF restore.create THEN To("make") ELSE [restore EXCEPT !.pc = "next", !.at = @ + 1]
  /\ Quiet /\ UNCHANGED <<mode, blocked, mirrorDir, foreign, inArchive, inMirror, uncommitted, logged, torn>>

MakeDir ==
  /\ Step("make")
  /\ mode' = [mode EXCEPT ![Highest] = IF Highest \in Masked THEN "masked" ELSE "full"]
  /\ restore' = [To("chmod") EXCEPT !.todo = {Highest}]
  /\ Quiet /\ UNCHANGED <<blocked, mirrorDir, foreign, inArchive, inMirror, uncommitted, logged, torn>>
ChmodDir ==
  /\ Step("chmod")
  /\ mode' = [d \in Folder |-> IF d \in restore.todo THEN "full" ELSE mode[d]]
  /\ restore' = [To("dirs") EXCEPT !.todo = {}]
  /\ Quiet /\ UNCHANGED <<blocked, mirrorDir, foreign, inArchive, inMirror, uncommitted, logged, torn>>

Move ==
  /\ Step("move")
  /\ inArchive' = inArchive \cup {Current}
  /\ inMirror' = IF restore.keep THEN inMirror ELSE inMirror \ {Current}
  /\ uncommitted' = {Current} /\ restore' = To("commit")
  /\ Quiet /\ UNCHANGED <<mode, blocked, mirrorDir, foreign, logged, torn>>
Commit ==
  /\ Step("commit")
  /\ logged' = logged \cup uncommitted /\ uncommitted' = {}
  /\ restore' = [restore EXCEPT !.pc = "next", !.at = @ + 1]
  /\ Quiet /\ UNCHANGED <<mode, blocked, mirrorDir, foreign, inArchive, inMirror, torn>>

(* pruneRestoredDirs: the directories of all restores that were logged,    *)
(* deepest first; one that holds something or cannot be removed is kept.   *)
PlanPrune ==
  /\ Step("plan")
  /\ restore' = [To("prune") EXCEPT !.todo = UNION {Above(f) : f \in logged}]
  /\ Quiet /\ UNCHANGED <<mode, blocked, mirrorDir, foreign, inArchive, inMirror, uncommitted, logged, torn>>
Occupied(d) ==
  \/ d \in foreign
  \/ \E e \in mirrorDir \cup inMirror : Front(e) = d
(* Mutant of NextDir: parents come before what they hold.                  *)
NextDirShallow(todo) == CHOOSE d \in todo : \A e \in todo : Len(d) <= Len(e)
NextDir(todo) == CHOOSE d \in todo : \A e \in todo : Len(d) >= Len(e)
PruneDir ==
  /\ Step("prune")
  /\ IF restore.todo = {} THEN restore' = To("done") /\ UNCHANGED mirrorDir
     ELSE LET d == NextDir(restore.todo)
          IN  /\ mirrorDir' = IF Occupied(d) \/ d \in stuck THEN mirrorDir ELSE mirrorDir \ {d}
              /\ restore' = [restore EXCEPT !.todo = @ \ {d}]
  /\ Quiet /\ UNCHANGED <<mode, blocked, foreign, inArchive, inMirror, uncommitted, logged, torn>>

EndDirs ==
  /\ restore.pc \in {"done", "failed"} /\ restore' = Off
  /\ Quiet /\ UNCHANGED <<mode, blocked, mirrorDir, foreign, inArchive, inMirror, uncommitted, logged, torn>>
Interrupt ==
  /\ restore.pc \notin {"off", "done", "failed"} /\ interrupts < MaxInterrupts
  /\ interrupts' = interrupts + 1
  /\ torn' = IF Step("chmod") THEN torn \cup restore.todo ELSE torn
  /\ restore' = Off
  /\ UNCHANGED <<mode, blocked, mirrorDir, foreign, stuck, inArchive, inMirror, uncommitted, logged,
                 restores, touches>>

(* A split in between: it commits what lies open and moves a file out.     *)
SplitBack(f) ==
  /\ Step("off") /\ f \in inArchive \ inMirror /\ restores < MaxRestores
  /\ logged' = logged \cup uncommitted /\ uncommitted' = {}
  /\ inArchive' = inArchive \ {f} /\ inMirror' = inMirror \cup {f}
  /\ mirrorDir' = mirrorDir \cup Above(f)
  /\ Quiet /\ UNCHANGED <<mode, blocked, foreign, restore, torn>>

(* The operator removes an empty directory of the archive, leaves a file   *)
(* where one was, or puts a file into one of the mirror.                   *)
BareDir(d) == mode[d] # "none" /\ ~\E e \in inArchive \cup {x \in Folder : mode[x] # "none"} : Front(e) = d
Touch ==
  /\ touches < MaxTouches /\ restores < MaxRestores /\ touches' = touches + 1
  /\ \/ /\ Step("off")
        /\ \E d \in Folder : BareDir(d) /\ mode' = [mode EXCEPT ![d] = "none"] /\ torn' = torn \ {d}
        /\ UNCHANGED <<blocked, foreign>>
     \/ /\ Step("off")
        /\ \E d \in Folder :
             /\ mode[d] = "none" /\ \A e \in Above(d) : mode[e] # "none"
             /\ blocked' = blocked \cup {d}
        /\ UNCHANGED <<mode, foreign, torn>>
     \/ \E d \in mirrorDir : foreign' = foreign \cup {d} /\ UNCHANGED <<mode, blocked, torn>>
  /\ UNCHANGED <<mirrorDir, stuck, inArchive, inMirror, uncommitted, logged, restore, restores, interrupts>>

DirsNext ==
  \/ \E create, keep \in BOOLEAN : BeginDirs(create, keep)
  \/ NextCandidate \/ EnsureRestoreDirs \/ MakeDir \/ ChmodDir \/ Move \/ Commit
  \/ PlanPrune \/ PruneDir \/ EndDirs \/ Interrupt \/ Touch
  \/ \E f \in inArchive : SplitBack(f)
DirsSpec == DirsInit /\ [][DirsNext]_dirsVars
-----------------------------------------------------------------------------
(* However restores are interrupted and whatever runs in between: one that *)
(* finishes leaves no empty directory of the mirror that it can remove and *)
(* that a restore ever took a file from; no other directory is removed,    *)
(* and none that holds something; a restored file lies in directories that *)
(* are there, with the mirror's mode unless a process died as it made one. *)
MirrorTidy ==
  LET emptied == UNION {Above(f) : f \in logged}
  IN  /\ Step("done") /\ ~restore.keep => \A d \in (mirrorDir \cap emptied) \ stuck : Occupied(d)
      /\ DOMAIN mode \ mirrorDir \subseteq emptied
      /\ foreign \subseteq mirrorDir
      /\ \A f \in inMirror : Above(f) \subseteq mirrorDir
      /\ \A f \in inArchive : \A d \in Above(f) :
           mode[d] = "full" \/ (mode[d] = "masked" /\ d \in torn)
=============================================================================
