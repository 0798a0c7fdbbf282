------------------------------ MODULE Transfer ------------------------------
(***************************************************************************)
(* One split or restore run of arxgo: every candidate file is moved from   *)
(* one root to the other in a transaction whose steps are appended to      *)
(* wal.jsonl, and a process that died is followed by one that first        *)
(* recovers the open transactions of that log.                             *)
(*                                                                         *)
(* "src" is the file in the root the run moves files out of (the archive   *)
(* for split, the mirror for restore), "dst" the file in the other root,   *)
(* "part" is dst.arxgo-part and "desc" says whether the archive holds the  *)
(* description that names this file.                                       *)
(*                                                                         *)
(* Simplifications.                                                        *)
(*  - A file is its content; contents have a size, and a modification time *)
(*    that changes whenever the user rewrites the source.                  *)
(*  - StageCopy is two steps (the part file exists but is incomplete, then *)
(*    it is complete and verified), not one per chunk.                     *)
(*  - The checks of RemoveSource and the removal are one step.             *)
(*  - Disks do not corrupt what was synced: verification after a copy      *)
(*    fails only because the source changed.  A part file survives a power *)
(*    loss, and a removed one stays removed.                               *)
(*  - The candidate list is a set; its walk order is one of the orders the *)
(*    model takes.                                                         *)
(***************************************************************************)
EXTENDS Naturals, FiniteSets

CONSTANTS
    File,         \* the candidates of the run
    Data,         \* file contents
    Size,         \* the size of each content
    NoFile,       \* a path where there is no file
    Partial,      \* an incomplete part file
    Policies,     \* the options a run may have been started with
    MissingDir,   \* restore: files whose directory is gone, without --create-dirs
    StalePart,    \* files beside whose dst an earlier run left a part file
    MaxCrashes,   \* bound on crashes, power losses and I/O failures
    MaxEdits,     \* bound on rewrites and deletions of sources by the user
    MaxForeign    \* bound on destinations created by another program

(* The options that decide what a transfer does.  "mode" is what           *)
(* transferMode answers for the roots and --transfer, "keep" is a restore  *)
(* with --transfer copy, "keepDesc" a restore with --descriptions keep.    *)
Policy == [op : {"split", "restore"}, verify : {"size", "hash"},
           mode : {"rename", "copy"}, keep : BOOLEAN,
           overwrite : BOOLEAN, keepDesc : BOOLEAN]

ASSUME SizeAssumption == Size \in [Data -> Nat]
ASSUME AbsentAssumption == NoFile \notin Data /\ Partial \notin Data /\ NoFile # Partial
ASSUME PolicyAssumption ==
    /\ Policies \subseteq Policy
    /\ \A p \in Policies : p.op = "split" => ~p.keep /\ ~p.overwrite /\ ~p.keepDesc
    /\ \A p \in Policies : p.keep => p.mode = "copy"
ASSUME BoundAssumption ==
    /\ MaxCrashes \in Nat /\ MaxEdits \in Nat /\ MaxForeign \in Nat
    /\ MissingDir \subseteq File /\ StalePart \subseteq File

VARIABLES
    policy,       \* the options of the run; every process of the run has the same
    src, mtime,   \* the source file and its modification time
    dst, part,    \* the destination and its part file
    desc,         \* the archive holds an owned description of the file
    last,         \* the last WAL record of the file's transaction
    begin,        \* the payload of its begin record
    walSha,       \* a verified record of the transaction carries a SHA-256
    pc,           \* what the process does next; "down" when none is running
    cur,          \* the file it works on
    mode,         \* transferAttempt.mode: how the next transaction transfers
    over,         \* the placement replaces a conflicting destination
    changes,      \* transferAttempt.changes
    fallback,     \* --transfer was switched to copy after a cross-device rename
    handled,      \* candidates this process is done with
    exit,         \* why the last process stopped
    orig,         \* history: the content the user last gave the file
    crashes, edits, foreigns

disk  == <<src, mtime, dst, part, desc>>
log   == <<last, begin, walSha>>
proc  == <<mode, over, changes, fallback, handled>>
env   == <<crashes, edits, foreigns>>
fixed == <<policy, orig, env>>
vars  == <<policy, src, mtime, dst, part, desc, last, begin, walSha, pc, cur,
           mode, over, changes, fallback, handled, exit, orig,
           crashes, edits, foreigns>>

Modes == {"rename", "copy"}
Steps == {"none", "begin", "copied", "verified", "placed", "described",
          "source_removed", "commit", "aborted"}
Exits == {"none", "killed", "failed", "corrupt"}
Begin == [data : Data, mtime : Nat, mode : Modes]

(* Labels of the recovery of one transaction, and of its transfer.         *)
RecoverLabels == {"recover", "abort.part", "abort.log", "roll.part", "roll.placed",
                  "roll.describe", "roll.described", "roll.remove", "roll.commit"}
PlaceLabels   == {"place", "rename", "stage", "copied", "verified", "move"}
RefuseLabels  == {"conflict.log", "conflict.part", "changed.part", "changed.log"}
FinishLabels  == {"placed", "describe", "described", "remove", "removed", "commit"}
Labels == {"down", "pick", "attempt", "finished"}
            \cup RecoverLabels \cup PlaceLabels \cup RefuseLabels \cup FinishLabels

TypeOK ==
    /\ policy \in Policies
    /\ src \in [File -> Data \cup {NoFile}]
    /\ mtime \in [File -> Nat]
    /\ dst \in [File -> Data \cup {NoFile}]
    /\ part \in [File -> Data \cup {NoFile, Partial}]
    /\ desc \in [File -> BOOLEAN]
    /\ last \in [File -> Steps]
    /\ begin \in [File -> Begin]
    /\ walSha \in [File -> BOOLEAN]
    /\ pc \in Labels
    /\ cur \in File
    /\ mode \in Modes
    /\ over \in BOOLEAN
    /\ changes \in 0..2
    /\ fallback \in BOOLEAN
    /\ handled \subseteq File
    /\ exit \in Exits
    /\ orig \in [File -> Data \cup {NoFile}]
    /\ crashes \in 0..MaxCrashes /\ edits \in 0..MaxEdits /\ foreigns \in 0..MaxForeign
-----------------------------------------------------------------------------
(* OpenTransactions: begun, and neither committed nor aborted.             *)
Open(f) == last[f] \notin {"none", "commit", "aborted"}

SizeAt(file) == IF file \in Data THEN Size[file] ELSE 0

(* Lstat of the source still shows the size and time of the begin record.  *)
SameAttrs(f) ==
    src[f] # NoFile /\ SizeAt(src[f]) = Size[begin[f].data] /\ mtime[f] = begin[f].mtime

(* Observation.DstMatches: dst is there with the size of the begin record. *)
DstMatches(f) == dst[f] # NoFile /\ SizeAt(dst[f]) = Size[begin[f].data]

AdoptedUnsized(f) == dst[f] # NoFile      \* mutant: the sizes are not compared

(* destinationStatus: what a present destination means for the source.     *)
Adopted(f) ==
    /\ dst[f] # NoFile
    /\ SizeAt(dst[f]) = SizeAt(src[f])
    /\ policy.verify = "hash" => dst[f] = src[f]
Conflict(f) == dst[f] # NoFile /\ ~Adopted(f)

MayRemoveUnchecked(f) == DstMatches(f)    \* mutant: the source is not looked at

(* What SplitResolver.RemoveSource demands before it removes the source.   *)
MayRemove(f) ==
    /\ SameAttrs(f)
    /\ DstMatches(f)
    /\ policy.verify = "hash" => src[f] = dst[f]

(* Destinations that hold the payload as far as --verify can tell.          *)
Same(file, data) ==
    file # NoFile /\ SizeAt(file) = SizeAt(data) /\ (policy.verify = "hash" => file = data)

Goto(label) == pc' = label /\ UNCHANGED exit
Append(f, step) == last' = [last EXCEPT ![f] = step]
RemovePart(f) == part' = [part EXCEPT ![f] = NoFile]
Handled(f)    == handled' = handled \cup {f}

(* The process gives up with an error; the transaction stays open.         *)
Stop(reason) == pc' = "down" /\ exit' = reason

(* A step of the process that only appends a record.                       *)
LogStep(label, step, next) ==
    /\ pc = label
    /\ Append(cur, step)
    /\ Goto(next)
    /\ UNCHANGED <<disk, begin, walSha, cur, proc, fixed>>

(* The description effect: split writes it, restore removes an owned one   *)
(* unless descriptions are kept.                                           *)
DescribedAfter(f) == policy.op = "split" \/ (desc[f] /\ policy.keepDesc)
Describe(label, next) ==
    /\ pc = label
    /\ desc' = [desc EXCEPT ![cur] = DescribedAfter(cur)]
    /\ Goto(next)
    /\ UNCHANGED <<src, mtime, dst, part, log, cur, proc, fixed>>

(* RemoveSource: a source that is gone is fine, one that changed is kept.  *)
RemoveSource(f, next) ==
    \/ src[f] = NoFile /\ Goto(next) /\ UNCHANGED src
    \/ src[f] # NoFile /\ MayRemove(f) /\ src' = [src EXCEPT ![f] = NoFile] /\ Goto(next)
    \/ src[f] # NoFile /\ ~MayRemove(f) /\ Stop("failed") /\ UNCHANGED src
-----------------------------------------------------------------------------
Init ==
    /\ policy \in Policies
    /\ src \in [File -> Data]
    /\ mtime = [f \in File |-> 0]
    /\ dst \in [File -> Data \cup {NoFile}] /\ \A f \in MissingDir : dst[f] = NoFile
    /\ part = [f \in File |-> IF f \in StalePart THEN Partial ELSE NoFile]
    /\ desc = [f \in File |-> policy.op = "restore"]
    /\ last = [f \in File |-> "none"]
    /\ begin = [f \in File |-> [data |-> src[f], mtime |-> 0, mode |-> "copy"]]
    /\ walSha = [f \in File |-> FALSE]
    /\ pc = "down" /\ cur \in File
    /\ mode = policy.mode /\ over = FALSE /\ changes = 0
    /\ fallback = FALSE /\ handled = {}
    /\ exit = "none"
    /\ orig = src
    /\ crashes = 0 /\ edits = 0 /\ foreigns = 0

(* The operator runs the same command, again after a failure: the run is   *)
(* resumed and its open transactions are recovered first.                  *)
Start ==
    /\ pc = "down"
    /\ pc' = "recover" /\ exit' = "none"
    /\ mode' = policy.mode /\ over' = FALSE /\ changes' = 0
    /\ fallback' = FALSE /\ handled' = {}
    /\ UNCHANGED <<disk, log, cur, fixed>>
-----------------------------------------------------------------------------
RecoverBeginRenameLost(f) ==              \* mutant: a finished rename is not seen
    /\ last[f] = "begin"
    /\ \/ src[f] # NoFile /\ Goto("abort.part")
       \/ src[f] = NoFile /\ Stop("corrupt")

(* Recovery of one open transaction f: what its last record and the files  *)
(* ask for.                                                                *)
RecoverBegin(f) ==
    /\ last[f] = "begin"
    /\ \/ src[f] = NoFile /\ DstMatches(f) /\ Goto("roll.part")
       \/ src[f] # NoFile /\ Goto("abort.part")
       \/ src[f] = NoFile /\ ~DstMatches(f) /\ Stop("corrupt")

Unplaced(f) == last[f] \in {"copied", "verified"}
RecoverUnplaced(f) ==
    /\ Unplaced(f)
    /\ \/ part[f] # NoFile /\ Goto("abort.part")
       \/ part[f] = NoFile /\ DstMatches(f) /\ Goto("roll.placed")
       \/ /\ part[f] = NoFile /\ ~DstMatches(f)
          /\ \/ src[f] # NoFile /\ dst[f] = NoFile /\ Goto("abort.part")
             \/ (src[f] = NoFile \/ dst[f] # NoFile) /\ Stop("corrupt")

RecoverPlaced(f) ==
    /\ last[f] = "placed"
    /\ \/ DstMatches(f) /\ Goto("roll.describe")
       \/ ~DstMatches(f) /\ Stop("corrupt")

RecoverDescribed(f) == last[f] = "described" /\ Goto("roll.remove")
RecoverRemoved(f)   == last[f] = "source_removed" /\ Goto("roll.commit")

RecoverOne ==
    /\ pc = "recover"
    /\ \E f \in File :
        /\ cur' = f
        /\ \/ RecoverBegin(f) \/ RecoverUnplaced(f) \/ RecoverPlaced(f)
           \/ RecoverDescribed(f) \/ RecoverRemoved(f)
    /\ UNCHANGED <<disk, log, proc, fixed>>

Recovered ==
    /\ pc = "recover"
    /\ \A f \in File : ~Open(f)
    /\ Goto("pick")
    /\ UNCHANGED <<disk, log, cur, proc, fixed>>

(* DeletePart of a transaction that is aborted or rolled forward.          *)
DeletePart ==
    /\ \/ pc = "abort.part" /\ Goto("abort.log")
       \/ pc = "roll.part" /\ Goto("roll.placed")
    /\ RemovePart(cur)
    /\ UNCHANGED <<src, mtime, dst, desc, log, cur, proc, fixed>>

RollLog ==
    \/ LogStep("abort.log", "aborted", "recover")
    \/ LogStep("roll.placed", "placed", "roll.describe")
    \/ LogStep("roll.described", "described", "roll.remove")
    \/ LogStep("roll.commit", "commit", "recover")

RollDescribe == Describe("roll.describe", "roll.described")

(* recoverDescribed looks again, then removes a source that is left; a     *)
(* restore that keeps its sources does not.                                *)
RollRemove ==
    /\ pc = "roll.remove"
    /\ \/ ~DstMatches(cur) /\ Stop("corrupt") /\ UNCHANGED src
       \/ DstMatches(cur) /\ policy.keep /\ Goto("roll.commit") /\ UNCHANGED src
       \/ DstMatches(cur) /\ ~policy.keep /\ RemoveSource(cur, "roll.commit")
    /\ UNCHANGED <<mtime, dst, part, desc, log, cur, proc, fixed>>

Recovery == RecoverOne \/ Recovered \/ DeletePart \/ RollLog \/ RollDescribe \/ RollRemove
-----------------------------------------------------------------------------
RemainingUntried ==                       \* mutant: aborted files are not retried
    {f \in File \ handled : last[f] \notin {"commit", "aborted"}}

(* The execute loop: the next candidate the WAL has not committed.         *)
Remaining == {f \in File \ handled : last[f] # "commit"}

Pick ==
    /\ pc = "pick"
    /\ \E f \in Remaining : cur' = f
    /\ mode' = IF fallback THEN "copy" ELSE policy.mode
    /\ over' = FALSE /\ changes' = 0
    /\ Goto("attempt")
    /\ UNCHANGED <<disk, log, fallback, handled, fixed>>

Finish ==
    /\ pc = "pick"
    /\ Remaining = {}
    /\ Goto("finished")
    /\ UNCHANGED <<disk, log, cur, proc, fixed>>

(* splitCandidate and restoreCandidate: skip or begin.                     *)
Missing(f) == src[f] = NoFile \/ (policy.op = "restore" /\ f \in MissingDir)

SkipMissing ==
    /\ pc = "attempt" /\ Missing(cur)
    /\ Handled(cur)
    /\ Goto("pick")
    /\ UNCHANGED <<disk, log, cur, mode, over, changes, fallback, fixed>>

SkipConflict ==
    /\ pc = "attempt" /\ ~Missing(cur)
    /\ Conflict(cur) /\ ~policy.overwrite
    /\ RemovePart(cur)
    /\ Handled(cur)
    /\ Goto("pick")
    /\ UNCHANGED <<src, mtime, dst, desc, log, cur, mode, over, changes, fallback, fixed>>

(* An adopted or replaced destination is finished as a copy.               *)
BeginMode(f) ==
    IF Conflict(f) \/ (Adopted(f) /\ ~policy.keep) THEN "copy" ELSE mode

BeginTx ==
    /\ pc = "attempt" /\ ~Missing(cur)
    /\ Conflict(cur) => policy.overwrite
    /\ mode' = BeginMode(cur)
    /\ over' = Conflict(cur)
    /\ begin' = [begin EXCEPT ![cur] = [data |-> src[cur], mtime |-> mtime[cur], mode |-> mode']]
    /\ walSha' = [walSha EXCEPT ![cur] = FALSE]
    /\ Append(cur, "begin")
    /\ Goto(IF Adopted(cur) THEN "placed" ELSE "place")
    /\ UNCHANGED <<disk, cur, changes, fallback, handled, fixed>>
-----------------------------------------------------------------------------
(* placePayload by rename: the attributes are those of the begin record;   *)
(* split --verify hash logs the hash first (hashRenamed).                  *)
CheckRename ==
    /\ pc = "place" /\ mode = "rename"
    /\ \/ ~SameAttrs(cur) /\ Goto("changed.part") /\ UNCHANGED <<last, walSha>>
       \/ /\ SameAttrs(cur) /\ Goto("rename")
          /\ IF policy.op = "split" /\ policy.verify = "hash"
             THEN Append(cur, "verified") /\ walSha' = [walSha EXCEPT ![cur] = TRUE]
             ELSE UNCHANGED <<last, walSha>>
    /\ UNCHANGED <<disk, begin, cur, proc, fixed>>

(* The rename never replaces a destination.                                *)
Rename ==
    /\ pc = "rename"
    /\ \/ src[cur] = NoFile /\ Stop("failed") /\ UNCHANGED <<src, dst>>
       \/ src[cur] # NoFile /\ dst[cur] # NoFile /\ Goto("conflict.log") /\ UNCHANGED <<src, dst>>
       \/ /\ src[cur] # NoFile /\ dst[cur] = NoFile
          /\ dst' = [dst EXCEPT ![cur] = src[cur]]
          /\ src' = [src EXCEPT ![cur] = NoFile]
          /\ Goto("placed")
    /\ UNCHANGED <<mtime, part, desc, log, cur, proc, fixed>>

CrossDeviceForgotten ==                   \* mutant: the next attempt renames again
    /\ pc = "rename"
    /\ Append(cur, "aborted")
    /\ Goto("attempt")
    /\ UNCHANGED <<disk, begin, walSha, cur, proc, fixed>>

(* placeFailed after EXDEV: the rest of the run copies, if a new preflight *)
(* finds room for the copies.                                              *)
CrossDevice ==
    /\ pc = "rename"
    /\ Append(cur, "aborted")
    /\ mode' = "copy" /\ fallback' = TRUE
    /\ \/ Goto("attempt") /\ UNCHANGED crashes
       \/ crashes < MaxCrashes /\ crashes' = crashes + 1 /\ Stop("failed")
    /\ UNCHANGED <<disk, begin, walSha, cur, over, changes, handled, policy, orig, edits, foreigns>>

(* StageCopy up to the new, still incomplete, part file.                   *)
StageOpen ==
    /\ pc = "place" /\ mode = "copy"
    /\ \/ ~over /\ dst[cur] # NoFile /\ Goto("conflict.log") /\ UNCHANGED part
       \/ /\ over \/ dst[cur] = NoFile
          /\ \/ src[cur] = NoFile /\ Stop("failed") /\ UNCHANGED part
             \/ src[cur] # NoFile /\ ~SameAttrs(cur) /\ Goto("changed.part") /\ UNCHANGED part
             \/ SameAttrs(cur) /\ part' = [part EXCEPT ![cur] = Partial] /\ Goto("stage")
    /\ UNCHANGED <<src, mtime, dst, desc, log, cur, proc, fixed>>

StageCloseShort ==                        \* mutant: a short copy goes unnoticed
    /\ pc = "stage"
    /\ Goto("copied")
    /\ UNCHANGED <<disk, log, cur, proc, fixed>>

(* StageCopy from there: the part file is complete and verified, or it is  *)
(* removed.                                                                *)
StageClose ==
    /\ pc = "stage"
    /\ \/ SameAttrs(cur) /\ part' = [part EXCEPT ![cur] = src[cur]] /\ Goto("copied")
       \/ src[cur] # NoFile /\ ~SameAttrs(cur) /\ RemovePart(cur) /\ Goto("changed.part")
       \/ src[cur] = NoFile /\ RemovePart(cur) /\ Stop("failed")
    /\ UNCHANGED <<src, mtime, dst, desc, log, cur, proc, fixed>>

(* The copy fails or is cancelled.                                         *)
StageFail ==
    /\ pc = "stage" /\ crashes < MaxCrashes
    /\ crashes' = crashes + 1
    /\ RemovePart(cur) /\ Stop("failed")
    /\ UNCHANGED <<src, mtime, dst, desc, log, cur, proc, policy, orig, edits, foreigns>>

LogCopied == LogStep("copied", "copied", "verified")

LogVerified ==
    /\ pc = "verified"
    /\ Append(cur, "verified")
    /\ walSha' = [walSha EXCEPT ![cur] = policy.verify = "hash"]
    /\ Goto("move")
    /\ UNCHANGED <<disk, begin, cur, proc, fixed>>

MoveReplacing ==                          \* mutant: the move replaces a destination
    /\ pc = "move"
    /\ dst' = [dst EXCEPT ![cur] = part[cur]]
    /\ RemovePart(cur)
    /\ Goto("placed")
    /\ UNCHANGED <<src, mtime, desc, log, cur, proc, fixed>>

(* placeFile of a part file: Rename, or Replace of a conflict.             *)
Move ==
    /\ pc = "move"
    /\ \/ ~over /\ dst[cur] # NoFile /\ Goto("conflict.log") /\ UNCHANGED <<dst, part>>
       \/ /\ over \/ dst[cur] = NoFile
          /\ dst' = [dst EXCEPT ![cur] = part[cur]]
          /\ RemovePart(cur)
          /\ Goto("placed")
    /\ UNCHANGED <<src, mtime, desc, log, cur, proc, fixed>>

Place == CheckRename \/ Rename \/ CrossDevice \/ StageOpen \/ StageClose \/ StageFail
            \/ LogCopied \/ LogVerified \/ Move
-----------------------------------------------------------------------------
(* abortConflict: the abort is in the log before the part file goes.       *)
ConflictAborted == LogStep("conflict.log", "aborted", "conflict.part")
ConflictCleaned ==
    /\ pc = "conflict.part"
    /\ RemovePart(cur)
    /\ Handled(cur)
    /\ Goto("pick")
    /\ UNCHANGED <<src, mtime, dst, desc, log, cur, mode, over, changes, fallback, fixed>>

(* placeFailed for ErrSourceChanged: once more, then skip.                 *)
ChangedCleaned ==
    /\ pc = "changed.part"
    /\ RemovePart(cur)
    /\ Goto("changed.log")
    /\ UNCHANGED <<src, mtime, dst, desc, log, cur, proc, fixed>>
ChangedAborted ==
    /\ pc = "changed.log"
    /\ Append(cur, "aborted")
    /\ changes' = changes + 1
    /\ \/ changes' < 2 /\ Goto("attempt") /\ UNCHANGED handled
       \/ changes' >= 2 /\ Goto("pick") /\ Handled(cur)
    /\ UNCHANGED <<disk, begin, walSha, cur, mode, over, fallback, fixed>>

Refuse == ConflictAborted \/ ConflictCleaned \/ ChangedCleaned \/ ChangedAborted
-----------------------------------------------------------------------------
(* finishSplit and finishRestore.                                          *)
Retires(f) == begin[f].mode = "copy" /\ ~policy.keep

FinishLogSourceFirst ==                   \* mutant: the source goes before the description
    \/ LogStep("placed", "placed", IF Retires(cur) THEN "remove" ELSE "describe")
    \/ LogStep("removed", "source_removed", "describe")
    \/ LogStep("described", "described", "commit")
    \/ LogStep("commit", "commit", "pick")
FinishLog ==
    \/ LogStep("placed", "placed", "describe")
    \/ LogStep("described", "described", IF Retires(cur) THEN "remove" ELSE "commit")
    \/ LogStep("removed", "source_removed", "commit")
    \/ LogStep("commit", "commit", "pick")

FinishDescribe == Describe("describe", "described")

FinishRemove ==
    /\ pc = "remove"
    /\ RemoveSource(cur, "removed")
    /\ UNCHANGED <<mtime, dst, part, desc, log, cur, proc, fixed>>

Transaction == Pick \/ Finish \/ SkipMissing \/ SkipConflict \/ BeginTx
                  \/ FinishLog \/ FinishDescribe \/ FinishRemove
-----------------------------------------------------------------------------
(* The process dies, or gives up at an operation that fails.               *)
Crash ==
    /\ pc \notin {"down", "finished"} /\ crashes < MaxCrashes
    /\ crashes' = crashes + 1
    /\ pc' = "down" /\ exit' = "killed"
    /\ UNCHANGED <<disk, log, cur, proc, policy, orig, edits, foreigns>>

(* copied and verified are not synced: the machine may forget them.        *)
SyncedUpTo(f) ==
    IF last[f] = "verified" /\ begin[f].mode = "copy" THEN {"begin", "copied"} ELSE {"begin"}

PowerLoss ==
    /\ pc # "finished" /\ crashes < MaxCrashes
    /\ crashes' = crashes + 1
    /\ pc' = "down" /\ exit' = "killed"
    /\ \E f \in File :
        /\ Unplaced(f)
        /\ \E step \in SyncedUpTo(f) : Append(f, step)
        /\ walSha' = [walSha EXCEPT ![f] = FALSE]
    /\ UNCHANGED <<disk, begin, cur, proc, policy, orig, edits, foreigns>>

(* The user rewrites or deletes a source; another program creates a        *)
(* destination.                                                            *)
Edit ==
    /\ pc # "finished" /\ edits < MaxEdits
    /\ edits' = edits + 1
    /\ \E f \in File, d \in Data :
        /\ src[f] \notin {NoFile, d}
        /\ src' = [src EXCEPT ![f] = d]
        /\ orig' = [orig EXCEPT ![f] = d]
        /\ mtime' = [mtime EXCEPT ![f] = mtime[f] + 1]
    /\ UNCHANGED <<policy, dst, part, desc, log, pc, cur, proc, exit, crashes, foreigns>>

Delete ==
    /\ pc # "finished" /\ edits < MaxEdits
    /\ edits' = edits + 1
    /\ \E f \in File :
        /\ src[f] # NoFile
        /\ src' = [src EXCEPT ![f] = NoFile]
        /\ orig' = [orig EXCEPT ![f] = NoFile]
    /\ UNCHANGED <<policy, mtime, dst, part, desc, log, pc, cur, proc, exit, crashes, foreigns>>

Foreign ==
    /\ pc # "finished" /\ foreigns < MaxForeign
    /\ foreigns' = foreigns + 1
    /\ \E f \in File \ MissingDir, d \in Data :
        dst[f] = NoFile /\ dst' = [dst EXCEPT ![f] = d]
    /\ UNCHANGED <<policy, src, mtime, part, desc, log, pc, cur, proc, exit, orig, crashes, edits>>

Process == Start \/ Recovery \/ Place \/ Refuse \/ Transaction
Environment == Crash \/ PowerLoss \/ Edit \/ Delete \/ Foreign
Terminated == pc = "finished" /\ UNCHANGED vars

Next == Process \/ Environment \/ Terminated

Spec == Init /\ [][Next]_vars

(* A process that runs goes on, and the operator runs the command again.   *)
FairSpec == Spec /\ WF_vars(Process)
-----------------------------------------------------------------------------
(* PROPERTIES *)

(* What the user last put in a source is still there, or the destination   *)
(* holds it as far as --verify can tell: no interleaving of crashes, lost  *)
(* records, edits and foreign files makes recovery remove the only copy    *)
(* (RemoveSource, recoverUnplaced).                                        *)
NoLoss ==
    \A f \in File : orig[f] # NoFile => src[f] = orig[f] \/ Same(dst[f], orig[f])

(* Without --overwrite a destination that was there is left as it was.     *)
NoClobber ==
    [][~policy.overwrite => \A f \in File : dst[f] # NoFile => dst'[f] = dst[f]]_vars

(* Recovery always finds a state it can explain, however often it is       *)
(* itself interrupted.                                                     *)
NeverStuck == exit # "corrupt"

(* A committed file is in its destination, described, and no longer in the *)
(* source unless sources are kept.                                         *)
CommittedComplete ==
    \A f \in File : last[f] = "commit" =>
        /\ Same(dst[f], orig[f])
        /\ src[f] = IF policy.keep THEN orig[f] ELSE NoFile
        /\ desc[f] = (policy.op = "split" \/ policy.keepDesc)

(* The description and the file change sides together: a split describes   *)
(* only what the destination holds, and a restore that removed the         *)
(* description has put the file back.                                      *)
DescriptionTellsTruth ==
    \A f \in File : desc[f] # (policy.op = "restore") => Same(dst[f], orig[f])

(* What a finished run leaves: every candidate is committed, or its source *)
(* is untouched because the destination is taken or cannot be reached; and *)
(* no part file stays behind.                                              *)
FinishedSettled ==
    pc = "finished" =>
        \A f \in File :
            /\ part[f] = NoFile
            /\ \/ last[f] = "commit"
               \/ /\ src[f] = orig[f] /\ ~Open(f)
                  /\ f \in MissingDir \/ Conflict(f)

(* However often it is interrupted, the run is eventually finished.        *)
EventuallyFinished == <>(pc = "finished")
-----------------------------------------------------------------------------
(* REFINEMENT *)

(* Where a file is: the destination counts once it holds the source, or    *)
(* the source is gone.  A file is told once the described record is in the *)
(* log, and settled with its commit.                                       *)
Where(f) ==
    IF src[f] = NoFile THEN "dest"
    ELSE IF Same(dst[f], src[f]) THEN "both" ELSE "source"

Abstract == INSTANCE ArchiveMove WITH
    keep    <- policy.keep,
    where   <- [f \in File |-> Where(f)],
    told    <- [f \in File |-> last[f] \in {"described", "source_removed", "commit"}],
    settled <- [f \in File |-> last[f] = "commit"]

(* Without interference, every run with its crashes and recoveries is a    *)
(* run of ArchiveMove.                                                     *)
ImplementsArchiveMove == Abstract!Spec
=============================================================================
