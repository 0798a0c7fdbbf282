-------------------------- MODULE Transfer_proofs --------------------------
(***************************************************************************)
(* Theorems about Transfer, for any files, contents, policies and bounds:  *)
(* first whatever disturbs a run, then (THE UNDISTURBED RUN) when nobody   *)
(* works against it.                                                       *)
(***************************************************************************)
EXTENDS Transfer, TLAPS

(* A part file that is about to be placed is complete.                     *)
StagedWhole == pc \in {"copied", "verified", "move"} => part[cur] \in Data

(* A candidate is tried at most twice.                                     *)
TriesLeft == pc \in {"attempt"} \cup PlaceLabels \cup RefuseLabels => changes < 2

(* Only --overwrite replaces a destination.                                *)
ReplacesAllowed == over => policy.overwrite

(* The inductive strengthening of TypeOK.                                  *)
Typed == TypeOK /\ StagedWhole /\ TriesLeft /\ ReplacesAllowed

(* The transfer mode an option set asks for is one of the two modes.        *)
LEMMA PolicyMode == policy \in Policies => policy.mode \in Modes
BY PolicyAssumption DEF Policy, Modes

(* Typed holds of every state a first run starts in.                       *)
LEMMA InitTyped == Init => Typed
<1> SUFFICES ASSUME Init PROVE Typed
  OBVIOUS
<1> USE DEF Init, Modes, Begin
<1>1. policy.mode \in Modes /\ mode \in Modes
  BY PolicyMode
<1>2. begin \in [File -> Begin] /\ mtime \in [File -> Nat] /\ orig \in [File -> Data \cup {NoFile}]
  OBVIOUS
<1>3. /\ part \in [File -> Data \cup {NoFile, Partial}]
      /\ desc \in [File -> BOOLEAN] /\ walSha \in [File -> BOOLEAN]
  OBVIOUS
<1>4. pc \in Labels /\ exit \in Exits /\ last \in [File -> Steps]
  BY DEF Labels, Exits, Steps
<1>5. over \in BOOLEAN /\ fallback \in BOOLEAN /\ ReplacesAllowed
  BY DEF ReplacesAllowed
<1>6. changes \in 0..2 /\ crashes \in 0..MaxCrashes /\ edits \in 0..MaxEdits /\ foreigns \in 0..MaxForeign
  BY BoundAssumption
<1>7. StagedWhole /\ TriesLeft
  BY DEF StagedWhole, TriesLeft
<1> QED
  BY <1>1, <1>2, <1>3, <1>4, <1>5, <1>6, <1>7 DEF Typed, TypeOK

(* No step of the process or of its environment leaves Typed.              *)
LEMMA NextTyped == Typed /\ [Next]_vars => Typed'
<1> SUFFICES ASSUME Typed, [Next]_vars PROVE Typed'
  OBVIOUS
<1> USE BoundAssumption DEF Typed, TypeOK, StagedWhole, TriesLeft, ReplacesAllowed, Modes,
        Steps, Exits, Begin, Labels, RecoverLabels, PlaceLabels, RefuseLabels, FinishLabels,
        Goto, Stop, Append, RemovePart, Handled, disk, log, proc, env, fixed
<1>0. policy.mode \in Modes
  BY PolicyMode
<1>1. CASE Start
  <2>1. mode' \in Modes
    BY <1>0, <1>1 DEF Start
  <2>2. over' \in BOOLEAN /\ ReplacesAllowed' /\ fallback' \in BOOLEAN
    BY <1>1 DEF Start
  <2>3. changes' \in 0..2 /\ handled' \subseteq File
    BY <1>1 DEF Start
  <2> QED
    BY <1>1, <2>1, <2>2, <2>3 DEF Start
<1>2. CASE RecoverOne
  BY <1>2 DEF RecoverOne, RecoverBegin, RecoverUnplaced, RecoverPlaced, RecoverDescribed,
     RecoverRemoved
<1>3. CASE Recovered
  BY <1>3 DEF Recovered
<1>4. CASE DeletePart
  BY <1>4 DEF DeletePart
<1>5. CASE RollLog
  <2>1. CASE LogStep("abort.log", "aborted", "recover")
    BY <2>1 DEF LogStep
  <2>2. CASE LogStep("roll.placed", "placed", "roll.describe")
    BY <2>2 DEF LogStep
  <2>3. CASE LogStep("roll.described", "described", "roll.remove")
    BY <2>3 DEF LogStep
  <2>4. CASE LogStep("roll.commit", "commit", "recover")
    BY <2>4 DEF LogStep
  <2> QED
    BY <1>5, <2>1, <2>2, <2>3, <2>4 DEF RollLog
<1>6. CASE RollDescribe
  <2>1. DescribedAfter(cur) \in BOOLEAN
    BY Zenon DEF DescribedAfter
  <2> QED
    BY <1>6, <2>1 DEF RollDescribe, Describe
<1>7. CASE RollRemove
  BY <1>7 DEF RollRemove, RemoveSource
<1>8. CASE Pick
  <2>1. mode' \in Modes
    BY <1>0, <1>8 DEF Pick
  <2>2. over' \in BOOLEAN /\ ReplacesAllowed' /\ cur' \in File
    BY <1>8 DEF Pick, Remaining
  <2>3. changes' \in 0..2
    BY <1>8 DEF Pick
  <2> QED
    BY <1>8, <2>1, <2>2, <2>3 DEF Pick
<1>9. CASE Finish
  BY <1>9 DEF Finish
<1>10. CASE SkipMissing
  BY <1>10 DEF SkipMissing
<1>11. CASE SkipConflict
  BY <1>11 DEF SkipConflict
<1>12. CASE BeginTx
  <2>1. Conflict(cur) \in BOOLEAN
    BY Zenon DEF Conflict
  <2>2. src[cur] \in Data /\ mode' \in Modes
    BY <1>12 DEF BeginTx, Missing, BeginMode
  <2>3. begin' \in [File -> Begin]
    BY <1>12, <2>2 DEF BeginTx
  <2> QED
    BY <1>12, <2>1, <2>2, <2>3 DEF BeginTx, Modes, Begin
<1>13. CASE CheckRename
  BY <1>13 DEF CheckRename
<1>14. CASE Rename
  BY <1>14 DEF Rename
<1>15. CASE CrossDevice
  BY <1>15 DEF CrossDevice
<1>16. CASE StageOpen
  BY <1>16 DEF StageOpen
<1>17. CASE StageClose
  BY <1>17 DEF StageClose, SameAttrs
<1>18. CASE StageFail
  BY <1>18 DEF StageFail
<1>19. CASE LogCopied
  BY <1>19 DEF LogCopied, LogStep
<1>20. CASE LogVerified
  BY <1>20 DEF LogVerified
<1>21. CASE Move
  BY <1>21 DEF Move
<1>22. CASE ConflictAborted
  BY <1>22 DEF ConflictAborted, LogStep
<1>23. CASE ConflictCleaned
  BY <1>23 DEF ConflictCleaned
<1>24. CASE ChangedCleaned
  BY <1>24 DEF ChangedCleaned
<1>25. CASE ChangedAborted
  BY <1>25 DEF ChangedAborted
<1>26. CASE FinishLog
  BY <1>26 DEF FinishLog, LogStep
<1>27. CASE FinishDescribe
  <2>1. DescribedAfter(cur) \in BOOLEAN
    BY Zenon DEF DescribedAfter
  <2> QED
    BY <1>27, <2>1 DEF FinishDescribe, Describe
<1>28. CASE FinishRemove
  BY <1>28 DEF FinishRemove, RemoveSource
<1>29. CASE Crash
  BY <1>29 DEF Crash
<1>30. CASE PowerLoss
  BY <1>30 DEF PowerLoss, SyncedUpTo
<1>31. CASE Edit
  BY <1>31 DEF Edit
<1>32. CASE Delete
  BY <1>32 DEF Delete
<1>33. CASE Foreign
  BY <1>33 DEF Foreign
<1>34. CASE Terminated
  BY <1>34 DEF Terminated, vars
<1>35. CASE UNCHANGED vars
  BY <1>35 DEF vars
<1> QED
  BY <1>1, <1>2, <1>3, <1>4, <1>5, <1>6, <1>7, <1>8, <1>9, <1>10, <1>11, <1>12, <1>13, <1>14,
     <1>15, <1>16, <1>17, <1>18, <1>19, <1>20, <1>21, <1>22, <1>23, <1>24, <1>25, <1>26, <1>27,
     <1>28, <1>29, <1>30, <1>31, <1>32, <1>33, <1>34, <1>35 DEF Next, Process, Environment,
     Recovery, Place, Refuse, Transaction

(* TypeOK: every variable stays in its set, for any constants.             *)
THEOREM TypeCorrect == Spec => []TypeOK
<1>1. Spec => []Typed
  BY InitTyped, NextTyped, PTL DEF Spec
<1> QED
  BY <1>1, PTL DEF Typed

(* NoClobber: without --overwrite, a destination that is there is never    *)
(* changed, by a transfer or by its recovery.                              *)
THEOREM NeverClobbers == Spec => NoClobber
<1>1. Typed /\ [Next]_vars =>
        [~policy.overwrite => \A f \in File : dst[f] # NoFile => dst'[f] = dst[f]]_vars
  <2> SUFFICES ASSUME Typed, Next, ~policy.overwrite
               PROVE  \A f \in File : dst[f] # NoFile => dst'[f] = dst[f]
    OBVIOUS
  <2> USE DEF Typed, TypeOK, ReplacesAllowed, disk, fixed
  <2>1. CASE Rename
    BY <2>1 DEF Rename
  <2>2. CASE Move
    BY <2>2 DEF Move
  <2>3. CASE Foreign
    BY <2>3 DEF Foreign
  <2>4. CASE ~(Rename \/ Move \/ Foreign)
    <3>1. UNCHANGED dst
      BY <2>4 DEF Next, Process, Environment, Recovery, Place, Refuse, Transaction, Start,
         RecoverOne, Recovered, DeletePart, RollLog, RollDescribe, RollRemove, Pick, Finish,
         SkipMissing, SkipConflict, BeginTx, CheckRename, CrossDevice, StageOpen, StageClose,
         StageFail, LogCopied, LogVerified, ConflictAborted, ConflictCleaned, ChangedCleaned,
         ChangedAborted, FinishLog, FinishDescribe, FinishRemove, LogStep, Describe, Crash,
         PowerLoss, Edit, Delete, Terminated, vars
    <3> QED
      BY <3>1
  <2> QED
    BY <2>1, <2>2, <2>3, <2>4
<1>2. Spec => []Typed
  BY InitTyped, NextTyped, PTL DEF Spec
<1> QED
  BY <1>1, <1>2, PTL DEF Spec, NoClobber
-----------------------------------------------------------------------------
(* What is in a source is what the user last put there.                    *)
SourceIsOrig == \A f \in File : src[f] # NoFile => src[f] = orig[f]

(* While a copy is made the source is not gone unless the user deleted it. *)
StagedIsOrig == pc \in {"stage", "copied", "verified", "move"} => src[cur] = orig[cur]

(* The inductive strengthening of NoLoss.                                  *)
Kept == SourceIsOrig /\ StagedIsOrig /\ NoLoss

(* The files of an action that touches neither sources nor destinations.   *)
LEMMA QuietKeeps ==
    ASSUME Kept, UNCHANGED <<policy, src, dst, orig>>
    PROVE  SourceIsOrig' /\ NoLoss'
BY DEF Kept, SourceIsOrig, NoLoss, Same, SizeAt

(* A source may go once RemoveSource is satisfied with the destination.    *)
LEMMA RemovalKeeps ==
    ASSUME Typed, Kept, NEW f \in File, src[f] # NoFile, MayRemove(f)
    PROVE  Same(dst[f], orig[f])
BY DEF Typed, TypeOK, Kept, SourceIsOrig, MayRemove, SameAttrs, DstMatches, Same, SizeAt

(* Kept holds at first: nothing has moved.                                 *)
LEMMA InitKept == Init => Kept
BY DEF Init, Kept, SourceIsOrig, StagedIsOrig, NoLoss

(* No step leaves Kept: only RemoveSource and the renames take a source    *)
(* away, and each leaves its content in the destination.                   *)
LEMMA NextKept == Typed /\ Kept /\ [Next]_vars => Kept'
<1> SUFFICES ASSUME Typed, Kept, [Next]_vars PROVE Kept'
  OBVIOUS
<1> USE DEF Goto, Stop, disk, fixed, StagedIsOrig
<1>1. CASE Start
  <2>1. UNCHANGED <<policy, src, dst, orig>>
    BY <1>1 DEF Start
  <2>2. StagedIsOrig'
    BY <1>1 DEF Start
  <2> QED
    BY <2>1, <2>2, QuietKeeps DEF Kept
<1>2. CASE RecoverOne
  <2>1. UNCHANGED <<policy, src, dst, orig>>
    BY <1>2 DEF RecoverOne
  <2>2. StagedIsOrig'
    BY <1>2 DEF RecoverOne, RecoverBegin, RecoverUnplaced, RecoverPlaced, RecoverDescribed,
       RecoverRemoved
  <2> QED
    BY <2>1, <2>2, QuietKeeps DEF Kept
<1>3. CASE Recovered
  <2>1. UNCHANGED <<policy, src, dst, orig>>
    BY <1>3 DEF Recovered
  <2>2. StagedIsOrig'
    BY <1>3 DEF Recovered
  <2> QED
    BY <2>1, <2>2, QuietKeeps DEF Kept
<1>4. CASE DeletePart
  <2>1. UNCHANGED <<policy, src, dst, orig>>
    BY <1>4 DEF DeletePart
  <2>2. StagedIsOrig'
    BY <1>4 DEF DeletePart
  <2> QED
    BY <2>1, <2>2, QuietKeeps DEF Kept
<1>5. CASE RollLog
  <2>1. UNCHANGED <<policy, src, dst, orig>>
    BY <1>5 DEF RollLog, LogStep
  <2>2. StagedIsOrig'
    BY <1>5 DEF RollLog, LogStep
  <2> QED
    BY <2>1, <2>2, QuietKeeps DEF Kept
<1>6. CASE RollDescribe
  <2>1. UNCHANGED <<policy, src, dst, orig>>
    BY <1>6 DEF RollDescribe, Describe
  <2>2. StagedIsOrig'
    BY <1>6 DEF RollDescribe, Describe
  <2> QED
    BY <2>1, <2>2, QuietKeeps DEF Kept
<1>7. CASE Pick
  <2>1. UNCHANGED <<policy, src, dst, orig>>
    BY <1>7 DEF Pick
  <2>2. StagedIsOrig'
    BY <1>7 DEF Pick
  <2> QED
    BY <2>1, <2>2, QuietKeeps DEF Kept
<1>8. CASE Finish
  <2>1. UNCHANGED <<policy, src, dst, orig>>
    BY <1>8 DEF Finish
  <2>2. StagedIsOrig'
    BY <1>8 DEF Finish
  <2> QED
    BY <2>1, <2>2, QuietKeeps DEF Kept
<1>9. CASE SkipMissing
  <2>1. UNCHANGED <<policy, src, dst, orig>>
    BY <1>9 DEF SkipMissing
  <2>2. StagedIsOrig'
    BY <1>9 DEF SkipMissing
  <2> QED
    BY <2>1, <2>2, QuietKeeps DEF Kept
<1>10. CASE SkipConflict
  <2>1. UNCHANGED <<policy, src, dst, orig>>
    BY <1>10 DEF SkipConflict
  <2>2. StagedIsOrig'
    BY <1>10 DEF SkipConflict
  <2> QED
    BY <2>1, <2>2, QuietKeeps DEF Kept
<1>11. CASE BeginTx
  <2>1. UNCHANGED <<policy, src, dst, orig>>
    BY <1>11 DEF BeginTx
  <2>2. StagedIsOrig'
    BY <1>11 DEF BeginTx
  <2> QED
    BY <2>1, <2>2, QuietKeeps DEF Kept
<1>12. CASE CheckRename
  <2>1. UNCHANGED <<policy, src, dst, orig>>
    BY <1>12 DEF CheckRename
  <2>2. StagedIsOrig'
    BY <1>12 DEF CheckRename
  <2> QED
    BY <2>1, <2>2, QuietKeeps DEF Kept
<1>13. CASE CrossDevice
  <2>1. UNCHANGED <<policy, src, dst, orig>>
    BY <1>13 DEF CrossDevice
  <2>2. StagedIsOrig'
    BY <1>13 DEF CrossDevice
  <2> QED
    BY <2>1, <2>2, QuietKeeps DEF Kept
<1>14. CASE StageOpen
  <2>1. UNCHANGED <<policy, src, dst, orig>>
    BY <1>14 DEF StageOpen
  <2>2. cur' = cur /\ (pc' = "stage" => SameAttrs(cur))
    BY <1>14 DEF StageOpen
  <2>3. pc' = "stage" => src[cur] = orig[cur]
    BY <2>2 DEF SameAttrs, Kept, SourceIsOrig, Typed, TypeOK
  <2>4. StagedIsOrig'
    BY <1>14, <2>3 DEF StageOpen
  <2> QED
    BY <2>1, <2>4, QuietKeeps DEF Kept
<1>15. CASE StageClose
  <2>1. UNCHANGED <<policy, src, dst, orig>>
    BY <1>15 DEF StageClose
  <2>2. StagedIsOrig'
    BY <1>15 DEF Kept, StageClose
  <2> QED
    BY <2>1, <2>2, QuietKeeps DEF Kept
<1>16. CASE StageFail
  <2>1. UNCHANGED <<policy, src, dst, orig>>
    BY <1>16 DEF StageFail
  <2>2. StagedIsOrig'
    BY <1>16 DEF StageFail
  <2> QED
    BY <2>1, <2>2, QuietKeeps DEF Kept
<1>17. CASE LogCopied
  <2>1. UNCHANGED <<policy, src, dst, orig>>
    BY <1>17 DEF LogCopied, LogStep
  <2>2. StagedIsOrig'
    BY <1>17 DEF Kept, LogCopied, LogStep
  <2> QED
    BY <2>1, <2>2, QuietKeeps DEF Kept
<1>18. CASE LogVerified
  <2>1. UNCHANGED <<policy, src, dst, orig>>
    BY <1>18 DEF LogVerified
  <2>2. StagedIsOrig'
    BY <1>18 DEF Kept, LogVerified
  <2> QED
    BY <2>1, <2>2, QuietKeeps DEF Kept
<1>19. CASE ConflictAborted
  <2>1. UNCHANGED <<policy, src, dst, orig>>
    BY <1>19 DEF ConflictAborted, LogStep
  <2>2. StagedIsOrig'
    BY <1>19 DEF ConflictAborted, LogStep
  <2> QED
    BY <2>1, <2>2, QuietKeeps DEF Kept
<1>20. CASE ConflictCleaned
  <2>1. UNCHANGED <<policy, src, dst, orig>>
    BY <1>20 DEF ConflictCleaned
  <2>2. StagedIsOrig'
    BY <1>20 DEF ConflictCleaned
  <2> QED
    BY <2>1, <2>2, QuietKeeps DEF Kept
<1>21. CASE ChangedCleaned
  <2>1. UNCHANGED <<policy, src, dst, orig>>
    BY <1>21 DEF ChangedCleaned
  <2>2. StagedIsOrig'
    BY <1>21 DEF ChangedCleaned
  <2> QED
    BY <2>1, <2>2, QuietKeeps DEF Kept
<1>22. CASE ChangedAborted
  <2>1. UNCHANGED <<policy, src, dst, orig>>
    BY <1>22 DEF ChangedAborted
  <2>2. StagedIsOrig'
    BY <1>22 DEF ChangedAborted
  <2> QED
    BY <2>1, <2>2, QuietKeeps DEF Kept
<1>23. CASE FinishLog
  <2>1. UNCHANGED <<policy, src, dst, orig>>
    BY <1>23 DEF FinishLog, LogStep
  <2>2. StagedIsOrig'
    BY <1>23 DEF FinishLog, LogStep
  <2> QED
    BY <2>1, <2>2, QuietKeeps DEF Kept
<1>24. CASE FinishDescribe
  <2>1. UNCHANGED <<policy, src, dst, orig>>
    BY <1>24 DEF FinishDescribe, Describe
  <2>2. StagedIsOrig'
    BY <1>24 DEF FinishDescribe, Describe
  <2> QED
    BY <2>1, <2>2, QuietKeeps DEF Kept
<1>25. CASE Crash
  <2>1. UNCHANGED <<policy, src, dst, orig>>
    BY <1>25 DEF Crash
  <2>2. StagedIsOrig'
    BY <1>25 DEF Crash
  <2> QED
    BY <2>1, <2>2, QuietKeeps DEF Kept
<1>26. CASE PowerLoss
  <2>1. UNCHANGED <<policy, src, dst, orig>>
    BY <1>26 DEF PowerLoss
  <2>2. StagedIsOrig'
    BY <1>26 DEF PowerLoss
  <2> QED
    BY <2>1, <2>2, QuietKeeps DEF Kept
<1>27. CASE Terminated
  <2>1. UNCHANGED <<policy, src, dst, orig>>
    BY <1>27 DEF Terminated, vars
  <2>2. StagedIsOrig'
    BY <1>27 DEF Terminated, vars
  <2> QED
    BY <2>1, <2>2, QuietKeeps DEF Kept
<1>28. CASE RollRemove
  <2>1. CASE UNCHANGED src
    BY <1>28, <2>1, QuietKeeps DEF Kept, RollRemove, RemoveSource
  <2>2. CASE src' # src
    <3>1. src[cur] # NoFile /\ MayRemove(cur) /\ src' = [src EXCEPT ![cur] = NoFile]
      BY <1>28, <2>2 DEF RollRemove, RemoveSource
    <3>2. Same(dst[cur], orig[cur])
      BY <3>1, RemovalKeeps DEF Typed, TypeOK
    <3> QED
      BY <1>28, <3>1, <3>2 DEF Typed, TypeOK, Kept, SourceIsOrig, NoLoss, Same, SizeAt,
         RollRemove, RemoveSource
  <2> QED
    BY <2>1, <2>2
<1>29. CASE FinishRemove
  <2>1. CASE UNCHANGED src
    BY <1>29, <2>1, QuietKeeps DEF Kept, FinishRemove, RemoveSource
  <2>2. CASE src' # src
    <3>1. src[cur] # NoFile /\ MayRemove(cur) /\ src' = [src EXCEPT ![cur] = NoFile]
      BY <1>29, <2>2 DEF FinishRemove, RemoveSource
    <3>2. Same(dst[cur], orig[cur])
      BY <3>1, RemovalKeeps DEF Typed, TypeOK
    <3> QED
      BY <1>29, <3>1, <3>2 DEF Typed, TypeOK, Kept, SourceIsOrig, NoLoss, Same, SizeAt,
         FinishRemove, RemoveSource
  <2> QED
    BY <2>1, <2>2
<1>30. CASE Rename
  BY <1>30 DEF Typed, TypeOK, Kept, SourceIsOrig, NoLoss, Same, Rename
<1>31. CASE Move
  BY <1>31 DEF Typed, TypeOK, Kept, SourceIsOrig, NoLoss, Same, Move
<1>32. CASE Edit
  BY <1>32 DEF Typed, TypeOK, Kept, SourceIsOrig, NoLoss, Same, Edit
<1>33. CASE Delete
  BY <1>33 DEF Typed, TypeOK, Kept, SourceIsOrig, NoLoss, Same, Delete
<1>34. CASE Foreign
  BY <1>34 DEF Kept, SourceIsOrig, NoLoss, Same, Foreign
<1>35. CASE UNCHANGED vars
  BY <1>35, QuietKeeps DEF vars, Kept
<1> QED
  BY <1>1, <1>2, <1>3, <1>4, <1>5, <1>6, <1>7, <1>8, <1>9, <1>10, <1>11, <1>12, <1>13, <1>14,
     <1>15, <1>16, <1>17, <1>18, <1>19, <1>20, <1>21, <1>22, <1>23, <1>24, <1>25, <1>26, <1>27,
     <1>28, <1>29, <1>30, <1>31, <1>32, <1>33, <1>34, <1>35 DEF Next, Process, Environment,
     Recovery, Place, Refuse, Transaction

(* NoLoss: whatever interrupts a run, and whatever users and other         *)
(* programs do meanwhile, the last content of a source is never lost.      *)
THEOREM NothingLost == Spec => []NoLoss
<1>1. Init => Typed /\ Kept
  BY InitTyped, InitKept
<1>2. Typed /\ Kept /\ [Next]_vars => Typed' /\ Kept'
  BY NextTyped, NextKept
<1>3. Kept => NoLoss
  BY DEF Kept
<1> QED
  BY <1>1, <1>2, <1>3, PTL DEF Spec
-----------------------------------------------------------------------------
(***************************************************************************)
(* THE UNDISTURBED RUN                                                     *)
(*                                                                         *)
(* A run that only crashes, power losses and I/O failures disturb, for any *)
(* files, contents, sizes, options without --overwrite and number of       *)
(* interruptions: recovery can explain every state it finds, descriptions  *)
(* tell the truth, a finished run has settled every candidate, and every   *)
(* step is one of ArchiveMove or none.                                     *)
(***************************************************************************)

(* Nobody else touches the files, no part file was left by an earlier run, *)
(* and a conflicting destination is never replaced.                        *)
NoInterference ==
    /\ MaxEdits = 0 /\ MaxForeign = 0 /\ StalePart = {}
    /\ \A p \in Policies : ~p.overwrite

(* What the last record says: the transaction is in the log, the           *)
(* destination is in place, the description is settled too.                *)
Logged   == {"begin", "copied", "verified"}
InPlace  == {"placed", "described", "source_removed", "commit"}
Reported == {"described", "source_removed", "commit"}

(* The destination holds the file, as far as --verify can tell.            *)
Held(f) == Same(dst[f], orig[f])

(* The description after the description effect.                           *)
Described(f) == desc[f] = (policy.op = "split" \/ policy.keepDesc)
-----------------------------------------------------------------------------
(* THE INDUCTIVE INVARIANT *)

(* No source was rewritten, so a begin record still describes it.          *)
Steady ==
    /\ mode = "rename" => ~policy.keep
    /\ ~policy.overwrite
    /\ \A f \in File :
        /\ orig[f] \in Data /\ mtime[f] = 0
        /\ begin[f].data = orig[f] /\ begin[f].mtime = 0

(* Where a file can be, given its last record.                             *)
Sides(f) ==
    /\ src[f] \in {NoFile, orig[f]}
    /\ src[f] = NoFile => Held(f)
    /\ policy.keep => src[f] = orig[f]
    /\ last[f] \in {"none", "aborted"} => src[f] = orig[f]
    /\ last[f] \in Logged => dst[f] = NoFile \/ Held(f)
    /\ last[f] \in InPlace => Held(f)
    /\ Open(f) /\ begin[f].mode = "rename" => src[f] = NoFile \/ dst[f] = NoFile
    /\ last[f] \in {"source_removed", "commit"} => src[f] = NoFile \/ policy.keep

(* A part file belongs to an open transaction that has not placed it yet.  *)
PartHeld(f) ==
    part[f] # NoFile => /\ last[f] \in Logged /\ dst[f] = NoFile
                        /\ part[f] \in {Partial, orig[f]} /\ src[f] = orig[f]

(* A description changes only after its file is in place.                  *)
Told(f) ==
    /\ desc[f] # (policy.op = "restore") => last[f] \in InPlace
    /\ last[f] \in Reported => Described(f)
    /\ policy.op = "restore" /\ policy.keepDesc => desc[f]

(* A candidate is skipped only where it cannot be transferred.             *)
Skipped(f) ==
    f \in handled => /\ last[f] \in {"none", "aborted"}
                     /\ f \in MissingDir \/ Conflict(f)

(* After recovery, only the current file's transaction is open.            *)
Settling(f) ==
    /\ pc \in {"pick", "attempt", "finished"} => ~Open(f)
    /\ pc \in PlaceLabels \cup FinishLabels => f = cur \/ ~Open(f)
    /\ pc \in RecoverLabels => f \notin handled
    /\ pc = "finished" => f \in handled \/ last[f] = "commit"

(* What the label says of the current file.                                *)
AtRecovery ==
    /\ pc \in {"abort.part", "abort.log"} => last[cur] \in Logged /\ src[cur] = orig[cur]
    /\ pc = "abort.log" => part[cur] = NoFile
    /\ pc = "roll.part" => last[cur] = "begin" /\ Held(cur)
    /\ pc = "roll.placed" => last[cur] \in Logged /\ part[cur] = NoFile /\ Held(cur)
    /\ pc \in {"roll.describe", "roll.described"} => last[cur] = "placed"
    /\ pc = "roll.described" => Described(cur)
    /\ pc = "roll.remove" => last[cur] = "described"
    /\ pc = "roll.commit" => last[cur] \in {"described", "source_removed"}
    /\ pc = "roll.commit" => src[cur] = NoFile \/ policy.keep

AtPlace ==
    /\ pc \in PlaceLabels => /\ src[cur] = orig[cur] /\ dst[cur] = NoFile
                             /\ begin[cur].mode = mode /\ ~over
    /\ pc \in {"place", "rename"} => part[cur] = NoFile
    /\ pc \in {"place", "stage", "copied"} => last[cur] = "begin"
    /\ pc = "rename" => last[cur] \in {"begin", "verified"} /\ mode = "rename"
    /\ pc \in {"stage", "copied", "verified", "move"} => mode = "copy"
    /\ pc = "verified" => last[cur] = "copied"
    /\ pc = "move" => last[cur] = "verified"
    /\ pc \in {"copied", "verified", "move"} => part[cur] = orig[cur]

AtFinish ==
    /\ pc = "placed" => last[cur] \in Logged /\ part[cur] = NoFile /\ Held(cur)
    /\ pc \in {"describe", "described"} => last[cur] = "placed"
    /\ pc = "described" => Described(cur)
    /\ pc \in {"remove", "removed"} => last[cur] = "described"
    /\ pc = "remove" => ~policy.keep
    /\ pc = "removed" => src[cur] = NoFile
    /\ pc = "commit" => last[cur] \in {"described", "source_removed"}
    /\ pc = "commit" => src[cur] = NoFile \/ policy.keep

AtLabel ==
    /\ pc \notin RefuseLabels
    /\ pc \in {"attempt"} \cup PlaceLabels \cup FinishLabels => cur \notin handled
    /\ pc = "attempt" => last[cur] \in {"none", "aborted"}
    /\ AtRecovery /\ AtPlace /\ AtFinish

FileInv(f) == Sides(f) /\ PartHeld(f) /\ Told(f) /\ Skipped(f) /\ Settling(f)

(* The inductive strengthening of NeverStuck, DescriptionTellsTruth and    *)
(* FinishedSettled, beside Typed.                                          *)
RecoveryInv == Steady /\ NeverStuck /\ AtLabel /\ \A f \in File : FileInv(f)
-----------------------------------------------------------------------------
(* RecoveryInv holds of every state a first run starts in.                 *)
LEMMA InitRecovery == ASSUME NoInterference PROVE Init => RecoveryInv
<1> SUFFICES ASSUME Init PROVE RecoveryInv
  OBVIOUS
<1> USE AbsentAssumption, PolicyAssumption DEF Init, NoInterference
<1>1. Steady /\ NeverStuck
  BY DEF Steady, NeverStuck
<1>2. AtLabel
  BY DEF AtLabel, AtRecovery, AtPlace, AtFinish, RefuseLabels, PlaceLabels
<1>3. ASSUME NEW f \in File PROVE FileInv(f)
  <2>1. Sides(f) /\ PartHeld(f) /\ Skipped(f)
    BY DEF Sides, PartHeld, Skipped, Logged, InPlace
  <2>2. Told(f)
    BY DEF Told, Reported
  <2>3. Settling(f)
    BY DEF Settling, PlaceLabels, FinishLabels
  <2> QED
    BY <2>1, <2>2, <2>3 DEF FileInv
<1> QED
  BY <1>1, <1>2, <1>3 DEF RecoveryInv

(* A step that touches neither files nor log leaves what relates them.     *)
LEMMA IdleKeeps ==
    ASSUME RecoveryInv, UNCHANGED <<policy, disk, last, begin, orig>>
    PROVE  \A f \in File : Sides(f)' /\ PartHeld(f)' /\ Told(f)'
BY DEF RecoveryInv, FileInv, Sides, PartHeld, Told, Described, Held, Same, SizeAt, Open, disk

(* A file that is skipped stays skipped while it is left alone.            *)
LEMMA SkippedKept ==
    ASSUME RecoveryInv, UNCHANGED <<policy, src, dst, handled>>,
           NEW f \in File, f \in handled => last'[f] = last[f]
    PROVE  Skipped(f)'
BY DEF RecoveryInv, FileInv, Skipped, Conflict, Adopted, SizeAt

(* The next process starts; nothing has been skipped yet.                  *)
LEMMA StartRecovers == ASSUME NoInterference, Typed, RecoveryInv, Start PROVE RecoveryInv'
<1> USE PolicyAssumption DEF RecoveryInv, FileInv, Typed, TypeOK, PlaceLabels, RefuseLabels,
        FinishLabels, disk, log, fixed
<1>1. Steady'
  BY DEF Steady, Start
<1>2. NeverStuck'
  BY DEF NeverStuck, Start
<1>3. AtLabel'
  BY DEF AtLabel, AtRecovery, AtPlace, AtFinish, Start
<1>4. \A f \in File : Sides(f)' /\ PartHeld(f)' /\ Told(f)'
  BY IdleKeeps DEF Start
<1>6. \A f \in File : Skipped(f)'
  BY DEF Skipped, Start
<1>7. \A f \in File : Settling(f)'
  BY DEF Settling, Start
<1> QED
  BY <1>1, <1>2, <1>3, <1>4, <1>6, <1>7

(* Recovery finds an explanation for every open transaction.               *)
LEMMA RecoverOneRecovers == ASSUME NoInterference, Typed, RecoveryInv, RecoverOne PROVE RecoveryInv'
<1> USE DEF RecoveryInv, FileInv, RecoverLabels, PlaceLabels, RefuseLabels, FinishLabels,
        Logged, InPlace, Goto, Stop, disk, log, proc, fixed
<1>1. Steady'
  BY DEF Steady, RecoverOne
<1>2. NeverStuck'
  BY DEF NeverStuck, Steady, Sides, Held, Same, SizeAt, RecoverOne, RecoverBegin,
     RecoverUnplaced, RecoverPlaced, RecoverDescribed, RecoverRemoved, Unplaced, DstMatches
<1>3. AtLabel'
  BY DEF AtLabel, AtRecovery, AtPlace, AtFinish, Sides, PartHeld, Held, Same, RecoverOne,
     RecoverBegin, RecoverUnplaced, RecoverPlaced, RecoverDescribed, RecoverRemoved, Unplaced,
     DstMatches
<1>4. \A f \in File : Sides(f)' /\ PartHeld(f)' /\ Told(f)'
  BY IdleKeeps DEF RecoverOne
<1>6. \A f \in File : Skipped(f)'
  BY DEF Skipped, Conflict, Adopted, RecoverOne
<1>7. \A f \in File : Settling(f)'
  BY DEF Settling, RecoverOne, RecoverBegin, RecoverUnplaced, RecoverPlaced, RecoverDescribed,
     RecoverRemoved
<1> QED
  BY <1>1, <1>2, <1>3, <1>4, <1>6, <1>7

(* Recovery ends with no transaction open.                                 *)
LEMMA RecoveredRecovers == ASSUME NoInterference, Typed, RecoveryInv, Recovered PROVE RecoveryInv'
<1> USE DEF RecoveryInv, FileInv, RecoverLabels, PlaceLabels, RefuseLabels, FinishLabels, Open,
        Goto, disk, log, proc, fixed
<1>1. Steady'
  BY DEF Steady, Recovered
<1>2. NeverStuck'
  BY DEF NeverStuck, Recovered
<1>3. AtLabel'
  BY DEF AtLabel, AtRecovery, AtPlace, AtFinish, Recovered
<1>4. \A f \in File : Sides(f)' /\ PartHeld(f)' /\ Told(f)'
  BY IdleKeeps DEF Recovered
<1>6. \A f \in File : Skipped(f)'
  BY DEF Skipped, Conflict, Adopted, Recovered
<1>7. \A f \in File : Settling(f)'
  BY DEF Settling, Recovered
<1> QED
  BY <1>1, <1>2, <1>3, <1>4, <1>6, <1>7

(* An aborted or rolled forward transaction loses its part file.           *)
LEMMA DeletePartRecovers == ASSUME NoInterference, Typed, RecoveryInv, DeletePart PROVE RecoveryInv'
<1> USE DEF RecoveryInv, FileInv, Typed, TypeOK, RecoverLabels, PlaceLabels, RefuseLabels,
        FinishLabels, Logged, Open, Goto, RemovePart, log, proc, fixed
<1>1. Steady'
  BY DEF Steady, DeletePart
<1>2. NeverStuck'
  BY DEF NeverStuck, DeletePart
<1>3. AtLabel'
  BY DEF AtLabel, AtRecovery, AtPlace, AtFinish, Held, Same, DeletePart
<1>4. \A f \in File : Sides(f)' /\ PartHeld(f)'
  BY DEF Sides, PartHeld, Held, Same, DeletePart
<1>5. \A f \in File : Told(f)'
  BY DEF Told, Described, DeletePart
<1>6. \A f \in File : Skipped(f)'
  BY DEF Skipped, Conflict, Adopted, DeletePart
<1>7. \A f \in File : Settling(f)'
  BY DEF Settling, DeletePart
<1> QED
  BY <1>1, <1>2, <1>3, <1>4, <1>5, <1>6, <1>7

(* Recovery logs what it established.                                      *)
LEMMA RollLogRecovers == ASSUME NoInterference, Typed, RecoveryInv, RollLog PROVE RecoveryInv'
<1> USE DEF RecoveryInv, FileInv, Typed, TypeOK, RecoverLabels, PlaceLabels, RefuseLabels,
        FinishLabels, Logged, InPlace, Reported, Open, Goto, Append, disk, proc, fixed
<1>1. Steady'
  BY DEF Steady, RollLog, LogStep
<1>2. NeverStuck'
  BY DEF NeverStuck, RollLog, LogStep
<1>3. AtLabel'
  BY DEF AtLabel, AtRecovery, AtPlace, AtFinish, RollLog, LogStep
<1>4. \A f \in File : Sides(f)' /\ PartHeld(f)'
  BY DEF AtLabel, AtRecovery, Sides, PartHeld, Held, Same, RollLog, LogStep
<1>5. \A f \in File : Told(f)'
  BY DEF AtLabel, AtRecovery, Told, Described, RollLog, LogStep
<1>6. \A f \in File : Skipped(f)'
  BY DEF Skipped, Settling, RollLog, LogStep
<1>7. \A f \in File : Settling(f)'
  BY DEF Settling, RollLog, LogStep
<1> QED
  BY <1>1, <1>2, <1>3, <1>4, <1>5, <1>6, <1>7

(* Recovery repeats the description effect.                                *)
LEMMA RollDescribeRecovers == ASSUME NoInterference, Typed, RecoveryInv, RollDescribe PROVE RecoveryInv'
<1> USE PolicyAssumption DEF RecoveryInv, FileInv, Typed, TypeOK, Policy, RecoverLabels,
        PlaceLabels, RefuseLabels, FinishLabels, InPlace, Open, Goto, log, proc, fixed
<1>1. Steady'
  BY DEF Steady, RollDescribe, Describe
<1>2. NeverStuck'
  BY DEF NeverStuck, RollDescribe, Describe
<1>3. AtLabel'
  BY DEF AtLabel, AtRecovery, AtPlace, AtFinish, Described, Told, RollDescribe, Describe,
     DescribedAfter
<1>4. \A f \in File : Sides(f)' /\ PartHeld(f)'
  BY DEF Sides, PartHeld, Held, Same, RollDescribe, Describe
<1>5. \A f \in File : Told(f)'
  BY DEF AtLabel, AtRecovery, Told, Described, RollDescribe, Describe, DescribedAfter
<1>6. \A f \in File : Skipped(f)'
  BY DEF Skipped, Conflict, Adopted, RollDescribe, Describe
<1>7. \A f \in File : Settling(f)'
  BY DEF Settling, RollDescribe, Describe
<1> QED
  BY <1>1, <1>2, <1>3, <1>4, <1>5, <1>6, <1>7

(* Recovery removes a source whose file is in place.                       *)
LEMMA RollRemoveRecovers == ASSUME NoInterference, Typed, RecoveryInv, RollRemove PROVE RecoveryInv'
<1> USE DEF RecoveryInv, FileInv, Typed, TypeOK, RecoverLabels, PlaceLabels, RefuseLabels,
        FinishLabels, InPlace, Open, Goto, Stop, log, proc, fixed
<1>1. Steady'
  BY DEF Steady, RollRemove
<1>2. NeverStuck'
  BY DEF NeverStuck, AtLabel, AtRecovery, Steady, Sides, Held, Same, SizeAt, RollRemove,
     RemoveSource, DstMatches
<1>3. AtLabel'
  BY DEF AtLabel, AtRecovery, AtPlace, AtFinish, RollRemove, RemoveSource
<1>4. \A f \in File : Sides(f)' /\ PartHeld(f)'
  BY DEF AtLabel, AtRecovery, Sides, PartHeld, Held, Same, RollRemove, RemoveSource
<1>5. \A f \in File : Told(f)'
  BY DEF Told, Described, RollRemove
<1>6. \A f \in File : Skipped(f)'
  BY DEF Skipped, Settling, RollRemove
<1>7. \A f \in File : Settling(f)'
  BY DEF Settling, RollRemove, RemoveSource
<1> QED
  BY <1>1, <1>2, <1>3, <1>4, <1>5, <1>6, <1>7

(* A candidate that is neither committed nor skipped.                      *)
LEMMA PickRecovers == ASSUME NoInterference, Typed, RecoveryInv, Pick PROVE RecoveryInv'
<1> USE PolicyAssumption DEF RecoveryInv, FileInv, Typed, TypeOK, RecoverLabels, PlaceLabels,
        RefuseLabels, Open, Goto, disk, log, fixed
<1>1. Steady'
  BY DEF Steady, Pick
<1>2. NeverStuck'
  BY DEF NeverStuck, Pick
<1>3. AtLabel'
  BY DEF AtLabel, AtRecovery, AtPlace, AtFinish, Settling, Pick, Remaining
<1>4. \A f \in File : Sides(f)' /\ PartHeld(f)' /\ Told(f)'
  BY IdleKeeps DEF Pick
<1>6. \A f \in File : Skipped(f)'
  BY DEF Skipped, Conflict, Adopted, Pick
<1>7. \A f \in File : Settling(f)'
  BY DEF Settling, Pick
<1> QED
  BY <1>1, <1>2, <1>3, <1>4, <1>6, <1>7

(* Nothing is left to do.                                                  *)
LEMMA FinishRecovers == ASSUME NoInterference, Typed, RecoveryInv, Finish PROVE RecoveryInv'
<1> USE DEF RecoveryInv, FileInv, RecoverLabels, PlaceLabels, RefuseLabels, FinishLabels, Open,
        Goto, disk, log, proc, fixed
<1>1. Steady'
  BY DEF Steady, Finish
<1>2. NeverStuck'
  BY DEF NeverStuck, Finish
<1>3. AtLabel'
  BY DEF AtLabel, AtRecovery, AtPlace, AtFinish, Finish
<1>4. \A f \in File : Sides(f)' /\ PartHeld(f)' /\ Told(f)'
  BY IdleKeeps DEF Finish
<1>6. \A f \in File : Skipped(f)'
  BY DEF Skipped, Conflict, Adopted, Finish
<1>7. \A f \in File : Settling(f)'
  BY DEF Settling, Finish, Remaining
<1> QED
  BY <1>1, <1>2, <1>3, <1>4, <1>6, <1>7

(* Only a missing directory makes a candidate missing.                     *)
LEMMA SkipMissingRecovers == ASSUME NoInterference, Typed, RecoveryInv, SkipMissing PROVE RecoveryInv'
<1> USE AbsentAssumption DEF RecoveryInv, FileInv, RecoverLabels, PlaceLabels, RefuseLabels,
        FinishLabels, Open, Goto, Handled, disk, log, fixed
<1>1. Steady'
  BY DEF Steady, SkipMissing
<1>2. NeverStuck'
  BY DEF NeverStuck, SkipMissing
<1>3. AtLabel'
  BY DEF AtLabel, AtRecovery, AtPlace, AtFinish, SkipMissing
<1>4. \A f \in File : Sides(f)' /\ PartHeld(f)' /\ Told(f)'
  BY IdleKeeps DEF SkipMissing
<1>6. \A f \in File : Skipped(f)'
  BY DEF AtLabel, Steady, Sides, Skipped, Conflict, Adopted, SkipMissing, Missing
<1>7. \A f \in File : Settling(f)'
  BY DEF Settling, SkipMissing
<1> QED
  BY <1>1, <1>2, <1>3, <1>4, <1>6, <1>7

(* A conflicting destination is left alone.                                *)
LEMMA SkipConflictRecovers == ASSUME NoInterference, Typed, RecoveryInv, SkipConflict PROVE RecoveryInv'
<1> USE DEF RecoveryInv, FileInv, RecoverLabels, PlaceLabels, RefuseLabels, FinishLabels, Open,
        Goto, RemovePart, Handled, log, fixed
<1>1. Steady'
  BY DEF Steady, SkipConflict
<1>2. NeverStuck'
  BY DEF NeverStuck, SkipConflict
<1>3. AtLabel'
  BY DEF AtLabel, AtRecovery, AtPlace, AtFinish, SkipConflict
<1>4. \A f \in File : Sides(f)' /\ PartHeld(f)'
  BY DEF Sides, PartHeld, Held, Same, SkipConflict
<1>5. \A f \in File : Told(f)'
  BY DEF Told, Described, SkipConflict
<1>6. \A f \in File : Skipped(f)'
  BY DEF AtLabel, Skipped, Conflict, Adopted, SkipConflict
<1>7. \A f \in File : Settling(f)'
  BY DEF Settling, SkipConflict
<1> QED
  BY <1>1, <1>2, <1>3, <1>4, <1>5, <1>6, <1>7

(* A transaction begins beside no destination, or one it adopts.           *)
LEMMA BeginTxRecovers == ASSUME NoInterference, Typed, RecoveryInv, BeginTx PROVE RecoveryInv'
<1> USE DEF RecoveryInv, FileInv, Typed, TypeOK, RecoverLabels, PlaceLabels, RefuseLabels,
        Logged, InPlace, Reported, Open, Goto, Append, disk, fixed
<1>1. Steady'
  BY DEF Steady, Sides, BeginTx, Missing, BeginMode
<1>2. NeverStuck'
  BY DEF NeverStuck, BeginTx
<1>3. AtLabel'
  <2>0. pc = "attempt" /\ cur' = cur
    BY DEF BeginTx
  <2>1. last[cur] \in {"none", "aborted"} /\ cur \notin handled
    BY <2>0 DEF AtLabel
  <2>2. src[cur] = orig[cur] /\ part[cur] = NoFile /\ (dst[cur] = NoFile \/ Adopted(cur))
    BY <2>1 DEF Sides, PartHeld, BeginTx, Steady, Conflict
  <2>3. last'[cur] = "begin" /\ begin'[cur].mode = mode' /\ UNCHANGED <<policy, disk, orig, handled>>
    BY DEF BeginTx
  <2>4. CASE Adopted(cur)
    <3>1. pc' = "placed" /\ Held(cur)'
      BY <2>2, <2>4 DEF BeginTx, Adopted, Held, Same
    <3> QED
      BY <2>0, <2>1, <2>2, <2>3, <3>1 DEF AtLabel, AtRecovery, AtPlace, AtFinish
  <2>5. CASE ~Adopted(cur)
    <3>1. pc' = "place" /\ dst[cur] = NoFile /\ over' = FALSE
      BY <2>2, <2>5 DEF BeginTx, Conflict
    <3> QED
      BY <2>0, <2>1, <2>2, <2>3, <3>1 DEF AtLabel, AtRecovery, AtPlace, AtFinish
  <2> QED
    BY <2>4, <2>5
<1>4. \A f \in File : Sides(f)' /\ PartHeld(f)'
  BY DEF Steady, Sides, PartHeld, Held, Same, BeginTx, BeginMode, Conflict, Adopted
<1>5. \A f \in File : Told(f)'
  BY DEF AtLabel, Told, Described, BeginTx
<1>6. \A f \in File : Skipped(f)'
  BY DEF AtLabel, Skipped, Conflict, Adopted, BeginTx
<1>7. \A f \in File : Settling(f)'
  BY DEF Settling, BeginTx
<1> QED
  BY <1>1, <1>2, <1>3, <1>4, <1>5, <1>6, <1>7

(* The source is as the begin record says.                                 *)
LEMMA CheckRenameRecovers == ASSUME NoInterference, Typed, RecoveryInv, CheckRename PROVE RecoveryInv'
<1> USE AbsentAssumption DEF RecoveryInv, FileInv, Typed, TypeOK, RecoverLabels, PlaceLabels,
        RefuseLabels, InPlace, Reported, Open, Goto, Append, disk, proc, fixed
<1>1. Steady'
  BY DEF Steady, CheckRename
<1>2. NeverStuck'
  BY DEF NeverStuck, CheckRename
<1>3. AtLabel'
  BY DEF AtLabel, AtRecovery, AtPlace, AtFinish, Steady, SizeAt, CheckRename, SameAttrs
<1>4. \A f \in File : Sides(f)' /\ PartHeld(f)'
  BY DEF AtLabel, AtPlace, Sides, PartHeld, Held, Same, CheckRename
<1>5. \A f \in File : Told(f)'
  BY DEF AtLabel, AtPlace, Told, Described, CheckRename
<1>6. \A f \in File : Skipped(f)'
  BY DEF AtLabel, Skipped, Conflict, Adopted, CheckRename
<1>7. \A f \in File : Settling(f)'
  BY DEF Settling, CheckRename
<1> QED
  BY <1>1, <1>2, <1>3, <1>4, <1>5, <1>6, <1>7

(* The renamed file is in place.                                           *)
LEMMA RenameRecovers == ASSUME NoInterference, Typed, RecoveryInv, Rename PROVE RecoveryInv'
<1> USE DEF RecoveryInv, FileInv, Typed, TypeOK, RecoverLabels, PlaceLabels, RefuseLabels,
        Logged, Open, Goto, Stop, log, proc, fixed
<1>1. Steady'
  BY DEF Steady, Rename
<1>2. NeverStuck'
  BY DEF NeverStuck, Rename
<1>3. AtLabel'
  BY DEF AtLabel, AtRecovery, AtPlace, AtFinish, Held, Same, Rename
<1>4. \A f \in File : Sides(f)' /\ PartHeld(f)'
  BY DEF AtLabel, AtPlace, Steady, Sides, PartHeld, Held, Same, Rename
<1>5. \A f \in File : Told(f)'
  BY DEF Told, Described, Rename
<1>6. \A f \in File : Skipped(f)'
  BY DEF Skipped, Conflict, Adopted, Rename
<1>7. \A f \in File : Settling(f)'
  BY DEF Settling, Rename
<1> QED
  BY <1>1, <1>2, <1>3, <1>4, <1>5, <1>6, <1>7

(* A refused rename is aborted with the source in place.                   *)
LEMMA CrossDeviceRecovers == ASSUME NoInterference, Typed, RecoveryInv, CrossDevice PROVE RecoveryInv'
<1> USE DEF RecoveryInv, FileInv, Typed, TypeOK, RecoverLabels, PlaceLabels, RefuseLabels,
        InPlace, Reported, Open, Goto, Stop, Append, disk
<1>1. Steady'
  BY DEF Steady, CrossDevice
<1>2. NeverStuck'
  BY DEF NeverStuck, CrossDevice
<1>3. AtLabel'
  BY DEF AtLabel, AtRecovery, AtPlace, AtFinish, CrossDevice
<1>4. \A f \in File : Sides(f)' /\ PartHeld(f)'
  BY DEF AtLabel, AtPlace, Sides, PartHeld, Held, Same, CrossDevice
<1>5. \A f \in File : Told(f)'
  BY DEF AtLabel, AtPlace, Told, Described, CrossDevice
<1>6. \A f \in File : Skipped(f)'
  BY DEF Skipped, Conflict, Adopted, CrossDevice
<1>7. \A f \in File : Settling(f)'
  BY DEF Settling, CrossDevice
<1> QED
  BY <1>1, <1>2, <1>3, <1>4, <1>5, <1>6, <1>7

(* The part file is opened beside no destination.                          *)
LEMMA StageOpenRecovers == ASSUME NoInterference, Typed, RecoveryInv, StageOpen PROVE RecoveryInv'
<1> USE DEF RecoveryInv, FileInv, Typed, TypeOK, RecoverLabels, PlaceLabels, RefuseLabels,
        Logged, Open, Goto, Stop, log, proc, fixed
<1>1. Steady'
  BY DEF Steady, StageOpen
<1>2. NeverStuck'
  BY DEF NeverStuck, StageOpen
<1>3. AtLabel'
  BY DEF AtLabel, AtRecovery, AtPlace, AtFinish, Steady, SizeAt, StageOpen, SameAttrs
<1>4. \A f \in File : Sides(f)' /\ PartHeld(f)'
  BY DEF AtLabel, AtPlace, Sides, PartHeld, Held, Same, StageOpen
<1>5. \A f \in File : Told(f)'
  BY DEF Told, Described, StageOpen
<1>6. \A f \in File : Skipped(f)'
  BY DEF Skipped, Conflict, Adopted, StageOpen
<1>7. \A f \in File : Settling(f)'
  BY DEF Settling, StageOpen
<1> QED
  BY <1>1, <1>2, <1>3, <1>4, <1>5, <1>6, <1>7

(* The part file is complete.                                              *)
LEMMA StageCloseRecovers == ASSUME NoInterference, Typed, RecoveryInv, StageClose PROVE RecoveryInv'
<1> USE DEF RecoveryInv, FileInv, Typed, TypeOK, RecoverLabels, PlaceLabels, RefuseLabels,
        Logged, Open, Goto, Stop, RemovePart, log, proc, fixed
<1>1. Steady'
  BY DEF Steady, StageClose
<1>2. NeverStuck'
  BY DEF NeverStuck, StageClose
<1>3. AtLabel'
  BY DEF AtLabel, AtRecovery, AtPlace, AtFinish, Steady, SizeAt, StageClose, SameAttrs
<1>4. \A f \in File : Sides(f)' /\ PartHeld(f)'
  BY DEF AtLabel, AtPlace, Sides, PartHeld, Held, Same, StageClose
<1>5. \A f \in File : Told(f)'
  BY DEF Told, Described, StageClose
<1>6. \A f \in File : Skipped(f)'
  BY DEF Skipped, Conflict, Adopted, StageClose
<1>7. \A f \in File : Settling(f)'
  BY DEF Settling, StageClose
<1> QED
  BY <1>1, <1>2, <1>3, <1>4, <1>5, <1>6, <1>7

(* A failed copy leaves no part file.                                      *)
LEMMA StageFailRecovers == ASSUME NoInterference, Typed, RecoveryInv, StageFail PROVE RecoveryInv'
<1> USE DEF RecoveryInv, FileInv, RecoverLabels, PlaceLabels, RefuseLabels, Open, Stop,
        RemovePart, log, proc
<1>1. Steady'
  BY DEF Steady, StageFail
<1>2. NeverStuck'
  BY DEF NeverStuck, StageFail
<1>3. AtLabel'
  BY DEF AtLabel, AtRecovery, AtPlace, AtFinish, StageFail
<1>4. \A f \in File : Sides(f)' /\ PartHeld(f)'
  BY DEF Sides, PartHeld, Held, Same, StageFail
<1>5. \A f \in File : Told(f)'
  BY DEF Told, Described, StageFail
<1>6. \A f \in File : Skipped(f)'
  BY DEF Skipped, Conflict, Adopted, StageFail
<1>7. \A f \in File : Settling(f)'
  BY DEF Settling, StageFail
<1> QED
  BY <1>1, <1>2, <1>3, <1>4, <1>5, <1>6, <1>7

(* The copy is logged.                                                     *)
LEMMA LogCopiedRecovers == ASSUME NoInterference, Typed, RecoveryInv, LogCopied PROVE RecoveryInv'
<1> USE DEF RecoveryInv, FileInv, Typed, TypeOK, RecoverLabels, PlaceLabels, RefuseLabels,
        Logged, InPlace, Reported, Open, Goto, Append, disk, proc, fixed
<1>1. Steady'
  BY DEF Steady, LogCopied, LogStep
<1>2. NeverStuck'
  BY DEF NeverStuck, LogCopied, LogStep
<1>3. AtLabel'
  BY DEF AtLabel, AtRecovery, AtPlace, AtFinish, LogCopied, LogStep
<1>4. \A f \in File : Sides(f)' /\ PartHeld(f)'
  BY DEF AtLabel, AtPlace, Sides, PartHeld, Held, Same, LogCopied, LogStep
<1>5. \A f \in File : Told(f)'
  BY DEF AtLabel, AtPlace, Told, Described, LogCopied, LogStep
<1>6. \A f \in File : Skipped(f)'
  BY DEF AtLabel, Skipped, Conflict, Adopted, LogCopied, LogStep
<1>7. \A f \in File : Settling(f)'
  BY DEF Settling, LogCopied, LogStep
<1> QED
  BY <1>1, <1>2, <1>3, <1>4, <1>5, <1>6, <1>7

(* Its verification is logged.                                             *)
LEMMA LogVerifiedRecovers == ASSUME NoInterference, Typed, RecoveryInv, LogVerified PROVE RecoveryInv'
<1> USE DEF RecoveryInv, FileInv, Typed, TypeOK, RecoverLabels, PlaceLabels, RefuseLabels,
        Logged, InPlace, Reported, Open, Goto, Append, disk, proc, fixed
<1>1. Steady'
  BY DEF Steady, LogVerified
<1>2. NeverStuck'
  BY DEF NeverStuck, LogVerified
<1>3. AtLabel'
  BY DEF AtLabel, AtRecovery, AtPlace, AtFinish, LogVerified
<1>4. \A f \in File : Sides(f)' /\ PartHeld(f)'
  BY DEF AtLabel, AtPlace, Sides, PartHeld, Held, Same, LogVerified
<1>5. \A f \in File : Told(f)'
  BY DEF AtLabel, AtPlace, Told, Described, LogVerified
<1>6. \A f \in File : Skipped(f)'
  BY DEF AtLabel, Skipped, Conflict, Adopted, LogVerified
<1>7. \A f \in File : Settling(f)'
  BY DEF Settling, LogVerified
<1> QED
  BY <1>1, <1>2, <1>3, <1>4, <1>5, <1>6, <1>7

(* The moved part file is in place.                                        *)
LEMMA MoveRecovers == ASSUME NoInterference, Typed, RecoveryInv, Move PROVE RecoveryInv'
<1> USE DEF RecoveryInv, FileInv, Typed, TypeOK, RecoverLabels, PlaceLabels, RefuseLabels,
        Logged, Open, Goto, RemovePart, log, proc, fixed
<1>1. Steady'
  BY DEF Steady, Move
<1>2. NeverStuck'
  BY DEF NeverStuck, Move
<1>3. AtLabel'
  BY DEF AtLabel, AtRecovery, AtPlace, AtFinish, Sides, Held, Same, Move
<1>4. \A f \in File : Sides(f)' /\ PartHeld(f)'
  BY DEF AtLabel, AtPlace, Sides, PartHeld, Held, Same, Move
<1>5. \A f \in File : Told(f)'
  BY DEF Told, Described, Move
<1>6. \A f \in File : Skipped(f)'
  BY DEF AtLabel, Skipped, Conflict, Adopted, Move
<1>7. \A f \in File : Settling(f)'
  BY DEF Settling, Move
<1> QED
  BY <1>1, <1>2, <1>3, <1>4, <1>5, <1>6, <1>7

(* Nothing appears at a destination and no source changes, so no           *)
(* transaction is refused.                                                 *)
LEMMA RefuseRecovers == ASSUME NoInterference, Typed, RecoveryInv, Refuse PROVE RecoveryInv'
BY DEF RecoveryInv, AtLabel, RefuseLabels, Refuse, ConflictAborted, ConflictCleaned,
   ChangedCleaned, ChangedAborted, LogStep
(* The rest of a transaction is logged.                                    *)
LEMMA FinishLogRecovers == ASSUME NoInterference, Typed, RecoveryInv, FinishLog PROVE RecoveryInv'
<1> USE DEF RecoveryInv, FileInv, Typed, TypeOK, RecoverLabels, PlaceLabels, RefuseLabels,
        FinishLabels, Modes, Begin, Logged, InPlace, Reported, Open, Goto, Append, disk, proc,
        fixed
<1>1. Steady'
  BY DEF Steady, FinishLog, LogStep
<1>2. NeverStuck'
  BY DEF NeverStuck, FinishLog, LogStep
<1>3. AtLabel'
  BY DEF AtLabel, AtRecovery, AtPlace, AtFinish, Sides, Held, Same, FinishLog, LogStep, Retires
<1>4. \A f \in File : Sides(f)' /\ PartHeld(f)'
  BY DEF AtLabel, AtPlace, AtFinish, Sides, PartHeld, Held, Same, FinishLog, LogStep
<1>5. \A f \in File : Told(f)'
  BY DEF AtLabel, AtFinish, Told, Described, FinishLog, LogStep
<1>6. \A f \in File : Skipped(f)'
  BY DEF AtLabel, AtRecovery, Skipped, Conflict, Adopted, FinishLog, LogStep
<1>7. \A f \in File : Settling(f)'
  BY DEF Settling, FinishLog, LogStep
<1> QED
  BY <1>1, <1>2, <1>3, <1>4, <1>5, <1>6, <1>7

(* The description effect.                                                 *)
LEMMA FinishDescribeRecovers == ASSUME NoInterference, Typed, RecoveryInv, FinishDescribe PROVE RecoveryInv'
<1> USE PolicyAssumption DEF RecoveryInv, FileInv, Typed, TypeOK, Policy, RecoverLabels,
        PlaceLabels, RefuseLabels, FinishLabels, InPlace, Open, Goto, log, proc, fixed
<1>1. Steady'
  BY DEF Steady, FinishDescribe, Describe
<1>2. NeverStuck'
  BY DEF NeverStuck, FinishDescribe, Describe
<1>3. AtLabel'
  BY DEF AtLabel, AtRecovery, AtPlace, AtFinish, Described, Told, FinishDescribe, Describe,
     DescribedAfter
<1>4. \A f \in File : Sides(f)' /\ PartHeld(f)'
  BY DEF Sides, PartHeld, Held, Same, FinishDescribe, Describe
<1>5. \A f \in File : Told(f)'
  BY DEF AtLabel, AtFinish, Told, Described, FinishDescribe, Describe, DescribedAfter
<1>6. \A f \in File : Skipped(f)'
  BY DEF Skipped, Conflict, Adopted, FinishDescribe, Describe
<1>7. \A f \in File : Settling(f)'
  BY DEF Settling, FinishDescribe, Describe
<1> QED
  BY <1>1, <1>2, <1>3, <1>4, <1>5, <1>6, <1>7

(* The source of a placed copy is removed.                                 *)
LEMMA FinishRemoveRecovers == ASSUME NoInterference, Typed, RecoveryInv, FinishRemove PROVE RecoveryInv'
<1> USE DEF RecoveryInv, FileInv, Typed, TypeOK, RecoverLabels, PlaceLabels, RefuseLabels,
        FinishLabels, InPlace, Open, Goto, Stop, log, proc, fixed
<1>1. Steady'
  BY DEF Steady, FinishRemove
<1>2. NeverStuck'
  BY DEF NeverStuck, FinishRemove, RemoveSource
<1>3. AtLabel'
  BY DEF AtLabel, AtRecovery, AtPlace, AtFinish, FinishRemove, RemoveSource
<1>4. \A f \in File : Sides(f)' /\ PartHeld(f)'
  BY DEF AtLabel, AtFinish, Sides, PartHeld, Held, Same, FinishRemove, RemoveSource
<1>5. \A f \in File : Told(f)'
  BY DEF Told, Described, FinishRemove
<1>6. \A f \in File : Skipped(f)'
  BY DEF AtLabel, AtFinish, Skipped, Conflict, Adopted, SizeAt, FinishRemove, RemoveSource,
     DstMatches
<1>7. \A f \in File : Settling(f)'
  BY DEF Settling, FinishRemove, RemoveSource
<1> QED
  BY <1>1, <1>2, <1>3, <1>4, <1>5, <1>6, <1>7

(* The process dies.                                                       *)
LEMMA CrashRecovers == ASSUME NoInterference, Typed, RecoveryInv, Crash PROVE RecoveryInv'
<1> USE DEF RecoveryInv, FileInv, RecoverLabels, PlaceLabels, RefuseLabels, FinishLabels, disk,
        log, proc
<1>1. Steady'
  BY DEF Steady, Crash
<1>2. NeverStuck'
  BY DEF NeverStuck, Crash
<1>3. AtLabel'
  BY DEF AtLabel, AtRecovery, AtPlace, AtFinish, Crash
<1>4. \A f \in File : Sides(f)' /\ PartHeld(f)' /\ Told(f)'
  BY IdleKeeps DEF Crash
<1>6. \A f \in File : Skipped(f)'
  BY DEF Skipped, Conflict, Adopted, Crash
<1>7. \A f \in File : Settling(f)'
  BY DEF Settling, Crash
<1> QED
  BY <1>1, <1>2, <1>3, <1>4, <1>6, <1>7

(* The records that were not synced are lost.                              *)
LEMMA PowerLossRecovers == ASSUME NoInterference, Typed, RecoveryInv, PowerLoss PROVE RecoveryInv'
<1> USE DEF RecoveryInv, FileInv, RecoverLabels, PlaceLabels, RefuseLabels, FinishLabels,
        Logged, InPlace, Reported, Open, Append, disk, proc
<1>1. Steady'
  BY DEF Steady, PowerLoss
<1>2. NeverStuck'
  BY DEF NeverStuck, PowerLoss
<1>3. AtLabel'
  BY DEF AtLabel, AtRecovery, AtPlace, AtFinish, PowerLoss
<1>4. \A f \in File : Sides(f)' /\ PartHeld(f)'
  BY DEF Sides, PartHeld, Held, Same, PowerLoss, Unplaced, SyncedUpTo
<1>5. \A f \in File : Told(f)'
  BY DEF Told, Described, PowerLoss, Unplaced, SyncedUpTo
<1>6. \A f \in File : Skipped(f)'
  BY DEF Skipped, Conflict, Adopted, PowerLoss, Unplaced
<1>7. \A f \in File : Settling(f)'
  BY DEF Settling, PowerLoss
<1> QED
  BY <1>1, <1>2, <1>3, <1>4, <1>5, <1>6, <1>7

-----------------------------------------------------------------------------
(* No step of the process, nor a crash or a power loss, leaves RecoveryInv. *)
LEMMA NextRecovery ==
    ASSUME NoInterference
    PROVE  Typed /\ RecoveryInv /\ [Next]_vars => RecoveryInv'
<1> SUFFICES ASSUME Typed, RecoveryInv, [Next]_vars PROVE RecoveryInv'
  OBVIOUS
<1>1. ~(Edit \/ Delete \/ Foreign)
  BY DEF NoInterference, Typed, TypeOK, Edit, Delete, Foreign
<1>2. CASE Start
  BY <1>2, StartRecovers
<1>3. CASE Recovery
  BY <1>3, RecoverOneRecovers, RecoveredRecovers, DeletePartRecovers, RollLogRecovers,
     RollDescribeRecovers, RollRemoveRecovers DEF Recovery
<1>4. CASE Place
  BY <1>4, CheckRenameRecovers, RenameRecovers, CrossDeviceRecovers, StageOpenRecovers,
     StageCloseRecovers, StageFailRecovers, LogCopiedRecovers, LogVerifiedRecovers,
     MoveRecovers DEF Place
<1>5. CASE Refuse
  BY <1>5, RefuseRecovers
<1>6. CASE Transaction
  BY <1>6, PickRecovers, FinishRecovers, SkipMissingRecovers, SkipConflictRecovers,
     BeginTxRecovers, FinishLogRecovers, FinishDescribeRecovers, FinishRemoveRecovers DEF
     Transaction
<1>7. CASE Crash
  BY <1>7, CrashRecovers
<1>8. CASE PowerLoss
  BY <1>8, PowerLossRecovers
<1>9. CASE Terminated \/ UNCHANGED vars
  BY <1>9 DEF Terminated, vars, RecoveryInv, FileInv, Steady, NeverStuck, AtLabel, AtRecovery,
     AtPlace, AtFinish, Sides, PartHeld, Told, Skipped, Settling, Described, Held, Same, Open,
     Conflict, Adopted
<1> QED
  BY <1>1, <1>2, <1>3, <1>4, <1>5, <1>6, <1>7, <1>8, <1>9 DEF Next, Process, Environment

(* RecoveryInv holds throughout an undisturbed run.                        *)
THEOREM RecoveryCorrect == ASSUME NoInterference PROVE Spec => [](Typed /\ RecoveryInv)
<1>1. Init => Typed /\ RecoveryInv
  BY InitTyped, InitRecovery
<1>2. Typed /\ RecoveryInv /\ [Next]_vars => (Typed /\ RecoveryInv)'
  BY NextTyped, NextRecovery
<1> QED
  BY <1>1, <1>2, PTL DEF Spec

(* NeverStuck: recovery finds a state it can explain however often it is   *)
(* itself interrupted.                                                     *)
THEOREM AlwaysExplained == ASSUME NoInterference PROVE Spec => []NeverStuck
<1>1. RecoveryInv => NeverStuck
  BY DEF RecoveryInv
<1> QED
  BY <1>1, RecoveryCorrect, PTL

(* DescriptionTellsTruth: a description changes sides only with its file.  *)
THEOREM DescriptionsTrue == ASSUME NoInterference PROVE Spec => []DescriptionTellsTruth
<1>1. RecoveryInv => DescriptionTellsTruth
  BY DEF RecoveryInv, FileInv, Told, Sides, Held, DescriptionTellsTruth
<1> QED
  BY <1>1, RecoveryCorrect, PTL

(* FinishedSettled: a finished run has committed every candidate, or left  *)
(* one it could not transfer as it was, and no part file.                  *)
THEOREM FinishedClean == ASSUME NoInterference PROVE Spec => []FinishedSettled
<1>1. Typed /\ RecoveryInv => FinishedSettled
  <2> SUFFICES ASSUME Typed, RecoveryInv, pc = "finished", NEW f \in File
               PROVE  /\ part[f] = NoFile
                      /\ \/ last[f] = "commit"
                         \/ /\ src[f] = orig[f] /\ ~Open(f)
                            /\ f \in MissingDir \/ Conflict(f)
    BY DEF FinishedSettled
  <2>1. FileInv(f)
    BY DEF RecoveryInv
  <2>2. ~Open(f) /\ (f \in handled \/ last[f] = "commit")
    BY <2>1 DEF FileInv, Settling
  <2>3. part[f] = NoFile
    BY <2>1, <2>2 DEF FileInv, PartHeld, Open, Logged
  <2>4. CASE f \in handled
    BY <2>1, <2>2, <2>3, <2>4 DEF FileInv, Skipped, Sides
  <2> QED
    BY <2>2, <2>3, <2>4
<1> QED
  BY <1>1, RecoveryCorrect, PTL

(* A committed file is complete on the other side, described, and gone     *)
(* from the source unless sources are kept; with --overwrite it need not   *)
(* be (see the run that finds CommittedComplete violated).                 *)
THEOREM CommittedAlone == ASSUME NoInterference PROVE Spec => []CommittedComplete
<1>1. Typed /\ RecoveryInv => CommittedComplete
  <2> SUFFICES ASSUME Typed, RecoveryInv, NEW f \in File, last[f] = "commit"
               PROVE  /\ Same(dst[f], orig[f])
                      /\ src[f] = IF policy.keep THEN orig[f] ELSE NoFile
                      /\ desc[f] = (policy.op = "split" \/ policy.keepDesc)
    BY DEF CommittedComplete
  <2>1. Sides(f) /\ Told(f)
    BY DEF RecoveryInv, FileInv
  <2>2. Held(f) /\ Described(f) /\ (src[f] = NoFile \/ policy.keep)
    BY <2>1 DEF Sides, Told, InPlace, Reported
  <2>3. src[f] = IF policy.keep THEN orig[f] ELSE NoFile
    BY <2>1 DEF Sides
  <2> QED
    BY <2>2, <2>3 DEF Held, Described
<1> QED
  BY <1>1, RecoveryCorrect, PTL
-----------------------------------------------------------------------------
(* THE REFINEMENT *)

(* The variables of ArchiveMove, as Abstract maps them.                    *)
WhereMap   == [f \in File |-> Where(f)]
ToldMap    == [f \in File |-> last[f] \in Reported]
SettledMap == [f \in File |-> last[f] = "commit"]
AbstractVars == <<policy.keep, WhereMap, ToldMap, SettledMap>>

(* A run starts where ArchiveMove starts.                                  *)
LEMMA InitRefines == Init => Abstract!Init
<1> SUFFICES ASSUME Init PROVE Abstract!Init
  OBVIOUS
<1>1. policy.keep \in BOOLEAN
  BY PolicyAssumption DEF Init, Policy
<1>2. \A f \in File : Where(f) \in {"source", "both"}
  BY AbsentAssumption DEF Init, Where
<1>3. \A f \in File : (last[f] \in Reported) = FALSE /\ (last[f] = "commit") = FALSE
  BY DEF Init, Reported
<1>4. ToldMap = [f \in File |-> FALSE] /\ SettledMap = [f \in File |-> FALSE]
  BY <1>3 DEF ToldMap, SettledMap
<1> QED
  BY <1>1, <1>2, <1>4 DEF Abstract!Init, ToldMap, SettledMap, Reported

(* A step that moves no file and reports none is a stutter.                *)
LEMMA StepStutters ==
    ASSUME UNCHANGED <<policy, src, dst>>,
           \A f \in File : /\ last'[f] \in Reported <=> last[f] \in Reported
                           /\ last'[f] = "commit" <=> last[f] = "commit"
    PROVE  UNCHANGED AbstractVars
<1>1. \A f \in File : Where(f)' = Where(f)
  BY DEF Where, Same
<1>2. WhereMap' = WhereMap
  BY <1>1 DEF WhereMap
<1>3. ToldMap' = ToldMap
  BY DEF ToldMap
<1>4. SettledMap' = SettledMap
  BY DEF SettledMap
<1> QED
  BY <1>2, <1>3, <1>4 DEF AbstractVars

(* A step that moves the current file moves no other file.                 *)
LEMMA OnlyCurMoves ==
    ASSUME Typed, UNCHANGED <<policy, last, cur>>,
           \A f \in File \ {cur} : src'[f] = src[f] /\ dst'[f] = dst[f]
    PROVE  /\ WhereMap' = [WhereMap EXCEPT ![cur] = Where(cur)']
           /\ ToldMap' = ToldMap /\ SettledMap' = SettledMap
<1>1. \A f \in File \ {cur} : Where(f)' = Where(f)
  BY DEF Where, Same
<1>2. cur \in File
  BY DEF Typed, TypeOK
<1>3. WhereMap' = [WhereMap EXCEPT ![cur] = Where(cur)']
  BY <1>1 DEF WhereMap
<1> QED
  BY <1>3 DEF ToldMap, SettledMap

(* A file that reaches the other root is published.                        *)
LEMMA PublishStep ==
    ASSUME Typed, UNCHANGED <<policy, last, cur>>,
           \A f \in File \ {cur} : src'[f] = src[f] /\ dst'[f] = dst[f],
           Where(cur) = "source", Where(cur)' \in {"both", "dest"}
    PROVE  Abstract!Next
<1>1. cur \in File
  BY DEF Typed, TypeOK
<1>2. /\ WhereMap' = [WhereMap EXCEPT ![cur] = Where(cur)']
      /\ ToldMap' = ToldMap /\ SettledMap' = SettledMap
  BY OnlyCurMoves
<1>3. WhereMap[cur] = "source"
  BY <1>1 DEF WhereMap
<1>4. Abstract!Publish(cur)
  BY <1>2, <1>3 DEF Abstract!Publish, WhereMap
<1> QED
  BY <1>1, <1>4 DEF Abstract!Next

(* A source that goes after its file was reported is retired.              *)
LEMMA RetireStep ==
    ASSUME Typed, UNCHANGED <<policy, last, cur>>,
           \A f \in File \ {cur} : src'[f] = src[f] /\ dst'[f] = dst[f],
           Where(cur) = "both", Where(cur)' = "dest", last[cur] \in Reported, ~policy.keep
    PROVE  Abstract!Next
<1>1. cur \in File
  BY DEF Typed, TypeOK
<1>2. /\ WhereMap' = [WhereMap EXCEPT ![cur] = Where(cur)']
      /\ ToldMap' = ToldMap /\ SettledMap' = SettledMap
  BY OnlyCurMoves
<1>3. WhereMap[cur] = "both" /\ ToldMap[cur]
  BY <1>1 DEF WhereMap, ToldMap
<1>4. Abstract!Retire(cur)
  BY <1>2, <1>3 DEF Abstract!Retire, WhereMap, ToldMap, Reported
<1> QED
  BY <1>1, <1>4 DEF Abstract!Next

(* The first described record of a file in place tells of it.              *)
LEMMA TellStep ==
    ASSUME Typed, UNCHANGED <<policy, src, dst, cur>>, last' = [last EXCEPT ![cur] = "described"],
           last[cur] \notin Reported, Where(cur) # "source"
    PROVE  Abstract!Next
<1>1. cur \in File /\ last \in [File -> Steps]
  BY DEF Typed, TypeOK
<1>2. \A f \in File : Where(f)' = Where(f)
  BY DEF Where, Same
<1>3. WhereMap' = WhereMap
  BY <1>2 DEF WhereMap
<1>4. ToldMap' = [ToldMap EXCEPT ![cur] = TRUE]
  BY <1>1 DEF ToldMap, Reported
<1>5. SettledMap' = SettledMap
  BY DEF SettledMap, Reported
<1>6. WhereMap[cur] # "source" /\ ~ToldMap[cur]
  BY <1>1 DEF WhereMap, ToldMap
<1>7. \E f \in File : Abstract!Tell(f)
  BY <1>1, <1>3 DEF Abstract!Tell, WhereMap, Reported
<1> QED
  BY <1>7 DEF Abstract!Next

(* The commit of a file that is reported and retired, or kept, settles it. *)
LEMMA SettleStep ==
    ASSUME Typed, UNCHANGED <<policy, src, dst, cur>>, last' = [last EXCEPT ![cur] = "commit"],
           last[cur] \in {"described", "source_removed"}, Where(cur) = "dest" \/ policy.keep
    PROVE  Abstract!Next
<1>1. cur \in File /\ last \in [File -> Steps]
  BY DEF Typed, TypeOK
<1>2. \A f \in File : Where(f)' = Where(f)
  BY DEF Where, Same
<1>3. WhereMap' = WhereMap
  BY <1>2 DEF WhereMap
<1>4. ToldMap' = ToldMap
  BY DEF ToldMap, Reported
<1>5. SettledMap' = [SettledMap EXCEPT ![cur] = TRUE]
  BY <1>1 DEF SettledMap
<1>6. (WhereMap[cur] = "dest" \/ policy.keep) /\ ToldMap[cur] /\ ~SettledMap[cur]
  BY <1>1 DEF WhereMap, ToldMap, SettledMap, Reported
<1>7. \E f \in File : Abstract!Settle(f)
  BY <1>1, <1>3, <1>5, <1>6 DEF Abstract!Settle, WhereMap, ToldMap, SettledMap, Reported
<1> QED
  BY <1>7 DEF Abstract!Next

(* Appending a record that does not change what is reported is a stutter.  *)
LEMMA LogStutters ==
    ASSUME Typed, UNCHANGED <<policy, src, dst>>, NEW step \in Steps,
           last' = [last EXCEPT ![cur] = step], last[cur] # "commit", step # "commit",
           step \in Reported <=> last[cur] \in Reported
    PROVE  UNCHANGED AbstractVars
<1>1. last \in [File -> Steps]
  BY DEF Typed, TypeOK
<1> QED
  BY <1>1, StepStutters

(* Every step of an undisturbed run is a step of ArchiveMove or none.      *)
LEMMA NextRefines ==
    ASSUME NoInterference, Typed, RecoveryInv, [Next]_vars
    PROVE  Abstract!Next \/ UNCHANGED AbstractVars
<1> USE DEF disk, log, fixed
<1>1. cur \in File /\ FileInv(cur) /\ src[cur] \in {NoFile, orig[cur]} /\ orig[cur] \in Data
  BY DEF Typed, TypeOK, RecoveryInv, Steady, FileInv, Sides
<1>2. Held(cur) => Where(cur) # "source"
  BY <1>1 DEF Held, Where
<1>3. dst[cur] = NoFile /\ src[cur] # NoFile => Where(cur) = "source"
  BY DEF Where, Same
<1>4. CASE Rename
  <2>1. CASE src' = src
    BY <1>4, <2>1, StepStutters DEF Rename, Typed, TypeOK
  <2>2. CASE src' # src
    <3>1. /\ src[cur] # NoFile /\ dst[cur] = NoFile
          /\ src' = [src EXCEPT ![cur] = NoFile] /\ dst' = [dst EXCEPT ![cur] = src[cur]]
          /\ UNCHANGED <<policy, last>> /\ cur' = cur
      BY <1>4, <2>2 DEF Rename
    <3>2. \A f \in File \ {cur} : src'[f] = src[f] /\ dst'[f] = dst[f]
      BY <3>1
    <3>3. Where(cur)' = "dest"
      BY <3>1 DEF Where, Typed, TypeOK
    <3> QED
      BY <1>3, <3>1, <3>2, <3>3, PublishStep
  <2> QED
    BY <2>1, <2>2
<1>5. CASE Move
  <2>1. CASE dst' = dst
    BY <1>5, <2>1, StepStutters DEF Move
  <2>2. CASE dst' # dst
    <3>1. /\ dst' = [dst EXCEPT ![cur] = part[cur]]
          /\ UNCHANGED <<policy, last, src>> /\ cur' = cur /\ pc = "move"
      BY <1>5, <2>2 DEF Move
    <3>2. src[cur] = orig[cur] /\ dst[cur] = NoFile /\ part[cur] = orig[cur]
      BY <3>1 DEF RecoveryInv, AtLabel, AtPlace, PlaceLabels
    <3>3. \A f \in File \ {cur} : src'[f] = src[f] /\ dst'[f] = dst[f]
      BY <3>1
    <3>4. Where(cur)' = "both"
      BY <3>1, <3>2, <1>1, AbsentAssumption DEF Where, Same, Typed, TypeOK
    <3> QED
      BY <1>1, <1>3, <3>1, <3>2, <3>3, <3>4, AbsentAssumption, PublishStep
  <2> QED
    BY <2>1, <2>2
<1>6. ASSUME RollRemove \/ FinishRemove PROVE Abstract!Next \/ UNCHANGED AbstractVars
  <2>1. CASE src' = src
    BY <1>6, <2>1, StepStutters DEF RollRemove, FinishRemove
  <2>2. CASE src' # src
    <3>1. /\ src[cur] # NoFile /\ src' = [src EXCEPT ![cur] = NoFile]
          /\ UNCHANGED <<policy, last, dst>> /\ cur' = cur
          /\ pc = "remove" \/ (pc = "roll.remove" /\ ~policy.keep)
      BY <1>6, <2>2 DEF RollRemove, FinishRemove, RemoveSource
    <3>2. last[cur] = "described" /\ ~policy.keep
      BY <3>1 DEF RecoveryInv, AtLabel, AtRecovery, AtFinish
    <3>3. Held(cur)
      BY <1>1, <3>2 DEF FileInv, Sides, InPlace
    <3>4. Where(cur) = "both"
      BY <1>1, <3>1, <3>3 DEF Where, Held
    <3>5. Where(cur)' = "dest"
      BY <3>1 DEF Where, Typed, TypeOK
    <3>6. \A f \in File \ {cur} : src'[f] = src[f] /\ dst'[f] = dst[f]
      BY <3>1
    <3> QED
      BY <3>1, <3>2, <3>4, <3>5, <3>6, RetireStep DEF Reported
  <2> QED
    BY <2>1, <2>2
<1>7. ASSUME RollLog \/ FinishLog PROVE Abstract!Next \/ UNCHANGED AbstractVars
  <2>1. UNCHANGED <<policy, src, dst, cur>>
    BY <1>7 DEF RollLog, FinishLog, LogStep
  <2>2. CASE last' = [last EXCEPT ![cur] = "described"] /\ pc \in {"roll.described", "described"}
    <3>1. last[cur] = "placed"
      BY <2>2 DEF RecoveryInv, AtLabel, AtRecovery, AtFinish
    <3>2. Held(cur)
      BY <1>1, <3>1 DEF FileInv, Sides, InPlace
    <3> QED
      BY <1>2, <2>1, <2>2, <3>1, <3>2, TellStep DEF Reported
  <2>3. CASE last' = [last EXCEPT ![cur] = "commit"] /\ pc \in {"roll.commit", "commit"}
    <3>1. last[cur] \in {"described", "source_removed"} /\ (src[cur] = NoFile \/ policy.keep)
      BY <2>3 DEF RecoveryInv, AtLabel, AtRecovery, AtFinish
    <3>2. Where(cur) = "dest" \/ policy.keep
      BY <3>1 DEF Where
    <3> QED
      BY <2>1, <2>3, <3>1, <3>2, SettleStep
  <2>4. CASE last' = [last EXCEPT ![cur] = "aborted"] /\ pc = "abort.log"
    <3>1. last[cur] \in Logged
      BY <2>4 DEF RecoveryInv, AtLabel, AtRecovery
    <3> QED
      BY <2>1, <2>4, <3>1, LogStutters DEF Logged, Reported, Steps
  <2>5. CASE last' = [last EXCEPT ![cur] = "placed"] /\ pc \in {"roll.placed", "placed"}
    <3>1. last[cur] \in Logged
      BY <2>5 DEF RecoveryInv, AtLabel, AtRecovery, AtFinish
    <3> QED
      BY <2>1, <2>5, <3>1, LogStutters DEF Logged, Reported, Steps
  <2>6. CASE last' = [last EXCEPT ![cur] = "source_removed"] /\ pc = "removed"
    <3>1. last[cur] = "described"
      BY <2>6 DEF RecoveryInv, AtLabel, AtFinish
    <3> QED
      BY <2>1, <2>6, <3>1, LogStutters DEF Reported, Steps
  <2> QED
    BY <1>7, <2>2, <2>3, <2>4, <2>5, <2>6 DEF RollLog, FinishLog, LogStep, Append
<1>8. CASE PowerLoss
  <2>1. PICK f \in File : Unplaced(f) /\ \E step \in {"begin", "copied"} : Append(f, step)
    BY <1>8 DEF PowerLoss, SyncedUpTo
  <2>2. \A g \in File : /\ last'[g] \in Reported <=> last[g] \in Reported
                        /\ last'[g] = "commit" <=> last[g] = "commit"
    BY <2>1 DEF Unplaced, Append, Reported
  <2> QED
    BY <1>8, <2>2, StepStutters DEF PowerLoss
<1>9. CASE BeginTx
  <2>1. last[cur] \in {"none", "aborted"} /\ last' = [last EXCEPT ![cur] = "begin"]
    BY <1>9 DEF BeginTx, Append, RecoveryInv, AtLabel
  <2> QED
    BY <1>9, <2>1, LogStutters DEF BeginTx, Reported, Steps
<1>10. ASSUME CheckRename \/ CrossDevice \/ LogCopied \/ LogVerified
       PROVE  UNCHANGED AbstractVars
  <2>1. last[cur] \in Logged /\ UNCHANGED <<policy, src, dst>>
    BY <1>10 DEF CheckRename, CrossDevice, LogCopied, LogVerified, LogStep, RecoveryInv,
       AtLabel, AtPlace, Logged
  <2>2. last' = last \/ \E step \in {"verified", "aborted", "copied"} : last' = [last EXCEPT ![cur] = step]
    BY <1>10 DEF CheckRename, CrossDevice, LogCopied, LogVerified, LogStep, Append
  <2> QED
    BY <2>1, <2>2, StepStutters, LogStutters DEF Logged, Reported, Steps
<1>11. ASSUME \/ Start \/ RecoverOne \/ Recovered \/ DeletePart \/ RollDescribe
              \/ Pick \/ Finish \/ SkipMissing \/ SkipConflict \/ FinishDescribe
              \/ StageOpen \/ StageClose \/ StageFail \/ Crash
       PROVE  UNCHANGED AbstractVars
  <2>1. UNCHANGED <<policy, src, dst, last>>
    BY <1>11 DEF Start, RecoverOne, Recovered, DeletePart, RollDescribe, Describe, Pick,
       Finish, SkipMissing, SkipConflict, FinishDescribe, StageOpen, StageClose, StageFail,
       Crash
  <2> QED
    BY <2>1, StepStutters
<1>12. CASE Terminated \/ UNCHANGED vars
  <2>1. UNCHANGED <<policy, src, dst, last>>
    BY <1>12 DEF Terminated, vars
  <2> QED
    BY <2>1, StepStutters
<1>13. ~(Refuse \/ Edit \/ Delete \/ Foreign)
  BY DEF NoInterference, Typed, TypeOK, Edit, Delete, Foreign, RecoveryInv, AtLabel,
     RefuseLabels, Refuse, ConflictAborted, ConflictCleaned, ChangedCleaned, ChangedAborted,
     LogStep
<1> QED
  BY <1>4, <1>5, <1>6, <1>7, <1>8, <1>9, <1>10, <1>11, <1>12, <1>13 DEF Next, Process,
     Environment, Recovery, Place, Transaction

(* ImplementsArchiveMove: with its crashes and recoveries, an undisturbed  *)
(* run is a run of ArchiveMove.                                            *)
THEOREM MovesAsPromised == ASSUME NoInterference PROVE Spec => ImplementsArchiveMove
<1>1. Typed /\ RecoveryInv /\ [Next]_vars => [Abstract!Next]_AbstractVars
  BY NextRefines
<1> QED
  BY <1>1, InitRefines, RecoveryCorrect, PTL DEF Spec, ImplementsArchiveMove, Abstract!Spec,
     AbstractVars, WhereMap, ToldMap, SettledMap, Reported
=============================================================================
