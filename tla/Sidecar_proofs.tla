--------------------------- MODULE Sidecar_proofs ---------------------------
(***************************************************************************)
(* Proofs about Sidecar: what arxgo removes beside a moved file, and what  *)
(* a split and a restore that ended well have done, for any files, names   *)
(* and earlier runs, whatever crashes, cancellations, failing log writes   *)
(* and changes by the operator come between the events and the files.      *)
(*                                                                         *)
(* SidecarInv types the state and says which command is where.  WorkInv    *)
(* follows what the loop hands to the worker and what index the two share. *)
(* PromiseInv adds what is promised at the end as it builds up: who still  *)
(* waits and who was served (Serving), what the descriptions list          *)
(* (Listing), and what a restore has left to delete (Cleanup).             *)
(***************************************************************************)
EXTENDS Sidecar, WellFoundedInduction, TLAPS

(* Steps of the loop that only a split, and only a restore, goes         *)
(* through.                                                              *)
Splits == {"plan", "visit", "submit", "send", "return"}
Restores == {"pick", "delete", "unlink", "deleted", "restore"}

(* What a log records for a path: the size of a generated sidecar, as    *)
(* arxgo made it (1) or as it was when the outcome was logged (2); 0 is  *)
(* no record.                                                            *)
Size == 0..2
Sizes == [AllOwners -> [Path -> 0..2]]
(* The index of owned sidecars, as replayed and in memory.               *)
IsIndex(i) ==
  /\ DOMAIN i = {"owned", "deleting", "generating"}
  /\ i.owned \in Sizes /\ i.deleting \in Sizes

(* Types.  A file's size tells who wrote it: only the operator's are of  *)
(* size 3, so that a recorded size is never the operator's.              *)
Shapes ==
  /\ file \in [Path -> File \cup {Nothing}]
  /\ \A p \in Path : file[p] = Nothing \/ (file[p].by = Nothing <=> file[p].size = 3)
  /\ IsIndex(disk) /\ IsIndex(idx)
  /\ todo \subseteq AllOwners /\ pending \subseteq Path /\ queue \in Seq(AllOwners)
  /\ DOMAIN tx = AllOwners
  /\ DOMAIN run = {"id", "op", "cleanup", "committed", "open"}
  /\ run.op \in {"none", "split", "restore"} /\ run.committed \subseteq AllOwners
  /\ pc \in {"down", "prepare", "stop", "ended"} \cup Splits \cup Restores

(* Which command goes through which steps, and that a restore has no     *)
(* generating worker: while one works the loop deletes nothing.          *)
Roles ==
  /\ pc \in Splits => run.op = "split"
  /\ pc \in Restores => run.op = "restore"
  /\ pc = "prepare" => run.op # "none"
  /\ run.op = "restore" \/ pc \in {"down", "prepare"} => wpc = "idle" /\ queue = <<>> /\ ~closed
  /\ pc \in {"submit", "send", "return", "delete", "unlink", "deleted"} => todo # {}
  /\ wpc \notin {"idle", "done"} => job \in AllOwners

(* A file about to be recorded is the one this job published or adopted, *)
(* or it was removed meanwhile.                                          *)
Making == wpc = "made" /\ wpath \in Path => file[wpath] = Nothing \/ file[wpath].by = job

(* Between the logged intent and the removal the file at the path is the *)
(* one the intent describes.                                             *)
Unlinking ==
  /\ pc \in {"unlink", "deleted"} => wpath \in Path
  /\ pc = "unlink" =>
       /\ file[wpath] # Nothing /\ file[wpath].size = disk.deleting[Current][wpath]
       /\ family = "text" => file[wpath].by = Current

(* The last transaction of a file is a restore that deletes sidecars.    *)
Restored(o) == tx[o].op = "restore" /\ tx[o].cleanup
(* A restore is deleting for the owners still to visit.                  *)
Cleaning == pc \in {"pick", "delete", "unlink", "deleted"}

(* What a restore deletes for: an owner with an intent the logs already  *)
(* hold, one that this run or, by its last transaction, an earlier one   *)
(* restored with cleanup, or the one just restored.                      *)
Intents ==
  /\ \A o \in AllOwners, p \in Path : idx.deleting[o][p] # 0 => disk.deleting[o][p] # 0
  /\ run.op = "restore" /\ run.cleanup => \A o \in run.committed : Restored(o)
  /\ pc \in Restores => phase \in {"unfinished", "own", "earlier", "loop"}
  /\ pc = "restore" => phase = "loop"
  /\ Cleaning /\ phase = "unfinished" => \A p \in pending : idx.deleting[Current][p] # 0
  /\ Cleaning /\ phase \in {"own", "earlier"} => \A o \in todo : Restored(o)
  /\ Cleaning /\ phase = "loop" => todo # {} /\ Restored(Current)

(* The inductive invariant.                                              *)
SidecarInv == Shapes /\ Roles /\ Making /\ Unlinking /\ Intents

(* A set of naturals that is not empty has a least element.              *)
LEMMA LeastOf ==
  ASSUME NEW T, T \subseteq Nat, T # {}
  PROVE  \E k \in T : \A j \in T : k <= j
<1>1. PICK k \in T : \A j \in T : ~ (<<j, k>> \in OpToRel(<, Nat))
  BY NatLessThanWellFounded, WFMin
<1>2. \A j \in T : ~(j < k)
  BY <1>1, Zenon DEF OpToRel
<1>3. \A j \in T : k <= j
  BY <1>2
<1> QED
  BY <1>3

(* The owner the loop visits next is one of those to visit.              *)
LEMMA CurrentKnown ==
  ASSUME Shapes, todo # {}
  PROVE  Current \in todo
<1> DEFINE T == {n \in DOMAIN Owners : Owners[n] \in todo}
<1>1. T \subseteq Nat
  BY SidecarAssumption
<1>2. T # {}
  BY DEF Shapes, AllOwners, ToSet
<1>3. \E k \in T : \A j \in T : k <= j
  BY <1>1, <1>2, LeastOf
<1>4. Min(T) \in T
  BY <1>3 DEF Min
<1> QED
  BY <1>4 DEF Current


(* The index before any event.                                           *)
LEMMA EmptyIsIndex ==
  /\ IsIndex(EmptyIndex)
  /\ \A o \in AllOwners, p \in Path : EmptyIndex.deleting[o][p] = 0
BY DEF IsIndex, EmptyIndex, NoSizes, Sizes

(* The start of a generation changes no recorded size.                   *)
LEMMA BegunIsIndex ==
  ASSUME NEW i, IsIndex(i), NEW o, NEW p
  PROVE  IsIndex(Begun(i, o, p)) /\ Begun(i, o, p).deleting = i.deleting
BY DEF IsIndex, Begun

(* Nor does its failure.                                                 *)
LEMMA FailingIsIndex ==
  ASSUME NEW i, IsIndex(i), NEW o, NEW p
  PROVE  IsIndex(Failing(i, o, p)) /\ Failing(i, o, p).deleting = i.deleting
BY DEF IsIndex, Failing

(* The sizes after an event about one path of one owner.                 *)
LEMMA SizesUpdated ==
  ASSUME NEW f \in Sizes, NEW o \in AllOwners, NEW p, NEW n, p \in Path => n \in 0..2
  PROVE  /\ [f EXCEPT ![o][p] = n] \in Sizes
         /\ \A x \in AllOwners, y \in Path :
              [f EXCEPT ![o][p] = n][x][y] = IF x = o /\ y = p THEN n ELSE f[x][y]
BY DEF Sizes

(* A success is recorded without touching deletions.                     *)
LEMMA RememberIsIndex ==
  ASSUME NEW i, IsIndex(i), NEW o \in AllOwners, NEW p, NEW n, p \in Path => n \in 0..2
  PROVE  IsIndex(Remember(i, o, p, n)) /\ Remember(i, o, p, n).deleting = i.deleting
<1>1. i.owned \in Sizes /\ [i.owned EXCEPT ![o][p] = n] \in Sizes
  BY SizesUpdated DEF IsIndex
<1>2. /\ DOMAIN Remember(i, o, p, n) = DOMAIN i
      /\ Remember(i, o, p, n).owned = [i.owned EXCEPT ![o][p] = n]
      /\ Remember(i, o, p, n).deleting = i.deleting
  BY DEF Remember
<1> QED
  BY <1>1, <1>2 DEF IsIndex

(* An intent to delete changes the one path it names.                    *)
LEMMA DeletingIsIndex ==
  ASSUME NEW i, IsIndex(i), NEW o \in AllOwners, NEW p \in Path, NEW n \in Size
  PROVE  /\ IsIndex(Deleting(i, o, p, n))
         /\ \A x \in AllOwners, y \in Path :
              Deleting(i, o, p, n).deleting[x][y] = IF x = o /\ y = p THEN n ELSE i.deleting[x][y]
<1>1. /\ DOMAIN Deleting(i, o, p, n) = DOMAIN i
      /\ Deleting(i, o, p, n).owned = i.owned
      /\ Deleting(i, o, p, n).deleting = [i.deleting EXCEPT ![o][p] = n]
  BY DEF Deleting
<1>2. i.deleting \in Sizes
  BY DEF IsIndex
<1>3. p \in Path => n \in 0..2
  BY DEF Size
<1>4. /\ [i.deleting EXCEPT ![o][p] = n] \in Sizes
      /\ \A x \in AllOwners, y \in Path :
           [i.deleting EXCEPT ![o][p] = n][x][y] = IF x = o /\ y = p THEN n ELSE i.deleting[x][y]
  BY <1>2, <1>3 DEF Sizes
<1> QED
  BY <1>1, <1>4 DEF IsIndex

(* Its completion clears both the record and the intent.                 *)
LEMMA DeletedIsIndex ==
  ASSUME NEW i, IsIndex(i), NEW o \in AllOwners, NEW p \in Path
  PROVE  /\ IsIndex(Deleted(i, o, p))
         /\ \A x \in AllOwners, y \in Path :
              Deleted(i, o, p).deleting[x][y] = IF x = o /\ y = p THEN 0 ELSE i.deleting[x][y]
<1>1. /\ DOMAIN Deleted(i, o, p) = DOMAIN i
      /\ Deleted(i, o, p).owned = [i.owned EXCEPT ![o][p] = 0]
      /\ Deleted(i, o, p).deleting = [i.deleting EXCEPT ![o][p] = 0]
  BY DEF Deleted
<1>2. i.owned \in Sizes /\ i.deleting \in Sizes
  BY DEF IsIndex
<1>3. 0 \in 0..2
  OBVIOUS
<1>4. [i.owned EXCEPT ![o][p] = 0] \in Sizes
  BY <1>2, <1>3, SizesUpdated
<1>5. /\ [i.deleting EXCEPT ![o][p] = 0] \in Sizes
      /\ \A x \in AllOwners, y \in Path :
           [i.deleting EXCEPT ![o][p] = 0][x][y] = IF x = o /\ y = p THEN 0 ELSE i.deleting[x][y]
  BY <1>2 DEF Sizes
<1> QED
  BY <1>1, <1>4, <1>5 DEF IsIndex

(* While a sidecar is generated for an owner, no restore runs.           *)
LEMMA WorkingInSplit ==
  ASSUME SidecarInv, wpc \notin {"idle", "done"}
  PROVE  job \in AllOwners /\ pc \notin Restores
BY DEF SidecarInv, Roles

(* Steps outside a restore's loop keep what is said about deletions, as  *)
(* long as no transaction changes and the index in memory knows no       *)
(* intent the logs do not hold.                                          *)
LEMMA OutsideRestore ==
  ASSUME SidecarInv, pc' \notin Restores, run' = run, tx' = tx,
         \A o \in AllOwners, p \in Path : idx'.deleting[o][p] # 0 => disk'.deleting[o][p] # 0
  PROVE  Unlinking' /\ Intents'
BY DEF SidecarInv, Unlinking, Intents, Restores, Cleaning, Restored

(* Both commands first remove the part files of unfinished generations.  *)
LEMMA PrepareKeeps ==
  ASSUME SidecarInv, Prepare
  PROVE  SidecarInv'
<1>0. Shapes /\ Roles /\ Making /\ Unlinking /\ Intents
  BY DEF SidecarInv
<1>1. Shapes'
  BY <1>0 DEF Shapes, Splits, Restores, Prepare
<1>2. Roles'
  BY <1>0 DEF Roles, Shapes, Splits, Restores, Prepare, workVars
<1>3. Making'
  BY <1>0 DEF Making, Prepare, workVars
<1>4. Unlinking'
  BY DEF Unlinking, Prepare
<1>5. Intents'
  BY <1>0 DEF Intents, Restored, Cleaning, Restores, Prepare
<1> QED
  BY <1>1, <1>2, <1>3, <1>4, <1>5 DEF SidecarInv

(* A split plans its names and starts to catch up.                       *)
LEMMA PlanPreviewsKeeps ==
  ASSUME SidecarInv, PlanPreviews
  PROVE  SidecarInv'
<1>0. Shapes /\ Roles /\ Making /\ Unlinking /\ Intents
  BY DEF SidecarInv
<1>1. Shapes'
  BY <1>0 DEF Shapes, Splits, PlanPreviews, Moved, durable
<1>2. Roles'
  BY <1>0 DEF Roles, Splits, Restores, PlanPreviews, durable, workVars
<1>3. Making'
  BY <1>0 DEF Making, PlanPreviews, durable, workVars
<1>4. Unlinking'
  BY DEF Unlinking, PlanPreviews
<1>5. Intents'
  BY <1>0 DEF Intents, Restored, Restores, PlanPreviews, durable
<1> QED
  BY <1>1, <1>2, <1>3, <1>4, <1>5 DEF SidecarInv

(* The loop turns to its next file, and moves it if it is a candidate.   *)
LEMMA VisitKeeps ==
  ASSUME SidecarInv, Visit
  PROVE  SidecarInv'
<1>0. Shapes /\ Roles /\ Making /\ Unlinking /\ Intents
  BY DEF SidecarInv
<1>c. todo # {} => Current \in todo /\ Current \in AllOwners
  BY <1>0, CurrentKnown DEF Shapes
<1>1. Shapes'
  BY <1>0, <1>c DEF Shapes, Splits, Visit, Halt
<1>2. Roles'
  BY <1>0 DEF Roles, Shapes, Restores, Visit, Halt, workVars
<1>3. Making'
  BY <1>0 DEF Making, Visit, workVars
<1>4. Unlinking'
  BY DEF Unlinking, Visit, Halt
<1>5. Intents'
  BY <1>0 DEF Intents, Roles, Shapes, Cleaning, Restores, Visit, Halt
<1> QED
  BY <1>1, <1>2, <1>3, <1>4, <1>5 DEF SidecarInv

(* The file goes to the generator.                                       *)
LEMMA SubmitKeeps ==
  ASSUME SidecarInv, Submit
  PROVE  SidecarInv'
<1>0. Shapes /\ Roles /\ Making /\ Unlinking /\ Intents
  BY DEF SidecarInv
<1>c. todo # {} => Current \in todo /\ Current \in AllOwners
  BY <1>0, CurrentKnown DEF Shapes
<1>1. Shapes'
  BY <1>0 DEF Shapes, Splits, Submit, Halt, durable
<1>2. Roles'
  BY <1>0, <1>c DEF Roles, Splits, Restores, Submit, Halt, durable, workVars
<1>3. Making'
  BY <1>0 DEF Making, Submit, durable, workVars
<1>4. Unlinking'
  BY DEF Unlinking, Submit, Halt
<1>5. Intents'
  BY <1>0 DEF Intents, Restored, Cleaning, Restores, Submit, Halt, durable
<1> QED
  BY <1>1, <1>2, <1>3, <1>4, <1>5 DEF SidecarInv

(* The worker's channel takes it.                                        *)
LEMMA SendKeeps ==
  ASSUME SidecarInv, Send
  PROVE  SidecarInv'
<1>0. Shapes /\ Roles /\ Making /\ Unlinking /\ Intents
  BY DEF SidecarInv
<1>c. todo # {} => Current \in todo /\ Current \in AllOwners
  BY <1>0, CurrentKnown DEF Shapes
<1>1. Shapes'
  BY <1>0, <1>c DEF Shapes, Roles, Splits, Send, Rest, durable
<1>2. Roles'
  BY <1>0 DEF Roles, Splits, Restores, Send, durable, workVars
<1>3. Making'
  BY <1>0 DEF Making, Send, durable, workVars
<1>4. Unlinking'
  BY DEF Unlinking, Send
<1>5. Intents'
  BY <1>0 DEF Intents, Restored, Cleaning, Restores, Send, durable
<1> QED
  BY <1>1, <1>2, <1>3, <1>4, <1>5 DEF SidecarInv

(* A text is there or was reported.                                      *)
LEMMA ReturnKeeps ==
  ASSUME SidecarInv, Return
  PROVE  SidecarInv'
<1>0. Shapes /\ Roles /\ Making /\ Unlinking /\ Intents
  BY DEF SidecarInv
<1>1. Shapes'
  BY <1>0 DEF Shapes, Splits, Return, Halt, Rest, durable
<1>2. Roles'
  BY <1>0 DEF Roles, Splits, Restores, Return, Halt, durable, workVars
<1>3. Making'
  BY DEF Making, Return, workVars
<1>4. Unlinking'
  BY DEF Unlinking, Return, Halt
<1>5. Intents'
  BY <1>0 DEF Intents, Restored, Cleaning, Restores, Return, Halt, durable
<1> QED
  BY <1>1, <1>2, <1>3, <1>4, <1>5 DEF SidecarInv

(* A split ends: the worker is joined.                                   *)
LEMMA StopKeeps ==
  ASSUME SidecarInv, Stop
  PROVE  SidecarInv'
<1>0. Shapes /\ Roles /\ Making /\ Unlinking /\ Intents
  BY DEF SidecarInv
<1>1. Shapes'
  BY <1>0 DEF Shapes, Stop
<1>2. Roles'
  BY <1>0 DEF Roles, Shapes, Restores, Stop, workVars
<1>3. Making'
  BY <1>0 DEF Making, Stop, workVars
<1>4. Unlinking'
  BY DEF Unlinking, Stop
<1>5. Intents'
  BY <1>0 DEF Intents, Shapes, Cleaning, Restores, Stop
<1> QED
  BY <1>1, <1>2, <1>3, <1>4, <1>5 DEF SidecarInv

(* A restore turns to the next owner, or to its next phase: the owners   *)
(* of each phase are such as Intents allows.                             *)
LEMMA PickKeeps ==
  ASSUME SidecarInv, Pick
  PROVE  SidecarInv'
<1>0. Shapes /\ Roles /\ Making /\ Unlinking /\ Intents
  BY DEF SidecarInv
<1>d. todo' = todo => Current' = Current
  BY DEF Current
<1>1. Shapes'
  BY <1>0 DEF Shapes, Restores, Pick, NextPhase, EarlierRestored, Moved, Recorded, durable
<1>2. Roles'
  BY <1>0 DEF Roles, Splits, Restores, Pick, durable, workVars
<1>3. Making'
  BY <1>0 DEF Making, Pick, durable, workVars
<1>4. Unlinking'
  BY DEF Unlinking, Pick
<1>5. Intents'
  BY <1>0, <1>d DEF Intents, Roles, Restored, Cleaning, Restores, Pick, NextPhase,
     EarlierRestored, durable
<1> QED
  BY <1>1, <1>2, <1>3, <1>4, <1>5 DEF SidecarInv

(* The intent is logged with the size the file has, or the file is kept, *)
(* or the log write fails.                                               *)
LEMMA DeleteOneKeeps ==
  ASSUME SidecarInv, DeleteOne
  PROVE  SidecarInv'
<1>0. Shapes /\ Roles /\ Making /\ Unlinking /\ Intents
  BY DEF SidecarInv
<1>c. todo # {} => Current \in todo /\ Current \in AllOwners
  BY <1>0, CurrentKnown DEF Shapes
<1>d. todo' = todo => Current' = Current
  BY DEF Current
<1>p. PICK p \in pending :
        \/ pending' = pending \ {p} /\ UNCHANGED <<pc, disk, wpath>>
        \/ /\ Halt("fatal") /\ UNCHANGED <<disk, wpath, pending>>
        \/ /\ ~Present(p) \/ Deletable(Current, p)
           /\ disk' = Deleting(disk, Current, p, IF idx.owned[Current][p] > 0
                                                 THEN idx.owned[Current][p]
                                                 ELSE idx.deleting[Current][p])
           /\ pc' = IF Present(p) THEN "unlink" ELSE "deleted"
           /\ wpath' = p /\ UNCHANGED pending
  BY DEF DeleteOne
<1>u. /\ pc = "delete"
      /\ UNCHANGED <<file, tx, links, run, phase, todo, idx, family, parts, plan, cancelled, queue,
                     closed, wpc, job, werr, touched>>
  BY DEF DeleteOne
<1>a. p \in Path /\ Current \in AllOwners /\ Current' = Current
  BY <1>0, <1>c, <1>d, <1>u DEF Shapes, Roles
<1>n. PICK n \in 0..2 : n = IF idx.owned[Current][p] > 0 THEN idx.owned[Current][p]
                                                       ELSE idx.deleting[Current][p]
  BY <1>0, <1>a DEF Shapes, IsIndex, Sizes
<1>j. IsIndex(disk)
  BY <1>0 DEF Shapes
<1>s. n \in Size
  BY DEF Size
<1>i. IsIndex(Deleting(disk, Current, p, n)) /\
      \A x \in AllOwners, y \in Path :
        Deleting(disk, Current, p, n).deleting[x][y] =
          IF x = Current /\ y = p THEN n ELSE disk.deleting[x][y]
  BY <1>a, <1>j, <1>s, DeletingIsIndex
<1>k. IsIndex(disk') /\ \A x \in AllOwners, y \in Path :
        idx'.deleting[x][y] # 0 => disk'.deleting[x][y] # 0
  <2>1. CASE disk' = disk
    BY <1>0, <1>u, <2>1 DEF Shapes, Intents
  <2>2. CASE disk' = Deleting(disk, Current, p, n)
    <3>1. n = 0 => idx.deleting[Current][p] = 0
      BY <1>n
    <3> QED
      BY <1>0, <1>i, <1>u, <2>2, <3>1 DEF Intents
  <2> QED
    BY <1>n, <1>p, <2>1, <2>2
<1>1. Shapes'
  BY <1>0, <1>k, <1>p, <1>u DEF Shapes, Restores, Halt
<1>2. Roles'
  BY <1>0, <1>p, <1>u DEF Roles, Restores, Splits, Halt
<1>3. Making'
  BY <1>0, <1>u DEF Making, Roles, Restores
<1>4. Unlinking'
  <2>1. CASE pc' \notin {"unlink", "deleted"}
    BY <2>1 DEF Unlinking
  <2>2. CASE pc' \in {"unlink", "deleted"}
    <3>1. /\ ~Present(p) \/ Deletable(Current, p)
          /\ disk' = Deleting(disk, Current, p, n)
          /\ pc' = IF Present(p) THEN "unlink" ELSE "deleted"
          /\ wpath' = p
      BY <1>n, <1>p, <1>u, <2>2 DEF Halt
    <3>2. disk'.deleting[Current][p] = n
      BY <1>a, <1>i, <3>1
    <3>3. pc' = "unlink" => file[p] # Nothing /\ file[p].size = n
                            /\ (family = "text" => file[p].by = Current)
      BY <1>n, <3>1 DEF Present, Deletable
    <3> QED
      BY <1>a, <1>u, <3>1, <3>2, <3>3 DEF Unlinking
  <2> QED
    BY <2>1, <2>2
<1>5. Intents'
  <2>1. pending' \subseteq pending
    BY <1>p
  <2>2. pc' \in {"delete", "unlink", "deleted", "stop"}
    BY <1>p, <1>u DEF Halt
  <2> QED
    BY <1>0, <1>a, <1>k, <1>u, <2>1, <2>2 DEF Intents, Cleaning, Restored, Restores
<1> QED
  BY <1>1, <1>2, <1>3, <1>4, <1>5 DEF SidecarInv

(* The file is removed.                                                  *)
LEMMA UnlinkKeeps ==
  ASSUME SidecarInv, Unlink
  PROVE  SidecarInv'
<1>0. Shapes /\ Roles /\ Making /\ Unlinking /\ Intents
  BY DEF SidecarInv
<1>d. todo' = todo => Current' = Current
  BY DEF Current
<1>1. Shapes'
  BY <1>0 DEF Shapes, Restores, Unlink, RestoreRest
<1>2. Roles'
  BY <1>0 DEF Roles, Splits, Restores, Unlink, RestoreRest, workVars
<1>3. Making'
  BY <1>0 DEF Making, Unlink, RestoreRest, workVars
<1>4. Unlinking'
  BY <1>0 DEF Unlinking, Unlink, RestoreRest, workVars
<1>5. Intents'
  BY <1>0, <1>d DEF Intents, Restored, Cleaning, Restores, Unlink
<1> QED
  BY <1>1, <1>2, <1>3, <1>4, <1>5 DEF SidecarInv

(* The removal is logged and remembered.                                 *)
LEMMA FinishDeletedKeeps ==
  ASSUME SidecarInv, FinishDeleted
  PROVE  SidecarInv'
<1>0. Shapes /\ Roles /\ Making /\ Unlinking /\ Intents
  BY DEF SidecarInv
<1>c. todo # {} => Current \in todo /\ Current \in AllOwners
  BY <1>0, CurrentKnown DEF Shapes
<1>d. todo' = todo => Current' = Current
  BY DEF Current
<1>u. /\ pc = "deleted" /\ wpath \in Path
      /\ UNCHANGED <<file, tx, run, phase, todo, family, queue, closed, wpc, job>>
  BY <1>0 DEF FinishDeleted, Unlinking
<1>p. \/ /\ disk' = Deleted(disk, Current, wpath) /\ idx' = Deleted(idx, Current, wpath)
         /\ pending' = pending \ {wpath} /\ pc' = "delete"
      \/ pc' = "stop" /\ UNCHANGED <<disk, idx, pending>>
  BY DEF FinishDeleted, Halt
<1>a. Current \in AllOwners /\ Current' = Current
  BY <1>0, <1>c, <1>d, <1>u DEF Roles
<1>i. \A i \in {disk, idx} :
        /\ IsIndex(Deleted(i, Current, wpath))
        /\ \A x \in AllOwners, y \in Path :
             Deleted(i, Current, wpath).deleting[x][y] =
               IF x = Current /\ y = wpath THEN 0 ELSE i.deleting[x][y]
  BY <1>0, <1>a, <1>u, DeletedIsIndex DEF Shapes
<1>k. IsIndex(disk') /\ IsIndex(idx') /\ \A x \in AllOwners, y \in Path :
        idx'.deleting[x][y] # 0 => disk'.deleting[x][y] # 0
  <2>1. CASE UNCHANGED <<disk, idx>>
    BY <1>0, <2>1 DEF Shapes, Intents
  <2>2. CASE disk' = Deleted(disk, Current, wpath) /\ idx' = Deleted(idx, Current, wpath)
    BY <1>0, <1>i, <2>2 DEF Intents
  <2> QED
    BY <1>p, <2>1, <2>2
<1>1. Shapes'
  BY <1>0, <1>k, <1>p, <1>u DEF Shapes, Restores
<1>2. Roles'
  BY <1>0, <1>p, <1>u DEF Roles, Restores, Splits
<1>3. Making'
  BY <1>0, <1>u DEF Making, Roles, Restores
<1>4. Unlinking'
  BY <1>p DEF Unlinking
<1>5. Intents'
  <2>1. Cleaning /\ pc \in Restores
    BY <1>u DEF Cleaning, Restores
  <2>2. pc' = "delete" /\ phase = "unfinished" => \A p \in pending' : idx'.deleting[Current][p] # 0
    <3>1. ASSUME pc' = "delete", phase = "unfinished", NEW p \in pending'
          PROVE  idx'.deleting[Current][p] # 0
      <4>1. idx' = Deleted(idx, Current, wpath) /\ p \in pending /\ p # wpath /\ p \in Path
        BY <1>0, <1>p, <3>1 DEF Shapes
      <4>2. idx.deleting[Current][p] # 0
        BY <1>0, <2>1, <3>1, <4>1 DEF Intents
      <4> QED
        BY <1>a, <1>i, <4>1, <4>2
    <3> QED
      BY <3>1
  <2> QED
    BY <1>0, <1>a, <1>k, <1>p, <1>u, <2>1, <2>2 DEF Intents, Cleaning, Restored, Restores
<1> QED
  BY <1>1, <1>2, <1>3, <1>4, <1>5 DEF SidecarInv

(* The next owner.                                                       *)
LEMMA AfterDeleteKeeps ==
  ASSUME SidecarInv, AfterDelete
  PROVE  SidecarInv'
<1>0. Shapes /\ Roles /\ Making /\ Unlinking /\ Intents
  BY DEF SidecarInv
<1>1. Shapes'
  BY <1>0 DEF Shapes, Restores, AfterDelete, Rest, RestoreRest
<1>2. Roles'
  BY <1>0 DEF Roles, Splits, Restores, AfterDelete, RestoreRest, workVars
<1>3. Making'
  BY <1>0 DEF Making, AfterDelete, RestoreRest, workVars
<1>4. Unlinking'
  BY DEF Unlinking, AfterDelete
<1>5. Intents'
  BY <1>0 DEF Intents, Restored, Cleaning, Restores, AfterDelete, Rest
<1> QED
  BY <1>1, <1>2, <1>3, <1>4, <1>5 DEF SidecarInv

(* A file goes back, and this run deletes for it next.                   *)
LEMMA RestoreKeeps ==
  ASSUME SidecarInv, Restore
  PROVE  SidecarInv'
<1>0. Shapes /\ Roles /\ Making /\ Unlinking /\ Intents
  BY DEF SidecarInv
<1>c. todo # {} => Current \in todo /\ Current \in AllOwners
  BY <1>0, CurrentKnown DEF Shapes
<1>d. todo' = todo => Current' = Current
  BY DEF Current
<1>1. Shapes'
  BY <1>0, <1>c DEF Shapes, Restores, Restore, Halt, Rest, RestoreRest
<1>2. Roles'
  BY <1>0 DEF Roles, Shapes, Splits, Restore, Halt, RestoreRest, workVars
<1>3. Making'
  BY <1>0 DEF Making, Restore, RestoreRest, workVars
<1>4. Unlinking'
  BY DEF Unlinking, Restore, Halt
<1>5. Intents'
  BY <1>0, <1>c, <1>d DEF Intents, Shapes, Restored, Cleaning, Restore, Halt
<1> QED
  BY <1>1, <1>2, <1>3, <1>4, <1>5 DEF SidecarInv

(* A restore ends.                                                       *)
LEMMA RestoreEndsKeeps ==
  ASSUME SidecarInv, RestoreEnds
  PROVE  SidecarInv'
<1>0. Shapes /\ Roles /\ Making /\ Unlinking /\ Intents
  BY DEF SidecarInv
<1>1. Shapes'
  BY <1>0 DEF Shapes, RestoreEnds, RestoreRest
<1>2. Roles'
  BY <1>0 DEF Roles, Splits, RestoreEnds, RestoreRest, workVars
<1>3. Making'
  BY <1>0 DEF Making, RestoreEnds, RestoreRest, workVars
<1>4. Unlinking'
  BY DEF Unlinking, RestoreEnds
<1>5. Intents'
  BY <1>0 DEF Intents, Restored, Cleaning, Restores, RestoreEnds
<1> QED
  BY <1>1, <1>2, <1>3, <1>4, <1>5 DEF SidecarInv

(* The worker receives a file, or drains its channel.                    *)
LEMMA TakeKeeps ==
  ASSUME SidecarInv, Take
  PROVE  SidecarInv'
<1>0. Shapes /\ Roles /\ Making /\ Unlinking /\ Intents
  BY DEF SidecarInv
<1>d. todo' = todo => Current' = Current
  BY DEF Current
<1>q. queue' \in Seq(AllOwners)
  BY <1>0 DEF Shapes, Take
<1>u. UNCHANGED <<file, disk, idx, todo, pending, tx, run, pc>>
  BY DEF Take, WorkerRest, loopVars
<1>1. Shapes'
  BY <1>0, <1>q, <1>u DEF Shapes
<1>2. Roles'
  BY <1>0 DEF Roles, Shapes, Take, workVars, WorkerRest, loopVars
<1>3. Making'
  BY DEF Making, Take, workVars
<1>4. Unlinking'
  BY <1>0 DEF Unlinking, Roles, Restores, Take, WorkerRest, loopVars
<1>5. Intents'
  BY <1>0 DEF Intents, Roles, Cleaning, Restores, Take, WorkerRest, loopVars
<1> QED
  BY <1>1, <1>2, <1>3, <1>4, <1>5 DEF SidecarInv

(* The worker looks at its target and begins, adopts, skips or gives up. *)
LEMMA LookKeeps ==
  ASSUME SidecarInv, Look
  PROVE  SidecarInv'
<1>0. Shapes /\ Roles /\ Making /\ Unlinking /\ Intents
  BY DEF SidecarInv
<1>w. /\ job \in AllOwners /\ pc \notin Restores /\ pc' = pc /\ wpc = "look"
      /\ UNCHANGED <<file, idx, queue, tx, run, family, phase, todo, pending, closed>>
  BY WorkingInSplit DEF Look, loopVars
<1>p. \/ wpc' \in {"idle", "refresh"} /\ disk' = disk /\ (wpc' # "idle" => job' = job)
      \/ /\ disk' = Begun(disk, job, Target) /\ wpath' = Target /\ job' = job
         /\ wpc' = IF Present(Target) THEN "made" ELSE "begun"
         /\ Present(Target) => file[Target].by = job
  BY DEF Look, Idle, Abandon, JobDone, Adoptable, Mine
<1>i. IsIndex(Begun(disk, job, Target)) /\ Begun(disk, job, Target).deleting = disk.deleting
  BY <1>0, BegunIsIndex DEF Shapes
<1>k. IsIndex(disk') /\ \A x \in AllOwners, y \in Path :
        idx'.deleting[x][y] # 0 => disk'.deleting[x][y] # 0
  BY <1>0, <1>w, <1>p, <1>i DEF Shapes, Intents
<1>1. Shapes'
  BY <1>0, <1>w, <1>k DEF Shapes
<1>2. Roles'
  BY <1>0, <1>w, <1>p DEF Roles
<1>3. Making'
  BY <1>w, <1>p DEF Making
<1>5. Unlinking' /\ Intents'
  BY <1>w, <1>k, OutsideRestore
<1> QED
  BY <1>1, <1>2, <1>3, <1>5 DEF SidecarInv

(* The tool writes the part file.                                        *)
LEMMA WritePartKeeps ==
  ASSUME SidecarInv, WritePart
  PROVE  SidecarInv'
<1>0. Shapes /\ Roles /\ Making /\ Unlinking /\ Intents
  BY DEF SidecarInv
<1>w. /\ job \in AllOwners /\ pc \notin Restores /\ pc' = pc /\ wpc = "begun"
      /\ UNCHANGED <<file, disk, idx, queue, tx, run, family, phase, todo, pending, closed>>
  BY WorkingInSplit DEF WritePart, WorkerRest, loopVars
<1>p. wpc' \in {"idle", "making", "failing"} /\ (wpc' # "idle" => job' = job)
  BY DEF WritePart, Idle, Abandon
<1>k. \A x \in AllOwners, y \in Path : idx'.deleting[x][y] # 0 => disk'.deleting[x][y] # 0
  BY <1>0, <1>w DEF Intents
<1>1. Shapes'
  BY <1>0, <1>w DEF Shapes
<1>2. Roles'
  BY <1>0, <1>w, <1>p DEF Roles
<1>3. Making'
  BY <1>p DEF Making
<1>5. Unlinking' /\ Intents'
  BY <1>w, <1>k, OutsideRestore
<1> QED
  BY <1>1, <1>2, <1>3, <1>5 DEF SidecarInv

(* The part is renamed over nothing.                                     *)
LEMMA PublishKeeps ==
  ASSUME SidecarInv, Publish
  PROVE  SidecarInv'
<1>0. Shapes /\ Roles /\ Making /\ Unlinking /\ Intents
  BY DEF SidecarInv
<1>w. /\ job \in AllOwners /\ pc \notin Restores /\ pc' = pc /\ wpc = "making"
      /\ UNCHANGED <<disk, idx, queue, tx, run, family, phase, todo, pending, closed>>
  BY WorkingInSplit DEF Publish, WorkerRest, loopVars
<1>p. \/ wpc' \in {"idle", "failing"} /\ file' = file /\ (wpc' # "idle" => job' = job)
      \/ wpc' = "made" /\ Renamed /\ job' = job /\ wpath' = wpath
  BY DEF Publish, Idle, Abandon
<1>k. \A x \in AllOwners, y \in Path : idx'.deleting[x][y] # 0 => disk'.deleting[x][y] # 0
  BY <1>0, <1>w DEF Intents
<1>f. /\ file' \in [Path -> File \cup {Nothing}]
      /\ \A p \in Path : file'[p] = Nothing \/ (file'[p].by = Nothing <=> file'[p].size = 3)
  <2>1. CASE file' = file
    BY <1>0, <2>1 DEF Shapes
  <2>2. CASE Renamed
    <3>1. [by |-> job, size |-> 1] \in File /\ job # Nothing
      BY <1>w, SidecarAssumption DEF File, AllOwners
    <3>2. \A p \in Path : file'[p] = IF p = wpath THEN [by |-> job, size |-> 1] ELSE file[p]
      BY <1>0, <2>2 DEF Renamed, Shapes
    <3>3. file' \in [Path -> File \cup {Nothing}]
      BY <1>0, <2>2, <3>1 DEF Renamed, Shapes
    <3> QED
      BY <1>0, <3>1, <3>2, <3>3 DEF Shapes
  <2> QED
    BY <1>p, <2>1, <2>2
<1>1. Shapes'
  BY <1>0, <1>w, <1>f DEF Shapes
<1>2. Roles'
  BY <1>0, <1>w, <1>p DEF Roles
<1>3. Making'
  BY <1>0, <1>p DEF Making, Renamed, Shapes
<1>5. Unlinking' /\ Intents'
  BY <1>w, <1>k, OutsideRestore
<1> QED
  BY <1>1, <1>2, <1>3, <1>5 DEF SidecarInv

(* The failure is logged.                                                *)
LEMMA FinishFailedKeeps ==
  ASSUME SidecarInv, FinishFailed
  PROVE  SidecarInv'
<1>0. Shapes /\ Roles /\ Making /\ Unlinking /\ Intents
  BY DEF SidecarInv
<1>w. /\ job \in AllOwners /\ pc \notin Restores /\ pc' = pc /\ wpc = "failing"
      /\ UNCHANGED <<file, idx, queue, tx, run, family, phase, todo, pending, closed>>
  BY WorkingInSplit DEF FinishFailed, loopVars
<1>p. /\ wpc' \in {"idle", "refresh"} /\ (wpc' # "idle" => job' = job)
      /\ disk' \in {disk, Failing(disk, job, wpath)}
  BY DEF FinishFailed, Idle, Abandon, JobDone
<1>i. IsIndex(Failing(disk, job, wpath)) /\ Failing(disk, job, wpath).deleting = disk.deleting
  BY <1>0, FailingIsIndex DEF Shapes
<1>k. IsIndex(disk') /\ \A x \in AllOwners, y \in Path :
        idx'.deleting[x][y] # 0 => disk'.deleting[x][y] # 0
  BY <1>0, <1>w, <1>p, <1>i DEF Shapes, Intents
<1>1. Shapes'
  BY <1>0, <1>w, <1>k DEF Shapes
<1>2. Roles'
  BY <1>0, <1>w, <1>p DEF Roles
<1>3. Making'
  BY <1>p DEF Making
<1>5. Unlinking' /\ Intents'
  BY <1>w, <1>k, OutsideRestore
<1> QED
  BY <1>1, <1>2, <1>3, <1>5 DEF SidecarInv

(* The outcome is logged and remembered with the size the file has now,  *)
(* which is not the operator's.                                          *)
LEMMA DoneKeeps ==
  ASSUME SidecarInv, Done
  PROVE  SidecarInv'
<1>0. Shapes /\ Roles /\ Making /\ Unlinking /\ Intents
  BY DEF SidecarInv
<1>w. /\ job \in AllOwners /\ pc \notin Restores /\ pc' = pc /\ wpc = "made"
      /\ UNCHANGED <<file, queue, tx, run, family, phase, todo, pending, closed>>
  BY WorkingInSplit DEF Done, loopVars
<1>p. /\ wpc' \in {"idle", "refresh"} /\ (wpc' # "idle" => job' = job)
      /\ \/ UNCHANGED <<disk, idx>>
         \/ /\ Present(wpath)
            /\ disk' = Remember(disk, job, wpath, file[wpath].size)
            /\ idx' = Remember(idx, job, wpath, file[wpath].size)
  BY DEF Done, Idle, Abandon, JobDone
<1>n. Present(wpath) => (wpath \in Path => file[wpath].size \in 0..2)
  <2>1. SUFFICES ASSUME wpath \in Path, file[wpath] # Nothing PROVE file[wpath].size \in 0..2
    BY DEF Present
  <2>2. file[wpath] \in File /\ file[wpath].by # Nothing
    BY <1>0, <1>w, <2>1, SidecarAssumption DEF Shapes, Making, AllOwners
  <2>3. file[wpath].size \in 1..3 /\ file[wpath].size # 3
    BY <1>0, <2>1, <2>2 DEF Shapes, File
  <2> QED
    BY <2>3
<1>i. Present(wpath) => \A i \in {disk, idx} :
        /\ IsIndex(Remember(i, job, wpath, file[wpath].size))
        /\ Remember(i, job, wpath, file[wpath].size).deleting = i.deleting
  BY <1>0, <1>w, <1>n, RememberIsIndex DEF Shapes
<1>k. IsIndex(disk') /\ IsIndex(idx') /\ \A x \in AllOwners, y \in Path :
        idx'.deleting[x][y] # 0 => disk'.deleting[x][y] # 0
  BY <1>0, <1>p, <1>i DEF Shapes, Intents
<1>1. Shapes'
  BY <1>0, <1>w, <1>k DEF Shapes
<1>2. Roles'
  BY <1>0, <1>w, <1>p DEF Roles
<1>3. Making'
  BY <1>p DEF Making
<1>5. Unlinking' /\ Intents'
  BY <1>w, <1>k, OutsideRestore
<1> QED
  BY <1>1, <1>2, <1>3, <1>5 DEF SidecarInv

(* The links of the description are refreshed.                           *)
LEMMA RefreshKeeps ==
  ASSUME SidecarInv, Refresh
  PROVE  SidecarInv'
<1>0. Shapes /\ Roles /\ Making /\ Unlinking /\ Intents
  BY DEF SidecarInv
<1>w. /\ job \in AllOwners /\ pc \notin Restores /\ pc' = pc /\ wpc = "refresh" /\ wpc' = "idle"
      /\ UNCHANGED <<file, disk, idx, queue, tx, run, family, phase, todo, pending, closed>>
  BY WorkingInSplit DEF Refresh, Idle, WorkerRest, loopVars
<1>k. \A x \in AllOwners, y \in Path : idx'.deleting[x][y] # 0 => disk'.deleting[x][y] # 0
  BY <1>0, <1>w DEF Intents
<1>1. Shapes'
  BY <1>0, <1>w DEF Shapes
<1>2. Roles'
  BY <1>0, <1>w DEF Roles
<1>3. Making'
  BY <1>w DEF Making
<1>5. Unlinking' /\ Intents'
  BY <1>w, <1>k, OutsideRestore
<1> QED
  BY <1>1, <1>2, <1>3, <1>5 DEF SidecarInv

(* The process is gone.                                                  *)
LEMMA LeaveKeeps ==
  ASSUME SidecarInv, Leave
  PROVE  SidecarInv'
<1>0. Shapes /\ Roles /\ Making /\ Unlinking /\ Intents
  BY DEF SidecarInv
<1>w. /\ pc' = "down" /\ idx' = EmptyIndex /\ todo' = {} /\ pending' = {} /\ queue' = <<>>
      /\ wpc' = "idle" /\ closed' = FALSE
      /\ UNCHANGED <<family, file, disk, tx, run>>
  BY DEF Leave, Forget, durable
<1>k. \A x \in AllOwners, y \in Path : idx'.deleting[x][y] # 0 => disk'.deleting[x][y] # 0
  BY <1>w, EmptyIsIndex
<1>1. Shapes'
  <2>1. queue' \in Seq(AllOwners)
    BY <1>w
  <2> QED
    BY <1>0, <1>w, <2>1, EmptyIsIndex DEF Shapes
<1>2. Roles'
  BY <1>w DEF Roles, Restores, Splits
<1>3. Making'
  BY <1>w DEF Making
<1>5. Unlinking' /\ Intents'
  BY <1>w, <1>k, OutsideRestore DEF Restores
<1> QED
  BY <1>1, <1>2, <1>3, <1>5 DEF SidecarInv

(* It may crash anywhere.                                                *)
LEMMA CrashKeeps ==
  ASSUME SidecarInv, Crash
  PROVE  SidecarInv'
<1>0. Shapes /\ Roles /\ Making /\ Unlinking /\ Intents
  BY DEF SidecarInv
<1>w. /\ pc' = "down" /\ idx' = EmptyIndex /\ todo' = {} /\ pending' = {} /\ queue' = <<>>
      /\ wpc' = "idle" /\ closed' = FALSE
      /\ UNCHANGED <<family, file, disk, tx, run>>
  BY DEF Crash, Forget
<1>k. \A x \in AllOwners, y \in Path : idx'.deleting[x][y] # 0 => disk'.deleting[x][y] # 0
  BY <1>w, EmptyIsIndex
<1>1. Shapes'
  <2>1. queue' \in Seq(AllOwners)
    BY <1>w
  <2> QED
    BY <1>0, <1>w, <2>1, EmptyIsIndex DEF Shapes
<1>2. Roles'
  BY <1>w DEF Roles, Restores, Splits
<1>3. Making'
  BY <1>w DEF Making
<1>5. Unlinking' /\ Intents'
  BY <1>w, <1>k, OutsideRestore DEF Restores
<1> QED
  BY <1>1, <1>2, <1>3, <1>5 DEF SidecarInv

(* It may be cancelled.                                                  *)
LEMMA CtrlCKeeps ==
  ASSUME SidecarInv, CtrlC
  PROVE  SidecarInv'
<1>0. Shapes /\ Roles /\ Making /\ Unlinking /\ Intents
  BY DEF SidecarInv
<1>d. todo' = todo => Current' = Current
  BY DEF Current
<1>1. Shapes'
  BY <1>0 DEF Shapes, CtrlC
<1>2. Roles'
  BY <1>0 DEF Roles, CtrlC, workVars
<1>3. Making'
  BY <1>0 DEF Making, CtrlC, workVars
<1>4. Unlinking'
  BY <1>0, <1>d DEF Unlinking, CtrlC, workVars
<1>5. Intents'
  BY <1>0, <1>d DEF Intents, Restored, Cleaning, CtrlC
<1> QED
  BY <1>1, <1>2, <1>3, <1>4, <1>5 DEF SidecarInv

(* The operator adds, changes or removes a file outside the window       *)
(* between publication and record.                                       *)
LEMMA OperatorKeeps ==
  ASSUME SidecarInv, Operator
  PROVE  SidecarInv'
<1>0. Shapes /\ Roles /\ Making /\ Unlinking /\ Intents
  BY DEF SidecarInv
<1>w. /\ UNCHANGED <<family, disk, tx, run, pc, phase, todo, pending, idx, queue, closed, wpc, job, wpath>>
      /\ pc = "down" \/ wpc \in {"begun", "making", "made"} \/ pc = "visit"
  BY DEF Operator, loopVars, workVars
<1>n. pc' \notin Restores
  BY <1>w, WorkingInSplit DEF Restores
<1>p. PICK p \in Path :
        \/ wpc # "made" /\ file' = [file EXCEPT ![p] = [by |-> Nothing, size |-> 3]]
        \/ file' = [file EXCEPT ![p] = Nothing]
        \/ wpc # "made" /\ Present(p) /\ file[p].by # Nothing /\ file' = [file EXCEPT ![p].size = 2]
  BY DEF Operator
<1>k. \A x \in AllOwners, y \in Path : idx'.deleting[x][y] # 0 => disk'.deleting[x][y] # 0
  BY <1>0, <1>w DEF Intents
<1>f. /\ file' \in [Path -> File \cup {Nothing}]
      /\ \A q \in Path : file'[q] = Nothing \/ (file'[q].by = Nothing <=> file'[q].size = 3)
  <2>1. CASE file' = [file EXCEPT ![p] = [by |-> Nothing, size |-> 3]]
    <3>1. [by |-> Nothing, size |-> 3] \in File
      BY DEF File
    <3> QED
      BY <1>0, <2>1, <3>1 DEF Shapes
  <2>2. CASE file' = [file EXCEPT ![p] = Nothing]
    BY <1>0, <2>2 DEF Shapes
  <2>3. CASE Present(p) /\ file[p].by # Nothing /\ file' = [file EXCEPT ![p].size = 2]
    <3>1. file[p] \in File
      BY <1>0, <2>3 DEF Shapes, Present
    <3>2. [file[p] EXCEPT !.size = 2] \in File /\ [file[p] EXCEPT !.size = 2].by = file[p].by
          /\ [file[p] EXCEPT !.size = 2].size = 2
      BY <3>1 DEF File
    <3>3. file' = [file EXCEPT ![p] = [file[p] EXCEPT !.size = 2]]
      BY <2>3
    <3> QED
      BY <1>0, <2>3, <3>2, <3>3 DEF Shapes
  <2> QED
    BY <1>p, <2>1, <2>2, <2>3
<1>1. Shapes'
  BY <1>0, <1>w, <1>f DEF Shapes
<1>2. Roles'
  BY <1>0, <1>w DEF Roles
<1>3. Making'
  BY <1>0, <1>p, <1>w DEF Making, Shapes
<1>5. Unlinking' /\ Intents'
  BY <1>w, <1>n, <1>k, OutsideRestore
<1> QED
  BY <1>1, <1>2, <1>3, <1>5 DEF SidecarInv

(* A process starts between two others: the index in memory is the one   *)
(* replayed.                                                             *)
LEMMA LaunchKeeps ==
  ASSUME SidecarInv, NEW op \in {"split", "restore"}, NEW cleanup \in BOOLEAN, Launch(op, cleanup)
  PROVE  SidecarInv'
<1>0. Shapes /\ Roles /\ Making /\ Unlinking /\ Intents
  BY DEF SidecarInv
<1>w. /\ pc = "down" /\ pc' = "prepare" /\ idx' = disk
      /\ UNCHANGED <<family, file, disk, tx, phase, todo, pending, queue, closed, wpc, job, wpath>>
  BY DEF Launch, workVars
<1>r. \/ run' = run /\ run.op = op
      \/ run' = [id |-> run.id + 1, op |-> op, cleanup |-> cleanup, committed |-> {}, open |-> TRUE]
  BY DEF Launch
<1>1. Shapes'
  BY <1>0, <1>w, <1>r DEF Shapes
<1>2. Roles'
  BY <1>0, <1>w, <1>r DEF Roles, Splits, Restores
<1>3. Making'
  BY <1>0, <1>w DEF Making
<1>4. Unlinking'
  BY <1>w DEF Unlinking
<1>5. Intents'
  BY <1>0, <1>w, <1>r DEF Intents, Cleaning, Restores, Restored
<1> QED
  BY <1>1, <1>2, <1>3, <1>4, <1>5 DEF SidecarInv

(* Every step keeps the invariant.                                       *)
LEMMA NextKeeps ==
  ASSUME SidecarInv, [SidecarNext]_sidecarVars
  PROVE  SidecarInv'
<1>1. CASE LoopNext
  BY <1>1, PrepareKeeps, PlanPreviewsKeeps, VisitKeeps, SubmitKeeps, SendKeeps, ReturnKeeps,
     StopKeeps, PickKeeps, DeleteOneKeeps, UnlinkKeeps, FinishDeletedKeeps, AfterDeleteKeeps,
     RestoreKeeps, RestoreEndsKeeps DEF LoopNext
<1>2. CASE WorkerNext
  BY <1>2, TakeKeeps, LookKeeps, WritePartKeeps, PublishKeeps, FinishFailedKeeps, DoneKeeps,
     RefreshKeeps DEF WorkerNext
<1>3. CASE \E op \in {"split", "restore"}, cleanup \in BOOLEAN : Launch(op, cleanup)
  BY <1>3, LaunchKeeps
<1>4. CASE Leave \/ Crash \/ CtrlC \/ Operator
  BY <1>4, LeaveKeeps, CrashKeeps, CtrlCKeeps, OperatorKeeps
<1>5. CASE UNCHANGED sidecarVars
  <2>1. UNCHANGED <<family, file, disk, tx, run, pc, phase, todo, pending, idx, queue, closed,
                    wpc, job, wpath>>
    BY <1>5 DEF sidecarVars, durable, loopVars, workVars
  <2>2. Current' = Current
    BY <2>1 DEF Current
  <2> QED
    BY <2>1, <2>2 DEF SidecarInv, Shapes, Roles, Making, Unlinking, Intents, Cleaning, Restored
<1> QED
  BY <1>1, <1>2, <1>3, <1>4, <1>5 DEF SidecarNext

(* It holds before the first run.                                        *)
LEMMA SidecarStarts == ASSUME SidecarInit PROVE SidecarInv
<1>i. /\ file = [p \in Path |-> Nothing] /\ disk = EmptyIndex /\ idx = EmptyIndex
      /\ tx = [o \in AllOwners |-> [op |-> "none", run |-> 0, cleanup |-> FALSE]]
      /\ run = [id |-> 0, op |-> "none", cleanup |-> FALSE, committed |-> {}, open |-> FALSE]
      /\ pc = "down" /\ todo = {} /\ pending = {} /\ queue = <<>> /\ closed = FALSE
      /\ wpc = "idle"
  BY DEF SidecarInit, NoWork
<1>1. Shapes
  <2>1. queue \in Seq(AllOwners)
    BY <1>i
  <2> QED
    BY <1>i, <2>1, EmptyIsIndex DEF Shapes
<1>2. Roles /\ Making /\ Unlinking
  BY <1>i DEF Roles, Making, Unlinking, Splits, Restores
<1>3. Intents
  BY <1>i DEF Intents, Cleaning, Restores
<1> QED
  BY <1>1, <1>2, <1>3 DEF SidecarInv

(* In every reachable state the invariant holds, for every number of     *)
(* owners, paths, planned names, runs, crashes, cancellations, failed    *)
(* log writes and changes by the operator.                               *)
THEOREM SidecarCorrect == SidecarSpec => []SidecarInv
<1>1. SidecarInv /\ [SidecarNext]_sidecarVars => SidecarInv'
  BY NextKeeps
<1> QED
  BY <1>1, SidecarStarts, PTL DEF SidecarSpec

(* The troubles so far are counted.                                      *)
Counted == budget \in [stops : Nat, changes : Nat, errors : Nat]

(* Always, so that a change by the operator is told from a step of       *)
(* arxgo.                                                                *)
LEMMA TroublesCounted == SidecarSpec => []Counted
<1>1. SidecarInit => Counted
  BY DEF SidecarInit, Counted
<1>2. ASSUME Counted, [SidecarNext]_sidecarVars PROVE Counted'
  <2>1. \/ budget' = budget
        \/ budget' = [budget EXCEPT !.stops = @ + 1]
        \/ budget' = [budget EXCEPT !.changes = @ + 1]
        \/ budget' = [budget EXCEPT !.errors = @ + 1]
    BY <1>2 DEF SidecarNext, LoopNext, WorkerNext, Launch, Prepare, PlanPreviews, Visit,
       Submit, Send, Return, Stop, Pick, DeleteOne, Unlink, FinishDeleted, AfterDelete,
       Restore, RestoreEnds, Take, Look, WritePart, Publish, FinishFailed, Done, Refresh,
       Leave, Crash, CtrlC, Operator, LogFails, Stopping, durable, sidecarVars, WorkerRest
  <2> QED
    BY <1>2, <2>1 DEF Counted
<1> QED
  BY <1>1, <1>2, PTL DEF SidecarSpec

(* Property FilesKept: no step of arxgo replaces a file, and it removes  *)
(* only a sidecar of the size logged for an owner at this path           *)
(* (publication without replace, adoption, deleteOne).                   *)
THEOREM SidecarFilesKept == SidecarSpec => FilesKept
<1> DEFINE Kept(p) == \/ file'[p] = file[p]
                      \/ file[p] = Nothing /\ file'[p].by # Nothing
                      \/ /\ file[p] # Nothing /\ file'[p] = Nothing /\ file[p].by # Nothing
                         /\ \E o \in AllOwners :
                              /\ file[p].size \in {disk.owned[o][p], disk.deleting[o][p]}
                              /\ family = "text" => file[p].by = o
<1>1. ASSUME SidecarInv, Counted, SidecarNext PROVE ByOperator \/ \A p \in Path : Kept(p)
  <2>0. Shapes /\ Roles /\ Making /\ Unlinking /\ Intents
    BY <1>1 DEF SidecarInv
  <2>1. CASE Unlink
    <3>1. /\ wpath \in Path /\ file[wpath] # Nothing /\ file' = [file EXCEPT ![wpath] = Nothing]
          /\ file[wpath].size = disk.deleting[Current][wpath]
          /\ family = "text" => file[wpath].by = Current
      BY <2>0, <2>1 DEF Unlink, Unlinking
    <3>2. Current \in AllOwners
      BY <2>0, <2>1, CurrentKnown DEF Unlink, Roles, Shapes
    <3>3. file[wpath].by # Nothing
      <4>1. disk.deleting[Current][wpath] \in 0..2
        BY <2>0, <3>1, <3>2 DEF Shapes, IsIndex, Sizes
      <4>2. file[wpath].size # 3
        BY <3>1, <4>1
      <4> QED
        BY <2>0, <3>1, <4>2 DEF Shapes
    <3>4. \A p \in Path : Kept(p)
      BY <3>1, <3>2, <3>3
    <3> QED
      BY <3>4
  <2>2. CASE Publish
    <3>1. \A p \in Path : Kept(p)
      <4>1. CASE file' = file
        BY <4>1
      <4>2. CASE Renamed /\ ~Present(wpath)
        <5>1. job \in AllOwners /\ job # Nothing
          BY <1>1, <2>2, WorkingInSplit, SidecarAssumption DEF Publish, AllOwners
        <5> QED
          BY <2>0, <4>2, <5>1 DEF Renamed, Present, Shapes
      <4> QED
        BY <2>2, <4>1, <4>2 DEF Publish
    <3> QED
      BY <3>1
  <2>3. CASE Operator
    BY <1>1, <2>3 DEF Operator, ByOperator, Counted
  <2>4. CASE file' = file
    BY <2>4
  <2> QED
    <3>1. Operator \/ Unlink \/ Publish \/ file' = file
      BY <1>1 DEF SidecarNext, LoopNext, WorkerNext, Launch, Prepare, PlanPreviews, Visit,
         Submit, Send, Return, Stop, Pick, DeleteOne, FinishDeleted, AfterDelete, Restore,
         RestoreEnds, Take, Look, WritePart, FinishFailed, Done, Refresh, Leave, Crash, CtrlC,
         durable
    <3> QED
      BY <2>1, <2>2, <2>3, <2>4, <3>1
<1>2. ASSUME SidecarInv, Counted, [SidecarNext]_sidecarVars
      PROVE  [ByOperator \/ \A p \in Path : Kept(p)]_sidecarVars
  BY <1>1, <1>2
<1> QED
  BY <1>2, SidecarCorrect, TroublesCounted, PTL DEF SidecarSpec, FilesKept

(* Property DeletesRestoredOnly: a deletion is logged only for a file    *)
(* that its last transaction, a restore with cleanup, brought back       *)
(* (deleteEarlierRestored, deleteRestored).                              *)
THEOREM DeletionAllowed == SidecarSpec => DeletesRestoredOnly
<1> DEFINE Allowed(o, p) == disk.deleting[o][p] = 0 /\ disk'.deleting[o][p] # 0
                              => tx[o].op = "restore" /\ tx[o].cleanup
<1>1. ASSUME SidecarInv, SidecarNext PROVE \A o \in AllOwners, p \in Path : Allowed(o, p)
  <2>0. Shapes /\ Roles /\ Making /\ Unlinking /\ Intents
    BY <1>1 DEF SidecarInv
  <2>1. CASE DeleteOne
    <3>q. PICK q \in pending : \E n \in {idx.owned[Current][q], idx.deleting[Current][q]} :
            disk' = disk \/ disk' = Deleting(disk, Current, q, n)
      BY <2>1 DEF DeleteOne
    <3>1. PICK n \in {idx.owned[Current][q], idx.deleting[Current][q]} :
            disk' = disk \/ disk' = Deleting(disk, Current, q, n)
      BY <3>q
    <3>2. /\ pc = "delete" /\ Current \in AllOwners /\ Current \in todo /\ q \in Path
          /\ n \in 0..2
      BY <2>0, <2>1, CurrentKnown DEF DeleteOne, Roles, Shapes, IsIndex, Sizes
    <3>3. IsIndex(disk)
      BY <2>0 DEF Shapes
    <3>s. n \in Size
      BY <3>2 DEF Size
    <3>4. \A x \in AllOwners, y \in Path :
            Deleting(disk, Current, q, n).deleting[x][y] =
              IF x = Current /\ y = q THEN n ELSE disk.deleting[x][y]
      BY <3>2, <3>3, <3>s, DeletingIsIndex
    <3>5. phase = "unfinished" => disk.deleting[Current][q] # 0
      BY <2>0, <3>2 DEF Intents, Cleaning
    <3>6. phase # "unfinished" => Restored(Current)
      BY <2>0, <3>2 DEF Intents, Cleaning, Restores
    <3> QED
      BY <3>1, <3>2, <3>4, <3>5, <3>6 DEF Restored
  <2>2. CASE FinishDeleted
    <3>1. Current \in AllOwners /\ wpath \in Path /\ IsIndex(disk)
      BY <2>0, <2>2, CurrentKnown DEF FinishDeleted, Roles, Shapes, Unlinking
    <3>2. \A x \in AllOwners, y \in Path :
            Deleted(disk, Current, wpath).deleting[x][y] =
              IF x = Current /\ y = wpath THEN 0 ELSE disk.deleting[x][y]
      BY <3>1, DeletedIsIndex
    <3>3. disk' = disk \/ disk' = Deleted(disk, Current, wpath)
      BY <2>2 DEF FinishDeleted
    <3> QED
      BY <3>1, <3>2, <3>3
  <2>3. CASE Look \/ FinishFailed \/ Done
    <3>1. PICK p, n : disk' \in {disk, Begun(disk, job, p), Failing(disk, job, p), Remember(disk, job, p, n)}
      BY <2>3 DEF Look, FinishFailed, Done
    <3>2. disk'.deleting = disk.deleting
      BY <2>0, <3>1 DEF Shapes, IsIndex, Begun, Failing, Remember
    <3> QED
      BY <3>2
  <2>4. CASE disk' = disk
    BY <2>4
  <2> QED
    <3>1. DeleteOne \/ FinishDeleted \/ Look \/ FinishFailed \/ Done \/ disk' = disk
      BY <1>1 DEF SidecarNext, LoopNext, WorkerNext, Launch, Prepare, PlanPreviews, Visit,
         Submit, Send, Return, Stop, Pick, Unlink, AfterDelete, Restore, RestoreEnds, Take,
         WritePart, Publish, Refresh, Leave, Crash, CtrlC, Operator, durable
    <3> QED
      BY <2>1, <2>2, <2>3, <2>4, <3>1
<1>2. ASSUME SidecarInv, [SidecarNext]_sidecarVars
      PROVE  [\A o \in AllOwners, p \in Path : Allowed(o, p)]_sidecarVars
  BY <1>1, <1>2
<1> QED
  BY <1>2, SidecarCorrect, PTL DEF SidecarSpec, DeletesRestoredOnly

-----------------------------------------------------------------------------
(* While a process runs, the sizes it remembers are those its log events *)
(* replay to.                                                            *)
Agree == pc # "down" => idx.owned = disk.owned

(* How far a split has come: what the loop's step says about the phase,  *)
(* the family and the channel, and that a split without error visited    *)
(* every owner and left nothing to the worker.                           *)
Stages ==
  /\ pc = "plan" => wpc = "idle" /\ queue = <<>>
  /\ family \in {"preview", "text"}
  /\ pc \in {"visit", "submit", "send", "return"} => phase \in {"catchup", "loop"}
  /\ pc = "send" => family = "preview"
  /\ pc = "return" => family = "text"
  /\ closed => pc \in {"stop", "ended"}
  /\ run.op = "split" /\ pc \in {"stop", "ended"} /\ err = "none" => todo = {} /\ phase = "loop"
  /\ run.op = "split" /\ pc = "ended" /\ err = "none" =>
       ~werr /\ wpc \in {"idle", "done"} /\ queue = <<>>

(* The channel holds at most one owner; a job's path is the planned one; *)
(* a text is generated by the loop itself, for the owner it visits.      *)
Channel ==
  /\ plan \in [AllOwners -> Path \cup {Nothing}] /\ DOMAIN links = AllOwners
  /\ queue = <<>> \/ \E o \in AllOwners : queue = <<o>>
  /\ wpc = "done" => closed /\ queue = <<>>
  /\ wpc \in {"begun", "making", "failing", "made"} =>
       wpath \in Path /\ (family = "preview" => wpath = plan[job])
  /\ family = "text" => /\ queue = <<>> /\ wpc \notin {"refresh", "done"}
                        /\ wpc # "idle" => pc = "return" /\ job = Current

(* What is handed to the generator was moved.                            *)
Sent ==
  /\ wpc \notin {"idle", "done"} => tx[job].op = "split"
  /\ \A o \in AllOwners : queue = <<o>> => tx[o].op = "split"
  /\ pc \in {"visit", "submit", "send", "return"} /\ phase = "catchup" =>
       \A o \in todo : tx[o].op = "split"
  /\ pc \in {"submit", "send", "return"} => tx[Current].op = "split"

(* The files of the running run are those it committed.                  *)
Numbers ==
  /\ run.id \in Nat
  /\ \A o \in AllOwners :
       /\ tx[o].run \in Nat /\ tx[o].run <= run.id
       /\ tx[o].op # "none" /\ tx[o].run = run.id => o \in run.committed

(* The second inductive invariant, on top of SidecarInv.                 *)
WorkInv == Agree /\ Stages /\ Channel /\ Sent /\ Numbers

(* The first name of an owner in a set of paths, if any, is in it.       *)
LEMMA FirstNameIn ==
  ASSUME NEW o \in AllOwners, NEW T, T \subseteq Path
  PROVE  FirstName(o, T) \in T \cup {Nothing}
<1> DEFINE fit == {n \in DOMAIN Names[o] : Names[o][n] \in T}
<1>1. fit \subseteq Nat
  <2>1. Names[o] \in Seq(Path)
    BY SidecarAssumption DEF Names, AllOwners
  <2> QED
    BY <2>1
<1>2. CASE fit = {}
  BY <1>2 DEF FirstName
<1>3. CASE fit # {}
  <2>1. PICK n \in fit : \A m \in fit : n <= m
    BY <1>1, <1>3, LeastOf
  <2>2. Min(fit) \in fit
    BY <2>1 DEF Min
  <2> QED
    BY <1>3, <2>2 DEF FirstName
<1> QED
  BY <1>2, <1>3

(* Where a job's sidecar goes is a path, or there is none.               *)
LEMMA TargetIn ==
  ASSUME SidecarInv, Channel, job \in AllOwners
  PROVE  Target \in Path \cup {Nothing}
<1>1. CASE family = "preview"
  BY <1>1 DEF Target, Channel
<1>2. CASE family # "preview"
  <2>1. \A T : T \subseteq Path => FirstName(job, T) \in Path \cup {Nothing}
    BY FirstNameIn
  <2> QED
    BY <1>2, <2>1 DEF Target, TextPath
<1> QED
  BY <1>1, <1>2

(* Sizes with one more record.                                           *)
Sized(f, o, p, n) == [f EXCEPT ![o][p] = n]

(* What the events of the log do to the recorded sizes.                  *)
LEMMA OwnedKept ==
  ASSUME NEW i, IsIndex(i), NEW o, NEW p, NEW n
  PROVE  /\ Begun(i, o, p).owned = i.owned
         /\ Failing(i, o, p).owned = i.owned
         /\ Deleting(i, o, p, n).owned = i.owned
         /\ Remember(i, o, p, n).owned = Sized(i.owned, o, p, n)
         /\ Deleted(i, o, p).owned = Sized(i.owned, o, p, 0)
BY DEF Sized, IsIndex, Begun, Failing, Deleting, Remember, Deleted

(* Every event is logged before it is remembered, and remembered before  *)
(* the next.                                                             *)
LEMMA AgreeKept ==
  ASSUME SidecarInv, WorkInv, [SidecarNext]_sidecarVars
  PROVE  Agree'
<1>0. Shapes /\ Roles /\ Making /\ Unlinking /\ Intents
  BY DEF SidecarInv
<1>w. Agree /\ Stages /\ Channel /\ Sent /\ Numbers
  BY DEF WorkInv
<1>1. CASE Prepare
  BY <1>w, <1>1 DEF Agree, Prepare
<1>2. CASE PlanPreviews
  BY <1>w, <1>2 DEF Agree, PlanPreviews, durable
<1>3. CASE Visit
  BY <1>w, <1>3 DEF Agree, Visit
<1>4. CASE Submit
  BY <1>w, <1>4 DEF Agree, Submit, durable
<1>5. CASE Send
  BY <1>w, <1>5 DEF Agree, Send, durable
<1>6. CASE Return
  BY <1>w, <1>6 DEF Agree, Return, durable
<1>7. CASE Stop
  BY <1>w, <1>7 DEF Agree, Stop
<1>8. CASE Pick
  BY <1>w, <1>8 DEF Agree, Pick, durable
<1>9. CASE DeleteOne
  <2>1. IsIndex(disk) /\ IsIndex(idx)
    BY <1>0 DEF Shapes
  <2>2. pc # "down" /\ idx' = idx /\ \E p, n : disk' \in {disk, Deleting(disk, Current, p, n)}
    BY <1>9 DEF DeleteOne
  <2> QED
    BY <1>w, <2>1, <2>2 DEF Agree, IsIndex, Deleting
<1>10. CASE Unlink
  BY <1>w, <1>10 DEF Agree, Unlink
<1>11. CASE FinishDeleted
  <2>1. IsIndex(disk) /\ IsIndex(idx)
    BY <1>0 DEF Shapes
  <2>2. \A i \in {disk, idx} :
          Deleted(i, Current, wpath).owned = Sized(i.owned, Current, wpath, 0)
    BY <2>1, OwnedKept
  <2>3. pc # "down" /\ \/ UNCHANGED <<disk, idx>>
                       \/ /\ disk' = Deleted(disk, Current, wpath)
                          /\ idx' = Deleted(idx, Current, wpath)
    BY <1>11 DEF FinishDeleted
  <2> QED
    BY <1>w, <2>2, <2>3 DEF Agree
<1>12. CASE AfterDelete
  BY <1>w, <1>12 DEF Agree, AfterDelete
<1>13. CASE Restore
  BY <1>w, <1>13 DEF Agree, Restore
<1>14. CASE RestoreEnds
  BY <1>w, <1>14 DEF Agree, RestoreEnds
<1>15. CASE Take
  BY <1>w, <1>15 DEF Agree, Take, WorkerRest, loopVars
<1>16. CASE Look
  <2>1. IsIndex(disk) /\ IsIndex(idx)
    BY <1>0 DEF Shapes
  <2>2. idx' = idx /\ pc' = pc /\ \E o, p : disk' \in {disk, Begun(disk, o, p)}
    BY <1>16 DEF Look, loopVars
  <2> QED
    BY <1>w, <2>1, <2>2 DEF Agree, IsIndex, Begun
<1>17. CASE WritePart
  BY <1>w, <1>17 DEF Agree, WritePart, WorkerRest, loopVars
<1>18. CASE Publish
  BY <1>w, <1>18 DEF Agree, Publish, WorkerRest, loopVars
<1>19. CASE FinishFailed
  <2>1. IsIndex(disk) /\ IsIndex(idx)
    BY <1>0 DEF Shapes
  <2>2. idx' = idx /\ pc' = pc /\ disk' \in {disk, Failing(disk, job, wpath)}
    BY <1>19 DEF FinishFailed, loopVars
  <2> QED
    BY <1>w, <2>1, <2>2 DEF Agree, IsIndex, Failing
<1>20. CASE Done
  <2>1. IsIndex(disk) /\ IsIndex(idx)
    BY <1>0 DEF Shapes
  <2>2. pc' = pc /\ \/ UNCHANGED <<disk, idx>>
                            \/ /\ disk' = Remember(disk, job, wpath, file[wpath].size)
                               /\ idx' = Remember(idx, job, wpath, file[wpath].size)
    BY <1>20 DEF Done, loopVars
  <2>3. \A i \in {disk, idx} :
          Remember(i, job, wpath, file[wpath].size).owned = Sized(i.owned, job, wpath, file[wpath].size)
    BY <2>1, OwnedKept
  <2>4. CASE UNCHANGED <<disk, idx>>
    BY <1>w, <2>2, <2>4 DEF Agree
  <2>5. CASE disk' = Remember(disk, job, wpath, file[wpath].size) /\ idx' = Remember(idx, job, wpath, file[wpath].size)
    <3>1. /\ disk'.owned = Sized(disk.owned, job, wpath, file[wpath].size)
          /\ idx'.owned = Sized(idx.owned, job, wpath, file[wpath].size)
      BY <2>3, <2>5
    <3> QED
      BY <1>w, <2>2, <3>1 DEF Agree
  <2> QED
    BY <2>2, <2>4, <2>5
<1>21. CASE Refresh
  BY <1>w, <1>21 DEF Agree, Refresh, WorkerRest, loopVars
<1>22. CASE Leave
  BY <1>22 DEF Agree, Leave
<1>23. CASE Crash
  BY <1>23 DEF Agree, Crash
<1>24. CASE CtrlC
  BY <1>w, <1>24 DEF Agree, CtrlC
<1>25. CASE Operator
  BY <1>w, <1>25 DEF Agree, Operator, loopVars
<1>26. CASE \E op \in {"split", "restore"}, cleanup \in BOOLEAN : Launch(op, cleanup)
  BY <1>26 DEF Agree, Launch
<1>27. CASE UNCHANGED sidecarVars
  BY <1>w, <1>27 DEF Agree, sidecarVars, durable, loopVars
<1> QED
  BY <1>1, <1>2, <1>3, <1>4, <1>5, <1>6, <1>7, <1>8, <1>9, <1>10, <1>11, <1>12, <1>13, <1>14,
     <1>15, <1>16, <1>17, <1>18, <1>19, <1>20, <1>21, <1>22, <1>23, <1>24, <1>25, <1>26, <1>27
     DEF SidecarNext, LoopNext, WorkerNext

(* Every step keeps the stages.                                          *)
LEMMA StagesKept ==
  ASSUME SidecarInv, WorkInv, [SidecarNext]_sidecarVars
  PROVE  Stages'
<1>0. Shapes /\ Roles /\ Making /\ Unlinking /\ Intents
  BY DEF SidecarInv
<1>w. Agree /\ Stages /\ Channel /\ Sent /\ Numbers
  BY DEF WorkInv
<1>1. CASE Prepare
  BY <1>0, <1>w, <1>1 DEF Stages, Roles, Prepare, workVars
<1>2. CASE PlanPreviews
  BY <1>w, <1>2 DEF Stages, PlanPreviews, durable
<1>3. CASE Visit
  BY <1>w, <1>3 DEF Stages, Visit, Halt
<1>4. CASE Submit
  <2>1. /\ pc = "submit" /\ UNCHANGED <<phase, closed, run, family, todo, werr, queue>>
        /\ \/ family = "text" /\ pc' = "return"
           \/ family # "text" /\ pc' = "stop" /\ err' = "fatal"
           \/ family # "text" /\ pc' = "send"
    BY <1>4 DEF Submit, Halt, durable, workVars
  <2>2. family \in {"preview", "text"}
    BY <1>w DEF Stages
  <2> QED
    BY <1>w, <2>1, <2>2 DEF Stages
<1>5. CASE Send
  BY <1>w, <1>5 DEF Stages, Send, durable
<1>6. CASE Return
  BY <1>w, <1>6 DEF Stages, Return, Halt, durable
<1>7. CASE Stop
  <2>1. /\ pc = "stop" /\ run.op = "split" /\ UNCHANGED <<phase, family, todo, wpc, werr, queue>>
        /\ \/ pc' = pc /\ err' = err /\ run' = run
           \/ /\ family = "text" \/ wpc = "done"
              /\ pc' = "ended" /\ err' = Join /\ closed' = closed
    BY <1>7 DEF Stop, workVars
  <2>2. err' = "none" /\ pc' = "ended" => err = "none" /\ ~werr
    BY <2>1 DEF Join
  <2>3. (family = "text" \/ wpc = "done") => wpc \in {"idle", "done"} /\ queue = <<>>
    BY <1>w, <2>1 DEF Channel
  <2> QED
    BY <1>w, <2>1, <2>2, <2>3 DEF Stages
<1>8. CASE Pick
  BY <1>w, <1>8 DEF Stages, Pick, durable
<1>9. CASE DeleteOne
  BY <1>w, <1>9 DEF Stages, DeleteOne, Halt
<1>10. CASE Unlink
  BY <1>w, <1>10 DEF Stages, Unlink, RestoreRest
<1>11. CASE FinishDeleted
  BY <1>w, <1>11 DEF Stages, FinishDeleted, Halt
<1>12. CASE AfterDelete
  BY <1>w, <1>12 DEF Stages, AfterDelete, RestoreRest
<1>13. CASE Restore
  BY <1>0, <1>w, <1>13 DEF Stages, Roles, Restores, Restore, Halt, RestoreRest
<1>14. CASE RestoreEnds
  BY <1>w, <1>14 DEF Stages, RestoreEnds, RestoreRest
<1>15. CASE Take
  <2>1. /\ wpc = "idle" /\ UNCHANGED <<pc, phase, closed, run, family, todo, err, werr>>
        /\ \/ queue # <<>> /\ family = "preview"
           \/ queue = <<>> /\ closed /\ wpc' = "done" /\ queue' = queue
    BY <1>15 DEF Take, WorkerRest, loopVars, workVars
  <2> QED
    BY <1>w, <2>1 DEF Stages
<1>16. CASE Look
  BY <1>w, <1>16 DEF Stages, Look, loopVars
<1>17. CASE WritePart
  BY <1>w, <1>17 DEF Stages, WritePart, WorkerRest, loopVars
<1>18. CASE Publish
  BY <1>w, <1>18 DEF Stages, Publish, WorkerRest, loopVars
<1>19. CASE FinishFailed
  BY <1>w, <1>19 DEF Stages, FinishFailed, loopVars
<1>20. CASE Done
  BY <1>w, <1>20 DEF Stages, Done, loopVars
<1>21. CASE Refresh
  BY <1>w, <1>21 DEF Stages, Refresh, WorkerRest, loopVars
<1>22. CASE Leave
  BY <1>w, <1>22 DEF Stages, Leave, Forget, durable
<1>23. CASE Crash
  BY <1>w, <1>23 DEF Stages, Crash, Forget
<1>24. CASE CtrlC
  BY <1>w, <1>24 DEF Stages, CtrlC, workVars
<1>25. CASE Operator
  BY <1>w, <1>25 DEF Stages, Operator, loopVars
<1>26. CASE \E op \in {"split", "restore"}, cleanup \in BOOLEAN : Launch(op, cleanup)
  BY <1>w, <1>26 DEF Stages, Launch
<1>27. CASE UNCHANGED sidecarVars
  BY <1>w, <1>27 DEF Stages, sidecarVars, durable, loopVars, workVars
<1> QED
  BY <1>1, <1>2, <1>3, <1>4, <1>5, <1>6, <1>7, <1>8, <1>9, <1>10, <1>11, <1>12, <1>13, <1>14,
     <1>15, <1>16, <1>17, <1>18, <1>19, <1>20, <1>21, <1>22, <1>23, <1>24, <1>25, <1>26, <1>27
     DEF SidecarNext, LoopNext, WorkerNext

(* Every step keeps the channel.                                         *)
LEMMA ChannelKept ==
  ASSUME SidecarInv, WorkInv, [SidecarNext]_sidecarVars
  PROVE  Channel'
<1>0. Shapes /\ Roles /\ Making /\ Unlinking /\ Intents
  BY DEF SidecarInv
<1>w. Agree /\ Stages /\ Channel /\ Sent /\ Numbers
  BY DEF WorkInv
<1>c. todo # {} => Current \in todo /\ Current \in AllOwners
  BY <1>0, CurrentKnown DEF Shapes
<1>d. todo' = todo => Current' = Current
  BY DEF Current
<1>1. CASE Prepare
  BY <1>w, <1>1 DEF Channel, Prepare, workVars
<1>2. CASE PlanPreviews
  BY <1>w, <1>2 DEF Channel, Stages, PlanPreviews, PlanAll, durable, workVars
<1>3. CASE Visit
  BY <1>w, <1>3 DEF Channel, Visit, workVars
<1>4. CASE Submit
  BY <1>w, <1>d, <1>4 DEF Channel, Submit, durable, workVars
<1>5. CASE Send
  BY <1>0, <1>w, <1>c, <1>5 DEF Channel, Stages, Roles, Send, durable, workVars
<1>6. CASE Return
  BY <1>w, <1>6 DEF Channel, Return, durable, workVars
<1>7. CASE Stop
  BY <1>w, <1>7 DEF Channel, Stop, workVars
<1>8. CASE Pick
  BY <1>w, <1>8 DEF Channel, Pick, durable, workVars
<1>9. CASE DeleteOne
  BY <1>0, <1>w, <1>9 DEF Channel, Roles, Restores, DeleteOne
<1>10. CASE Unlink
  BY <1>w, <1>10 DEF Channel, Unlink, RestoreRest, workVars
<1>11. CASE FinishDeleted
  BY <1>0, <1>w, <1>11 DEF Channel, Roles, Restores, FinishDeleted
<1>12. CASE AfterDelete
  BY <1>w, <1>12 DEF Channel, AfterDelete, Refreshed, RestoreRest, workVars
<1>13. CASE Restore
  BY <1>w, <1>13 DEF Channel, Restore, RestoreRest, workVars
<1>14. CASE RestoreEnds
  BY <1>w, <1>14 DEF Channel, RestoreEnds, RestoreRest, workVars
<1>15. CASE Take
  BY <1>0, <1>w, <1>15 DEF Channel, Shapes, Take, workVars, WorkerRest, loopVars
<1>16. CASE Look
  <2>1. /\ job \in AllOwners /\ pc' = pc /\ wpc = "look"
        /\ UNCHANGED <<links, plan, queue, family, closed, todo>>
    BY <1>16, WorkingInSplit DEF Look, loopVars
  <2>2. Target \in Path \cup {Nothing}
    BY <1>w, <2>1, TargetIn
  <2>3. \/ wpc' = "idle"
        \/ wpc' = "refresh" /\ family = "preview"
        \/ /\ wpc' \in {"made", "begun"} /\ job' = job /\ wpath' = Target /\ Target # Nothing
    BY <1>16 DEF Look, Idle, Abandon, JobDone
  <2> QED
    BY <1>w, <1>d, <2>1, <2>2, <2>3 DEF Channel, Target
<1>17. CASE WritePart
  BY <1>w, <1>d, <1>17 DEF Channel, WritePart, Idle, Abandon, WorkerRest, loopVars
<1>18. CASE Publish
  BY <1>w, <1>d, <1>18 DEF Channel, Publish, Abandon, Idle, WorkerRest, loopVars
<1>19. CASE FinishFailed
  BY <1>w, <1>19 DEF Channel, FinishFailed, Idle, Abandon, JobDone, loopVars
<1>20. CASE Done
  BY <1>w, <1>20 DEF Channel, Done, Idle, Abandon, JobDone, loopVars
<1>21. CASE Refresh
  BY <1>w, <1>21 DEF Channel, Refresh, Idle, Refreshed, WorkerRest, loopVars
<1>22. CASE Leave
  BY <1>w, <1>22 DEF Channel, Leave, Forget, durable
<1>23. CASE Crash
  BY <1>w, <1>23 DEF Channel, Crash, Forget
<1>24. CASE CtrlC
  BY <1>w, <1>d, <1>24 DEF Channel, CtrlC, workVars
<1>25. CASE Operator
  BY <1>w, <1>d, <1>25 DEF Channel, Operator, loopVars, workVars
<1>26. CASE \E op \in {"split", "restore"}, cleanup \in BOOLEAN : Launch(op, cleanup)
  BY <1>w, <1>26 DEF Channel, Launch, workVars
<1>27. CASE UNCHANGED sidecarVars
  BY <1>w, <1>d, <1>27 DEF Channel, sidecarVars, durable, loopVars, workVars
<1> QED
  BY <1>1, <1>2, <1>3, <1>4, <1>5, <1>6, <1>7, <1>8, <1>9, <1>10, <1>11, <1>12, <1>13, <1>14,
     <1>15, <1>16, <1>17, <1>18, <1>19, <1>20, <1>21, <1>22, <1>23, <1>24, <1>25, <1>26, <1>27
     DEF SidecarNext, LoopNext, WorkerNext

(* Every step hands over moved files only.                               *)
LEMMA SentKept ==
  ASSUME SidecarInv, WorkInv, [SidecarNext]_sidecarVars
  PROVE  Sent'
<1>0. Shapes /\ Roles /\ Making /\ Unlinking /\ Intents
  BY DEF SidecarInv
<1>w. Agree /\ Stages /\ Channel /\ Sent /\ Numbers
  BY DEF WorkInv
<1>c. todo # {} => Current \in todo /\ Current \in AllOwners
  BY <1>0, CurrentKnown DEF Shapes
<1>d. todo' = todo => Current' = Current
  BY DEF Current
<1>1. CASE Prepare
  BY <1>w, <1>1 DEF Sent, Prepare, workVars
<1>2. CASE PlanPreviews
  BY <1>w, <1>2 DEF Sent, PlanPreviews, Moved, durable, workVars
<1>3. CASE Visit
  BY <1>0, <1>w, <1>c, <1>d, <1>3 DEF Sent, Shapes, Roles, Visit, Halt, workVars
<1>4. CASE Submit
  BY <1>w, <1>d, <1>4 DEF Sent, Submit, durable, workVars
<1>5. CASE Send
  BY <1>w, <1>5 DEF Sent, Send, Rest, durable, workVars
<1>6. CASE Return
  BY <1>w, <1>6 DEF Sent, Return, Halt, Rest, durable, workVars
<1>7. CASE Stop
  BY <1>w, <1>7 DEF Sent, Stop, workVars
<1>8. CASE Pick
  BY <1>w, <1>8 DEF Sent, Pick, durable, workVars
<1>9. CASE DeleteOne
  BY <1>w, <1>9 DEF Sent, DeleteOne, Halt
<1>10. CASE Unlink
  BY <1>w, <1>10 DEF Sent, Unlink, RestoreRest, workVars
<1>11. CASE FinishDeleted
  BY <1>w, <1>11 DEF Sent, FinishDeleted, Halt
<1>12. CASE AfterDelete
  BY <1>w, <1>12 DEF Sent, AfterDelete, RestoreRest, workVars
<1>13. CASE Restore
  BY <1>0, <1>13 DEF Sent, Roles, Restores, Restore, Halt, RestoreRest, workVars
<1>14. CASE RestoreEnds
  BY <1>w, <1>14 DEF Sent, RestoreEnds, RestoreRest, workVars
<1>15. CASE Take
  BY <1>w, <1>d, <1>15 DEF Sent, Channel, Take, workVars, WorkerRest, loopVars
<1>16. CASE Look
  BY <1>w, <1>d, <1>16 DEF Sent, Look, Idle, Abandon, JobDone, loopVars
<1>17. CASE WritePart
  BY <1>w, <1>d, <1>17 DEF Sent, WritePart, Idle, Abandon, WorkerRest, loopVars
<1>18. CASE Publish
  BY <1>w, <1>d, <1>18 DEF Sent, Publish, Abandon, Idle, WorkerRest, loopVars
<1>19. CASE FinishFailed
  BY <1>w, <1>d, <1>19 DEF Sent, FinishFailed, Idle, Abandon, JobDone, loopVars
<1>20. CASE Done
  BY <1>w, <1>d, <1>20 DEF Sent, Done, Idle, Abandon, JobDone, loopVars
<1>21. CASE Refresh
  BY <1>w, <1>d, <1>21 DEF Sent, Refresh, Idle, WorkerRest, loopVars
<1>22. CASE Leave
  BY <1>22 DEF Sent, Leave, Forget
<1>23. CASE Crash
  BY <1>23 DEF Sent, Crash, Forget
<1>24. CASE CtrlC
  BY <1>w, <1>d, <1>24 DEF Sent, CtrlC, workVars
<1>25. CASE Operator
  BY <1>w, <1>d, <1>25 DEF Sent, Operator, loopVars, workVars
<1>26. CASE \E op \in {"split", "restore"}, cleanup \in BOOLEAN : Launch(op, cleanup)
  BY <1>w, <1>26 DEF Sent, Launch, workVars
<1>27. CASE UNCHANGED sidecarVars
  BY <1>w, <1>d, <1>27 DEF Sent, sidecarVars, durable, loopVars, workVars
<1> QED
  BY <1>1, <1>2, <1>3, <1>4, <1>5, <1>6, <1>7, <1>8, <1>9, <1>10, <1>11, <1>12, <1>13, <1>14,
     <1>15, <1>16, <1>17, <1>18, <1>19, <1>20, <1>21, <1>22, <1>23, <1>24, <1>25, <1>26, <1>27
     DEF SidecarNext, LoopNext, WorkerNext

(* Every step keeps the run's files.                                     *)
LEMMA NumbersKept ==
  ASSUME SidecarInv, WorkInv, [SidecarNext]_sidecarVars
  PROVE  Numbers'
<1>0. Shapes /\ Roles /\ Making /\ Unlinking /\ Intents
  BY DEF SidecarInv
<1>w. Agree /\ Stages /\ Channel /\ Sent /\ Numbers
  BY DEF WorkInv
<1>1. CASE Prepare
  BY <1>w, <1>1 DEF Numbers, Prepare
<1>2. CASE PlanPreviews
  BY <1>w, <1>2 DEF Numbers, PlanPreviews, durable
<1>3. CASE Visit
  BY <1>0, <1>w, <1>3 DEF Numbers, Shapes, Visit
<1>4. CASE Submit
  BY <1>w, <1>4 DEF Numbers, Submit, durable
<1>5. CASE Send
  BY <1>w, <1>5 DEF Numbers, Send, durable
<1>6. CASE Return
  BY <1>w, <1>6 DEF Numbers, Return, durable
<1>7. CASE Stop
  BY <1>0, <1>w, <1>7 DEF Numbers, Shapes, Stop
<1>8. CASE Pick
  BY <1>w, <1>8 DEF Numbers, Pick, durable
<1>9. CASE DeleteOne
  BY <1>w, <1>9 DEF Numbers, DeleteOne
<1>10. CASE Unlink
  BY <1>w, <1>10 DEF Numbers, Unlink
<1>11. CASE FinishDeleted
  BY <1>w, <1>11 DEF Numbers, FinishDeleted
<1>12. CASE AfterDelete
  BY <1>w, <1>12 DEF Numbers, AfterDelete
<1>13. CASE Restore
  BY <1>0, <1>w, <1>13 DEF Numbers, Shapes, Restore
<1>14. CASE RestoreEnds
  BY <1>w, <1>14 DEF Numbers, RestoreEnds
<1>15. CASE Take
  BY <1>w, <1>15 DEF Numbers, Take, WorkerRest
<1>16. CASE Look
  BY <1>w, <1>16 DEF Numbers, Look
<1>17. CASE WritePart
  BY <1>w, <1>17 DEF Numbers, WritePart, WorkerRest
<1>18. CASE Publish
  BY <1>w, <1>18 DEF Numbers, Publish, WorkerRest
<1>19. CASE FinishFailed
  BY <1>w, <1>19 DEF Numbers, FinishFailed
<1>20. CASE Done
  BY <1>w, <1>20 DEF Numbers, Done
<1>21. CASE Refresh
  BY <1>w, <1>21 DEF Numbers, Refresh, WorkerRest
<1>22. CASE Leave
  BY <1>w, <1>22 DEF Numbers, Leave, durable
<1>23. CASE Crash
  BY <1>w, <1>23 DEF Numbers, Crash
<1>24. CASE CtrlC
  BY <1>w, <1>24 DEF Numbers, CtrlC
<1>25. CASE Operator
  BY <1>w, <1>25 DEF Numbers, Operator
<1>26. CASE \E op \in {"split", "restore"}, cleanup \in BOOLEAN : Launch(op, cleanup)
  BY <1>w, <1>26 DEF Numbers, Launch
<1>27. CASE UNCHANGED sidecarVars
  BY <1>w, <1>27 DEF Numbers, sidecarVars, durable
<1> QED
  BY <1>1, <1>2, <1>3, <1>4, <1>5, <1>6, <1>7, <1>8, <1>9, <1>10, <1>11, <1>12, <1>13, <1>14,
     <1>15, <1>16, <1>17, <1>18, <1>19, <1>20, <1>21, <1>22, <1>23, <1>24, <1>25, <1>26, <1>27
     DEF SidecarNext, LoopNext, WorkerNext

(* The invariant holds before the first run.                             *)
LEMMA WorkStarts == ASSUME SidecarInit PROVE WorkInv
BY DEF SidecarInit, NoWork, WorkInv, Agree, Stages, Channel, Sent, Numbers

(* In every reachable state the second invariant holds, for every value  *)
(* of the constants.                                                     *)
THEOREM WorkCorrect == SidecarSpec => []WorkInv
<1>1. SidecarInv /\ WorkInv /\ [SidecarNext]_sidecarVars => WorkInv'
  BY AgreeKept, StagesKept, ChannelKept, SentKept, NumbersKept DEF WorkInv
<1> QED
  BY <1>1, WorkStarts, SidecarCorrect, PTL DEF SidecarSpec

(* A split past its plan, whose worker met no fatal error.               *)
Going == /\ run.op = "split" /\ ~werr
         /\ pc \in {"visit", "submit", "send", "return", "stop", "ended"}

(* The split still owes this owner a visit, or its generator is at work  *)
(* for it: the catch-up is followed by the loop over the files not moved *)
(* yet.                                                                  *)
Waits(o) ==
  \/ o \in todo \/ queue = <<o>>
  \/ wpc \notin {"idle", "done"} /\ job = o
  \/ phase = "catchup" /\ tx[o].op # "split"

(* What CaughtUp promises of an owner: moved, and a sidecar or an issue. *)
Served(o) ==
  /\ tx[o].op = "split"
  /\ \/ o \in failed
     \/ family = "preview" /\ plan[o] # Nothing /\ Published(o, plan[o])
     \/ family = "text" /\ \E p \in Path : Published(o, p)

(* Every owner waits or is served; a job that ended was served.          *)
Reached ==
  /\ \A o \in AllOwners : Waits(o) \/ Served(o)
  /\ wpc = "refresh" => Served(job)
  /\ pc = "return" /\ wpc = "idle" => Served(Current)

(* The inductive form of CaughtUp.                                       *)
Serving == Going /\ ~touched => Reached

(* What LinksMatch promises of an owner.                                 *)
Listed(o) == o \notin indexed /\ plan[o] # Nothing => links[o] \in {Nothing, Recorded(disk, o)}

(* The inductive form of LinksMatch.                                     *)
Listing == Going /\ family = "preview" => \A o \in AllOwners : Waits(o) \/ Listed(o)

(* A split is under way only after it planned.                           *)
LEMMA GoingOn ==
  ASSUME SidecarInv, WorkInv, Going', [SidecarNext]_sidecarVars
  PROVE  Going \/ PlanPreviews
<1>0. Shapes /\ Roles /\ Making /\ Unlinking /\ Intents
  BY DEF SidecarInv
<1>1. CASE Prepare
  BY <1>1 DEF Going, Prepare
<1>2. CASE PlanPreviews
  BY <1>2 DEF PlanPreviews
<1>3. CASE Visit
  BY <1>0, <1>3 DEF Going, Shapes, Visit, workVars
<1>4. CASE Submit
  BY <1>4 DEF Going, Submit, durable, workVars
<1>5. CASE Send
  BY <1>5 DEF Going, Send, durable, workVars
<1>6. CASE Return
  BY <1>6 DEF Going, Return, durable, workVars
<1>7. CASE Stop
  BY <1>7 DEF Going, Stop, workVars
<1>8. CASE Pick
  BY <1>8 DEF Going, Pick
<1>9. CASE DeleteOne
  BY <1>0, <1>9 DEF Going, Roles, Restores, DeleteOne
<1>10. CASE Unlink
  BY <1>10 DEF Going, Unlink
<1>11. CASE FinishDeleted
  BY <1>0, <1>11 DEF Going, Roles, Restores, FinishDeleted
<1>12. CASE AfterDelete
  BY <1>12 DEF Going, AfterDelete
<1>13. CASE Restore
  BY <1>0, <1>13 DEF Going, Roles, Restores, Restore
<1>14. CASE RestoreEnds
  BY <1>14 DEF Going, RestoreEnds
<1>15. CASE Take
  BY <1>15 DEF Going, Take, workVars, WorkerRest, loopVars
<1>16. CASE Look
  BY <1>16 DEF Going, Look, Abandon, JobDone, loopVars
<1>17. CASE WritePart
  BY <1>17 DEF Going, WritePart, Abandon, WorkerRest, loopVars
<1>18. CASE Publish
  BY <1>18 DEF Going, Publish, Abandon, WorkerRest, loopVars
<1>19. CASE FinishFailed
  BY <1>19 DEF Going, FinishFailed, Abandon, JobDone, loopVars
<1>20. CASE Done
  BY <1>20 DEF Going, Done, Abandon, JobDone, loopVars
<1>21. CASE Refresh
  BY <1>21 DEF Going, Refresh, WorkerRest, loopVars
<1>22. CASE Leave
  BY <1>22 DEF Going, Leave
<1>23. CASE Crash
  BY <1>23 DEF Going, Crash
<1>24. CASE CtrlC
  BY <1>24 DEF Going, CtrlC, workVars
<1>25. CASE Operator
  BY <1>25 DEF Going, Operator, loopVars, workVars
<1>26. CASE \E op \in {"split", "restore"}, cleanup \in BOOLEAN : Launch(op, cleanup)
  BY <1>26 DEF Going, Launch
<1>27. CASE UNCHANGED sidecarVars
  BY <1>27 DEF Going, sidecarVars, durable, loopVars, workVars
<1> QED
  BY <1>1, <1>2, <1>3, <1>4, <1>5, <1>6, <1>7, <1>8, <1>9, <1>10, <1>11, <1>12, <1>13, <1>14,
     <1>15, <1>16, <1>17, <1>18, <1>19, <1>20, <1>21, <1>22, <1>23, <1>24, <1>25, <1>26, <1>27
     DEF SidecarNext, LoopNext, WorkerNext

(* The steps of a split under way.                                       *)
LEMMA GoingSteps ==
  ASSUME SidecarInv, Going, Going', [SidecarNext]_sidecarVars
  PROVE  Visit \/ Submit \/ Send \/ Return \/ Stop \/ WorkerNext \/ CtrlC \/ Operator
           \/ UNCHANGED sidecarVars
<1>0. Roles /\ run.op = "split" /\ pc \notin {"prepare", "plan", "down"} /\ pc' # "down"
  BY DEF SidecarInv, Going
<1>1. ~Prepare /\ ~PlanPreviews /\ ~Leave /\ ~Crash
  BY <1>0 DEF Prepare, PlanPreviews, Leave, Crash
<1>2. ~Pick /\ ~DeleteOne /\ ~Unlink /\ ~FinishDeleted /\ ~AfterDelete /\ ~Restore
  BY <1>0 DEF Roles, Restores, Pick, DeleteOne, Unlink, FinishDeleted, AfterDelete, Restore
<1>3. ~RestoreEnds /\ \A op, cleanup : ~Launch(op, cleanup)
  BY <1>0 DEF RestoreEnds, Launch
<1> QED
  BY <1>1, <1>2, <1>3 DEF SidecarNext, LoopNext

(* An owner stops waiting only when the loop took its text's outcome,    *)
(* when it had no name left, or when its description was refreshed.      *)
LEMMA StillWaits ==
  ASSUME SidecarInv, WorkInv, Going, Going', [SidecarNext]_sidecarVars
  PROVE  \A o \in AllOwners : Waits(o) =>
           \/ Waits(o)'
           \/ Return /\ wpc = "idle" /\ o = Current
           \/ Look /\ wpc' = "idle" /\ o = job /\ plan[o] = Nothing /\ failed' = failed \cup {o}
           \/ Refresh /\ o = job
<1>0. Shapes /\ Roles /\ Making /\ Unlinking /\ Intents
  BY DEF SidecarInv
<1>w. Agree /\ Stages /\ Channel /\ Sent /\ Numbers
  BY DEF WorkInv
<1>c. todo # {} => Current \in todo /\ Current \in AllOwners
  BY <1>0, CurrentKnown DEF Shapes
<1>1. CASE Visit
  BY <1>1 DEF Waits, Visit, Moved, workVars
<1>2. CASE Submit
  BY <1>w, <1>2 DEF Waits, Channel, Submit, durable, workVars
<1>3. CASE Send
  BY <1>3 DEF Waits, Send, Rest, durable, workVars
<1>4. CASE Return
  BY <1>4 DEF Waits, Return, Rest, durable
<1>5. CASE Stop
  BY <1>5 DEF Waits, Stop, workVars
<1>6. CASE Take
  BY <1>6 DEF Waits, Going, Take, WorkerRest, loopVars
<1>7. CASE Look
  <2>1. /\ wpc = "look" /\ UNCHANGED <<todo, queue, phase, tx, family, pc>> /\ ~werr'
    BY <1>7 DEF Look, loopVars, Going
  <2>2. \/ wpc' = "idle" /\ Target = Nothing /\ failed' = failed \cup {job}
        \/ wpc' = "idle" /\ family = "text"
        \/ wpc' \in {"refresh", "made", "begun"} /\ job' = job
    BY <1>7, <2>1, <1>w DEF Look, Idle, Abandon, JobDone, Issue, Stages
  <2>3. family = "text" => job \in todo
    BY <1>w, <1>0, <1>c, <2>1 DEF Channel, Roles
  <2>4. family # "text" => Target = plan[job]
    BY <1>w DEF Target, Stages
  <2> QED
    BY <1>7, <2>1, <2>2, <2>3, <2>4 DEF Waits
<1>8. CASE WritePart
  BY <1>8 DEF Waits, Going, WritePart, Abandon, WorkerRest, loopVars
<1>9. CASE Publish
  BY <1>9 DEF Waits, Going, Publish, Abandon, WorkerRest, loopVars
<1>10. CASE FinishFailed
  BY <1>0, <1>w, <1>c, <1>10 DEF Waits, Going, Stages, Channel, Roles, FinishFailed, Abandon,
     JobDone, loopVars
<1>11. CASE Done
  BY <1>0, <1>w, <1>c, <1>11 DEF Waits, Going, Stages, Channel, Roles, Done, Abandon, JobDone,
     loopVars
<1>12. CASE Refresh
  BY <1>12 DEF Waits, Refresh, WorkerRest, loopVars
<1>13. CASE CtrlC
  BY <1>13 DEF Waits, CtrlC, workVars
<1>14. CASE Operator
  BY <1>14 DEF Waits, Operator, loopVars, workVars
<1>15. CASE UNCHANGED sidecarVars
  BY <1>15 DEF Waits, sidecarVars, durable, loopVars, workVars
<1> QED
  BY <1>1, <1>2, <1>3, <1>4, <1>5, <1>6, <1>7, <1>8, <1>9, <1>10, <1>11, <1>12, <1>13, <1>14,
     <1>15, GoingSteps DEF WorkerNext

(* A step that keeps an owner's record, file and issue keeps it served.  *)
LEMMA ServedStays ==
  ASSUME WorkInv, NEW o \in AllOwners, Served(o), tx'[o].op = "split",
         family' = family, plan' = plan, failed \subseteq failed', idx'.owned[o] = idx.owned[o],
         \A p \in Path : file[p] # Nothing => file'[p] = file[p]
  PROVE  Served(o)'
BY DEF WorkInv, Channel, Served, Published, Present

(* A step that keeps an owner's record and links keeps it listed.        *)
LEMMA ListedStays ==
  ASSUME NEW o, Listed(o), plan' = plan, links'[o] = links[o], disk'.owned[o] = disk.owned[o],
         o \in indexed <=> o \in indexed'
  PROVE  Listed(o)'
BY DEF Listed, Recorded

(* What Served is about.                                                 *)
Sorted == <<family, plan, failed, file, idx, touched>>

(* A step that changes nothing of it and lets nobody stop waiting        *)
(* unserved.                                                             *)
LEMMA ReachedStays ==
  ASSUME SidecarInv, WorkInv, Serving, Going, Going', ~touched, UNCHANGED Sorted,
         \A o \in AllOwners : tx[o].op = "split" => tx'[o].op = "split",
         \A o \in AllOwners : Waits(o) => Waits(o)' \/ Served(o)',
         wpc' = "refresh" => wpc = "refresh" /\ job' = job,
         ~(pc' = "return" /\ wpc' = "idle")
  PROVE  Reached'
<1>1. \A o \in AllOwners : Served(o) => Served(o)'
  <2>1. SUFFICES ASSUME NEW o \in AllOwners, Served(o) PROVE Served(o)'
    OBVIOUS
  <2>2. tx'[o].op = "split"
    BY <2>1 DEF Served
  <2> QED
    BY <2>1, <2>2, ServedStays DEF Sorted
<1>2. wpc = "refresh" => job \in AllOwners
  BY DEF SidecarInv, Roles
<1>3. Reached
  BY DEF Serving
<1> QED
  BY <1>1, <1>2, <1>3 DEF Reached

(* Every step of a split serves whom it stops waiting for.               *)
LEMMA ServingKept ==
  ASSUME SidecarInv, WorkInv, Serving, [SidecarNext]_sidecarVars
  PROVE  Serving'
<1>0. Shapes /\ Roles /\ Making /\ Unlinking /\ Intents
  BY DEF SidecarInv
<1>w. Agree /\ Stages /\ Channel /\ Sent /\ Numbers
  BY DEF WorkInv
<1>c. todo # {} => Current \in todo /\ Current \in AllOwners
  BY <1>0, CurrentKnown DEF Shapes
<1>d. todo' = todo => Current' = Current
  BY DEF Current
<1>g. SUFFICES ASSUME Going', ~touched' PROVE Reached'
  BY DEF Serving
<1>s. Going /\ ~touched => Reached
  BY DEF Serving
<1>t. \A o : Served(o) => tx[o].op = "split"
  BY DEF Served
<1>i. IsIndex(disk) /\ IsIndex(idx)
  BY <1>0 DEF Shapes
<1>1. CASE PlanPreviews
  <2>1. /\ todo' = Moved /\ tx' = tx /\ phase' = "catchup" /\ pc' = "visit" /\ wpc' = wpc
        /\ wpc = "idle"
    BY <1>1, <1>w DEF PlanPreviews, durable, workVars, Stages
  <2> QED
    BY <2>1 DEF Reached, Waits, Moved
<1>2. CASE Visit
  <2>1. Going /\ ~touched
    BY <1>2, <1>g, GoingOn DEF Visit, PlanPreviews
  <2>2. UNCHANGED Sorted /\ \A o \in AllOwners : tx[o].op = "split" => tx'[o].op = "split"
    BY <1>2, <1>0 DEF Sorted, Shapes, Visit
  <2>3. \A o \in AllOwners : Waits(o) => Waits(o)' \/ Served(o)'
    <3>1. ~(wpc = "look" /\ wpc' = "idle") /\ ~(wpc = "refresh" /\ wpc' = "idle") /\ pc # "return"
      BY <1>2 DEF Visit, workVars
    <3> QED
      BY <1>g, <2>1, <3>1, StillWaits DEF Return, Look, Refresh, Idle
  <2>4. /\ wpc' = "refresh" => wpc = "refresh" /\ job' = job
        /\ ~(pc' = "return" /\ wpc' = "idle")
    BY <1>2 DEF Visit, Halt, workVars
  <2> QED
    BY <1>g, <2>1, <2>2, <2>3, <2>4, ReachedStays
<1>3. CASE Submit
  <2>1. Going /\ ~touched
    BY <1>3, <1>g, GoingOn DEF Submit, durable, PlanPreviews
  <2>2. UNCHANGED Sorted /\ \A o \in AllOwners : tx[o].op = "split" => tx'[o].op = "split"
    BY <1>3 DEF Sorted, Submit, durable
  <2>3. \A o \in AllOwners : Waits(o) => Waits(o)' \/ Served(o)'
    <3>1. ~(wpc = "look" /\ wpc' = "idle") /\ ~(wpc = "refresh" /\ wpc' = "idle") /\ pc # "return"
      BY <1>3 DEF Submit, workVars
    <3> QED
      BY <1>g, <2>1, <3>1, StillWaits DEF Return, Look, Refresh, Idle
  <2>4. /\ wpc' = "refresh" => wpc = "refresh" /\ job' = job
        /\ ~(pc' = "return" /\ wpc' = "idle")
    BY <1>3 DEF Submit, Halt, workVars
  <2> QED
    BY <1>g, <2>1, <2>2, <2>3, <2>4, ReachedStays
<1>4. CASE Send
  <2>1. Going /\ ~touched
    BY <1>4, <1>g, GoingOn DEF Send, durable, PlanPreviews
  <2>2. UNCHANGED Sorted /\ \A o \in AllOwners : tx[o].op = "split" => tx'[o].op = "split"
    BY <1>4 DEF Sorted, Send, durable
  <2>3. \A o \in AllOwners : Waits(o) => Waits(o)' \/ Served(o)'
    BY <1>4, <1>g, <2>1, StillWaits DEF Send, Return, Look, Refresh
  <2>4. /\ wpc' = "refresh" => wpc = "refresh" /\ job' = job
        /\ ~(pc' = "return" /\ wpc' = "idle")
    BY <1>4 DEF Send, workVars
  <2> QED
    BY <1>g, <2>1, <2>2, <2>3, <2>4, ReachedStays
<1>5. CASE Return
  <2>1. Going /\ ~touched /\ Reached
    BY <1>5, <1>g, <1>s, GoingOn DEF Return, durable, PlanPreviews
  <2>2. /\ pc = "return" /\ wpc = "idle" /\ wpc' = "idle" /\ pc' # "return"
        /\ UNCHANGED Sorted /\ tx' = tx /\ Served(Current)
    BY <1>5, <2>1 DEF Return, Halt, Sorted, durable, workVars, Reached
  <2>3. \A o \in AllOwners : Served(o) => Served(o)'
    BY <2>2, <1>t, ServedStays DEF Sorted
  <2>4. Current \in AllOwners
    BY <1>0, <1>c, <2>2 DEF Roles
  <2>5. \A o \in AllOwners : Waits(o) => Waits(o)' \/ Served(o)'
    BY <1>g, <2>1, <2>2, <2>3, StillWaits DEF Look, Refresh
  <2> QED
    BY <2>1, <2>2, <2>3, <2>5 DEF Reached
<1>6. CASE Stop
  <2>1. Going /\ ~touched
    BY <1>6, <1>g, GoingOn DEF Stop, PlanPreviews
  <2>2. UNCHANGED Sorted /\ \A o \in AllOwners : tx[o].op = "split" => tx'[o].op = "split"
    BY <1>6 DEF Sorted, Stop
  <2>3. \A o \in AllOwners : Waits(o) => Waits(o)' \/ Served(o)'
    <3>1. ~(wpc = "look" /\ wpc' = "idle") /\ ~(wpc = "refresh" /\ wpc' = "idle") /\ pc # "return"
      BY <1>6 DEF Stop, workVars
    <3> QED
      BY <1>g, <2>1, <3>1, StillWaits DEF Return, Look, Refresh, Idle
  <2>4. /\ wpc' = "refresh" => wpc = "refresh" /\ job' = job
        /\ ~(pc' = "return" /\ wpc' = "idle")
    BY <1>6 DEF Stop, workVars
  <2> QED
    BY <1>g, <2>1, <2>2, <2>3, <2>4, ReachedStays
<1>7. CASE Take
  <2>1. Going /\ ~touched
    BY <1>7, <1>g, GoingOn DEF Take, WorkerRest, loopVars, PlanPreviews
  <2>2. UNCHANGED Sorted /\ \A o \in AllOwners : tx[o].op = "split" => tx'[o].op = "split"
    BY <1>7 DEF Sorted, Take, WorkerRest, loopVars
  <2>3. \A o \in AllOwners : Waits(o) => Waits(o)' \/ Served(o)'
    <3>1. wpc = "idle" /\ pc # "return"
      BY <1>7, <1>w DEF Take, Stages
    <3> QED
      BY <1>g, <2>1, <3>1, StillWaits DEF Return, Look, Refresh
  <2>4. /\ wpc' = "refresh" => wpc = "refresh" /\ job' = job
        /\ ~(pc' = "return" /\ wpc' = "idle")
    BY <1>7, <2>1 DEF Going, Take
  <2> QED
    BY <1>g, <2>1, <2>2, <2>3, <2>4, ReachedStays
<1>8. CASE Look
  <2>1. Going /\ ~touched /\ Reached
    BY <1>8, <1>g, <1>s, GoingOn DEF Look, loopVars, PlanPreviews
  <2>a. wpc = "look" /\ job \in AllOwners /\ tx[job].op = "split"
    BY <1>8, <1>0, <1>w DEF Roles, Sent, Look
  <2>j. PICK j \in AllOwners : j = job
    BY <2>a
  <2>2. /\ UNCHANGED <<family, plan, file, idx, tx, pc, todo>> /\ ~werr'
        /\ failed \subseteq failed'
    BY <1>8, <1>g DEF Look, Issue, loopVars, Going
  <2>3. \A o \in AllOwners : Served(o) => Served(o)'
    BY <2>2, <1>t, ServedStays
  <2>4. \/ failed' = failed \cup {job}
        \/ Satisfied /\ (Target # Nothing \/ family = "text")
        \/ wpc' \in {"made", "begun"} /\ job' = job
    BY <1>8, <2>2 DEF Look, Issue, Abandon
  <2>5. wpc' \in {"made", "begun"} \/ Served(j)'
    <3>1. CASE failed' = failed \cup {job}
      BY <2>2, <2>a, <2>j, <3>1 DEF Served
    <3>2. CASE Satisfied /\ (Target # Nothing \/ family = "text")
      <4>1. Served(j)
        BY <1>w, <2>a, <2>j, <3>2 DEF Served, Satisfied, Target, Stages
      <4> QED
        BY <2>3, <4>1
    <3> QED
      BY <2>4, <3>1, <3>2
  <2>6. /\ wpc' \in {"made", "begun", "idle", "refresh"}
        /\ wpc' = "refresh" => job' = job
    BY <1>8 DEF Look, Idle, Abandon, JobDone
  <2>7. \A o \in AllOwners : Waits(o) => Waits(o)' \/ Served(o)'
    BY <1>g, <2>1, <2>a, <2>j, <2>5, StillWaits DEF Refresh
  <2>8. pc = "return" => job = Current
    BY <1>w, <2>a DEF Channel, Stages
  <2> QED
    BY <1>d, <2>1, <2>2, <2>3, <2>5, <2>6, <2>7, <2>8, <2>j DEF Reached
<1>9. CASE WritePart
  <2>1. Going /\ ~touched
    BY <1>9, <1>g, GoingOn DEF WritePart, WorkerRest, loopVars, PlanPreviews
  <2>2. UNCHANGED Sorted /\ \A o \in AllOwners : tx[o].op = "split" => tx'[o].op = "split"
    BY <1>9 DEF Sorted, WritePart, WorkerRest, loopVars
  <2>3. \A o \in AllOwners : Waits(o) => Waits(o)' \/ Served(o)'
    BY <1>9, <1>g, <2>1, StillWaits DEF WritePart, Look, Refresh
  <2>4. /\ wpc' = "refresh" => wpc = "refresh" /\ job' = job
        /\ ~(pc' = "return" /\ wpc' = "idle")
    BY <1>9, <1>g DEF Going, WritePart, Abandon
  <2> QED
    BY <1>g, <2>1, <2>2, <2>3, <2>4, ReachedStays
<1>10. CASE Publish
  <2>1. Going /\ ~touched /\ Reached
    BY <1>10, <1>g, <1>s, GoingOn DEF Publish, WorkerRest, loopVars, PlanPreviews
  <2>a. job \in AllOwners /\ tx[job].op = "split"
    BY <1>10, <1>0, <1>w DEF Roles, Sent, Publish
  <2>2. /\ wpc = "making" /\ wpc' \in {"made", "failing"} /\ job' = job
        /\ UNCHANGED <<family, plan, failed, idx, tx, pc>>
        /\ \A p \in Path : file[p] # Nothing => file'[p] = file[p]
    BY <1>10, <1>g, <1>0 DEF Publish, Renamed, Abandon, Present, WorkerRest, loopVars, Shapes,
       Going
  <2>3. \A o \in AllOwners : Served(o) => Served(o)'
    BY <2>2, <1>t, ServedStays
  <2>5. \A o \in AllOwners : Waits(o) => Waits(o)'
    BY <1>g, <2>1, <2>2, StillWaits DEF Refresh
  <2> QED
    BY <2>1, <2>2, <2>3, <2>5 DEF Reached
<1>11. CASE FinishFailed
  <2>1. Going /\ ~touched /\ Reached
    BY <1>11, <1>g, <1>s, GoingOn DEF FinishFailed, loopVars, PlanPreviews
  <2>a. job \in AllOwners /\ tx[job].op = "split"
    BY <1>11, <1>0, <1>w DEF Roles, Sent, FinishFailed
  <2>2. /\ wpc = "failing" /\ failed' = failed \cup {job}
        /\ \/ wpc' = "refresh" /\ job' = job /\ family = "preview"
           \/ wpc' = "idle" /\ family = "text"
        /\ UNCHANGED <<family, plan, file, idx, tx, pc, todo>>
    BY <1>11, <1>g, <1>w DEF FinishFailed, Idle, JobDone, Abandon, Issue, loopVars, Going,
       Stages
  <2>3. \A o \in AllOwners : Served(o) => Served(o)'
    BY <2>2, <1>t, ServedStays
  <2>j. PICK j \in AllOwners : j = job
    BY <2>a
  <2>4. Served(j)'
    BY <2>2, <2>a, <2>j DEF Served
  <2>5. \A o \in AllOwners : Waits(o) => Waits(o)' \/ Served(o)'
    BY <1>g, <2>1, <2>2, StillWaits DEF Look, Refresh
  <2>6. family = "text" => job = Current
    BY <1>w, <2>2 DEF Channel
  <2> QED
    BY <1>d, <2>1, <2>2, <2>3, <2>4, <2>5, <2>6, <2>j DEF Reached
<1>12. CASE Done
  <2>1. Going /\ ~touched /\ Reached
    BY <1>12, <1>g, <1>s, GoingOn DEF Done, loopVars, PlanPreviews
  <2>a. wpc = "made" /\ job \in AllOwners /\ tx[job].op = "split"
    BY <1>12, <1>0, <1>w DEF Roles, Sent, Done
  <2>j. PICK j \in AllOwners : j = job
    BY <2>a
  <2>n. PICK n : n = file[wpath].size
    OBVIOUS
  <2>p. PICK p \in Path : p = wpath
    BY <1>w, <2>a DEF Channel
  <2>2. /\ UNCHANGED <<family, plan, file, failed, tx, pc, todo>> /\ ~werr'
        /\ file[p] # Nothing /\ idx' = Remember(idx, j, p, n)
        /\ \/ family = "preview" /\ wpc' = "refresh" /\ job' = job
           \/ wpc' = "idle"
    BY <1>12, <1>g, <2>j, <2>n, <2>p DEF Done, Present, JobDone, Idle, Abandon, loopVars, Going
  <2>3. /\ idx.owned \in Sizes /\ n \in 1..3 /\ file'[p].size = n /\ p # Nothing
    BY <1>0, <2>2, <2>n, <2>p, SidecarAssumption DEF IsIndex, Shapes, File
  <2>4. idx'.owned = Sized(idx.owned, j, p, n)
    BY <2>2, <1>i, OwnedKept
  <2>5. idx'.owned[j][p] = n /\ \A o \in AllOwners : o # j => idx'.owned[o] = idx.owned[o]
    BY <2>3, <2>4 DEF Sized, Sizes
  <2>6. Published(j, p)'
    BY <2>2, <2>3, <2>5 DEF Published, Present
  <2>7. family = "preview" => p = plan[j]
    BY <1>w, <2>a, <2>j, <2>p DEF Channel
  <2>8. Served(j)'
    BY <1>w, <2>2, <2>3, <2>6, <2>7, <2>a, <2>j DEF Served, Stages
  <2>9. \A o \in AllOwners : Served(o) => Served(o)'
    <3>1. SUFFICES ASSUME NEW o \in AllOwners, Served(o), o # j PROVE Served(o)'
      BY <2>8
    <3>2. idx'.owned[o] = idx.owned[o] /\ tx'[o].op = "split"
      BY <1>t, <2>2, <2>5, <3>1
    <3> QED
      BY <2>2, <3>1, <3>2, ServedStays
  <2>10. \A o \in AllOwners : Waits(o) => Waits(o)' \/ Served(o)'
    BY <1>g, <2>1, <2>a, StillWaits DEF Look, Refresh
  <2>11. pc = "return" => job = Current
    BY <1>w, <2>a DEF Channel, Stages
  <2> QED
    BY <1>d, <2>1, <2>2, <2>8, <2>9, <2>10, <2>11, <2>j DEF Reached
<1>13. CASE Refresh
  <2>1. Going /\ ~touched /\ Reached
    BY <1>13, <1>g, <1>s, GoingOn DEF Refresh, WorkerRest, loopVars, PlanPreviews
  <2>2. /\ wpc = "refresh" /\ wpc' = "idle" /\ pc' = pc /\ UNCHANGED Sorted /\ tx' = tx
        /\ Served(job) /\ family = "preview"
    BY <1>13, <2>1, <1>w DEF Refresh, Idle, Sorted, WorkerRest, loopVars, Reached, Channel,
       Stages
  <2>3. \A o \in AllOwners : Served(o) => Served(o)'
    BY <2>2, <1>t, ServedStays DEF Sorted
  <2>5. \A o \in AllOwners : Waits(o) => Waits(o)' \/ Served(o)'
    BY <1>g, <2>1, <2>2, <2>3, StillWaits
  <2>6. pc' # "return"
    BY <1>w, <2>2 DEF Stages
  <2> QED
    BY <2>1, <2>2, <2>3, <2>5, <2>6 DEF Reached
<1>14. CASE CtrlC
  <2>1. UNCHANGED <<run, werr, pc, touched, family, plan, failed, file, idx, tx, todo, queue, wpc, job, phase>>
    BY <1>14 DEF CtrlC, workVars
  <2>2. Reached /\ Current' = Current
    BY <1>g, <1>s, <2>1 DEF Going, Current
  <2> QED
    BY <2>1, <2>2 DEF Reached, Waits, Served, Published, Present
<1>15. CASE Operator
  BY <1>g, <1>15 DEF Operator
<1>16. CASE UNCHANGED sidecarVars
  <2>1. UNCHANGED <<run, werr, pc, touched, family, plan, failed, file, idx, tx, todo, queue, wpc, job, phase>>
    BY <1>16 DEF sidecarVars, durable, loopVars, workVars
  <2>2. Reached /\ Current' = Current
    BY <1>g, <1>s, <2>1 DEF Going, Current
  <2> QED
    BY <2>1, <2>2 DEF Reached, Waits, Served, Published, Present
<1> QED
  BY <1>g, <1>1, <1>2, <1>3, <1>4, <1>5, <1>6, <1>7, <1>8, <1>9, <1>10, <1>11, <1>12, <1>13,
     <1>14, <1>15, <1>16, GoingOn, GoingSteps DEF WorkerNext

(* No step of a split touches the record, the links or the description   *)
(* of an owner that does not wait.                                       *)
LEMMA Undisturbed ==
  ASSUME SidecarInv, WorkInv, Going, Going', [SidecarNext]_sidecarVars,
         NEW o \in AllOwners, ~Waits(o)
  PROVE  /\ family' = family /\ plan' = plan
         /\ links'[o] = links[o] /\ disk'.owned[o] = disk.owned[o]
         /\ o \in indexed <=> o \in indexed'
<1>0. Shapes /\ Roles
  BY DEF SidecarInv
<1>i. IsIndex(disk) /\ disk.owned \in Sizes /\ idx.owned \in Sizes
  BY <1>0 DEF Shapes, IsIndex
<1>w. Stages /\ Channel
  BY DEF WorkInv
<1>1. CASE Visit
  <2>1. todo # {} => Current # o
    BY <1>0, CurrentKnown DEF Waits
  <2> QED
    BY <1>w, <1>1, <2>1 DEF Visit, Placed, Channel, workVars
<1>2. CASE Submit
  BY <1>2 DEF Submit, durable
<1>3. CASE Send
  BY <1>3 DEF Send, durable
<1>4. CASE Return
  BY <1>4 DEF Return, durable
<1>5. CASE Stop
  BY <1>5 DEF Stop
<1>6. CASE Take
  BY <1>6 DEF Take, WorkerRest, loopVars
<1>7. CASE WritePart
  BY <1>7 DEF WritePart, WorkerRest, loopVars
<1>8. CASE Publish
  BY <1>8 DEF Publish, WorkerRest, loopVars
<1>9. CASE CtrlC
  BY <1>9 DEF CtrlC
<1>10. CASE Operator
  BY <1>10 DEF Operator, loopVars
<1>11. CASE Look
  <2>1. UNCHANGED <<family, plan, links, indexed>> /\ \E x, p : disk' \in {disk, Begun(disk, x, p)}
    BY <1>11 DEF Look, loopVars
  <2> QED
    BY <1>i, <2>1, OwnedKept
<1>12. CASE FinishFailed
  <2>1. UNCHANGED <<family, plan, links, indexed>> /\ disk' \in {disk, Failing(disk, job, wpath)}
    BY <1>12 DEF FinishFailed, loopVars
  <2> QED
    BY <1>i, <2>1, OwnedKept
<1>13. CASE Done
  <2>1. /\ UNCHANGED <<family, plan, links, indexed>> /\ wpc = "made"
        /\ disk' \in {disk, Remember(disk, job, wpath, file[wpath].size)}
    BY <1>13 DEF Done, loopVars
  <2>2. job # o
    BY <2>1 DEF Waits
  <2>3. Sized(disk.owned, job, wpath, file[wpath].size)[o] = disk.owned[o]
    BY <2>2 DEF Sized
  <2>4. Remember(disk, job, wpath, file[wpath].size).owned
          = Sized(disk.owned, job, wpath, file[wpath].size)
    BY <1>i, OwnedKept
  <2> QED
    BY <2>1, <2>3, <2>4
<1>14. CASE Refresh
  <2>1. wpc = "refresh" /\ UNCHANGED <<family, plan, disk, indexed>> /\ links' = Refreshed(idx, job)
    BY <1>14 DEF Refresh, WorkerRest, loopVars
  <2>2. job # o
    BY <2>1 DEF Waits
  <2> QED
    BY <1>w, <2>1, <2>2 DEF Refreshed, Channel
<1>15. CASE UNCHANGED sidecarVars
  BY <1>15 DEF sidecarVars, durable, loopVars
<1> QED
  BY <1>1, <1>2, <1>3, <1>4, <1>5, <1>6, <1>7, <1>8, <1>9, <1>10, <1>11, <1>12, <1>13, <1>14,
     <1>15, GoingSteps DEF WorkerNext

(* Every step of a split lists the records of whom it stops waiting for. *)
LEMMA ListingKept ==
  ASSUME SidecarInv, WorkInv, Listing, [SidecarNext]_sidecarVars
  PROVE  Listing'
<1>w. Agree /\ Stages /\ Channel
  BY DEF WorkInv
<1>g. SUFFICES ASSUME Going', family' = "preview", NEW o \in AllOwners, ~Waits(o)'
               PROVE  Listed(o)'
  BY DEF Listing
<1>1. CASE PlanPreviews
  <2>1. todo' = Moved /\ tx' = tx /\ phase' = "catchup"
    BY <1>1 DEF PlanPreviews, durable
  <2> QED
    BY <1>g, <2>1 DEF Waits, Moved
<1>2. CASE ~PlanPreviews
  <2>1. Going
    BY <1>g, <1>2, GoingOn
  <2>2. CASE ~Waits(o)
    <3>1. /\ family' = family /\ plan' = plan
          /\ links'[o] = links[o] /\ disk'.owned[o] = disk.owned[o]
          /\ o \in indexed <=> o \in indexed'
      BY <1>g, <2>1, <2>2, Undisturbed
    <3> QED
      BY <1>g, <2>1, <2>2, <3>1, ListedStays DEF Listing
  <2>3. CASE Return /\ wpc = "idle" /\ o = Current
    BY <1>w, <1>g, <2>3 DEF Return, durable, Stages
  <2>4. CASE Look /\ wpc' = "idle" /\ o = job /\ plan[o] = Nothing
    BY <2>4 DEF Look, loopVars, Listed
  <2>5. CASE Refresh /\ o = job
    <3>1. links' = Refreshed(idx, o) /\ UNCHANGED <<plan, disk, indexed>> /\ pc # "down"
      BY <2>1, <2>5 DEF Refresh, WorkerRest, loopVars, Going
    <3>2. Recorded(idx, o) = Recorded(disk, o)
      BY <1>w, <3>1 DEF Agree, Recorded
    <3>3. Recorded(disk, o)' = Recorded(disk, o)
      BY <3>1
    <3>4. o \notin indexed => links'[o] \in {Nothing, Recorded(disk, o)}
      BY <1>w, <3>1, <3>2 DEF Refreshed, Channel
    <3> QED
      BY <3>1, <3>3, <3>4 DEF Listed
  <2> QED
    BY <1>g, <2>1, <2>2, <2>3, <2>4, <2>5, StillWaits
<1> QED
  BY <1>1, <1>2

(* A recorded sidecar that is still there unchanged.                     *)
Left(o, p) ==
  /\ idx.owned[o][p] > 0 /\ Present(p) /\ file[p].size = idx.owned[o][p]
  /\ family = "text" => file[p].by = o

(* None is left of this owner.                                           *)
Clean(o) == \A p \in Path : ~Left(o, p)

(* The cleanup of this owner is still to come: in the phase of           *)
(* unfinished deletions all are, then the owners of this run and of      *)
(* earlier runs, then the one just restored.                             *)
ToClean(o) ==
  \/ phase = "unfinished"
  \/ phase = "own" /\ (o \in todo \/ tx[o].run # run.id)
  \/ phase = "earlier" /\ o \in todo
  \/ phase = "loop" /\ pc # "restore" /\ o = Current

(* The inductive form of CleanedUp: of a restored owner nothing is left, *)
(* or its cleanup is to come; of the owner at hand only what is pending  *)
(* is left.                                                              *)
Cleanup ==
  run.op = "restore" /\ run.cleanup =>
    /\ pc \in Restores => \A o \in AllOwners : Restored(o) => Clean(o) \/ ToClean(o)
    /\ pc \in {"delete", "unlink", "deleted"} /\ phase # "unfinished" =>
         \A p \in Path : Left(Current, p) => p \in pending
    /\ pc \in {"stop", "ended"} /\ err = "none" => \A o \in AllOwners : Restored(o) => Clean(o)

(* The steps of a restore.                                               *)
RestoreStep ==
  Prepare \/ Pick \/ DeleteOne \/ Unlink \/ FinishDeleted \/ AfterDelete \/ Restore \/ RestoreEnds
    \/ CtrlC \/ UNCHANGED sidecarVars

(* No other step is taken while one runs.                                *)
LEMMA RestoreSteps ==
  ASSUME SidecarInv, run'.op = "restore", pc' \notin {"down", "prepare"}, [SidecarNext]_sidecarVars
  PROVE  RestoreStep /\ run.op = "restore" /\ run'.id = run.id /\ run'.cleanup = run.cleanup
<1>0. Shapes /\ Roles
  BY DEF SidecarInv
<1>1. CASE RestoreStep
  BY <1>0, <1>1 DEF RestoreStep, Shapes, Prepare, Pick, DeleteOne, Unlink, FinishDeleted,
     AfterDelete, Restore, RestoreEnds, CtrlC, sidecarVars, durable
<1>2. ~PlanPreviews /\ ~Submit /\ ~Send /\ ~Return
  BY <1>0 DEF Roles, Splits, PlanPreviews, Submit, Send, Return, durable
<1>3. ~Visit
  BY <1>0 DEF Roles, Splits, Visit, Shapes
<1>4. ~Stop
  BY <1>0 DEF Stop, Shapes
<1>5. ~Take
  BY <1>0 DEF Roles, Take, WorkerRest
<1>6. ~Look /\ ~FinishFailed /\ ~Done
  BY <1>0 DEF Roles, Look, FinishFailed, Done
<1>7. ~WritePart /\ ~Publish /\ ~Refresh
  BY <1>0 DEF Roles, WritePart, Publish, Refresh, WorkerRest
<1>8. ~Leave /\ ~Crash /\ \A op, cleanup : ~Launch(op, cleanup)
  BY DEF Leave, Crash, Launch
<1>9. ~Operator
  BY <1>0 DEF Operator, Roles, Splits, loopVars
<1> QED
  BY <1>1, <1>2, <1>3, <1>4, <1>5, <1>6, <1>7, <1>8, <1>9 DEF RestoreStep, SidecarNext,
     LoopNext, WorkerNext

(* A restore leaves nothing that was not there.                          *)
LEMMA LeftLess ==
  ASSUME SidecarInv, RestoreStep
  PROVE  \A o \in AllOwners, p \in Path : Left(o, p)' => Left(o, p)
<1>1. Shapes /\ Roles /\ Unlinking
  BY DEF SidecarInv
<1>2. IsIndex(idx) /\ idx.owned \in Sizes
  BY <1>1 DEF Shapes, IsIndex
<1>3. CASE UNCHANGED <<idx, file, family>>
  BY <1>3 DEF Left, Present
<1>4. CASE Unlink
  <2>1. /\ idx' = idx /\ family' = family
        /\ \A p \in Path : file'[p] \in {file[p], Nothing}
    BY <1>4 DEF Unlink, RestoreRest
  <2> QED
    BY <2>1 DEF Left, Present
<1>5. CASE FinishDeleted
  <2>1. /\ file' = file /\ family' = family
        /\ idx' = idx \/ idx'.owned = Sized(idx.owned, Current, wpath, 0)
    BY <1>2, <1>5, OwnedKept DEF FinishDeleted
  <2>2. \A o \in AllOwners, p \in Path : idx'.owned[o][p] \in {idx.owned[o][p], 0}
    BY <1>2, <2>1 DEF Sized, Sizes
  <2> QED
    BY <2>1, <2>2 DEF Left, Present
<1>6. CASE Prepare \/ Pick \/ DeleteOne \/ AfterDelete \/ Restore \/ RestoreEnds \/ CtrlC
  BY <1>3, <1>6 DEF Prepare, Pick, DeleteOne, AfterDelete, Restore, RestoreEnds, CtrlC,
     RestoreRest, durable
<1>7. CASE UNCHANGED sidecarVars
  BY <1>3, <1>7 DEF sidecarVars, durable
<1> QED
  BY <1>4, <1>5, <1>6, <1>7 DEF RestoreStep

(* Every step of a restore keeps the promise.                            *)
LEMMA CleanupKept ==
  ASSUME SidecarInv, WorkInv, Cleanup, [SidecarNext]_sidecarVars
  PROVE  Cleanup'
<1>0. Shapes /\ Roles /\ Unlinking /\ Intents
  BY DEF SidecarInv
<1>w. Agree /\ Numbers
  BY DEF WorkInv
<1>c. todo # {} => Current \in todo /\ Current \in AllOwners
  BY <1>0, CurrentKnown DEF Shapes
<1>d. todo' = todo => Current' = Current
  BY DEF Current
<1>g. SUFFICES ASSUME run'.op = "restore", run'.cleanup, pc' \notin {"down", "prepare"}
               PROVE  Cleanup'
  BY DEF Cleanup, Restores
<1>r. RestoreStep /\ run.op = "restore" /\ run'.id = run.id /\ run.cleanup
  BY <1>g, RestoreSteps
<1>k. /\ pc \in Restores => \A o \in AllOwners : Restored(o) => Clean(o) \/ ToClean(o)
      /\ pc \in {"delete", "unlink", "deleted"} /\ phase # "unfinished" =>
           \A p \in Path : Left(Current, p) => p \in pending
      /\ pc \in {"stop", "ended"} /\ err = "none" => \A o \in AllOwners : Restored(o) => Clean(o)
  BY <1>r DEF Cleanup
<1>l. \A o \in AllOwners, p \in Path : Left(o, p)' => Left(o, p)
  BY <1>r, LeftLess
<1>n. \A o \in AllOwners : Clean(o) => Clean(o)'
  BY <1>l DEF Clean
<1>1. CASE Prepare
  <2>1. pc' = "pick" /\ phase' = "unfinished"
    BY <1>1, <1>r DEF Prepare
  <2> QED
    BY <2>1 DEF Cleanup, ToClean
<1>2. CASE Pick
  <2>1. pc = "pick" /\ UNCHANGED <<tx, run, idx, file, family, disk>>
    BY <1>2 DEF Pick, durable
  <2>2. CASE todo = {} /\ phase # "loop" /\ phase' = NextPhase[1] /\ todo' = NextPhase[2]
             /\ pc' = IF phase' = "loop" THEN "restore" ELSE "pick"
    <3>1. CASE phase = "unfinished"
      <4>1. phase' = "own" /\ todo' = run.committed /\ pc' = "pick"
        BY <1>r, <2>2, <3>1 DEF NextPhase
      <4>2. \A o \in AllOwners : Restored(o)' => ToClean(o)'
        BY <1>w, <2>1, <4>1 DEF Numbers, Restored, ToClean
      <4> QED
        BY <4>1, <4>2 DEF Cleanup
    <3>2. CASE phase = "own"
      <4>1. phase' = "earlier" /\ todo' = EarlierRestored /\ pc' = "pick"
        BY <2>2, <3>2 DEF NextPhase
      <4>2. \A o \in AllOwners : Restored(o)' => Clean(o)' \/ ToClean(o)'
        <5>1. SUFFICES ASSUME NEW o \in AllOwners, Restored(o), ~Clean(o) PROVE ToClean(o)'
          BY <1>n, <2>1 DEF Restored
        <5>2. tx[o].run # run.id
          BY <1>k, <2>1, <2>2, <3>2, <5>1 DEF ToClean, Restores
        <5>3. Recorded(idx, o) # {}
          BY <5>1 DEF Clean, Left, Recorded
        <5> QED
          BY <4>1, <5>1, <5>2, <5>3 DEF EarlierRestored, Restored, ToClean
      <4> QED
        BY <4>1, <4>2 DEF Cleanup
    <3>3. CASE phase = "earlier"
      <4>1. phase' = "loop" /\ pc' = "restore"
        BY <2>2, <3>3 DEF NextPhase
      <4>2. \A o \in AllOwners : Restored(o)' => Clean(o)'
        BY <1>k, <1>n, <2>1, <2>2, <3>3 DEF ToClean, Restores, Restored
      <4> QED
        BY <4>1, <4>2 DEF Cleanup
    <3> QED
      BY <1>0, <2>1, <2>2, <3>1, <3>2, <3>3 DEF Intents, Restores
  <2>3. CASE todo # {} /\ pc' = "delete" /\ UNCHANGED <<phase, todo>>
             /\ pending' = IF phase = "unfinished"
                           THEN {p \in Path : idx.deleting[Current][p] > 0}
                           ELSE Recorded(idx, Current)
    <3>1. \A o \in AllOwners : Restored(o)' => Clean(o)' \/ ToClean(o)'
      BY <1>d, <1>k, <1>n, <2>1, <2>3 DEF ToClean, Restores, Restored
    <3>2. phase' # "unfinished" => \A p \in Path : Left(Current, p)' => p \in pending'
      BY <1>d, <2>1, <2>3 DEF Left, Recorded
    <3>3. Current' = Current
      BY <1>d, <2>3
    <3> QED
      BY <2>3, <3>1, <3>2, <3>3 DEF Cleanup
  <2> QED
    BY <1>2, <2>2, <2>3 DEF Pick
<1>3. CASE DeleteOne
  <2>1. /\ pc = "delete" /\ UNCHANGED <<tx, run, idx, file, family, phase, todo>>
        /\ \/ pc' \in {"delete", "unlink", "deleted"}
           \/ pc' = "stop" /\ err' = "fatal"
        /\ \/ pending' = pending
           \/ \E p \in pending : pending' = pending \ {p} /\ Present(p) /\ ~Deletable(Current, p)
    BY <1>3 DEF DeleteOne, Halt
  <2>2. \A o \in AllOwners : Restored(o)' /\ pc' # "stop" => Clean(o)' \/ ToClean(o)'
    BY <1>d, <1>k, <1>n, <2>1 DEF ToClean, Restores, Restored
  <2>3. \A p : Left(Current, p) => Deletable(Current, p)
    BY DEF Left, Deletable
  <2>4. phase' # "unfinished" => \A p \in Path : Left(Current, p) => p \in pending'
    BY <1>k, <2>1, <2>3
  <2>5. Current' = Current /\ Current \in AllOwners
    BY <1>c, <1>d, <1>0, <2>1 DEF Roles
  <2>6. phase' # "unfinished" => \A p \in Path : Left(Current, p)' => p \in pending'
    BY <1>l, <2>4, <2>5
  <2>7. CASE pc' = "stop" /\ err' = "fatal"
    BY <2>7 DEF Cleanup, Restores
  <2>8. CASE pc' \in {"delete", "unlink", "deleted"}
    BY <2>2, <2>6, <2>8 DEF Cleanup
  <2> QED
    BY <2>1, <2>7, <2>8
<1>4. CASE Unlink
  <2>1. pc = "unlink" /\ pc' = "deleted" /\ UNCHANGED <<tx, run, phase, todo, pending>>
    BY <1>4 DEF Unlink
  <2>2. \A o \in AllOwners : Restored(o)' => Clean(o)' \/ ToClean(o)'
    BY <1>d, <1>k, <1>n, <2>1 DEF ToClean, Restores, Restored
  <2>3. Current' = Current /\ Current \in AllOwners
    BY <1>c, <1>d, <1>0, <2>1 DEF Roles
  <2>4. phase' # "unfinished" => \A p \in Path : Left(Current, p)' => p \in pending'
    BY <1>k, <1>l, <2>1, <2>3
  <2> QED
    BY <2>1, <2>2, <2>3, <2>4 DEF Cleanup
<1>5. CASE FinishDeleted
  <2>1. /\ pc = "deleted" /\ UNCHANGED <<tx, run, phase, todo, file, family>>
        /\ \/ /\ idx' = Deleted(idx, Current, wpath) /\ pc' = "delete"
              /\ pending' = pending \ {wpath}
           \/ pc' = "stop" /\ err' = "fatal"
    BY <1>5 DEF FinishDeleted, Halt
  <2>2. CASE pc' = "stop" /\ err' = "fatal"
    BY <2>2 DEF Cleanup, Restores
  <2>3. CASE /\ idx' = Deleted(idx, Current, wpath) /\ pc' = "delete"
             /\ pending' = pending \ {wpath}
    <3>1. \A o \in AllOwners : Restored(o)' => Clean(o)' \/ ToClean(o)'
      BY <1>d, <1>k, <1>n, <2>1 DEF ToClean, Restores, Restored
    <3>2. Current' = Current /\ Current \in AllOwners
      BY <1>c, <1>d, <1>0, <2>1 DEF Roles
    <3>3. IsIndex(idx) /\ idx.owned \in Sizes /\ wpath \in Path
      BY <1>0, <2>1 DEF Shapes, IsIndex, Unlinking
    <3>4. idx'.owned = Sized(idx.owned, Current, wpath, 0)
      BY <2>3, <3>3, OwnedKept
    <3>5. idx'.owned[Current][wpath] = 0
      BY <3>2, <3>3, <3>4 DEF Sized, Sizes
    <3>c. PICK c \in AllOwners : c = Current
      BY <3>2
    <3>w. PICK w \in Path : w = wpath
      BY <3>3
    <3>6. ~Left(c, w)'
      <4>1. ~(idx'.owned[c][w] > 0)
        BY <3>5, <3>c, <3>w
      <4> QED
        BY <4>1 DEF Left
    <3>7. phase' # "unfinished" => \A p \in Path : Left(Current, p)' => p \in pending'
      BY <1>k, <1>l, <2>1, <2>3, <3>2, <3>6, <3>c, <3>w
    <3> QED
      BY <2>3, <3>1, <3>2, <3>7 DEF Cleanup
  <2> QED
    BY <2>1, <2>2, <2>3
<1>6. CASE AfterDelete
  <2>1. /\ pc = "delete" /\ pending = {} /\ UNCHANGED <<tx, run, phase>> /\ todo' = todo \ {Current}
        /\ pc' = IF phase = "loop" THEN "restore" ELSE "pick"
    BY <1>6 DEF AfterDelete, Rest
  <2>2. Current \in AllOwners
    BY <1>c, <1>0, <2>1 DEF Roles
  <2>3. phase # "unfinished" => Clean(Current)
    BY <1>k, <2>1 DEF Clean
  <2>4. \A o \in AllOwners : Restored(o)' => Clean(o)' \/ ToClean(o)'
    <3>1. SUFFICES ASSUME NEW o \in AllOwners, Restored(o), ~Clean(o), phase # "unfinished"
                   PROVE  ToClean(o)'
      BY <1>n, <2>1 DEF Restored, ToClean
    <3>2. ToClean(o) /\ o # Current
      BY <1>k, <2>1, <2>3, <3>1 DEF Restores
    <3> QED
      BY <2>1, <3>1, <3>2 DEF ToClean
  <2> QED
    BY <2>1, <2>4 DEF Cleanup
<1>7. CASE Restore
  <2>1. pc = "restore" /\ phase = "loop" /\ phase' = phase
    BY <1>7, <1>0 DEF Intents, Restore
  <2>2. \A o \in AllOwners : Restored(o) => Clean(o)
    BY <1>k, <2>1 DEF ToClean, Restores
  <2>3. CASE tx' = tx /\ pc' = "stop"
    BY <1>n, <2>2, <2>3 DEF Cleanup, Restored
  <2>4. CASE /\ pc' = "pick" /\ todo' = todo /\ todo # {}
             /\ tx' = [tx EXCEPT ![Current] =
                          [op |-> "restore", run |-> run.id, cleanup |-> run.cleanup]]
    <3>1. \A o \in AllOwners : Restored(o)' => Clean(o)' \/ ToClean(o)'
      BY <1>d, <1>n, <2>1, <2>2, <2>4 DEF Restored, ToClean
    <3> QED
      BY <2>4, <3>1 DEF Cleanup
  <2> QED
    BY <1>7, <1>r, <2>3, <2>4 DEF Restore, Halt
<1>8. CASE RestoreEnds
  <2>1. pc = "stop" /\ pc' = "ended" /\ UNCHANGED <<tx, err>>
    BY <1>8 DEF RestoreEnds
  <2> QED
    BY <1>k, <1>n, <2>1 DEF Cleanup, Restored, Restores
<1>9. CASE CtrlC \/ UNCHANGED sidecarVars
  <2>1. UNCHANGED <<tx, run, idx, file, family, disk, pc, phase, todo, pending, err>>
    BY <1>9 DEF CtrlC, sidecarVars, durable, loopVars
  <2>2. Current' = Current
    BY <1>d, <2>1
  <2>3. \A o \in AllOwners : Restored(o)' = Restored(o) /\ ToClean(o)' = ToClean(o)
    BY <2>1, <2>2 DEF Restored, ToClean
  <2>4. \A o, p : Left(o, p)' = Left(o, p)
    BY <2>1 DEF Left, Present
  <2> QED
    BY <1>k, <1>n, <2>1, <2>2, <2>3, <2>4 DEF Cleanup
<1> QED
  BY <1>1, <1>2, <1>3, <1>4, <1>5, <1>6, <1>7, <1>8, <1>9, <1>r DEF RestoreStep

(* The inductive invariant of the three promises.                        *)
PromiseInv == SidecarInv /\ WorkInv /\ Serving /\ Listing /\ Cleanup

(* In every reachable state it holds, for every value of the constants.  *)
THEOREM PromisesCorrect == SidecarSpec => []PromiseInv
<1>1. SidecarInit => Serving /\ Listing /\ Cleanup
  BY DEF SidecarInit, Serving, Listing, Cleanup, Going
<1>2. PromiseInv /\ [SidecarNext]_sidecarVars => (Serving /\ Listing /\ Cleanup)'
  BY ServingKept, ListingKept, CleanupKept DEF PromiseInv
<1>3. SidecarSpec => []SidecarInv
  BY SidecarCorrect
<1>4. SidecarSpec => []WorkInv
  BY WorkCorrect
<1> QED
  BY <1>1, <1>2, <1>3, <1>4, PTL DEF SidecarSpec, PromiseInv

(* When a split ended without error nobody waits.                        *)
LEMMA NothingWaits ==
  ASSUME WorkInv, pc = "ended", run.op = "split", err = "none"
  PROVE  Going /\ \A o \in AllOwners : tx[o].op = "split" \/ phase = "loop" => ~Waits(o)
<1>1. ~werr /\ wpc \in {"idle", "done"} /\ queue = <<>> /\ todo = {} /\ phase = "loop"
  BY DEF WorkInv, Stages
<1> QED
  BY <1>1 DEF Going, Waits

(* Property CaughtUp: a split that completed, whatever crashed before,   *)
(* has a sidecar of the recorded size or an issue for every moved file,  *)
(* and the worker's error is not lost (previewQueue.close, catchUp).     *)
THEOREM SplitCatchesUp == SidecarSpec => []CaughtUp
<1>1. PromiseInv => CaughtUp
  <2>1. SUFFICES ASSUME PromiseInv, pc = "ended", run.op = "split", err = "none", ~touched,
                        NEW o \in AllOwners
                 PROVE  Served(o)
    BY DEF CaughtUp, Served
  <2>2. phase = "loop"
    BY <2>1 DEF PromiseInv, WorkInv, Stages
  <2> QED
    BY <2>1, <2>2, NothingWaits DEF PromiseInv, Serving, Reached
<1> QED
  BY <1>1, PromisesCorrect, PTL

(* Property LinksMatch: it also left every owned description of a fixed  *)
(* name with exactly the previews that the logs record                   *)
(* (refreshPreviewDescription looks for no other).                       *)
THEOREM DescriptionsList == SidecarSpec => []LinksMatch
<1>1. PromiseInv => LinksMatch
  <2>1. SUFFICES ASSUME PromiseInv, pc = "ended", run.op = "split", err = "none",
                        family = "preview", NEW o \in AllOwners \ indexed
                 PROVE  Listed(o)
    BY DEF LinksMatch, Listed
  <2>2. phase = "loop"
    BY <2>1 DEF PromiseInv, WorkInv, Stages
  <2> QED
    BY <2>1, <2>2, NothingWaits DEF PromiseInv, Listing
<1> QED
  BY <1>1, PromisesCorrect, PTL

(* Property CleanedUp: a restore with cleanup that completed left no     *)
(* unchanged sidecar beside any file such a restore returned, in this    *)
(* run or in an earlier one (deleteEarlierRestored).                     *)
THEOREM RestoreCleansUp == SidecarSpec => []CleanedUp
<1>1. PromiseInv => CleanedUp
  <2>1. SUFFICES ASSUME PromiseInv, pc = "ended", run.op = "restore", run.cleanup, err = "none",
                        NEW o \in AllOwners, NEW p \in Path,
                        Restored(o), disk.owned[o][p] > 0, Deletable(o, p)
                 PROVE  FALSE
    BY DEF CleanedUp, Restored
  <2>2. idx.owned = disk.owned
    BY <2>1 DEF PromiseInv, WorkInv, Agree
  <2>3. Left(o, p)
    BY <2>1, <2>2 DEF Left, Deletable
  <2>4. Clean(o)
    BY <2>1 DEF PromiseInv, Cleanup
  <2> QED
    BY <2>3, <2>4 DEF Clean
<1> QED
  BY <1>1, PromisesCorrect, PTL
=============================================================================
