---------------------------- MODULE Paths_proofs ----------------------------
(***************************************************************************)
(* The paths of an archive, proved for any files, names and limits:        *)
(* MirrorTidy of the mirror's directories (MirrorDirs), OneDescription of  *)
(* the descriptions and text sidecars (Names), WalkedOnce of the entries   *)
(* that a scan delivers (Walk), and PreviewsSound of the previews that     *)
(* splits plan and make (PreviewPlan).                                     *)
(*                                                                         *)
(* Directories: removing one can empty only the one it lies in, which is   *)
(* shorter; so a prune that takes the longest first still has it ahead, or *)
(* never had it (Pruned).                                                  *)
(*                                                                         *)
(* Names: a file's document lies at the first candidate name that is       *)
(* absent or already the file's, so what was written is where it would be  *)
(* written again (Underway), as long as no foreign candidate before it     *)
(* goes away; the operator plants files under it but takes none away while *)
(* a transaction is open.                                                  *)
(*                                                                         *)
(* Walk: the order of keys is total and keeps the contents of a directory  *)
(* together, so what is skipped at the cursor lies before it, and a glob's *)
(* greedy matching overlooks nothing.  At every moment all that lies up to *)
(* the cursor or to the entry visited last is delivered, excluded or below *)
(* a directory that was reported (Accounted), and so is the log up to any  *)
(* place where a checkpoint may cut it off.                                *)
(*                                                                         *)
(* Previews: a plan takes no name that a file has unless the video owns or *)
(* started that preview, so as long as no video is planned a name another  *)
(* one started, each has its own files (Protected).  Of the videos that    *)
(* want a preview of one preferred name, the first in path order leads; if *)
(* every plan succeeds it alone ever gets that name, and it does not       *)
(* change its name later (Steady).                                         *)
(***************************************************************************)
EXTENDS MirrorDirs, Names, Walk, PreviewPlan, SequenceTheorems, FiniteSetTheorems, WellFoundedInduction, TLAPS

Files == ToSet(Payload)
Pcs == {"off", "next", "dirs", "make", "chmod", "move", "commit", "plan", "prune", "done", "failed"}

DirShapes ==
  /\ mode \in [Folder -> {"none", "masked", "full"}]
  /\ mirrorDir \subseteq Folder
  /\ inArchive \subseteq Files /\ inMirror \subseteq Files
  /\ logged \subseteq Files /\ uncommitted \subseteq Files
  /\ restore \in [pc : Pcs, create : BOOLEAN, keep : BOOLEAN, at : Nat \ {0}, todo : SUBSET Folder]
                 \cup {Off}
  /\ restore.pc \in {"dirs", "make", "chmod", "move", "commit"} => Current \in Files

(* The directories a file in the archive lies in are there; the umask's    *)
(* mode is left only by a process that died before the chmod.              *)
Made ==
  /\ Step("make") => Lacking # {}
  /\ Step("move") => Lacking = {}
  /\ Step("chmod") => \A f \in inArchive : Above(f) \cap restore.todo = {}
  /\ \A f \in inArchive : \A d \in Above(f) : mode[d] # "none"
  /\ \A d \in Folder : mode[d] = "masked" => d \in torn \/ (Step("chmod") /\ d \in restore.todo)

(* Where payload files were taken from by restores that are logged.        *)
Emptied == UNION {Above(f) : f \in logged}

(* Only emptied directories were removed, and none that holds something.   *)
Standing ==
  /\ Folder \ mirrorDir \subseteq Emptied
  /\ foreign \subseteq mirrorDir
  /\ \A f \in inMirror : Above(f) \subseteq mirrorDir

(* A prune has what is shorter than any directory ahead still ahead, and   *)
(* every directory it could remove.                                        *)
Removable == (mirrorDir \cap Emptied) \ stuck
Pruned ==
  /\ Step("prune") =>
       /\ restore.todo \subseteq Emptied
       /\ \A d \in Emptied : \A e \in restore.todo : Len(d) < Len(e) => d \in restore.todo
       /\ \A d \in Removable : d \in restore.todo \/ Occupied(d)
  /\ Step("done") /\ ~restore.keep => \A d \in Removable : Occupied(d)

TidyInv == DirShapes /\ Made /\ Standing /\ Pruned
-----------------------------------------------------------------------------
(* A set of directories has a longest and a shortest one.                  *)
LEMMA LeastOf ==
  ASSUME NEW T, T \subseteq Nat, T # {}
  PROVE  \E k \in T : \A j \in T : k <= j
<1>1. PICK k \in T : \A j \in T : ~ (<<j, k>> \in OpToRel(<, Nat))
  BY NatLessThanWellFounded, WFMin
<1>2. \A j \in T : ~(j < k)
  BY <1>1, Zenon DEF OpToRel
<1>3. \A j \in T : k <= j
  BY <1>2
<1> QED
  BY <1>3

(* A file's path is a sequence of names.                                   *)
LEMMA FilePath ==
  ASSUME NEW f \in Files
  PROVE  f \in Seq(PathName) /\ Len(f) \in Nat /\ Len(f) > 0 /\ Above(f) \subseteq Folder
<1>1. PICK i \in DOMAIN Payload : f = Payload[i]
  BY DEF Files, ToSet
<1>2. f \in Seq(PathName) \ {<<>>}
  BY <1>1, PayloadAssumption
<1>3. Above(f) \subseteq Folder
  BY <1>1 DEF Folder
<1> QED
  BY <1>2, <1>3

(* Directories are sequences of names too, each above some file.           *)
LEMMA FolderPath ==
  ASSUME NEW d \in Folder
  PROVE  /\ d \in Seq(PathName) /\ Len(d) \in Nat /\ Len(Front(d)) < Len(d)
         /\ d \notin Files
<1>1. PICK i \in DOMAIN Payload : d \in Above(Payload[i])
  BY DEF Folder
<1>2. Payload[i] \in Seq(PathName) /\ Len(Payload[i]) \in Nat
  BY PayloadAssumption
<1>3. PICK n \in 1..(Len(Payload[i]) - 1) : d = SubSeq(Payload[i], 1, n)
  BY <1>1 DEF Above
<1>4. d \in Seq(PathName) /\ Len(d) = n
  BY <1>2, <1>3
<1>5. Len(Front(d)) = n - 1
  BY <1>4 DEF Front
<1>6. d \notin Files
  BY PayloadAssumption DEF Files
<1> QED
  BY <1>4, <1>5, <1>6

(* What lies below a directory above a file is the file or above it too.   *)
LEMMA HasChild ==
  ASSUME NEW f \in Files, NEW d \in Above(f)
  PROVE  \E e \in Above(f) \cup {f} : Front(e) = d
<1>1. f \in Seq(PathName) /\ Len(f) \in Nat
  BY FilePath
<1>2. PICK n \in 1..(Len(f) - 1) : d = SubSeq(f, 1, n)
  BY DEF Above
<1>3. CASE n = Len(f) - 1
  BY <1>2, <1>3 DEF Front
<1>4. CASE n # Len(f) - 1
  <2> DEFINE e == SubSeq(f, 1, n + 1)
  <2>1. n + 1 \in 1..(Len(f) - 1)
    BY <1>1, <1>4
  <2>2. e \in Above(f)
    BY <2>1 DEF Above
  <2>3. e \in Seq(PathName) /\ Len(e) = n + 1
    BY <1>1, <2>1
  <2>4. Front(e) = d
    <3>1. Front(e) = SubSeq(e, 1, n)
      BY <2>3 DEF Front
    <3>2. SubSeq(e, 1, n) = SubSeq(f, 1, n)
      BY <1>1, <2>1, <2>3
    <3> QED
      BY <1>2, <3>1, <3>2
  <2> QED
    BY <2>2, <2>4
<1> QED
  BY <1>3, <1>4

(* No path is longer than some number.                                     *)
LEMMA PathsBounded == \E m \in Nat : \A d \in Folder : Len(d) <= m
<1> DEFINE Bound(k, m) == \A i \in 1..k : Len(Payload[i]) <= m
           unbounded == {k \in 0..Len(Payload) : \A m \in Nat : ~ Bound(k, m)}
<1>1. Len(Payload) \in Nat /\ \A i \in 1..Len(Payload) : Len(Payload[i]) \in Nat
  BY PayloadAssumption
<1>2. CASE unbounded = {}
  <2>1. Len(Payload) \in 0..Len(Payload)
    BY <1>1
  <2>2. PICK m \in Nat : Bound(Len(Payload), m)
    BY <1>2, <2>1
  <2>3. ASSUME NEW d \in Folder PROVE Len(d) <= m
    <3>1. PICK i \in DOMAIN Payload : d \in Above(Payload[i])
      BY DEF Folder
    <3>2. Payload[i] \in Seq(PathName) /\ Len(Payload[i]) \in Nat /\ i \in 1..Len(Payload)
      BY PayloadAssumption
    <3>3. PICK n \in 1..(Len(Payload[i]) - 1) : d = SubSeq(Payload[i], 1, n)
      BY <3>1 DEF Above
    <3>4. Len(d) = n /\ Len(Payload[i]) <= m
      BY <2>2, <3>2, <3>3
    <3> QED
      BY <3>2, <3>3, <3>4
  <2> QED
    BY <2>3
<1>3. CASE unbounded # {}
  <2>1. unbounded \subseteq Nat
    BY <1>1
  <2>2. PICK k \in unbounded : \A j \in unbounded : k <= j
    BY <1>3, <2>1, LeastOf
  <2>3. k \in 0..Len(Payload) /\ \A m \in Nat : ~ Bound(k, m)
    OBVIOUS
  <2>4. k # 0
    <3>1. Bound(0, 0)
      OBVIOUS
    <3> QED
      BY <2>3, <3>1
  <2>5. k - 1 \in 0..Len(Payload) /\ ~(k <= k - 1)
    BY <1>1, <2>3, <2>4
  <2>n. k - 1 \notin unbounded
    <3> HIDE DEF unbounded
    <3> QED
      BY <2>2, <2>5
  <2>6. PICK m \in Nat : Bound(k - 1, m)
    BY <2>5, <2>n
  <2>7. Len(Payload[k]) \in Nat
    BY <1>1, <2>3, <2>4
  <2>8. m + Len(Payload[k]) \in Nat
    <3> HIDE DEF unbounded, Bound
    <3> QED
      BY <2>6, <2>7
  <2>9. Bound(k, m + Len(Payload[k]))
    <3> SUFFICES ASSUME NEW i \in 1..k PROVE Len(Payload[i]) <= m + Len(Payload[k])
      OBVIOUS
    <3> HIDE DEF unbounded
    <3>1. CASE i = k
      BY <2>6, <2>7, <3>1
    <3>2. CASE i # k
      <4>1. i \in 1..(k - 1) /\ i \in 1..Len(Payload)
        BY <1>1, <2>3, <3>2
      <4>2. Len(Payload[i]) <= m /\ Len(Payload[i]) \in Nat
        BY <1>1, <2>6, <4>1
      <4> QED
        BY <2>6, <2>7, <4>2
    <3> QED
      BY <3>1, <3>2
  <2> QED
    BY <2>3, <2>8, <2>9
<1> QED
  BY <1>2, <1>3

(* A set of directories that is not empty has a longest one.               *)
LEMMA NextLongest ==
  ASSUME NEW T, T \subseteq Folder, T # {}
  PROVE  NextDir(T) \in T /\ \A e \in T : Len(NextDir(T)) >= Len(e)
<1>1. PICK m \in Nat : \A d \in Folder : Len(d) <= m
  BY PathsBounded
<1> DEFINE short == {m - Len(d) : d \in T}
<1>2. \A d \in T : Len(d) \in Nat /\ Len(d) <= m
  BY <1>1, FolderPath
<1>3. short \subseteq Nat /\ short # {}
  BY <1>2
<1>4. PICK k \in short : \A j \in short : k <= j
  BY <1>3, LeastOf
<1>5. PICK d \in T : k = m - Len(d)
  BY <1>4
<1>6. ASSUME NEW e \in T PROVE Len(d) >= Len(e)
  <2>1. m - Len(e) \in short
    OBVIOUS
  <2>2. m - Len(d) <= m - Len(e)
    BY <1>4, <1>5, <2>1
  <2>3. Len(d) \in Nat /\ Len(e) \in Nat
    BY <1>2
  <2> QED
    BY <2>2, <2>3
<1> QED
  BY <1>6, Zenon DEF NextDir

(* ... and a shortest one.                                                 *)
LEMMA HighestLacking ==
  ASSUME Lacking # {}, Current \in Files
  PROVE  Highest \in Folder /\ mode[Highest] = "none"
<1>1. Lacking \subseteq Folder
  BY FilePath DEF Lacking
<1> DEFINE lens == {Len(d) : d \in Lacking}
<1>2. lens \subseteq Nat /\ lens # {}
  BY <1>1, FolderPath
<1>3. PICK k \in lens : \A j \in lens : k <= j
  BY <1>2, LeastOf
<1>4. \E d \in Lacking : \A e \in Lacking : Len(d) <= Len(e)
  BY <1>3
<1>5. Highest \in Lacking
  BY <1>4, Zenon DEF Highest
<1> QED
  BY <1>1, <1>5 DEF Lacking
-----------------------------------------------------------------------------
(* TidyInv holds of every state a first restore starts in.                 *)
LEMMA TidyStarts == ASSUME DirsInit PROVE TidyInv
<1>1. DirShapes
  BY DEF DirsInit, DirsStart, DirShapes, Files, Off
<1>2. Made
  BY DEF DirsInit, DirsStart, Made, Off, Step
<1>3. Standing
  <2>1. ASSUME NEW f \in Files PROVE Above(f) \subseteq Folder
    BY FilePath
  <2> QED
    BY <2>1 DEF DirsInit, DirsStart, Standing, Files
<1>4. Pruned
  BY DEF DirsInit, DirsStart, Pruned, Off, Step
<1> QED
  BY <1>1, <1>2, <1>3, <1>4 DEF TidyInv
-----------------------------------------------------------------------------
(* THE INVARIANT IS KEPT *)

(* Every step keeps the types, and a candidate at hand is a file.          *)
LEMMA ShapesKept == ASSUME TidyInv, [DirsNext]_dirsVars PROVE DirShapes'
<1> USE DEF TidyInv, DirShapes, Pcs, Off, Step, To, Quiet
<1>u. CASE UNCHANGED dirsVars
  BY <1>u DEF dirsVars, Current
<1>1. ASSUME NEW create \in BOOLEAN, NEW keep \in BOOLEAN, BeginDirs(create, keep) PROVE DirShapes'
  BY <1>1 DEF BeginDirs
<1>2. CASE NextCandidate
  BY <1>2 DEF NextCandidate, Current
<1>3. CASE EnsureRestoreDirs
  <2>1. \/ restore' \in {To("failed"), To("move"), To("make")}
        \/ restore' = [restore EXCEPT !.pc = "next", !.at = @ + 1]
    BY <1>3 DEF EnsureRestoreDirs
  <2>2. restore # Off /\ restore.at \in Nat \ {0} /\ restore.at + 1 \in Nat \ {0}
    BY <1>3 DEF EnsureRestoreDirs
  <2>3. /\ restore' \in [pc : Pcs, create : BOOLEAN, keep : BOOLEAN, at : Nat \ {0}, todo : SUBSET Folder]
        /\ restore'.pc # "next" => restore'.at = restore.at
    BY <2>1, <2>2
  <2> QED
    BY <1>3, <2>3 DEF EnsureRestoreDirs, Current
<1>4. CASE MakeDir
  <2>1. Highest \in Folder
    BY <1>4, HighestLacking DEF MakeDir, Made
  <2>2. restore # Off
    BY <1>4 DEF MakeDir
  <2>3. /\ restore' \in [pc : Pcs, create : BOOLEAN, keep : BOOLEAN, at : Nat \ {0}, todo : SUBSET Folder]
        /\ restore'.at = restore.at
    BY <1>4, <2>1, <2>2 DEF MakeDir
  <2> QED
    BY <1>4, <2>1, <2>3 DEF MakeDir, Current
<1>5. CASE ChmodDir
  <2>1. restore # Off
    BY <1>5 DEF ChmodDir
  <2>2. /\ restore' \in [pc : Pcs, create : BOOLEAN, keep : BOOLEAN, at : Nat \ {0}, todo : SUBSET Folder]
        /\ restore'.at = restore.at
    BY <1>5, <2>1 DEF ChmodDir
  <2> QED
    BY <1>5, <2>2 DEF ChmodDir, Current
<1>6. CASE Move
  BY <1>6 DEF Move, Current
<1>7. CASE Commit
  <2>1. restore # Off /\ restore.at \in Nat \ {0} /\ restore.at + 1 \in Nat \ {0}
    BY <1>7 DEF Commit
  <2>2. restore' \in [pc : Pcs, create : BOOLEAN, keep : BOOLEAN, at : Nat \ {0}, todo : SUBSET Folder]
        /\ restore'.pc = "next"
    BY <1>7, <2>1 DEF Commit
  <2> QED
    BY <1>7, <2>2 DEF Commit
<1>8. CASE PlanPrune
  <2>1. restore # Off
    BY <1>8 DEF PlanPrune
  <2>2. UNION {Above(f) : f \in logged} \subseteq Folder
    BY FilePath
  <2>3. restore' \in [pc : Pcs, create : BOOLEAN, keep : BOOLEAN, at : Nat \ {0}, todo : SUBSET Folder]
        /\ restore'.pc = "prune"
    BY <1>8, <2>1, <2>2 DEF PlanPrune
  <2> QED
    BY <1>8, <2>3 DEF PlanPrune
<1>9. CASE PruneDir
  BY <1>9 DEF PruneDir
<1>10. CASE EndDirs
  BY <1>10 DEF EndDirs
<1>11. CASE Interrupt
  BY <1>11 DEF Interrupt
<1>12. CASE Touch
  BY <1>12 DEF Touch, Current
<1>13. ASSUME NEW f \in inArchive, SplitBack(f) PROVE DirShapes'
  BY <1>13, FilePath DEF SplitBack
<1> QED
  BY <1>u, <1>1, <1>2, <1>3, <1>4, <1>5, <1>6, <1>7, <1>8, <1>9, <1>10, <1>11, <1>12, <1>13 DEF DirsNext

(* Every step keeps the modes of what was made; the operator removes only  *)
(* directories that hold nothing.                                          *)
LEMMA MadeKept == ASSUME TidyInv, [DirsNext]_dirsVars PROVE Made'
<1> USE DEF TidyInv, Made, Off, Step, To, Quiet
<1>u. CASE UNCHANGED dirsVars
  BY <1>u DEF dirsVars, Current, Lacking
<1>1. ASSUME NEW create \in BOOLEAN, NEW keep \in BOOLEAN, BeginDirs(create, keep) PROVE Made'
  BY <1>1 DEF BeginDirs
<1>2. CASE NextCandidate
  BY <1>2 DEF NextCandidate, DirShapes
<1>3. CASE EnsureRestoreDirs
  BY <1>3 DEF EnsureRestoreDirs, DirShapes, Current, Lacking
<1>4. CASE MakeDir
  BY <1>4, HighestLacking DEF MakeDir, DirShapes, Current
<1>5. CASE ChmodDir
  BY <1>5, FilePath DEF ChmodDir, DirShapes, Current
<1>6. CASE Move
  BY <1>6, FilePath DEF Move, DirShapes, Lacking, Current
<1>7. CASE Commit
  BY <1>7 DEF Commit, DirShapes
<1>8. CASE PlanPrune
  BY <1>8 DEF PlanPrune, DirShapes
<1>9. CASE PruneDir
  BY <1>9 DEF PruneDir, DirShapes
<1>10. CASE EndDirs
  BY <1>10 DEF EndDirs
<1>11. CASE Interrupt
  BY <1>11 DEF Interrupt
<1>12. CASE Touch
  BY <1>12, FilePath, HasChild DEF Touch, DirShapes, BareDir, Current, Lacking
<1>13. ASSUME NEW f \in inArchive, SplitBack(f) PROVE Made'
  BY <1>13 DEF SplitBack
<1> QED
  BY <1>u, <1>1, <1>2, <1>3, <1>4, <1>5, <1>6, <1>7, <1>8, <1>9, <1>10, <1>11, <1>12, <1>13 DEF DirsNext

(* Every step keeps directories that hold something.                       *)
LEMMA StandingKept == ASSUME TidyInv, [DirsNext]_dirsVars PROVE Standing'
<1> USE DEF TidyInv, Standing, Step, Quiet
<1>a. logged \subseteq logged' => Emptied \subseteq Emptied'
  BY DEF Emptied
<1>u. CASE UNCHANGED dirsVars
  BY <1>u DEF dirsVars, Emptied
<1>1. ASSUME NEW create \in BOOLEAN, NEW keep \in BOOLEAN, BeginDirs(create, keep) PROVE Standing'
  BY <1>1, <1>a DEF BeginDirs
<1>2. CASE NextCandidate
  BY <1>2, <1>a DEF NextCandidate
<1>3. CASE EnsureRestoreDirs
  BY <1>3, <1>a DEF EnsureRestoreDirs
<1>4. CASE MakeDir
  BY <1>4, <1>a DEF MakeDir
<1>5. CASE ChmodDir
  BY <1>5, <1>a DEF ChmodDir
<1>6. CASE Move
  BY <1>6, <1>a DEF Move
<1>7. CASE Commit
  BY <1>7, <1>a DEF Commit
<1>8. CASE PlanPrune
  BY <1>8, <1>a DEF PlanPrune
<1>9. CASE PruneDir
  <2> DEFINE d == NextDir(restore.todo)
  <2>1. CASE mirrorDir' = mirrorDir
    BY <1>9, <1>a, <2>1 DEF PruneDir
  <2>2. CASE mirrorDir' # mirrorDir
    <3>1. restore.todo # {} /\ mirrorDir' = mirrorDir \ {d} /\ ~Occupied(d)
      BY <1>9, <2>2 DEF PruneDir
    <3>2. restore.todo \subseteq Folder /\ restore.todo \subseteq Emptied
      BY <1>9 DEF PruneDir, DirShapes, Pruned, Off
    <3>3. d \in Emptied
      BY <3>1, <3>2, NextLongest
    <3>4. UNCHANGED <<foreign, inMirror, logged>>
      BY <1>9 DEF PruneDir
    <3>5. Folder \ mirrorDir' \subseteq Emptied'
      BY <3>1, <3>3, <3>4, <1>a
    <3>6. foreign' \subseteq mirrorDir'
      BY <3>1, <3>4 DEF Occupied
    <3>7. ASSUME NEW f \in inMirror, d \in Above(f) PROVE FALSE
      <4>1. f \in Files /\ Above(f) \subseteq mirrorDir
        BY DEF DirShapes
      <4>2. PICK e \in Above(f) \cup {f} : Front(e) = d
        BY <3>7, <4>1, HasChild
      <4> QED
        BY <3>1, <4>1, <4>2 DEF Occupied
    <3> QED
      BY <3>1, <3>4, <3>5, <3>6, <3>7
  <2> QED
    BY <2>1, <2>2
<1>10. CASE EndDirs
  BY <1>10, <1>a DEF EndDirs
<1>11. CASE Interrupt
  BY <1>11, <1>a DEF Interrupt
<1>12. CASE Touch
  BY <1>12, <1>a DEF Touch
<1>13. ASSUME NEW f \in inArchive, SplitBack(f) PROVE Standing'
  BY <1>13, <1>a DEF SplitBack
<1> QED
  BY <1>u, <1>1, <1>2, <1>3, <1>4, <1>5, <1>6, <1>7, <1>8, <1>9, <1>10, <1>11, <1>12, <1>13 DEF DirsNext

(* Every step keeps the order of a prune.                                  *)
LEMMA PrunedKept == ASSUME TidyInv, [DirsNext]_dirsVars PROVE Pruned'
<1> USE DEF TidyInv, Pruned, Off, Step, To, Quiet
<1>u. CASE UNCHANGED dirsVars
  BY <1>u DEF dirsVars, Emptied, Removable, Occupied
<1>1. ASSUME NEW create \in BOOLEAN, NEW keep \in BOOLEAN, BeginDirs(create, keep) PROVE Pruned'
  BY <1>1 DEF BeginDirs
<1>2. CASE NextCandidate
  BY <1>2 DEF NextCandidate, DirShapes
<1>3. CASE EnsureRestoreDirs
  BY <1>3 DEF EnsureRestoreDirs, DirShapes
<1>4. CASE MakeDir
  BY <1>4 DEF MakeDir, DirShapes
<1>5. CASE ChmodDir
  BY <1>5 DEF ChmodDir, DirShapes
<1>6. CASE Move
  BY <1>6 DEF Move, DirShapes
<1>7. CASE Commit
  BY <1>7 DEF Commit, DirShapes
<1>8. CASE PlanPrune
  BY <1>8 DEF PlanPrune, DirShapes, Emptied, Removable
<1>9. CASE PruneDir
  <2> DEFINE d == NextDir(restore.todo)
  <2>1. /\ UNCHANGED <<foreign, inMirror, logged, stuck>> /\ Emptied' = Emptied
        /\ restore.todo \subseteq Folder /\ Emptied \subseteq Folder
    <3>1. Emptied \subseteq Folder
      BY FilePath DEF DirShapes, Emptied
    <3> QED
      BY <1>9, <3>1 DEF PruneDir, DirShapes, Emptied
  <2>2. CASE restore.todo = {}
    <3>1. restore' = To("done") /\ mirrorDir' = mirrorDir
      BY <1>9, <2>2 DEF PruneDir
    <3>2. \A x \in Removable : Occupied(x)
      BY <1>9, <2>2 DEF PruneDir
    <3> QED
      BY <1>9, <2>1, <3>1, <3>2 DEF PruneDir, DirShapes, Removable, Occupied
  <2>3. CASE restore.todo # {}
    <3>1. /\ mirrorDir' = IF Occupied(d) \/ d \in stuck THEN mirrorDir ELSE mirrorDir \ {d}
          /\ restore'.pc = "prune" /\ restore'.todo = restore.todo \ {d}
      BY <1>9, <2>3 DEF PruneDir, DirShapes
    <3>2. d \in restore.todo /\ \A e \in restore.todo : Len(d) >= Len(e)
      BY <2>1, <2>3, NextLongest
    <3>3. restore'.todo \subseteq Emptied'
      BY <1>9, <2>1, <3>1 DEF PruneDir
    <3>4. ASSUME NEW x \in Emptied, NEW e \in restore'.todo, Len(x) < Len(e) PROVE x \in restore'.todo
      <4>1. x \in restore.todo
        BY <1>9, <3>1, <3>4 DEF PruneDir
      <4>2. Len(d) >= Len(e) /\ Len(x) \in Nat /\ Len(e) \in Nat /\ Len(d) \in Nat
        BY <2>1, <3>1, <3>2, FolderPath
      <4>3. x # d
        BY <3>4, <4>2
      <4> QED
        BY <3>1, <4>1, <4>3
    <3>5. ASSUME NEW x \in Removable' PROVE x \in restore'.todo \/ Occupied(x)'
      <4>1. x \in Removable /\ x \in Emptied
        BY <2>1, <3>1, <3>5 DEF Removable
      <4>2. x \in restore.todo \/ Occupied(x)
        BY <1>9, <4>1 DEF PruneDir
      <4>3. CASE x = d
        <5>1. mirrorDir' = mirrorDir
          BY <3>1, <3>5, <4>1, <4>3 DEF Removable
        <5>2. Occupied(d)
          BY <3>1, <4>1, <4>3, <5>1 DEF Removable
        <5> QED
          BY <2>1, <4>3, <5>1, <5>2 DEF Occupied
      <4>4. CASE x # d /\ Occupied(x)
        <5>1. CASE x # Front(d)
          BY <2>1, <3>1, <4>4, <5>1 DEF Occupied
        <5>2. CASE x = Front(d)
          <6>1. Len(x) < Len(d)
            BY <2>1, <3>2, <5>2, FolderPath
          <6>2. x \in restore.todo
            BY <1>9, <3>2, <4>1, <6>1 DEF PruneDir
          <6> QED
            BY <3>1, <4>4, <6>2
        <5> QED
          BY <5>1, <5>2
      <4>5. CASE x # d /\ x \in restore.todo
        BY <3>1, <4>5
      <4> QED
        BY <4>2, <4>3, <4>4, <4>5
    <3> QED
      BY <2>1, <3>1, <3>3, <3>4, <3>5
  <2> QED
    BY <2>2, <2>3
<1>10. CASE EndDirs
  BY <1>10 DEF EndDirs
<1>11. CASE Interrupt
  BY <1>11 DEF Interrupt
<1>12. CASE Touch
  BY <1>12 DEF Touch, Emptied, Removable, Occupied
<1>13. ASSUME NEW f \in inArchive, SplitBack(f) PROVE Pruned'
  BY <1>13 DEF SplitBack
<1> QED
  BY <1>u, <1>1, <1>2, <1>3, <1>4, <1>5, <1>6, <1>7, <1>8, <1>9, <1>10, <1>11, <1>12, <1>13 DEF DirsNext
-----------------------------------------------------------------------------
(* TidyInv holds in every reachable state.                                 *)
THEOREM TidyCorrect == DirsSpec => []TidyInv
<1>1. TidyInv /\ [DirsNext]_dirsVars => TidyInv'
  BY ShapesKept, MadeKept, StandingKept, PrunedKept DEF TidyInv
<1> QED
  BY TidyStarts, <1>1, PTL DEF DirsSpec

(* However restores are interrupted and whatever runs in between: a        *)
(* restore that finishes leaves no empty directory in the mirror that it   *)
(* can remove and that a restore took a file from, no other directory is   *)
(* removed and none that holds something, and restored files lie in        *)
(* directories with the mirror's mode (pruneRestoredDirs and               *)
(* ensureRestoreDirs).                                                     *)
THEOREM MirrorStaysTidy == DirsSpec => []MirrorTidy
<1>1. TidyInv => MirrorTidy
  <2> SUFFICES ASSUME TidyInv PROVE MirrorTidy
    OBVIOUS
  <2> USE DEF TidyInv
  <2>1. DOMAIN mode = Folder
    BY DEF DirShapes
  <2>2. Step("done") /\ ~restore.keep => \A d \in (mirrorDir \cap Emptied) \ stuck : Occupied(d)
    BY DEF Pruned, Removable
  <2>3. \A f \in inArchive : \A d \in Above(f) : mode[d] = "full" \/ (mode[d] = "masked" /\ d \in torn)
    BY FilePath DEF Made, DirShapes
  <2> QED
    BY <2>1, <2>2, <2>3 DEF MirrorTidy, Standing, Emptied
<1> QED
  BY <1>1, TidyCorrect, PTL
-----------------------------------------------------------------------------
(* What a name holds, and the transactions there are.                      *)
Marker == {"description", "text"}
Docs == {Doc(marker, f) : marker \in Marker, f \in Video}
Splitting == [op : {"split"}, file : Video, step : {"placed", "written", "text", "texted"}, keep : BOOLEAN]
Restoring == [op : {"restore"}, file : Video, step : {"placed", "removed"}, keep : BOOLEAN]

NamesTypes ==
  /\ entry \in [SidecarName -> {Empty, Foreign} \cup Docs]
  /\ planted \subseteq SidecarName /\ \A n \in planted : entry[n] = Foreign
  /\ at \in [Video -> {"archive", "mirror"}]
  /\ recorded \in [Video -> SidecarName \cup {Nowhere}]
  /\ sidecar \in [Video -> SidecarName \cup {Nowhere}]
  /\ listed \in [Video -> SidecarName \cup {Nowhere}]
  /\ stray \subseteq Video /\ keptText \subseteq Video
  /\ moving \in {NoMove} \cup Splitting \cup Restoring

(* At most one description, and it lies at the path.                       *)
OnlyAt(f, path) == f \notin stray => Held("description", f) \subseteq {path}
Described(f) == recorded[f] \in Held("description", f) /\ OnlyAt(f, recorded[f])
Undescribed(f) == f \notin stray => Held("description", f) = {}
Text(f) == Held("text", f) = IF HasText(f) THEN {sidecar[f]} ELSE {}

(* A file nothing moves.                                                   *)
Settled(f) == Text(f) /\ IF at[f] = "mirror" THEN Described(f) ELSE Undescribed(f)

(* The file of the open transaction: what was written so far is where it   *)
(* would be written again.                                                 *)
Underway(f) ==
  LET path == ChooseDescriptionPath(f)
      text == ChooseTextSidecarPath(f)
  IN  /\ At("split", "placed") => at[f] = "archive" /\ Text(f) /\ OnlyAt(f, path)
      /\ At("split", "written") =>
           at[f] = "archive" /\ Text(f) /\ OnlyAt(f, path) /\ path \in Held("description", f)
      /\ At("split", "text") =>
           /\ at[f] = "mirror" /\ f \in Texted /\ Described(f)
           /\ IF f \in keptText THEN Held("text", f) = {sidecar[f]} ELSE Held("text", f) \subseteq {text}
      /\ At("split", "texted") =>
           /\ at[f] = "mirror" /\ f \in Texted /\ Described(f)
           /\ f \notin keptText /\ Held("text", f) = {text}
      /\ At("restore", "placed") => at[f] = "mirror" /\ Text(f) /\ OnlyAt(f, recorded[f])
      /\ At("restore", "removed") => at[f] = "mirror" /\ Text(f) /\ Undescribed(f)

InMove(f) == moving # NoMove /\ moving.file = f
AsRecorded == \A f \in Video : IF InMove(f) THEN Underway(f) ELSE Settled(f)
NamesInv == NamesTypes /\ AsRecorded
-----------------------------------------------------------------------------
LEMMA FirstIs ==
  ASSUME NEW names, NEW good, good \subseteq Nat, good # {}
  PROVE  \E i \in good : FirstOf(names, good) = names[i] /\ \A j \in good : i <= j
<1> DEFINE i == CHOOSE i \in good : \A j \in good : i <= j
<1>1. i \in good /\ \A j \in good : i <= j
  BY LeastOf
<1>2. FirstOf(names, good) = names[i]
  BY DEF FirstOf
<1> QED
  BY <1>1, <1>2

LEMMA ConcatIs ==
  ASSUME NEW S, NEW s \in Seq(S), NEW t \in Seq(S)
  PROVE  /\ s \o t \in Seq(S) /\ Len(s \o t) = Len(s) + Len(t)
         /\ \A i \in 1..Len(s) : (s \o t)[i] = s[i]
         /\ \A i \in 1..Len(t) : (s \o t)[Len(s) + i] = t[i]
OBVIOUS

LEMMA CandidatePositions ==
  ASSUME NEW marker, NEW f
  PROVE  Fitting(CandidateNames(marker, f)) \subseteq Nat
<1> DEFINE tail == Ending(marker)
           S == {FixedNames(f, tail)[1], FixedNames(f, tail)[2]}
                \cup {IndexedName(f, i, tail) : i \in DOMAIN Number}
<1>1. FixedNames(f, tail) \in Seq(S)
  BY DEF FixedNames
<1>2. IndexedNames(f, tail) \in Seq(S)
  <2>1. DOMAIN Number = 1..Len(Number) /\ Len(Number) \in Nat
    BY NamesAssumption
  <2> HIDE DEF tail
  <2>2. \A i \in 1..Len(Number) : IndexedName(f, i, tail) \in S
    BY <2>1
  <2> QED
    BY <2>1, <2>2 DEF IndexedNames
<1> HIDE DEF S, tail
<1>3. FixedNames(f, tail) \o IndexedNames(f, tail) \in Seq(S)
  BY <1>1, <1>2, ConcatIs
<1>4. CandidateNames(marker, f) \in Seq(S)
  BY <1>3 DEF CandidateNames, tail
<1> QED
  BY <1>4 DEF Fitting

LEMMA CandidateIsName ==
  ASSUME NEW marker \in Marker, NEW f \in Video, NEW i \in Fitting(CandidateNames(marker, f))
  PROVE  CandidateNames(marker, f)[i] \in SidecarName
<1> DEFINE N == FittingNames(CandidateNames(marker, f))
<1>1. CandidateNames(marker, f)[i] \in N
  BY DEF FittingNames
<1>2. N \in {FittingNames(CandidateNames(m, g)) : m \in Marker, g \in Video}
  OBVIOUS
<1> HIDE DEF N
<1>3. SidecarName = UNION {FittingNames(CandidateNames(m, g)) : m \in Marker, g \in Video}
  BY DEF SidecarName, Marker
<1> QED
  BY <1>1, <1>2, <1>3

LEMMA NamesFit ==
  ASSUME NEW n \in SidecarName
  PROVE  FitsName(n) /\ n # Nowhere
<1>1. FitsName(n)
  BY DEF SidecarName, FittingNames, Fitting
<1>2. n # Nowhere
  BY <1>1 DEF FitsName, Nowhere
<1> QED
  BY <1>1, <1>2

(* A chosen path is the first candidate that is absent or the file's own.  *)
LEMMA ChosenIs ==
  ASSUME NEW marker \in Marker, NEW f \in Video, FirstUsable(marker, f) # Nowhere
  PROVE  LET names == CandidateNames(marker, f)
         IN  \E i \in Fitting(names) :
               /\ FirstUsable(marker, f) = names[i] /\ names[i] \in SidecarName
               /\ Inspect(names[i], marker, f) # "foreign"
               /\ \A j \in Fitting(names) : Inspect(names[j], marker, f) # "foreign" => i <= j
<1> DEFINE names == CandidateNames(marker, f)
           good == {i \in Fitting(names) : Inspect(names[i], marker, f) # "foreign"}
<1>1. FirstUsable(marker, f) = FirstOf(names, good)
  BY DEF FirstUsable
<1>2. good # {}
  BY <1>1 DEF FirstOf
<1>3. good \subseteq Nat
  BY CandidatePositions
<1> HIDE DEF good
<1>4. PICK i \in good : FirstOf(names, good) = names[i] /\ \A j \in good : i <= j
  BY <1>2, <1>3, FirstIs
<1> USE DEF good
<1>5. names[i] \in SidecarName
  BY CandidateIsName
<1> QED
  BY <1>1, <1>4, <1>5

LEMMA InspectIs ==
  ASSUME NEW n, NEW marker \in Marker, NEW f
  PROVE  /\ Inspect(n, marker, f) = "foreign" <=> entry[n] \notin {Empty, Doc(marker, f)}
         /\ Inspect(n, marker, f) = "owned" <=> entry[n] = Doc(marker, f)
BY DEF Inspect, Empty, Doc, Marker

(* A chosen path stays chosen while no foreign candidate goes.             *)
LEMMA ChosenStays ==
  ASSUME NEW marker \in Marker, NEW f \in Video, FirstUsable(marker, f) # Nowhere,
         entry'[FirstUsable(marker, f)] \in {Empty, Doc(marker, f)},
         \A n \in SidecarName :
           entry[n] \notin {Empty, Doc(marker, f)} => entry'[n] \notin {Empty, Doc(marker, f)}
  PROVE  FirstUsable(marker, f)' = FirstUsable(marker, f)
<1> DEFINE names == CandidateNames(marker, f)
           good == {i \in Fitting(names) : Inspect(names[i], marker, f) # "foreign"}
           Better == {i \in Fitting(names) : Inspect(names[i], marker, f)' # "foreign"}
<1>1. PICK i \in Fitting(names) :
        /\ FirstUsable(marker, f) = names[i] /\ names[i] \in SidecarName
        /\ \A j \in Fitting(names) : Inspect(names[j], marker, f) # "foreign" => i <= j
  BY ChosenIs
<1>2. \A n : Inspect(n, marker, f)' = "foreign" <=> entry'[n] \notin {Empty, Doc(marker, f)}
  BY DEF Inspect, Empty, Doc, Marker
<1>3. i \in Better
  BY <1>1, <1>2
<1>4. \A j \in Better : i <= j
  <2> SUFFICES ASSUME NEW j \in Better PROVE Inspect(names[j], marker, f) # "foreign"
    BY <1>1
  <2>1. names[j] \in SidecarName
    BY CandidateIsName
  <2> QED
    BY <1>2, <2>1, InspectIs
<1>5. FirstUsable(marker, f)' = FirstOf(names, Better)
  BY DEF FirstUsable
<1>6. Better \subseteq Nat
  BY CandidatePositions
<1> HIDE DEF Better
<1>7. PICK k \in Better : FirstOf(names, Better) = names[k] /\ \A j \in Better : k <= j
  BY <1>3, <1>6, FirstIs
<1>8. k = i
  BY <1>3, <1>4, <1>6, <1>7
<1> QED
  BY <1>1, <1>5, <1>7, <1>8

(* The names a file holds are those of before when only others change.     *)
LEMMA HeldSame ==
  ASSUME NEW marker, NEW f, DOMAIN entry' = DOMAIN entry,
         \A n \in DOMAIN entry : entry'[n] = entry[n] \/ (entry[n] # Doc(marker, f) /\ entry'[n] # Doc(marker, f))
  PROVE  Held(marker, f)' = Held(marker, f)
BY DEF Held

LEMMA DocsApart ==
  /\ \A marker \in Marker : \A f : Doc(marker, f) # Empty /\ Doc(marker, f) # Foreign
  /\ \A m1, m2, f1, f2 : Doc(m1, f1) = Doc(m2, f2) => m1 = m2 /\ f1 = f2
  /\ Empty # Foreign
BY DEF Doc, Empty, Foreign, Marker

LEMMA InitKeeps == ASSUME NamesInit PROVE NamesInv
<1>1. NamesTypes
  BY NamesAssumption DEF NamesInit, NamesStart, NamesTypes
<1>2. ASSUME NEW marker \in Marker, NEW f PROVE Held(marker, f) = {}
  BY DocsApart DEF NamesInit, Held
<1>3. ASSUME NEW f \in Video PROVE ~InMove(f) /\ Settled(f)
  BY <1>2 DEF NamesInit, NamesStart, InMove, Settled, Undescribed, Text, HasText, Marker
<1> QED
  BY <1>1, <1>3 DEF NamesInv, AsRecorded

(* The owned files are those the invariant speaks of.                      *)
LEMMA InvImplies == ASSUME NamesInv PROVE OneDescription
<1> USE DEF NamesInv
<1>1. DOMAIN at = Video /\ DOMAIN entry = SidecarName
  BY DEF NamesTypes
<1>2. ASSUME NEW f \in Video, moving.file # f PROVE Settled(f)
  BY <1>2 DEF AsRecorded, InMove
<1>3. ASSUME NEW f \in Video, recorded[f] \in Held("description", f)
      PROVE  OwnedDescriptionPath(recorded[f], f) = recorded[f]
  <2>1. recorded[f] \in SidecarName /\ entry[recorded[f]] = Doc("description", f)
    BY <1>1, <1>3 DEF Held
  <2>2. recorded[f] # Nowhere
    BY <2>1, NamesFit
  <2>3. Inspect(recorded[f], "description", f) = "owned"
    BY <2>1, InspectIs DEF Marker
  <2> QED
    BY <2>2, <2>3 DEF OwnedDescriptionPath, IsOwned
<1>4. ASSUME NEW f \in Video, moving.file # f
      PROVE  /\ at[f] = "mirror" =>
                  /\ recorded[f] \in Held("description", f)
                  /\ f \notin stray => Held("description", f) = {recorded[f]}
                  /\ OwnedDescriptionPath(recorded[f], f) = recorded[f]
             /\ at[f] = "archive" /\ f \notin stray => Held("description", f) = {}
             /\ Held("text", f) = IF HasText(f) THEN {sidecar[f]} ELSE {}
  <2>1. Settled(f)
    BY <1>2, <1>4
  <2>2. CASE at[f] = "mirror"
    BY <1>3, <2>1, <2>2 DEF Settled, Described, OnlyAt, Text
  <2>3. CASE at[f] # "mirror"
    BY <2>1, <2>3 DEF Settled, Undescribed, Text
  <2> QED
    BY <2>2, <2>3
<1>5. \A n \in planted : entry[n] = Foreign
  BY DEF NamesTypes
<1> QED
  BY <1>1, <1>4, <1>5, Zenon DEF OneDescription

LEMMA SettledSame ==
  ASSUME NEW g \in Video, Settled(g), at'[g] = at[g], recorded'[g] = recorded[g], sidecar'[g] = sidecar[g],
         g \in stray' <=> g \in stray, g \in keptText' <=> g \in keptText,
         Held("description", g)' = Held("description", g),
         Held("text", g)' = Held("text", g)
  PROVE  Settled(g)'
BY DEF Settled, Described, OnlyAt, Text, HasText, Undescribed

(* Nothing changes for a file while its names hold what they held.         *)
LEMMA OthersStay ==
  ASSUME NEW g \in Video, NamesInv, ~InMove(g), at'[g] = at[g], recorded'[g] = recorded[g], sidecar'[g] = sidecar[g],
         g \in stray' <=> g \in stray, g \in keptText' <=> g \in keptText, DOMAIN entry' = DOMAIN entry,
         \A n \in SidecarName : entry'[n] = entry[n] \/
            (\A marker \in Marker : entry[n] # Doc(marker, g) /\ entry'[n] # Doc(marker, g))
  PROVE  Settled(g)'
<1>1. DOMAIN entry = SidecarName /\ Settled(g)
  BY DEF NamesInv, NamesTypes, AsRecorded
<1>2. "description" \in Marker /\ "text" \in Marker
  BY DEF Marker
<1>3. Held("description", g)' = Held("description", g)
  BY <1>1, <1>2, HeldSame
<1>4. Held("text", g)' = Held("text", g)
  BY <1>1, <1>2, HeldSame
<1> QED
  BY <1>1, <1>3, <1>4, SettledSame

LEMMA MovingFile ==
  ASSUME NamesInv, moving # NoMove
  PROVE  \E f \in Video : /\ moving.file = f /\ InMove(f) /\ Underway(f) /\ moving \in Splitting \cup Restoring
                          /\ \A g \in Video : g # f => ~InMove(g)
<1>1. moving \in Splitting \cup Restoring
  BY DEF NamesInv, NamesTypes
<1>2. moving.file \in Video
  BY <1>1 DEF Splitting, Restoring
<1>3. PICK f \in Video : moving.file = f
  BY <1>2
<1>4. InMove(f) /\ \A g \in Video : g # f => ~InMove(g)
  BY <1>3 DEF InMove
<1>5. Underway(f)
  BY <1>4 DEF NamesInv, AsRecorded
<1> QED
  BY <1>1, <1>3, <1>4, <1>5

LEMMA NotAt ==
  ASSUME NEW op, NEW step, step # "none", At(op, step) PROVE moving # NoMove
BY DEF At, NoMove

LEMMA BeginKeeps ==
  ASSUME NamesInv, NEW f \in Video, NEW keep \in BOOLEAN, BeginSplit(f) \/ BeginRestore(f, keep)
  PROVE  NamesInv'
<1>1. /\ moving = NoMove
      /\ \/ at[f] = "archive" /\ moving' = [op |-> "split", file |-> f, step |-> "placed", keep |-> FALSE]
         \/ at[f] = "mirror" /\ moving' = [op |-> "restore", file |-> f, step |-> "placed", keep |-> keep]
      /\ UNCHANGED <<entry, planted, at, recorded, sidecar, listed, stray, keptText>>
  BY DEF BeginSplit, BeginRestore, BeginMove
<1>2. NamesTypes'
  <2>1. moving' \in Splitting \cup Restoring
    <3>1. [op |-> "split", file |-> f, step |-> "placed", keep |-> FALSE] \in Splitting
      BY DEF Splitting
    <3>2. [op |-> "restore", file |-> f, step |-> "placed", keep |-> keep] \in Restoring
      BY DEF Restoring
    <3> QED
      BY <1>1, <3>1, <3>2
  <2> QED
    BY <1>1, <2>1 DEF NamesInv, NamesTypes
<1>3. \A g \in Video : ~InMove(g) /\ Settled(g)
  BY <1>1 DEF NamesInv, AsRecorded, InMove
<1>4. ASSUME NEW g \in Video, g # f PROVE ~InMove(g)' /\ Settled(g)'
  <2>1. ~InMove(g)'
    BY <1>1, <1>4 DEF InMove
  <2>2. Settled(g)'
    BY <1>1, <1>3, SettledSame DEF Held
  <2> QED
    BY <2>1, <2>2
<1>5. InMove(f)' /\ Underway(f)'
  <2>1. InMove(f)'
    BY <1>1 DEF InMove, NoMove
  <2>2. CASE at[f] = "archive" /\ moving' = [op |-> "split", file |-> f, step |-> "placed", keep |-> FALSE]
    <3>1. Text(f)' /\ at'[f] = "archive" /\ (f \notin stray' => Held("description", f)' = {})
      BY <1>1, <1>3, <2>2 DEF Settled, Undescribed, Text, HasText, Held
    <3>2. OnlyAt(f, ChooseDescriptionPath(f))'
      BY <3>1 DEF OnlyAt
    <3>3. moving'.op = "split" /\ moving'.step = "placed"
      BY <2>2
    <3> QED
      BY <2>1, <3>1, <3>2, <3>3 DEF Underway, At
  <2>3. CASE at[f] = "mirror" /\ moving' = [op |-> "restore", file |-> f, step |-> "placed", keep |-> keep]
    <3>1. Described(f)' /\ Text(f)' /\ at'[f] = "mirror"
      BY <1>1, <1>3, <2>3 DEF Settled, Described, OnlyAt, Text, HasText, Held
    <3>2. moving'.op = "restore" /\ moving'.step = "placed" /\ OnlyAt(f, recorded[f])'
      BY <2>3, <3>1 DEF Described
    <3> QED
      BY <2>1, <3>1, <3>2 DEF Underway, At
  <2> QED
    BY <1>1, <2>1, <2>2, <2>3
<1> QED
  BY <1>2, <1>4, <1>5 DEF NamesInv, AsRecorded

(* A description or a text is written where it goes.                       *)
LEMMA WrittenAt ==
  ASSUME NamesInv, NEW marker \in Marker, NEW f \in Video, NEW path, path = FirstUsable(marker, f), path # Nowhere,
         entry' = [entry EXCEPT ![path] = Doc(marker, f)]
  PROVE  /\ path \in SidecarName /\ entry[path] \in {Empty, Doc(marker, f)} /\ entry'[path] = Doc(marker, f)
         /\ entry' \in [SidecarName -> {Empty, Foreign} \cup Docs]
         /\ \A n \in SidecarName : n # path => entry'[n] = entry[n]
         /\ FirstUsable(marker, f)' = path
         /\ Held(marker, f)' = Held(marker, f) \cup {path}
         /\ \A m \in Marker, g \in Video : m # marker \/ g # f => Held(m, g)' = Held(m, g)
<1>1. entry \in [SidecarName -> {Empty, Foreign} \cup Docs]
  BY DEF NamesInv, NamesTypes
<1>2. path \in SidecarName /\ Inspect(path, marker, f) # "foreign"
  BY ChosenIs
<1>3. entry[path] \in {Empty, Doc(marker, f)}
  BY <1>2, InspectIs
<1>4. entry'[path] = Doc(marker, f) /\ \A n \in SidecarName : n # path => entry'[n] = entry[n]
  BY <1>1, <1>2
<1>5. entry' \in [SidecarName -> {Empty, Foreign} \cup Docs]
  BY <1>1, <1>2 DEF Docs
<1>6. FirstUsable(marker, f)' = path
  BY <1>3, <1>4, ChosenStays
<1>7. Held(marker, f)' = Held(marker, f) \cup {path}
  BY <1>1, <1>2, <1>4, <1>5 DEF Held
<1>8. ASSUME NEW m \in Marker, NEW g \in Video, m # marker \/ g # f PROVE Held(m, g)' = Held(m, g)
  <2>1. Doc(marker, f) # Doc(m, g) /\ Empty # Doc(m, g)
    BY <1>8, DocsApart
  <2>2. \A n \in SidecarName : entry'[n] = entry[n] \/ (entry[n] # Doc(m, g) /\ entry'[n] # Doc(m, g))
    BY <1>3, <1>4, <2>1
  <2>3. DOMAIN entry' = DOMAIN entry /\ DOMAIN entry = SidecarName
    BY <1>1, <1>5
  <2> QED
    BY <2>2, <2>3, HeldSame
<1> QED
  BY <1>2, <1>3, <1>4, <1>5, <1>6, <1>7, <1>8

LEMMA PlantedKept ==
  ASSUME NamesInv, planted' = planted, \A n \in SidecarName : entry[n] = Foreign => entry'[n] = entry[n]
  PROVE  \A n \in planted' : entry'[n] = Foreign
BY DEF NamesInv, NamesTypes

LEMMA WriteDescriptionKeeps == ASSUME NamesInv, WriteDescription PROVE NamesInv'
<1>0. moving # NoMove /\ At("split", "placed")
  BY NotAt DEF WriteDescription
<1>1. PICK f \in Video : /\ moving.file = f /\ InMove(f) /\ Underway(f) /\ moving \in Splitting \cup Restoring
                         /\ \A g \in Video : g # f => ~InMove(g)
  BY <1>0, MovingFile
<1>2. PICK path : path = FirstUsable("description", f)
  OBVIOUS
<1>3. /\ path # Nowhere /\ entry' = [entry EXCEPT ![path] = Doc("description", f)]
      /\ moving' = [moving EXCEPT !.step = "written"]
      /\ UNCHANGED <<planted, at, recorded, sidecar, listed, stray, keptText>>
  BY <1>1, <1>2 DEF WriteDescription, ChooseDescriptionPath, GoTo
<1>4. "description" \in Marker /\ "text" \in Marker /\ "description" # "text"
  BY DEF Marker
<1>5. /\ path \in SidecarName /\ entry[path] \in {Empty, Doc("description", f)}
      /\ entry' \in [SidecarName -> {Empty, Foreign} \cup Docs]
      /\ \A n \in SidecarName : n # path => entry'[n] = entry[n]
      /\ FirstUsable("description", f)' = path
      /\ Held("description", f)' = Held("description", f) \cup {path}
      /\ \A m \in Marker, g \in Video : m # "description" \/ g # f => Held(m, g)' = Held(m, g)
  BY <1>2, <1>3, <1>4, WrittenAt, ZenonT(30)
<1>6. /\ moving' \in Splitting /\ moving' # NoMove
      /\ moving'.file = f /\ moving'.op = "split" /\ moving'.step = "written"
  BY <1>0, <1>1, <1>3 DEF Splitting, Restoring, At, NoMove
<1>7. NamesTypes'
  <2>1. \A n \in SidecarName : entry[n] = Foreign => entry'[n] = entry[n]
    BY <1>4, <1>5, DocsApart
  <2>2. \A n \in planted' : entry'[n] = Foreign
    BY <1>3, <2>1, PlantedKept
  <2> QED
    BY <1>3, <1>5, <1>6, <2>2 DEF NamesInv, NamesTypes
<1>8. ASSUME NEW g \in Video, g # f PROVE ~InMove(g)' /\ Settled(g)'
  <2>1. ~InMove(g)'
    BY <1>6, <1>8 DEF InMove
  <2>2. Settled(g)
    BY <1>1, <1>8 DEF NamesInv, AsRecorded
  <2>3. Held("description", g)' = Held("description", g) /\ Held("text", g)' = Held("text", g)
    BY <1>4, <1>5, <1>8
  <2> QED
    BY <1>3, <2>1, <2>2, <2>3, SettledSame
<1>9. InMove(f)' /\ Underway(f)'
  <2>1. InMove(f)'
    BY <1>6 DEF InMove
  <2>2. ChooseDescriptionPath(f)' = path
    BY <1>5 DEF ChooseDescriptionPath
  <2>3. at[f] = "archive" /\ Text(f) /\ (f \notin stray => Held("description", f) \subseteq {path})
    BY <1>0, <1>1, <1>2 DEF Underway, OnlyAt, ChooseDescriptionPath
  <2>4. at'[f] = "archive" /\ Text(f)' /\ OnlyAt(f, ChooseDescriptionPath(f))'
        /\ (ChooseDescriptionPath(f) \in Held("description", f))'
    BY <1>3, <1>4, <1>5, <2>2, <2>3 DEF Text, HasText, OnlyAt
  <2> QED
    BY <1>6, <2>1, <2>4 DEF Underway, At
<1> QED
  BY <1>7, <1>8, <1>9 DEF NamesInv, AsRecorded

(* Nothing but the step of the transaction and its own file changes.       *)
LEMMA RestSettled ==
  ASSUME NamesInv, NEW f \in Video, InMove(f), moving' = NoMove \/ moving'.file = f, NEW g \in Video, g # f,
         at'[g] = at[g], recorded'[g] = recorded[g], sidecar'[g] = sidecar[g], g \in stray' <=> g \in stray,
         g \in keptText' <=> g \in keptText,
         Held("description", g)' = Held("description", g), Held("text", g)' = Held("text", g)
  PROVE  ~InMove(g)' /\ Settled(g)'
<1>1. ~InMove(g)' /\ Settled(g)
  BY DEF InMove, NamesInv, AsRecorded
<1> QED
  BY <1>1, SettledSame

LEMMA RecordDescriptionKeeps == ASSUME NamesInv, RecordDescription PROVE NamesInv'
<1>0. moving # NoMove /\ At("split", "written")
  BY NotAt DEF RecordDescription
<1>1. PICK f \in Video : /\ moving.file = f /\ InMove(f) /\ Underway(f) /\ moving \in Splitting \cup Restoring
                         /\ \A g \in Video : g # f => ~InMove(g)
  BY <1>0, MovingFile
<1>2. PICK path : path = ChooseDescriptionPath(f)
  OBVIOUS
<1>3. /\ recorded' = [recorded EXCEPT ![f] = path] /\ at' = [at EXCEPT ![f] = "mirror"]
      /\ IF f \in Texted THEN moving' = [moving EXCEPT !.step = "text"] ELSE moving' = NoMove
      /\ UNCHANGED <<entry, planted, sidecar, listed, stray, keptText>>
  BY <1>1, <1>2 DEF RecordDescription, GoTo
<1>4. /\ at[f] = "archive" /\ Text(f) /\ (f \notin stray => Held("description", f) \subseteq {path})
      /\ path \in Held("description", f)
  BY <1>0, <1>1, <1>2 DEF Underway, OnlyAt
<1>5. path \in SidecarName
  BY <1>4 DEF Held, NamesInv, NamesTypes
<1>6. f \in Texted => /\ moving' \in Splitting /\ moving' # NoMove
                      /\ moving'.file = f /\ moving'.op = "split" /\ moving'.step = "text"
  BY <1>0, <1>1, <1>3 DEF Splitting, Restoring, At, NoMove
<1>7. NamesTypes'
  BY <1>3, <1>5, <1>6 DEF NamesInv, NamesTypes
<1>8. recorded'[f] = path /\ at'[f] = "mirror"
      /\ \A g \in Video : g # f => recorded'[g] = recorded[g] /\ at'[g] = at[g]
  BY <1>3 DEF NamesInv, NamesTypes
<1>9. ASSUME NEW g \in Video, g # f PROVE ~InMove(g)' /\ Settled(g)'
  <2>1. Held("description", g)' = Held("description", g) /\ Held("text", g)' = Held("text", g)
    BY <1>3 DEF Held
  <2> QED
    BY <1>1, <1>3, <1>6, <1>8, <1>9, <2>1, RestSettled
<1>10. Described(f)' /\ Held("text", f)' = IF f \in Texted /\ f \in keptText' THEN {sidecar'[f]} ELSE {}
  BY <1>3, <1>4, <1>8 DEF Described, OnlyAt, Text, HasText, Held
<1>11. IF InMove(f)' THEN Underway(f)' ELSE Settled(f)'
  <2>1. CASE f \in Texted
    <3>1. InMove(f)'
      BY <1>6, <2>1 DEF InMove
    <3> QED
      BY <1>6, <1>8, <1>10, <2>1, <3>1 DEF Underway, At
  <2>2. CASE f \notin Texted
    <3>1. ~InMove(f)'
      BY <1>3, <2>2 DEF InMove
    <3> QED
      BY <1>8, <1>10, <2>2, <3>1 DEF Settled, Text, HasText
  <2> QED
    BY <2>1, <2>2
<1> QED
  BY <1>7, <1>9, <1>11 DEF NamesInv, AsRecorded

(* A text that the restore kept is left where it is.                       *)
LEMMA PublishedKeeps == ASSUME NamesInv, WriteText, TextPublished(moving.file) PROVE NamesInv'
<1>0. moving # NoMove /\ At("split", "text")
  BY NotAt DEF WriteText
<1>1. PICK f \in Video : /\ moving.file = f /\ InMove(f) /\ Underway(f) /\ moving \in Splitting \cup Restoring
                         /\ \A g \in Video : g # f => ~InMove(g)
  BY <1>0, MovingFile
<1>2. /\ moving' = NoMove /\ UNCHANGED <<entry, planted, at, recorded, sidecar, listed, stray, keptText>>
      /\ TextPublished(f)
  BY <1>1 DEF WriteText
<1>3. NamesTypes'
  BY <1>2 DEF NamesInv, NamesTypes
<1>4. \A marker, g : Held(marker, g)' = Held(marker, g)
  BY <1>2 DEF Held
<1>5. ASSUME NEW g \in Video, g # f PROVE ~InMove(g)' /\ Settled(g)'
  BY <1>1, <1>2, <1>4, <1>5, RestSettled
<1>6. at[f] = "mirror" /\ f \in Texted /\ Described(f)
      /\ IF f \in keptText THEN Held("text", f) = {sidecar[f]} ELSE Held("text", f) \subseteq {ChooseTextSidecarPath(f)}
  BY <1>0, <1>1 DEF Underway
<1>7. sidecar[f] \in Held("text", f)
  <2>1. sidecar[f] \in SidecarName /\ DOMAIN entry = SidecarName
    BY <1>2 DEF NamesInv, NamesTypes, TextPublished
  <2>2. entry[sidecar[f]] = Doc("text", f)
    BY <1>2, InspectIs DEF TextPublished, Marker
  <2> QED
    BY <2>1, <2>2 DEF Held
<1>8. Held("text", f) = {sidecar[f]}
  BY <1>6, <1>7
<1>9. ~InMove(f)' /\ Settled(f)'
  <2>1. Described(f)' /\ Text(f)' /\ at'[f] = "mirror"
    BY <1>2, <1>4, <1>6, <1>8 DEF Described, OnlyAt, Text, HasText
  <2> QED
    BY <1>2, <2>1 DEF InMove, Settled
<1> QED
  BY <1>3, <1>5, <1>9 DEF NamesInv, AsRecorded

LEMMA TextWrittenKeeps == ASSUME NamesInv, WriteText, ~TextPublished(moving.file) PROVE NamesInv'
<1>0. moving # NoMove /\ At("split", "text")
  BY NotAt DEF WriteText
<1>1. PICK f \in Video : /\ moving.file = f /\ InMove(f) /\ Underway(f) /\ moving \in Splitting \cup Restoring
                         /\ \A g \in Video : g # f => ~InMove(g)
  BY <1>0, MovingFile
<1>2. PICK path : path = FirstUsable("text", f)
  OBVIOUS
<1>3. /\ path # Nowhere /\ entry' = [entry EXCEPT ![path] = Doc("text", f)]
      /\ moving' = [moving EXCEPT !.step = "texted"]
      /\ UNCHANGED <<planted, at, recorded, sidecar, listed, stray, keptText>> /\ ~TextPublished(f)
  BY <1>1, <1>2 DEF WriteText, ChooseTextSidecarPath, GoTo
<1>4. "description" \in Marker /\ "text" \in Marker /\ "description" # "text"
  BY DEF Marker
<1>5. /\ path \in SidecarName /\ entry[path] \in {Empty, Doc("text", f)}
      /\ entry' \in [SidecarName -> {Empty, Foreign} \cup Docs]
      /\ \A n \in SidecarName : n # path => entry'[n] = entry[n]
      /\ FirstUsable("text", f)' = path
      /\ Held("text", f)' = Held("text", f) \cup {path}
      /\ \A m \in Marker, g \in Video : m # "text" \/ g # f => Held(m, g)' = Held(m, g)
  BY <1>2, <1>3, <1>4, WrittenAt, ZenonT(30)
<1>6. /\ moving' \in Splitting /\ moving' # NoMove
      /\ moving'.file = f /\ moving'.op = "split" /\ moving'.step = "texted"
  BY <1>0, <1>1, <1>3 DEF Splitting, Restoring, At, NoMove
<1>7. NamesTypes'
  <2>1. \A n \in SidecarName : entry[n] = Foreign => entry'[n] = entry[n]
    BY <1>4, <1>5, DocsApart
  <2>2. \A n \in planted' : entry'[n] = Foreign
    BY <1>3, <2>1, PlantedKept
  <2> QED
    BY <1>3, <1>5, <1>6, <2>2 DEF NamesInv, NamesTypes
<1>8. ASSUME NEW g \in Video, g # f PROVE ~InMove(g)' /\ Settled(g)'
  <2>1. Held("description", g)' = Held("description", g) /\ Held("text", g)' = Held("text", g)
    BY <1>4, <1>5, <1>8
  <2> QED
    BY <1>1, <1>3, <1>6, <1>8, <2>1, RestSettled
<1>9. InMove(f)' /\ Underway(f)'
  <2>1. InMove(f)'
    BY <1>6 DEF InMove
  <2>2. ChooseTextSidecarPath(f)' = path
    BY <1>5 DEF ChooseTextSidecarPath
  <2>3. at[f] = "mirror" /\ f \in Texted /\ Described(f)
        /\ IF f \in keptText THEN Held("text", f) = {sidecar[f]} ELSE Held("text", f) \subseteq {path}
    BY <1>0, <1>1, <1>2 DEF Underway, ChooseTextSidecarPath
  <2>6. f \notin keptText
    <3> SUFFICES ASSUME f \in keptText PROVE TextPublished(f)
      BY <1>3
    <3>1. sidecar[f] \in SidecarName /\ entry[sidecar[f]] = Doc("text", f)
      BY <2>3 DEF Held, NamesInv, NamesTypes
    <3> QED
      BY <1>4, <3>1, NamesFit, InspectIs DEF TextPublished
  <2>4. Described(f)'
    BY <1>3, <1>4, <1>5, <2>3 DEF Described, OnlyAt
  <2>5. Held("text", f)' = {path} /\ at'[f] = "mirror"
    BY <1>3, <1>5, <2>3, <2>6
  <2> QED
    BY <1>3, <1>6, <2>1, <2>2, <2>3, <2>4, <2>5, <2>6 DEF Underway, At
<1> QED
  BY <1>7, <1>8, <1>9 DEF NamesInv, AsRecorded

LEMMA WriteTextKeeps == ASSUME NamesInv, WriteText PROVE NamesInv'
BY PublishedKeeps, TextWrittenKeeps

LEMMA RecordTextKeeps == ASSUME NamesInv, RecordText PROVE NamesInv'
<1>0. moving # NoMove /\ At("split", "texted")
  BY NotAt DEF RecordText
<1>1. PICK f \in Video : /\ moving.file = f /\ InMove(f) /\ Underway(f) /\ moving \in Splitting \cup Restoring
                         /\ \A g \in Video : g # f => ~InMove(g)
  BY <1>0, MovingFile
<1>2. PICK path : path = ChooseTextSidecarPath(f)
  OBVIOUS
<1>3. /\ sidecar' = [sidecar EXCEPT ![f] = path] /\ moving' = NoMove
      /\ UNCHANGED <<entry, planted, at, recorded, listed, stray, keptText>>
  BY <1>1, <1>2 DEF RecordText
<1>4. at[f] = "mirror" /\ f \in Texted /\ Described(f) /\ Held("text", f) = {path}
  BY <1>0, <1>1, <1>2 DEF Underway
<1>5. path \in SidecarName
  BY <1>4 DEF Held, NamesInv, NamesTypes
<1>6. NamesTypes'
  BY <1>3, <1>5 DEF NamesInv, NamesTypes
<1>7. sidecar'[f] = path /\ \A g \in Video : g # f => sidecar'[g] = sidecar[g]
  BY <1>3 DEF NamesInv, NamesTypes
<1>8. ASSUME NEW g \in Video, g # f PROVE ~InMove(g)' /\ Settled(g)'
  <2>1. Held("description", g)' = Held("description", g) /\ Held("text", g)' = Held("text", g)
    BY <1>3 DEF Held
  <2> QED
    BY <1>1, <1>3, <1>7, <1>8, <2>1, RestSettled
<1>9. ~InMove(f)' /\ Settled(f)'
  <2>1. Described(f)' /\ Text(f)' /\ at'[f] = "mirror"
    BY <1>3, <1>4, <1>7 DEF Described, OnlyAt, Text, HasText, Held
  <2> QED
    BY <1>3, <2>1 DEF InMove, Settled
<1> QED
  BY <1>6, <1>8, <1>9 DEF NamesInv, AsRecorded

(* What a restore may remove: the listed path and the fixed names.         *)
LEMMA RemovalCandidates ==
  ASSUME NamesInv, NEW f \in Video
  PROVE  LET names == DescriptionCandidates(f)
         IN  /\ DOMAIN names \subseteq Nat
             /\ \A i \in Fitting(names) : names[i] \in SidecarName
             /\ \A n \in SidecarName : n = listed[f] \/ n \in ToSet(FixedNames(f, <<".md">>)) =>
                  \E i \in DOMAIN names : names[i] = n
<1> DEFINE fixed == FixedNames(f, <<".md">>)
           a == fixed[1]
           b == fixed[2]
           names == DescriptionCandidates(f)
<1>1. fixed = <<a, b>> /\ Len(fixed) = 2
  BY DEF FixedNames
<1>2. listed[f] \in SidecarName \cup {Nowhere}
  BY DEF NamesInv, NamesTypes
<1>3. \A i \in {1, 2} : FitsName(fixed[i]) => fixed[i] \in SidecarName
  <2> SUFFICES ASSUME NEW i \in {1, 2}, FitsName(fixed[i]) PROVE fixed[i] \in SidecarName
    OBVIOUS
  <2> DEFINE all == CandidateNames("description", f)
  <2>1. Ending("description") = <<".md">>
    BY DEF Ending
  <2> DEFINE S == {a, b} \cup {IndexedName(f, j, <<".md">>) : j \in DOMAIN Number}
  <2>2. fixed \in Seq(S)
    <3>1. a \in S /\ b \in S
      OBVIOUS
    <3> HIDE DEF S, a, b, fixed
    <3> QED
      BY <1>1, <3>1
  <2>3. IndexedNames(f, <<".md">>) \in Seq(S)
    <3>1. DOMAIN Number = 1..Len(Number) /\ Len(Number) \in Nat
      BY NamesAssumption
    <3>2. \A j \in 1..Len(Number) : IndexedName(f, j, <<".md">>) \in S
      BY <3>1
    <3> HIDE DEF S
    <3> QED
      BY <3>1, <3>2 DEF IndexedNames
  <2>4. all = fixed \o IndexedNames(f, <<".md">>)
    BY <2>1 DEF CandidateNames
  <2> HIDE DEF S, fixed, all
  <2>5. all \in Seq(S) /\ all[i] = fixed[i] /\ i \in DOMAIN all
    <3>1. i \in 1..Len(fixed)
      BY <1>1
    <3>2. all \in Seq(S) /\ Len(all) = Len(fixed) + Len(IndexedNames(f, <<".md">>)) /\ all[i] = fixed[i]
      BY <2>2, <2>3, <2>4, <3>1, ConcatIs
    <3>3. Len(IndexedNames(f, <<".md">>)) \in Nat
      BY <2>3
    <3> QED
      BY <1>1, <3>2, <3>3
  <2>6. i \in Fitting(all)
    BY <2>5 DEF Fitting
  <2>7. "description" \in Marker
    BY DEF Marker
  <2> USE DEF all
  <2> QED
    BY <2>5, <2>6, <2>7, CandidateIsName
<1>4. ToSet(fixed) = {a, b}
  BY <1>1 DEF ToSet
<1> HIDE DEF a, b, fixed
<1>5. CASE listed[f] = Nowhere
  <2>1. names = <<>> \o fixed
    BY <1>5 DEF DescriptionCandidates, fixed
  <2>2. DOMAIN names = {1, 2} /\ names[1] = a /\ names[2] = b
    BY <1>1, <2>1
  <2>3. \A i \in Fitting(names) : names[i] \in SidecarName
    BY <1>3, <2>2 DEF Fitting, a, b
  <2>4. ASSUME NEW n \in SidecarName, n = listed[f] \/ n \in ToSet(fixed) PROVE \E i \in DOMAIN names : names[i] = n
    BY <1>4, <1>5, <2>2, <2>4, NamesFit
  <2> QED
    BY <2>2, <2>3, <2>4 DEF fixed
<1>6. CASE listed[f] # Nowhere
  <2>1. names = <<listed[f]>> \o fixed
    BY <1>6 DEF DescriptionCandidates, fixed
  <2>2. DOMAIN names = {1, 2, 3} /\ names[1] = listed[f] /\ names[2] = a /\ names[3] = b
    BY <1>1, <2>1
  <2>3. \A i \in Fitting(names) : names[i] \in SidecarName
    BY <1>2, <1>3, <1>6, <2>2 DEF Fitting, a, b
  <2>4. ASSUME NEW n \in SidecarName, n = listed[f] \/ n \in ToSet(fixed) PROVE \E i \in DOMAIN names : names[i] = n
    BY <1>4, <2>2, <2>4
  <2> QED
    BY <2>2, <2>3, <2>4 DEF fixed
<1> QED
  BY <1>5, <1>6

(* What it removes is a description of the file; it finds the recorded one *)
(* unless it cannot know its name.                                         *)
LEMMA RemovedIs ==
  ASSUME NamesInv, NEW f \in Video
  PROVE  /\ \/ OwnedDescription(f) = Nowhere
            \/ OwnedDescription(f) \in Held("description", f)
         /\ recorded[f] \in Held("description", f) /\ ~Unknown(f) => OwnedDescription(f) # Nowhere
<1> DEFINE names == DescriptionCandidates(f)
           good == {i \in Fitting(names) : IsOwned(names[i], f)}
<1>1. /\ DOMAIN names \subseteq Nat
      /\ \A i \in Fitting(names) : names[i] \in SidecarName
      /\ \A n \in SidecarName : n = listed[f] \/ n \in ToSet(FixedNames(f, <<".md">>)) =>
           \E i \in DOMAIN names : names[i] = n
  BY RemovalCandidates
<1>2. OwnedDescription(f) = FirstOf(names, good)
  BY DEF OwnedDescription
<1>3. DOMAIN entry = SidecarName
  BY DEF NamesInv, NamesTypes
<1>4. \A n : IsOwned(n, f) <=> n # Nowhere /\ entry[n] = Doc("description", f)
  BY InspectIs DEF IsOwned, Marker
<1>5. good # {} => OwnedDescription(f) \in Held("description", f)
  <2> SUFFICES ASSUME good # {} PROVE OwnedDescription(f) \in Held("description", f)
    OBVIOUS
  <2>1. good \subseteq Nat
    BY <1>1 DEF Fitting
  <2> HIDE DEF good
  <2>2. PICK i \in good : FirstOf(names, good) = names[i]
    BY <2>1, FirstIs
  <2> USE DEF good
  <2>3. names[i] \in SidecarName /\ entry[names[i]] = Doc("description", f)
    BY <1>1, <1>4
  <2> QED
    BY <1>2, <1>3, <2>2, <2>3 DEF Held
<1>6. good = {} => OwnedDescription(f) = Nowhere
  BY <1>2 DEF FirstOf
<1>7. ASSUME recorded[f] \in Held("description", f), ~Unknown(f) PROVE OwnedDescription(f) # Nowhere
  <2>1. recorded[f] \in SidecarName /\ entry[recorded[f]] = Doc("description", f)
    BY <1>3, <1>7 DEF Held
  <2>2. PICK i \in DOMAIN names : names[i] = recorded[f]
    BY <1>1, <1>7, <2>1 DEF Unknown
  <2>3. FitsName(names[i]) /\ names[i] # Nowhere
    BY <2>1, <2>2, NamesFit
  <2>4. i \in good
    BY <1>4, <2>1, <2>2, <2>3 DEF Fitting
  <2>5. OwnedDescription(f) \in Held("description", f)
    BY <1>5, <2>4
  <2> QED
    BY <1>3, <2>5, NamesFit DEF Held
<1> QED
  BY <1>5, <1>6, <1>7

LEMMA RemoveDescriptionKeeps == ASSUME NamesInv, RemoveDescription PROVE NamesInv'
<1>0. moving # NoMove /\ At("restore", "placed")
  BY NotAt DEF RemoveDescription
<1>1. PICK f \in Video : /\ moving.file = f /\ InMove(f) /\ Underway(f) /\ moving \in Splitting \cup Restoring
                         /\ \A g \in Video : g # f => ~InMove(g)
  BY <1>0, MovingFile
<1>2. PICK path : path = OwnedDescription(f)
  OBVIOUS
<1>3. /\ entry' = IF moving.keep THEN entry
                  ELSE [n \in SidecarName |-> IF n = path THEN Empty ELSE entry[n]]
      /\ stray' = IF moving.keep \/ Unknown(f) THEN stray \cup {f} ELSE stray
      /\ moving' = [moving EXCEPT !.step = "removed"]
      /\ UNCHANGED <<planted, at, recorded, sidecar, listed, keptText>>
  BY <1>1, <1>2 DEF RemoveDescription, GoTo
<1>4. "description" \in Marker /\ "text" \in Marker /\ "description" # "text"
  BY DEF Marker
<1>5. at[f] = "mirror" /\ Text(f) /\ OnlyAt(f, recorded[f])
  BY <1>0, <1>1 DEF Underway
<1>6. /\ path = Nowhere \/ path \in Held("description", f)
      /\ recorded[f] \in Held("description", f) /\ ~Unknown(f) => path # Nowhere
  BY <1>2, RemovedIs
<1>7. entry \in [SidecarName -> {Empty, Foreign} \cup Docs]
  BY DEF NamesInv, NamesTypes
<1>8. entry' \in [SidecarName -> {Empty, Foreign} \cup Docs] /\ DOMAIN entry' = DOMAIN entry
  BY <1>3, <1>7
<1>9. \A n \in SidecarName : \/ entry'[n] = entry[n]
                             \/ n = path /\ ~moving.keep /\ entry[n] = Doc("description", f) /\ entry'[n] = Empty
  <2> SUFFICES ASSUME NEW n \in SidecarName, entry'[n] # entry[n]
               PROVE  n = path /\ ~moving.keep /\ entry[n] = Doc("description", f) /\ entry'[n] = Empty
    OBVIOUS
  <2>1. n = path /\ ~moving.keep /\ entry'[n] = Empty
    BY <1>3
  <2>2. n # Nowhere
    BY NamesFit
  <2> QED
    BY <1>6, <2>1, <2>2 DEF Held
<1>10. \A m \in Marker, g \in Video : m # "description" \/ g # f => Held(m, g)' = Held(m, g)
  <2> SUFFICES ASSUME NEW m \in Marker, NEW g \in Video, m # "description" \/ g # f PROVE Held(m, g)' = Held(m, g)
    OBVIOUS
  <2>1. Doc("description", f) # Doc(m, g) /\ Empty # Doc(m, g)
    BY DocsApart
  <2>2. \A n \in SidecarName : entry'[n] = entry[n] \/ (entry[n] # Doc(m, g) /\ entry'[n] # Doc(m, g))
    BY <1>9, <2>1
  <2> QED
    BY <1>7, <1>8, <2>2, HeldSame
<1>11. /\ moving' \in Restoring /\ moving' # NoMove
       /\ moving'.file = f /\ moving'.op = "restore" /\ moving'.step = "removed"
  BY <1>0, <1>1, <1>3 DEF Splitting, Restoring, At, NoMove
<1>12. NamesTypes'
  <2>1. \A n \in SidecarName : entry[n] = Foreign => entry'[n] = entry[n]
    BY <1>4, <1>9, DocsApart
  <2>2. \A n \in planted' : entry'[n] = Foreign
    BY <1>3, <2>1, PlantedKept
  <2> QED
    BY <1>3, <1>8, <1>11, <2>2 DEF NamesInv, NamesTypes
<1>13. ASSUME NEW g \in Video, g # f PROVE ~InMove(g)' /\ Settled(g)'
  <2>1. Held("description", g)' = Held("description", g) /\ Held("text", g)' = Held("text", g)
    BY <1>4, <1>10, <1>13
  <2> QED
    BY <1>1, <1>3, <1>11, <1>13, <2>1, RestSettled
<1>14. Undescribed(f)'
  <2> SUFFICES ASSUME f \notin stray', NEW n \in SidecarName, entry'[n] = Doc("description", f) PROVE FALSE
    BY <1>7, <1>8 DEF Undescribed, Held
  <2>1. ~moving.keep /\ ~Unknown(f) /\ f \notin stray
    BY <1>3
  <2>2. entry[n] = Doc("description", f)
    BY <1>4, <1>9, DocsApart
  <2>3. n = recorded[f] /\ n \in Held("description", f)
    BY <1>5, <1>7, <2>1, <2>2 DEF OnlyAt, Held
  <2>4. path = n
    BY <1>5, <1>6, <2>1, <2>3 DEF OnlyAt
  <2>5. entry'[n] = Empty
    BY <1>3, <2>1, <2>4
  <2> QED
    BY <1>4, <2>5, DocsApart
<1>15. InMove(f)' /\ Underway(f)'
  <2>1. InMove(f)' /\ at'[f] = "mirror"
    BY <1>3, <1>5, <1>11 DEF InMove
  <2>2. Text(f)'
    BY <1>3, <1>4, <1>5, <1>10 DEF Text, HasText
  <2> QED
    BY <1>11, <1>14, <2>1, <2>2 DEF Underway, At
<1> QED
  BY <1>12, <1>13, <1>15 DEF NamesInv, AsRecorded

LEMMA EndRestoreKeeps == ASSUME NamesInv, EndRestore PROVE NamesInv'
<1>0. moving # NoMove /\ At("restore", "removed")
  BY NotAt DEF EndRestore
<1>1. PICK f \in Video : /\ moving.file = f /\ InMove(f) /\ Underway(f) /\ moving \in Splitting \cup Restoring
                         /\ \A g \in Video : g # f => ~InMove(g)
  BY <1>0, MovingFile
<1>2. /\ at' = [at EXCEPT ![f] = "archive"]
      /\ moving' = NoMove
      /\ UNCHANGED <<planted, recorded, listed, stray>>
      /\ \/ moving.keep /\ keptText' = keptText \cup {f} /\ UNCHANGED <<entry, sidecar>>
         \/ /\ ~moving.keep /\ keptText' = keptText \ {f}
            /\ entry' = [n \in SidecarName |->
                           IF n = sidecar[f] /\ Inspect(n, "text", f) = "owned" THEN Empty ELSE entry[n]]
            /\ sidecar' = [sidecar EXCEPT ![f] = Nowhere]
  BY <1>1 DEF EndRestore
<1>3. "description" \in Marker /\ "text" \in Marker /\ "description" # "text"
  BY DEF Marker
<1>4. at[f] = "mirror" /\ Text(f) /\ Undescribed(f)
  BY <1>0, <1>1 DEF Underway
<1>5. entry \in [SidecarName -> {Empty, Foreign} \cup Docs]
  BY DEF NamesInv, NamesTypes
<1>6. entry' \in [SidecarName -> {Empty, Foreign} \cup Docs] /\ DOMAIN entry' = DOMAIN entry
  BY <1>2, <1>5
<1>7. \A n \in SidecarName : \/ entry'[n] = entry[n]
                             \/ n = sidecar[f] /\ entry[n] = Doc("text", f) /\ entry'[n] = Empty
  BY <1>2, <1>3, InspectIs
<1>8. \A m \in Marker, g \in Video : m # "text" \/ g # f => Held(m, g)' = Held(m, g)
  <2> SUFFICES ASSUME NEW m \in Marker, NEW g \in Video, m # "text" \/ g # f PROVE Held(m, g)' = Held(m, g)
    OBVIOUS
  <2>1. Doc("text", f) # Doc(m, g) /\ Empty # Doc(m, g)
    BY DocsApart
  <2>2. \A n \in SidecarName : entry'[n] = entry[n] \/ (entry[n] # Doc(m, g) /\ entry'[n] # Doc(m, g))
    BY <1>7, <2>1
  <2> QED
    BY <1>5, <1>6, <2>2, HeldSame
<1>9. NamesTypes'
  <2>1. \A n \in SidecarName : entry[n] = Foreign => entry'[n] = entry[n]
    BY <1>3, <1>7, DocsApart
  <2>2. \A n \in planted' : entry'[n] = Foreign
    BY <1>2, <2>1, PlantedKept
  <2> QED
    BY <1>2, <1>6, <2>2 DEF NamesInv, NamesTypes
<1>10. at'[f] = "archive" /\ \A g \in Video : g # f => at'[g] = at[g] /\ sidecar'[g] = sidecar[g]
  BY <1>2 DEF NamesInv, NamesTypes
<1>11. ASSUME NEW g \in Video, g # f PROVE ~InMove(g)' /\ Settled(g)'
  <2>1. Held("description", g)' = Held("description", g) /\ Held("text", g)' = Held("text", g)
    BY <1>3, <1>8, <1>11
  <2> QED
    BY <1>1, <1>2, <1>10, <1>11, <2>1, RestSettled
<1>12. Text(f)'
  <2>1. CASE moving.keep
    <3>1. HasText(f)' <=> HasText(f)
      BY <1>2, <1>4, <1>10, <2>1 DEF HasText
    <3>2. Held("text", f)' = Held("text", f) /\ sidecar'[f] = sidecar[f]
      BY <1>2, <2>1 DEF Held
    <3> QED
      BY <1>4, <3>1, <3>2 DEF Text
  <2>2. CASE ~moving.keep
    <3>1. ~HasText(f)'
      BY <1>2, <1>10, <2>2 DEF HasText
    <3>2. ASSUME NEW n \in SidecarName, entry'[n] = Doc("text", f) PROVE FALSE
      <4>1. entry[n] = Doc("text", f)
        BY <1>3, <1>7, <3>2, DocsApart
      <4>2. n = sidecar[f]
        BY <1>4, <1>5, <4>1 DEF Text, Held
      <4>3. Inspect(n, "text", f) = "owned"
        BY <1>3, <4>1, InspectIs
      <4>4. entry'[n] = Empty
        BY <1>2, <2>2, <4>2, <4>3
      <4> QED
        BY <1>3, <3>2, <4>4, DocsApart
    <3>3. Held("text", f)' = {}
      BY <1>5, <1>6, <3>2 DEF Held
    <3> QED
      BY <3>1, <3>3 DEF Text
  <2> QED
    BY <2>1, <2>2
<1>13. Undescribed(f)'
  BY <1>2, <1>3, <1>4, <1>8 DEF Undescribed
<1>14. ~InMove(f)' /\ Settled(f)'
  BY <1>2, <1>10, <1>12, <1>13 DEF InMove, Settled
<1> QED
  BY <1>9, <1>11, <1>14 DEF NamesInv, AsRecorded

LEMMA DieKeeps == ASSUME NamesInv, Die PROVE NamesInv'
<1>0. moving.step \in {"written", "removed", "texted"}
  BY DEF Die, Repeat
<1>1. PICK f \in Video : /\ moving.file = f /\ InMove(f) /\ Underway(f) /\ moving \in Splitting \cup Restoring
                         /\ \A g \in Video : g # f => ~InMove(g)
  <2>1. moving # NoMove
    BY <1>0 DEF NoMove
  <2> QED
    BY <2>1, MovingFile
<1>2. /\ moving' = [moving EXCEPT !.step = Repeat[moving.step]]
      /\ UNCHANGED <<entry, planted, at, recorded, sidecar, listed, stray, keptText>>
  BY DEF Die, GoTo
<1>3. Repeat["written"] = "placed" /\ Repeat["removed"] = "placed" /\ Repeat["texted"] = "text"
  BY DEF Repeat
<1>4. \A marker, g : Held(marker, g)' = Held(marker, g)
  BY <1>2 DEF Held
<1>5. ChooseDescriptionPath(f)' = ChooseDescriptionPath(f) /\ ChooseTextSidecarPath(f)' = ChooseTextSidecarPath(f)
  BY <1>2 DEF ChooseDescriptionPath, ChooseTextSidecarPath, FirstUsable, Inspect
<1>6. /\ moving' \in Splitting \cup Restoring /\ moving'.file = f /\ moving' # NoMove /\ Underway(f)'
  <2>1. CASE moving.step = "written"
    <3>1. moving \in Splitting /\ moving.op = "split"
      BY <1>1, <2>1 DEF Splitting, Restoring
    <3>2. moving' = [moving EXCEPT !.step = "placed"]
      BY <1>2, <1>3, <2>1
    <3>3. moving' \in Splitting /\ moving'.file = f /\ moving'.step = "placed" /\ moving'.op = "split"
      BY <1>1, <3>1, <3>2 DEF Splitting
    <3>4. at[f] = "archive" /\ Text(f) /\ OnlyAt(f, ChooseDescriptionPath(f))
      BY <1>1, <2>1, <3>1 DEF Underway, At
    <3>5. at'[f] = "archive" /\ Text(f)' /\ OnlyAt(f, ChooseDescriptionPath(f))'
      BY <1>2, <1>4, <1>5, <3>4 DEF Text, HasText, OnlyAt
    <3> QED
      BY <3>3, <3>5 DEF Underway, At, NoMove
  <2>2. CASE moving.step = "removed"
    <3>1. moving \in Restoring /\ moving.op = "restore"
      BY <1>1, <2>2 DEF Splitting, Restoring
    <3>2. moving' = [moving EXCEPT !.step = "placed"]
      BY <1>2, <1>3, <2>2
    <3>3. moving' \in Restoring /\ moving'.file = f /\ moving'.step = "placed" /\ moving'.op = "restore"
      BY <1>1, <3>1, <3>2 DEF Restoring
    <3>4. at[f] = "mirror" /\ Text(f) /\ Undescribed(f)
      BY <1>1, <2>2, <3>1 DEF Underway, At
    <3>5. at'[f] = "mirror" /\ Text(f)' /\ OnlyAt(f, recorded[f])'
      BY <1>2, <1>4, <3>4 DEF Text, HasText, OnlyAt, Undescribed
    <3> QED
      BY <3>3, <3>5 DEF Underway, At, NoMove
  <2>3. CASE moving.step = "texted"
    <3>1. moving \in Splitting /\ moving.op = "split"
      BY <1>1, <2>3 DEF Splitting, Restoring
    <3>2. moving' = [moving EXCEPT !.step = "text"]
      BY <1>2, <1>3, <2>3
    <3>3. moving' \in Splitting /\ moving'.file = f /\ moving'.step = "text" /\ moving'.op = "split"
      BY <1>1, <3>1, <3>2 DEF Splitting
    <3>4. /\ at[f] = "mirror" /\ f \in Texted /\ Described(f)
          /\ f \notin keptText /\ Held("text", f) \subseteq {ChooseTextSidecarPath(f)}
      BY <1>1, <2>3, <3>1 DEF Underway, At
    <3>5. /\ at'[f] = "mirror" /\ Described(f)'
          /\ f \notin keptText' /\ Held("text", f)' \subseteq {ChooseTextSidecarPath(f)'}
      BY <1>2, <1>4, <1>5, <3>4 DEF Described, OnlyAt
    <3> QED
      BY <3>3, <3>4, <3>5 DEF Underway, At, NoMove
  <2> QED
    BY <1>0, <2>1, <2>2, <2>3
<1>7. NamesTypes'
  BY <1>2, <1>6 DEF NamesInv, NamesTypes
<1>8. ASSUME NEW g \in Video, g # f PROVE ~InMove(g)' /\ Settled(g)'
  BY <1>1, <1>2, <1>4, <1>6, <1>8, RestSettled
<1>9. InMove(f)'
  BY <1>6 DEF InMove
<1> QED
  BY <1>6, <1>7, <1>8, <1>9 DEF NamesInv, AsRecorded

LEMMA ReportKeeps == ASSUME NamesInv, Report PROVE NamesInv'
<1>1. /\ moving = NoMove /\ UNCHANGED <<entry, planted, at, moving, recorded, sidecar, stray, keptText>>
      /\ \E kept \in {listed, [f \in Video |-> Nowhere]} :
           listed' = [f \in Video |-> IF at[f] = "mirror" THEN recorded[f] ELSE kept[f]]
  BY DEF Report
<1>2. NamesTypes'
  <2>1. listed' \in [Video -> SidecarName \cup {Nowhere}]
    BY <1>1 DEF NamesInv, NamesTypes
  <2> QED
    BY <1>1, <2>1 DEF NamesInv, NamesTypes
<1>3. ASSUME NEW g \in Video PROVE ~InMove(g)' /\ Settled(g)'
  <2>1. ~InMove(g)' /\ Settled(g)
    BY <1>1 DEF InMove, NamesInv, AsRecorded
  <2>2. \A marker : Held(marker, g)' = Held(marker, g)
    BY <1>1 DEF Held
  <2> QED
    BY <1>1, <2>1, <2>2, SettledSame
<1> QED
  BY <1>2, <1>3 DEF NamesInv, AsRecorded

(* A file of the operator comes or goes: no name that a file holds is      *)
(* another one's.                                                          *)
LEMMA ForeignApart ==
  ASSUME NamesInv, NEW n \in SidecarName, NEW old, NEW new, {old, new} = {Empty, Foreign},
         entry[n] = old, entry' = [entry EXCEPT ![n] = new]
  PROVE  /\ entry' \in [SidecarName -> {Empty, Foreign} \cup Docs]
         /\ entry'[n] = new /\ \A m \in SidecarName : m # n => entry'[m] = entry[m]
         /\ \A marker \in Marker : \A g : Held(marker, g)' = Held(marker, g)
<1>1. entry \in [SidecarName -> {Empty, Foreign} \cup Docs]
  BY DEF NamesInv, NamesTypes
<1>2. new \in {Empty, Foreign} /\ old \in {Empty, Foreign}
  OBVIOUS
<1>3. entry' \in [SidecarName -> {Empty, Foreign} \cup Docs] /\ entry'[n] = new
      /\ \A m \in SidecarName : m # n => entry'[m] = entry[m]
  BY <1>1, <1>2
<1>4. ASSUME NEW marker \in Marker, NEW g PROVE Held(marker, g)' = Held(marker, g)
  <2>1. Doc(marker, g) # old /\ Doc(marker, g) # new
    BY <1>2, DocsApart
  <2> QED
    BY <1>1, <1>3, <2>1, HeldSame
<1> QED
  BY <1>3, <1>4

(* The path of a file that has something there stays the chosen one.       *)
LEMMA PlantedElsewhere ==
  ASSUME NamesInv, NEW n \in SidecarName, entry[n] = Empty, entry' = [entry EXCEPT ![n] = Foreign],
         NEW marker \in Marker, NEW f \in Video, FirstUsable(marker, f) \in Held(marker, f)
  PROVE  FirstUsable(marker, f)' = FirstUsable(marker, f)
<1> DEFINE path == FirstUsable(marker, f)
<1>1. entry \in [SidecarName -> {Empty, Foreign} \cup Docs]
  BY DEF NamesInv, NamesTypes
<1>2. path \in SidecarName /\ entry[path] = Doc(marker, f)
  BY <1>1 DEF Held
<1>3. path # Nowhere /\ path # n
  BY <1>2, NamesFit, DocsApart
<1>4. \A m \in SidecarName : m # n => entry'[m] = entry[m]
  BY <1>1
<1>5. entry'[path] = Doc(marker, f)
  BY <1>2, <1>3, <1>4
<1>6. \A m \in SidecarName : entry[m] \notin {Empty, Doc(marker, f)} => entry'[m] \notin {Empty, Doc(marker, f)}
  BY <1>4
<1> QED
  BY <1>3, <1>5, <1>6, ChosenStays

LEMMA PlantFileKeeps == ASSUME NamesInv, NEW n \in DOMAIN entry, PlantFile(n) PROVE NamesInv'
<1>1. /\ n \in SidecarName /\ entry[n] = Empty /\ entry' = [entry EXCEPT ![n] = Foreign] /\ planted' = planted \cup {n}
      /\ UNCHANGED <<at, moving, recorded, sidecar, listed, stray, keptText>>
  BY DEF PlantFile, NamesInv, NamesTypes
<1>2. /\ entry' \in [SidecarName -> {Empty, Foreign} \cup Docs]
      /\ entry'[n] = Foreign /\ \A m \in SidecarName : m # n => entry'[m] = entry[m]
      /\ \A marker \in Marker : \A g : Held(marker, g)' = Held(marker, g)
  BY <1>1, ForeignApart
<1>3. "description" \in Marker /\ "text" \in Marker
  BY DEF Marker
<1>4. NamesTypes'
  BY <1>1, <1>2 DEF NamesInv, NamesTypes
<1>5. ASSUME NEW g \in Video, ~InMove(g) PROVE ~InMove(g)' /\ Settled(g)'
  <2>1. ~InMove(g)' /\ Settled(g)
    BY <1>1, <1>5 DEF InMove, NamesInv, AsRecorded
  <2> QED
    BY <1>1, <1>2, <1>3, <2>1, SettledSame
<1>6. ASSUME NEW f \in Video, InMove(f) PROVE InMove(f)' /\ Underway(f)'
  <2>1. InMove(f)' /\ Underway(f)
    BY <1>1, <1>6 DEF InMove, NamesInv, AsRecorded
  <2>2. PICK path, text : path = ChooseDescriptionPath(f) /\ text = ChooseTextSidecarPath(f)
    OBVIOUS
  <2>3. PICK later, after : later = ChooseDescriptionPath(f)' /\ after = ChooseTextSidecarPath(f)'
    OBVIOUS
  <2>4. path \in Held("description", f) => later = path
    BY <1>1, <1>3, <2>2, <2>3, PlantedElsewhere DEF ChooseDescriptionPath
  <2>5. text \in Held("text", f) => after = text
    BY <1>1, <1>3, <2>2, <2>3, PlantedElsewhere DEF ChooseTextSidecarPath
  <2>6. Held("description", f)' = Held("description", f) /\ Held("text", f)' = Held("text", f)
    BY <1>2, <1>3
  <2>7. \A op, step : At(op, step)' <=> At(op, step)
    BY <1>1 DEF At
  <2>8. OnlyAt(f, path) => (f \notin stray' => Held("description", f)' \subseteq {later})
    BY <1>1, <2>4, <2>6 DEF OnlyAt
  <2>9. Held("text", f) \subseteq {text} => Held("text", f)' \subseteq {after}
    BY <2>5, <2>6
  <2>10. /\ Described(f) => Described(f)'
         /\ Text(f) => Text(f)'
         /\ Undescribed(f) => Undescribed(f)'
         /\ OnlyAt(f, recorded[f]) => OnlyAt(f, recorded[f])'
    BY <1>1, <2>6 DEF Described, Text, HasText, Undescribed, OnlyAt
  <2>11. At("split", "placed")' => at'[f] = "archive" /\ Text(f)' /\ OnlyAt(f, ChooseDescriptionPath(f))'
    BY <1>1, <2>1, <2>2, <2>3, <2>7, <2>8, <2>10 DEF Underway, OnlyAt
  <2>12. At("split", "written")' => /\ at'[f] = "archive" /\ Text(f)' /\ OnlyAt(f, ChooseDescriptionPath(f))'
                                    /\ ChooseDescriptionPath(f)' \in Held("description", f)'
    BY <1>1, <2>1, <2>2, <2>3, <2>4, <2>6, <2>7, <2>8, <2>10 DEF Underway, OnlyAt
  <2>13. At("split", "text")' => /\ at'[f] = "mirror" /\ f \in Texted /\ Described(f)'
                                 /\ IF f \in keptText' THEN Held("text", f)' = {sidecar'[f]}
                                    ELSE Held("text", f)' \subseteq {ChooseTextSidecarPath(f)'}
    BY <1>1, <2>1, <2>2, <2>3, <2>6, <2>7, <2>9, <2>10 DEF Underway
  <2>14. At("split", "texted")' => /\ at'[f] = "mirror" /\ f \in Texted /\ Described(f)'
                                   /\ f \notin keptText' /\ Held("text", f)' = {ChooseTextSidecarPath(f)'}
    BY <1>1, <2>1, <2>2, <2>3, <2>5, <2>6, <2>7, <2>10 DEF Underway
  <2>15. At("restore", "placed")' => at'[f] = "mirror" /\ Text(f)' /\ OnlyAt(f, recorded[f])'
    BY <1>1, <2>1, <2>7, <2>10 DEF Underway
  <2>16. At("restore", "removed")' => at'[f] = "mirror" /\ Text(f)' /\ Undescribed(f)'
    BY <1>1, <2>1, <2>7, <2>10 DEF Underway
  <2> QED
    BY <2>1, <2>11, <2>12, <2>13, <2>14, <2>15, <2>16 DEF Underway
<1> QED
  BY <1>4, <1>5, <1>6 DEF NamesInv, AsRecorded

LEMMA TakeFileAwayKeeps == ASSUME NamesInv, NEW n \in DOMAIN entry, TakeFileAway(n) PROVE NamesInv'
<1>1. /\ n \in SidecarName /\ entry[n] = Foreign /\ entry' = [entry EXCEPT ![n] = Empty] /\ planted' = planted \ {n}
      /\ moving = NoMove /\ UNCHANGED <<at, moving, recorded, sidecar, listed, stray, keptText>>
  BY DEF TakeFileAway, NamesInv, NamesTypes
<1>2. /\ entry' \in [SidecarName -> {Empty, Foreign} \cup Docs]
      /\ \A m \in SidecarName : m # n => entry'[m] = entry[m]
      /\ \A marker \in Marker : \A g : Held(marker, g)' = Held(marker, g)
  BY <1>1, ForeignApart
<1>3. "description" \in Marker /\ "text" \in Marker
  BY DEF Marker
<1>4. NamesTypes'
  BY <1>1, <1>2 DEF NamesInv, NamesTypes
<1>5. ASSUME NEW g \in Video PROVE ~InMove(g)' /\ Settled(g)'
  <2>1. ~InMove(g)' /\ Settled(g)
    BY <1>1 DEF InMove, NamesInv, AsRecorded
  <2> QED
    BY <1>1, <1>2, <1>3, <2>1, SettledSame
<1> QED
  BY <1>4, <1>5 DEF NamesInv, AsRecorded

LEMMA NamesStep == ASSUME NamesInv, [NamesNext]_namesVars PROVE NamesInv'
<1>1. DOMAIN at = Video
  BY DEF NamesInv, NamesTypes
<1>2. ASSUME NEW f \in DOMAIN at, BeginSplit(f) \/ \E keep \in BOOLEAN : BeginRestore(f, keep) PROVE NamesInv'
  <2>1. CASE BeginSplit(f)
    BY <1>1, <2>1, BeginKeeps
  <2>2. ASSUME NEW keep \in BOOLEAN, BeginRestore(f, keep) PROVE NamesInv'
    BY <1>1, <2>2, BeginKeeps
  <2> QED
    BY <1>2, <2>1, <2>2
<1>3. CASE WriteDescription
  BY <1>3, WriteDescriptionKeeps
<1>4. CASE RecordDescription
  BY <1>4, RecordDescriptionKeeps
<1>5. CASE WriteText
  BY <1>5, WriteTextKeeps
<1>6. CASE RecordText
  BY <1>6, RecordTextKeeps
<1>7. CASE RemoveDescription
  BY <1>7, RemoveDescriptionKeeps
<1>8. CASE EndRestore
  BY <1>8, EndRestoreKeeps
<1>9. CASE Die
  BY <1>9, DieKeeps
<1>10. CASE Report
  BY <1>10, ReportKeeps
<1>11. ASSUME NEW n \in DOMAIN entry, PlantFile(n) \/ TakeFileAway(n) PROVE NamesInv'
  BY <1>11, PlantFileKeeps, TakeFileAwayKeeps
<1>12. CASE UNCHANGED namesVars
  <2>1. NamesTypes'
    BY <1>12 DEF namesVars, NamesInv, NamesTypes
  <2>2. \A marker, g : Held(marker, g)' = Held(marker, g)
    BY <1>12 DEF namesVars, Held
  <2>3. \A g : /\ ChooseDescriptionPath(g)' = ChooseDescriptionPath(g)
               /\ ChooseTextSidecarPath(g)' = ChooseTextSidecarPath(g)
    BY <1>12 DEF namesVars, ChooseDescriptionPath, ChooseTextSidecarPath, FirstUsable, Inspect
  <2>4. ASSUME NEW g \in Video PROVE IF InMove(g)' THEN Underway(g)' ELSE Settled(g)'
    <3>1. IF InMove(g) THEN Underway(g) ELSE Settled(g)
      BY DEF NamesInv, AsRecorded
    <3>2. InMove(g)' <=> InMove(g)
      BY <1>12 DEF namesVars, InMove
    <3>3. Text(g)' <=> Text(g)
      BY <1>12, <2>2 DEF namesVars, Text, HasText
    <3>4. (Described(g)' <=> Described(g)) /\ (Undescribed(g)' <=> Undescribed(g))
      BY <1>12, <2>2 DEF namesVars, Described, OnlyAt, Undescribed
    <3>5. Settled(g) => Settled(g)'
      BY <1>12, <3>3, <3>4 DEF namesVars, Settled
    <3>6. \A op, step : At(op, step)' <=> At(op, step)
      BY <1>12 DEF namesVars, At
    <3>7. Underway(g) => Underway(g)'
      BY <1>12, <2>2, <2>3, <3>3, <3>4, <3>6 DEF namesVars, Underway, OnlyAt
    <3> QED
      BY <3>1, <3>2, <3>5, <3>7
  <2>5. AsRecorded'
    BY <2>4 DEF AsRecorded
  <2> QED
    BY <2>1, <2>5 DEF NamesInv
<1> QED
  BY <1>2, <1>3, <1>4, <1>5, <1>6, <1>7, <1>8, <1>9, <1>10, <1>11, <1>12 DEF NamesNext

(* The invariant of descriptions and texts: whatever is moved, interrupted *)
(* and repeated, and whatever the operator puts next to it, each file's    *)
(* sidecars are where its records say (names.go, description.go).          *)
THEOREM NamesInvariant == NamesSpec => []NamesInv
<1>1. NamesInit => NamesInv
  BY InitKeeps
<1>2. NamesInv /\ [NamesNext]_namesVars => NamesInv'
  BY NamesStep
<1> QED
  BY <1>1, <1>2, PTL DEF NamesSpec

(* The description of a moved file stays where its record says, is the     *)
(* only one and is the one its readers find; no file of the operator is    *)
(* taken (chooseFirstUsable, OwnedDescriptionPath, restore_recovery.go).   *)
THEOREM DescriptionsAreOne == NamesSpec => []OneDescription
<1>1. NamesInv => OneDescription
  BY InvImplies
<1> QED
  BY <1>1, NamesInvariant, PTL
-----------------------------------------------------------------------------
(* The order of keys is a total one.                                       *)
Key == Seq(Nat)
Upto(a, b) == a = b \/ Before(a, b)

(* a has the lesser name at i, the first at which they differ.             *)
Differ(a, b, i) == i <= Len(a) /\ i <= Len(b) /\ a[i] < b[i] /\ \A j \in 1..(i - 1) : a[j] = b[j]

LEMMA BeforeIs ==
  ASSUME NEW a \in Key, NEW b \in Key
  PROVE  Before(a, b) <=> (Leads(a, b) /\ a # b) \/ \E i \in Nat \ {0} : Differ(a, b, i)
<1>1. DOMAIN a = 1..Len(a) /\ DOMAIN b = 1..Len(b) /\ Len(a) \in Nat /\ Len(b) \in Nat
  BY DEF Key
<1> QED
  BY <1>1 DEF Before, Differ

LEMMA LeadsIs ==
  ASSUME NEW a \in Key, NEW b \in Key
  PROVE  Leads(a, b) <=> Len(a) <= Len(b) /\ \A i \in 1..Len(a) : a[i] = b[i]
<1>1. DOMAIN a = 1..Len(a)
  BY DEF Key
<1> QED
  BY <1>1 DEF Leads

LEMMA KeyTypes ==
  ASSUME NEW a \in Key
  PROVE  Len(a) \in Nat /\ \A i \in 1..Len(a) : a[i] \in Nat
BY DEF Key

LEMMA SameKey ==
  ASSUME NEW a \in Key, NEW b \in Key, Len(a) = Len(b), \A i \in 1..Len(a) : a[i] = b[i]
  PROVE  a = b
BY SeqEqual DEF Key

LEMMA LeadsShorter ==
  ASSUME NEW a \in Key, NEW b \in Key, Leads(a, b), a # b
  PROVE  Len(a) < Len(b)
BY LeadsIs, KeyTypes, SameKey

LEMMA LeadsOn ==
  ASSUME NEW a \in Key, NEW b \in Key, NEW c \in Key, Leads(a, b), Leads(b, c)
  PROVE  Leads(a, c)
BY LeadsIs, KeyTypes

LEMMA BothLead ==
  ASSUME NEW a \in Key, NEW b \in Key, NEW c \in Key, Leads(a, c), Leads(b, c), Len(a) <= Len(b)
  PROVE  Leads(a, b)
BY LeadsIs, KeyTypes

LEMMA NotBeforeSelf == ASSUME NEW a \in Key PROVE ~Before(a, a)
BY BeforeIs, KeyTypes DEF Differ

LEMMA BeforeOn ==
  ASSUME NEW a \in Key, NEW b \in Key, NEW c \in Key, Before(a, b), Before(b, c)
  PROVE  Before(a, c)
<1> USE KeyTypes
<1>1. CASE Leads(a, b) /\ a # b /\ Leads(b, c) /\ b # c
  <2>1. Leads(a, c) /\ Len(a) < Len(b) /\ Len(b) < Len(c)
    BY <1>1, LeadsOn, LeadsShorter
  <2> QED
    BY <2>1, BeforeIs
<1>2. ASSUME Leads(a, b), a # b, NEW i \in Nat \ {0}, Differ(b, c, i) PROVE Before(a, c)
  <2>1. Len(a) <= Len(b) /\ \A j \in 1..Len(a) : a[j] = b[j]
    BY <1>2, LeadsIs
  <2>2. CASE i <= Len(a)
    <3>1. Differ(a, c, i)
      BY <1>2, <2>1, <2>2 DEF Differ
    <3> QED
      BY <3>1, BeforeIs
  <2>3. CASE i > Len(a)
    <3>1. Len(a) < Len(c) /\ \A j \in 1..Len(a) : a[j] = c[j]
      BY <1>2, <2>1, <2>3 DEF Differ
    <3>2. Leads(a, c) /\ a # c
      BY <3>1, LeadsIs
    <3> QED
      BY <3>2, BeforeIs
  <2> QED
    BY <2>2, <2>3
<1>3. ASSUME NEW i \in Nat \ {0}, Differ(a, b, i), Leads(b, c) PROVE Before(a, c)
  <2>1. Len(b) <= Len(c) /\ \A j \in 1..Len(b) : b[j] = c[j]
    BY <1>3, LeadsIs
  <2>2. Differ(a, c, i)
    BY <1>3, <2>1 DEF Differ
  <2> QED
    BY <2>2, BeforeIs
<1>4. ASSUME NEW i \in Nat \ {0}, Differ(a, b, i), NEW n \in Nat \ {0}, Differ(b, c, n) PROVE Before(a, c)
  <2>1. CASE i <= n
    <3>1. Differ(a, c, i)
      BY <1>4, <2>1 DEF Differ
    <3> QED
      BY <3>1, BeforeIs
  <2>2. CASE n < i
    <3>1. Differ(a, c, n)
      BY <1>4, <2>2 DEF Differ
    <3> QED
      BY <3>1, BeforeIs
  <2> QED
    BY <2>1, <2>2
<1> QED
  BY <1>1, <1>2, <1>3, <1>4, BeforeIs

LEMMA OneIsBefore ==
  ASSUME NEW a \in Key, NEW b \in Key, a # b
  PROVE  Before(a, b) \/ Before(b, a)
<1> USE KeyTypes
<1> DEFINE T == {i \in Nat \ {0} : i <= Len(a) /\ i <= Len(b) /\ a[i] # b[i]}
<1>1. CASE T = {}
  <2>1. \A i \in 1..Len(a) : i <= Len(b) => a[i] = b[i]
    BY <1>1
  <2>2. CASE Len(a) <= Len(b)
    <3>1. Leads(a, b)
      BY <2>1, <2>2, LeadsIs
    <3> QED
      BY <3>1, BeforeIs
  <2>3. CASE Len(b) <= Len(a)
    <3>1. Leads(b, a)
      BY <2>1, <2>3, LeadsIs
    <3> QED
      BY <3>1, BeforeIs
  <2> QED
    BY <2>2, <2>3
<1>2. CASE T # {}
  <2>1. PICK i \in T : \A j \in T : i <= j
    <3>1. T \subseteq Nat
      OBVIOUS
    <3> HIDE DEF T
    <3> QED
      BY <1>2, <3>1, LeastOf
  <2>2. \A j \in 1..(i - 1) : a[j] = b[j]
    BY <2>1
  <2>3. Differ(a, b, i) \/ Differ(b, a, i)
    BY <2>2 DEF Differ
  <2> QED
    BY <2>3, BeforeIs
<1> QED
  BY <1>1, <1>2

LEMMA BeforeOneWay ==
  ASSUME NEW a \in Key, NEW b \in Key, Before(a, b)
  PROVE  ~Before(b, a) /\ a # b
BY BeforeOn, NotBeforeSelf

LEMMA UptoOn ==
  ASSUME NEW a \in Key, NEW b \in Key, NEW c \in Key
  PROVE  /\ Upto(a, b) /\ Upto(b, c) => Upto(a, c)
         /\ Upto(a, b) /\ Before(b, c) => Before(a, c)
         /\ Before(a, b) /\ Upto(b, c) => Before(a, c)
BY BeforeOn DEF Upto

LEMMA RootFirst ==
  ASSUME NEW a \in Key
  PROVE  Root \in Key /\ Leads(Root, a) /\ (a # Root => Before(Root, a)) /\ ~Before(a, Root)
<1>1. Root \in Key /\ Len(Root) = 0
  BY DEF Root, Key
<1>2. Leads(Root, a)
  BY <1>1, LeadsIs, KeyTypes
<1>3. a # Root => Before(Root, a)
  BY <1>1, <1>2, BeforeIs
<1> QED
  BY <1>1, <1>2, <1>3, BeforeOneWay, NotBeforeSelf

(* What lies in a directory lies before all that the directory is before,  *)
(* unless that lies in it too.                                             *)
LEMMA ContentsTogether ==
  ASSUME NEW d \in Key, NEW k \in Key, NEW c \in Key, Leads(d, k), Before(d, c), ~Leads(d, c)
  PROVE  Before(k, c)
<1> USE KeyTypes
<1>1. PICK i \in Nat \ {0} : Differ(d, c, i)
  BY BeforeIs
<1>2. Differ(k, c, i)
  BY <1>1, LeadsIs DEF Differ
<1> QED
  BY <1>2, BeforeIs

LEMMA CompareIs ==
  ASSUME NEW a \in Key, NEW b \in Key
  PROVE  /\ Compare(a, b) \in {-1, 0, 1}
         /\ Compare(a, b) = -1 <=> Before(a, b)
         /\ Compare(a, b) = 0 <=> a = b
         /\ Compare(a, b) = 1 <=> Before(b, a)
<1> USE KeyTypes
<1> DEFINE common == 1..(IF Len(a) < Len(b) THEN Len(a) ELSE Len(b))
           differ == {i \in common : a[i] # b[i]}
           first == CHOOSE i \in differ : \A j \in differ : i <= j
<1>1. CASE differ # {}
  <2>1. differ \subseteq Nat
    OBVIOUS
  <2>2. first \in differ /\ \A j \in differ : first <= j
    <3> HIDE DEF differ
    <3> QED
      BY <1>1, <2>1, LeastOf
  <2>3. Compare(a, b) = IF a[first] < b[first] THEN -1 ELSE 1
    BY <1>1 DEF Compare
  <2> HIDE DEF first, differ
  <2>4. first \in Nat \ {0} /\ first <= Len(a) /\ first <= Len(b) /\ a[first] # b[first]
        /\ a[first] \in Nat /\ b[first] \in Nat
    BY <2>2 DEF differ
  <2>5. \A j \in 1..(first - 1) : a[j] = b[j]
    BY <2>2, <2>4 DEF differ
  <2>6. IF a[first] < b[first] THEN Differ(a, b, first) ELSE Differ(b, a, first)
    BY <2>4, <2>5 DEF Differ
  <2>7. IF a[first] < b[first] THEN Before(a, b) ELSE Before(b, a)
    BY <2>4, <2>6, BeforeIs
  <2> QED
    BY <2>3, <2>7, BeforeOneWay, NotBeforeSelf
<1>2. CASE differ = {}
  <2>1. \A i \in 1..Len(a) : i <= Len(b) => a[i] = b[i]
    BY <1>2
  <2>2. Compare(a, b) = CASE Len(a) < Len(b) -> -1 [] Len(a) = Len(b) -> 0 [] OTHER -> 1
    BY <1>2 DEF Compare
  <2>3. CASE Len(a) < Len(b)
    <3>1. Leads(a, b) /\ a # b
      BY <2>1, <2>3, LeadsIs
    <3> QED
      BY <2>2, <2>3, <3>1, BeforeIs, BeforeOneWay
  <2>4. CASE Len(a) = Len(b)
    <3>1. a = b
      BY <2>1, <2>4, SameKey
    <3> QED
      BY <2>2, <2>4, <3>1, NotBeforeSelf
  <2>5. CASE Len(b) < Len(a)
    <3>1. Leads(b, a) /\ a # b
      BY <2>1, <2>5, LeadsIs
    <3> QED
      BY <2>2, <2>5, <3>1, BeforeIs, BeforeOneWay
  <2> QED
    BY <2>3, <2>4, <2>5
<1> QED
  BY <1>1, <1>2

LEMMA FirstKey ==
  ASSUME NEW S, S \subseteq Key, IsFiniteSet(S), S # {}
  PROVE  \E k \in S : \A x \in S : Upto(k, x)
<1> DEFINE Below(k) == {x \in S : Before(x, k)}
           Sizes == {Cardinality(Below(k)) : k \in S}
<1>1. \A k \in S : Below(k) \subseteq S /\ IsFiniteSet(Below(k)) /\ Cardinality(Below(k)) \in Nat
  BY FS_Subset, FS_CardinalityType
<1>2. Sizes \subseteq Nat /\ Sizes # {}
  BY <1>1
<1>3. PICK n \in Sizes : \A m \in Sizes : n <= m
  <2> HIDE DEF Sizes
  <2> QED
    BY <1>2, LeastOf
<1>4. PICK k \in S : n = Cardinality(Below(k))
  BY <1>3
<1>5. ASSUME NEW x \in S, Before(x, k) PROVE FALSE
  <2>1. Below(x) \subseteq Below(k)
    BY <1>5, BeforeOn
  <2>2. x \in Below(k) /\ x \notin Below(x)
    BY <1>5, NotBeforeSelf
  <2>3. Below(x) # Below(k)
    BY <2>2
  <2> HIDE DEF Below
  <2>4. Cardinality(Below(x)) < Cardinality(Below(k))
    <3>1. Below(x) \in SUBSET Below(k) /\ IsFiniteSet(Below(k))
      BY <1>1, <2>1
    <3>2. /\ Cardinality(Below(x)) <= Cardinality(Below(k))
          /\ Cardinality(Below(x)) # Cardinality(Below(k))
      BY <2>3, <3>1, FS_Subset
    <3>3. Cardinality(Below(x)) \in Nat /\ Cardinality(Below(k)) \in Nat
      BY <1>1
    <3> QED
      BY <3>2, <3>3
  <2>5. Cardinality(Below(x)) \in Sizes
    OBVIOUS
  <2>6. n <= Cardinality(Below(x)) /\ Cardinality(Below(x)) \in Nat /\ n \in Nat
    BY <1>1, <1>2, <1>3, <2>5
  <2> QED
    BY <1>4, <2>4, <2>6
<1>6. \A x \in S : x = k \/ Before(k, x)
  BY <1>5, OneIsBefore
<1> QED
  BY <1>6 DEF Upto

LEMMA LastKey ==
  ASSUME NEW S, S \subseteq Key, IsFiniteSet(S), S # {}
  PROVE  \E k \in S : \A x \in S : Upto(x, k)
<1> DEFINE Later(k) == {x \in S : Before(k, x)}
           Sizes == {Cardinality(Later(k)) : k \in S}
<1>1. \A k \in S : Later(k) \subseteq S /\ IsFiniteSet(Later(k)) /\ Cardinality(Later(k)) \in Nat
  BY FS_Subset, FS_CardinalityType
<1>2. Sizes \subseteq Nat /\ Sizes # {}
  BY <1>1
<1>3. PICK n \in Sizes : \A m \in Sizes : n <= m
  <2> HIDE DEF Sizes
  <2> QED
    BY <1>2, LeastOf
<1>4. PICK k \in S : n = Cardinality(Later(k))
  BY <1>3
<1>5. ASSUME NEW x \in S, Before(k, x) PROVE FALSE
  <2>1. Later(x) \subseteq Later(k)
    BY <1>5, BeforeOn
  <2>2. x \in Later(k) /\ x \notin Later(x)
    BY <1>5, NotBeforeSelf
  <2>3. Later(x) # Later(k)
    BY <2>2
  <2> HIDE DEF Later
  <2>4. Cardinality(Later(x)) < Cardinality(Later(k))
    <3>1. Later(x) \in SUBSET Later(k) /\ IsFiniteSet(Later(k))
      BY <1>1, <2>1
    <3>2. /\ Cardinality(Later(x)) <= Cardinality(Later(k))
          /\ Cardinality(Later(x)) # Cardinality(Later(k))
      BY <2>3, <3>1, FS_Subset
    <3>3. Cardinality(Later(x)) \in Nat /\ Cardinality(Later(k)) \in Nat
      BY <1>1
    <3> QED
      BY <3>2, <3>3
  <2>5. Cardinality(Later(x)) \in Sizes
    OBVIOUS
  <2>6. n <= Cardinality(Later(x)) /\ Cardinality(Later(x)) \in Nat /\ n \in Nat
    BY <1>1, <1>2, <1>3, <2>5
  <2> QED
    BY <1>4, <2>4, <2>6
<1>6. \A x \in S : x = k \/ Before(x, k)
  BY <1>5, OneIsBefore
<1> QED
  BY <1>6 DEF Upto

-----------------------------------------------------------------------------
(* Matching a glob decides what the glob means.                            *)
Globs == Seq([any : BOOLEAN, names : SUBSET Nat])

(* Segment m of the pattern stands for the names after the first a of k up *)
(* to the first b; the segments after the first i fit the names after the  *)
(* first j.                                                                *)
Segment(p, k, m, a, b) == IF p[m].any THEN b >= a ELSE b = a + 1 /\ k[b] \in p[m].names
Fitted(p, k, i, j, end) ==
  /\ end[i] = j /\ end[Len(p)] = Len(k)
  /\ \A m \in (i + 1)..Len(p) : Segment(p, k, m, end[m - 1], end[m])
Rest(p, k, i, j) == \E end \in [i..Len(p) -> 0..Len(k)] : Fitted(p, k, i, j, end)

LEMMA GlobTypes ==
  ASSUME NEW p \in Globs
  PROVE  /\ Len(p) \in Nat /\ DOMAIN p = 1..Len(p)
         /\ \A i \in 1..Len(p) : p[i].any \in BOOLEAN /\ p[i].names \subseteq Nat
<1> DEFINE Segments == [any : BOOLEAN, names : SUBSET Nat]
<1>1. p \in Seq(Segments)
  BY DEF Globs
<1>2. Len(p) \in Nat /\ DOMAIN p = 1..Len(p) /\ \A i \in 1..Len(p) : p[i] \in Segments
  <2> HIDE DEF Segments
  <2> QED
    BY <1>1
<1> QED
  BY <1>2

LEMMA MeantIsRest == ASSUME NEW p \in Globs, NEW k \in Key PROVE Meant(p, k) <=> Rest(p, k, 0, 0)
<1> USE GlobTypes, KeyTypes
<1>1. 0 + 1 = 1 /\ DOMAIN p = (0 + 1)..Len(p)
  OBVIOUS
<1>2. Meant(p, k) <=> \E end \in [0..Len(p) -> 0..Len(k)] :
        /\ end[0] = 0 /\ end[Len(p)] = Len(k)
        /\ \A m \in (0 + 1)..Len(p) : Segment(p, k, m, end[m - 1], end[m])
  BY <1>1 DEF Meant, Segment
<1> QED
  BY <1>2 DEF Rest, Fitted

LEMMA RestEnd ==
  ASSUME NEW p \in Globs, NEW k \in Key, NEW j \in 0..Len(k)
  PROVE  Rest(p, k, Len(p), j) <=> j = Len(k)
<1> USE GlobTypes, KeyTypes
<1>1. ASSUME j = Len(k) PROVE Rest(p, k, Len(p), j)
  <2> DEFINE end == [m \in Len(p)..Len(p) |-> Len(k)]
  <2>1. end \in [Len(p)..Len(p) -> 0..Len(k)] /\ end[Len(p)] = Len(k)
    OBVIOUS
  <2>2. Fitted(p, k, Len(p), j, end)
    BY <1>1, <2>1 DEF Fitted
  <2> QED
    BY <2>1, <2>2 DEF Rest
<1>2. ASSUME Rest(p, k, Len(p), j) PROVE j = Len(k)
  BY <1>2 DEF Rest, Fitted
<1> QED
  BY <1>1, <1>2

LEMMA RestStep ==
  ASSUME NEW p \in Globs, NEW k \in Key, NEW i \in 0..(Len(p) - 1), NEW j \in 0..Len(k)
  PROVE  Rest(p, k, i, j) <=> \E n \in 0..Len(k) : Segment(p, k, i + 1, j, n) /\ Rest(p, k, i + 1, n)
<1> USE GlobTypes, KeyTypes
<1>1. ASSUME Rest(p, k, i, j)
      PROVE  \E n \in 0..Len(k) : Segment(p, k, i + 1, j, n) /\ Rest(p, k, i + 1, n)
  <2>1. PICK end \in [i..Len(p) -> 0..Len(k)] : Fitted(p, k, i, j, end)
    BY <1>1 DEF Rest
  <2> DEFINE rest == [m \in (i + 1)..Len(p) |-> end[m]]
  <2>2. i + 1 \in i..Len(p) /\ (i + 1) - 1 = i /\ \A m \in (i + 1)..Len(p) : m \in i..Len(p)
    OBVIOUS
  <2>3. end[i + 1] \in 0..Len(k) /\ Segment(p, k, i + 1, j, end[i + 1])
    BY <2>1, <2>2 DEF Fitted
  <2>4. rest \in [(i + 1)..Len(p) -> 0..Len(k)]
    BY <2>2
  <2>5. rest[i + 1] = end[i + 1] /\ rest[Len(p)] = Len(k)
    BY <2>1 DEF Fitted
  <2>6. ASSUME NEW m \in ((i + 1) + 1)..Len(p) PROVE Segment(p, k, m, rest[m - 1], rest[m])
    <3>1. m \in (i + 1)..Len(p) /\ m - 1 \in (i + 1)..Len(p)
      OBVIOUS
    <3> QED
      BY <2>1, <3>1 DEF Fitted
  <2> HIDE DEF rest
  <2>7. Fitted(p, k, i + 1, end[i + 1], rest)
    BY <2>5, <2>6 DEF Fitted
  <2> QED
    BY <2>3, <2>4, <2>7 DEF Rest
<1>2. ASSUME NEW n \in 0..Len(k), Segment(p, k, i + 1, j, n), Rest(p, k, i + 1, n)
      PROVE  Rest(p, k, i, j)
  <2>1. PICK rest \in [(i + 1)..Len(p) -> 0..Len(k)] : Fitted(p, k, i + 1, n, rest)
    BY <1>2 DEF Rest
  <2> DEFINE end == [m \in i..Len(p) |-> IF m = i THEN j ELSE rest[m]]
  <2>2. \A m \in i..Len(p) : m = i \/ m \in (i + 1)..Len(p)
    OBVIOUS
  <2>3. end \in [i..Len(p) -> 0..Len(k)]
    BY <2>2
  <2>4. i \in i..Len(p) /\ Len(p) \in i..Len(p) /\ Len(p) # i
    OBVIOUS
  <2>5. end[i] = j /\ end[Len(p)] = Len(k)
    BY <2>1, <2>4 DEF Fitted
  <2>6. ASSUME NEW m \in (i + 1)..Len(p) PROVE Segment(p, k, m, end[m - 1], end[m])
    <3>1. CASE m = i + 1
      <4>1. end[m - 1] = j /\ end[m] = n
        BY <2>1, <3>1 DEF Fitted
      <4> HIDE DEF end
      <4> QED
        BY <1>2, <3>1, <4>1
    <3>2. CASE m # i + 1
      <4>1. m \in ((i + 1) + 1)..Len(p) /\ m # i /\ m - 1 # i /\ m \in i..Len(p) /\ m - 1 \in i..Len(p)
        BY <3>2
      <4>2. end[m - 1] = rest[m - 1] /\ end[m] = rest[m]
        BY <4>1
      <4> HIDE DEF end
      <4> QED
        BY <2>1, <4>1, <4>2 DEF Fitted
    <3> QED
      BY <3>1, <3>2
  <2> HIDE DEF end
  <2>7. Fitted(p, k, i, j, end)
    BY <2>5, <2>6 DEF Fitted
  <2> QED
    BY <2>3, <2>7 DEF Rest
<1> QED
  BY <1>1, <1>2

LEMMA RestAny ==
  ASSUME NEW p \in Globs, NEW k \in Key, NEW i \in 0..(Len(p) - 1), NEW j \in 0..Len(k), p[i + 1].any
  PROVE  Rest(p, k, i, j) <=> \E n \in j..Len(k) : Rest(p, k, i + 1, n)
<1> USE GlobTypes, KeyTypes
<1>1. \A n \in 0..Len(k) : Segment(p, k, i + 1, j, n) <=> n \in j..Len(k)
  BY DEF Segment
<1>2. \A n \in j..Len(k) : n \in 0..Len(k)
  OBVIOUS
<1> QED
  BY <1>1, <1>2, RestStep

LEMMA RestName ==
  ASSUME NEW p \in Globs, NEW k \in Key, NEW i \in 0..(Len(p) - 1), NEW j \in 0..Len(k), ~p[i + 1].any
  PROVE  Rest(p, k, i, j) <=> j < Len(k) /\ k[j + 1] \in p[i + 1].names /\ Rest(p, k, i + 1, j + 1)
<1> USE GlobTypes, KeyTypes
<1>1. \A n \in 0..Len(k) : Segment(p, k, i + 1, j, n) <=> n = j + 1 /\ k[n] \in p[i + 1].names
  BY DEF Segment
<1>2. j + 1 \in 0..Len(k) <=> j < Len(k)
  OBVIOUS
<1> QED
  BY <1>1, <1>2, RestStep

LEMMA RestOfNothing ==
  ASSUME NEW p \in Globs, NEW k \in Key, NEW i \in 0..Len(p)
  PROVE  Rest(p, k, i, Len(k)) <=> \A m \in (i + 1)..Len(p) : p[m].any
<1> USE GlobTypes, KeyTypes
<1>1. ASSUME \A m \in (i + 1)..Len(p) : p[m].any PROVE Rest(p, k, i, Len(k))
  <2> DEFINE end == [m \in i..Len(p) |-> Len(k)]
  <2>1. end \in [i..Len(p) -> 0..Len(k)] /\ \A m \in i..Len(p) : end[m] = Len(k)
    OBVIOUS
  <2> HIDE DEF end
  <2>2. \A m \in (i + 1)..Len(p) : end[m - 1] = Len(k) /\ end[m] = Len(k)
    BY <2>1
  <2>3. Fitted(p, k, i, Len(k), end)
    BY <1>1, <2>1, <2>2 DEF Fitted, Segment
  <2> QED
    BY <2>1, <2>3 DEF Rest
<1>2. ASSUME Rest(p, k, i, Len(k)) PROVE \A m \in (i + 1)..Len(p) : p[m].any
  <2>1. PICK end \in [i..Len(p) -> 0..Len(k)] : Fitted(p, k, i, Len(k), end)
    BY <1>2 DEF Rest
  <2> DEFINE T == {m \in i..Len(p) : end[m] # Len(k)}
  <2>2. T = {}
    <3>1. SUFFICES ASSUME T # {} PROVE FALSE
      OBVIOUS
    <3>2. T \subseteq Nat
      OBVIOUS
    <3>3. PICK m \in T : \A n \in T : m <= n
      <4> HIDE DEF T
      <4> QED
        BY <3>1, <3>2, LeastOf
    <3>4. m \in (i + 1)..Len(p) /\ m - 1 \in i..Len(p)
      BY <2>1, <3>3 DEF Fitted
    <3>5. end[m - 1] = Len(k) /\ end[m] \in 0..Len(k) /\ end[m] # Len(k)
      BY <3>3, <3>4
    <3>6. Segment(p, k, m, end[m - 1], end[m])
      BY <2>1, <3>4 DEF Fitted
    <3> QED
      BY <3>4, <3>5, <3>6 DEF Segment
  <2>3. ASSUME NEW m \in (i + 1)..Len(p) PROVE p[m].any
    <3>1. m \in i..Len(p) /\ m - 1 \in i..Len(p)
      OBVIOUS
    <3>2. end[m - 1] = Len(k) /\ end[m] = Len(k)
      BY <2>2, <3>1
    <3>3. Segment(p, k, m, end[m - 1], end[m])
      BY <2>1 DEF Fitted
    <3> QED
      BY <3>2, <3>3 DEF Segment
  <2> QED
    BY <2>3
<1> QED
  BY <1>1, <1>2

(* What is left to match: from here, or from one name further after the    *)
(* star.  What could be left after the star, the greedy run has not        *)
(* overlooked.                                                             *)
MatchState(p, k) ==
  [pi : 1..(Len(p) + 1), ki : 1..(Len(k) + 1), star : 0..Len(p), mark : 1..(Len(k) + 1), failed : BOOLEAN]
Retry(p, k, s) == s.star > 0 /\ \E j \in s.mark..Len(k) : Rest(p, k, s.star, j)
Greedy(p, k, s) ==
  s.star > 0 =>
    /\ s.star < s.pi /\ s.ki - s.mark = s.pi - s.star - 1
    /\ \A j \in 0..Len(k) : Rest(p, k, s.star, j) =>
         j + (s.pi - 1 - s.star) <= Len(k) /\ Rest(p, k, s.pi - 1, j + (s.pi - 1 - s.star))
MatchInv(p, k, s) ==
  /\ s \in MatchState(p, k) /\ s.mark <= s.ki
  /\ Greedy(p, k, s)
  /\ Rest(p, k, 0, 0) <=> ~s.failed /\ (Rest(p, k, s.pi - 1, s.ki - 1) \/ Retry(p, k, s))
Unfinished(k, s) == ~s.failed /\ s.ki <= Len(k)
Effort(p, s) == s.mark * (Len(p) + 1) + s.pi

LEMMA Further ==
  ASSUME NEW c \in Nat, NEW a \in Nat, NEW b \in Nat, a <= b
  PROVE  a * c \in Nat /\ a * c <= b * c /\ (a + 1) * c = a * c + c
OBVIOUS

LEMMA Times ==
  ASSUME NEW a \in Nat, NEW b \in Nat
  PROVE  a * b \in Nat /\ a * b = b * a /\ (a + 1) * b = a * b + b
OBVIOUS

LEMMA MatchBegins ==
  ASSUME NEW p \in Globs, NEW k \in Key
  PROVE  MatchInv(p, k, MatchBegun) /\ Effort(p, MatchBegun) = Len(p) + 2
<1> USE GlobTypes, KeyTypes
<1>1. MatchBegun \in MatchState(p, k)
  BY DEF MatchBegun, TryAt, MatchState
<1>2. MatchInv(p, k, MatchBegun)
  BY <1>1 DEF MatchInv, MatchBegun, TryAt, Greedy, Retry
<1> QED
  BY <1>2 DEF Effort, MatchBegun, TryAt

LEMMA MatchStepIs ==
  ASSUME NEW p, NEW k, NEW s
  PROVE  LET ended == s.failed \/ s.ki > Len(k)
             star == s.pi <= Len(p) /\ p[s.pi].any
             name == s.pi <= Len(p) /\ ~p[s.pi].any /\ k[s.ki] \in p[s.pi].names
         IN  /\ ended => MatchStep(p, k, s) = s
             /\ ~ended /\ star => MatchStep(p, k, s) = TryAt(s.pi + 1, s.ki, s.pi, s.ki)
             /\ ~ended /\ name => MatchStep(p, k, s) = TryAt(s.pi + 1, s.ki + 1, s.star, s.mark)
             /\ ~ended /\ ~star /\ ~name =>
                  MatchStep(p, k, s) = IF s.star > 0 THEN TryAt(s.star + 1, s.mark + 1, s.star, s.mark + 1)
                                                     ELSE [s EXCEPT !.failed = TRUE]
BY Zenon DEF MatchStep

LEMMA MatchOn ==
  ASSUME NEW p \in Globs, NEW k \in Key, NEW s, MatchInv(p, k, s)
  PROVE  /\ MatchInv(p, k, MatchStep(p, k, s))
         /\ Unfinished(k, s) => \/ ~Unfinished(k, MatchStep(p, k, s))
                                \/ Effort(p, MatchStep(p, k, s)) >= Effort(p, s) + 1
<1> USE GlobTypes, KeyTypes
<1> DEFINE t == MatchStep(p, k, s)
<1>1. /\ s.pi \in 1..(Len(p) + 1) /\ s.ki \in 1..(Len(k) + 1) /\ s.star \in 0..Len(p)
      /\ s.mark \in 1..(Len(k) + 1) /\ s.failed \in BOOLEAN /\ s.mark <= s.ki
      /\ s = [pi |-> s.pi, ki |-> s.ki, star |-> s.star, mark |-> s.mark, failed |-> s.failed]
  BY DEF MatchInv, MatchState
<1> DEFINE ended == s.failed \/ s.ki > Len(k)
           star == s.pi <= Len(p) /\ p[s.pi].any
           name == s.pi <= Len(p) /\ ~p[s.pi].any /\ k[s.ki] \in p[s.pi].names
<1>A. s \in MatchState(p, k) /\ (Unfinished(k, s) <=> ~ended)
  BY <1>1 DEF MatchInv, Unfinished
<1>B. /\ ended => t = s
      /\ ~ended /\ star => t = TryAt(s.pi + 1, s.ki, s.pi, s.ki)
      /\ ~ended /\ name => t = TryAt(s.pi + 1, s.ki + 1, s.star, s.mark)
      /\ ~ended /\ ~star /\ ~name =>
           t = IF s.star > 0 THEN TryAt(s.star + 1, s.mark + 1, s.star, s.mark + 1)
                             ELSE [s EXCEPT !.failed = TRUE]
  BY MatchStepIs
<1> HIDE DEF t
<1>C. /\ s.pi \in Nat \ {0} /\ s.ki \in Nat \ {0} /\ s.star \in Nat /\ s.mark \in Nat \ {0}
      /\ s.pi <= Len(p) + 1 /\ s.ki <= Len(k) + 1 /\ s.mark <= s.ki /\ s.star <= Len(p)
      /\ Len(p) \in Nat /\ Len(k) \in Nat
  BY <1>1
<1>2. CASE ~Unfinished(k, s)
  <2>1. t = s
    BY <1>2, <1>A, <1>B
  <2> QED
    BY <1>2, <2>1 DEF t
<1>3. CASE Unfinished(k, s) /\ s.pi <= Len(p) /\ p[s.pi].any
  <2>1. t = [pi |-> s.pi + 1, ki |-> s.ki, star |-> s.pi, mark |-> s.ki, failed |-> FALSE]
    <3>1. t = TryAt(s.pi + 1, s.ki, s.pi, s.ki)
      BY <1>3, <1>A, <1>B
    <3> QED
      BY <1>A, <3>1 DEF TryAt
  <2>2. t \in MatchState(p, k) /\ t.mark <= t.ki
    BY <1>1, <1>3, <2>1 DEF MatchState
  <2>3. s.pi - 1 \in 0..(Len(p) - 1) /\ (s.pi - 1) + 1 = s.pi /\ s.ki - 1 \in 0..Len(k) /\ ~s.failed
        /\ (s.pi + 1) - 1 = s.pi
    <3>1. s.pi <= Len(p) /\ s.ki <= Len(k) /\ ~s.failed
      BY <1>3 DEF Unfinished
    <3>2. \A a, b, m, n \in Nat : a # 0 /\ b # 0 /\ a <= m /\ b <= n =>
            a - 1 \in 0..(m - 1) /\ (a - 1) + 1 = a /\ b - 1 \in 0..n /\ (a + 1) - 1 = a
      OBVIOUS
    <3> QED
      BY ONLY <1>C, <3>1, <3>2
  <2>4. \A j \in 0..Len(k) : Rest(p, k, s.pi - 1, j) <=> \E n \in j..Len(k) : Rest(p, k, s.pi, n)
    <3> DEFINE i == s.pi - 1
    <3>1. i \in 0..(Len(p) - 1) /\ i + 1 = s.pi /\ p[i + 1].any
      BY <1>3, <2>3
    <3> HIDE DEF i
    <3>2. \A j \in 0..Len(k) : Rest(p, k, i, j) <=> \E n \in j..Len(k) : Rest(p, k, i + 1, n)
      BY <3>1, RestAny
    <3>3. \A j \in 0..Len(k) : Rest(p, k, i, j) <=> \E n \in j..Len(k) : Rest(p, k, s.pi, n)
      BY ONLY <3>1, <3>2
    <3> QED
      BY ONLY <3>3 DEF i
  <2>5. Greedy(p, k, t)
    <3>1. \A j \in 0..Len(k) : j + ((s.pi + 1) - 1 - s.pi) = j
      BY <1>1
    <3> QED
      <4>1. s.pi < s.pi + 1 /\ s.ki - s.ki = (s.pi + 1) - s.pi - 1
        BY <1>C
      <4>2. \A j \in 0..Len(k) : Rest(p, k, s.pi, j) =>
              j + ((s.pi + 1) - 1 - s.pi) <= Len(k) /\ Rest(p, k, (s.pi + 1) - 1, j + ((s.pi + 1) - 1 - s.pi))
        BY <1>C, <2>3, <3>1
      <4>3. t.star = s.pi /\ t.pi = s.pi + 1 /\ t.ki = s.ki /\ t.mark = s.ki
        BY <2>1
      <4> QED
        BY <4>1, <4>2, <4>3 DEF Greedy
  <2>6. Retry(p, k, s) => Rest(p, k, s.pi - 1, s.ki - 1)
    <3>1. SUFFICES ASSUME s.star > 0, NEW j \in s.mark..Len(k), Rest(p, k, s.star, j)
                   PROVE  Rest(p, k, s.pi - 1, s.ki - 1)
      BY DEF Retry
    <3> DEFINE n == j + (s.pi - 1 - s.star)
    <3>2. j \in 0..Len(k)
      BY <1>1
    <3>3. n <= Len(k) /\ Rest(p, k, s.pi - 1, n) /\ n >= s.ki
      BY <1>1, <3>1, <3>2 DEF MatchInv, Greedy
    <3>4. n \in 0..Len(k) /\ n >= s.ki - 1
      BY <1>1, <3>3
    <3>5. PICK m \in n..Len(k) : Rest(p, k, s.pi, m)
      BY <2>4, <3>3, <3>4
    <3>6. m \in (s.ki - 1)..Len(k)
      BY <1>1, <3>4
    <3> QED
      BY <2>3, <2>4, <3>5, <3>6
  <2>7. Rest(p, k, s.pi - 1, s.ki - 1) <=> Rest(p, k, s.pi, s.ki - 1) \/ \E n \in s.ki..Len(k) : Rest(p, k, s.pi, n)
    <3>1. \A n \in (s.ki - 1)..Len(k) : n = s.ki - 1 \/ n \in s.ki..Len(k)
      BY <1>1
    <3>2. s.ki - 1 \in (s.ki - 1)..Len(k) /\ \A n \in s.ki..Len(k) : n \in (s.ki - 1)..Len(k)
      BY ONLY <1>C, <2>3
    <3> QED
      BY <2>3, <2>4, <3>1, <3>2
  <2>8. Rest(p, k, 0, 0) <=> Rest(p, k, t.pi - 1, t.ki - 1) \/ Retry(p, k, t)
    <3>1. Retry(p, k, t) <=> \E n \in s.ki..Len(k) : Rest(p, k, s.pi, n)
      BY <1>1, <2>1 DEF Retry
    <3>2. Rest(p, k, t.pi - 1, t.ki - 1) <=> Rest(p, k, s.pi, s.ki - 1)
      BY <2>1, <2>3
    <3> QED
      BY <2>3, <2>6, <2>7, <3>1, <3>2 DEF MatchInv
  <2>9. ~t.failed
    BY <2>1, <2>3
  <2>10. Effort(p, t) >= Effort(p, s) + 1
    <3>1. s.mark * (Len(p) + 1) <= s.ki * (Len(p) + 1) /\ s.mark * (Len(p) + 1) \in Nat
          /\ s.ki * (Len(p) + 1) \in Nat
      BY <1>1, Further
    <3>2. Effort(p, t) = s.ki * (Len(p) + 1) + (s.pi + 1) /\ Effort(p, s) = s.mark * (Len(p) + 1) + s.pi
      BY <2>1 DEF Effort
    <3> QED
      BY <1>1, <3>1, <3>2
  <2> QED
    BY <2>2, <2>5, <2>8, <2>9, <2>10 DEF MatchInv, t
<1>4. CASE Unfinished(k, s) /\ s.pi <= Len(p) /\ ~p[s.pi].any /\ k[s.ki] \in p[s.pi].names
  <2>1. t = [pi |-> s.pi + 1, ki |-> s.ki + 1, star |-> s.star, mark |-> s.mark, failed |-> FALSE]
    <3>1. t = TryAt(s.pi + 1, s.ki + 1, s.star, s.mark)
      BY <1>4, <1>A, <1>B
    <3> QED
      BY <1>A, <3>1 DEF TryAt
  <2>2. t \in MatchState(p, k) /\ t.mark <= t.ki
    <3>1. s.pi <= Len(p) /\ s.ki <= Len(k)
      BY <1>4 DEF Unfinished
    <3>2. s.pi + 1 \in 1..(Len(p) + 1) /\ s.ki + 1 \in 1..(Len(k) + 1) /\ s.mark <= s.ki + 1
      <4>1. \A a, n \in Nat : a <= n => a + 1 \in 1..(n + 1)
        OBVIOUS
      <4>2. \A a, b \in Nat : a <= b => a <= b + 1
        OBVIOUS
      <4> QED
        BY ONLY <1>C, <3>1, <4>1, <4>2
    <3> QED
      BY <1>1, <2>1, <3>2 DEF MatchState
  <2>3. /\ s.pi - 1 \in 0..(Len(p) - 1) /\ (s.pi - 1) + 1 = s.pi /\ s.ki - 1 \in 0..Len(k) /\ ~s.failed
        /\ (s.pi + 1) - 1 = s.pi /\ (s.ki + 1) - 1 = s.ki /\ (s.ki - 1) + 1 = s.ki /\ s.ki - 1 < Len(k)
    <3>1. s.pi <= Len(p) /\ s.ki <= Len(k) /\ ~s.failed
      BY <1>4 DEF Unfinished
    <3> QED
      BY ONLY <1>C, <3>1
  <2>4. \A j \in 0..Len(k) : Rest(p, k, s.pi - 1, j) <=>
          j < Len(k) /\ k[j + 1] \in p[s.pi].names /\ Rest(p, k, s.pi, j + 1)
    <3> DEFINE i == s.pi - 1
    <3>1. i \in 0..(Len(p) - 1) /\ i + 1 = s.pi /\ ~p[i + 1].any
      BY <1>4, <2>3
    <3> HIDE DEF i
    <3>2. \A j \in 0..Len(k) : Rest(p, k, i, j) <=>
            j < Len(k) /\ k[j + 1] \in p[i + 1].names /\ Rest(p, k, i + 1, j + 1)
      BY <3>1, RestName
    <3> QED
      BY <3>1, <3>2 DEF i
  <2>5. Greedy(p, k, t)
    <3>1. SUFFICES ASSUME s.star > 0
                   PROVE  /\ s.star < s.pi + 1 /\ (s.ki + 1) - s.mark = (s.pi + 1) - s.star - 1
                          /\ \A j \in 0..Len(k) : Rest(p, k, s.star, j) =>
                               /\ j + ((s.pi + 1) - 1 - s.star) <= Len(k)
                               /\ Rest(p, k, (s.pi + 1) - 1, j + ((s.pi + 1) - 1 - s.star))
      BY <2>1 DEF Greedy
    <3>2. s.star < s.pi /\ s.ki - s.mark = s.pi - s.star - 1
      BY <3>1 DEF MatchInv, Greedy
    <3>3. ASSUME NEW j \in 0..Len(k), Rest(p, k, s.star, j)
          PROVE  /\ j + ((s.pi + 1) - 1 - s.star) <= Len(k)
                 /\ Rest(p, k, (s.pi + 1) - 1, j + ((s.pi + 1) - 1 - s.star))
      <4> DEFINE n == j + (s.pi - 1 - s.star)
      <4>1. n <= Len(k) /\ Rest(p, k, s.pi - 1, n)
        BY <3>1, <3>3 DEF MatchInv, Greedy
      <4>2. n \in 0..Len(k) /\ j + ((s.pi + 1) - 1 - s.star) = n + 1
        <5>1. j \in Nat /\ s.pi - 1 - s.star \in Nat
          BY <1>C, <3>2
        <5>2. n \in Nat
          BY <5>1
        <5>3. j + ((s.pi + 1) - 1 - s.star) = n + 1
          BY <1>C, <5>1
        <5> QED
          BY <1>C, <4>1, <5>2, <5>3
      <4> HIDE DEF n
      <4>3. n < Len(k) /\ Rest(p, k, s.pi, n + 1)
        BY <2>4, <4>1, <4>2
      <4> QED
        BY <2>3, <4>2, <4>3
    <3> QED
      BY <1>1, <3>2, <3>3
  <2>6. Rest(p, k, s.pi - 1, s.ki - 1) <=> Rest(p, k, s.pi, s.ki)
    BY <1>4, <2>3, <2>4
  <2>7. Rest(p, k, 0, 0) <=> Rest(p, k, t.pi - 1, t.ki - 1) \/ Retry(p, k, t)
    <3>1. Retry(p, k, t) <=> Retry(p, k, s)
      BY <2>1 DEF Retry
    <3>2. Rest(p, k, t.pi - 1, t.ki - 1) <=> Rest(p, k, s.pi, s.ki)
      BY <2>1, <2>3
    <3> QED
      BY <2>3, <2>6, <3>1, <3>2 DEF MatchInv
  <2>8. ~t.failed
    BY <2>1, <2>3
  <2>9. Effort(p, t) >= Effort(p, s) + 1
    <3>1. s.mark * (Len(p) + 1) \in Nat
      BY <1>1, Further
    <3>2. Effort(p, t) = s.mark * (Len(p) + 1) + (s.pi + 1) /\ Effort(p, s) = s.mark * (Len(p) + 1) + s.pi
      BY <2>1 DEF Effort
    <3> QED
      BY <1>1, <3>1, <3>2
  <2> QED
    BY <2>2, <2>5, <2>7, <2>8, <2>9 DEF MatchInv, t
<1>5. CASE Unfinished(k, s) /\ ~(s.pi <= Len(p) /\ (p[s.pi].any \/ k[s.ki] \in p[s.pi].names))
  <2>1. ~Rest(p, k, s.pi - 1, s.ki - 1)
    <3>1. s.ki - 1 \in 0..Len(k) /\ s.ki - 1 # Len(k) /\ (s.ki - 1) + 1 = s.ki
      BY <1>1, <1>5 DEF Unfinished
    <3>2. CASE s.pi <= Len(p)
      <4>1. s.pi - 1 \in 0..(Len(p) - 1) /\ (s.pi - 1) + 1 = s.pi
        BY <1>1, <3>2
      <4> QED
        BY <1>5, <3>1, <3>2, <4>1, RestName
    <3>3. CASE s.pi > Len(p)
      <4>1. s.pi - 1 = Len(p)
        BY <1>1, <3>3
      <4> QED
        BY <3>1, <4>1, RestEnd
    <3> QED
      BY <1>1, <3>2, <3>3
  <2>2. Rest(p, k, 0, 0) <=> Retry(p, k, s)
    BY <1>5, <2>1 DEF MatchInv, Unfinished
  <2>3. CASE s.star > 0
    <3>1. t = [pi |-> s.star + 1, ki |-> s.mark + 1, star |-> s.star, mark |-> s.mark + 1, failed |-> FALSE]
      <4>1. t = TryAt(s.star + 1, s.mark + 1, s.star, s.mark + 1)
        BY <1>5, <1>A, <1>B, <2>3
      <4> QED
        BY <4>1 DEF TryAt
    <3>2. t \in MatchState(p, k) /\ t.mark <= t.ki /\ ~s.failed /\ s.mark <= Len(k)
      BY <1>1, <1>5, <3>1 DEF MatchState, Unfinished
    <3>3. Greedy(p, k, t)
      <4>1. \A j \in 0..Len(k) : j + ((s.star + 1) - 1 - s.star) = j
        BY <1>1
      <4>2. (s.star + 1) - 1 = s.star /\ s.star < s.star + 1
            /\ (s.mark + 1) - (s.mark + 1) = (s.star + 1) - s.star - 1
        <5>1. \A a, b \in Nat : (a + 1) - 1 = a /\ a < a + 1 /\ (b + 1) - (b + 1) = (a + 1) - a - 1
          OBVIOUS
        <5> QED
          BY ONLY <1>C, <5>1
      <4> QED
        BY <3>1, <4>1, <4>2 DEF Greedy
    <3>4. Rest(p, k, t.pi - 1, t.ki - 1) <=> Rest(p, k, s.star, s.mark)
      <4>1. (s.star + 1) - 1 = s.star /\ (s.mark + 1) - 1 = s.mark
        BY <1>1
      <4> QED
        BY <3>1, <4>1
    <3>5. Retry(p, k, t) <=> \E j \in (s.mark + 1)..Len(k) : Rest(p, k, s.star, j)
      BY <2>3, <3>1 DEF Retry
    <3>6. Retry(p, k, s) <=> Rest(p, k, s.star, s.mark) \/ \E j \in (s.mark + 1)..Len(k) : Rest(p, k, s.star, j)
      <4>1. s.mark \in s.mark..Len(k) /\ \A j \in (s.mark + 1)..Len(k) : j \in s.mark..Len(k)
        BY <1>1, <3>2
      <4>2. \A j \in s.mark..Len(k) : j = s.mark \/ j \in (s.mark + 1)..Len(k)
        BY <1>1
      <4> QED
        BY <2>3, <4>1, <4>2 DEF Retry
    <3>7. ~t.failed
      BY <3>1, <3>2
    <3>8. Effort(p, t) >= Effort(p, s) + 1
      <4>1. s.mark * (Len(p) + 1) \in Nat
            /\ (s.mark + 1) * (Len(p) + 1) = s.mark * (Len(p) + 1) + (Len(p) + 1)
        BY <1>1, Further
      <4>2. Effort(p, t) = (s.mark + 1) * (Len(p) + 1) + (s.star + 1)
            /\ Effort(p, s) = s.mark * (Len(p) + 1) + s.pi
        BY <3>1 DEF Effort
      <4> DEFINE m == s.mark * (Len(p) + 1)
      <4>3. m \in Nat /\ Effort(p, t) = m + (Len(p) + 1) + (s.star + 1) /\ Effort(p, s) = m + s.pi
        BY <4>1, <4>2
      <4> HIDE DEF m
      <4> QED
        BY ONLY <1>C, <4>3
    <3> QED
      BY <2>2, <3>2, <3>3, <3>4, <3>5, <3>6, <3>7, <3>8 DEF MatchInv, t
  <2>4. CASE ~(s.star > 0)
    <3>1. t = [pi |-> s.pi, ki |-> s.ki, star |-> s.star, mark |-> s.mark, failed |-> TRUE]
      <4>1. t = [s EXCEPT !.failed = TRUE]
        BY <1>5, <1>A, <1>B, <2>4
      <4> QED
        BY <1>1, <4>1
    <3>2. t \in MatchState(p, k) /\ t.mark <= t.ki
      BY <1>1, <3>1 DEF MatchState
    <3>3. Greedy(p, k, t)
      BY <2>4, <3>1 DEF Greedy
    <3>4. ~Rest(p, k, 0, 0)
      BY <2>2, <2>4 DEF Retry
    <3>5. t.failed
      BY <3>1
    <3> QED
      BY <1>5, <3>2, <3>3, <3>4, <3>5 DEF MatchInv, Unfinished, t
  <2> QED
    BY <2>3, <2>4
<1> QED
  BY <1>2, <1>3, <1>4, <1>5

MatchRun(f, p, k, m) == f = [n \in 0..m |-> IF n = 0 THEN MatchBegun ELSE MatchStep(p, k, f[n - 1])]

LEMMA MatchRunExists ==
  ASSUME NEW p, NEW k, NEW m \in Nat
  PROVE  \E f : MatchRun(f, p, k, m)
<1> DEFINE Without == {n \in Nat : ~\E f : MatchRun(f, p, k, n)}
<1>1. SUFFICES ASSUME Without # {} PROVE FALSE
  OBVIOUS
<1>2. PICK n \in Without : \A i \in Without : n <= i
  <2>1. Without \subseteq Nat
    OBVIOUS
  <2> QED
    BY <1>1, <2>1, LeastOf
<1>3. CASE n = 0
  <2>1. MatchRun([i \in 0..0 |-> MatchBegun], p, k, 0)
    BY DEF MatchRun
  <2> QED
    BY <1>2, <1>3, <2>1
<1>4. CASE n # 0
  <2>1. n \in Nat /\ n - 1 \in Nat /\ n - 1 \notin Without
    BY <1>2, <1>4
  <2>2. PICK g : MatchRun(g, p, k, n - 1)
    BY <2>1
  <2> DEFINE f == [i \in 0..n |-> IF i = n THEN MatchStep(p, k, g[n - 1]) ELSE g[i]]
  <2>3. \A i \in 0..(n - 1) : g[i] = IF i = 0 THEN MatchBegun ELSE MatchStep(p, k, g[i - 1])
    BY <2>2 DEF MatchRun
  <2>4. ASSUME NEW i \in 0..n PROVE f[i] = IF i = 0 THEN MatchBegun ELSE MatchStep(p, k, f[i - 1])
    <3>1. CASE i = n
      <4>1. n - 1 \in 0..n /\ n - 1 # n
        BY <2>1
      <4>2. f[n - 1] = g[n - 1]
        BY <4>1
      <4> QED
        BY <1>4, <3>1, <4>2
    <3>2. CASE i # n
      <4>1. i \in 0..(n - 1) /\ (i # 0 => i - 1 \in 0..n /\ i - 1 # n)
        BY <2>1, <3>2
      <4>2. f[i] = g[i] /\ (i # 0 => f[i - 1] = g[i - 1])
        BY <3>2, <4>1
      <4> HIDE DEF f
      <4> QED
        BY <2>3, <4>1, <4>2
    <3> QED
      BY <3>1, <3>2
  <2>5. f = [i \in 0..n |-> f[i]]
    OBVIOUS
  <2>6. [i \in 0..n |-> f[i]] = [i \in 0..n |-> IF i = 0 THEN MatchBegun ELSE MatchStep(p, k, f[i - 1])]
    <3> HIDE DEF f
    <3> QED
      BY <2>4
  <2> HIDE DEF f
  <2>7. MatchRun(f, p, k, n)
    BY <2>5, <2>6 DEF MatchRun
  <2> QED
    BY <1>2, <2>7
<1> QED
  BY <1>3, <1>4

LEMMA MatchRunKeeps ==
  ASSUME NEW p \in Globs, NEW k \in Key, NEW m \in Nat, NEW f, MatchRun(f, p, k, m)
  PROVE  \A n \in 0..m : MatchInv(p, k, f[n]) /\ (Unfinished(k, f[n]) => Effort(p, f[n]) >= n + Len(p) + 2)
<1> USE GlobTypes, KeyTypes
<1> DEFINE Holds(n) == MatchInv(p, k, f[n]) /\ (Unfinished(k, f[n]) => Effort(p, f[n]) >= n + Len(p) + 2)
           Bad == {n \in 0..m : ~Holds(n)}
<1>1. SUFFICES ASSUME Bad # {} PROVE FALSE
  OBVIOUS
<1>2. PICK n \in Bad : \A i \in Bad : n <= i
  <2>1. Bad \subseteq Nat
    OBVIOUS
  <2> HIDE DEF Bad
  <2> QED
    BY <1>1, <2>1, LeastOf
<1>3. n \in 0..m /\ ~Holds(n) /\ f[n] = IF n = 0 THEN MatchBegun ELSE MatchStep(p, k, f[n - 1])
  BY <1>2 DEF MatchRun
<1>4. CASE n = 0
  BY <1>3, <1>4, MatchBegins
<1>5. CASE n # 0
  <2>1. n - 1 \in 0..m /\ Holds(n - 1)
    BY <1>2, <1>3, <1>5
  <2>2. f[n] = MatchStep(p, k, f[n - 1])
    BY <1>3, <1>5
  <2>3. MatchInv(p, k, f[n])
    BY <2>1, <2>2, MatchOn
  <2>4. ASSUME Unfinished(k, f[n]) PROVE Effort(p, f[n]) >= n + Len(p) + 2
    <3>1. Unfinished(k, f[n - 1])
      <4>1. ~Unfinished(k, f[n - 1]) => f[n - 1].failed \/ f[n - 1].ki > Len(k)
        <5>1. f[n - 1].ki \in 1..(Len(k) + 1)
          BY <2>1 DEF MatchInv, MatchState
        <5> QED
          BY <5>1 DEF Unfinished
      <4>2. ~Unfinished(k, f[n - 1]) => f[n] = f[n - 1]
        BY <2>2, <4>1, MatchStepIs
      <4> QED
        BY <2>4, <4>2
    <3>2. Effort(p, f[n]) >= Effort(p, f[n - 1]) + 1
      BY <2>1, <2>2, <2>4, <3>1, MatchOn
    <3>3. Effort(p, f[n - 1]) >= (n - 1) + Len(p) + 2
      BY <2>1, <3>1
    <3>4. Effort(p, f[n - 1]) \in Nat /\ Effort(p, f[n]) \in Nat
      <4>1. ASSUME NEW s, MatchInv(p, k, s) PROVE Effort(p, s) \in Nat
        <5>1. s.mark \in Nat /\ s.pi \in Nat /\ Len(p) + 1 \in Nat
          BY <4>1 DEF MatchInv, MatchState
        <5>2. s.mark * (Len(p) + 1) \in Nat
          BY <5>1, Times
        <5> QED
          BY <5>1, <5>2 DEF Effort
      <4> QED
        BY <2>1, <2>3, <4>1
    <3> QED
      BY <1>3, <3>2, <3>3, <3>4
  <2> QED
    BY <1>3, <2>3, <2>4
<1> QED
  BY <1>4, <1>5

(* Matching finds what the pattern means: it ends within its steps, and    *)
(* then nothing is left to try (order.go Glob.Match).                      *)
LEMMA MatchingIsMeant ==
  ASSUME NEW p \in Globs, NEW k \in Key
  PROVE  Matching(p, k) <=> Meant(p, k)
<1> USE GlobTypes, KeyTypes
<1> DEFINE steps == (Len(p) + 1) * (Len(k) + 1)
           R(f) == f = [n \in 0..steps |-> IF n = 0 THEN MatchBegun ELSE MatchStep(p, k, f[n - 1])]
           run == CHOOSE f : R(f)
<1>1. steps \in Nat /\ steps = (Len(k) + 1) * (Len(p) + 1)
  <2>1. Len(p) + 1 \in Nat /\ Len(k) + 1 \in Nat
    OBVIOUS
  <2> QED
    BY <2>1, Times
<1>2. Matching(p, k) <=> ~run[steps].failed /\ \A i \in run[steps].pi..Len(p) : p[i].any
  BY Zenon DEF Matching
<1>3. R(run)
  <2>1. \E f : R(f)
    <3> HIDE DEF steps
    <3>1. PICK f : MatchRun(f, p, k, steps)
      BY <1>1, MatchRunExists
    <3> QED
      BY <3>1, Zenon DEF MatchRun
  <2> HIDE DEF R
  <2> QED
    BY <2>1
<1>4. MatchRun(run, p, k, steps)
  BY <1>3, Zenon DEF MatchRun
<1> DEFINE s == run[steps]
<1> HIDE DEF run, R
<1>5. MatchInv(p, k, s) /\ (Unfinished(k, s) => Effort(p, s) >= steps + Len(p) + 2)
  <2>1. steps \in 0..steps
    BY <1>1
  <2> HIDE DEF steps
  <2> QED
    BY <1>1, <1>4, <2>1, MatchRunKeeps
<1>6. Matching(p, k) <=> ~s.failed /\ \A i \in s.pi..Len(p) : p[i].any
  BY <1>2
<1> HIDE DEF s
<1>7. /\ s.pi \in 1..(Len(p) + 1) /\ s.ki \in 1..(Len(k) + 1) /\ s.star \in 0..Len(p)
      /\ s.mark \in 1..(Len(k) + 1) /\ s.failed \in BOOLEAN /\ s.mark <= s.ki
  BY <1>5 DEF MatchInv, MatchState
<1>8. ~Unfinished(k, s)
  <2>1. SUFFICES ASSUME Unfinished(k, s) PROVE FALSE
    OBVIOUS
  <2>2. s.mark <= Len(k) /\ s.mark \in Nat
    BY <1>7, <2>1 DEF Unfinished
  <2>3. s.mark * (Len(p) + 1) <= Len(k) * (Len(p) + 1) /\ s.mark * (Len(p) + 1) \in Nat
        /\ Len(k) * (Len(p) + 1) \in Nat
        /\ (Len(k) + 1) * (Len(p) + 1) = Len(k) * (Len(p) + 1) + (Len(p) + 1)
    <3>1. Len(p) + 1 \in Nat /\ Len(k) \in Nat
      OBVIOUS
    <3> QED
      BY <2>2, <3>1, Further, Times
  <2>4. Effort(p, s) <= steps
    <3>1. Effort(p, s) = s.mark * (Len(p) + 1) + s.pi /\ s.pi <= Len(p) + 1 /\ s.pi \in Nat
      BY <1>7 DEF Effort
    <3> HIDE DEF steps
    <3> QED
      BY <1>1, <2>3, <3>1
  <2>5. Effort(p, s) \in Nat
    BY <1>7, <2>3 DEF Effort
  <2> HIDE DEF steps
  <2> QED
    BY <1>1, <1>5, <2>1, <2>4, <2>5
<1>9. CASE s.failed
  BY <1>5, <1>6, <1>9, MeantIsRest DEF MatchInv
<1>10. CASE ~s.failed
  <2>1. s.ki = Len(k) + 1 /\ s.ki - 1 = Len(k)
    BY <1>7, <1>8, <1>10 DEF Unfinished
  <2>2. ~Retry(p, k, s)
    <3>1. SUFFICES ASSUME s.star > 0, NEW j \in s.mark..Len(k), Rest(p, k, s.star, j) PROVE FALSE
      BY DEF Retry
    <3>2. j \in 0..Len(k)
      BY <1>7
    <3>3. s.star < s.pi /\ s.ki - s.mark = s.pi - s.star - 1 /\ j + (s.pi - 1 - s.star) <= Len(k)
      BY <1>5, <3>1, <3>2 DEF MatchInv, Greedy
    <3> QED
      BY <1>7, <2>1, <3>2, <3>3
  <2>3. s.pi - 1 \in 0..Len(p) /\ (s.pi - 1) + 1 = s.pi
    BY <1>7
  <2>4. Rest(p, k, s.pi - 1, Len(k)) <=> \A i \in s.pi..Len(p) : p[i].any
    <3> DEFINE i == s.pi - 1
    <3>1. i \in 0..Len(p) /\ i + 1 = s.pi
      BY <2>3
    <3> HIDE DEF i
    <3>2. Rest(p, k, i, Len(k)) <=> \A m \in (i + 1)..Len(p) : p[m].any
      BY <3>1, RestOfNothing
    <3> QED
      BY <3>1, <3>2 DEF i
  <2> QED
    BY <1>5, <1>6, <1>10, <2>1, <2>2, <2>4, MeantIsRest DEF MatchInv
<1> QED
  BY <1>7, <1>9, <1>10

-----------------------------------------------------------------------------
(* What the log of a scan says of the entries to deliver.                  *)
Entries == [key : Key, err : BOOLEAN]
ExcludedKeys == {k \in DOMAIN tree : Excluded(k)}
Included == {k \in DOMAIN tree : \A d \in ExcludedKeys : ~Leads(d, k)}

KeysOf(log) == {x.key : x \in ToSet(log)}
ReportedOf(log) == {x.key : x \in {y \in ToSet(log) : y.err}}
Seen(log, without, k) ==
  k \in KeysOf(log) \/ \E d \in ReportedOf(log) \cup without : Leads(d, k) /\ d # k

OrderlyLog(log, in) ==
  /\ log \in Seq(Entries) /\ KeysOf(log) \subseteq in
  /\ \A i, j \in DOMAIN log : i < j =>
       \/ Before(log[i].key, log[j].key)
       \/ log[j].err /\ \E n \in 1..(j - 1) : Leads(log[j].key, log[n].key)
(* Nothing is missing up to a key that was delivered.                      *)
Complete(log, without, in) ==
  \A y \in KeysOf(log) : \A k \in in : Upto(k, y) => Seen(log, without, k)
CompleteFrom(n, log, without, in) == \A m \in n..Len(log) : Complete(SubSeq(log, 1, m), without, in)

WalkPosition ==
  /\ tree \in Trees /\ exclusion \in Exclusions
  /\ OrderlyLog(delivered, Included) /\ saved \in 0..Len(delivered)
  /\ cursor = Root \/ cursor \in KeysOf(delivered)
  /\ reached = Root \/ reached \in DOMAIN tree
  /\ due \in BOOLEAN /\ (due => reached \in Included /\ tree[reached] = "dir")
  /\ pending # Root => reached = pending /\ Before(cursor, pending) /\ pending \in Included
  /\ due /\ pending = Root => Leads(reached, cursor)
  /\ \A k \in KeysOf(delivered) :
       Upto(k, cursor) \/ Before(k, reached) \/ (k = reached /\ pending = Root)

(* What is skipped: all of it is excluded or was delivered before.  The    *)
(* entries that a directory hides are lost only when it cannot be listed,  *)
(* and then it is reported when it is visited.                             *)
Skipping ==
  /\ unlistable \subseteq Directories /\ \A l \in lost : \E d \in unlistable : l \in Under(d)
  /\ \A d \in pruned : d \in Directories /\ (d \in ExcludedKeys \/ (Before(d, cursor) /\ ~Leads(d, cursor)))
  /\ \A d \in Directories : Upto(d, reached) /\ ~Hidden(d) =>
       \/ d \in pruned
       \/ d \notin ExcludedKeys /\ (d \in unlistable /\ ~(due /\ d = reached) =>
                                      d \in ReportedOf(delivered) \cup blind)

Accounted ==
  /\ \A k \in Included : Upto(k, cursor) \/ Upto(k, reached) => k = pending \/ Seen(delivered, blind, k)
  /\ CompleteFrom(saved, delivered, blind, Included)
  /\ over => \A k \in Included : Seen(delivered, blind, k)

WalkInv == WalkPosition /\ Skipping /\ Accounted

LEMMA TreeIs ==
  ASSUME tree \in Trees
  PROVE  /\ IsFiniteSet(DOMAIN tree) /\ DOMAIN tree \subseteq Key /\ Root \notin DOMAIN tree
         /\ \A k \in DOMAIN tree : \A d \in Key :
              d # Root /\ d # k /\ Leads(d, k) => d \in Directories
<1>1. /\ IsFiniteSet(DOMAIN tree)
      /\ \A k \in DOMAIN tree :
           /\ k \in Seq(Nat) /\ Len(k) > 0
           /\ \A n \in 1..(Len(k) - 1) : SubSeq(k, 1, n) \in DOMAIN tree /\ tree[SubSeq(k, 1, n)] = "dir"
  BY TreeAssumption
<1>2. DOMAIN tree \subseteq Key /\ Root \notin DOMAIN tree
  BY <1>1 DEF Key, Root
<1>3. ASSUME NEW k \in DOMAIN tree, NEW d \in Key, d # Root, d # k, Leads(d, k) PROVE d \in Directories
  <2>1. k \in Key /\ Len(d) < Len(k) /\ Len(d) \in Nat /\ Len(k) \in Nat
    BY <1>2, <1>3, LeadsShorter, KeyTypes
  <2>2. Len(d) # 0
    BY <1>3, EmptySeq DEF Key, Root
  <2>3. Len(d) \in 1..(Len(k) - 1)
    BY <2>1, <2>2
  <2>4. SubSeq(k, 1, Len(d)) = d
    <3>1. \A i \in 1..Len(d) : d[i] = k[i]
      BY <1>3, <2>1, LeadsIs
    <3>2. SubSeq(k, 1, Len(d)) \in Key /\ Len(SubSeq(k, 1, Len(d))) = Len(d)
          /\ \A i \in 1..Len(d) : SubSeq(k, 1, Len(d))[i] = k[i]
      BY <2>1, <2>3 DEF Key
    <3> QED
      BY <3>1, <3>2, SameKey
  <2> QED
    BY <1>1, <2>3, <2>4 DEF Directories
<1> QED
  BY <1>1, <1>2, <1>3

LEMMA SameTree ==
  ASSUME tree' = tree, exclusion' = exclusion
  PROVE  /\ ExcludedKeys' = ExcludedKeys /\ Included' = Included /\ Directories' = Directories
         /\ \A d : Under(d)' = Under(d)
<1>1. \A k : Excluded(k)' <=> Excluded(k)
  BY DEF Excluded, ReservedName, IsPartFile
<1>2. ExcludedKeys' = ExcludedKeys
  BY <1>1 DEF ExcludedKeys
<1> QED
  BY <1>2 DEF Included, Directories, Under

LEMMA KeysOnto ==
  ASSUME NEW log \in Seq(Entries), NEW k \in Key, NEW e \in BOOLEAN
  PROVE  /\ Delivered(log, k, e) \in Seq(Entries) /\ Len(Delivered(log, k, e)) = Len(log) + 1
         /\ Delivered(log, k, e)[Len(log) + 1] = [key |-> k, err |-> e]
         /\ \A i \in 1..Len(log) : Delivered(log, k, e)[i] = log[i]
         /\ KeysOf(Delivered(log, k, e)) = KeysOf(log) \cup {k}
         /\ \A d : d \in ReportedOf(Delivered(log, k, e)) <=> d \in ReportedOf(log) \/ (e /\ d = k)
<1> DEFINE x == [key |-> k, err |-> e]
           longer == Append(log, x)
<1>1. x \in Entries /\ x.key = k /\ x.err = e
  BY DEF Entries
<1> HIDE DEF x
<1>2. longer \in Seq(Entries) /\ Len(longer) = Len(log) + 1 /\ longer[Len(log) + 1] = x
      /\ \A i \in 1..Len(log) : longer[i] = log[i]
  BY <1>1
<1>3. ToSet(longer) = ToSet(log) \cup {x}
  <2>1. DOMAIN longer = 1..(Len(log) + 1) /\ DOMAIN log = 1..Len(log) /\ Len(log) \in Nat
    BY <1>2
  <2>2. \A i \in 1..(Len(log) + 1) : i \in 1..Len(log) \/ i = Len(log) + 1
    BY <2>1
  <2>3. \A i \in 1..Len(log) : i \in 1..(Len(log) + 1)
    BY <2>1
  <2> HIDE DEF longer
  <2> QED
    BY <1>2, <2>1, <2>2, <2>3 DEF ToSet
<1>4. Delivered(log, k, e) = longer
  BY DEF Delivered, x
<1> HIDE DEF longer
<1> QED
  BY <1>1, <1>2, <1>3, <1>4 DEF KeysOf, ReportedOf, x

LEMMA KeysAre ==
  ASSUME NEW log \in Seq(Entries)
  PROVE  /\ \A k : k \in KeysOf(log) <=> \E i \in 1..Len(log) : log[i].key = k
         /\ KeysOf(log) \subseteq Key /\ \A i \in 1..Len(log) : log[i] \in Entries /\ log[i].key \in Key
         /\ ReportedOf(log) \subseteq KeysOf(log)
<1>1. DOMAIN log = 1..Len(log) /\ \A i \in 1..Len(log) : log[i] \in Entries
  OBVIOUS
<1>2. \A i \in 1..Len(log) : log[i].key \in Key
  BY <1>1 DEF Entries
<1> QED
  BY <1>1, <1>2 DEF KeysOf, ReportedOf, ToSet

LEMMA SeenOn ==
  ASSUME NEW log \in Seq(Entries), NEW k \in Key, NEW e \in BOOLEAN, NEW without, NEW x
  PROVE  /\ Seen(log, without, x) => Seen(Delivered(log, k, e), without, x)
         /\ Seen(Delivered(log, k, e), without, k)
<1>1. KeysOf(log) \cup {k} = KeysOf(Delivered(log, k, e)) /\ ReportedOf(log) \subseteq ReportedOf(Delivered(log, k, e))
  <2>1. KeysOf(Delivered(log, k, e)) = KeysOf(log) \cup {k}
    BY KeysOnto
  <2>2. \A d : d \in ReportedOf(log) => d \in ReportedOf(Delivered(log, k, e))
    BY KeysOnto
  <2> QED
    BY <2>1, <2>2
<1> QED
  BY <1>1 DEF Seen

LEMMA OrderlyOn ==
  ASSUME NEW in, NEW log, OrderlyLog(log, in), NEW k \in Key, k \in in, NEW e \in BOOLEAN,
         (\A y \in KeysOf(log) : Before(y, k)) \/ (e /\ \E y \in KeysOf(log) : Leads(k, y))
  PROVE  OrderlyLog(Delivered(log, k, e), in)
<1> DEFINE new == Delivered(log, k, e)
<1>1. log \in Seq(Entries) /\ Len(log) \in Nat
  BY DEF OrderlyLog
<1>2. new \in Seq(Entries) /\ Len(new) = Len(log) + 1 /\ KeysOf(new) = KeysOf(log) \cup {k}
      /\ new[Len(log) + 1] = [key |-> k, err |-> e] /\ \A i \in 1..Len(log) : new[i] = log[i]
  BY <1>1, KeysOnto
<1> HIDE DEF new
<1>3. ASSUME NEW i \in DOMAIN new, NEW j \in DOMAIN new, i < j
      PROVE  \/ Before(new[i].key, new[j].key)
             \/ new[j].err /\ \E n \in 1..(j - 1) : Leads(new[j].key, new[n].key)
  <2>1. i \in 1..Len(log) /\ j \in 1..(Len(log) + 1) /\ DOMAIN log = 1..Len(log)
    BY <1>1, <1>2, <1>3
  <2>2. CASE j = Len(log) + 1
    <3>1. new[j].key = k /\ new[j].err = e /\ new[i] = log[i] /\ log[i].key \in KeysOf(log)
      BY <1>1, <1>2, <2>1, <2>2, KeysAre
    <3>2. CASE \A y \in KeysOf(log) : Before(y, k)
      BY <3>1, <3>2
    <3>3. CASE e /\ \E y \in KeysOf(log) : Leads(k, y)
      <4>1. PICK n \in 1..Len(log) : Leads(k, log[n].key)
        BY <1>1, <3>3, KeysAre
      <4>2. n \in 1..(j - 1) /\ new[n] = log[n]
        BY <1>1, <1>2, <2>2
      <4> QED
        BY <3>1, <3>3, <4>1, <4>2
    <3> QED
      BY <3>2, <3>3
  <2>3. CASE j # Len(log) + 1
    <3>1. j \in 1..Len(log) /\ \A n \in 1..(j - 1) : n \in 1..Len(log)
      BY <1>1, <2>1, <2>3
    <3>2. new[i] = log[i] /\ new[j] = log[j] /\ \A n \in 1..(j - 1) : new[n] = log[n]
      BY <1>2, <2>1, <3>1
    <3>3. \/ Before(log[i].key, log[j].key)
          \/ log[j].err /\ \E n \in 1..(j - 1) : Leads(log[j].key, log[n].key)
      BY <1>3, <2>1, <3>1 DEF OrderlyLog
    <3> QED
      BY <3>2, <3>3
  <2> QED
    BY <2>2, <2>3
<1>4. KeysOf(new) \subseteq in
  BY <1>2 DEF OrderlyLog
<1> QED
  BY <1>2, <1>3, <1>4 DEF OrderlyLog, new

LEMMA CompleteOn ==
  ASSUME NEW in, NEW log \in Seq(Entries), NEW k \in Key, NEW e \in BOOLEAN, NEW without,
         NEW n \in 0..Len(log), CompleteFrom(n, log, without, in),
         \A x \in in : Before(x, k) => Seen(log, without, x)
  PROVE  CompleteFrom(n, Delivered(log, k, e), without, in)
<1> DEFINE new == Delivered(log, k, e)
<1>1. new \in Seq(Entries) /\ Len(new) = Len(log) + 1 /\ KeysOf(new) = KeysOf(log) \cup {k}
      /\ Len(log) \in Nat /\ \A i \in 1..Len(log) : new[i] = log[i]
  <2>1. log \in Seq(Entries) /\ Len(log) \in Nat /\ k \in Key /\ e \in BOOLEAN
    OBVIOUS
  <2> QED
    BY ONLY <2>1, KeysOnto
<1>2. Complete(log, without, in)
  <2>1. SubSeq(log, 1, Len(log)) = log /\ Len(log) \in n..Len(log)
    BY SubSeqFull
  <2> QED
    BY <2>1 DEF CompleteFrom
<1>3. Complete(new, without, in)
  <2>1. ASSUME NEW y \in KeysOf(new), NEW x \in in, Upto(x, y) PROVE Seen(new, without, x)
    <3>1. CASE y \in KeysOf(log)
      BY <1>2, <2>1, <3>1, SeenOn DEF Complete
    <3>2. CASE y = k
      BY <2>1, <3>2, SeenOn DEF Upto
    <3> QED
      BY <1>1, <3>1, <3>2
  <2> QED
    BY <2>1 DEF Complete
<1> HIDE DEF new
<1>4. ASSUME NEW m \in n..Len(new) PROVE Complete(SubSeq(new, 1, m), without, in)
  <2>1. CASE m = Len(new)
    <3>1. SubSeq(new, 1, m) = new
      BY <1>1, <2>1, SubSeqFull
    <3> QED
      BY <1>3, <3>1
  <2>2. CASE m # Len(new)
    <3>1. m \in n..Len(log) /\ m \in Nat /\ m <= Len(log) /\ m <= Len(new)
      BY <1>1, <2>2
    <3>2. SubSeq(new, 1, m) = SubSeq(log, 1, m)
      <4>1. /\ SubSeq(new, 1, m) \in Seq(Entries) /\ Len(SubSeq(new, 1, m)) = m
            /\ \A i \in 1..m : SubSeq(new, 1, m)[i] = new[i]
        BY <1>1, <3>1
      <4>2. /\ SubSeq(log, 1, m) \in Seq(Entries) /\ Len(SubSeq(log, 1, m)) = m
            /\ \A i \in 1..m : SubSeq(log, 1, m)[i] = log[i]
        BY <1>1, <3>1
      <4>3. \A i \in 1..m : new[i] = log[i]
        BY <1>1, <3>1
      <4> QED
        BY <4>1, <4>2, <4>3, SeqEqual
    <3> QED
      BY <3>1, <3>2 DEF CompleteFrom
  <2> QED
    BY <2>1, <2>2
<1> QED
  BY <1>4 DEF CompleteFrom, new

LEMMA PositionIs ==
  ASSUME WalkPosition
  PROVE  /\ IsFiniteSet(DOMAIN tree) /\ DOMAIN tree \subseteq Key /\ Root \notin DOMAIN tree
         /\ Root \in Key /\ Included \subseteq DOMAIN tree /\ ExcludedKeys \subseteq DOMAIN tree
         /\ Directories \subseteq DOMAIN tree
         /\ delivered \in Seq(Entries) /\ KeysOf(delivered) \subseteq Included
         /\ cursor \in Key /\ reached \in Key /\ pending \in Key
         /\ \A k \in DOMAIN tree : k # Root /\ ~Upto(k, Root)
<1>1. IsFiniteSet(DOMAIN tree) /\ DOMAIN tree \subseteq Key /\ Root \notin DOMAIN tree
  BY TreeIs DEF WalkPosition
<1>2. Root \in Key
  BY DEF Root, Key
<1>3. Included \subseteq DOMAIN tree /\ ExcludedKeys \subseteq DOMAIN tree /\ Directories \subseteq DOMAIN tree
  BY DEF Included, ExcludedKeys, Directories
<1>4. delivered \in Seq(Entries) /\ KeysOf(delivered) \subseteq Included
  BY DEF WalkPosition, OrderlyLog
<1>5. cursor \in Key /\ reached \in Key /\ pending \in Key
  BY <1>1, <1>2, <1>3, <1>4 DEF WalkPosition
<1>6. \A k \in DOMAIN tree : k # Root /\ ~Upto(k, Root)
  BY <1>1, RootFirst DEF Upto
<1> QED
  BY <1>1, <1>2, <1>3, <1>4, <1>5, <1>6

(* What the walk cannot see any more was accounted for.                    *)
LEMMA HiddenSeen ==
  ASSUME WalkInv, ~due, NEW k \in Included, Hidden(k), \A a \in Ahead : Before(k, a)
  PROVE  Seen(delivered, blind, k)
<1>1. k \in DOMAIN tree /\ k \in Key /\ DOMAIN tree \subseteq Key /\ Directories \subseteq DOMAIN tree
      /\ cursor \in Key /\ reached \in Key
  BY PositionIs DEF WalkInv
<1> DEFINE W == {d \in lost \cup pruned : Leads(d, k) /\ (d \in lost \/ d # k)}
           Lengths == {Len(d) : d \in W}
<1>2. \A d \in lost \cup pruned : d \in Key /\ Len(d) \in Nat
  <2>1. \A d \in lost : d \in DOMAIN tree
    BY DEF WalkInv, Skipping, Under
  <2>2. \A d \in pruned : d \in DOMAIN tree
    BY <1>1 DEF WalkInv, Skipping
  <2> QED
    BY <1>1, <2>1, <2>2, KeyTypes
<1>3. PICK d \in W : \A e \in W : Len(d) <= Len(e)
  <2>1. Lengths \subseteq Nat /\ Lengths # {}
    BY <1>2 DEF Hidden
  <2>2. PICK n \in Lengths : \A m \in Lengths : n <= m
    <3> HIDE DEF Lengths
    <3> QED
      BY <2>1, LeastOf
  <2> QED
    BY <2>2
<1>4. CASE d \in pruned /\ d # k
  <2>1. d \in Directories /\ (d \in ExcludedKeys \/ (Before(d, cursor) /\ ~Leads(d, cursor)))
    BY <1>4 DEF WalkInv, Skipping
  <2>2. Leads(d, k) /\ d \in Key
    BY <1>1, <1>3, <2>1
  <2>3. d \notin ExcludedKeys
    BY <2>2 DEF Included
  <2>4. Before(k, cursor)
    BY <1>1, <2>1, <2>2, <2>3, ContentsTogether
  <2>5. k # pending
    <3>1. pending # Root /\ k = pending => Before(cursor, k)
      BY DEF WalkInv, WalkPosition
    <3>2. k # Root
      BY <1>1, PositionIs DEF WalkInv
    <3> QED
      BY <1>1, <2>4, <3>1, <3>2, BeforeOneWay
  <2> QED
    BY <2>4, <2>5 DEF WalkInv, Accounted, Upto
<1>5. CASE d \in lost
  <2>1. PICK u \in unlistable : d \in Under(u)
    BY <1>5 DEF WalkInv, Skipping
  <2>2. u \in Directories /\ u \in Key /\ d \in Key /\ Len(d) = Len(u) + 1 /\ Leads(u, d) /\ Leads(d, k)
        /\ Len(u) \in Nat /\ Len(d) \in Nat /\ Len(k) \in Nat /\ Len(d) <= Len(k)
    <3>1. u \in Directories
      BY <2>1 DEF WalkInv, Skipping
    <3>2. u \in Key /\ d \in Key /\ Leads(d, k)
      BY <1>1, <1>2, <1>3, <3>1
    <3>3. Len(d) = Len(u) + 1 /\ Leads(u, d)
      BY <2>1 DEF Under
    <3> QED
      BY <1>1, <3>1, <3>2, <3>3, KeyTypes, LeadsIs
  <2>3. Leads(u, k) /\ u # k
    BY <1>1, <2>2, LeadsOn
  <2>4. \A e \in lost \cup pruned : ~(Leads(e, u))
    <3>1. SUFFICES ASSUME NEW e \in lost \cup pruned, Leads(e, u) PROVE FALSE
      OBVIOUS
    <3>2. e \in Key /\ Len(e) \in Nat /\ Len(e) <= Len(u) /\ Leads(e, k)
      BY <1>1, <1>2, <2>2, <2>3, <3>1, LeadsIs, LeadsOn
    <3>3. Len(e) < Len(d) /\ e # k
      BY <2>2, <3>2
    <3>4. e \in W
      BY <3>2, <3>3
    <3> HIDE DEF W
    <3> QED
      BY <1>3, <2>2, <3>2, <3>3, <3>4
  <2>5. ~Hidden(u) /\ u \notin pruned
    <3>1. Leads(u, u)
      BY <2>2, LeadsIs
    <3> QED
      BY <2>4, <3>1 DEF Hidden
  <2>6. Upto(u, reached)
    <3>1. SUFFICES ASSUME ~Upto(u, reached) PROVE FALSE
      OBVIOUS
    <3>2. Before(reached, u)
      BY <1>1, <2>2, <3>1, OneIsBefore DEF Upto
    <3>3. u \in Ahead
      BY <1>1, <2>2, <2>5, <3>2 DEF Ahead
    <3>4. Before(k, u) /\ Before(u, k)
      BY <2>3, <3>3 DEF Before
    <3> QED
      BY <1>1, <2>2, <3>4, BeforeOneWay
  <2>7. u \in ReportedOf(delivered) \cup blind
    BY <2>1, <2>2, <2>5, <2>6 DEF WalkInv, Skipping
  <2> QED
    BY <2>3, <2>7 DEF Seen
<1> QED
  BY <1>3, <1>4, <1>5

LEMMA PassedSeen ==
  ASSUME WalkInv, ~due, NEW k \in Included, \A a \in Ahead : Before(k, a)
  PROVE  k = pending \/ Seen(delivered, blind, k)
<1>1. k \in DOMAIN tree /\ k \in Key /\ reached \in Key
  BY PositionIs DEF WalkInv
<1>2. CASE Upto(k, reached)
  BY <1>2 DEF WalkInv, Accounted
<1>3. CASE ~Upto(k, reached)
  <2>1. Before(reached, k)
    BY <1>1, <1>3, OneIsBefore DEF Upto
  <2>2. k \notin Ahead
    BY <1>1, NotBeforeSelf
  <2>3. Hidden(k)
    BY <1>1, <2>1, <2>2 DEF Ahead
  <2> QED
    BY <2>3, HiddenSeen
<1> QED
  BY <1>2, <1>3

LEMMA UpcomingIs ==
  ASSUME WalkInv, Ahead # {}
  PROVE  /\ Upcoming \in Ahead /\ Upcoming \in DOMAIN tree /\ Upcoming \in Key
         /\ Before(reached, Upcoming) /\ ~Hidden(Upcoming)
         /\ \A x \in Ahead : Upto(Upcoming, x)
<1>1. Ahead \subseteq DOMAIN tree /\ Ahead \subseteq Key /\ IsFiniteSet(Ahead)
  <2>1. Ahead \subseteq DOMAIN tree
    BY DEF Ahead
  <2>2. DOMAIN tree \subseteq Key /\ IsFiniteSet(DOMAIN tree)
    BY PositionIs DEF WalkInv
  <2> QED
    BY <2>1, <2>2, FS_Subset
<1>2. \E k \in Ahead : \A x \in Ahead : x = k \/ Before(k, x)
  <2>1. PICK k \in Ahead : \A x \in Ahead : Upto(k, x)
    BY <1>1, FirstKey
  <2> QED
    BY <2>1 DEF Upto
<1>3. Upcoming \in Ahead /\ \A x \in Ahead : x = Upcoming \/ Before(Upcoming, x)
  BY <1>2 DEF Upcoming
<1> QED
  BY <1>1, <1>3 DEF Ahead, Upto

LEMMA UpcomingIncluded ==
  ASSUME WalkInv, ~due, Ahead # {}, ~Excluded(Upcoming)
  PROVE  Upcoming \in Included
<1> DEFINE k == Upcoming
<1>1. /\ k \in Ahead /\ k \in DOMAIN tree /\ k \in Key /\ Before(reached, k) /\ ~Hidden(k)
      /\ \A x \in Ahead : Upto(k, x)
  BY UpcomingIs
<1>2. reached \in Key /\ DOMAIN tree \subseteq Key /\ tree \in Trees /\ Root \notin DOMAIN tree
      /\ ExcludedKeys \subseteq DOMAIN tree
  BY PositionIs DEF WalkInv, WalkPosition
<1> HIDE DEF k
<1>3. ASSUME NEW d \in ExcludedKeys, Leads(d, k) PROVE FALSE
  <2>1. d \in DOMAIN tree /\ d \in Key /\ d # k /\ d # Root
    BY <1>2 DEF ExcludedKeys, k
  <2>2. d \in Directories
    BY <1>1, <1>2, <1>3, <2>1, TreeIs
  <2>3. ~Hidden(d)
    <3>1. SUFFICES ASSUME NEW e \in lost \cup pruned, Leads(e, d) PROVE Hidden(k)
      BY <1>1 DEF Hidden
    <3>2. e \in DOMAIN tree
      <4>1. lost \subseteq DOMAIN tree
        BY DEF WalkInv, Skipping, Under
      <4>2. pruned \subseteq Directories /\ Directories \subseteq DOMAIN tree
        BY DEF WalkInv, Skipping, Directories
      <4> QED
        BY <4>1, <4>2
    <3>3. Leads(e, k) /\ Len(e) <= Len(d) /\ Len(d) < Len(k) /\ e \in Key
      BY <1>1, <1>2, <1>3, <2>1, <3>1, <3>2, LeadsOn, LeadsIs, LeadsShorter
    <3>4. e # k
      BY <1>1, <2>1, <3>3, KeyTypes
    <3> QED
      BY <3>1, <3>3, <3>4 DEF Hidden
  <2>4. Upto(d, reached)
    <3>1. SUFFICES ASSUME ~Upto(d, reached) PROVE FALSE
      OBVIOUS
    <3>2. d \in Ahead
      BY <1>2, <2>1, <2>3, <3>1, OneIsBefore DEF Ahead, Upto
    <3>3. Before(d, k) /\ Upto(k, d)
      BY <1>1, <1>3, <2>1, <3>2 DEF Before
    <3> QED
      BY <1>1, <2>1, <3>3, BeforeOneWay DEF Upto
  <2>5. d \in pruned
    BY <2>2, <2>3, <2>4 DEF WalkInv, Skipping
  <2> QED
    BY <1>1, <1>3, <2>1, <2>5 DEF Hidden
<1> QED
  BY <1>1, <1>3 DEF Included, k

(* The directory held back follows all that was delivered.                 *)
LEMMA FlushedIs ==
  ASSUME WalkInv
  PROVE  /\ OrderlyLog(Flushed, Included) /\ Len(Flushed) \in Nat /\ saved \in 0..Len(Flushed)
         /\ CompleteFrom(saved, Flushed, blind, Included)
         /\ KeysOf(delivered) \subseteq KeysOf(Flushed)
         /\ \A y \in KeysOf(Flushed) : y \in KeysOf(delivered) \/ (y = pending /\ pending # Root)
         /\ ReportedOf(delivered) \subseteq ReportedOf(Flushed)
         /\ \A x \in Included : x = pending \/ Seen(delivered, blind, x) => Seen(Flushed, blind, x)
         /\ \A y \in KeysOf(Flushed) : Upto(y, cursor) \/ Upto(y, reached)
<1>1. /\ delivered \in Seq(Entries) /\ OrderlyLog(delivered, Included) /\ saved \in 0..Len(delivered)
      /\ CompleteFrom(saved, delivered, blind, Included) /\ Len(delivered) \in Nat
      /\ \A k \in Included : k # Root /\ k \in Key
      /\ reached \in Key /\ cursor \in Key /\ KeysOf(delivered) \subseteq Key
  <2>1. /\ delivered \in Seq(Entries) /\ OrderlyLog(delivered, Included) /\ saved \in 0..Len(delivered)
        /\ CompleteFrom(saved, delivered, blind, Included)
    BY DEF WalkInv, WalkPosition, OrderlyLog, Accounted
  <2>2. Included \subseteq DOMAIN tree /\ DOMAIN tree \subseteq Key /\ Root \notin DOMAIN tree
        /\ reached \in Key /\ cursor \in Key
    BY PositionIs DEF WalkInv
  <2> QED
    BY <2>1, <2>2, KeysAre
<1>2. \A k \in KeysOf(delivered) : Upto(k, cursor) \/ Before(k, reached) \/ (k = reached /\ pending = Root)
  BY DEF WalkInv, WalkPosition
<1>3. CASE pending = Root
  <2>1. Flushed = delivered
    BY <1>3 DEF Flushed
  <2> QED
    BY <1>1, <1>2, <1>3, <2>1 DEF Upto
<1>4. CASE pending # Root
  <2>1. Flushed = Delivered(delivered, pending, FALSE)
    BY <1>4 DEF Flushed
  <2>2. reached = pending /\ Before(cursor, pending) /\ pending \in Included /\ pending \in Key
    BY <1>1, <1>4 DEF WalkInv, WalkPosition
  <2>3. \A y \in KeysOf(delivered) : Before(y, pending)
    BY <1>1, <1>2, <1>4, <2>2, UptoOn
  <2>4. OrderlyLog(Flushed, Included)
    BY <1>1, <2>1, <2>2, <2>3, OrderlyOn
  <2>5. \A x \in Included : Before(x, pending) => Seen(delivered, blind, x)
    <3>1. \A x \in Included : Before(x, pending) => x # pending
      BY <1>1, <2>2, BeforeOneWay
    <3> QED
      BY <2>2, <3>1 DEF WalkInv, Accounted, Upto
  <2>6. CompleteFrom(saved, Flushed, blind, Included)
    BY <1>1, <2>1, <2>2, <2>5, CompleteOn
  <2>7. /\ Len(Flushed) = Len(delivered) + 1 /\ KeysOf(Flushed) = KeysOf(delivered) \cup {pending}
        /\ ReportedOf(delivered) \subseteq ReportedOf(Flushed)
    <3>1. FALSE \in BOOLEAN
      OBVIOUS
    <3> QED
      BY ONLY <1>1, <2>1, <2>2, <3>1, KeysOnto
  <2>8. \A x \in Included : x = pending \/ Seen(delivered, blind, x) => Seen(Flushed, blind, x)
    BY <1>1, <2>1, <2>2, SeenOn
  <2> QED
    BY <1>1, <1>4, <2>2, <2>3, <2>4, <2>6, <2>7, <2>8 DEF Upto
<1> QED
  BY <1>3, <1>4

LEMMA WalkBegins == ASSUME WalkOrderInit PROVE WalkInv
<1> USE DEF WalkOrderInit, WalkStart
<1>1. delivered = <<>> /\ KeysOf(delivered) = {} /\ Len(delivered) = 0 /\ DOMAIN delivered = {}
      /\ delivered \in Seq(Entries)
  BY DEF KeysOf, ToSet
<1>2. WalkPosition
  <2>1. OrderlyLog(delivered, Included)
    BY <1>1 DEF OrderlyLog
  <2>2. saved \in 0..Len(delivered) /\ tree \in Trees /\ exclusion \in Exclusions
    BY <1>1
  <2> QED
    BY <1>1, <2>1, <2>2 DEF WalkPosition
<1>3. \A d \in DOMAIN tree : ~Upto(d, Root)
  BY <1>2, PositionIs
<1>4. Skipping
  BY <1>3 DEF Skipping, Directories
<1>5. CompleteFrom(saved, delivered, blind, Included)
  <2>1. ASSUME NEW m \in saved..Len(delivered) PROVE Complete(SubSeq(delivered, 1, m), blind, Included)
    <3>1. m = 0
      BY <1>1, <2>1
    <3>2. SubSeq(delivered, 1, m) = <<>>
      BY <3>1
    <3> QED
      BY <3>2 DEF Complete, KeysOf, ToSet
  <2> QED
    BY <2>1 DEF CompleteFrom
<1>6. Included \subseteq DOMAIN tree
  BY DEF Included
<1> QED
  BY <1>2, <1>3, <1>4, <1>5, <1>6 DEF WalkInv, Accounted

LEMMA VisitKeeps == ASSUME WalkInv, VisitEntry PROVE WalkInv'
<1> DEFINE k == Upcoming
           dir == tree[k] = "dir"
           action == IF Excluded(k) THEN "skip" ELSE Against(k, dir)
<1>1. /\ ~over /\ ~due /\ Ahead # {}
      /\ reached' = k /\ due' = (dir /\ action # "skip")
      /\ pruned' = IF dir /\ action = "skip" THEN pruned \cup {k} ELSE pruned
      /\ pending' = IF dir /\ action = "visit" THEN k ELSE Root
      /\ delivered' = IF ~dir /\ action = "visit" THEN Delivered(Flushed, k, FALSE) ELSE Flushed
      /\ tree' = tree /\ exclusion' = exclusion /\ cursor' = cursor /\ unlistable' = unlistable /\ lost' = lost
      /\ blind' = blind /\ saved' = saved /\ over' = over
  BY DEF VisitEntry, Walking
<1>2. /\ k \in DOMAIN tree /\ k \in Key /\ Before(reached, k) /\ ~Hidden(k) /\ \A x \in Ahead : Upto(k, x)
      /\ k # Root /\ cursor \in Key /\ reached \in Key /\ Root \in Key /\ Included \subseteq Key
      /\ Included \subseteq DOMAIN tree /\ KeysOf(delivered) \subseteq Included
  BY <1>1, UpcomingIs, PositionIs DEF WalkInv
<1>3. Excluded(k) <=> k \in ExcludedKeys
  BY <1>2 DEF ExcludedKeys
<1>4. ~Excluded(k) => k \in Included
  BY <1>1, UpcomingIncluded
<1>5. k \in Included => k \notin ExcludedKeys
  BY <1>2, LeadsIs DEF Included
<1>6. /\ action = "visit" => k \in Included /\ Before(cursor, k)
      /\ action = "descend" => k \in Included /\ Upto(k, cursor) /\ Leads(k, cursor)
      /\ action = "skip" => k \in ExcludedKeys \/ (Upto(k, cursor) /\ (dir => Before(k, cursor) /\ ~Leads(k, cursor)))
      /\ action \in {"visit", "descend", "skip"}
  <2>1. Compare(k, cursor) > 0 <=> Before(cursor, k)
    BY <1>2, CompareIs
  <2>2. cursor = Root => Before(cursor, k)
    BY <1>2, RootFirst
  <2>3. ~Before(cursor, k) <=> Upto(k, cursor)
    BY <1>2, OneIsBefore, BeforeOneWay, NotBeforeSelf DEF Upto
  <2>4. k = cursor => Leads(k, cursor)
    BY <1>2, LeadsIs
  <2>5. Against(k, dir) = IF Before(cursor, k) THEN "visit"
                          ELSE IF dir /\ Leads(k, cursor) THEN "descend" ELSE "skip"
    <3>1. (cursor = Root \/ Compare(k, cursor) > 0) <=> Before(cursor, k)
      BY <2>1, <2>2
    <3>2. Against(k, dir) = IF cursor = Root \/ Compare(k, cursor) > 0 THEN "visit"
                            ELSE IF dir /\ Leads(k, cursor) THEN "descend" ELSE "skip"
      <4> HIDE DEF k, dir
      <4>1. ASSUME cursor = Root \/ Compare(k, cursor) > 0 PROVE Against(k, dir) = "visit"
        <5>1. ~Leads(k, cursor)
          BY <1>2, <2>4, <3>1, <4>1, BeforeOneWay DEF Before
        <5> QED
          BY <4>1, <5>1, Zenon DEF Against
      <4>2. ASSUME ~(cursor = Root \/ Compare(k, cursor) > 0), dir /\ Leads(k, cursor)
            PROVE  Against(k, dir) = "descend"
        BY <4>2, Zenon DEF Against
      <4>3. ASSUME ~(cursor = Root \/ Compare(k, cursor) > 0), ~(dir /\ Leads(k, cursor))
            PROVE  Against(k, dir) = "skip"
        BY <4>3, Zenon DEF Against
      <4> QED
        BY <4>1, <4>2, <4>3, Zenon
    <3> HIDE DEF k, dir
    <3> QED
      BY <3>1, <3>2
  <2> HIDE DEF k, dir
  <2> QED
    BY <1>3, <1>4, <2>3, <2>4, <2>5 DEF Upto
<1> HIDE DEF k, dir, action
<1>7. \A x \in Included : Before(x, k) => x = pending \/ Seen(delivered, blind, x)
  <2>1. SUFFICES ASSUME NEW x \in Included, Before(x, k) PROVE \A a \in Ahead : Before(x, a)
    BY <1>1, PassedSeen
  <2>2. Ahead \subseteq Key
    BY <1>2, PositionIs DEF WalkInv, Ahead
  <2> QED
    BY <1>2, <2>1, <2>2, UptoOn
<1>8. /\ OrderlyLog(Flushed, Included) /\ Flushed \in Seq(Entries) /\ Len(Flushed) \in Nat /\ saved \in 0..Len(Flushed)
      /\ CompleteFrom(saved, Flushed, blind, Included)
      /\ KeysOf(delivered) \subseteq KeysOf(Flushed) /\ ReportedOf(delivered) \subseteq ReportedOf(Flushed)
      /\ \A x \in Included : x = pending \/ Seen(delivered, blind, x) => Seen(Flushed, blind, x)
      /\ KeysOf(Flushed) \subseteq Included
      /\ \A y \in KeysOf(Flushed) : Upto(y, cursor) \/ Before(y, k)
  <2>1. OrderlyLog(Flushed, Included) /\ \A y \in KeysOf(Flushed) : Upto(y, cursor) \/ Upto(y, reached)
    BY FlushedIs
  <2>2. KeysOf(Flushed) \subseteq Included /\ Flushed \in Seq(Entries)
    BY <2>1 DEF OrderlyLog
  <2>3. \A y \in KeysOf(Flushed) : Upto(y, cursor) \/ Before(y, k)
    BY <1>2, <2>1, <2>2, UptoOn
  <2> QED
    BY <2>1, <2>2, <2>3, FlushedIs
<1>9. /\ OrderlyLog(delivered', Included) /\ saved \in 0..Len(delivered')
      /\ CompleteFrom(saved, delivered', blind, Included)
      /\ KeysOf(Flushed) \subseteq KeysOf(delivered') /\ ReportedOf(Flushed) \subseteq ReportedOf(delivered')
      /\ \A x \in Included : Seen(Flushed, blind, x) => Seen(delivered', blind, x)
      /\ ~dir /\ action = "visit" => k \in KeysOf(delivered')
      /\ \A y \in KeysOf(delivered') : Upto(y, cursor) \/ Before(y, k) \/ (y = k /\ pending' = Root)
  <2>1. CASE ~dir /\ action = "visit"
    <3>1. delivered' = Delivered(Flushed, k, FALSE) /\ pending' = Root /\ k \in Included /\ Before(cursor, k)
      BY <1>1, <1>6, <2>1
    <3>2. \A y \in KeysOf(Flushed) : Before(y, k)
      BY <1>2, <1>8, <3>1, UptoOn
    <3>3. OrderlyLog(delivered', Included)
      BY <1>2, <1>8, <3>1, <3>2, OrderlyOn
    <3>4. CompleteFrom(saved, delivered', blind, Included)
      BY <1>2, <1>7, <1>8, <3>1, CompleteOn
    <3>5. /\ Len(delivered') = Len(Flushed) + 1 /\ KeysOf(delivered') = KeysOf(Flushed) \cup {k}
          /\ ReportedOf(Flushed) \subseteq ReportedOf(delivered')
      <4>1. FALSE \in BOOLEAN /\ Flushed \in Seq(Entries) /\ k \in Key
        BY <1>2, <1>8
      <4> QED
        BY ONLY <3>1, <4>1, KeysOnto
    <3>6. \A x \in Included : Seen(Flushed, blind, x) => Seen(delivered', blind, x)
      BY <1>2, <1>8, <3>1, SeenOn
    <3>7. saved \in 0..Len(delivered')
      BY <1>8, <3>5
    <3> QED
      BY <3>1, <3>2, <3>3, <3>4, <3>5, <3>6, <3>7
  <2>2. CASE ~(~dir /\ action = "visit")
    BY <1>1, <1>8, <2>2
  <2> QED
    BY <2>1, <2>2
<1>10. /\ ExcludedKeys' = ExcludedKeys /\ Included' = Included /\ Directories' = Directories
       /\ \A d : Under(d)' = Under(d)
  BY <1>1, SameTree
<1>11. WalkPosition'
  <2>1. tree' \in Trees /\ exclusion' \in Exclusions /\ (cursor = Root \/ cursor \in KeysOf(delivered))
    BY <1>1 DEF WalkInv, WalkPosition
  <2>2. cursor' = Root \/ cursor' \in KeysOf(delivered')
    BY <1>1, <1>8, <1>9, <2>1
  <2>3. due' \in BOOLEAN /\ (due' => reached' \in Included /\ tree[reached'] = "dir")
    BY <1>1, <1>6 DEF dir
  <2>4. pending' # Root => reached' = pending' /\ Before(cursor', pending') /\ pending' \in Included
    BY <1>1, <1>6
  <2>5. due' /\ pending' = Root => Leads(reached', cursor')
    BY <1>1, <1>2, <1>6
  <2> QED
    BY <1>1, <1>2, <1>9, <1>10, <2>1, <2>2, <2>3, <2>4, <2>5 DEF WalkPosition
<1>12. \A d : Hidden(d) => Hidden(d)'
  BY <1>1 DEF Hidden
<1>13. Skipping'
  <2>1. unlistable' \subseteq Directories /\ \A l \in lost' : \E d \in unlistable' : l \in Under(d)
    BY <1>1 DEF WalkInv, Skipping
  <2>2. \A d \in pruned' : d \in Directories /\ (d \in ExcludedKeys \/ (Before(d, cursor) /\ ~Leads(d, cursor)))
    <3>1. dir => k \in Directories
      BY <1>2 DEF dir, Directories
    <3> QED
      BY <1>1, <1>6, <3>1 DEF WalkInv, Skipping
  <2>3. ASSUME NEW d \in Directories, Upto(d, k), ~Hidden(d)'
        PROVE  \/ d \in pruned'
               \/ d \notin ExcludedKeys /\ (d \in unlistable /\ ~(due' /\ d = k) =>
                                              d \in ReportedOf(delivered') \cup blind)
    <3>1. d \in Key /\ d \in DOMAIN tree
      BY PositionIs DEF WalkInv
    <3>2. CASE Upto(d, reached)
      <4>1. \/ d \in pruned
            \/ d \notin ExcludedKeys /\ (d \in unlistable => d \in ReportedOf(delivered) \cup blind)
        BY <1>1, <1>12, <2>3, <3>2 DEF WalkInv, Skipping
      <4> QED
        BY <1>1, <1>8, <1>9, <4>1
    <3>3. CASE ~Upto(d, reached)
      <4>1. Before(reached, d)
        BY <1>2, <3>1, <3>3, OneIsBefore DEF Upto
      <4>2. d \in Ahead
        BY <1>12, <2>3, <3>1, <4>1 DEF Ahead
      <4>3. d = k
        BY <1>2, <2>3, <3>1, <4>2, BeforeOneWay DEF Upto
      <4>4. dir
        BY <2>3, <4>3 DEF Directories, dir
      <4> QED
        BY <1>1, <1>3, <1>5, <1>6, <4>3, <4>4
    <3> QED
      BY <3>2, <3>3
  <2> QED
    BY <1>1, <1>10, <2>1, <2>2, <2>3 DEF Skipping
<1>14. Accounted'
  <2>1. ASSUME NEW x \in Included, Upto(x, cursor) \/ Upto(x, k) PROVE x = pending' \/ Seen(delivered', blind, x)
    <3>1. x \in Key
      BY <1>2
    <3>2. CASE Before(x, k)
      BY <1>7, <1>8, <1>9, <3>2
    <3>3. CASE Upto(x, cursor)
      BY <1>8, <1>9, <3>3 DEF WalkInv, Accounted
    <3>4. CASE x = k /\ ~Upto(x, cursor)
      <4>1. action = "visit"
        <5>1. x \notin ExcludedKeys
          BY <1>5, <3>4
        <5> QED
          BY <1>6, <3>4, <5>1
      <4> QED
        BY <1>1, <1>9, <3>4, <4>1 DEF Seen
    <3> QED
      BY <2>1, <3>2, <3>3, <3>4 DEF Upto
  <2> QED
    BY <1>1, <1>9, <1>10, <2>1 DEF Accounted
<1> QED
  BY <1>11, <1>13, <1>14 DEF WalkInv

LEMMA ListedKeeps == ASSUME WalkInv, Listed PROVE WalkInv'
<1>1. /\ due /\ ~due' /\ due' \in BOOLEAN /\ reached \notin unlistable
      /\ UNCHANGED <<tree, exclusion, cursor, unlistable, lost, reached, pruned, pending, delivered,
                     blind, saved, walks, over>>
  BY DEF Listed, Walking
<1>2. ExcludedKeys' = ExcludedKeys /\ Included' = Included /\ Directories' = Directories /\ \A d : Under(d)' = Under(d)
  BY <1>1, SameTree
<1>3. \A d : Hidden(d)' <=> Hidden(d)
  BY <1>1 DEF Hidden
<1>4. WalkPosition'
  BY <1>1, <1>2 DEF WalkInv, WalkPosition
<1>5. Skipping'
  BY <1>1, <1>2, <1>3 DEF WalkInv, Skipping
<1>6. Accounted'
  BY <1>1, <1>2 DEF WalkInv, Accounted
<1> QED
  BY <1>4, <1>5, <1>6 DEF WalkInv

LEMMA ListingFailedKeeps == ASSUME WalkInv, ListingFailed PROVE WalkInv'
<1>1. /\ ~over /\ due /\ ~due' /\ due' \in BOOLEAN /\ reached \in unlistable /\ pending' = Root
      /\ UNCHANGED <<tree, exclusion, cursor, unlistable, lost, reached, pruned, saved, walks, over>>
  BY DEF ListingFailed, Walking
<1>2. ExcludedKeys' = ExcludedKeys /\ Included' = Included /\ Directories' = Directories /\ \A d : Under(d)' = Under(d)
  BY <1>1, SameTree
<1>3. \A d : Hidden(d)' <=> Hidden(d)
  BY <1>1 DEF Hidden
<1>4. /\ reached \in Included /\ reached # Root /\ reached \in Key /\ cursor \in Key /\ Included \subseteq Key
      /\ delivered \in Seq(Entries) /\ OrderlyLog(delivered, Included) /\ KeysOf(delivered) \subseteq Included
      /\ saved \in 0..Len(delivered) /\ CompleteFrom(saved, delivered, blind, Included) /\ Len(delivered) \in Nat
      /\ cursor = Root \/ cursor \in KeysOf(delivered)
      /\ TRUE \in BOOLEAN
  <2>1. reached \in Included /\ reached # Root /\ Included \subseteq Key
    BY <1>1, PositionIs DEF WalkInv, WalkPosition
  <2> QED
    BY <1>1, <2>1, PositionIs DEF WalkInv, WalkPosition, Accounted, OrderlyLog
<1>5. \A y \in KeysOf(delivered) : Upto(y, cursor) \/ Before(y, reached) \/ (y = reached /\ pending = Root)
  BY DEF WalkInv, WalkPosition
<1>6. \A x \in Included : Upto(x, cursor) \/ Before(x, reached) \/ (x = reached /\ pending = Root) =>
        Seen(delivered, blind, x)
  <2>1. SUFFICES ASSUME NEW x \in Included,
                        Upto(x, cursor) \/ Before(x, reached) \/ (x = reached /\ pending = Root)
                 PROVE  x # pending
    BY DEF WalkInv, Accounted, Upto
  <2>2. pending # Root => reached = pending /\ Before(cursor, pending)
    BY DEF WalkInv, WalkPosition
  <2>3. x # Root
    BY PositionIs DEF WalkInv
  <2> QED
    BY <1>4, <2>1, <2>2, <2>3, BeforeOneWay, NotBeforeSelf DEF Upto
<1> DEFINE Logged ==
             /\ OrderlyLog(delivered', Included) /\ saved \in 0..Len(delivered')
             /\ CompleteFrom(saved, delivered', blind', Included)
             /\ KeysOf(delivered) \subseteq KeysOf(delivered')
             /\ \A y \in KeysOf(delivered') : y \in KeysOf(delivered) \/ y = reached
             /\ ReportedOf(delivered) \cup blind \cup {reached} \subseteq ReportedOf(delivered') \cup blind'
             /\ \A x \in Included : Seen(delivered, blind, x) => Seen(delivered', blind', x)
             /\ pending # Root => reached \in KeysOf(delivered')
<1>7. ASSUME delivered' = Delivered(delivered, reached, TRUE), blind' = blind,
             (\A y \in KeysOf(delivered) : Before(y, reached)) \/ \E y \in KeysOf(delivered) : Leads(reached, y)
      PROVE  Logged
  <2>1. OrderlyLog(delivered', Included)
    BY <1>4, <1>7, OrderlyOn
  <2>2. CompleteFrom(saved, delivered', blind, Included)
    BY <1>4, <1>6, <1>7, CompleteOn
  <2>3. /\ Len(delivered') = Len(delivered) + 1 /\ KeysOf(delivered') = KeysOf(delivered) \cup {reached}
        /\ ReportedOf(delivered) \cup {reached} \subseteq ReportedOf(delivered')
    BY ONLY <1>4, <1>7, KeysOnto
  <2>4. \A x \in Included : Seen(delivered, blind, x) => Seen(delivered', blind, x)
    BY <1>4, <1>7, SeenOn
  <2>5. saved \in 0..Len(delivered')
    BY <1>4, <2>3
  <2> QED
    BY <1>7, <2>1, <2>2, <2>3, <2>4, <2>5
<1>8. ASSUME delivered' = delivered, blind' = blind \cup {reached}, pending = Root PROVE Logged
  <2>1. \A log, x : Seen(log, blind, x) => Seen(log, blind', x)
    BY <1>8 DEF Seen
  <2>2. CompleteFrom(saved, delivered', blind', Included)
    BY <1>4, <1>8, <2>1 DEF CompleteFrom, Complete
  <2> QED
    BY <1>4, <1>8, <2>1, <2>2
<1>9. Logged
  <2>1. pending = reached \/ pending = Root
    BY DEF WalkInv, WalkPosition
  <2>2. CASE pending = reached
    <3>1. delivered' = Delivered(delivered, reached, TRUE) /\ blind' = blind
      BY <2>2, Zenon DEF ListingFailed
    <3>2. Before(cursor, reached)
      BY <1>4, <2>2 DEF WalkInv, WalkPosition
    <3>3. \A y \in KeysOf(delivered) : Before(y, reached)
      BY <1>4, <1>5, <2>2, <3>2, UptoOn
    <3> HIDE DEF Logged
    <3> QED
      BY <1>7, <3>1, <3>3
  <2>3. CASE pending = Root
    <3>1. Leads(reached, cursor) /\ pending # reached /\ Flushed = delivered
      BY <1>1, <1>4, <2>3 DEF WalkInv, WalkPosition, Flushed
    <3>2. CASE Compare(reached, cursor) = 0
      <4>1. delivered' = delivered /\ blind' = blind \cup {reached}
        BY <3>1, <3>2, Zenon DEF ListingFailed
      <4> HIDE DEF Logged
      <4> QED
        BY <1>8, <2>3, <4>1
    <3>3. CASE Compare(reached, cursor) # 0
      <4>1. delivered' = Delivered(delivered, reached, TRUE) /\ blind' = blind
        BY <3>1, <3>3, Zenon DEF ListingFailed
      <4>2. cursor # Root
        BY <1>4, <3>1, LeadsShorter, KeyTypes, RootFirst DEF Before
      <4> HIDE DEF Logged
      <4> QED
        BY <1>4, <1>7, <3>1, <4>1, <4>2
    <3> QED
      BY <3>2, <3>3
  <2> QED
    BY <2>1, <2>2, <2>3
<1>10. WalkPosition'
  <2>1. tree' \in Trees /\ exclusion' \in Exclusions /\ (reached' = Root \/ reached' \in DOMAIN tree')
    BY <1>1 DEF WalkInv, WalkPosition
  <2>2. \A y \in KeysOf(delivered') : Upto(y, cursor) \/ Before(y, reached) \/ y = reached
    BY <1>5, <1>9
  <2> QED
    BY <1>1, <1>2, <1>4, <1>9, <2>1, <2>2 DEF WalkPosition
<1>11. Skipping'
  BY <1>1, <1>2, <1>3, <1>9 DEF WalkInv, Skipping
<1>12. Accounted'
  <2>1. ASSUME NEW x \in Included, Upto(x, cursor) \/ Upto(x, reached) PROVE Seen(delivered', blind', x)
    <3>1. CASE Upto(x, cursor) \/ Before(x, reached) \/ (x = reached /\ pending = Root)
      BY <1>6, <1>9, <3>1
    <3>2. CASE x = reached /\ pending # Root
      BY <1>9, <3>2 DEF Seen
    <3> QED
      BY <2>1, <3>1, <3>2 DEF Upto
  <2> QED
    BY <1>1, <1>2, <1>9, <2>1 DEF Accounted
<1> QED
  BY <1>10, <1>11, <1>12 DEF WalkInv

LEMMA EndOfWalkKeeps == ASSUME WalkInv, EndOfWalk PROVE WalkInv'
<1>1. /\ ~due /\ Ahead = {} /\ delivered' = Flushed /\ pending' = Root /\ over' = TRUE
      /\ UNCHANGED <<tree, exclusion, cursor, unlistable, lost, reached, due, pruned, blind, saved>>
  BY DEF EndOfWalk
<1>2. ExcludedKeys' = ExcludedKeys /\ Included' = Included /\ Directories' = Directories /\ \A d : Under(d)' = Under(d)
  BY <1>1, SameTree
<1>3. \A d : Hidden(d)' <=> Hidden(d)
  BY <1>1 DEF Hidden
<1>4. \A x \in Included : Seen(delivered', blind, x)
  BY <1>1, PassedSeen, FlushedIs
<1>5. WalkPosition'
  <2>1. /\ tree' \in Trees /\ exclusion' \in Exclusions /\ (reached' = Root \/ reached' \in DOMAIN tree')
        /\ cursor' = Root \/ cursor' \in KeysOf(delivered')
        /\ due' \in BOOLEAN /\ ~due'
    BY <1>1, FlushedIs DEF WalkInv, WalkPosition
  <2>2. OrderlyLog(delivered', Included) /\ saved \in 0..Len(delivered')
        /\ \A y \in KeysOf(delivered') : Upto(y, cursor) \/ Before(y, reached) \/ y = reached
    BY <1>1, FlushedIs DEF Upto
  <2> QED
    BY <1>1, <1>2, <2>1, <2>2 DEF WalkPosition
<1>6. Skipping'
  <2>1. ReportedOf(delivered) \subseteq ReportedOf(delivered')
    BY <1>1, FlushedIs
  <2> QED
    BY <1>1, <1>2, <1>3, <2>1 DEF WalkInv, Skipping
<1>7. Accounted'
  <2>1. CompleteFrom(saved, delivered', blind, Included)
    BY <1>1, FlushedIs
  <2> QED
    BY <1>1, <1>2, <1>4, <2>1 DEF Accounted
<1> QED
  BY <1>5, <1>6, <1>7 DEF WalkInv

LEMMA FurthestIs ==
  ASSUME NEW log \in Seq(Entries), NEW in, IsFiniteSet(in), KeysOf(log) \subseteq in
  PROVE  /\ Furthest(log) = Root \/ Furthest(log) \in KeysOf(log)
         /\ Furthest(log) \in Key /\ \A y \in KeysOf(log) : Upto(y, Furthest(log))
<1> DEFINE keys == {Root} \cup KeysOf(log)
<1>1. KeysOf(log) \subseteq Key /\ IsFiniteSet(KeysOf(log)) /\ Root \in Key
  BY KeysAre, RootFirst, FS_Subset, EmptySeq DEF Key, Root
<1>2. keys \subseteq Key /\ IsFiniteSet(keys) /\ keys # {}
  BY <1>1, FS_AddElement, FS_Union, FS_Singleton
<1>3. Furthest(log) = CHOOSE c \in keys : \A k \in keys : Compare(k, c) <= 0
  BY DEF Furthest, KeysOf
<1> HIDE DEF keys
<1>4. \A c \in keys, k \in keys : Compare(k, c) <= 0 <=> Upto(k, c)
  <2>1. ASSUME NEW c \in keys, NEW k \in keys PROVE Compare(k, c) <= 0 <=> Upto(k, c)
    <3>1. c \in Key /\ k \in Key
      BY <1>2
    <3> QED
      BY <3>1, CompareIs DEF Upto
  <2> QED
    BY <2>1
<1>5. \E c \in keys : \A k \in keys : Compare(k, c) <= 0
  BY <1>2, <1>4, LastKey
<1>6. Furthest(log) \in keys /\ \A k \in keys : Upto(k, Furthest(log))
  BY <1>3, <1>4, <1>5
<1> QED
  BY <1>2, <1>6 DEF keys

LEMMA PrefixOf ==
  ASSUME NEW in, NEW log, OrderlyLog(log, in), NEW n \in 0..Len(log)
  PROVE  OrderlyLog(SubSeq(log, 1, n), in) /\ Len(SubSeq(log, 1, n)) = n
<1> DEFINE short == SubSeq(log, 1, n)
<1>1. log \in Seq(Entries) /\ Len(log) \in Nat /\ DOMAIN log = 1..Len(log)
  BY DEF OrderlyLog
<1>2. short \in Seq(Entries) /\ Len(short) = n /\ DOMAIN short = 1..n /\ \A i \in 1..n : short[i] = log[i]
  BY <1>1
<1> HIDE DEF short
<1>3. \A i \in 1..n : i \in 1..Len(log)
  BY <1>1
<1>4. KeysOf(short) \subseteq KeysOf(log)
  BY <1>1, <1>2, <1>3, KeysAre
<1>5. ASSUME NEW i \in DOMAIN short, NEW j \in DOMAIN short, i < j
      PROVE  \/ Before(short[i].key, short[j].key)
             \/ short[j].err /\ \E m \in 1..(j - 1) : Leads(short[j].key, short[m].key)
  <2>1. i \in DOMAIN log /\ j \in DOMAIN log /\ short[i] = log[i] /\ short[j] = log[j]
    BY <1>1, <1>2, <1>3, <1>5
  <2>2. \A m \in 1..(j - 1) : short[m] = log[m]
    BY <1>2, <1>5
  <2> QED
    BY <1>5, <2>1, <2>2 DEF OrderlyLog
<1> QED
  BY <1>2, <1>4, <1>5 DEF OrderlyLog, short

LEMMA NewProcessKeeps == ASSUME WalkInv, NewProcess PROVE WalkInv'
<1>1. PICK n \in 0..Len(delivered) :
        /\ n >= saved /\ saved' = n /\ delivered' = SubSeq(delivered, 1, n)
        /\ StartAt(Furthest(SubSeq(delivered, 1, n)))
  BY DEF NewProcess
<1>2. ~over /\ tree' = tree /\ exclusion' = exclusion /\ blind' = blind /\ over' = over
  BY DEF NewProcess
<1>3. /\ cursor' = Furthest(delivered') /\ reached' = Root /\ due' = FALSE /\ pruned' = {} /\ pending' = Root
      /\ unlistable' \subseteq Directories /\ \A l \in lost' : \E d \in unlistable' : l \in Under(d)
  BY <1>1 DEF StartAt
<1>4. ExcludedKeys' = ExcludedKeys /\ Included' = Included /\ Directories' = Directories /\ \A d : Under(d)' = Under(d)
  BY <1>2, SameTree
<1>5. /\ OrderlyLog(delivered', Included) /\ Len(delivered') = n /\ n \in Nat
      /\ delivered' \in Seq(Entries) /\ KeysOf(delivered') \subseteq Included
  <2>1. OrderlyLog(delivered, Included)
    BY DEF WalkInv, WalkPosition
  <2>2. OrderlyLog(delivered', Included) /\ Len(delivered') = n
    BY <1>1, <2>1, PrefixOf
  <2>3. Len(delivered) \in Nat
    BY <2>1 DEF OrderlyLog
  <2> QED
    BY <2>2, <2>3 DEF OrderlyLog
<1>6. /\ cursor' = Root \/ cursor' \in KeysOf(delivered')
      /\ \A y \in KeysOf(delivered') : Upto(y, cursor')
  <2>1. IsFiniteSet(Included)
    BY PositionIs, FS_Subset DEF WalkInv
  <2> QED
    BY <1>3, <1>5, <2>1, FurthestIs
<1>7. Complete(delivered', blind, Included)
  <2>1. n \in saved..Len(delivered)
    BY <1>1 DEF WalkInv, WalkPosition
  <2> QED
    BY <1>1, <2>1 DEF WalkInv, Accounted, CompleteFrom
<1>8. \A d \in DOMAIN tree : ~Upto(d, Root)
  BY PositionIs DEF WalkInv
<1>9. WalkPosition'
  <2>1. tree' \in Trees /\ exclusion' \in Exclusions /\ saved' \in 0..Len(delivered') /\ due' \in BOOLEAN
    <3>1. tree' \in Trees /\ exclusion' \in Exclusions
      BY <1>2 DEF WalkInv, WalkPosition
    <3>2. saved' = Len(delivered') /\ Len(delivered') \in Nat
      BY <1>1, <1>5
    <3>3. \A m \in Nat : m \in 0..m
      OBVIOUS
    <3> QED
      BY <1>3, <3>1, <3>2, <3>3
  <2> QED
    BY <1>3, <1>4, <1>5, <1>6, <2>1 DEF WalkPosition
<1>10. Skipping'
  <2>1. \A d \in Directories : ~Upto(d, reached')
    BY <1>3, <1>8 DEF Directories
  <2> QED
    BY <1>3, <1>4, <2>1 DEF Skipping
<1>11. Accounted'
  <2>1. ASSUME NEW x \in Included, Upto(x, cursor') \/ Upto(x, reached') PROVE Seen(delivered', blind', x)
    <3>1. ~Upto(x, Root)
      BY <1>8 DEF Included
    <3>2. Upto(x, cursor') /\ cursor' \in KeysOf(delivered')
      BY <1>3, <1>6, <2>1, <3>1
    <3> QED
      BY <1>2, <1>7, <3>2 DEF Complete
  <2>2. CompleteFrom(n, delivered', blind', Included)
    <3>1. ASSUME NEW m \in n..Len(delivered') PROVE Complete(SubSeq(delivered', 1, m), blind', Included)
      <4>1. m = Len(delivered')
        BY <1>5
      <4>2. SubSeq(delivered', 1, m) = delivered'
        BY <1>5, <4>1, SubSeqFull
      <4> QED
        BY <1>2, <1>7, <4>2
    <3> QED
      BY <3>1 DEF CompleteFrom
  <2> QED
    BY <1>1, <1>2, <1>3, <1>4, <2>1, <2>2 DEF Accounted
<1> QED
  BY <1>9, <1>10, <1>11 DEF WalkInv

LEMMA WalkStep == ASSUME WalkInv, [WalkOrderNext]_walkOrderVars PROVE WalkInv'
<1>1. CASE WalkOrderNext
  BY <1>1, NewProcessKeeps, VisitKeeps, ListedKeeps, ListingFailedKeeps, EndOfWalkKeeps DEF WalkOrderNext
<1>2. CASE UNCHANGED walkOrderVars
  <2>1. UNCHANGED <<tree, exclusion, cursor, unlistable, lost, reached, due, pruned, pending, delivered,
                    blind, saved, over>>
    BY <1>2 DEF walkOrderVars
  <2>2. ExcludedKeys' = ExcludedKeys /\ Included' = Included /\ Directories' = Directories
        /\ \A d : Under(d)' = Under(d)
    BY <2>1, SameTree
  <2>3. \A d : Hidden(d)' <=> Hidden(d)
    BY <2>1 DEF Hidden
  <2> QED
    BY <2>1, <2>2, <2>3 DEF WalkInv, WalkPosition, Skipping, Accounted
<1> QED
  BY <1>1, <1>2

LEMMA IncludedIsMeant ==
  ASSUME WalkPosition, NEW k \in DOMAIN tree
  PROVE  k \in Included <=> ~MeantOut(k)
<1>1. /\ DOMAIN tree \subseteq Key /\ Root \notin DOMAIN tree /\ exclusion.globs \subseteq Globs
      /\ tree \in Trees
  BY PositionIs, GlobAssumption DEF WalkPosition, Globs
<1>2. \A d \in DOMAIN tree : \A g \in exclusion.globs : Matching(g, d) <=> Meant(g, d)
  BY <1>1, MatchingIsMeant
<1>3. k \in Key /\ k # Root /\ Len(k) \in Nat /\ Len(k) # 0
  BY <1>1, EmptySeq DEF Key, Root
<1>4. \A d \in DOMAIN tree : Leads(d, k) => Len(d) # 0 /\ d[1] = k[1] /\ Len(d) \in Nat
  <2>1. SUFFICES ASSUME NEW d \in DOMAIN tree, Leads(d, k) PROVE Len(d) # 0 /\ d[1] = k[1] /\ Len(d) \in Nat
    OBVIOUS
  <2>2. d \in Key /\ Len(d) \in Nat /\ Len(d) # 0
    BY <1>1, EmptySeq DEF Key, Root
  <2> QED
    BY <1>3, <2>1, <2>2, LeadsIs
<1>5. \E d \in DOMAIN tree : Leads(d, k) /\ Len(d) = 1
  <2>1. CASE Len(k) = 1
    BY <1>3, <2>1, LeadsIs
  <2>2. CASE Len(k) # 1
    <3> DEFINE d == SubSeq(k, 1, 1)
    <3>1. d \in DOMAIN tree
      <4>1. \A n \in Nat : n # 0 /\ n # 1 => 1 \in 1..(n - 1)
        OBVIOUS
      <4>2. 1 \in 1..(Len(k) - 1)
        BY <1>3, <2>2, <4>1
      <4> QED
        BY <1>1, <4>2, TreeAssumption
    <3>2. d \in Key /\ Len(d) = 1 /\ d[1] = k[1]
      BY <1>3 DEF Key
    <3>3. Leads(d, k)
      <4>1. Len(d) <= Len(k) /\ \A i \in 1..Len(d) : d[i] = k[i]
        BY <1>3, <3>2
      <4> HIDE DEF d
      <4> QED
        BY <1>3, <3>2, <4>1, LeadsIs
    <3> HIDE DEF d
    <3> QED
      BY <3>1, <3>2, <3>3
  <2> QED
    BY <2>1, <2>2
<1>6. k \notin Included <=> \E d \in DOMAIN tree : Leads(d, k) /\ Excluded(d)
  BY DEF Included, ExcludedKeys
<1>7. \A d \in DOMAIN tree :
        Excluded(d) <=> \/ Len(d) = 1 /\ d[1] \in exclusion.reserved
                        \/ d \in exclusion.skip \/ Last(d) \in exclusion.part
                        \/ \E g \in exclusion.globs : Meant(g, d)
  BY <1>2 DEF Excluded, ReservedName, IsPartFile
<1>8. (\E d \in DOMAIN tree : Leads(d, k) /\ Len(d) = 1 /\ d[1] \in exclusion.reserved)
        <=> k[1] \in exclusion.reserved
  BY <1>4, <1>5
<1> QED
  BY <1>6, <1>7, <1>8 DEF MeantOut

LEMMA WalkInvImplies == ASSUME WalkInv PROVE WalkedOnce
<1> DEFINE keys == {x.key : x \in ToSet(delivered)}
           reported == {x.key : x \in {y \in ToSet(delivered) : y.err}}
<1>1. keys = KeysOf(delivered) /\ reported = ReportedOf(delivered)
  BY DEF KeysOf, ReportedOf
<1> HIDE DEF keys, reported
<1>2. ASSUME over, NEW k \in DOMAIN tree
      PROVE  (k \in keys) = ~MeantOut(k) \/ (k \notin keys /\ \E d \in reported \cup blind : Leads(d, k) /\ d # k)
  <2>1. k \in Included <=> ~MeantOut(k)
    BY IncludedIsMeant DEF WalkInv
  <2>2. k \in keys => k \in Included
    BY <1>1, PositionIs DEF WalkInv
  <2>3. k \in Included => k \in keys \/ \E d \in reported \cup blind : Leads(d, k) /\ d # k
    BY <1>1, <1>2 DEF WalkInv, Accounted, Seen
  <2> QED
    BY <2>1, <2>2, <2>3
<1>3. OrderlyLog(delivered, Included)
  BY DEF WalkInv, WalkPosition
<1> QED
  BY <1>2, <1>3 DEF WalkedOnce, OrderlyLog, keys, reported

(* At every moment of the walks of a scan: where the walk is in the order  *)
(* (WalkPosition), why what it will not visit may be left out (Skipping),  *)
(* and that no entry it has passed is missing from what was delivered,     *)
(* whichever prefix of it the next process starts from (Accounted).  The   *)
(* walk is walker.go's visit with order.go's Against.                      *)
THEOREM WalkInvariant == WalkOrderSpec => []WalkInv
<1>1. WalkOrderInit => WalkInv
  BY WalkBegins
<1>2. WalkInv /\ [WalkOrderNext]_walkOrderVars => WalkInv'
  BY WalkStep
<1> QED
  BY <1>1, <1>2, PTL DEF WalkOrderSpec

(* However the processes of a scan are cut off, and whatever tree and      *)
(* exclusions it has: when the last one ends, an entry was delivered once, *)
(* in walk order, exactly when the exclusions as they are meant let it in, *)
(* or it lies below a directory that could not be listed (order.go         *)
(* Compare, Against and Glob.Match, walker.go visit and flush).            *)
THEOREM EachWalkedOnce == WalkOrderSpec => []WalkedOnce
<1>1. WalkInv => WalkedOnce
  BY WalkInvImplies
<1> QED
  BY <1>1, WalkInvariant, PTL
-----------------------------------------------------------------------------
(* The times of a series: as many as lie before the video's end, at most   *)
(* the limit.                                                              *)
LEMMA SpacedIs ==
  ASSUME NEW d \in Nat \ {0}, NEW every \in Nat \ {0}, NEW limit \in Nat \ {0}
  PROVE  LET c == Cardinality(Spaced(d, every, limit))
         IN  /\ c \in 1..limit
             /\ \A i \in 1..c : (i - 1) * every \in Nat /\ (i - 1) * every < d
<1> DEFINE T == {k \in Nat : k >= 1 /\ (k >= limit \/ k * every >= d)}
<1>1. limit \in T
  OBVIOUS
<1>2. PICK k \in T : \A j \in T : k <= j
  BY <1>1, LeastOf
<1>3. k \in 1..limit
  BY <1>1, <1>2
<1>4. \A i \in 0..(k - 1) : i * every \in Nat /\ i * every < d
  <2> TAKE i \in 0..(k - 1)
  <2>1. i \in Nat /\ i * every \in Nat /\ i < k /\ i < limit
    BY <1>3, Times
  <2>2. CASE i = 0
    BY <2>1, <2>2
  <2>3. CASE i # 0
    <3>1. i \notin T
      BY <1>2, <2>1
    <3> QED
      BY <2>1, <2>3, <3>1
  <2> QED
    BY <2>2, <2>3
<1>5. \A i \in 0..(limit - 1) : i * every < d => i < k
  <2> SUFFICES ASSUME NEW i \in 0..(limit - 1), i * every < d, i >= k PROVE FALSE
    BY <1>3
  <2>1. k * every \in Nat /\ k * every <= i * every
    BY <1>3, Further
  <2>2. k < limit /\ k * every >= d
    BY <1>2, <1>3
  <2>3. i * every \in Nat
    BY Times
  <2> QED
    BY <2>1, <2>2, <2>3
<1>6. Spaced(d, every, limit) = 0..(k - 1)
  <2>1. \A i \in 0..(k - 1) : i \in 0..(limit - 1)
    BY <1>3
  <2>2. \A i \in 0..(limit - 1) : i < k => i \in 0..(k - 1)
    BY <1>3
  <2> HIDE DEF T
  <2> QED
    BY <1>4, <1>5, <2>1, <2>2 DEF Spaced
<1>7. Cardinality(0..(k - 1)) = k
  BY <1>3, FS_Interval
<1>8. \A i \in 1..k : i - 1 \in 0..(k - 1)
  BY <1>3
<1> HIDE DEF T
<1> QED
  BY <1>3, <1>4, <1>6, <1>7, <1>8

(* The parts of a sample, each within the video where its length is known. *)
Inside(r, d) == r.start >= 0 /\ r.start < d /\ r.start + r.len <= d
Fit(ranges, d, limit) ==
  /\ ranges # <<>> /\ Len(ranges) <= limit
  /\ d > 0 => \A r \in ToSet(ranges) : Inside(r, d)

LEMMA OneFits ==
  ASSUME NEW r, NEW d \in Int, NEW limit \in Nat \ {0}, d > 0 => Inside(r, d)
  PROVE  Fit(<<r>>, d, limit)
BY DEF Fit, ToSet

LEMMA SampleFits ==
  ASSUME NEW choice \in Modes, choice # "none", NEW d \in Int, d > 0 \/ choice = "start",
         NEW len \in Nat \ {0}, NEW every \in Nat \ {0}, NEW limit \in Nat \ {0}
  PROVE  Fit(SampleRanges(choice, d, d > 0, len, every, limit), d, limit)
<1> DEFINE ranges == SampleRanges(choice, d, d > 0, len, every, limit)
           known == d > 0
<1>1. CASE ~known
  <2>1. ranges = <<Span(0, len)>>
    BY <1>1, Zenon DEF SampleRanges
  <2> QED
    BY <1>1, <2>1, OneFits
<1>2. CASE known /\ d <= len
  <2>1. ranges = <<Span(0, d)>>
    <3>1. ~(d > len)
      BY <1>2
    <3> QED
      BY <1>2, <3>1, Zenon DEF SampleRanges
  <2>2. Inside(Span(0, d), d)
    BY <1>2 DEF Inside, Span
  <2> QED
    BY <2>1, <2>2, OneFits
<1>3. CASE known /\ d > len
  <2>1. ~(d <= len)
    BY <1>3
  <2>2. CASE choice = "start"
    <3>1. ranges = <<Span(0, len)>>
      BY <1>3, <2>1, <2>2, Zenon DEF SampleRanges
    <3>2. Inside(Span(0, len), d)
      BY <1>3 DEF Inside, Span
    <3> QED
      BY <3>1, <3>2, OneFits
  <2>3. CASE choice = "middle"
    <3>1. ranges = <<Span(d \div 2 - len \div 2, len)>>
      BY <1>3, <2>1, <2>3, Zenon DEF SampleRanges
    <3>2. Inside(Span(d \div 2 - len \div 2, len), d)
      BY <1>3 DEF Inside, Span
    <3> QED
      BY <3>1, <3>2, OneFits
  <2>4. CASE choice = "end"
    <3>1. ranges = <<Span(d - len, len)>>
      BY <1>3, <2>1, <2>4, Zenon DEF SampleRanges
    <3>2. Inside(Span(d - len, len), d)
      BY <1>3 DEF Inside, Span
    <3> QED
      BY <3>1, <3>2, OneFits
  <2>5. CASE choice = "series"
    <3> DEFINE c == Cardinality(Spaced(d, every, limit))
               part(i) == Span((i - 1) * every, Least(len, d - (i - 1) * every))
    <3>1. ranges = [i \in 1..c |-> part(i)]
      BY <1>3, <2>1, <2>5, Zenon DEF SampleRanges
    <3>2. c \in 1..limit /\ \A i \in 1..c : (i - 1) * every \in Nat /\ (i - 1) * every < d
      BY <1>3, SpacedIs
    <3>3. \A i \in 1..c : Inside(part(i), d)
      <4> TAKE i \in 1..c
      <4> DEFINE t == (i - 1) * every
      <4>1. t \in Nat /\ t < d
        BY <3>2
      <4> HIDE DEF t
      <4>2. Inside(Span(t, Least(len, d - t)), d)
        BY <1>3, <4>1 DEF Inside, Span, Least
      <4> QED
        BY <4>2 DEF t
    <3> HIDE DEF c, part
    <3>4. Len(ranges) = c /\ ranges # <<>> /\ ToSet(ranges) = {part(i) : i \in 1..c}
      <4>1. DOMAIN ranges = 1..c
        BY <3>1
      <4>2. Len(ranges) = c
        BY <3>1, <3>2, <4>1
      <4>3. ranges # <<>>
        BY <3>2, <4>2
      <4> HIDE DEF ranges
      <4>4. ToSet(ranges) = {part(i) : i \in 1..c}
        BY <3>1, <4>1, Zenon DEF ToSet
      <4> QED
        BY <4>2, <4>3, <4>4
    <3> QED
      BY <3>2, <3>3, <3>4 DEF Fit
  <2> QED
    BY <2>2, <2>3, <2>4, <2>5 DEF Modes
<1> QED
  BY <1>1, <1>2, <1>3

(* The times of images.                                                    *)
LEMMA ImageTimesFit ==
  ASSUME NEW choice \in Modes, choice # "none", NEW d \in Int, d > 0 \/ choice = "start",
         NEW every \in Nat \ {0}, NEW limit \in Nat \ {0}
  PROVE  LET times == ImageTimes(choice, d, d > 0, every, limit)
         IN  \E c \in 1..limit :
               /\ DOMAIN times = 1..c /\ Len(times) = c
               /\ d > 0 => \A i \in 1..c : Inside(Span(times[i], 0), d)
<1> DEFINE times == ImageTimes(choice, d, d > 0, every, limit)
           known == d > 0
<1>1. 1 \in 1..limit
  OBVIOUS
<1>2. ASSUME NEW t, times = <<t>>, known => t \in Nat /\ t < d
      PROVE  /\ DOMAIN times = 1..1 /\ Len(times) = 1
             /\ d > 0 => \A i \in 1..1 : Inside(Span(times[i], 0), d)
  BY <1>2 DEF Inside, Span
<1>3. Second \in Nat \ {0}
  BY PreviewAssumption
<1>4. CASE ~known
  <2>1. times = <<Second>>
    BY <1>4, Zenon DEF ImageTimes
  <2> QED
    BY <1>1, <1>2, <1>4, <2>1
<1>5. CASE known /\ choice = "start"
  <2>1. times = <<Least(Second, d \div 2)>>
    BY <1>5, Zenon DEF ImageTimes
  <2>2. Least(Second, d \div 2) \in Nat /\ Least(Second, d \div 2) < d
    BY <1>3, <1>5 DEF Least
  <2> QED
    BY <1>1, <1>2, <2>1, <2>2
<1>6. CASE known /\ choice = "middle"
  <2>1. times = <<d \div 2>>
    BY <1>6, Zenon DEF ImageTimes
  <2>2. d \div 2 \in Nat /\ d \div 2 < d
    BY <1>6
  <2> QED
    BY <1>1, <1>2, <2>1, <2>2
<1>7. CASE known /\ choice = "end"
  <2>1. times = <<Most(0, d - Second)>>
    BY <1>7, Zenon DEF ImageTimes
  <2>2. Most(0, d - Second) \in Nat /\ Most(0, d - Second) < d
    BY <1>3, <1>7 DEF Most
  <2> QED
    BY <1>1, <1>2, <2>1, <2>2
<1>8. CASE known /\ choice = "series"
  <2> DEFINE c == Cardinality(Spaced(d, every, limit))
             time(i) == IF i = 1 THEN Least(Second, d \div 2) ELSE (i - 1) * every
  <2>1. times = [i \in 1..Most(1, c) |-> time(i)]
    BY <1>8, Zenon DEF ImageTimes
  <2>2. c \in 1..limit /\ \A i \in 1..c : (i - 1) * every \in Nat /\ (i - 1) * every < d
    BY <1>8, SpacedIs
  <2>3. Most(1, c) = c
    BY <2>2 DEF Most
  <2>4. Least(Second, d \div 2) \in Nat /\ Least(Second, d \div 2) < d
    BY <1>3, <1>8 DEF Least
  <2>5. \A i \in 1..c : time(i) \in Nat /\ time(i) < d
    BY <2>2, <2>4
  <2> HIDE DEF c, time
  <2>6. DOMAIN times = 1..c /\ \A i \in 1..c : times[i] = time(i)
    BY <2>1, <2>3
  <2>7. Len(times) = c
    BY <2>2, <2>6
  <2>8. \A i \in 1..c : Inside(Span(times[i], 0), d)
    <3> TAKE i \in 1..c
    <3>1. times[i] = time(i) /\ time(i) \in Nat /\ time(i) < d
      BY <2>5, <2>6
    <3> HIDE DEF times
    <3> QED
      BY <3>1 DEF Inside, Span
  <2> QED
    BY <2>2, <2>6, <2>7, <2>8
<1> QED
  BY <1>4, <1>5, <1>6, <1>7, <1>8 DEF Modes

(* A frame fits: it has even sides, is not larger than the video's nor     *)
(* than the box.                                                           *)
Frames(size, w, h, box) ==
  /\ size.width % 2 = 0 /\ size.height % 2 = 0
  /\ size.width \in 2..w /\ size.height \in 2..h
  /\ {size.width, size.height} \subseteq 2..Most(box.width, box.height)

LEMMA Scaled ==
  ASSUME NEW a \in Nat, NEW b \in Nat, NEW m \in Nat \ {0}, NEW n \in Nat, a * b <= n * m
  PROVE  (a * b) \div m \in 0..n
<1> DEFINE q == (a * b) \div m
<1>1. a * b \in Nat
  OBVIOUS
<1>2. q \in Nat /\ m * q <= a * b
  BY <1>1
<1>3. CASE q > n
  <2>1. (n + 1) * m <= q * m
    BY <1>2, <1>3, Further
  <2>2. (n + 1) * m = n * m + m /\ n * m \in Nat /\ q * m = m * q /\ q * m \in Nat
    BY <1>2, Times
  <2> HIDE DEF q
  <2> QED
    BY <1>1, <1>2, <2>1, <2>2
<1> QED
  BY <1>2, <1>3

LEMMA SizeFits ==
  ASSUME NEW w \in Nat \ {0}, NEW h \in Nat \ {0}, NEW box,
         box.width \in Nat \ {0}, box.height \in Nat \ {0},
         ClampPreviewSize(w, h, box) # NoSize
  PROVE  Frames(ClampPreviewSize(w, h, box), w, h, box)
<1> DEFINE bw == IF h > w THEN box.height ELSE box.width
           bh == IF h > w THEN box.width ELSE box.height
           wide == bw * h <= bh * w
           fits == w <= bw /\ h <= bh
           width == IF fits THEN w ELSE IF wide THEN bw ELSE (w * bh) \div h
           height == IF fits THEN h ELSE IF wide THEN (h * bw) \div w ELSE bh
           m == Most(box.width, box.height)
<1>1. bw \in Nat \ {0} /\ bh \in Nat \ {0} /\ m \in Nat /\ bw <= m /\ bh <= m
  BY DEF Most
<1>2. ClampPreviewSize(w, h, box) = IF Even(width) < 2 \/ Even(height) < 2 THEN NoSize
                                    ELSE [width |-> Even(width), height |-> Even(height)]
  BY Zenon DEF ClampPreviewSize
<1>3. width \in 0..w /\ width <= m /\ height \in 0..h /\ height <= m
  <2> HIDE DEF m
  <2>1. CASE fits
    <3>1. width = w /\ height = h
      BY <2>1
    <3> QED
      BY <1>1, <2>1, <3>1
  <2>2. CASE ~fits /\ wide
    <3>1. width = bw /\ height = (h * bw) \div w
      BY <2>2
    <3> HIDE DEF width, height
    <3>2. bw <= w
      <4> SUFFICES ASSUME bw > w PROVE FALSE
        BY <1>1
      <4>1. h > bh
        BY <1>1, <2>2
      <4>2. w * h <= bw * h /\ bh * w <= h * w /\ w * h \in Nat /\ (w + 1) * h <= bw * h /\ (w + 1) * h = w * h + h /\ w * h = h * w
        BY <1>1, <4>1, Further, Times
      <4>3. bw * h \in Nat /\ bh * w \in Nat
        BY <1>1, Times
      <4> HIDE DEF bw, bh
      <4> QED
        BY <1>1, <2>2, <4>2, <4>3
    <3>3. h * bw <= bh * w /\ h * bw <= h * w
      <4>1. h * bw = bw * h /\ h * w = w * h /\ bw * h <= w * h
        BY <1>1, <3>2, Further, Times
      <4> QED
        BY <2>2, <4>1
    <3> HIDE DEF bw, bh
    <3>4. height \in 0..bh /\ height \in 0..h
      BY <1>1, <3>1, <3>3, Scaled
    <3> QED
      BY <1>1, <3>1, <3>2, <3>4
  <2>3. CASE ~fits /\ ~wide
    <3>1. width = (w * bh) \div h /\ height = bh
      BY <2>3
    <3>2. bh * w < bw * h /\ bh * w \in Nat /\ bw * h \in Nat
      BY <1>1, <2>3, Times
    <3> HIDE DEF width, height
    <3>3. bh <= h
      <4> SUFFICES ASSUME bh > h PROVE FALSE
        BY <1>1
      <4>1. w > bw
        BY <1>1, <2>3
      <4>2. h * w <= bh * w /\ bw * h <= w * h /\ w * h = h * w /\ h * w \in Nat
        BY <1>1, <4>1, Further, Times
      <4> HIDE DEF bw, bh
      <4> QED
        BY <3>2, <4>2
    <3>4. w * bh <= bw * h /\ w * bh <= w * h
      <4>1. w * bh = bh * w /\ w * h = h * w /\ bh * w <= h * w
        BY <1>1, <3>3, Further, Times
      <4> HIDE DEF bw, bh
      <4> QED
        BY <3>2, <4>1
    <3> HIDE DEF bw, bh
    <3>5. width \in 0..bw /\ width \in 0..w
      BY <1>1, <3>1, <3>4, Scaled
    <3> QED
      BY <1>1, <3>1, <3>3, <3>5
  <2> QED
    BY <2>1, <2>2, <2>3
<1> HIDE DEF width, height, m
<1>4. ClampPreviewSize(w, h, box) = [width |-> Even(width), height |-> Even(height)]
      /\ Even(width) >= 2 /\ Even(height) >= 2
  BY <1>2, <1>3 DEF Even
<1>5. \A n \in Nat : Even(n) \in 0..n /\ Even(n) % 2 = 0
  BY DEF Even
<1>6. Even(width) \in 2..w /\ Even(height) \in 2..h /\ Even(width) \in 2..m /\ Even(height) \in 2..m
  BY <1>1, <1>3, <1>4, <1>5
<1> QED
  BY <1>3, <1>4, <1>5, <1>6 DEF Frames, m
-----------------------------------------------------------------------------
LEMMA ClipTypes ==
  ASSUME NEW v \in ClipSet, NEW o \in Settings
  PROVE  LET info == InfoOf[v]
         IN  /\ info.duration \in Int /\ info.width \in Int /\ info.height \in Int
             /\ o.sample \in Modes /\ o.image \in Modes
             /\ o.length \in Nat \ {0} /\ o.sampleEvery \in Nat \ {0} /\ o.imageEvery \in Nat \ {0}
             /\ o.limit \in Nat \ {0}
             /\ \A box \in {o.sampleBox, o.imageBox} : box.width \in Nat \ {0} /\ box.height \in Nat \ {0}
BY PreviewAssumption

(* What a job that is wanted is, and the names it may get.                 *)
LEMMA JobIs ==
  ASSUME NEW o \in Settings, NEW v \in ClipSet, NEW job \in JobsWanted(o, InfoOf[v])
  PROVE  /\ Fit(job.ranges, InfoOf[v].duration, o.limit)
         /\ job.box \in {o.sampleBox, o.imageBox}
         /\ \A f \in BOOLEAN : NameOf(job, f) \in PreviewName
<1> DEFINE info == InfoOf[v]
           d == info.duration
           times == ImageTimes(o.image, d, d > 0, o.imageEvery, o.limit)
<1> USE ClipTypes
<1>1. \A label \in Labels, f \in BOOLEAN : NameOf(label, f) \in PreviewName
  BY SMT DEF PreviewName
<1>2. 1..o.limit \subseteq Indexes /\ 1 \in 1..o.limit
  BY DEF Indexes
<1>3. CASE job = Sample(o, info) /\ Requested(o.sample) /\ (d > 0 \/ o.sample = "start")
  <2>1. /\ job.ranges = SampleRanges(o.sample, d, d > 0, o.length, o.sampleEvery, o.limit)
        /\ job.box = o.sampleBox
        /\ job.kind = "smpl" /\ job.index = 1 /\ job.count = 1 /\ job.ext = info.container
    BY <1>3, Zenon DEF Sample
  <2>2. Fit(job.ranges, d, o.limit)
    BY <1>3, <2>1, SampleFits DEF Requested
  <2>3. ASSUME NEW f \in BOOLEAN PROVE NameOf(job, f) \in PreviewName
    <3> DEFINE label == [kind |-> "smpl", index |-> 1, count |-> 1, ext |-> InfoOf[v].container]
    <3>1. NameOf(job, f) = NameOf(label, f)
      BY <2>1 DEF NameOf
    <3>2. label \in Labels
      BY SMT DEF Labels
    <3> HIDE DEF label
    <3> QED
      BY <1>1, <3>1, <3>2
  <2> QED
    BY <2>1, <2>2, <2>3
<1>4. CASE job \in Images(o, info) /\ Requested(o.image) /\ (d > 0 \/ o.image = "start")
  <2>1. PICK c \in 1..o.limit : /\ DOMAIN times = 1..c /\ Len(times) = c
                                /\ d > 0 => \A i \in 1..c : Inside(Span(times[i], 0), d)
    BY <1>4, ImageTimesFit DEF Requested
  <2>2. PICK i \in DOMAIN times :
          job = [kind |-> "img", index |-> i, count |-> Len(times), ext |-> "png", box |-> o.imageBox,
                 ranges |-> <<Span(times[i], 0)>>]
    BY <1>4, Zenon DEF Images
  <2> HIDE DEF times
  <2>3. /\ job.ranges = <<Span(times[i], 0)>> /\ job.box = o.imageBox
        /\ job.kind = "img" /\ job.index = i /\ job.count = c /\ job.ext = "png"
    BY <2>1, <2>2
  <2>4. Fit(job.ranges, d, o.limit)
    BY <2>1, <2>3, OneFits
  <2>5. ASSUME NEW f \in BOOLEAN PROVE NameOf(job, f) \in PreviewName
    <3> DEFINE label == [kind |-> "img", index |-> i, count |-> c, ext |-> "png"]
    <3>1. NameOf(job, f) = NameOf(label, f)
      BY <2>3 DEF NameOf
    <3>3. i \in Indexes /\ c \in Indexes
      <4>1. i \in 1..o.limit
        BY <2>1, <2>2
      <4> QED
        BY <1>2, <2>1, <4>1
    <3>4. label \in Labels
      BY <3>3, SMT DEF Labels
    <3> HIDE DEF label
    <3> QED
      BY <1>1, <3>1, <3>4
  <2> QED
    BY <2>3, <2>4, <2>5
<1> QED
  BY <1>3, <1>4, Zenon DEF JobsWanted

(* A slot is a name without its fallback.                                  *)
LEMMA NameIs ==
  ASSUME NEW job, NEW f \in BOOLEAN
  PROVE  /\ NameOf(job, f).fallback = f
         /\ Slot(NameOf(job, f)) = NameOf(job, FALSE)
         /\ NameOf(job, TRUE) # NameOf(job, FALSE)
<1> DEFINE digits == IF job.count > Wide THEN job.count ELSE Wide
           name(g) == [fallback |-> g, kind |-> job.kind, index |-> job.index, digits |-> digits, ext |-> job.ext]
<1> HIDE DEF digits
<1>1. /\ name(TRUE).fallback = TRUE /\ Slot(name(TRUE)) = name(FALSE)
      /\ name(FALSE).fallback = FALSE /\ Slot(name(FALSE)) = name(FALSE)
  BY DEF Slot
<1>2. NameOf(job, TRUE) = name(TRUE) /\ NameOf(job, FALSE) = name(FALSE)
  BY Zenon DEF NameOf, digits
<1>3. name(TRUE) # name(FALSE)
  <2> HIDE DEF name
  <2> QED
    BY <1>1
<1> HIDE DEF name
<1>4. CASE f = TRUE
  BY <1>1, <1>2, <1>3, <1>4
<1>5. CASE f = FALSE
  BY <1>1, <1>2, <1>3, <1>5
<1> QED
  BY <1>4, <1>5

LEMMA SlotIs ==
  ASSUME NEW m \in PreviewName
  PROVE  /\ m.fallback \in BOOLEAN /\ Slot(Slot(m)) = Slot(m)
         /\ ~m.fallback <=> m = Slot(m)
         /\ \A n \in PreviewName : Slot(m) = Slot(n) /\ (m = Slot(m) <=> n = Slot(n)) => m = n
<1>1. \A n \in PreviewName : \E job \in Labels, f \in BOOLEAN : n = NameOf(job, f)
  BY SMT DEF PreviewName
<1>2. PICK job \in Labels, f \in BOOLEAN : m = NameOf(job, f)
  BY <1>1
<1>3. ASSUME NEW n \in PreviewName, Slot(m) = Slot(n), m = Slot(m) <=> n = Slot(n)
      PROVE  m = n
  <2>1. PICK other \in Labels, g \in BOOLEAN : n = NameOf(other, g)
    BY <1>1
  <2>2. Slot(m) = NameOf(job, FALSE) /\ Slot(n) = NameOf(other, FALSE)
    BY <1>2, <2>1, NameIs
  <2>3. NameOf(job, TRUE) = NameOf(other, TRUE)
    <3>1. NameOf(job, FALSE) = NameOf(other, FALSE)
      BY <1>3, <2>2
    <3> QED
      BY <3>1 DEF NameOf
  <2>4. CASE f = TRUE /\ g = TRUE
    BY <1>2, <2>1, <2>3, <2>4
  <2>5. CASE f = FALSE /\ g = FALSE
    BY <1>2, <1>3, <2>1, <2>2, <2>5
  <2>6. CASE f # g
    BY <1>2, <1>3, <2>1, <2>2, <2>3, <2>6, NameIs
  <2> QED
    BY <2>4, <2>5, <2>6
<1>4. m.fallback \in BOOLEAN /\ Slot(Slot(m)) = Slot(m) /\ (~m.fallback <=> m = Slot(m))
  BY <1>2, NameIs
<1> QED
  BY <1>3, <1>4

LEMMA OutputIs ==
  ASSUME NEW job, NEW taken
  PROVE  LET preferred == NameOf(job, FALSE)
         IN  /\ preferred \in taken => Output(job, taken) = NameOf(job, TRUE)
             /\ preferred \notin taken => Output(job, taken) = preferred
             /\ Slot(Output(job, taken)) = preferred
             /\ Output(job, taken) = preferred <=> preferred \notin taken
             /\ ~BothTaken(job, taken) => Output(job, taken) \notin taken
<1>1. CASE NameOf(job, FALSE) \in taken
  <2>1. Output(job, taken) = NameOf(job, TRUE)
    BY <1>1, Zenon DEF Output
  <2> QED
    BY <1>1, <2>1, NameIs DEF BothTaken
<1>2. CASE NameOf(job, FALSE) \notin taken
  <2>1. Output(job, taken) = NameOf(job, FALSE)
    BY <1>2, Zenon DEF Output
  <2> QED
    BY <1>2, <2>1, NameIs DEF BothTaken
<1> QED
  BY <1>1, <1>2
-----------------------------------------------------------------------------
(* The jobs of a plan.                                                     *)
Sound(job, v, o) ==
  /\ Fit(job.ranges, InfoOf[v].duration, o.limit)
  /\ \E box \in {o.sampleBox, o.imageBox} : Frames(job.size, InfoOf[v].width, InfoOf[v].height, box)

(* A plan p of v gives each wanted job its output; p is empty, or failed,  *)
(* otherwise.                                                              *)
Fulfils(p, o, v, taken) ==
  LET wanted == JobsWanted(o, InfoOf[v])
  IN  /\ InfoOf[v].streams # 0
      /\ \A job \in wanted : ~BothTaken(job, taken)
      /\ NamesOf(p) = {Output(job, taken) : job \in wanted}

LEMMA VideoPlanIs ==
  ASSUME NEW o \in Settings, NEW v \in ClipSet, NEW taken
  PROVE  LET p == PlanPreviewsOf(o, InfoOf[v], taken)
         IN  /\ \A job \in p.jobs : Sound(job, v, o)
             /\ NamesOf(p) = {} \/ Fulfils(p, o, v, taken)
             /\ p.err \/ InfoOf[v].streams = 0 \/ Fulfils(p, o, v, taken)
<1> DEFINE info == InfoOf[v]
           wanted == JobsWanted(o, info)
           size(job) == ClampPreviewSize(info.width, info.height, job.box)
           fails == \/ info.width < 2 \/ info.height < 2
                    \/ \E job \in wanted : size(job) = NoSize \/ BothTaken(job, taken)
           p == PlanPreviewsOf(o, info, taken)
           jobMade(job) == [name |-> Output(job, taken), ranges |-> job.ranges, size |-> size(job)]
<1>1. CASE info.streams = 0 \/ wanted = {}
  <2>1. p = Plan({})
    BY <1>1, Zenon DEF PlanPreviewsOf
  <2>2. p.jobs = {} /\ NamesOf(p) = {}
    BY <2>1 DEF Plan, NamesOf
  <2> QED
    BY <1>1, <2>2 DEF Fulfils
<1>2. CASE info.streams # 0 /\ wanted # {} /\ fails
  <2>1. p = Fails
    BY <1>2, Zenon DEF PlanPreviewsOf
  <2>2. p.jobs = {} /\ p.err
    BY <2>1 DEF Fails
  <2> QED
    BY <2>2 DEF NamesOf
<1>3. CASE info.streams # 0 /\ wanted # {} /\ ~fails
  <2>1. p = Plan({jobMade(job) : job \in wanted})
    BY <1>3, Zenon DEF PlanPreviewsOf
  <2>2. p.jobs = {jobMade(job) : job \in wanted}
    BY <2>1 DEF Plan
  <2>3. NamesOf(p) = {Output(job, taken) : job \in wanted}
    <3>1. \A job : jobMade(job).name = Output(job, taken)
      OBVIOUS
    <3> HIDE DEF jobMade, wanted, p
    <3> QED
      BY <2>2, <3>1 DEF NamesOf
  <2>4. Fulfils(p, o, v, taken)
    BY <1>3, <2>3 DEF Fulfils
  <2>5. ASSUME NEW job \in wanted PROVE Sound(jobMade(job), v, o)
    <3>1. Fit(job.ranges, info.duration, o.limit) /\ job.box \in {o.sampleBox, o.imageBox}
      BY JobIs
    <3>2. info.width \in Nat \ {0} /\ info.height \in Nat \ {0}
      BY <1>3, ClipTypes
    <3>3. job.box.width \in Nat \ {0} /\ job.box.height \in Nat \ {0}
      BY <3>1, ClipTypes
    <3>4. size(job) # NoSize
      BY <1>3
    <3>5. Frames(size(job), info.width, info.height, job.box)
      BY <3>2, <3>3, <3>4, SizeFits
    <3> QED
      BY <3>1, <3>5 DEF Sound
  <2> QED
    BY <2>2, <2>4, <2>5
<1> QED
  BY <1>1, <1>2, <1>3

LEMMA PlanOfIs ==
  ASSUME NEW o \in Settings, NEW unread, NEW v \in ClipSet, NEW reserved
  PROVE  LET p == PlanOf(o, unread, v, reserved)
             taken == OccupiedFor(v, reserved)
         IN  /\ \A job \in p.jobs : Sound(job, v, o)
             /\ NamesOf(p) = {} \/ Fulfils(p, o, v, taken)
             /\ v \in there => \/ p.err \/ InfoOf[v].streams = 0 \/ JobsWanted(o, InfoOf[v]) = {}
                               \/ Fulfils(p, o, v, taken)
<1> DEFINE p == PlanOf(o, unread, v, reserved)
           taken == OccupiedFor(v, reserved)
<1>1. CASE v \notin there \/ ~Enabled(o)
  <2>1. p = Plan({})
    BY <1>1, Zenon DEF PlanOf
  <2>2. p.jobs = {} /\ NamesOf(p) = {}
    BY <2>1 DEF Plan, NamesOf
  <2>3. v \in there => JobsWanted(o, InfoOf[v]) = {}
    BY <1>1 DEF Enabled, JobsWanted
  <2> QED
    BY <2>2, <2>3
<1>2. CASE v \in there /\ Enabled(o) /\ v \in unread
  <2>1. p = Fails
    BY <1>2, Zenon DEF PlanOf
  <2>2. p.jobs = {} /\ p.err
    BY <2>1 DEF Fails
  <2> QED
    BY <2>2 DEF NamesOf
<1>3. CASE v \in there /\ Enabled(o) /\ v \notin unread
  <2>1. p = PlanPreviewsOf(o, InfoOf[v], taken)
    BY <1>3, Zenon DEF PlanOf
  <2> QED
    BY <2>1, VideoPlanIs
<1> QED
  BY <1>1, <1>2, <1>3
-----------------------------------------------------------------------------
LEMMA ClipsAre ==
  /\ DOMAIN Clips = 1..Len(Clips) /\ Len(Clips) \in Nat
  /\ \A i \in DOMAIN Clips : Clips[i] \in ClipSet
  /\ \A v \in ClipSet : \E i \in DOMAIN Clips : Clips[i] = v
  /\ \A i, j \in DOMAIN Clips : Clips[i] = Clips[j] => i = j
<1>1. Clips \in Seq(ClipSet)
  BY PreviewAssumption
<1>2. DOMAIN Clips = 1..Len(Clips) /\ Len(Clips) \in Nat
  <2> HIDE DEF ClipSet
  <2> QED
    BY <1>1
<1>3. ClipSet = {Clips[i] : i \in DOMAIN Clips}
  BY Zenon DEF ClipSet, ToSet
<1> HIDE DEF ClipSet
<1> QED
  BY <1>2, <1>3, PreviewAssumption

Reserved(ps, i) == UNION {NamesOf(ps[Clips[j]]) : j \in 1..(i - 1)}

(* Each video is planned with the names of all those before it reserved.   *)
PlansUpto(f, o, unread, n) ==
  f = [i \in 1..n |-> PlanOf(o, unread, Clips[i], UNION {NamesOf(f[j]) : j \in 1..(i - 1)})]

LEMMA PlansExist ==
  ASSUME NEW o, NEW unread, NEW m \in Nat
  PROVE  \E f : PlansUpto(f, o, unread, m)
<1> DEFINE Without == {n \in Nat : ~\E f : PlansUpto(f, o, unread, n)}
           Next(f, i) == PlanOf(o, unread, Clips[i], UNION {NamesOf(f[j]) : j \in 1..(i - 1)})
<1> SUFFICES ASSUME Without # {} PROVE FALSE
  OBVIOUS
<1>1. PICK n \in Without : \A k \in Without : n <= k
  BY LeastOf
<1>2. CASE n = 0
  <2>1. PlansUpto([i \in 1..0 |-> Next(<<>>, i)], o, unread, 0)
    BY DEF PlansUpto
  <2> QED
    BY <1>1, <1>2, <2>1
<1>3. CASE n # 0
  <2>1. n - 1 \in Nat /\ n - 1 \notin Without
    BY <1>1, <1>3
  <2>2. PICK g : PlansUpto(g, o, unread, n - 1)
    BY <2>1
  <2> DEFINE f == [i \in 1..n |-> IF i < n THEN g[i] ELSE Next(g, n)]
  <2>3. \A i \in 1..(n - 1) : g[i] = Next(g, i)
    BY <2>2, Zenon DEF PlansUpto
  <2>4. \A i \in 1..n : \A j \in 1..(i - 1) : f[j] = g[j]
    BY <1>1
  <2>5. \A i \in 1..n : Next(f, i) = Next(g, i)
    <3> HIDE DEF f
    <3> TAKE i \in 1..n
    <3>1. {NamesOf(f[j]) : j \in 1..(i - 1)} = {NamesOf(g[j]) : j \in 1..(i - 1)}
      BY <2>4
    <3> QED
      BY <3>1
  <2>6. \A i \in 1..n : f[i] = Next(f, i)
    <3> TAKE i \in 1..n
    <3>1. CASE i < n
      <4>1. i \in 1..(n - 1) /\ f[i] = g[i]
        BY <1>1, <3>1
      <4> QED
        BY <2>3, <2>5, <4>1
    <3>2. CASE i = n
      <4>1. f[i] = Next(g, n)
        BY <1>1, <3>2
      <4> QED
        BY <2>5, <3>2, <4>1
    <3> QED
      BY <1>1, <3>1, <3>2
  <2>7. f = [i \in 1..n |-> f[i]]
    OBVIOUS
  <2> HIDE DEF f
  <2>8. f = [i \in 1..n |-> Next(f, i)]
    BY <2>6, <2>7
  <2>9. PlansUpto(f, o, unread, n)
    BY <2>8, Zenon DEF PlansUpto
  <2> QED
    BY <1>1, <2>9
<1> QED
  BY <1>2, <1>3

LEMMA PlanSplitIs ==
  ASSUME NEW o, NEW unread
  PROVE  LET ps == PlanSplit(o, unread)
         IN  /\ DOMAIN ps = ClipSet
             /\ \A i \in DOMAIN Clips : ps[Clips[i]] = PlanOf(o, unread, Clips[i], Reserved(ps, i))
<1> DEFINE R(f) == f = [i \in DOMAIN Clips |-> PlanOf(o, unread, Clips[i], UNION {NamesOf(f[j]) : j \in 1..(i - 1)})]
           plan == CHOOSE f : R(f)
           ps == PlanSplit(o, unread)
           posOf(v) == CHOOSE i \in DOMAIN Clips : Clips[i] = v
<1>1. ps = [v \in ClipSet |-> plan[posOf(v)]]
  BY Zenon DEF PlanSplit
<1>2. R(plan)
  <2>1. \E f : R(f)
    <3>1. PICK f : PlansUpto(f, o, unread, Len(Clips))
      BY ClipsAre, PlansExist
    <3>2. R(f)
      BY <3>1, ClipsAre, Zenon DEF PlansUpto
    <3> QED
      BY <3>2
  <2> HIDE DEF R
  <2> QED
    BY <2>1
<1>3. \A i \in DOMAIN Clips :
        plan[i] = PlanOf(o, unread, Clips[i], UNION {NamesOf(plan[j]) : j \in 1..(i - 1)})
  <2> HIDE DEF plan
  <2> QED
    BY <1>2, Zenon
<1> HIDE DEF R, plan
<1>4. \A i \in DOMAIN Clips : posOf(Clips[i]) = i
  BY ClipsAre
<1>5. \A i \in DOMAIN Clips : ps[Clips[i]] = plan[i]
  <2> HIDE DEF posOf, ps
  <2> QED
    BY <1>1, <1>4, ClipsAre
<1>6. \A i \in DOMAIN Clips : UNION {NamesOf(plan[j]) : j \in 1..(i - 1)} = Reserved(ps, i)
  <2> TAKE i \in DOMAIN Clips
  <2>1. \A j \in 1..(i - 1) : j \in DOMAIN Clips
    BY ClipsAre
  <2> HIDE DEF ps
  <2>2. {NamesOf(plan[j]) : j \in 1..(i - 1)} = {NamesOf(ps[Clips[j]]) : j \in 1..(i - 1)}
    BY <1>5, <2>1
  <2> QED
    BY <2>2, Zenon DEF Reserved
<1>7. DOMAIN ps = ClipSet
  <2> HIDE DEF posOf
  <2> QED
    BY <1>1, Zenon
<1> HIDE DEF ps, posOf
<1>8. \A i \in DOMAIN Clips : ps[Clips[i]] = PlanOf(o, unread, Clips[i], Reserved(ps, i))
  BY <1>3, <1>5, <1>6
<1> QED
  BY <1>7, <1>8 DEF ps

(* The plans of a split: what they generate is sound, the names are free   *)
(* and no two videos share one.                                            *)
TakenAt(ps, i) == OccupiedFor(Clips[i], Reserved(ps, i))
PlansSound(ps, o) ==
  /\ DOMAIN ps = ClipSet
  /\ \A v \in ClipSet : \A job \in ps[v].jobs : Sound(job, v, o)
  /\ \A v \in ClipSet : NamesOf(ps[v]) \subseteq PreviewName
  /\ \A v, u \in ClipSet : v # u => NamesOf(ps[v]) \cap NamesOf(ps[u]) = {}

LEMMA SplitIs ==
  ASSUME NEW o \in Settings, NEW unread
  PROVE  LET ps == PlanSplit(o, unread)
         IN  /\ PlansSound(ps, o)
             /\ \A i \in DOMAIN Clips :
                  LET v == Clips[i]
                  IN  /\ NamesOf(ps[v]) = {} \/ Fulfils(ps[v], o, v, TakenAt(ps, i))
                      /\ v \in there => \/ ps[v].err \/ InfoOf[v].streams = 0 \/ JobsWanted(o, InfoOf[v]) = {}
                                        \/ Fulfils(ps[v], o, v, TakenAt(ps, i))
<1> DEFINE ps == PlanSplit(o, unread)
<1>1. /\ DOMAIN ps = ClipSet
      /\ \A i \in DOMAIN Clips : ps[Clips[i]] = PlanOf(o, unread, Clips[i], Reserved(ps, i))
  BY PlanSplitIs
<1> HIDE DEF ps
<1>2. ASSUME NEW i \in DOMAIN Clips
      PROVE  LET v == Clips[i]
             IN  /\ \A job \in ps[v].jobs : Sound(job, v, o)
                 /\ NamesOf(ps[v]) = {} \/ Fulfils(ps[v], o, v, TakenAt(ps, i))
                 /\ v \in there => \/ ps[v].err \/ InfoOf[v].streams = 0 \/ JobsWanted(o, InfoOf[v]) = {}
                                   \/ Fulfils(ps[v], o, v, TakenAt(ps, i))
  <2>1. Clips[i] \in ClipSet /\ ps[Clips[i]] = PlanOf(o, unread, Clips[i], Reserved(ps, i))
    BY <1>1, ClipsAre
  <2> QED
    BY <2>1, PlanOfIs DEF TakenAt
<1>3. ASSUME NEW i \in DOMAIN Clips, NEW n \in NamesOf(ps[Clips[i]])
      PROVE  n \in PreviewName /\ n \notin TakenAt(ps, i)
  <2>1. Fulfils(ps[Clips[i]], o, Clips[i], TakenAt(ps, i))
    BY <1>2, <1>3
  <2>2. PICK job \in JobsWanted(o, InfoOf[Clips[i]]) : n = Output(job, TakenAt(ps, i))
    BY <1>3, <2>1 DEF Fulfils
  <2>3. n \notin TakenAt(ps, i)
    BY <2>1, <2>2, OutputIs DEF Fulfils
  <2>4. n \in {NameOf(job, TRUE), NameOf(job, FALSE)}
    BY <2>2, OutputIs
  <2>5. n \in PreviewName
    <3>1. Clips[i] \in ClipSet
      BY ClipsAre
    <3> QED
      BY <2>4, <3>1, JobIs
  <2> QED
    BY <2>3, <2>5
<1>4. ASSUME NEW i \in DOMAIN Clips, NEW j \in DOMAIN Clips, j < i
      PROVE  NamesOf(ps[Clips[i]]) \cap NamesOf(ps[Clips[j]]) = {}
  <2>1. j \in 1..(i - 1)
    BY <1>4, ClipsAre
  <2>2. NamesOf(ps[Clips[j]]) \subseteq Reserved(ps, i)
    BY <2>1 DEF Reserved
  <2>3. NamesOf(ps[Clips[j]]) \subseteq TakenAt(ps, i)
    BY <2>2 DEF TakenAt, OccupiedFor
  <2> QED
    BY <1>3, <2>3
<1>5. ASSUME NEW v \in ClipSet, NEW u \in ClipSet, v # u
      PROVE  NamesOf(ps[v]) \cap NamesOf(ps[u]) = {}
  <2>1. PICK i \in DOMAIN Clips, j \in DOMAIN Clips : Clips[i] = v /\ Clips[j] = u
    BY ClipsAre
  <2>2. i < j \/ j < i
    BY <1>5, <2>1, ClipsAre
  <2> QED
    BY <1>4, <2>1, <2>2
<1>6. \A v \in ClipSet : (\A job \in ps[v].jobs : Sound(job, v, o)) /\ NamesOf(ps[v]) \subseteq PreviewName
  BY <1>2, <1>3, ClipsAre
<1>7. PlansSound(ps, o)
  BY <1>1, <1>5, <1>6 DEF PlansSound
<1> QED
  BY <1>2, <1>7 DEF ps
-----------------------------------------------------------------------------
PreviewTypes ==
  /\ options \in Settings /\ shown \in [PreviewName -> ClipSet \cup {"absent", "operator"}]
  /\ DOMAIN owned = ClipSet /\ \A v \in ClipSet : DOMAIN owned[v] \subseteq PreviewName
  /\ started \in [ClipSet -> SUBSET PreviewName]
  /\ there \subseteq ClipSet /\ (gone \/ there = ClipSet) /\ planned \in Nat
  /\ \A x \in work : x = <<x[1], x[2]>> /\ x[1] \in ClipSet /\ x[2] \in NamesOf(plans[x[1]])

(* A preview that a video owns, or started and that some video made, is    *)
(* the video's own.                                                        *)
Protected ==
  /\ ~crossed => \A v, u \in ClipSet : v # u => NamesOf(plans[v]) \cap started[u] = {}
  /\ ~gone /\ ~crossed =>
       /\ \A v \in ClipSet : \A n \in DOMAIN owned[v] : shown[n] = v /\ owned[v][n] = v
       /\ \A v \in ClipSet : \A n \in started[v] : shown[n] \in ClipSet => shown[n] = v
       /\ \A x \in work : \/ shown[x[2]] = "absent"
                          \/ x[2] \in started[x[1]] /\ shown[x[2]] \in {x[1], "operator"}

(* The preferred names of the previews that a video wants; the first of    *)
(* the videos that want one leads.                                         *)
SlotsOf(o, v) ==
  IF InfoOf[v].streams = 0 THEN {} ELSE {NameOf(job, FALSE) : job \in JobsWanted(o, InfoOf[v])}
LeadsSlot(o, v, s) ==
  /\ s \in SlotsOf(o, v)
  /\ \A i, j \in DOMAIN Clips : Clips[j] = v /\ i < j => s \notin SlotsOf(o, Clips[i])

(* Only the leader gets the preferred name; if it did not, the name is     *)
(* occupied for good.                                                      *)
NamedRight(o, v, names) ==
  \A n \in names :
    /\ Slot(n) \in SlotsOf(o, v)
    /\ ~LeadsSlot(o, v, Slot(n)) => n # Slot(n)
    /\ LeadsSlot(o, v, Slot(n)) /\ n # Slot(n) => shown[Slot(n)] # "absent" /\ Slot(n) \notin names
Has(v) == Own(v) \cup {n \in PreviewName : <<v, n>> \in work}
Steady ==
  ~gone /\ ~reordered =>
    /\ planned = 0 => \A v \in ClipSet : Has(v) = {}
    /\ \A v \in ClipSet : NamedRight(options, v, Has(v))

PreviewInv == PreviewTypes /\ PlansSound(plans, options) /\ Protected /\ Steady

LEMMA PreviewsBegin == ASSUME PreviewInit PROVE PreviewInv
<1> USE DEF PreviewInit
<1>1. \A v \in ClipSet : plans[v].jobs = {} /\ NamesOf(plans[v]) = {}
  BY DEF Plan, NamesOf
<1>2. \A v \in ClipSet : DOMAIN owned[v] = {} /\ started[v] = {}
  OBVIOUS
<1>3. PreviewTypes
  BY <1>2 DEF PreviewTypes
<1>4. PlansSound(plans, options)
  BY <1>1 DEF PlansSound
<1>5. Protected
  BY <1>2 DEF Protected
<1>6. \A v \in ClipSet : Has(v) = {}
  BY <1>2 DEF Has, Own
<1>7. Steady
  BY <1>6 DEF Steady, NamedRight
<1> QED
  BY <1>3, <1>4, <1>5, <1>7 DEF PreviewInv

LEMMA PreviewsImply == ASSUME PreviewInv PROVE PreviewsSound
<1> USE DEF PreviewInv
<1>1. DOMAIN owned = ClipSet /\ \A v \in ClipSet : DOMAIN owned[v] \subseteq PreviewName
  BY DEF PreviewTypes
<1>2. ASSUME NEW v \in ClipSet, NEW job \in plans[v].jobs
      PROVE  LET info == InfoOf[v]
                 size == job.size
             IN  /\ job.ranges # <<>> /\ Len(job.ranges) <= options.limit
                 /\ info.duration > 0 => \A r \in ToSet(job.ranges) :
                      r.start >= 0 /\ r.start < info.duration /\ r.start + r.len <= info.duration
                 /\ size.width % 2 = 0 /\ size.height % 2 = 0
                 /\ size.width \in 2..info.width /\ size.height \in 2..info.height
                 /\ \E box \in {options.sampleBox, options.imageBox} :
                      {size.width, size.height} \subseteq 2..Most(box.width, box.height)
  <2>1. Sound(job, v, options)
    BY DEF PlansSound
  <2> QED
    BY <2>1, Zenon DEF Sound, Fit, Inside, Frames
<1>3. \A v, u \in ClipSet : v # u => NamesOf(plans[v]) \cap NamesOf(plans[u]) = {}
  BY DEF PlansSound
<1>4. ~gone /\ ~crossed =>
       /\ \A x \in work : \/ shown[x[2]] \in {"absent", x[1]}
                          \/ shown[x[2]] = "operator" /\ x[2] \in started[x[1]]
       /\ \A v \in ClipSet : \A n \in DOMAIN owned[v] : shown[n] = v
  BY DEF Protected
<1>5. ASSUME ~gone, ~reordered, NEW v \in ClipSet, NEW m \in DOMAIN owned[v], NEW n \in DOMAIN owned[v],
             Slot(m) = Slot(n)
      PROVE  m = n
  <2>1. m \in PreviewName /\ n \in PreviewName /\ m \in Has(v) /\ n \in Has(v)
    BY <1>1 DEF Has, Own
  <2>2. NamedRight(options, v, Has(v))
    BY <1>5 DEF Steady
  <2>3. m = Slot(m) <=> n = Slot(n)
    BY <1>5, <2>1, <2>2 DEF NamedRight
  <2> QED
    BY <1>5, <2>1, <2>3, SlotIs
<1> QED
  BY <1>1, <1>2, <1>3, <1>4, <1>5, Zenon DEF PreviewsSound
-----------------------------------------------------------------------------
LEMMA MissingIs ==
  ASSUME NEW ps, NEW x
  PROVE  x \in Missing(ps) <=> /\ x = <<x[1], x[2]>> /\ x[1] \in ClipSet /\ x[2] \in NamesOf(ps[x[1]])
                               /\ ~Published(x[1], x[2])
<1>1. x \in Missing(ps) <=> (\E v \in ClipSet : x \in {v} \X NamesOf(ps[v])) /\ ~Published(x[1], x[2])
  BY Zenon DEF Missing
<1>2. ASSUME NEW v \in ClipSet
      PROVE  x \in {v} \X NamesOf(ps[v]) <=> x = <<x[1], x[2]>> /\ x[1] = v /\ x[2] \in NamesOf(ps[v])
  OBVIOUS
<1> QED
  BY <1>1, <1>2

LEMMA RecordedIs ==
  ASSUME DOMAIN owned = ClipSet, NEW v \in ClipSet, NEW n, NEW file, owned' = Recorded(v, n, file)
  PROVE  /\ DOMAIN owned' = ClipSet
         /\ \A u \in ClipSet : u # v => owned'[u] = owned[u]
         /\ DOMAIN owned'[v] = DOMAIN owned[v] \cup {n}
         /\ owned'[v][n] = file
         /\ \A m \in DOMAIN owned[v] : m # n => owned'[v][m] = owned[v][m]
BY DEF Recorded

(* What the worker does with a preview.                                    *)
WorksOn(v, n) ==
  /\ <<v, n>> \in work
  /\ Generate(v, n) \/ Adopt(v, n) \/ PassOver(v, n) \/ DiesGenerating(v, n)
  /\ UNCHANGED <<options, plans, there, gone, reordered, crossed, planned>>

LEMMA WorkerIs ==
  ASSUME PreviewTypes, Worker
  PROVE  \E v \in ClipSet : \E n \in NamesOf(plans[v]) : WorksOn(v, n)
<1>1. PICK x \in work : Generate(x[1], x[2]) \/ Adopt(x[1], x[2]) \/ PassOver(x[1], x[2])
                        \/ DiesGenerating(x[1], x[2])
  BY Zenon DEF Worker
<1>2. x = <<x[1], x[2]>> /\ x[1] \in ClipSet /\ x[2] \in NamesOf(plans[x[1]])
  BY DEF PreviewTypes
<1>3. <<x[1], x[2]>> \in work
  BY <1>2
<1>4. UNCHANGED <<options, plans, there, gone, reordered, crossed, planned>>
  BY DEF Worker
<1> QED
  BY <1>1, <1>2, <1>3, <1>4 DEF WorksOn

(* Whatever happens, it adds no file to what a video has but the preview   *)
(* at work, and takes no file away but the operator and a restore do.      *)
LEMMA WorkKeeps ==
  ASSUME PreviewTypes, NEW v \in ClipSet, NEW n \in PreviewName, <<v, n>> \in work,
         Generate(v, n) \/ Adopt(v, n) \/ PassOver(v, n) \/ DiesGenerating(v, n)
  PROVE  /\ shown' \in [PreviewName -> ClipSet \cup {"absent", "operator"}]
         /\ \A m \in PreviewName : shown'[m] = shown[m] \/ (m = n /\ shown[n] = "absent" /\ shown'[n] = v)
         /\ DOMAIN owned' = ClipSet
         /\ \A u \in ClipSet : u # v => owned'[u] = owned[u]
         /\ \A m \in DOMAIN owned'[v] :
              m = n \/ (m \in DOMAIN owned[v] /\ owned'[v][m] = owned[v][m])
         /\ started' \in [ClipSet -> SUBSET PreviewName]
         /\ \A u \in ClipSet : u # v => started'[u] = started[u]
         /\ \A m \in started'[v] : m = n \/ m \in started[v]
         /\ \A m \in started[v] : m = n \/ m \in started'[v]
         /\ work' \subseteq work /\ <<v, n>> \notin work'
<1> USE DEF PreviewTypes
<1>1. CASE Generate(v, n)
  <2>1. /\ shown[n] = "absent" /\ started' = [started EXCEPT ![v] = @ \ {n}] /\ work' = work \ {<<v, n>>}
    BY <1>1 DEF Generate
  <2>2. CASE shown' = [shown EXCEPT ![n] = v] /\ owned' = Recorded(v, n, v)
    BY <2>1, <2>2, RecordedIs
  <2>3. CASE UNCHANGED <<shown, owned>>
    BY <2>1, <2>3
  <2> QED
    BY <1>1, <2>2, <2>3 DEF Generate
<1>2. CASE Adopt(v, n)
  BY <1>2, RecordedIs DEF Adopt
<1>3. CASE PassOver(v, n)
  BY <1>3 DEF PassOver
<1>4. CASE DiesGenerating(v, n)
  BY <1>4 DEF DiesGenerating
<1> QED
  BY <1>1, <1>2, <1>3, <1>4

LEMMA RestoreIs ==
  ASSUME PreviewTypes, NEW v \in ClipSet, RestoreClip(v)
  PROVE  /\ work = {} /\ UNCHANGED <<options, plans, work, started, there, gone, reordered, crossed, planned>>
         /\ shown' \in [PreviewName -> ClipSet \cup {"absent", "operator"}]
         /\ \A m \in PreviewName :
              shown'[m] = shown[m] \/ (shown'[m] = "absent" /\ m \in DOMAIN owned[v] /\ shown[m] = owned[v][m])
         /\ DOMAIN owned' = ClipSet
         /\ \A u \in ClipSet : u # v => owned'[u] = owned[u]
         /\ \A m \in DOMAIN owned'[v] :
              m \in DOMAIN owned[v] /\ owned'[v][m] = owned[v][m] /\ shown'[m] = shown[m]
<1> DEFINE deleted == {n \in DOMAIN owned[v] : shown[n] \in {"absent", owned[v][n]}}
<1>1. /\ work = {} /\ UNCHANGED <<options, plans, work, started, there, gone, reordered, crossed, planned>>
      /\ shown' = [n \in DOMAIN shown |-> IF n \in deleted THEN "absent" ELSE shown[n]]
      /\ owned' = [owned EXCEPT ![v] = [n \in DOMAIN @ \ deleted |-> @[n]]]
  BY DEF RestoreClip, Between
<1>2. \A n \in deleted : n \in DOMAIN owned[v] /\ shown[n] \in {"absent", owned[v][n]}
  OBVIOUS
<1> HIDE DEF deleted
<1>3. DOMAIN shown = PreviewName /\ \A n \in PreviewName : shown[n] \in ClipSet \cup {"absent", "operator"}
  BY DEF PreviewTypes
<1>4. DOMAIN owned = ClipSet /\ \A u \in ClipSet : DOMAIN owned[u] \subseteq PreviewName
  BY DEF PreviewTypes
<1>5. /\ DOMAIN owned' = ClipSet
      /\ \A u \in ClipSet : u # v => owned'[u] = owned[u]
      /\ owned'[v] = [n \in DOMAIN owned[v] \ deleted |-> owned[v][n]]
  BY <1>1, <1>4
<1>6. shown' \in [PreviewName -> ClipSet \cup {"absent", "operator"}]
  BY <1>1, <1>3
<1>7. \A m \in PreviewName : shown'[m] = IF m \in deleted THEN "absent" ELSE shown[m]
  BY <1>1, <1>3
<1> QED
  BY <1>1, <1>2, <1>4, <1>5, <1>6, <1>7
-----------------------------------------------------------------------------
LEMMA StartKeeps == ASSUME PreviewInv, StartSplit PROVE PreviewTypes' /\ PlansSound(plans, options)' /\ Protected'
<1> USE DEF PreviewInv
<1>1. PICK o \in Settings, unread \in SUBSET there :
        LET ps == PlanSplit(o, unread)
        IN  /\ options' = o /\ plans' = ps /\ work' = Missing(ps)
            /\ crossed' = (crossed \/ \E v, u \in ClipSet : v # u /\ NamesOf(ps[v]) \cap started[u] # {})
  BY Zenon DEF StartSplit
<1>2. work = {} /\ planned' = planned + 1 /\ UNCHANGED <<shown, owned, started, there, gone>>
  BY DEF StartSplit, Between
<1>3. PlansSound(plans', options')
  BY <1>1, SplitIs
<1>4. \A x \in work' : /\ x = <<x[1], x[2]>> /\ x[1] \in ClipSet /\ x[2] \in NamesOf(plans'[x[1]])
                       /\ ~Published(x[1], x[2])
  BY <1>1, MissingIs
<1>5. PreviewTypes'
  BY <1>1, <1>2, <1>4 DEF PreviewTypes
<1>6. crossed' = (crossed \/ \E v, u \in ClipSet : v # u /\ NamesOf(plans'[v]) \cap started[u] # {})
  BY <1>1
<1>7. ASSUME ~crossed' PROVE \A v, u \in ClipSet : v # u => NamesOf(plans'[v]) \cap started'[u] = {}
  BY <1>2, <1>6, <1>7
<1>8. ASSUME ~gone', ~crossed', NEW x \in work'
      PROVE  shown[x[2]] = "absent" \/ (x[2] \in started[x[1]] /\ shown[x[2]] \in {x[1], "operator"})
  <2> DEFINE v == x[1]
             n == x[2]
  <2>1. v \in ClipSet /\ n \in NamesOf(plans'[v]) /\ ~Published(v, n)
    BY <1>4
  <2>2. PICK i \in DOMAIN Clips : Clips[i] = v
    BY <2>1, ClipsAre
  <2>3. n \notin OccupiedFor(v, Reserved(plans', i)) /\ n \in PreviewName
    <3>1. PICK p, taken : /\ taken = OccupiedFor(v, Reserved(plans', i)) /\ p = plans'[v]
                          /\ NamesOf(p) = {} \/ Fulfils(p, options', v, taken)
      BY <1>1, <2>2, SplitIs DEF TakenAt
    <3>2. Fulfils(p, options', v, taken)
      BY <2>1, <3>1
    <3>3. PICK job \in JobsWanted(options', InfoOf[v]) : n = Output(job, taken)
      BY <2>1, <3>1, <3>2 DEF Fulfils
    <3>4. n \notin taken
      BY <3>2, <3>3, OutputIs DEF Fulfils
    <3>5. n \in PreviewName
      BY <1>3, <2>1 DEF PlansSound
    <3> QED
      BY <3>1, <3>4, <3>5
  <2>4. DOMAIN shown = PreviewName /\ shown[n] \in ClipSet \cup {"absent", "operator"}
    BY <2>3 DEF PreviewTypes
  <2>5. shown[n] = "absent" \/ n \in DOMAIN owned[v] \/ n \in started[v]
    BY <2>3, <2>4 DEF OccupiedFor, Own
  <2>6. ~gone /\ ~crossed
    BY <1>2, <1>6, <1>8
  <2>7. n \notin DOMAIN owned[v]
    BY <2>1, <2>6 DEF Protected, Published
  <2>8. n \in started[v] /\ shown[n] \in ClipSet => shown[n] = v
    BY <2>1, <2>6 DEF Protected
  <2> QED
    BY <2>4, <2>5, <2>7, <2>8
<1>9. Protected'
  <2>1. ASSUME ~gone', ~crossed' PROVE ~gone /\ ~crossed
    BY <1>2, <1>6, <2>1
  <2> QED
    BY <1>2, <1>7, <1>8, <2>1 DEF Protected
<1> QED
  BY <1>3, <1>5, <1>9

LEMMA WorkProtects ==
  ASSUME PreviewInv, Worker
  PROVE  PreviewTypes' /\ PlansSound(plans, options)' /\ Protected'
<1> USE DEF PreviewInv
<1>1. PICK v \in ClipSet : \E n \in NamesOf(plans[v]) : WorksOn(v, n)
  BY WorkerIs
<1>2. PICK n \in NamesOf(plans[v]) : WorksOn(v, n)
  BY <1>1
<1> USE DEF WorksOn
<1>3. n \in PreviewName
  BY DEF PlansSound
<1>4. /\ shown' \in [PreviewName -> ClipSet \cup {"absent", "operator"}]
      /\ \A m \in PreviewName : shown'[m] = shown[m] \/ (m = n /\ shown[n] = "absent" /\ shown'[n] = v)
      /\ DOMAIN owned' = ClipSet
      /\ \A u \in ClipSet : u # v => owned'[u] = owned[u]
      /\ \A m \in DOMAIN owned'[v] :
           m = n \/ (m \in DOMAIN owned[v] /\ owned'[v][m] = owned[v][m])
      /\ started' \in [ClipSet -> SUBSET PreviewName]
      /\ \A u \in ClipSet : u # v => started'[u] = started[u]
      /\ \A m \in started'[v] : m = n \/ m \in started[v]
      /\ \A m \in started[v] : m = n \/ m \in started'[v]
      /\ work' \subseteq work /\ <<v, n>> \notin work'
  BY <1>2, <1>3, WorkKeeps
<1>5. PlansSound(plans, options)'
  BY <1>2
<1>6. \A x \in work : x = <<x[1], x[2]>> /\ x[1] \in ClipSet /\ x[2] \in NamesOf(plans[x[1]])
  BY DEF PreviewTypes
<1>7. PreviewTypes'
  <2>1. \A u \in ClipSet : DOMAIN owned'[u] \subseteq PreviewName
    <3> TAKE u \in ClipSet
    <3>1. DOMAIN owned[u] \subseteq PreviewName
      BY DEF PreviewTypes
    <3>2. CASE u = v
      <4>1. DOMAIN owned[v] \subseteq PreviewName
        BY <3>1, <3>2
      <4>2. \A m \in DOMAIN owned'[v] : m \in PreviewName
        BY <1>3, <1>4, <4>1
      <4> QED
        BY <3>2, <4>2
    <3>3. CASE u # v
      BY <1>4, <3>1, <3>3
    <3> QED
      BY <3>2, <3>3
  <2>2. \A x \in work' : x = <<x[1], x[2]>> /\ x[1] \in ClipSet /\ x[2] \in NamesOf(plans'[x[1]])
    BY <1>2, <1>4, <1>6
  <2>3. /\ options \in Settings /\ there \subseteq ClipSet /\ (gone \/ there = ClipSet) /\ planned \in Nat
    BY DEF PreviewTypes
  <2> QED
    BY <1>2, <1>4, <2>1, <2>2, <2>3 DEF PreviewTypes
<1>8. \A u \in ClipSet : u # v => n \notin NamesOf(plans[u])
  BY DEF PlansSound
<1>9. ASSUME ~crossed PROVE \A w, u \in ClipSet : w # u => NamesOf(plans[w]) \cap started'[u] = {}
  <2>1. \A w, u \in ClipSet : w # u => NamesOf(plans[w]) \cap started[u] = {}
    BY <1>9 DEF Protected
  <2> TAKE w, u \in ClipSet
  <2> HAVE w # u
  <2>2. CASE u = v
    BY <1>4, <1>8, <2>1, <2>2
  <2>3. CASE u # v
    BY <1>4, <2>1, <2>3
  <2> QED
    BY <2>2, <2>3
<1>10. ASSUME ~gone, ~crossed
       PROVE  /\ \A u \in ClipSet : \A m \in DOMAIN owned'[u] : shown'[m] = u /\ owned'[u][m] = u
              /\ \A u \in ClipSet : \A m \in started'[u] : shown'[m] \in ClipSet => shown'[m] = u
              /\ \A x \in work' : \/ shown'[x[2]] = "absent"
                                  \/ x[2] \in started'[x[1]] /\ shown'[x[2]] \in {x[1], "operator"}
  <2>1. /\ \A u \in ClipSet : \A m \in DOMAIN owned[u] : shown[m] = u /\ owned[u][m] = u
        /\ \A u \in ClipSet : \A m \in started[u] : shown[m] \in ClipSet => shown[m] = u
        /\ \A x \in work : \/ shown[x[2]] = "absent"
                           \/ x[2] \in started[x[1]] /\ shown[x[2]] \in {x[1], "operator"}
        /\ \A w, u \in ClipSet : w # u => NamesOf(plans[w]) \cap started[u] = {}
    BY <1>10 DEF Protected
  <2>2. \A u \in ClipSet : u \notin {"absent", "operator"}
    BY PreviewAssumption
  <2>3. \A u \in ClipSet : DOMAIN owned[u] \subseteq PreviewName /\ started[u] \subseteq PreviewName
    BY DEF PreviewTypes
  <2>4. \A u \in ClipSet : \A m \in DOMAIN owned[u] : shown'[m] = u
    BY <1>4, <2>1, <2>2, <2>3
  <2>5. ASSUME n \in DOMAIN owned'[v], n \notin DOMAIN owned[v] PROVE shown'[n] = v /\ owned'[v][n] = v
    <3> USE DEF PreviewTypes
    <3>1. CASE Generate(v, n)
      <4>1. CASE shown' = [shown EXCEPT ![n] = v] /\ owned' = Recorded(v, n, v)
        BY <1>3, <4>1, RecordedIs
      <4>2. CASE UNCHANGED <<shown, owned>>
        BY <2>5, <4>2
      <4> QED
        BY <3>1, <4>1, <4>2 DEF Generate
    <3>2. CASE Adopt(v, n)
      <4>1. n \in started[v] /\ shown[n] \in ClipSet /\ owned' = Recorded(v, n, shown[n]) /\ shown' = shown
        BY <3>2 DEF Adopt
      <4>2. shown[n] = v
        BY <2>1, <4>1
      <4> QED
        BY <4>1, <4>2, RecordedIs
    <3>3. CASE PassOver(v, n) \/ DiesGenerating(v, n)
      BY <2>5, <3>3 DEF PassOver, DiesGenerating
    <3> QED
      BY <1>2, <3>1, <3>2, <3>3
  <2>6. ASSUME n \in DOMAIN owned'[v], n \in DOMAIN owned[v] PROVE owned'[v][n] = v
    <3> USE DEF PreviewTypes
    <3>1. CASE Generate(v, n)
      <4>1. CASE owned' = Recorded(v, n, v)
        BY <4>1, RecordedIs
      <4>2. CASE UNCHANGED <<shown, owned>>
        BY <2>1, <2>6, <4>2
      <4> QED
        BY <3>1, <4>1, <4>2 DEF Generate
    <3>2. CASE Adopt(v, n)
      <4>1. n \in started[v] /\ shown[n] \in ClipSet /\ owned' = Recorded(v, n, shown[n])
        BY <3>2 DEF Adopt
      <4>2. shown[n] = v
        BY <2>1, <4>1
      <4> QED
        BY <4>1, <4>2, RecordedIs
    <3>3. CASE PassOver(v, n) \/ DiesGenerating(v, n)
      BY <2>1, <2>6, <3>3 DEF PassOver, DiesGenerating
    <3> QED
      BY <1>2, <3>1, <3>2, <3>3
  <2>7. \A u \in ClipSet : \A m \in DOMAIN owned'[u] : shown'[m] = u /\ owned'[u][m] = u
    <3> TAKE u \in ClipSet
    <3> TAKE m \in DOMAIN owned'[u]
    <3>1. CASE u # v
      BY <1>4, <2>1, <2>4, <3>1
    <3>2. CASE u = v /\ m = n
      BY <2>4, <2>5, <2>6, <3>2
    <3>3. CASE u = v /\ m # n
      <4>1. m \in DOMAIN owned[v] /\ owned'[v][m] = owned[v][m]
        BY <1>4, <3>3
      <4> QED
        BY <2>1, <2>4, <3>3, <4>1
    <3> QED
      BY <3>1, <3>2, <3>3
  <2>8. \A u \in ClipSet : \A m \in started'[u] : shown'[m] \in ClipSet => shown'[m] = u
    <3> TAKE u \in ClipSet
    <3> TAKE m \in started'[u]
    <3> HAVE shown'[m] \in ClipSet
    <3>1. CASE u # v
      <4>1. m \in started[u] /\ m \in PreviewName /\ m # n
        BY <1>4, <2>1, <2>3, <3>1
      <4> QED
        BY <1>4, <2>1, <4>1
    <3>2. CASE u = v /\ m = n
      <4>1. shown'[n] = v \/ (shown'[n] = shown[n] /\ shown[n] # "absent")
        BY <1>3, <1>4, <2>2, <3>2
      <4>2. shown[n] # "absent" => n \in started[v]
        BY <1>2, <2>1
      <4> QED
        BY <2>1, <3>2, <4>1, <4>2
    <3>3. CASE u = v /\ m # n
      <4>1. m \in started[v] /\ m \in PreviewName
        BY <1>4, <2>3, <3>3
      <4> QED
        BY <1>4, <2>1, <3>3, <4>1
    <3> QED
      BY <3>1, <3>2, <3>3
  <2>9. ASSUME NEW x \in work'
        PROVE  shown'[x[2]] = "absent" \/ (x[2] \in started'[x[1]] /\ shown'[x[2]] \in {x[1], "operator"})
    <3>1. x \in work /\ x # <<v, n>> /\ x = <<x[1], x[2]>> /\ x[1] \in ClipSet /\ x[2] \in NamesOf(plans[x[1]])
      BY <1>4, <1>6
    <3>2. x[2] \in PreviewName
      BY <3>1 DEF PlansSound
    <3>3. x[2] # n
      BY <1>8, <3>1
    <3>4. shown'[x[2]] = shown[x[2]]
      BY <1>4, <3>2, <3>3
    <3>5. x[2] \in started[x[1]] => x[2] \in started'[x[1]]
      BY <1>4, <3>1, <3>3
    <3> QED
      BY <2>1, <3>1, <3>4, <3>5
  <2> QED
    BY <2>7, <2>8, <2>9
<1>11. Protected'
  <2>1. plans' = plans /\ gone' = gone /\ crossed' = crossed
    BY <1>2
  <2> QED
    BY <1>9, <1>10, <2>1 DEF Protected
<1> QED
  BY <1>5, <1>7, <1>11

LEMMA RestoreProtects ==
  ASSUME PreviewInv, NEW v \in ClipSet, RestoreClip(v)
  PROVE  PreviewTypes' /\ PlansSound(plans, options)' /\ Protected'
<1> USE DEF PreviewInv
<1>1. /\ work = {} /\ UNCHANGED <<options, plans, work, started, there, gone, reordered, crossed, planned>>
      /\ shown' \in [PreviewName -> ClipSet \cup {"absent", "operator"}]
      /\ \A m \in PreviewName :
           shown'[m] = shown[m] \/ (shown'[m] = "absent" /\ m \in DOMAIN owned[v] /\ shown[m] = owned[v][m])
      /\ DOMAIN owned' = ClipSet
      /\ \A u \in ClipSet : u # v => owned'[u] = owned[u]
      /\ \A m \in DOMAIN owned'[v] :
           m \in DOMAIN owned[v] /\ owned'[v][m] = owned[v][m] /\ shown'[m] = shown[m]
  BY RestoreIs
<1>2. /\ options \in Settings /\ \A u \in ClipSet : DOMAIN owned[u] \subseteq PreviewName
      /\ started \in [ClipSet -> SUBSET PreviewName]
      /\ there \subseteq ClipSet /\ (gone \/ there = ClipSet) /\ planned \in Nat
  BY DEF PreviewTypes
<1>3. PlansSound(plans, options)'
  BY <1>1
<1>4. \A u \in ClipSet : \A m \in DOMAIN owned'[u] : m \in DOMAIN owned[u] /\ owned'[u][m] = owned[u][m]
  BY <1>1
<1>5. PreviewTypes'
  <2>1. \A u \in ClipSet : DOMAIN owned'[u] \subseteq PreviewName
    BY <1>2, <1>4
  <2>2. work' = {}
    BY <1>1
  <2> QED
    BY <1>1, <1>2, <2>1, <2>2 DEF PreviewTypes
<1>6. ASSUME ~gone, ~crossed
      PROVE  /\ \A u \in ClipSet : \A m \in DOMAIN owned'[u] : shown'[m] = u /\ owned'[u][m] = u
             /\ \A u \in ClipSet : \A m \in started[u] : shown'[m] \in ClipSet => shown'[m] = u
  <2>1. /\ \A u \in ClipSet : \A m \in DOMAIN owned[u] : shown[m] = u /\ owned[u][m] = u
        /\ \A u \in ClipSet : \A m \in started[u] : shown[m] \in ClipSet => shown[m] = u
    BY <1>6 DEF Protected
  <2>2. "absent" \notin ClipSet
    BY PreviewAssumption
  <2>3. ASSUME NEW u \in ClipSet, NEW m \in DOMAIN owned'[u] PROVE shown'[m] = u /\ owned'[u][m] = u
    <3>1. m \in DOMAIN owned[u] /\ owned'[u][m] = u /\ shown[m] = u /\ m \in PreviewName
      BY <1>2, <1>4, <2>1
    <3>2. CASE u = v
      BY <1>1, <3>1, <3>2
    <3>3. CASE u # v
      <4>1. m \in DOMAIN owned[v] => owned[v][m] # shown[m]
        BY <2>1, <3>1, <3>3
      <4> QED
        BY <1>1, <3>1, <4>1
    <3> QED
      BY <3>2, <3>3
  <2>4. \A u \in ClipSet : \A m \in started[u] : shown'[m] \in ClipSet => shown'[m] = u
    BY <1>1, <1>2, <2>1, <2>2
  <2> QED
    BY <2>3, <2>4
<1>7. Protected'
  <2>1. /\ plans' = plans /\ started' = started /\ gone' = gone /\ crossed' = crossed /\ work' = {}
    BY <1>1
  <2>2. ~crossed => \A w, u \in ClipSet : w # u => NamesOf(plans[w]) \cap started[u] = {}
    BY DEF Protected
  <2> QED
    BY <1>6, <2>1, <2>2 DEF Protected
<1> QED
  BY <1>3, <1>5, <1>7

LEMMA OperatorProtects ==
  ASSUME PreviewInv, (\E n \in DOMAIN shown : PlantPreview(n) \/ DropPreview(n)) \/ (\E v \in ClipSet : DropClip(v))
  PROVE  PreviewTypes' /\ PlansSound(plans, options)' /\ Protected'
<1> USE DEF PreviewInv
<1>1. CASE \E n \in DOMAIN shown : PlantPreview(n)
  <2>1. PICK n \in DOMAIN shown : PlantPreview(n)
    BY <1>1
  <2>2. /\ shown[n] = "absent" /\ shown' = [shown EXCEPT ![n] = "operator"]
        /\ UNCHANGED <<options, plans, work, owned, started, there, gone, reordered, crossed, planned>>
    BY <2>1 DEF PlantPreview
  <2>3. work = {} /\ \A u \in ClipSet : u \notin {"absent", "operator"}
    BY <2>1, PreviewAssumption DEF PlantPreview, Between
  <2>4. \A m \in PreviewName : shown'[m] = shown[m] \/ (shown[m] = "absent" /\ shown'[m] = "operator")
    BY <2>2 DEF PreviewTypes
  <2>5. PreviewTypes'
    BY <2>2, <2>3 DEF PreviewTypes
  <2>6. \A u \in ClipSet : DOMAIN owned[u] \subseteq PreviewName /\ started[u] \subseteq PreviewName
    BY DEF PreviewTypes
  <2>7. Protected'
    BY <2>2, <2>3, <2>4, <2>6 DEF Protected
  <2> QED
    BY <2>2, <2>5, <2>7
<1>2. CASE \E n \in DOMAIN shown : DropPreview(n)
  <2>1. PICK n \in DOMAIN shown : DropPreview(n)
    BY <1>2
  <2>2. /\ shown' = [shown EXCEPT ![n] = "absent"] /\ gone' = TRUE /\ work = {}
        /\ UNCHANGED <<options, plans, work, owned, started, there, reordered, crossed, planned>>
    BY <2>1 DEF DropPreview, Between
  <2>3. PreviewTypes'
    BY <2>2 DEF PreviewTypes
  <2>4. Protected'
    BY <2>2 DEF Protected
  <2> QED
    BY <2>2, <2>3, <2>4
<1>3. CASE \E v \in ClipSet : DropClip(v)
  <2>1. PICK v \in ClipSet : DropClip(v)
    BY <1>3
  <2>2. /\ there' = there \ {v} /\ gone' = TRUE /\ work = {}
        /\ UNCHANGED <<options, plans, work, shown, owned, started, reordered, crossed, planned>>
    BY <2>1 DEF DropClip, Between
  <2>3. PreviewTypes'
    BY <2>2 DEF PreviewTypes
  <2>4. Protected'
    BY <2>2 DEF Protected
  <2> QED
    BY <2>2, <2>3, <2>4
<1> QED
  BY <1>1, <1>2, <1>3
-----------------------------------------------------------------------------
LEMMA SlotsAre ==
  ASSUME NEW o \in Settings, NEW v \in ClipSet
  PROVE  /\ \A s \in SlotsOf(o, v) : s \in PreviewName /\ Slot(s) = s
         /\ InfoOf[v].streams # 0 => SlotsOf(o, v) = {NameOf(job, FALSE) : job \in JobsWanted(o, InfoOf[v])}
<1>1. ASSUME NEW s \in SlotsOf(o, v) PROVE s \in PreviewName /\ Slot(s) = s
  <2>1. PICK job \in JobsWanted(o, InfoOf[v]) : s = NameOf(job, FALSE)
    BY DEF SlotsOf
  <2> QED
    BY <2>1, JobIs, NameIs
<1>2. InfoOf[v].streams # 0 => SlotsOf(o, v) = {NameOf(job, FALSE) : job \in JobsWanted(o, InfoOf[v])}
  BY DEF SlotsOf
<1> QED
  BY <1>1, <1>2

(* Some video leads, and no other.                                         *)
LEMMA LeaderIs ==
  ASSUME NEW o, NEW i \in DOMAIN Clips, NEW s \in SlotsOf(o, Clips[i])
  PROVE  /\ \E k \in DOMAIN Clips : k <= i /\ LeadsSlot(o, Clips[k], s)
         /\ \A j \in DOMAIN Clips : LeadsSlot(o, Clips[i], s) /\ LeadsSlot(o, Clips[j], s) => i = j
         /\ LeadsSlot(o, Clips[i], s) => \A j \in DOMAIN Clips : j < i => s \notin SlotsOf(o, Clips[j])
<1> USE ClipsAre
<1> DEFINE T == {k \in DOMAIN Clips : s \in SlotsOf(o, Clips[k])}
<1>1. i \in T /\ T \subseteq Nat
  OBVIOUS
<1>2. PICK k \in T : \A j \in T : k <= j
  BY <1>1, LeastOf
<1>3. LeadsSlot(o, Clips[k], s)
  <2>1. ASSUME NEW g \in DOMAIN Clips, NEW j \in DOMAIN Clips, Clips[j] = Clips[k], g < j
        PROVE  s \notin SlotsOf(o, Clips[g])
    <3>1. j = k
      BY <2>1
    <3>2. g \notin T
      BY <1>2, <2>1, <3>1
    <3> QED
      BY <3>2
  <2> QED
    BY <2>1 DEF LeadsSlot
<1>4. k <= i
  BY <1>1, <1>2
<1>5. LeadsSlot(o, Clips[i], s) => \A j \in DOMAIN Clips : j < i => s \notin SlotsOf(o, Clips[j])
  BY Zenon DEF LeadsSlot
<1>6. ASSUME NEW j \in DOMAIN Clips, LeadsSlot(o, Clips[i], s), LeadsSlot(o, Clips[j], s) PROVE i = j
  <2>1. s \in SlotsOf(o, Clips[j])
    BY <1>6 DEF LeadsSlot
  <2>2. ~(j < i)
    BY <1>5, <1>6, <2>1
  <2>3. ~(i < j)
    BY <1>6, Zenon DEF LeadsSlot
  <2> QED
    BY <2>2, <2>3
<1> HIDE DEF T
<1> QED
  BY <1>2, <1>3, <1>4, <1>5, <1>6 DEF T

(* In a split none of whose plans fail, a video gets a name for each slot, *)
(* which is the preferred one if it is free.                               *)
LEMMA SplitSlots ==
  ASSUME PreviewTypes, there = ClipSet, NEW o \in Settings, NEW unread, NEW ps, ps = PlanSplit(o, unread),
         \A v \in ClipSet : ~ps[v].err, NEW i \in DOMAIN Clips
  PROVE  LET v == Clips[i]
         IN  /\ \A n \in NamesOf(ps[v]) :
                  /\ n \in PreviewName /\ Slot(n) \in SlotsOf(o, v)
                  /\ n = Slot(n) <=> Slot(n) \notin TakenAt(ps, i)
             /\ \A s \in SlotsOf(o, v) : \E n \in NamesOf(ps[v]) : Slot(n) = s
<1> DEFINE v == Clips[i]
           taken == TakenAt(ps, i)
           wanted == JobsWanted(o, InfoOf[v])
<1>1. v \in ClipSet
  BY ClipsAre
<1>2. /\ NamesOf(ps[v]) = {} \/ Fulfils(ps[v], o, v, taken)
      /\ InfoOf[v].streams = 0 \/ wanted = {} \/ Fulfils(ps[v], o, v, taken)
  BY <1>1, SplitIs
<1>3. ASSUME NEW n \in NamesOf(ps[v])
      PROVE  n \in PreviewName /\ Slot(n) \in SlotsOf(o, v) /\ (n = Slot(n) <=> Slot(n) \notin taken)
  <2>1. InfoOf[v].streams # 0 /\ n \in {Output(job, taken) : job \in wanted}
    BY <1>2, <1>3 DEF Fulfils
  <2>2. PICK job \in wanted : n = Output(job, taken)
    BY <2>1
  <2>3. NameOf(job, FALSE) \in SlotsOf(o, v)
    BY <1>1, <2>1, SlotsAre
  <2>4. n \in {NameOf(job, FALSE), NameOf(job, TRUE)} /\ Slot(n) = NameOf(job, FALSE)
        /\ (n = NameOf(job, FALSE) <=> NameOf(job, FALSE) \notin taken)
    BY <2>2, OutputIs
  <2>5. n \in PreviewName
    BY <1>1, <2>4, JobIs
  <2> QED
    BY <2>3, <2>4, <2>5
<1>4. ASSUME NEW s \in SlotsOf(o, v) PROVE \E n \in NamesOf(ps[v]) : Slot(n) = s
  <2>1. InfoOf[v].streams # 0
    BY DEF SlotsOf
  <2>2. PICK job \in wanted : s = NameOf(job, FALSE)
    BY <2>1 DEF SlotsOf
  <2>3. NamesOf(ps[v]) = {Output(j, taken) : j \in wanted}
    BY <1>2, <2>1, <2>2 DEF Fulfils
  <2>4. Output(job, taken) \in NamesOf(ps[v]) /\ Slot(Output(job, taken)) = s
    BY <2>2, <2>3, OutputIs
  <2> QED
    BY <2>4
<1> HIDE DEF taken, wanted
<1> QED
  BY <1>3, <1>4 DEF taken

(* In such a split the preferred name is taken for all but the leader, and *)
(* for the leader by a file that is not its own.                           *)
LEMMA SlotTaken ==
  ASSUME PreviewTypes, there = ClipSet, NEW o \in Settings, NEW unread, NEW ps, ps = PlanSplit(o, unread),
         \A v \in ClipSet : ~ps[v].err, \A v \in ClipSet : NamedRight(o, v, Own(v)),
         NEW i \in DOMAIN Clips, NEW s \in SlotsOf(o, Clips[i])
  PROVE  /\ LeadsSlot(o, Clips[i], s) /\ s \in TakenAt(ps, i) => shown[s] # "absent" /\ s \notin Own(Clips[i])
         /\ shown[s] # "absent" /\ s \notin Own(Clips[i]) => s \in TakenAt(ps, i)
         /\ ~LeadsSlot(o, Clips[i], s) => s \in TakenAt(ps, i)
<1> USE ClipsAre
<1>1. DOMAIN shown = PreviewName /\ s \in PreviewName /\ Slot(s) = s
  BY SlotsAre DEF PreviewTypes
<1>2. ASSUME NEW k \in DOMAIN Clips, LeadsSlot(o, Clips[k], s), s \in TakenAt(ps, k)
      PROVE  shown[s] # "absent" /\ s \notin Own(Clips[k])
  <2>1. s \in SlotsOf(o, Clips[k])
    BY <1>2 DEF LeadsSlot
  <2>2. s \notin Reserved(ps, k)
    <3> SUFFICES ASSUME NEW j \in 1..(k - 1), s \in NamesOf(ps[Clips[j]]) PROVE FALSE
      BY DEF Reserved
    <3>1. j \in DOMAIN Clips /\ j < k
      OBVIOUS
    <3>2. s \in SlotsOf(o, Clips[j])
      BY <1>1, <3>1, SplitSlots
    <3> QED
      BY <1>2, <2>1, <3>1, <3>2, LeaderIs
  <2> QED
    BY <1>2, <2>2 DEF TakenAt, OccupiedFor
<1>3. ASSUME ~LeadsSlot(o, Clips[i], s) PROVE s \in TakenAt(ps, i)
  <2>1. PICK k \in DOMAIN Clips : k <= i /\ LeadsSlot(o, Clips[k], s)
    BY LeaderIs
  <2>2. k \in 1..(i - 1)
    <3>1. k # i
      BY <1>3, <2>1
    <3> QED
      BY <2>1, <3>1
  <2>3. PICK n \in NamesOf(ps[Clips[k]]) : Slot(n) = s
    <3>1. s \in SlotsOf(o, Clips[k])
      BY <2>1 DEF LeadsSlot
    <3> QED
      BY <3>1, SplitSlots
  <2>4. CASE n = s
    <3>1. s \in Reserved(ps, i)
      BY <2>2, <2>3, <2>4 DEF Reserved
    <3> QED
      BY <3>1 DEF TakenAt, OccupiedFor
  <2>5. CASE n # s
    <3>1. s \in TakenAt(ps, k)
      BY <2>3, <2>5, SplitSlots
    <3>2. shown[s] # "absent"
      BY <1>2, <2>1, <3>1
    <3>3. s \notin Own(Clips[i])
      BY <1>1, <1>3 DEF NamedRight
    <3> QED
      BY <1>1, <3>2, <3>3 DEF TakenAt, OccupiedFor
  <2> QED
    BY <2>4, <2>5
<1>4. shown[s] # "absent" /\ s \notin Own(Clips[i]) => s \in TakenAt(ps, i)
  BY <1>1 DEF TakenAt, OccupiedFor
<1> QED
  BY <1>2, <1>3, <1>4

LEMMA StartSteady == ASSUME PreviewInv, StartSplit PROVE Steady'
<1> USE DEF PreviewInv
<1>1. PICK o \in Settings, unread \in SUBSET there :
        LET ps == PlanSplit(o, unread)
        IN  /\ options' = o /\ plans' = ps /\ work' = Missing(ps)
            /\ reordered' = (reordered \/ (planned > 0 /\ o # options) \/ \E v \in ClipSet : ps[v].err)
  BY Zenon DEF StartSplit
<1>2. work = {} /\ planned' = planned + 1 /\ UNCHANGED <<shown, owned, started, there, gone>>
  BY DEF StartSplit, Between
<1> DEFINE ps == PlanSplit(o, unread)
<1> SUFFICES ASSUME ~gone', ~reordered' PROVE \A v \in ClipSet : NamedRight(o, v, Has(v))'
  <2>1. planned' # 0
    BY <1>2 DEF PreviewTypes
  <2> QED
    BY <1>1, <2>1 DEF Steady, NamedRight
<1>3. ~gone /\ ~reordered /\ there = ClipSet /\ (\A v \in ClipSet : ~ps[v].err) /\ (planned > 0 => o = options)
  BY <1>1, <1>2 DEF PreviewTypes
<1>4. \A v \in ClipSet : Has(v) = Own(v)
  BY <1>2 DEF Has
<1>5. \A v \in ClipSet : NamedRight(o, v, Own(v))
  <2>1. CASE planned = 0
    <3>1. \A v \in ClipSet : Own(v) = {}
      BY <1>3, <1>4, <2>1 DEF Steady
    <3> QED
      BY <3>1 DEF NamedRight
  <2>2. CASE planned > 0
    BY <1>3, <1>4, <2>2 DEF Steady
  <2> QED
    BY <2>1, <2>2 DEF PreviewTypes
<1> TAKE v \in ClipSet
<1>6. PICK i \in DOMAIN Clips : Clips[i] = v
  BY ClipsAre
<1>7. \A n \in Has(v)' : n \in Own(v) \/ n \in NamesOf(ps[v])
  <2>1. Own(v)' = Own(v)
    BY <1>2 DEF Own
  <2>2. \A n : <<v, n>> \in work' => n \in NamesOf(ps[v])
    BY <1>1, MissingIs
  <2>3. Has(v)' = Own(v)' \cup {n \in PreviewName : <<v, n>> \in work'}
    BY DEF Has
  <2> QED
    BY <2>1, <2>2, <2>3
<1>8. \A n \in Own(v) : n \in PreviewName
  BY DEF PreviewTypes, Own
<1> HIDE DEF ps
<1>9. /\ \A n \in NamesOf(ps[v]) : /\ n \in PreviewName /\ Slot(n) \in SlotsOf(o, v)
                                   /\ n = Slot(n) <=> Slot(n) \notin TakenAt(ps, i)
      /\ \A s \in SlotsOf(o, v) :
           /\ LeadsSlot(o, v, s) /\ s \in TakenAt(ps, i) => shown[s] # "absent" /\ s \notin Own(v)
           /\ shown[s] # "absent" /\ s \notin Own(v) => s \in TakenAt(ps, i)
           /\ ~LeadsSlot(o, v, s) => s \in TakenAt(ps, i)
  BY <1>3, <1>5, <1>6, SplitSlots, SlotTaken DEF ps
<1>10. ASSUME NEW n \in Has(v)'
       PROVE  /\ Slot(n) \in SlotsOf(o, v)
              /\ ~LeadsSlot(o, v, Slot(n)) => n # Slot(n)
              /\ LeadsSlot(o, v, Slot(n)) /\ n # Slot(n) => shown[Slot(n)] # "absent" /\ Slot(n) \notin Own(v)
  <2>1. CASE n \in Own(v)
    BY <1>5, <2>1 DEF NamedRight
  <2>2. CASE n \in NamesOf(ps[v])
    BY <1>9, <2>2
  <2> QED
    BY <1>7, <2>1, <2>2
<1>11. ASSUME NEW n \in Has(v)', LeadsSlot(o, v, Slot(n)), n # Slot(n) PROVE Slot(n) \notin Has(v)'
  <2>1. shown[Slot(n)] # "absent" /\ Slot(n) \notin Own(v) /\ Slot(n) \in SlotsOf(o, v)
    BY <1>10, <1>11
  <2>2. Slot(n) \in TakenAt(ps, i)
    BY <1>9, <2>1
  <2>3. Slot(Slot(n)) = Slot(n)
    BY <2>1, SlotsAre
  <2>4. Slot(n) \notin NamesOf(ps[v])
    BY <1>9, <2>2, <2>3
  <2> QED
    BY <1>7, <2>1, <2>4
<1> QED
  BY <1>2, <1>10, <1>11 DEF NamedRight, SlotsOf, LeadsSlot

(* The other steps add nothing to what a video has, and none takes away a  *)
(* file that no video owns.                                                *)
LEMMA SteadyStays ==
  ASSUME PreviewInv, PreviewTypes', options' = options, reordered' = reordered, planned' = planned, gone' = gone,
         \A v \in ClipSet : Has(v)' \subseteq Has(v),
         \A m \in PreviewName : shown'[m] = "absent" => shown[m] = "absent" \/ \E v \in ClipSet : m \in Own(v)
  PROVE  Steady'
<1> USE DEF PreviewInv
<1> SUFFICES ASSUME ~gone, ~reordered
             PROVE  /\ planned = 0 => \A v \in ClipSet : Has(v)' = {}
                    /\ \A v \in ClipSet : NamedRight(options, v, Has(v))'
  BY DEF Steady
<1>1. /\ planned = 0 => \A v \in ClipSet : Has(v) = {}
      /\ \A v \in ClipSet : NamedRight(options, v, Has(v))
      /\ options \in Settings
  BY DEF Steady, PreviewTypes
<1>2. ASSUME NEW v \in ClipSet, NEW n \in Has(v)'
      PROVE  /\ Slot(n) \in SlotsOf(options, v)
             /\ ~LeadsSlot(options, v, Slot(n)) => n # Slot(n)
             /\ LeadsSlot(options, v, Slot(n)) /\ n # Slot(n) => shown'[Slot(n)] # "absent" /\ Slot(n) \notin Has(v)'
  <2> DEFINE s == Slot(n)
  <2>1. /\ s \in SlotsOf(options, v)
        /\ ~LeadsSlot(options, v, s) => n # s
        /\ LeadsSlot(options, v, s) /\ n # s => shown[s] # "absent" /\ s \notin Has(v)
    BY <1>1, <1>2 DEF NamedRight
  <2>2. s \in PreviewName /\ Slot(s) = s
    BY <1>1, <2>1, SlotsAre
  <2> HIDE DEF s
  <2>3. ASSUME LeadsSlot(options, v, s), n # s, shown'[s] = "absent" PROVE FALSE
    <3>1. PICK u \in ClipSet : s \in Own(u)
      BY <2>1, <2>2, <2>3
    <3>2. s \in Has(u) /\ u # v
      BY <2>1, <2>3, <3>1 DEF Has
    <3>3. s \in SlotsOf(options, u) /\ LeadsSlot(options, u, s)
      BY <1>1, <2>2, <3>2 DEF NamedRight
    <3>4. PICK i \in DOMAIN Clips, j \in DOMAIN Clips : Clips[i] = v /\ Clips[j] = u
      BY ClipsAre
    <3> QED
      BY <2>1, <2>3, <3>2, <3>3, <3>4, LeaderIs
  <2> QED
    BY <2>1, <2>3 DEF s
<1>3. ASSUME NEW v \in ClipSet PROVE NamedRight(options, v, Has(v))'
  BY <1>2 DEF NamedRight, SlotsOf, LeadsSlot
<1> QED
  BY <1>1, <1>3

LEMMA WorkSteady == ASSUME PreviewInv, PreviewTypes', Worker PROVE Steady'
<1> USE DEF PreviewInv
<1>1. PICK v \in ClipSet : \E n \in NamesOf(plans[v]) : WorksOn(v, n)
  BY WorkerIs
<1>2. PICK n \in NamesOf(plans[v]) : WorksOn(v, n)
  BY <1>1
<1> USE DEF WorksOn
<1>3. n \in PreviewName
  BY DEF PlansSound
<1>4. /\ \A m \in PreviewName : shown'[m] = shown[m] \/ (m = n /\ shown[n] = "absent" /\ shown'[n] = v)
      /\ \A u \in ClipSet : u # v => owned'[u] = owned[u]
      /\ \A m \in DOMAIN owned'[v] : m = n \/ m \in DOMAIN owned[v]
      /\ \A u \in ClipSet : u # v => started'[u] = started[u]
      /\ \A m \in started'[v] : m = n \/ m \in started[v]
      /\ work' \subseteq work
  BY <1>2, <1>3, WorkKeeps
<1>5. n \in Has(v)
  BY <1>2, <1>3 DEF Has
<1>6. ASSUME NEW u \in ClipSet PROVE Has(u)' \subseteq Has(u)
  <2>1. CASE u = v
    BY <1>4, <1>5, <2>1 DEF Has, Own
  <2>2. CASE u # v
    BY <1>4, <2>2 DEF Has, Own
  <2> QED
    BY <2>1, <2>2
<1>7. \A m \in PreviewName : shown'[m] = "absent" => shown[m] = "absent"
  BY <1>4, PreviewAssumption
<1> QED
  BY <1>2, <1>6, <1>7, SteadyStays

LEMMA RestoreSteady == ASSUME PreviewInv, PreviewTypes', NEW v \in ClipSet, RestoreClip(v) PROVE Steady'
<1> USE DEF PreviewInv
<1>1. /\ work = {} /\ UNCHANGED <<options, plans, work, started, there, gone, reordered, crossed, planned>>
      /\ \A m \in PreviewName : shown'[m] = shown[m] \/ m \in DOMAIN owned[v]
      /\ \A u \in ClipSet : u # v => owned'[u] = owned[u]
      /\ \A m \in DOMAIN owned'[v] : m \in DOMAIN owned[v]
  BY RestoreIs
<1>2. ASSUME NEW u \in ClipSet PROVE Has(u)' \subseteq Has(u)
  <2>1. \A m \in DOMAIN owned'[u] : m \in DOMAIN owned[u]
    BY <1>1
  <2> QED
    BY <1>1, <2>1 DEF Has, Own
<1>3. \A m \in PreviewName : shown'[m] = "absent" => shown[m] = "absent" \/ \E u \in ClipSet : m \in Own(u)
  BY <1>1 DEF Own
<1> QED
  BY <1>1, <1>2, <1>3, SteadyStays

LEMMA OperatorSteady ==
  ASSUME PreviewInv, PreviewTypes',
         (\E n \in DOMAIN shown : PlantPreview(n) \/ DropPreview(n)) \/ (\E v \in ClipSet : DropClip(v))
  PROVE  Steady'
<1> USE DEF PreviewInv
<1>1. CASE \E n \in DOMAIN shown : PlantPreview(n)
  <2>1. PICK n \in DOMAIN shown : PlantPreview(n)
    BY <1>1
  <2>2. /\ shown' = [shown EXCEPT ![n] = "operator"]
        /\ UNCHANGED <<options, plans, work, owned, started, there, gone, reordered, crossed, planned>>
    BY <2>1 DEF PlantPreview
  <2>3. \A m \in PreviewName : shown'[m] = "absent" => shown[m] = "absent"
    BY <2>2 DEF PreviewTypes
  <2>4. \A v \in ClipSet : Has(v)' \subseteq Has(v)
    BY <2>2 DEF Has, Own
  <2> QED
    BY <2>2, <2>3, <2>4, SteadyStays
<1>2. CASE (\E n \in DOMAIN shown : DropPreview(n)) \/ (\E v \in ClipSet : DropClip(v))
  <2>1. gone'
    BY <1>2 DEF DropPreview, DropClip
  <2> QED
    BY <2>1 DEF Steady
<1> QED
  BY <1>1, <1>2

LEMMA PreviewsStep == ASSUME PreviewInv, [PreviewNext]_previewVars PROVE PreviewInv'
<1>1. CASE StartSplit
  BY <1>1, StartKeeps, StartSteady DEF PreviewInv
<1>2. CASE Worker
  BY <1>2, WorkProtects, WorkSteady DEF PreviewInv
<1>3. CASE \E v \in ClipSet : RestoreClip(v)
  BY <1>3, RestoreProtects, RestoreSteady DEF PreviewInv
<1>4. CASE (\E n \in DOMAIN shown : PlantPreview(n) \/ DropPreview(n)) \/ (\E v \in ClipSet : DropClip(v))
  BY <1>4, OperatorProtects, OperatorSteady DEF PreviewInv
<1>5. CASE UNCHANGED previewVars
  <2> USE DEF PreviewInv
  <2>1. UNCHANGED <<options, plans, work, shown, owned, started, there, gone, reordered, crossed, planned>>
    BY <1>5 DEF previewVars
  <2>2. PreviewTypes' /\ PlansSound(plans, options)'
    BY <2>1 DEF PreviewTypes
  <2>3. Protected'
    BY <2>1 DEF Protected
  <2>4. \A v \in ClipSet : Has(v)' \subseteq Has(v)
    BY <2>1 DEF Has, Own
  <2>5. Steady'
    BY <2>1, <2>2, <2>4, SteadyStays
  <2> QED
    BY <2>2, <2>3, <2>5
<1>6. DOMAIN owned = ClipSet
  BY DEF PreviewInv, PreviewTypes
<1> QED
  BY <1>1, <1>2, <1>3, <1>4, <1>5, <1>6 DEF PreviewNext

(* The invariant behind the previews: plans are sound and disjoint, what a *)
(* video owns or started is its own, and only the leading video of a slot  *)
(* ever gets the preferred name.                                           *)
THEOREM PreviewInvariant == PreviewSpec => []PreviewInv
<1>1. PreviewInit => PreviewInv
  BY PreviewsBegin
<1>2. PreviewInv /\ [PreviewNext]_previewVars => PreviewInv'
  BY PreviewsStep
<1> QED
  BY <1>1, <1>2, PTL DEF PreviewSpec

(* PreviewsSound (media/preview_plan.go, archive/previews_*.go) for any    *)
(* videos, metadata, options and number of splits: previews lie within     *)
(* their video and its size, no two videos of a run share a name, files    *)
(* that are not a video's own are left alone, and a rerun does not make a  *)
(* preview twice.                                                          *)
THEOREM PreviewsAreSound == PreviewSpec => []PreviewsSound
<1>1. PreviewInv => PreviewsSound
  BY PreviewsImply
<1> QED
  BY <1>1, PreviewInvariant, PTL
=============================================================================
