--------------------------- MODULE RunLock_proofs ---------------------------
(***************************************************************************)
(* What holds of the run lock for any number of processes, hosts, crashes  *)
(* and failed writes: its types always, exclusion as long as nobody uses   *)
(* --force-unlock.                                                         *)
(***************************************************************************)
EXTENDS RunLock, FiniteSetTheorems, TLAPS

Taking == {"aside", "compare", "putback", "discard"}
Owning == {"write"} \cup Holding

(* Nobody is in a takeover, and who created the lock or believes to hold   *)
(* it has its file at the path.                                            *)
Owned ==
    /\ stage \in [Contender -> {"idle"} \cup Acquiring \cup Holding \cup Over]
    /\ run \in [Contender -> {"provisional", "run"}]
    /\ \A p \in Contender : stage[p] \notin Taking
    /\ \A p \in Contender : stage[p] \in Owning => lockFile = Mine(p)

NoForce == Forced = {}

(* Two owners would be two files at one path.                              *)
LEMMA OwnedExcludes ==
    ASSUME Owned PROVE MutualExclusion
<1>1. Owned
  OBVIOUS
<1>2. \A p, q \in Holders : p = q
  BY <1>1 DEF Owned, Holders, Owning, Mine
<1>3. CASE Holders = {}
  BY <1>3, FS_EmptySet DEF MutualExclusion
<1>4. CASE Holders # {}
  <2>1. PICK p \in Holders : TRUE
    BY <1>4
  <2>2. Holders = {p}
    BY <1>2, <2>1
  <2>3. Cardinality({p}) = 1
    BY FS_Singleton
  <2>4. QED
    BY <2>2, <2>3 DEF MutualExclusion
<1>5. QED
  BY <1>3, <1>4

(* Owned holds before any process has started.                             *)
LEMMA OwnedInit ==
    ASSUME Init PROVE Owned
<1>1. \A p \in Contender : stage[p] \in {"idle", "dead"}
  BY DEF Init
<1>2. stage \in [Contender -> {"idle"} \cup Acquiring \cup Holding \cup Over]
  BY DEF Init, Over
<1>3. run \in [Contender -> {"provisional", "run"}]
  BY DEF Init
<1>4. QED
  BY <1>1, <1>2, <1>3 DEF Owned, Taking, Owning, Holding

(* Without --force-unlock every step of every process preserves Owned.     *)
LEMMA OwnedNext ==
    ASSUME Forced = {}, Owned, [Next]_vars PROVE Owned'
<1> USE DEF Owned, Taking, Owning, Holding, Acquiring, Over, Mine, Enter
<1>0. ASSUME UNCHANGED vars PROVE Owned'
  BY <1>0 DEF vars
<1> SUFFICES ASSUME NEW p \in Contender, AcquireLock(p) \/ Hold(p) \/ Crash(p)
             PROVE Owned'
  BY <1>0 DEF Next, Terminated
<1>1. CASE Enlist(p)
  BY <1>1 DEF Enlist
<1>2. CASE Create(p)
  <2>1. CASE lockFile = NoLock
    <3>1. \A q \in Contender : stage[q] \notin Owning
      <4>1. \A q \in Contender : Mine(q) \in LockFile
        BY DEF LockFile
      <4>2. QED
        BY <4>1, <2>1, NoLockAssumption
    <3>2. lockFile' = Mine(p) /\ stage' = [stage EXCEPT ![p] = "write"] /\ run' = run
      BY <1>2, <2>1 DEF Create
    <3>3. QED
      BY <3>1, <3>2
  <2>2. CASE lockFile # NoLock
    BY <1>2, <2>2 DEF Create
  <2>3. QED
    BY <2>1, <2>2
<1>3. CASE GiveUp(p)
  BY <1>3 DEF GiveUp
<1>4. CASE WriteContent(p)
  <2>1. lockFile = Mine(p) /\ run' = run
    BY <1>4 DEF WriteContent
  <2>2. \A q \in Contender : q # p => stage[q] \notin Owning
    BY <2>1
  <2>3. CASE stage' = [stage EXCEPT ![p] = "held"] /\ lockFile' = lockFile
    BY <2>1, <2>3
  <2>4. CASE stage' = [stage EXCEPT ![p] = "failed"]
    BY <2>1, <2>2, <2>4
  <2>5. QED
    BY <1>4, <2>3, <2>4 DEF WriteContent
<1>5. CASE Inspect(p)
  <2>1. \E label \in {"create", "inspect", "refused"} : stage' = [stage EXCEPT ![p] = label]
    <3>1. p \notin Forced
      OBVIOUS
    <3>2. stage = [stage EXCEPT ![p] = "inspect"]
      BY <1>5 DEF Inspect
    <3>3. QED
      BY <1>5, <3>1, <3>2 DEF Inspect
  <2>2. lockFile' = lockFile /\ run' = run
    BY <1>5 DEF Inspect
  <2>3. QED
    BY <2>1, <2>2
<1>6. CASE MoveAside(p) \/ Compare(p) \/ PutBack(p) \/ Discard(p)
  BY <1>6 DEF MoveAside, Compare, PutBack, Discard
<1>7. CASE Verified(p)
  BY <1>7 DEF Verified
<1>8. CASE SetRunID(p)
  <2>1. lockFile = Mine(p)
    BY <1>8 DEF SetRunID
  <2>2. \A q \in Contender : q # p => stage[q] \notin Owning
    BY <2>1
  <2>3. run' = [run EXCEPT ![p] = "run"] /\ lockFile' = [by |-> p, run |-> "run"]
        /\ stage' = [stage EXCEPT ![p] = "work"]
    BY <1>8 DEF SetRunID
  <2>4. QED
    BY <2>2, <2>3
<1>9. CASE LoseLock(p)
  BY <1>9 DEF LoseLock
<1>10. CASE Release(p)
  BY <1>10 DEF Release
<1>11. CASE Unlink(p)
  <2>1. lockFile = Mine(p)
    BY <1>11 DEF Unlink
  <2>2. \A q \in Contender : q # p => stage[q] \notin Owning
    BY <2>1
  <2>3. run' = run /\ \E label \in {"failed", "released"} : stage' = [stage EXCEPT ![p] = label]
    BY <1>11 DEF Unlink
  <2>4. QED
    BY <2>2, <2>3
<1>12. CASE Crash(p)
  BY <1>12 DEF Crash
<1>13. QED
  BY <1>1, <1>2, <1>3, <1>4, <1>5, <1>6, <1>7, <1>8, <1>9, <1>10, <1>11, <1>12
     DEF AcquireLock, Hold

(* Without --force-unlock two processes never work on a root at once,      *)
(* whatever dies, whatever is written late, whatever lock was left.        *)
THEOREM Exclusive == NoForce /\ Spec => []MutualExclusion
<1>1. NoForce /\ Init => NoForce /\ Owned
  BY OwnedInit
<1>2. (NoForce /\ Owned) /\ [Next]_vars => (NoForce /\ Owned)'
  BY OwnedNext DEF NoForce
<1>3. NoForce /\ Owned => MutualExclusion
  BY OwnedExcludes
<1>4. QED
  BY <1>1, <1>2, <1>3, PTL DEF Spec

(* And a process that releases removes its own lock.                       *)
THEOREM RemovesOwnOnly == NoForce /\ Spec => ReleasesOwn
<1>1. NoForce /\ Init => NoForce /\ Owned
  BY OwnedInit
<1>2. (NoForce /\ Owned) /\ [Next]_vars => (NoForce /\ Owned)'
  BY OwnedNext DEF NoForce
<1>3. NoForce /\ Owned =>
        [\A p \in Contender : stage[p] = "release" /\ stage'[p] = "released" => lockFile = Mine(p)]_vars
  BY DEF Owned, Owning, Holding
<1>4. QED
  BY <1>1, <1>2, <1>3, PTL DEF Spec, ReleasesOwn

(* Every step of every process, forced or not, keeps the types.            *)
LEMMA TypeNext ==
    ASSUME TypeOK, [Next]_vars PROVE TypeOK'
<1> USE DEF TypeOK, Enter
<1>0. CASE UNCHANGED vars
  BY <1>0 DEF vars
<1>m. \A p \in Contender : Mine(p) \in LockFile
  BY DEF Mine, LockFile
<1>n. Attempts \in Nat /\ Rereads \in Nat /\ MaxCrashes \in Nat
  BY LockAssumption
<1> SUFFICES ASSUME NEW p \in Contender, AcquireLock(p) \/ Hold(p) \/ Crash(p)
             PROVE TypeOK'
  BY <1>0 DEF Next, Terminated
<1> USE DEF Acquiring, Holding, Over
<1>1. CASE Enlist(p)
  BY <1>1 DEF Enlist
<1>2. CASE Create(p)
  <2>1. attempt' \in [Contender -> 0..Attempts]
    BY <1>2, <1>n DEF Create
  <2>2. reread' \in [Contender -> 0..Rereads]
    BY <1>2, <1>n DEF Create
  <2>3. lockFile' \in LockFile \cup {NoLock}
    BY <1>2, <1>m DEF Create
  <2>4. QED
    BY <1>2, <2>1, <2>2, <2>3 DEF Create
<1>3. CASE GiveUp(p)
  BY <1>3 DEF GiveUp
<1>4. CASE WriteContent(p)
  BY <1>4, <1>m, <1>n DEF WriteContent
<1>5. CASE Inspect(p)
  <2>1. lockFile \in written => lockFile \in LockFile
    OBVIOUS
  <2>2. judged' \in [Contender -> LockFile \cup {NoLock, TornLock}]
    BY <1>5, <2>1 DEF Inspect
  <2>3. reread' \in [Contender -> 0..Rereads]
    BY <1>5, <1>n DEF Inspect
  <2>4. untimely' \in BOOLEAN
    BY <1>5 DEF Inspect
  <2>5. \/ stage' = stage
        \/ \E label \in {"create", "aside", "refused"} : stage' = [stage EXCEPT ![p] = label]
    BY <1>5 DEF Inspect
  <2>6. QED
    BY <1>5, <2>2, <2>3, <2>4, <2>5 DEF Inspect
<1>6. CASE MoveAside(p)
  BY <1>6 DEF MoveAside
<1>7. CASE Compare(p)
  BY <1>7 DEF Compare
<1>8. CASE PutBack(p)
  BY <1>8 DEF PutBack
<1>9. CASE Discard(p)
  BY <1>9 DEF Discard
<1>10. CASE Verified(p)
  BY <1>10 DEF Verified
<1>11. CASE SetRunID(p)
  <2>1. [by |-> p, run |-> "run"] \in LockFile
    BY DEF LockFile
  <2>2. QED
    BY <1>11, <2>1 DEF SetRunID
<1>12. CASE LoseLock(p)
  BY <1>12 DEF LoseLock
<1>13. CASE Release(p)
  BY <1>13 DEF Release
<1>14. CASE Unlink(p)
  BY <1>14 DEF Unlink
<1>15. CASE Crash(p)
  BY <1>15, <1>n DEF Crash
<1>16. QED
  BY <1>1, <1>2, <1>3, <1>4, <1>5, <1>6, <1>7, <1>8, <1>9, <1>10, <1>11, <1>12, <1>13, <1>14,
     <1>15 DEF AcquireLock, Hold

(* Whatever processes do to the lock, takeovers included, each of them     *)
(* counts its attempts and readings within their bounds, and what it has   *)
(* judged or moved aside is a lock some process wrote.                     *)
THEOREM LockTypeCorrect == Spec => []TypeOK
<1>1. Init => TypeOK
  <2>1. \A p \in Gone : [by |-> p, run |-> "run"] \in LockFile
    BY LockAssumption DEF LockFile
  <2>2. ASSUME Init PROVE lockFile \in LockFile \cup {NoLock} /\ written \subseteq LockFile
    <3>1. lockFile \in LockFile \cup {NoLock}
      BY <2>1, <2>2 DEF Init
    <3>2. QED
      BY <3>1, <2>2 DEF Init
  <2>3. ASSUME Init PROVE stage \in [Contender -> {"idle"} \cup Acquiring \cup Holding \cup Over]
    BY <2>3 DEF Init, Over
  <2>4. ASSUME Init PROVE /\ run \in [Contender -> {"provisional", "run"}]
                         /\ judged \in [Contender -> LockFile \cup {NoLock, TornLock}]
                         /\ aside \in [Contender -> LockFile \cup {NoLock}]
    BY <2>4 DEF Init
  <2>5. ASSUME Init PROVE /\ attempt \in [Contender -> 0..Attempts]
                         /\ reread \in [Contender -> 0..Rereads]
                         /\ crashes \in 0..MaxCrashes
    <3>1. 0 \in 0..Attempts /\ 0 \in 0..Rereads /\ 0 \in 0..MaxCrashes
      BY LockAssumption
    <3>2. QED
      BY <3>1, <2>5 DEF Init
  <2>6. ASSUME Init PROVE untimely \in BOOLEAN
    BY <2>6 DEF Init
  <2>7. QED
    BY <2>2, <2>3, <2>4, <2>5, <2>6 DEF TypeOK
<1>2. TypeOK /\ [Next]_vars => TypeOK'
  BY TypeNext
<1>3. QED
  BY <1>1, <1>2, PTL DEF Spec
=============================================================================
