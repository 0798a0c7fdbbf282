------------------------------ MODULE RunLock ------------------------------
(***************************************************************************)
(* The run lock of one root: root/.arxgo/lock, its acquisition by          *)
(* competing arxgo processes, the takeover under --force-unlock, the       *)
(* verification at each checkpoint and the release.                        *)
(*                                                                         *)
(* A lock file is who wrote it and under which run id; a file that was     *)
(* created but not yet written reads as TornLock.  A file that is renamed  *)
(* is still the file its creator writes to.  Run ids and start times are   *)
(* unique, so two processes never write the same content.                  *)
(*                                                                         *)
(* Simplifications: a read of the lock and the liveness check of the owner *)
(* it names are one step, and so is the atomic rewrite of SetRunID (its    *)
(* part file is not shared).                                               *)
(***************************************************************************)
EXTENDS Naturals, FiniteSets

CONSTANTS
    Contender,     \* process incarnations
    Pid, Host,     \* of each process; a pid may be used again
    Forced,        \* the processes started with --force-unlock
    Gone,          \* processes that died earlier; one may have left a lock
    Attempts,      \* of AcquireLock (5 in the code)
    Rereads,       \* of a lock that does not decode (2 in the code)
    NoLock, TornLock,
    MaxCrashes

ASSUME LockAssumption ==
    /\ Forced \subseteq Contender /\ Gone \subseteq Contender
    /\ Pid \in [Contender -> Nat]
    /\ Attempts \in Nat /\ Rereads \in Nat /\ MaxCrashes \in Nat

(* A process writes its provisional run id first, the run's id later.      *)
LockFile == [by : Contender, run : {"provisional", "run"}]

ASSUME NoLockAssumption == NoLock \notin LockFile /\ TornLock \notin LockFile /\ NoLock # TornLock

VARIABLES
    lockFile,   \* the file at the lock path
    written,    \* the lock files whose content is complete
    stage,
    run,        \* the run id the process knows its lock by (Lock.info)
    attempt, reread,
    judged,     \* the bytes a takeover judged
    aside,      \* the file it moved aside
    untimely,   \* history: a lock was taken over whose live creator has not written it yet
    crashes

vars == <<lockFile, written, stage, run, attempt, reread, judged, aside, untimely, crashes>>

Acquiring == {"create", "write", "inspect", "aside", "compare", "putback", "discard"}
Holding   == {"held", "setrun", "work", "release"}
Over      == {"released", "refused", "lost", "failed", "dead"}

TypeOK ==
    /\ lockFile \in LockFile \cup {NoLock}
    /\ written \subseteq LockFile
    /\ stage \in [Contender -> {"idle"} \cup Acquiring \cup Holding \cup Over]
    /\ run \in [Contender -> {"provisional", "run"}]
    /\ attempt \in [Contender -> 0..Attempts]
    /\ reread \in [Contender -> 0..Rereads]
    /\ judged \in [Contender -> LockFile \cup {NoLock, TornLock}]
    /\ aside \in [Contender -> LockFile \cup {NoLock}]
    /\ untimely \in BOOLEAN /\ crashes \in 0..MaxCrashes
-----------------------------------------------------------------------------
Mine(p) == [by |-> p, run |-> run[p]]

(* What reading a lock file returns.                                       *)
Raw(file) == IF file \in written THEN file ELSE TornLock

Alive(p, q) ==
    \E r \in Contender : Host[r] = Host[p] /\ Pid[r] = Pid[q] /\ stage[r] \in Acquiring \cup Holding

(* classify: how p sees a lock that q wrote.                               *)
Remote(p, q) == Host[q] # Host[p]
HeldBy(p, q) == ~Remote(p, q) /\ Pid[q] # Pid[p] /\ Alive(p, q)
Stale(p, q)  == ~Remote(p, q) /\ ~HeldBy(p, q)

VerifyPresent(p) == lockFile # NoLock         \* mutant: any lock will do

(* Lock.Verify: the file at the path is this process's.                    *)
Verify(p) == lockFile = Mine(p) /\ lockFile \in written

Enter(p, label) == stage' = [stage EXCEPT ![p] = label]
-----------------------------------------------------------------------------
Init ==
    /\ lockFile \in {NoLock} \cup {[by |-> p, run |-> "run"] : p \in Gone}
    /\ written \in SUBSET ({lockFile} \ {NoLock})
    /\ stage = [p \in Contender |-> IF p \in Gone THEN "dead" ELSE "idle"]
    /\ run = [p \in Contender |-> "provisional"]
    /\ attempt = [p \in Contender |-> 0] /\ reread = [p \in Contender |-> 0]
    /\ judged = [p \in Contender |-> NoLock] /\ aside = [p \in Contender |-> NoLock]
    /\ untimely = FALSE /\ crashes = 0

Enlist(p) ==
    /\ stage[p] = "idle"
    /\ Enter(p, "create")
    /\ UNCHANGED <<lockFile, written, run, attempt, reread, judged, aside, untimely, crashes>>

CreateOver(p) ==                          \* mutant: created without O_EXCL
    /\ stage[p] = "create"
    /\ lockFile' = Mine(p) /\ Enter(p, "write")
    /\ UNCHANGED <<written, run, attempt, reread, judged, aside, untimely, crashes>>

(* createLockFile with O_EXCL: the file is there, and still empty.         *)
Create(p) ==
    /\ stage[p] = "create" /\ attempt[p] < Attempts
    /\ attempt' = [attempt EXCEPT ![p] = @ + 1]
    /\ reread' = [reread EXCEPT ![p] = 0]
    /\ \/ lockFile = NoLock /\ lockFile' = Mine(p) /\ Enter(p, "write")
       \/ lockFile # NoLock /\ Enter(p, "inspect") /\ UNCHANGED lockFile
    /\ UNCHANGED <<written, run, judged, aside, untimely, crashes>>

GiveUp(p) ==
    /\ stage[p] = "create" /\ attempt[p] = Attempts
    /\ Enter(p, "refused")
    /\ UNCHANGED <<lockFile, written, run, attempt, reread, judged, aside, untimely, crashes>>

(* The content reaches the file wherever it was moved; a write that fails  *)
(* removes what is at the path.                                            *)
WriteContent(p) ==
    /\ stage[p] = "write"
    /\ \/ written' = written \cup {Mine(p)} /\ Enter(p, "held") /\ UNCHANGED <<lockFile, crashes>>
       \/ crashes < MaxCrashes /\ crashes' = crashes + 1
          /\ lockFile' = NoLock /\ Enter(p, "failed") /\ UNCHANGED written
    /\ UNCHANGED <<run, attempt, reread, judged, aside, untimely>>

InspectPatient(p) ==                      \* mutant: a torn lock is read for ever
    /\ stage[p] = "inspect"
    /\ \/ lockFile = NoLock /\ Enter(p, "create")
       \/ lockFile \in written /\ Enter(p, "refused")
    /\ UNCHANGED <<lockFile, written, run, attempt, reread, judged, aside, untimely, crashes>>

(* inspectLock and what AcquireLock makes of the answer.                   *)
Inspect(p) ==
    /\ stage[p] = "inspect"
    /\ \/ lockFile = NoLock /\ Enter(p, "create") /\ UNCHANGED <<reread, judged, untimely>>
       \/ /\ lockFile \in LockFile \ written /\ reread[p] < Rereads
          /\ reread' = [reread EXCEPT ![p] = @ + 1]
          /\ UNCHANGED <<stage, judged, untimely>>
       \/ /\ lockFile \in LockFile \ written /\ reread[p] = Rereads
          /\ IF p \in Forced THEN Enter(p, "aside") ELSE Enter(p, "refused")
          /\ judged' = [judged EXCEPT ![p] = TornLock]
          /\ untimely' = (untimely \/ (p \in Forced /\ stage[lockFile.by] = "write"))
          /\ UNCHANGED reread
       \/ /\ lockFile \in written
          /\ IF p \in Forced /\ Stale(p, lockFile.by) THEN Enter(p, "aside") ELSE Enter(p, "refused")
          /\ judged' = [judged EXCEPT ![p] = lockFile]
          /\ UNCHANGED <<reread, untimely>>
    /\ UNCHANGED <<lockFile, written, run, attempt, aside, crashes>>

(* takeOver: the lock is moved aside, compared with what was judged, and   *)
(* removed or put back.                                                    *)
MoveAside(p) ==
    /\ stage[p] = "aside"
    /\ \/ lockFile = NoLock /\ Enter(p, "create") /\ UNCHANGED <<lockFile, aside>>
       \/ /\ lockFile # NoLock
          /\ aside' = [aside EXCEPT ![p] = lockFile] /\ lockFile' = NoLock
          /\ Enter(p, "compare")
    /\ UNCHANGED <<written, run, attempt, reread, judged, untimely, crashes>>

CompareNothing(p) ==                      \* mutant: whatever was moved is removed
    /\ stage[p] = "compare"
    /\ Enter(p, "discard")
    /\ UNCHANGED <<lockFile, written, run, attempt, reread, judged, aside, untimely, crashes>>

Compare(p) ==
    /\ stage[p] = "compare"
    /\ Enter(p, IF Raw(aside[p]) = judged[p] THEN "discard" ELSE "putback")
    /\ UNCHANGED <<lockFile, written, run, attempt, reread, judged, aside, untimely, crashes>>

PutBack(p) ==
    /\ stage[p] = "putback"
    /\ lockFile' = IF lockFile = NoLock THEN aside[p] ELSE lockFile
    /\ aside' = [aside EXCEPT ![p] = NoLock]
    /\ Enter(p, "create")
    /\ UNCHANGED <<written, run, attempt, reread, judged, untimely, crashes>>

Discard(p) ==
    /\ stage[p] = "discard"
    /\ aside' = [aside EXCEPT ![p] = NoLock]
    /\ Enter(p, "create")
    /\ UNCHANGED <<lockFile, written, run, attempt, reread, judged, untimely, crashes>>

AcquireLock(p) ==
    \/ Enlist(p) \/ Create(p) \/ GiveUp(p) \/ WriteContent(p) \/ Inspect(p)
    \/ MoveAside(p) \/ Compare(p) \/ PutBack(p) \/ Discard(p)
-----------------------------------------------------------------------------
(* SetRunID: the lock is verified, then replaced by one with the run's id. *)
Verified(p) ==
    /\ stage[p] = "held"
    /\ Enter(p, IF Verify(p) THEN "setrun" ELSE "lost")
    /\ UNCHANGED <<lockFile, written, run, attempt, reread, judged, aside, untimely, crashes>>

SetRunID(p) ==
    /\ stage[p] = "setrun"
    /\ lockFile' = [by |-> p, run |-> "run"]
    /\ written' = written \cup {lockFile'}
    /\ run' = [run EXCEPT ![p] = "run"]
    /\ Enter(p, "work")
    /\ UNCHANGED <<attempt, reread, judged, aside, untimely, crashes>>

(* A checkpoint that finds the lock gone or replaced stops the run, and    *)
(* leaves whatever is at the path.                                         *)
LoseLock(p) ==
    /\ stage[p] = "work" /\ ~Verify(p)
    /\ Enter(p, "lost")
    /\ UNCHANGED <<lockFile, written, run, attempt, reread, judged, aside, untimely, crashes>>

(* Release, of a run that ends or of a start that fails: verify, then      *)
(* remove what is at the path.                                             *)
Release(p) ==
    /\ stage[p] \in {"held", "work"}
    /\ Enter(p, IF Verify(p) THEN "release" ELSE "lost")
    /\ UNCHANGED <<lockFile, written, run, attempt, reread, judged, aside, untimely, crashes>>

Unlink(p) ==
    /\ stage[p] = "release"
    /\ lockFile' = NoLock
    /\ Enter(p, IF lockFile = NoLock THEN "failed" ELSE "released")
    /\ UNCHANGED <<written, run, attempt, reread, judged, aside, untimely, crashes>>

(* The process is killed, or ends with exit 5 and keeps its lock.          *)
Crash(p) ==
    /\ stage[p] \in Acquiring \cup Holding /\ crashes < MaxCrashes
    /\ crashes' = crashes + 1
    /\ Enter(p, "dead")
    /\ UNCHANGED <<lockFile, written, run, attempt, reread, judged, aside, untimely>>

Hold(p) == Verified(p) \/ SetRunID(p) \/ LoseLock(p) \/ Release(p) \/ Unlink(p)

Terminated == (\A p \in Contender : stage[p] \in Over) /\ UNCHANGED vars

Next == (\E p \in Contender : AcquireLock(p) \/ Hold(p) \/ Crash(p)) \/ Terminated

Spec == Init /\ [][Next]_vars

(* A process goes on, and checkpoints as long as it works; a run need not  *)
(* end.                                                                    *)
Fairness == \A p \in Contender :
    /\ WF_vars(AcquireLock(p))
    /\ WF_vars(Verified(p) \/ SetRunID(p) \/ Unlink(p))
    /\ WF_vars(LoseLock(p))
-----------------------------------------------------------------------------
(* PROPERTIES *)

Holders == {p \in Contender : stage[p] \in Holding}

(* Two processes never work on the root at the same time.  Every write of  *)
(* a run relies on it, from recovery before the first checkpoint to the    *)
(* fallback of a rename that may not replace (renameNoReplace).            *)
MutualExclusion == Cardinality(Holders) <= 1

(* Release removes the lock of the process that releases.                  *)
ReleasesOwn ==
    [][\A p \in Contender : stage[p] = "release" /\ stage'[p] = "released" => lockFile = Mine(p)]_vars

(* Two takeovers of a stale lock do not end with two holders either, as    *)
(* long as a live creator writes its lock before it is read the last time. *)
TimelyExclusion == ~untimely => MutualExclusion

(* However a lock came to be taken over, all but one of the processes that *)
(* believe they hold it find out at a checkpoint and stop.                 *)
EventuallyOneHolder == <>[]MutualExclusion

(* Every attempt to take the lock is answered: rereads and attempts are    *)
(* bounded, and no sequence of takeovers keeps a process in the loop.      *)
EveryAttemptAnswered == []<>(\A p \in Contender : stage[p] \notin Acquiring)

=============================================================================
