------------------------------ MODULE MCParts ------------------------------
(***************************************************************************)
(* Bounds for the parts whose interleavings end within them: the copy      *)
(* loop, the log file, the session, the free-space check and the run lock. *)
(* A behaviour is one of one part; the others stay idle.                   *)
(*                                                                         *)
(* The run lock has two contests.  Plain: a and b of this host and r of    *)
(* another one, none with --force-unlock, and old, which died and whose    *)
(* pid is a's now.  Forcing: a and b take over the complete lock that old  *)
(* left.                                                                   *)
(***************************************************************************)
EXTENDS CopyLoop, WalFile, Session, Preflight, RunLock

VARIABLES lockF, writtenF, stageF, runF, attemptF, rereadF, judgedF, asideF, untimelyF, crashesF

varsF == <<lockF, writtenF, stageF, runF, attemptF, rereadF, judgedF, asideF, untimelyF, crashesF>>
contestVars == <<vars, varsF>>
PartVars == <<copyVars, walVars, sessionVars, preflightVars, contestVars>>

MCContender == {"a", "b", "r", "old"}
MCPid  == [p \in Contender |-> CASE p \in {"a", "old"} -> 1 [] p = "b" -> 2 [] p = "r" -> 3]
MCHost == [p \in Contender |-> IF p = "r" THEN "there" ELSE "here"]

Rivals == {"a", "b", "old"}
RivalPid  == [p \in Rivals |-> CASE p = "a" -> 1 [] p = "b" -> 2 [] p = "old" -> 9]
RivalHost == [p \in Rivals |-> "here"]

Forcing == INSTANCE RunLock WITH
  Contender <- Rivals, Pid <- RivalPid, Host <- RivalHost, Forced <- {"a", "b"}, Attempts <- 5, MaxCrashes <- 1,
  lockFile <- lockF, written <- writtenF, stage <- stageF, run <- runF, attempt <- attemptF, reread <- rereadF,
  judged <- judgedF, aside <- asideF, untimely <- untimelyF, crashes <- crashesF

(* Two video roots, a CATIA root and a scan.  The first process replaces   *)
(* the earlier run or is refused; the second resumes one, meets another    *)
(* payload's run, the locks of either, or only looks (a dry run).          *)
Kind(kind, root) == [kind |-> kind, root |-> root]
Command(op, payload, newRun, dryRun, force) ==
  [op |-> op, payload |-> payload, newRun |-> newRun, dryRun |-> dryRun, force |-> force]
MCNoPayload == Kind("", "")
Split == Command("split", Kind("video", "v1"), FALSE, FALSE, TRUE)
Again == Command("split", Kind("video", "v1"), TRUE, FALSE, TRUE)
Other == Command("split", Kind("video", "v2"), TRUE, FALSE, TRUE)
Restore == Command("restore", Kind("catia", "c1"), FALSE, FALSE, TRUE)
Scanning == Command("scan", MCNoPayload, FALSE, FALSE, FALSE)
Looking == Command("split", Kind("video", "v1"), FALSE, TRUE, FALSE)
MCOffered == (0 :> {Split, Restore}) @@ (1 :> {Again, Other, Scanning}) @@ (2 :> {Restore, Looking})

(* No mirror root exists, or two of the three do.                          *)
MCSessionInit ==
  /\ SessionInit
  /\ \/ /\ available = {"v1", "c1"}
        /\ current # None => runs[Earlier].open \/ runs[Earlier].cmd = Split
     \/ /\ available = {}
        /\ \/ current = None
           \/ /\ runs[Earlier].open /\ runs[Earlier].cmd.payload.kind = "catia"
              /\ lock[ArchiveRoot] = None

(* The roots are on one device, on two, or on two that SameDevice takes    *)
(* for one until a rename fails; the candidates lie where their root is,   *)
(* or on the other device, mounted below it.                               *)
Order(op, transfer, files, taken, extra, at, said, home, known, min) ==
  [op |-> op, transfer |-> transfer, media |-> FALSE, files |-> files, taken |-> taken, extra |-> extra,
   earlier |-> 5, history |-> 16, minFree |-> min, home |-> home,
   at |-> [archive |-> 1, mirror |-> at, registry |-> at], said |-> said, known |-> known]
MCOrders ==
  LET all == {Order(op, transfer, files, taken, extra, at, said, home, known, min) :
                op \in {"scan", "split", "restore"}, transfer \in {"auto", "copy"},
                files \in {<<20, 60>>, <<60, 240>>}, taken \in {<<0, 0>>, <<30, 0>>}, extra \in {0, 9},
                at \in Device, said \in Device, home \in Device, known \in {{1, 2}, {1}}, min \in {0, 7}}
      root(o) == IF o.op = "restore" THEN o.at["mirror"] ELSE 1
  IN  {o \in all : /\ o.said # o.at["mirror"] => o.said = 1 /\ o.transfer = "auto" /\ o.home = root(o)
                   /\ o.home # root(o) => o.transfer = "auto"
                   /\ o.op # "split" => o.extra = 0
                   /\ o.op # "restore" => o.taken = <<0, 0>>
                   /\ o.minFree = 0 => o.said = o.at["mirror"] /\ o.home = root(o) /\ o.taken = <<0, 0>>
                   /\ o.known = {1} => o.at["mirror"] = 2 /\ o.minFree = 7
                   /\ o.op = "scan" => /\ o.transfer = "auto" /\ o.said = o.at["mirror"] /\ o.home = 1
                                       /\ Len(o.files) = 2 /\ o.files[1] = 20}

(* A device that no root and no candidate is on stays as it is.            *)
MCPreflightInit ==
  /\ PreflightInit
  /\ \A d \in Device \ {order.at["archive"], order.at["mirror"], order.home} : room[d] = 1000

(* In an idle contest everybody is dead.                                   *)
PlainIdle ==
  /\ lockFile = NoLock /\ written = {} /\ stage = [p \in Contender |-> "dead"] /\ run = <<>>
  /\ attempt = <<>> /\ reread = <<>> /\ judged = <<>> /\ aside = <<>> /\ untimely = FALSE /\ crashes = 0
ForcingIdle ==
  /\ lockF = NoLock /\ writtenF = {} /\ stageF = [p \in Rivals |-> "dead"] /\ runF = <<>>
  /\ attemptF = <<>> /\ rereadF = <<>> /\ judgedF = <<>> /\ asideF = <<>> /\ untimelyF = FALSE /\ crashesF = 0
ContestsIdle == PlainIdle /\ ForcingIdle
PlainContest == Init /\ ForcingIdle
ForcingContest == PlainIdle /\ Forcing!Init /\ lockF # NoLock /\ lockF \in writtenF

PartsInit ==
  \/ CopyInit /\ WalIdle /\ SessionIdle /\ PreflightIdle /\ ContestsIdle
  \/ CopyIdle /\ WalInit /\ SessionIdle /\ PreflightIdle /\ ContestsIdle
  \/ CopyIdle /\ WalIdle /\ MCSessionInit /\ PreflightIdle /\ ContestsIdle
  \/ CopyIdle /\ WalIdle /\ SessionIdle /\ MCPreflightInit /\ ContestsIdle
  \/ CopyIdle /\ WalIdle /\ SessionIdle /\ PreflightIdle /\ (PlainContest \/ ForcingContest)
PartsNext ==
  \/ CopyNext /\ UNCHANGED <<walVars, sessionVars, preflightVars, contestVars>>
  \/ WalNext /\ UNCHANGED <<copyVars, sessionVars, preflightVars, contestVars>>
  \/ SessionNext /\ UNCHANGED <<copyVars, walVars, preflightVars, contestVars>>
  \/ PreflightNext /\ UNCHANGED <<copyVars, walVars, sessionVars, contestVars>>
  \/ Next /\ UNCHANGED <<copyVars, walVars, sessionVars, preflightVars, varsF>>
  \/ Forcing!Next /\ UNCHANGED <<copyVars, walVars, sessionVars, preflightVars, vars>>
PartsSpec ==
  PartsInit /\ [][PartsNext]_PartVars /\ CopyFairness /\ SessionFairness /\ Fairness /\ Forcing!Fairness

(* The log alone, and the session alone, for what their documentation says *)
(* of them.                                                                *)
LogSpec == CopyIdle /\ WalInit /\ SessionIdle /\ PreflightIdle /\ ContestsIdle /\ [][PartsNext]_PartVars
RunSpec == CopyIdle /\ WalIdle /\ MCSessionInit /\ PreflightIdle /\ ContestsIdle /\ [][PartsNext]_PartVars
-----------------------------------------------------------------------------
(* PROPERTIES of the contest with --force-unlock.                          *)

(* Two takeovers of a stale lock (takeOver) leave one holder, as long as   *)
(* a live creator writes its lock before it is read the last time.         *)
TimelyTakeovers == Forcing!TimelyExclusion

(* However the lock came to be taken over, all but one of the processes    *)
(* that believe they hold it find out at a checkpoint (Lock.Verify).       *)
OneHolderLeft == Forcing!EventuallyOneHolder
=============================================================================
