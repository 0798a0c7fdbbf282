----------------------------- MODULE Preflight -----------------------------
(***************************************************************************)
(* The free-space check before the first change of a run                   *)
(* (archive/preflight.go, preflight_run.go) and what the run then does to  *)
(* the free space of its devices: files are staged on the destination's    *)
(* device, sources go one by one, a rename that turns out to cross devices *)
(* makes the run check again, and registries are rewritten beside the ones *)
(* they replace.  Amounts are in units of 128 bytes,                       *)
(* the greatest common divisor of the estimates with room for half a row;  *)
(* the integers saturate at MaxInt.                                        *)
(*                                                                         *)
(* Nobody else writes to the devices, and two devices share no space.      *)
(***************************************************************************)
EXTENDS Integers, Sequences, FiniteSets, SequencesExt

CONSTANTS
  MaxInt,       \* stands for math.MaxInt64
  Orders,       \* what may be asked: records of op, transfer, ...
  Spaces,       \* the free space of a device at the start
  MaxRestarts   \* how often the process dies

VARIABLES
  order,     \* the command, the candidates and where the roots are
  room,      \* [device -> space that is free]
  step,      \* where the run is
  left,      \* candidates without a commit
  owed,      \* candidates without their preview or text sidecar
  moving,    \* the candidate that is moved
  copies,    \* the run copies: --transfer copy or a fallback
  rewritten, \* registries that were placed
  partSize,  \* size of the part file of the next one
  reviving,  \* recovery is finishing the transaction of a process that died
  restarts

registries == <<rewritten, partSize>>
preflightVars == <<order, room, step, left, owed, moving, copies, registries, reviving, restarts>>

RegistryRowBytes        == 2
MediaMetadataBytes      == 4
DescriptionBytes        == 32
PayloadRegistryRowBytes == 8
WalBytes                == 16

Device == {1, 2}

(* op: scan, split or restore; transfer: auto or copy; files: the size of  *)
(* each candidate; taken: the size of the other file at its destination    *)
(* that a restore with --overwrite replaces, 0 where there is none; extra: *)
(* bytes of the sidecar of one; earlier: size of the file registry that is *)
(* there; history: size of the payload registry that is there; at: [role   *)
(* -> device]; said: the device of the mirror that SameDevice reports,     *)
(* stale when it is not at.mirror; home: the device the candidates lie on, *)
(* not that of their root when another one is mounted below it; known: the *)
(* devices that report a total size.                                       *)
-----------------------------------------------------------------------------
NonNeg(n) == IF n < 0 THEN 0 ELSE n
CapInt(n) == IF n > MaxInt THEN MaxInt ELSE n
AddWrap(a, b) == IF a + b > MaxInt THEN a + b - 2 * (MaxInt + 1) ELSE a + b  \* mutant of AddSat
AddSat(a, b) == IF b > 0 /\ a > MaxInt - b THEN MaxInt ELSE a + b
MulSat(n, unit) == IF n > 0 /\ n > MaxInt \div unit THEN MaxInt ELSE n * unit
SumSat(s) == FoldLeft(AddSat, 0, s)

(* ProbeDevices: the roles in order, each with the first device that is    *)
(* the same; the space of a device is read once, for its first role.       *)
Joined(devices, role, same) ==
  LET hits == {i \in DOMAIN devices : <<devices[i].path, role>> \in same}
  IN  IF hits = {}
        THEN Append(devices, [roles |-> {role}, path |-> role, avail |-> room[order.at[role]],
                              known |-> order.at[role] \in order.known])
        ELSE LET first == CHOOSE i \in hits : \A j \in hits : i <= j
             IN  [devices EXCEPT ![first].roles = @ \cup {role}]
ProbeDevices(roles, same) ==
  FoldLeft(LAMBDA devices, role : Joined(devices, role, same), <<>>, roles)

(* The roles on one device, by the numbers SameDevice compares, and by     *)
(* forcedOtherDevice.                                                      *)
Said(role) == IF role = "mirror" THEN order.said ELSE order.at[role]
Role == {"archive", "mirror", "registry"}
SameDevice == {roles \in Role \X Role : Said(roles[1]) = Said(roles[2])}
OtherDevice == {}

Index(info, role) ==
  LET hits == {i \in DOMAIN info : role \in info[i].roles}
  IN  IF hits = {} THEN 0 ELSE CHOOSE i \in hits : TRUE

(* Plan: what the remaining work c needs, by role.                         *)
Need(role, bytes) == [role |-> role, bytes |-> bytes]
ScanNeeds(c, info) ==
  LET role == IF Index(info, "registry") = 0 THEN "archive" ELSE "registry"
  IN  <<Need(role, MulSat(c.count, RegistryRowBytes))>>
      \o (IF order.media THEN <<Need(role, MulSat(NonNeg(c.mediaRows), MediaMetadataBytes))>> ELSE <<>>)
SplitNeeds(c, shared, copying) ==
  <<Need("archive", MulSat(c.count, DescriptionBytes)),
    Need("archive", MulSat(c.count, PayloadRegistryRowBytes)),
    Need("mirror", MulSat(c.count, PayloadRegistryRowBytes)),
    Need("archive", MulSat(c.count, WalBytes)),
    Need("archive", NonNeg(c.extra))>>
  \o (CASE ~shared            -> <<Need("mirror", c.bytes)>>
        [] shared /\ copying  -> <<Need("mirror", c.largest)>>  \* sources go one by one
        [] shared /\ ~copying -> <<>>)
RestoreNeeds(c, shared, copying) ==
  <<Need("archive", MulSat(c.count, WalBytes))>>
  \o (IF ~shared \/ copying THEN <<Need("archive", c.bytes)>> ELSE <<>>)
NeedsOf(c, info, copying) ==
  LET shared == Index(info, "archive") # 0 /\ Index(info, "archive") = Index(info, "mirror")
  IN  CASE order.op = "scan"    -> ScanNeeds(c, info)
        [] order.op = "split"   -> SplitNeeds(c, shared, copying)
        [] order.op = "restore" -> RestoreNeeds(c, shared, copying)

(* The shortfall of one device; its needs are merged by name for the       *)
(* report, which changes no sum.                                           *)
Required(info, i, needs) ==
  SumSat([n \in DOMAIN needs |-> IF Index(info, needs[n].role) = i THEN needs[n].bytes ELSE 0])
Written(info, i, needs) == \E n \in DOMAIN needs : Index(info, needs[n].role) = i
Shortfall(info, i, needs) ==
  IF Written(info, i, needs) /\ info[i].known
    THEN NonNeg(AddSat(Required(info, i, needs), NonNeg(order.minFree)) - CapInt(info[i].avail))
    ELSE 0
Sufficient(info, needs) == \A i \in DOMAIN info : Shortfall(info, i, needs) = 0

(* countRemaining; the sidecars still to be written; scanEstimate.         *)
CountRemaining(files) ==
  LET sizes == SelectSeq([f \in DOMAIN order.files |-> IF f \in files THEN order.files[f] ELSE 0],
                         LAMBDA n : n > 0)
  IN  [count |-> Cardinality(files), bytes |-> SumSat(sizes),
       largest |-> FoldLeft(LAMBDA a, b : IF b > a THEN b ELSE a, 0, sizes),
       extra |-> 0, mediaRows |-> 0]
WithSidecars(c) == [c EXCEPT !.extra = Cardinality(owed) * order.extra]
ScanEstimate ==
  [count |-> (order.earlier + RegistryRowBytes - 1) \div RegistryRowBytes, mediaRows |-> 0]

Roles == IF order.op = "scan" THEN <<"archive", "registry">> ELSE <<"archive", "mirror">>
Admits(c, copying, same) ==
  LET info == ProbeDevices(Roles, same) IN Sufficient(info, NeedsOf(c, info, copying))
-----------------------------------------------------------------------------
(* Session.Preflight, before anything is changed and again by every        *)
(* process that resumes the run, for what is left.                         *)
Check ==
  /\ step = "check"
  /\ copies' = (order.transfer = "copy")
  /\ LET c == IF order.op = "scan" THEN ScanEstimate ELSE WithSidecars(CountRemaining(left))
     IN  step' = CASE ~Admits(c, copies', SameDevice) -> "refused"
                   [] order.op = "scan"               -> "rewrite"
                   [] OTHER                           -> "pick"
  /\ UNCHANGED <<order, room, left, owed, moving, registries, reviving, restarts>>

Spend(bytes) == room' = [d \in Device |-> room[d] - bytes[d]]
On(role, n) == [d \in Device |-> IF d = order.at[role] THEN n ELSE 0]
Both(b1, b2) == [d \in Device |-> b1[d] + b2[d]]

Pick ==
  /\ step = "pick"
  /\ \/ left # {} /\ moving' \in left /\ step' = "place"
     \/ left = {} /\ owed = {} /\ step' = "rewrite" /\ UNCHANGED moving
     \/ left = {} /\ order.op = "restore" /\ step' = "done" /\ UNCHANGED moving  \* no --registry-update
  /\ UNCHANGED <<order, room, left, owed, copies, registries, reviving, restarts>>

(* transferMode; a destination that is replaced is always copied to.       *)
Copying == copies \/ <<"archive", "mirror">> \notin SameDevice
Copied == Copying \/ order.taken[moving] > 0
To == IF order.op = "split" THEN "mirror" ELSE "archive"

Rename ==
  /\ step = "place" /\ ~Copied /\ order.home = order.at[To]
  /\ step' = "describe"
  /\ UNCHANGED <<order, room, left, owed, moving, copies, registries, reviving, restarts>>
StageCopy ==
  /\ step = "place" /\ Copied
  /\ Spend(On(To, order.files[moving])) /\ step' = "staged"
  /\ UNCHANGED <<order, left, owed, moving, copies, registries, reviving, restarts>>
Place ==
  /\ step = "staged" /\ step' = "describe"
  /\ Spend(On(To, -order.taken[moving]))
  /\ UNCHANGED <<order, left, owed, moving, copies, registries, reviving, restarts>>

(* placeFailed with EXDEV: every file that is left is a copy from now on,  *)
(* between devices that are taken for different ones; the sidecars, which  *)
(* the first check let through, are not counted again.                     *)
CrossDevice ==
  /\ step = "place" /\ ~Copied /\ order.home # order.at[To]
  /\ copies' = TRUE
  /\ step' = IF Admits(CountRemaining(left), TRUE, OtherDevice) THEN "place" ELSE "refused"
  /\ UNCHANGED <<order, room, left, owed, moving, registries, reviving, restarts>>

Describe ==
  /\ step = "describe" /\ step' = "retire"
  /\ Spend(On("archive", IF order.op = "split" THEN DescriptionBytes ELSE 0))
  /\ UNCHANGED <<order, left, owed, moving, copies, registries, reviving, restarts>>

(* The source of a copy goes, unless restore keeps it (--transfer copy);   *)
(* the log has all records of the transaction.                             *)
Keeps == ~Copied \/ (order.op = "restore" /\ order.transfer = "copy")
Freed == [d \in Device |-> IF d = order.home /\ ~Keeps THEN -order.files[moving] ELSE 0]
Retire ==
  /\ step = "retire" /\ left' = left \ {moving}
  /\ Spend(Both(On("archive", WalBytes), Freed))
  /\ step' = IF reviving THEN "check" ELSE "pick"
  /\ reviving' = FALSE
  /\ UNCHANGED <<order, owed, moving, copies, registries, restarts>>

(* The worker writes the sidecar of a committed file.                      *)
WriteSidecar ==
  /\ step \in {"pick", "place", "staged", "describe", "retire"} /\ ~reviving
  /\ \E f \in owed \ left : owed' = owed \ {f}
  /\ Spend(On("archive", order.extra))
  /\ UNCHANGED <<order, step, left, moving, copies, registries, reviving, restarts>>

(* The registries a run writes in full beside what is there: a scan the    *)
(* file registry, here of a tree that has not grown; a split or a restore  *)
(* both copies of the payload registry, with the rows of earlier runs, and *)
(* the file registry for its locations.                                    *)
Registry(role, old, new) == [role |-> role, old |-> old, new |-> new]
Rewrites ==
  LET rows == IF order.op = "split" THEN Len(order.files) * PayloadRegistryRowBytes ELSE 0
      file == Registry("registry", order.earlier, order.earlier)
  IN  IF order.op = "scan" THEN <<file>>
      ELSE <<Registry("archive", order.history, order.history + rows),
             Registry("mirror", order.history, order.history + rows), file>>

WriteRegistry ==
  /\ step = "rewrite" /\ rewritten < Len(Rewrites)
  /\ LET r == Rewrites[rewritten + 1] IN Spend(On(r.role, r.new - partSize)) /\ partSize' = r.new
  /\ step' = "swap"
  /\ UNCHANGED <<order, left, owed, moving, copies, rewritten, reviving, restarts>>
PlaceRegistry ==
  /\ step = "swap" /\ step' = "rewrite"
  /\ LET r == Rewrites[rewritten + 1] IN Spend(On(r.role, -r.old))
  /\ rewritten' = rewritten + 1 /\ partSize' = 0
  /\ UNCHANGED <<order, left, owed, moving, copies, reviving, restarts>>
RegistriesWritten ==
  /\ step = "rewrite" /\ rewritten = Len(Rewrites) /\ step' = "done"
  /\ UNCHANGED <<order, room, left, owed, moving, copies, registries, reviving, restarts>>

(* The process dies; the next one removes what is staged, finishes what is *)
(* placed, and checks again.  The part file of a registry stays.           *)
Dies ==
  /\ step \in {"pick", "place", "staged", "describe", "retire", "rewrite", "swap"} /\ ~reviving
  /\ restarts < MaxRestarts /\ restarts' = restarts + 1
  /\ reviving' = (step \in {"describe", "retire"})
  /\ step' = IF step \in {"describe", "retire"} THEN step ELSE "check"
  /\ IF step = "staged" THEN Spend(On(To, -order.files[moving])) ELSE UNCHANGED room
  /\ UNCHANGED <<order, left, owed, moving, copies, registries>>

PreflightOver == step \in {"done", "refused"} /\ UNCHANGED preflightVars

PreflightAt(where) ==
  /\ step = where /\ left = DOMAIN order.files
  /\ owed = (IF order.op = "split" /\ order.extra > 0 THEN left ELSE {})
  /\ moving = 0 /\ copies = FALSE /\ rewritten = 0 /\ partSize = 0 /\ reviving = FALSE /\ restarts = 0
PreflightInit == order \in Orders /\ PreflightAt("check") /\ room \in [Device -> Spaces]
PreflightIdle ==
  order = (CHOOSE o \in Orders : TRUE) /\ PreflightAt("idle") /\ room = [d \in Device |-> 0]
PreflightNext ==
  \/ Check \/ Pick \/ Rename \/ StageCopy \/ Place \/ CrossDevice \/ Describe \/ Retire
  \/ WriteSidecar \/ WriteRegistry \/ PlaceRegistry \/ RegistriesWritten \/ Dies \/ PreflightOver

-----------------------------------------------------------------------------
(* What the check leaves out.  A registry of a split or restore stands     *)
(* twice while it is replaced, and so does, on one device, a file that     *)
(* replaces another under --overwrite, until its source goes.              *)
Twice(d) ==
  (IF partSize > 0 /\ order.op # "scan" /\ d = order.at[Rewrites[rewritten + 1].role]
     THEN Rewrites[rewritten + 1].old ELSE 0)
  + (IF step \in {"staged", "describe", "retire"} /\ Copied /\ ~Copying /\ d = order.home
       THEN order.files[moving] ELSE 0)
Spare(d) == room[d] + Twice(d)

(* A copy under --overwrite crosses to another device that was taken for   *)
(* the same one: nothing checks again.  A rename from a mount below the    *)
(* archive fails although both roots are on one device: forcedOtherDevice  *)
(* counts its free space for each root.                                    *)
TakenForSame == order.transfer = "auto" /\ order.home # order.at[To] /\ <<"archive", "mirror">> \in SameDevice
CrossesUnseen == TakenForSame /\ \E f \in DOMAIN order.taken : order.taken[f] > 0
PoolCountedTwice == TakenForSame /\ order.op = "split" /\ order.at["archive"] = order.at["mirror"]

(* What a run was let through for fits: nothing it writes, renamed, copied *)
(* after a rename failed or written behind a crash, leaves a device whose  *)
(* free space is known with less than --min-free, once what stands twice   *)
(* stands once.                                                            *)
SpaceSuffices ==
  [][~CrossesUnseen /\ ~PoolCountedTwice =>
       \A d \in Device \cap order.known :
         Spare(d)' < Spare(d) => Spare(d)' >= order.minFree]_preflightVars
=============================================================================
