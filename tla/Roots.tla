------------------------------- MODULE Roots -------------------------------
(***************************************************************************)
(* The roots a command is given, checked before anything starts            *)
(* (cli/roots.go), the creation of a missing mirror root behind the lock,  *)
(* and what a command that is repeated after a crash is compared by        *)
(* (cli/session.go, cli/root.go).                                          *)
(*                                                                         *)
(* A path is absolute and clean: a sequence of names from the top.  Links  *)
(* are absolute too.  Meanwhile the tree changes only by the command and   *)
(* by an operator who makes the missing directory first.                   *)
(***************************************************************************)
EXTENDS Integers, Sequences, FiniteSets, SequencesExt, Functions

CONSTANTS
  FileSystems, \* [path -> [kind |-> "dir", "file" or "link", target |-> path]]
  Requests,    \* commands: op, video, catia, value, typed; see PayloadErrors
  Lower        \* [name -> name]: how Windows compares names

VARIABLES
  fs,        \* the tree
  foldCase,  \* whether this is Windows
  request,   \* the command
  roots,     \* what the check made of it
  stage,     \* "new", "accepted", "locked", "running", "dead", "refused" or "failed"
  defining   \* what each process of the command was compared by

rootsVars == <<fs, foldCase, request, roots, stage, defining>>

NotGiven == <<"">>
NoPath   == <<"", "">>
NoRoots  == [archive |-> NoPath, mirror |-> NoPath, payload |-> "", missing |-> FALSE]
Dir      == [kind |-> "dir", target |-> NoPath]
Mirrors  == {"video", "catia"}
-----------------------------------------------------------------------------
Folded(p) == IF foldCase THEN [i \in DOMAIN p |-> Lower[p[i]]] ELSE p

(* The first link on the way is followed, as often as there are links.     *)
OnDisk(p) == {q \in DOMAIN fs : Folded(q) = Folded(p)}
Links == {q \in DOMAIN fs : fs[q].kind = "link"}
Follow(p) ==
  LET met == {q \in Links : IsPrefix(Folded(q), Folded(p))}
      first == CHOOSE q \in met : \A r \in met : Len(q) <= Len(r)
  IN  IF met = {} THEN p ELSE fs[first].target \o SubSeq(p, Len(first) + 1, Len(p))
Followed(p) == FoldLeft(LAMBDA q, n : Follow(q), p, [n \in 1..Cardinality(Links) |-> n])

Kind(p) == LET found == OnDisk(Followed(p))
           IN  IF found = {} THEN "missing" ELSE fs[CHOOSE q \in found : TRUE].kind
EvalSymlinks(p) == CHOOSE q \in OnDisk(Followed(p)) : TRUE
Below(parent, p) == Append(EvalSymlinks(parent), Last(p))
Parent(p) == IF p = <<>> THEN p ELSE Front(p)
-----------------------------------------------------------------------------
(* selectPayload.                                                          *)
SelectPayload(r) == IF ~r.video /\ r.catia THEN "catia" ELSE "video"
PayloadErrors(r) ==
  \/ r.video /\ r.catia
  \/ SelectPayload(r) = "catia" /\ "video" \in r.typed
  \/ SelectPayload(r) = "video" /\ "catia" \in r.typed

(* A root that could be determined, with the path it is compared by.       *)
Refused == [ok |-> FALSE, missing |-> FALSE, real |-> NoPath]
CheckDir(value, allowMissing) ==
  CASE value = NotGiven               -> Refused
    [] value # NotGiven /\ Kind(value) = "dir" ->
         [ok |-> TRUE, missing |-> FALSE, real |-> EvalSymlinks(value)]
    [] value # NotGiven /\ Kind(value) = "missing" /\ allowMissing /\ Kind(Parent(value)) = "dir" ->
         [ok |-> TRUE, missing |-> TRUE, real |-> Below(Parent(value), value)]
    [] OTHER                          -> Refused

(* The mirror root of the other payload need not exist.                    *)
PathOnly(value) ==
  CASE Kind(value) # "missing"         -> EvalSymlinks(value)
    [] Kind(value) = "missing" /\ Kind(Parent(value)) # "missing" -> Below(Parent(value), value)
    [] OTHER                           -> value

Within(parent, child) == parent # child /\ IsPrefix(parent, child)
(* Mutant of CheckApart: only a mirror inside the archive is looked for.   *)
CheckApartOneWay(x, y) == Folded(x) # Folded(y) /\ ~Within(Folded(x), Folded(y))
CheckApart(x, y) ==
  /\ Folded(x) # Folded(y)
  /\ ~Within(Folded(x), Folded(y)) /\ ~Within(Folded(y), Folded(x))

CheckRoots(r) ==
  LET payload == SelectPayload(r)
      archive == CheckDir(r.value["archive"], FALSE)
      mirror == CheckDir(r.value[payload], r.op = "split")
      others == {r.value[m] : m \in Mirrors \ {payload}} \ {NotGiven}
      compared == << {archive.real}, {mirror.real}, {PathOnly(o) : o \in others} >>
  IN  [accepted |->
         IF r.op = "scan" THEN archive.ok
         ELSE /\ ~PayloadErrors(r) /\ archive.ok /\ mirror.ok
              /\ \A i, j \in DOMAIN compared : i < j =>
                   \A x \in compared[i], y \in compared[j] : CheckApart(x, y),
       roots |->
         [archive |-> r.value["archive"],
          mirror  |-> IF r.op = "scan" THEN NoPath ELSE r.value[payload],
          payload |-> IF r.op = "scan" THEN "" ELSE payload,
          missing |-> r.op = "split" /\ mirror.missing]]

(* definingCommon, with what split adds: not whether the root is missing.  *)
Defining(op, c) == <<op, c.archive, c.payload, c.mirror>>
-----------------------------------------------------------------------------
RootsStart == roots = NoRoots /\ stage = "new" /\ defining = <<>>
RootsInit == RootsStart /\ fs \in FileSystems /\ foldCase \in BOOLEAN /\ request \in Requests
RootsIdle == stage = "ended" /\ roots = NoRoots /\ defining = <<>> /\ fs = <<>> /\ foldCase = FALSE
             /\ request = <<>>

(* A process checks its roots, the first one or the one after a crash.     *)
Check ==
  /\ stage \in {"new", "dead"}
  /\ LET c == CheckRoots(request)
     IN  /\ stage' = IF c.accepted THEN "accepted" ELSE "refused"
         /\ roots' = c.roots
         /\ defining' = IF c.accepted THEN Append(defining, Defining(request.op, c.roots)) ELSE defining
  /\ UNCHANGED <<fs, foldCase, request>>

(* lockRoots: the archive is locked, then the mirror root is made and      *)
(* locked, which fails for a link that leads nowhere.                      *)
LockArchive ==
  /\ stage = "accepted" /\ stage' = "locked"
  /\ UNCHANGED <<fs, foldCase, request, roots, defining>>
CreateMirrorRoot ==
  /\ stage = "locked"
  /\ LET real == Below(Parent(roots.mirror), roots.mirror)
         create == roots.missing /\ OnDisk(real) = {}
     IN  /\ fs' = IF create THEN (real :> Dir) @@ fs ELSE fs
         /\ stage' = IF create \/ roots.mirror = NoPath \/ Kind(roots.mirror) = "dir" THEN "running"
                     ELSE "failed"
  /\ UNCHANGED <<foldCase, request, roots, defining>>

(* The process dies; an operator makes the root that was missing.          *)
Killed ==
  /\ stage \in {"locked", "running"} /\ Len(defining) = 1
  /\ stage' = "dead"
  /\ UNCHANGED <<fs, foldCase, request, roots, defining>>
OperatorCreates ==
  /\ stage \in {"accepted", "locked", "dead"} /\ roots.missing
  /\ LET real == Below(Parent(roots.mirror), roots.mirror)
     IN  OnDisk(real) = {} /\ fs' = (real :> Dir) @@ fs
  /\ UNCHANGED <<foldCase, request, roots, stage, defining>>

RootsNext == Check \/ LockArchive \/ CreateMirrorRoot \/ Killed \/ OperatorCreates
-----------------------------------------------------------------------------
(* Directories of the tree and what they hold.                             *)
Holds(d, e) == \E n \in 0..Len(e) : OnDisk(d) = OnDisk(SubSeq(e, 1, n))
Overlap(p, q) == Holds(EvalSymlinks(p), EvalSymlinks(q)) \/ Holds(EvalSymlinks(q), EvalSymlinks(p))
Value(root) == request.value[root]
Needed == {"archive"} \cup
          IF request.op = "scan" THEN {} ELSE {IF request.catia THEN "catia" ELSE "video"}
Others == IF request.op = "scan" THEN {}
          ELSE {m \in Mirrors \ Needed : Value(m) # NotGiven /\ Kind(Value(m)) # "missing"}

(* Whatever links and spellings the roots are reached by: a run that       *)
(* starts works in directories that exist, of which none is or holds       *)
(* another, or the mirror of the other payload, and takes no root for a    *)
(* payload it was not typed for.  A command that was accepted, and perhaps *)
(* made its mirror root and died, is accepted again as the same command.   *)
(* (A link to nothing must not be given for the root that is made by       *)
(* another name: the check cannot see that both will be the same.)         *)
RootsApart ==
  /\ stage = "running" =>
       /\ \A p \in Needed : Kind(Value(p)) = "dir"
       /\ \A p \in Needed, q \in Needed \cup Others : p # q => ~Overlap(Value(p), Value(q))
       /\ request.op # "scan" => request.typed \subseteq {roots.payload}
  /\ \A i, j \in DOMAIN defining : defining[i] = defining[j]
  /\ stage = "refused" => defining = <<>>
=============================================================================
