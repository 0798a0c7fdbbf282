-------------------------------- MODULE Walk --------------------------------
(***************************************************************************)
(* Walking a root in walk order and resuming after a cursor                *)
(* (scanner/order.go, walker.go).  filepath.WalkDir is external: it visits *)
(* a directory before its contents, names in order, leaves out the         *)
(* contents of a directory that visit skips, and visits a directory again  *)
(* when it could not be listed completely.  Entries that it cannot see     *)
(* then are lost to this walk.                                             *)
(*                                                                         *)
(* The tree stays the same between the walks; which directories cannot be  *)
(* listed does not.  What was delivered up to the last checkpoint is kept, *)
(* the rest is delivered again.                                            *)
(***************************************************************************)
EXTENDS Integers, Sequences, FiniteSets, SequencesExt

CONSTANTS
  Trees,      \* [key -> "dir", "file" or "special"]; a key is a sequence of names
  Exclusions, \* records of globs, skip, reserved, part: see excluded
  MaxWalks    \* processes that walk

(* Names are numbers in their order.  What lies in a tree lies in its      *)
(* directories.                                                            *)
ASSUME TreeAssumption ==
  \A t \in Trees :
    /\ IsFiniteSet(DOMAIN t) /\ t \in [DOMAIN t -> {"dir", "file", "special"}]
    /\ \A k \in DOMAIN t :
         /\ k \in Seq(Nat) /\ Len(k) > 0
         /\ \A n \in 1..(Len(k) - 1) : SubSeq(k, 1, n) \in DOMAIN t /\ t[SubSeq(k, 1, n)] = "dir"
ASSUME GlobAssumption ==
  \A x \in Exclusions : x.globs \subseteq Seq([any : BOOLEAN, names : SUBSET Nat])

VARIABLES
  tree, exclusion,
  cursor,     \* key to resume after; <<>> at the start
  unlistable, \* directories that cannot be listed now
  lost,       \* their entries that this walk cannot see
  reached,    \* the entry visited last
  due,        \* its listing is due
  pruned,     \* directories that were skipped
  pending,    \* the directory held back until it is listed
  delivered,  \* <<key, unreadable>> in order, over all processes
  blind,      \* directories that could not be listed when they were the cursor
  saved,      \* how many of these the checkpoint covers
  walks,      \* processes so far
  over

walkOrderVars == <<tree, exclusion, cursor, unlistable, lost, reached, due, pruned, pending,
                   delivered, blind, saved, walks, over>>

Root == <<>>
Sub == [any |-> TRUE, names |-> {}]   \* the pattern segment "**"
-----------------------------------------------------------------------------
(* The order of keys.                                                      *)
Compare(a, b) ==
  LET common == 1..(IF Len(a) < Len(b) THEN Len(a) ELSE Len(b))
      differ == {i \in common : a[i] # b[i]}
      first == CHOOSE i \in differ : \A j \in differ : i <= j
  IN  CASE differ # {} -> IF a[first] < b[first] THEN -1 ELSE 1
        [] OTHER       -> CASE Len(a) < Len(b) -> -1 [] Len(a) = Len(b) -> 0 [] OTHER -> 1

(* p is k or a directory above it.                                         *)
Leads(p, k) == Len(p) <= Len(k) /\ \A i \in DOMAIN p : p[i] = k[i]

(* Mutant of Against: every directory up to the cursor is pruned.          *)
AgainstPruning(k, dir) == IF cursor = Root \/ Compare(k, cursor) > 0 THEN "visit" ELSE "skip"
Against(k, dir) ==
  CASE cursor = Root \/ Compare(k, cursor) > 0 -> "visit"
    [] dir /\ Leads(k, cursor)                 -> "descend"
    [] OTHER                                   -> "skip"

(* Glob.Match: one star is remembered and grows when the rest fails.       *)
TryAt(pi, ki, star, mark) == [pi |-> pi, ki |-> ki, star |-> star, mark |-> mark, failed |-> FALSE]
MatchBegun == TryAt(1, 1, 0, 1)
MatchStep(p, k, s) ==
  LET ended == s.failed \/ s.ki > Len(k)
      star == s.pi <= Len(p) /\ p[s.pi].any
      name == s.pi <= Len(p) /\ ~p[s.pi].any /\ k[s.ki] \in p[s.pi].names
  IN  CASE ended          -> s
        [] ~ended /\ star -> TryAt(s.pi + 1, s.ki, s.pi, s.ki)
        [] ~ended /\ name -> TryAt(s.pi + 1, s.ki + 1, s.star, s.mark)
        [] OTHER          -> IF s.star > 0 THEN TryAt(s.star + 1, s.mark + 1, s.star, s.mark + 1)
                                           ELSE [s EXCEPT !.failed = TRUE]
Matching(p, k) ==
  LET steps == (Len(p) + 1) * (Len(k) + 1)
      run[n \in 0..steps] == IF n = 0 THEN MatchBegun ELSE MatchStep(p, k, run[n - 1])
      ended == run[steps]
  IN  ~ended.failed /\ \A i \in ended.pi..Len(p) : p[i].any

(* Names that arxgo owns below a root, and its part files at any depth.    *)
ReservedName(name) == name \in exclusion.reserved
IsPartFile(k) == Last(k) \in exclusion.part

(* walker.excluded.                                                        *)
Excluded(k) ==
  \/ Len(k) = 1 /\ ReservedName(k[1])
  \/ IsPartFile(k)
  \/ k \in exclusion.skip
  \/ \E g \in exclusion.globs : Matching(g, k)
-----------------------------------------------------------------------------
(* WalkDir.                                                                *)
Before(a, b) ==  \* the order in which it visits entries
  \/ Leads(a, b) /\ a # b
  \/ \E i \in DOMAIN a \cap DOMAIN b : a[i] < b[i] /\ \A j \in 1..(i - 1) : a[j] = b[j]
Hidden(k) == \E d \in lost \cup pruned : Leads(d, k) /\ (d \in lost \/ d # k)
Ahead == {k \in DOMAIN tree : Before(reached, k) /\ ~Hidden(k)}
Upcoming == CHOOSE k \in Ahead : \A x \in Ahead : x = k \/ Before(k, x)

Under(d) == {k \in DOMAIN tree : Len(k) = Len(d) + 1 /\ Leads(d, k)}
Directories == {k \in DOMAIN tree : tree[k] = "dir"}

(* A new process: at most one directory cannot be listed; all or some of   *)
(* its entries are lost.                                                   *)
StartAt(key) ==
  /\ cursor' = key
  /\ \E u \in {{}} \cup {{d} : d \in Directories} :
       unlistable' = u /\ lost' \in SUBSET UNION {Under(d) : d \in u}
  /\ reached' = Root /\ due' = FALSE /\ pruned' = {} /\ pending' = Root
-----------------------------------------------------------------------------
WalkStart ==
  /\ cursor = Root /\ reached = Root /\ due = FALSE /\ pruned = {} /\ pending = Root
  /\ unlistable = {} /\ lost = {} /\ delivered = <<>> /\ blind = {} /\ saved = 0 /\ walks = 0
WalkOrderInit == WalkStart /\ tree \in Trees /\ exclusion \in Exclusions /\ over = FALSE
WalkOrderIdle == WalkStart /\ tree = <<>> /\ exclusion = <<>> /\ over = TRUE

Delivered(log, k, unreadable) == Append(log, [key |-> k, err |-> unreadable])
(* flush: the directory held back was listed.                              *)
Flushed == IF pending = Root THEN delivered ELSE Delivered(delivered, pending, FALSE)

Walking == walks > 0 /\ ~over

(* visit for an entry.                                                     *)
VisitEntry ==
  /\ Walking /\ ~due /\ Ahead # {}
  /\ LET k == Upcoming
         dir == tree[k] = "dir"
         action == IF Excluded(k) THEN "skip" ELSE Against(k, dir)
     IN  /\ reached' = k
         /\ due' = (dir /\ action # "skip")
         /\ pruned' = IF dir /\ action = "skip" THEN pruned \cup {k} ELSE pruned
         /\ pending' = IF dir /\ action = "visit" THEN k ELSE Root
         /\ delivered' = IF ~dir /\ action = "visit" THEN Delivered(Flushed, k, FALSE) ELSE Flushed
  /\ UNCHANGED <<tree, exclusion, cursor, unlistable, lost, blind, saved, walks, over>>

Listed ==
  /\ Walking /\ due /\ reached \notin unlistable
  /\ due' = FALSE
  /\ UNCHANGED <<tree, exclusion, cursor, unlistable, lost, reached, pruned, pending, delivered,
                 blind, saved, walks, over>>

(* visit for the listing error of a directory: it was held back, or lies   *)
(* on the path of the cursor, or is the cursor.                            *)
ListingFailed ==
  /\ Walking /\ due /\ reached \in unlistable
  /\ due' = FALSE /\ pending' = Root
  /\ delivered' = CASE pending = reached            -> Delivered(delivered, reached, TRUE)
                    [] pending # reached /\ Compare(reached, cursor) = 0 -> Flushed
                    [] pending # reached /\ Compare(reached, cursor) # 0 -> Delivered(Flushed, reached, TRUE)
  /\ blind' = IF pending # reached /\ Compare(reached, cursor) = 0 THEN blind \cup {reached} ELSE blind
  /\ UNCHANGED <<tree, exclusion, cursor, unlistable, lost, reached, pruned, saved, walks, over>>

EndOfWalk ==
  /\ Walking /\ ~due /\ Ahead = {}
  /\ delivered' = Flushed /\ pending' = Root
  /\ over' = TRUE
  /\ UNCHANGED <<tree, exclusion, cursor, unlistable, lost, reached, due, pruned, blind, saved, walks>>

(* The first process, or the next one after a checkpoint of the last: the  *)
(* cursor never moves backwards.                                           *)
Furthest(log) ==
  LET keys == {Root} \cup {x.key : x \in ToSet(log)}
  IN  CHOOSE c \in keys : \A k \in keys : Compare(k, c) <= 0
NewProcess ==
  /\ ~over /\ walks < MaxWalks
  /\ \E n \in 0..Len(delivered) :
       /\ n >= saved /\ saved' = n
       /\ delivered' = SubSeq(delivered, 1, n)
       /\ StartAt(Furthest(SubSeq(delivered, 1, n)))
  /\ walks' = walks + 1
  /\ UNCHANGED <<tree, exclusion, blind, over>>

WalkOrderNext == NewProcess \/ VisitEntry \/ Listed \/ ListingFailed \/ EndOfWalk
WalkOrderSpec == WalkOrderInit /\ [][WalkOrderNext]_walkOrderVars
-----------------------------------------------------------------------------
(* What an exclusion means: "**" stands for any number of names.           *)
Meant(p, k) ==
  \E end \in [0..Len(p) -> 0..Len(k)] :
    /\ end[0] = 0 /\ end[Len(p)] = Len(k)
    /\ \A i \in DOMAIN p : IF p[i].any THEN end[i] >= end[i - 1]
                           ELSE end[i] = end[i - 1] + 1 /\ k[end[i]] \in p[i].names
MeantOut(k) ==
  \/ k[1] \in exclusion.reserved
  \/ \E d \in DOMAIN tree : Leads(d, k) /\ (d \in exclusion.skip \/ Last(d) \in exclusion.part
                                            \/ \E g \in exclusion.globs : Meant(g, d))

(* Over all processes of a scan, however they were cut off, when the last  *)
(* one ends: an entry that is not excluded was delivered, in order and     *)
(* once, or lies below a directory that was reported unreadable (or that   *)
(* could not be listed when it was the cursor); nothing excluded was; and  *)
(* a directory came a second time only to be reported unreadable.          *)
WalkedOnce ==
  LET keys == {x.key : x \in ToSet(delivered)}
      reported == {x.key : x \in {y \in ToSet(delivered) : y.err}}
  IN  over /\ walks > 0 =>
        /\ \A k \in DOMAIN tree :
             \/ (k \in keys) = ~MeantOut(k)
             \/ k \notin keys /\ \E d \in reported \cup blind : Leads(d, k) /\ d # k
        /\ \A i, j \in DOMAIN delivered : i < j =>
             \/ Before(delivered[i].key, delivered[j].key)
             \/ delivered[j].err /\ \E n \in 1..(j - 1) : Leads(delivered[j].key, delivered[n].key)
=============================================================================
