---------------------------- MODULE PreviewPlan ----------------------------
(***************************************************************************)
(* Which previews a split wants (media/preview_plan.go) and under which    *)
(* names, over runs that generate only some of them and over what happens  *)
(* to the directory in between (archive/previews_*.go).  All videos here   *)
(* lie in one directory and differ in their extension only.                *)
(*                                                                         *)
(* Times are integers, Second of them a second; lengths in pixels are      *)
(* scaled, and the rounding of floating point is left out.  A file at the  *)
(* path of a preview is the preview that some video made, told by its      *)
(* size, or the operator's, which passes no check of a preview's contents. *)
(* Deletions that are interrupted are left to Sidecar.                     *)
(***************************************************************************)
EXTENDS Integers, Sequences, FiniteSets, SequencesExt

CONSTANTS
  Clips,        \* the videos, a sequence in path order
  InfoOf,       \* [video -> its metadata]
  Settings,     \* the preview options a run may have
  Second,
  Wide,         \* stands for 99: indexes of a longer series get more digits
  MaxSplits,    \* how often the previews are planned
  MaxPlanted    \* files of the operator

ClipSet == ToSet(Clips)

Modes == {"none", "start", "middle", "end", "series"}
ASSUME PreviewAssumption ==
  /\ Clips \in Seq(ClipSet) /\ \A i, j \in DOMAIN Clips : Clips[i] = Clips[j] => i = j
  /\ {"absent", "operator"} \cap ClipSet = {}
  /\ \A v \in ClipSet : {InfoOf[v].streams, InfoOf[v].duration, InfoOf[v].width, InfoOf[v].height} \subseteq Int
  /\ \A o \in Settings :
       /\ {o.sample, o.image} \subseteq Modes
       /\ {o.length, o.sampleEvery, o.imageEvery, o.limit} \subseteq Nat \ {0}
       /\ \A box \in {o.sampleBox, o.imageBox} : {box.width, box.height} \subseteq Nat \ {0}
  /\ Second \in Nat \ {0} /\ Wide \in Nat

VARIABLES
  options,   \* of the current run
  plans,     \* [video -> its plan]
  work,      \* <<video, name>> left to generate
  shown,     \* [name -> whose file is there]
  made,      \* [name -> what the file of a video was made as]
  owned,     \* [video -> [completed preview -> whose file that was]]
  started,   \* [video -> previews whose generation never logged an outcome]
  there,     \* the videos that exist
  gone,      \* a file left the directory, other than by restore
  reordered, \* the options changed, or a plan failed
  crossed,   \* a video was to use a name that another one has in started
  planned    \* how often

previewVars ==
  <<options, plans, work, shown, made, owned, started, there, gone, reordered, crossed, planned>>

Least(a, b) == IF a < b THEN a ELSE b
Most(a, b) == IF a > b THEN a ELSE b
Requested(mode) == mode # "none"
Enabled(o) == Requested(o.sample) \/ Requested(o.image)
-----------------------------------------------------------------------------
(* Times.                                                                  *)
Span(start, len) == [start |-> start, len |-> len]
Spaced(d, every, limit) == {i \in 0..(limit - 1) : i * every < d}

SampleRanges(mode, d, known, len, every, limit) ==
  CASE ~known                            -> <<Span(0, len)>>
    [] known /\ d <= len                 -> <<Span(0, d)>>
    [] known /\ d > len /\ mode = "start"  -> <<Span(0, len)>>
    [] known /\ d > len /\ mode = "middle" -> <<Span(d \div 2 - len \div 2, len)>>
    [] known /\ d > len /\ mode = "end"    -> <<Span(d - len, len)>>
    [] known /\ d > len /\ mode = "series" ->
         [i \in 1..Cardinality(Spaced(d, every, limit)) |->
            Span((i - 1) * every, Least(len, d - (i - 1) * every))]

ImageTimes(mode, d, known, every, limit) ==
  CASE ~known                    -> <<Second>>
    [] known /\ mode = "start"   -> <<Least(Second, d \div 2)>>
    [] known /\ mode = "middle"  -> <<d \div 2>>
    [] known /\ mode = "end"     -> <<Most(0, d - Second)>>
    [] known /\ mode = "series"  ->
         [i \in 1..Most(1, Cardinality(Spaced(d, every, limit))) |->
            IF i = 1 THEN Least(Second, d \div 2) ELSE (i - 1) * every]

(* The display-oriented source fitted into the box, never enlarged, with   *)
(* even sides.                                                             *)
Even(n) == n - (n % 2)
NoSize == [width |-> 0, height |-> 0]
ClampPreviewSize(w, h, box) ==
  LET bw == IF h > w THEN box.height ELSE box.width
      bh == IF h > w THEN box.width ELSE box.height
      wide == bw * h <= bh * w   \* the width decides
      fits == w <= bw /\ h <= bh
      width == IF fits THEN w ELSE IF wide THEN bw ELSE (w * bh) \div h
      height == IF fits THEN h ELSE IF wide THEN (h * bw) \div w ELSE bh
  IN  IF Even(width) < 2 \/ Even(height) < 2 THEN NoSize
                                             ELSE [width |-> Even(width), height |-> Even(height)]
-----------------------------------------------------------------------------
(* Names: <stem>-<kind><index>.<ext>, with "-arxgo" when that is taken.    *)
NameOf(job, fallback) ==
  [fallback |-> fallback, kind |-> job.kind, index |-> job.index,
   digits |-> IF job.count > Wide THEN job.count ELSE Wide, ext |-> job.ext]
BothTaken(job, taken) == NameOf(job, FALSE) \in taken /\ NameOf(job, TRUE) \in taken
Output(job, taken) ==
  IF NameOf(job, FALSE) \in taken THEN NameOf(job, TRUE) ELSE NameOf(job, FALSE)

Sample(o, info) ==
  [kind |-> "smpl", index |-> 1, count |-> 1, ext |-> info.container, box |-> o.sampleBox,
   ranges |-> SampleRanges(o.sample, info.duration, info.duration > 0, o.length, o.sampleEvery, o.limit)]
Images(o, info) ==
  LET times == ImageTimes(o.image, info.duration, info.duration > 0, o.imageEvery, o.limit)
  IN  {[kind |-> "img", index |-> i, count |-> Len(times), ext |-> "png", box |-> o.imageBox,
        ranges |-> <<Span(times[i], 0)>>] : i \in DOMAIN times}
JobsWanted(o, info) ==
  LET now(mode) == Requested(mode) /\ (info.duration > 0 \/ mode = "start")
  IN  (IF now(o.sample) THEN {Sample(o, info)} ELSE {})
      \cup IF now(o.image) THEN Images(o, info) ELSE {}

(* The plan of a video, none of whose names may be among the taken ones.   *)
Fails == [err |-> TRUE, jobs |-> {}]
Plan(jobs) == [err |-> FALSE, jobs |-> jobs]
PlanPreviewsOf(o, info, taken) ==
  LET wanted == JobsWanted(o, info)
      size(job) == ClampPreviewSize(info.width, info.height, job.box)
      fails == \/ info.width < 2 \/ info.height < 2
               \/ \E job \in wanted : size(job) = NoSize \/ BothTaken(job, taken)
  IN  CASE info.streams = 0 \/ wanted = {}              -> Plan({})
        [] info.streams # 0 /\ wanted # {} /\ fails     -> Fails
        [] info.streams # 0 /\ wanted # {} /\ ~fails    ->
             Plan({[name |-> Output(job, taken), ranges |-> job.ranges, size |-> size(job)] : job \in wanted})

NamesOf(p) == {job.name : job \in p.jobs}

(* A name is taken by a plan of this run, and by a file unless the video   *)
(* owns it or started it.                                                  *)
Own(v) == DOMAIN owned[v] \cup started[v]
OccupiedUnreserved(v, reserved) ==  \* mutant of OccupiedFor
  {n \in DOMAIN shown : shown[n] # "absent" /\ n \notin Own(v)}
OccupiedFor(v, reserved) ==
  reserved \cup {n \in DOMAIN shown : shown[n] # "absent" /\ n \notin Own(v)}

(* The videos in path order; unread are those whose metadata cannot be     *)
(* read now.                                                               *)
PlanOf(o, unread, v, reserved) ==
  CASE v \notin there \/ ~Enabled(o) -> Plan({})
    [] v \in there /\ Enabled(o) /\ v \in unread -> Fails
    [] v \in there /\ Enabled(o) /\ v \notin unread ->
         PlanPreviewsOf(o, InfoOf[v], OccupiedFor(v, reserved))
PlanSplit(o, unread) ==
  LET plan[i \in DOMAIN Clips] ==
        PlanOf(o, unread, Clips[i], UNION {NamesOf(plan[j]) : j \in 1..(i - 1)})
  IN  [v \in ClipSet |-> plan[CHOOSE i \in DOMAIN Clips : Clips[i] = v]]

Published(v, n) == n \in DOMAIN owned[v] /\ shown[n] = owned[v][n]
(* What a preview is made as: its frame, and the seconds of its ranges.    *)
Unmade == [size |-> NoSize, len |-> 0]
Contents(v, n) ==
  LET job == CHOOSE j \in plans[v].jobs : j.name = n
  IN  [size |-> job.size, len |-> FoldSeq(LAMBDA range, total : total + range.len, 0, job.ranges)]

Missing(ps) == {x \in UNION {{v} \X NamesOf(ps[v]) : v \in ClipSet} : ~Published(x[1], x[2])}
-----------------------------------------------------------------------------
Indexes == UNION {1..o.limit : o \in Settings}
Labels ==
  {[kind |-> "smpl", index |-> 1, count |-> 1, ext |-> InfoOf[v].container] : v \in ClipSet}
  \cup {[kind |-> "img", index |-> i, count |-> c, ext |-> "png"] : i \in Indexes, c \in Indexes}
PreviewName == {NameOf(label, f) : label \in Labels, f \in BOOLEAN}

PreviewInit ==
  /\ plans = [v \in ClipSet |-> Plan({})] /\ options \in Settings /\ work = {} /\ planned = 0
  /\ owned = [v \in ClipSet |-> <<>>] /\ started = [v \in ClipSet |-> {}]
  /\ there = ClipSet /\ shown = [n \in PreviewName |-> "absent"]
  /\ made = [n \in PreviewName |-> Unmade]
  /\ gone = FALSE /\ reordered = FALSE /\ crossed = FALSE

PreviewIdle ==
  /\ plans = <<>> /\ options = <<>> /\ work = {} /\ planned = MaxSplits
  /\ owned = <<>> /\ started = <<>> /\ there = {} /\ shown = <<>> /\ made = <<>>
  /\ gone = FALSE /\ reordered = FALSE /\ crossed = FALSE

Between == work = {}

(* A split plans.                                                          *)
StartSplit ==
  /\ Between /\ planned < MaxSplits
  /\ \E o \in Settings, unread \in SUBSET there :
       LET ps == PlanSplit(o, unread)
       IN  /\ options' = o /\ plans' = ps /\ work' = Missing(ps)
           /\ reordered' = (reordered \/ (planned > 0 /\ o # options) \/ \E v \in ClipSet : ps[v].err)
           /\ crossed' = (crossed \/ \E v, u \in ClipSet : v # u /\ NamesOf(ps[v]) \cap started[u] # {})
  /\ planned' = planned + 1
  /\ UNCHANGED <<shown, made, owned, started, there, gone>>

(* The worker takes the missing previews; videos that were moved before    *)
(* come first, so the order is open.  Each is generated, or fails.         *)
Recorded(v, n, file) ==
  [owned EXCEPT ![v] = [m \in DOMAIN @ \cup {n} |-> IF m = n THEN file ELSE @[m]]]
Generate(v, n) ==
  /\ shown[n] = "absent"
  /\ \/ /\ shown' = [shown EXCEPT ![n] = v] /\ owned' = Recorded(v, n, v)
        /\ made' = [made EXCEPT ![n] = Contents(v, n)]
     \/ UNCHANGED <<shown, made, owned>>
  /\ started' = [started EXCEPT ![v] = @ \ {n}]
  /\ work' = work \ {<<v, n>>}

(* adopt: a file is there.  Its contents are checked: the size of a frame, *)
(* of a sample also the length, against what this run plans.               *)
Passes(v, n) ==
  LET want == Contents(v, n)
      tolerance == Most(Second \div 2, want.len \div 20)
  IN  /\ made[n].size = want.size
      /\ n.kind = "smpl" =>
           /\ made[n].len <= want.len + tolerance
           /\ InfoOf[v].duration > 0 => made[n].len >= want.len - tolerance
Adopt(v, n) ==
  /\ n \in started[v] /\ shown[n] \in ClipSet /\ Passes(v, n)
  /\ owned' = Recorded(v, n, shown[n])
  /\ started' = [started EXCEPT ![v] = @ \ {n}]
  /\ work' = work \ {<<v, n>>}
  /\ UNCHANGED <<shown, made>>

(* Nothing is logged for a path that is occupied, or a video that is gone. *)
PassOver(v, n) ==
  /\ work' = work \ {<<v, n>>}
  /\ UNCHANGED <<shown, made, owned, started>>

(* The process dies in a generation, before or after it published.         *)
DiesGenerating(v, n) ==
  /\ shown[n] = "absent" \/ (n \in started[v] /\ shown[n] \in ClipSet /\ Passes(v, n))
  /\ shown' \in {shown, IF shown[n] = "absent" THEN [shown EXCEPT ![n] = v] ELSE shown}
  /\ made' = IF shown' = shown THEN made ELSE [made EXCEPT ![n] = Contents(v, n)]
  /\ started' = [started EXCEPT ![v] = @ \cup {n}]
  /\ work' = {}
  /\ UNCHANGED owned

Worker ==
  /\ \E x \in work : LET v == x[1] n == x[2] IN
       Generate(v, n) \/ Adopt(v, n) \/ PassOver(v, n) \/ DiesGenerating(v, n)
  /\ UNCHANGED <<options, plans, there, gone, reordered, crossed, planned>>

(* A restore deletes the previews of a video, which is a candidate again;  *)
(* a preview that was replaced is kept.                                    *)
RestoreClip(v) ==
  /\ Between /\ planned < MaxSplits /\ DOMAIN owned[v] # {}
  /\ LET deleted == {n \in DOMAIN owned[v] : shown[n] \in {"absent", owned[v][n]}}
     IN  /\ shown' = [n \in DOMAIN shown |-> IF n \in deleted THEN "absent" ELSE shown[n]]
         /\ made' = [n \in DOMAIN made |-> IF n \in deleted THEN Unmade ELSE made[n]]
         /\ owned' = [owned EXCEPT ![v] = [n \in DOMAIN @ \ deleted |-> @[n]]]
  /\ UNCHANGED <<options, plans, work, started, there, gone, reordered, crossed, planned>>

(* The operator.                                                           *)
PlantPreview(n) ==
  /\ Between /\ planned < MaxSplits
  /\ shown[n] = "absent" /\ Cardinality({m \in DOMAIN shown : shown[m] = "operator"}) < MaxPlanted
  /\ shown' = [shown EXCEPT ![n] = "operator"]
  /\ UNCHANGED <<options, plans, work, made, owned, started, there, gone, reordered, crossed, planned>>
DropPreview(n) ==
  /\ Between /\ planned < MaxSplits /\ shown[n] # "absent"
  /\ shown' = [shown EXCEPT ![n] = "absent"] /\ made' = [made EXCEPT ![n] = Unmade]
  /\ gone' = TRUE
  /\ UNCHANGED <<options, plans, work, owned, started, there, reordered, crossed, planned>>
DropClip(v) ==
  /\ Between /\ planned < MaxSplits /\ v \in there
  /\ there' = there \ {v} /\ gone' = TRUE
  /\ UNCHANGED <<options, plans, work, shown, made, owned, started, reordered, crossed, planned>>

PreviewNext ==
  \/ StartSplit \/ Worker
  \/ \E v \in DOMAIN owned : RestoreClip(v) \/ DropClip(v)
  \/ \E n \in DOMAIN shown : PlantPreview(n) \/ DropPreview(n)
PreviewSpec == PreviewInit /\ [][PreviewNext]_previewVars
-----------------------------------------------------------------------------
Slot(n) == [fallback |-> FALSE, kind |-> n.kind, index |-> n.index, digits |-> n.digits, ext |-> n.ext]

(* What a run generates: parts of the video within its length and in       *)
(* frames that fit; names that no two videos of a run share.  Unless the   *)
(* operator takes a file away or two videos cross: the file of a preview   *)
(* about to be generated is absent or the video's own, or the operator's   *)
(* and will be refused; a published preview stays, and over all runs with  *)
(* the same options, as long as every video can be planned, a video has    *)
(* one preview of each kind and index.                                     *)
PreviewsSound ==
  /\ \A v \in DOMAIN owned : \A job \in plans[v].jobs :
       LET info == InfoOf[v]
           size == job.size
       IN  /\ job.ranges # <<>> /\ Len(job.ranges) <= options.limit
           /\ info.duration > 0 => \A r \in ToSet(job.ranges) :
                r.start >= 0 /\ r.start < info.duration /\ r.start + r.len <= info.duration
           /\ size.width % 2 = 0 /\ size.height % 2 = 0
           /\ size.width \in 2..info.width /\ size.height \in 2..info.height
           /\ \E box \in {options.sampleBox, options.imageBox} :
                {size.width, size.height} \subseteq 2..Most(box.width, box.height)
  /\ \A v, u \in DOMAIN owned : v # u => NamesOf(plans[v]) \cap NamesOf(plans[u]) = {}
  /\ ~gone /\ ~crossed =>
       /\ \A x \in work : \/ shown[x[2]] \in {"absent", x[1]}
                          \/ shown[x[2]] = "operator" /\ x[2] \in started[x[1]]
       /\ \A v \in DOMAIN owned : \A n \in DOMAIN owned[v] : shown[n] = v
  /\ ~gone /\ ~reordered =>
       \A v \in DOMAIN owned : \A m, n \in DOMAIN owned[v] : Slot(m) = Slot(n) => m = n

(* No video takes over the preview that another one made, as the comment   *)
(* of occupied (previews_plan.go:111) has it: it protects files of other   *)
(* videos.                                                                 *)
OthersProtected == \A v \in DOMAIN owned : \A n \in DOMAIN owned[v] : owned[v][n] = v
=============================================================================
