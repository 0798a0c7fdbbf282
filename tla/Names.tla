------------------------------- MODULE Names -------------------------------
(***************************************************************************)
(* Where descriptions and text sidecars lie (report/names.go, the marker   *)
(* inspection of report/description.go, archive/restore_recovery.go and    *)
(* text_identity.go).  Both stand next to the file they describe, under    *)
(* the first candidate name that is absent or already theirs, so the names *)
(* of several files of one directory can coincide.                         *)
(*                                                                         *)
(* A name is a sequence of parts, each of length 1; NameMax stands for the *)
(* shorter of the limits on the name and on the joined path.  A lookup     *)
(* never fails, and between a lookup and the write nobody else writes.     *)
(***************************************************************************)
EXTENDS Integers, Sequences, FiniteSets, SequencesExt

CONSTANTS
  Video,       \* the payload files of the directory, by name
  Texted,      \* those with a text sidecar
  Extension,   \* the parts that are file extensions
  NameMax,
  Number,      \* <<"-1", "-2", ...>>, bounds maxDescriptionIndex
  Bare,        \* <<"1", "2", ...>>: the same without the dash
  MaxForeign,  \* files of the operator
  MaxMoves,    \* transactions begun
  MaxDeaths    \* how often the process dies

ASSUME NamesAssumption == /\ Texted \subseteq Video
                          /\ Number \in Seq(STRING) /\ Bare \in Seq(STRING)
                          /\ Len(Number) = Len(Bare)

VARIABLES
  entry,     \* [name -> the file there]
  planted,   \* where the operator's files are
  at,        \* [Video -> "archive" or "mirror"]
  moving,    \* the open transaction, with its step
  recorded,  \* [Video -> the described record of its last split]
  sidecar,   \* [Video -> the recorded path of its text sidecar]
  listed,    \* [Video -> description_rel_path of the payload registry]
  stray,     \* files with a description that a restore had to leave
  keptText,  \* files whose last restore kept the text sidecar
  moves, deaths

namesVars == <<entry, planted, at, moving, recorded, sidecar, listed, stray, keptText, moves,
              deaths>>

Nowhere == <<>>                       \* the empty path ""
Empty   == [marker |-> "none", rel |-> <<>>]
Foreign == [marker |-> "other", rel |-> <<>>]
Doc(marker, f) == [marker |-> marker, rel |-> f]
NoMove  == [op |-> "none", file |-> <<>>, step |-> "none", keep |-> FALSE]
-----------------------------------------------------------------------------
(* Candidate names.                                                        *)
FitsName(name) == Len(name) >= 1 /\ Len(name) <= NameMax

SplitVideoName(f) ==
  IF Len(f) > 1 /\ Last(f) \in Extension THEN [stem |-> Front(f), ext |-> <<Last(f)>>]
                                         ELSE [stem |-> f, ext |-> <<>>]

Ending(marker) == IF marker = "text" THEN <<".text", ".md">> ELSE <<".md">>

(* The longest prefix of the stem with which <prefix>-<i><ext>.md fits;    *)
(* the dash goes with the last of the stem.                                *)
IndexedName(f, i, tail) ==
  LET parts == SplitVideoName(f)
      rest == parts.ext \o tail
      WithPrefix(n) == IF n = 0 THEN <<Bare[i]>> \o rest
                                ELSE SubSeq(parts.stem, 1, n) \o <<Number[i]>> \o rest
      fitting == {n \in 0..Len(parts.stem) : FitsName(WithPrefix(n))}
  IN  IF fitting = {} THEN Nowhere ELSE WithPrefix(CHOOSE n \in fitting : \A m \in fitting : m <= n)

FixedNames(f, tail) == <<f \o tail, f \o <<".arxgo">> \o tail>>
IndexedNames(f, tail) == [i \in DOMAIN Number |-> IndexedName(f, i, tail)]

(* Candidates that do not fit are passed over.                             *)
Fitting(names) == {i \in DOMAIN names : FitsName(names[i])}
FirstOf(names, good) ==
  IF good = {} THEN Nowhere ELSE names[CHOOSE i \in good : \A j \in good : i <= j]

CandidateNames(marker, f) == FixedNames(f, Ending(marker)) \o IndexedNames(f, Ending(marker))
FittingNames(names) == {names[i] : i \in Fitting(names)}
SidecarName ==
  UNION {FittingNames(CandidateNames(marker, f)) : marker \in {"description", "text"}, f \in Video}

(* Mutant of Inspect: the marker is looked at, not the path behind it.     *)
InspectMarkerOnly(name, marker, f) ==
  CASE entry[name] = Empty         -> "absent"
    [] entry[name].marker = marker -> "owned"
    [] OTHER                       -> "foreign"
Inspect(name, marker, f) ==
  CASE entry[name] = Empty          -> "absent"
    [] entry[name] = Doc(marker, f) -> "owned"
    [] OTHER                        -> "foreign"

FirstUsable(marker, f) ==
  LET names == CandidateNames(marker, f)
  IN  FirstOf(names, {i \in Fitting(names) : Inspect(names[i], marker, f) # "foreign"})
ChooseDescriptionPath(f) == FirstUsable("description", f)
ChooseTextSidecarPath(f) == FirstUsable("text", f)

(* Both fixed names, then the indexed ones up to the first absent one.     *)
FindDescriptionPath(f) ==
  LET Is(state, names) == {i \in Fitting(names) : Inspect(names[i], "description", f) = state}
      fixed == FixedNames(f, <<".md">>)
      indexed == IndexedNames(f, <<".md">>)
      before == {i \in DOMAIN indexed : \A j \in Is("absent", indexed) : i < j}
  IN  IF Is("owned", fixed) # {} THEN FirstOf(fixed, Is("owned", fixed))
                                 ELSE FirstOf(indexed, Is("owned", indexed) \cap before)

IsOwned(name, f) == name # Nowhere /\ Inspect(name, "description", f) = "owned"

(* Who reads a description: the recorded path while it is owned, else what *)
(* the naming rule finds.                                                  *)
OwnedDescriptionPath(hint, f) == IF IsOwned(hint, f) THEN hint ELSE FindDescriptionPath(f)

(* Who removes one: the path of the payload registry, then the fixed names.*)
DescriptionCandidates(f) ==
  (IF listed[f] = Nowhere THEN <<>> ELSE <<listed[f]>>) \o FixedNames(f, <<".md">>)
OwnedDescription(f) ==
  LET names == DescriptionCandidates(f)
  IN  FirstOf(names, {i \in Fitting(names) : IsOwned(names[i], f)})
-----------------------------------------------------------------------------
NamesStart == planted = {} /\ moving = NoMove /\ stray = {} /\ keptText = {} /\ deaths = 0
NamesInit ==
  /\ NamesStart /\ moves = 0
  /\ entry = [n \in SidecarName |-> Empty]
  /\ recorded = [f \in Video |-> Nowhere] /\ sidecar = recorded /\ listed = recorded
  /\ at = [f \in Video |-> "archive"]
NamesIdle ==
  /\ NamesStart /\ moves = MaxMoves
  /\ entry = <<>> /\ recorded = <<>> /\ sidecar = <<>> /\ listed = <<>> /\ at = <<>>

At(op, step) == moving.op = op /\ moving.step = step
GoTo(step) == moving' = [moving EXCEPT !.step = step]

BeginMove(op, f, keep) ==
  /\ moving = NoMove /\ moves < MaxMoves
  /\ moves' = moves + 1
  /\ moving' = [op |-> op, file |-> f, step |-> "placed", keep |-> keep]
  /\ UNCHANGED <<entry, planted, at, recorded, sidecar, listed, stray, keptText, deaths>>
BeginSplit(f) == at[f] = "archive" /\ BeginMove("split", f, FALSE)
BeginRestore(f, keep) == at[f] = "mirror" /\ BeginMove("restore", f, keep)

(* Split: write the description where it belongs, ask again for the record *)
(* and commit.  A texted file gets its sidecar after the commit.           *)
WriteDescription ==
  /\ At("split", "placed")
  /\ LET path == ChooseDescriptionPath(moving.file)
     IN  /\ path # Nowhere
         /\ entry' = [entry EXCEPT ![path] = Doc("description", moving.file)]
  /\ GoTo("written")
  /\ UNCHANGED <<planted, at, recorded, sidecar, listed, stray, keptText, moves, deaths>>

RecordDescription ==
  /\ At("split", "written")
  /\ recorded' = [recorded EXCEPT ![moving.file] = ChooseDescriptionPath(moving.file)]
  /\ at' = [at EXCEPT ![moving.file] = "mirror"]
  /\ IF moving.file \in Texted THEN GoTo("text") ELSE moving' = NoMove
  /\ UNCHANGED <<entry, planted, sidecar, listed, stray, keptText, moves, deaths>>

(* Nothing is written where the recorded sidecar is still there, one that  *)
(* a restore kept.                                                         *)
TextPublished(f) == sidecar[f] # Nowhere /\ Inspect(sidecar[f], "text", f) = "owned"
WriteText ==
  /\ At("split", "text")
  /\ \/ TextPublished(moving.file) /\ moving' = NoMove /\ UNCHANGED entry
     \/ /\ ~TextPublished(moving.file) /\ GoTo("texted")
        /\ LET path == ChooseTextSidecarPath(moving.file)
           IN  /\ path # Nowhere
               /\ entry' = [entry EXCEPT ![path] = Doc("text", moving.file)]
  /\ UNCHANGED <<planted, at, recorded, sidecar, listed, stray, keptText, moves, deaths>>

RecordText ==
  /\ At("split", "texted")
  /\ sidecar' = [sidecar EXCEPT ![moving.file] = ChooseTextSidecarPath(moving.file)]
  /\ moving' = NoMove
  /\ UNCHANGED <<entry, planted, at, recorded, listed, stray, keptText, moves, deaths>>

(* Restore: remove the description and the text unless they are kept.  The *)
(* run cannot know of an indexed name that the registry does not list.     *)
Unknown(f) == recorded[f] \notin ToSet(FixedNames(f, <<".md">>)) /\ listed[f] # recorded[f]
RemoveDescription ==
  /\ At("restore", "placed")
  /\ entry' = IF moving.keep THEN entry
              ELSE [n \in SidecarName |-> IF n = OwnedDescription(moving.file) THEN Empty ELSE entry[n]]
  /\ stray' = IF moving.keep \/ Unknown(moving.file) THEN stray \cup {moving.file} ELSE stray
  /\ GoTo("removed")
  /\ UNCHANGED <<planted, at, recorded, sidecar, listed, keptText, moves, deaths>>

EndRestore ==
  /\ At("restore", "removed")
  /\ at' = [at EXCEPT ![moving.file] = "archive"]
  /\ \/ /\ moving.keep /\ keptText' = keptText \cup {moving.file} /\ UNCHANGED <<entry, sidecar>>
     \/ /\ ~moving.keep /\ keptText' = keptText \ {moving.file}
        /\ entry' = [n \in SidecarName |-> IF n = sidecar[moving.file] /\ Inspect(n, "text", moving.file) = "owned"
                                    THEN Empty ELSE entry[n]]
        /\ sidecar' = [sidecar EXCEPT ![moving.file] = Nowhere]
  /\ moving' = NoMove
  /\ UNCHANGED <<planted, recorded, listed, stray, moves, deaths>>

(* A process that dies before its record repeats the step.                 *)
Repeat == [written |-> "placed", removed |-> "placed", texted |-> "text"]
Die ==
  /\ moving.step \in DOMAIN Repeat /\ deaths < MaxDeaths
  /\ deaths' = deaths + 1
  /\ GoTo(Repeat[moving.step])
  /\ UNCHANGED <<entry, planted, at, recorded, sidecar, listed, stray, keptText, moves>>

(* The report of a run that finished: a restored file keeps its row or     *)
(* loses it.                                                               *)
Report ==
  /\ moving = NoMove /\ DOMAIN at # {}
  /\ \E kept \in {listed, [f \in Video |-> Nowhere]} :
       listed' = [f \in Video |-> IF at[f] = "mirror" THEN recorded[f] ELSE kept[f]]
  /\ UNCHANGED <<entry, planted, at, moving, recorded, sidecar, stray, keptText, moves, deaths>>

(* The operator, at any time while a name is free, or between runs.        *)
PlantFile(n) ==
  /\ entry[n] = Empty /\ Cardinality(planted) < MaxForeign /\ moves < MaxMoves
  /\ entry' = [entry EXCEPT ![n] = Foreign] /\ planted' = planted \cup {n}
  /\ UNCHANGED <<at, moving, recorded, sidecar, listed, stray, keptText, moves, deaths>>
TakeFileAway(n) ==
  /\ moving = NoMove /\ n \in planted /\ entry[n] = Foreign /\ moves < MaxMoves
  /\ entry' = [entry EXCEPT ![n] = Empty] /\ planted' = planted \ {n}
  /\ UNCHANGED <<at, moving, recorded, sidecar, listed, stray, keptText, moves, deaths>>

NamesNext ==
  \/ \E f \in DOMAIN at : BeginSplit(f) \/ \E keep \in BOOLEAN : BeginRestore(f, keep)
  \/ WriteDescription \/ RecordDescription \/ WriteText \/ RecordText
  \/ RemoveDescription \/ EndRestore \/ Die \/ Report
  \/ \E n \in DOMAIN entry : PlantFile(n) \/ TakeFileAway(n)
NamesSpec == NamesInit /\ [][NamesNext]_namesVars
-----------------------------------------------------------------------------
HasText(f) == f \in Texted /\ (at[f] = "mirror" \/ f \in keptText)
Held(marker, f) == {n \in DOMAIN entry : entry[n] = Doc(marker, f)}

(* Whatever names the files of a directory share: the description of a     *)
(* moved file stays where its record says, is the only one and is the one  *)
(* its readers find; a restored file has none, unless a restore kept it or *)
(* could not know its indexed name; there is one text sidecar, where the   *)
(* log records it, while its file is moved or when the restore kept it,    *)
(* and none otherwise; and a file of the operator is never taken.          *)
OneDescription ==
  /\ \A f \in DOMAIN at : moving.file # f =>
       /\ at[f] = "mirror" =>
            /\ recorded[f] \in Held("description", f)
            /\ f \notin stray => Held("description", f) = {recorded[f]}
            /\ OwnedDescriptionPath(recorded[f], f) = recorded[f]
       /\ at[f] = "archive" /\ f \notin stray => Held("description", f) = {}
       /\ Held("text", f) = IF HasText(f) THEN {sidecar[f]} ELSE {}
  /\ \A n \in planted : entry[n] = Foreign
=============================================================================
