----------------------------- MODULE MCRegistry -----------------------------
(***************************************************************************)
(* Bounds for the registry and for what its paths rest on: the roots, the  *)
(* walk that finds entries, the names of descriptions, texts and previews, *)
(* and the directories of the mirror.  A behaviour is one of one part; the *)
(* others stay idle.                                                       *)
(***************************************************************************)
EXTENDS RegistryView, Walk, Names, MCPreviews, Roots, MirrorDirs

CONSTANTS vid, cad

RegistryVars == <<viewVars, walkOrderVars, namesVars, previewVars, rootsVars, dirsVars>>

(* A video and a file of the other payload, in four runs.                  *)
MCKindOf == (vid :> "video") @@ (cad :> "catia")
Run(op, kind, settings, update, keep) ==
  [op |-> op, kind |-> kind, settings |-> settings, update |-> update, keep |-> keep]
Scan(n) == Run("scan", "none", n, FALSE, FALSE)
Split(n) == Run("split", "video", n, FALSE, FALSE)
SplitCatia == Run("split", "catia", 1, FALSE, FALSE)
Restore == Run("restore", "video", 0, TRUE, FALSE)
RestoreQuietly == Run("restore", "video", 0, FALSE, TRUE)
RestoreKeeping == Run("restore", "video", 0, TRUE, TRUE)
MCOffered == <<{Scan(1), Split(1)}, {Split(1), Scan(2), SplitCatia},
               {Restore, RestoreQuietly, RestoreKeeping}, {Scan(2), Split(1)}>>

(* Three levels; exclusions by glob, by path, by reserved and part names.  *)
MCTrees ==
  {(<<1>> :> "dir") @@ (<<1, 1>> :> "file") @@ (<<1, 2>> :> "dir") @@ (<<1, 2, 1>> :> "file")
   @@ (<<1, 3>> :> "special") @@ (<<2>> :> "dir") @@ (<<2, 1>> :> "file")
   @@ (<<3>> :> "file")}
One(names) == [any |-> FALSE, names |-> names]
Without(globs, paths, reserved, part) ==
  [globs |-> globs, skip |-> paths, reserved |-> reserved, part |-> part]
MCExclusions ==
  {Without({}, {}, {}, {}), Without({}, {<<1, 3>>}, {}, {2}),
   Without({<<Sub, One({2}), Sub, One({1})>>}, {}, {3}, {}),
   Without({<<One({1}), Sub, One({2, 3})>>}, {<<1, 1>>}, {}, {})}

(* clip.mp4 and clip-1.mp4: the first indexed name of one is the first     *)
(* name of the other.                                                      *)
MCVideo == {<<"clip", ".mp4">>, <<"clip", "-1", ".mp4">>}
MCTexted == {<<"clip", ".mp4">>}
MCNumber == <<"-1", "-2", "-3">>
MCBare == <<"1", "2", "3">>

(* A link to the archive and, over it, to a directory of the archive; a    *)
(* link to nothing; names that Windows takes for others.                   *)
Link(target) == [kind |-> "link", target |-> target]
MCFileSystems ==
  {(<<>> :> Dir) @@ (<<"a">> :> Dir) @@ (<<"a", "s">> :> Dir) @@ (<<"m">> :> Dir)
   @@ (<<"f">> :> [kind |-> "file", target |-> NoPath])
   @@ (<<"l">> :> Link(<<"a">>)) @@ (<<"m", "k">> :> Link(<<"l", "s">>)) @@ (<<"d">> :> Link(<<"a", "z">>))}
MCLower == [n \in {"a", "s", "m", "f", "l", "k", "d", "n", "x", "z"} |-> n] @@ ("M" :> "m") @@ ("N" :> "n")
Typings == {<<FALSE, FALSE, {}>>, <<FALSE, FALSE, {"video"}>>, <<FALSE, FALSE, {"catia"}>>,
            <<FALSE, TRUE, {"catia"}>>, <<FALSE, TRUE, {"video"}>>, <<TRUE, TRUE, {}>>}
Places == {<<"a">>, <<"l", "s">>, <<"m">>, <<"M", "n">>, <<"l", "n">>, <<"m", "k">>, <<"d">>, NotGiven}
MCRequests ==
  LET all == {[op |-> op, video |-> t[1], catia |-> t[2], typed |-> t[3],
               value |-> [archive |-> ar, video |-> vi, catia |-> ca]] :
                op \in {"scan", "split", "restore"}, t \in Typings,
                ar \in {<<"a">>, <<"l">>, <<"m">>, <<"f">>}, vi \in Places \cup {<<>>, <<"f">>},
                ca \in Places \cup {<<"m", "N">>, <<"x", "n">>}}
  IN  {r \in all : r.op = "scan" => /\ r.typed = {} /\ ~r.video
                                    /\ r.value["video"] = NotGiven /\ r.value["catia"] = NotGiven}

(* Two directories in a third one, and a file beside them.                 *)
MCPayload == << <<"a", "b", "v">>, <<"a", "c", "w">>, <<"a", "x">> >>
MCMasked == {<<"a", "b">>}

OthersIdle(part) ==
  /\ part = "view" \/ ViewIdle
  /\ part = "walk" \/ WalkOrderIdle
  /\ part = "names" \/ NamesIdle
  /\ part = "previews" \/ PreviewIdle
  /\ part = "roots" \/ RootsIdle
  /\ part = "dirs" \/ DirsIdle
RegistryInit ==
  \/ ViewInit /\ OthersIdle("view")
  \/ WalkOrderInit /\ OthersIdle("walk")
  \/ NamesInit /\ OthersIdle("names")
  \/ PreviewInit /\ OthersIdle("previews")
  \/ RootsInit /\ OthersIdle("roots")
  \/ DirsInit /\ OthersIdle("dirs")
RegistryNext ==
  \/ ViewNext /\ UNCHANGED <<walkOrderVars, namesVars, previewVars, rootsVars, dirsVars>>
  \/ WalkOrderNext /\ UNCHANGED <<viewVars, namesVars, previewVars, rootsVars, dirsVars>>
  \/ NamesNext /\ UNCHANGED <<viewVars, walkOrderVars, previewVars, rootsVars, dirsVars>>
  \/ PreviewNext /\ UNCHANGED <<viewVars, walkOrderVars, namesVars, rootsVars, dirsVars>>
  \/ RootsNext /\ UNCHANGED <<viewVars, walkOrderVars, namesVars, previewVars, dirsVars>>
  \/ DirsNext /\ UNCHANGED <<viewVars, walkOrderVars, namesVars, previewVars, rootsVars>>
RegistrySpec == RegistryInit /\ [][RegistryNext]_RegistryVars
=============================================================================
