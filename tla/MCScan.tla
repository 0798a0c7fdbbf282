------------------------------- MODULE MCScan -------------------------------
(* Instances of Scan for TLC.                                              *)
EXTENDS Scan

(* 1/ 1/2 (moved, and a candidate again) 1/3 (moved)                       *)
(* 4 (the same, at the root) 5 (moved, and not a file any more) 6 (moved)  *)
Tree      == <<"dir", "file", "absent", "file", "special", "absent">>
TreeAbove == <<{}, {1}, {1}, {}, {}, {}>>

(* A directory 1/ where a file was moved from, with a file in it.          *)
Reborn      == <<"dir", "file">>
RebornAbove == <<{}, {1}>>
=============================================================================
