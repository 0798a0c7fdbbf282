----------------------------- MODULE MCSidecar -----------------------------
(***************************************************************************)
(* Bounds for Sidecar.  Two videos of one directory and stem plan the same *)
(* preview names; text sidecars have names of their own.                   *)
(***************************************************************************)
EXTENDS Sidecar

CONSTANTS o1, o2, p1, p2, p3
MCOwners == <<o1, o2>>
MCPreviewNames == (o1 :> <<p1, p2>>) @@ (o2 :> <<p1, p2>>)
MCTextNames == (o1 :> <<p1, p2>>) @@ (o2 :> <<p3>>)
MCOneOwner == <<o1>>
=============================================================================
