---------------------------- MODULE MCAssetSystem ----------------------------
(***************************************************************************)
(* A scene with a dependency (mesh) and a parent (base), and an asset the  *)
(* user creates (new).                                                     *)
(***************************************************************************)
EXTENDS AssetSystem

CONSTANTS scene, mesh, base, new

MCDeps == [a \in Assets |-> IF a = scene THEN <<mesh>> ELSE <<>>]
MCParent == [a \in Assets |-> IF a = scene THEN base ELSE None]
MCNoParent == [a \in Assets |-> None]

(* Nothing is promised once a request has raced, so a run may stop there.  *)
UntilRaced == ~raced
=============================================================================
