---------------------------- MODULE MCAssetSync ----------------------------
(* One asset and one service. *)
EXTENDS AssetSync

CONSTANTS d1, v1, w1, w2
=============================================================================
