----------------------------- MODULE MCFFGChain -----------------------------
(***************************************************************************)
(* The calls of FFGChain, and what the bundle reads between them, on the   *)
(* blocks of FFGBlocks.                                                    *)
(***************************************************************************)
EXTENDS BundleFields, FFGBlocks
=============================================================================
