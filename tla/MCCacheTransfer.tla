--------------------------- MODULE MCCacheTransfer -----------------------------
(* CacheTransfer with two kernels to compile. *)
EXTENDS CacheTransfer

AnyLeftover == {"none", "progress", "complete", "failed"}
================================================================================
