-------------------------- MODULE MCMediaBufferPool --------------------------
(* Small instances of MediaBufferPool for TLC: two buffers of two sizes.   *)
EXTENDS MediaBufferPool, TLC

CONSTANTS a1, a2, c1, c2, owner1, small, large

SmallAndLarge == (small :> 1) @@ (large :> 2)
=============================================================================
