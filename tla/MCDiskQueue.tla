----------------------------- MODULE MCDiskQueue -----------------------------
(* Instances of DiskQueue for TLC: m1 and m2 announce the same file at        *)
(* different times, m3 another one.                                          *)
EXTENDS DiskQueue, TLC

CONSTANTS m1, m2, m3

MCcacheKey == (m1 :> "f") @@ (m2 :> "f") @@ (m3 :> "g")
MCpubTime  == (m1 :> 0) @@ (m2 :> 1) @@ (m3 :> 0)
=============================================================================
