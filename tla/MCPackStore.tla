---------------------------- MODULE MCPackStore ----------------------------
(* Two callers, three blobs, packs of two frames. *)
EXTENDS PackStore, TLC

CONSTANTS b1, b2, b3, t1, t2

ThreeBlobs == {b1, b2, b3}
TwoTasks == {t1, t2}
Interchangeable == Permutations(TwoTasks) \cup Permutations(ThreeBlobs)
=============================================================================
