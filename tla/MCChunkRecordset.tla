-------------------------- MODULE MCChunkRecordset --------------------------
(***************************************************************************)
(* Rows that fill a chunk exactly, rows that overfill one, a row left over. *)
(***************************************************************************)
EXTENDS ChunkRecordset

Sizes == [n \in 0..4 |-> <<0, 1, 2, 5, 6>>[n + 1]]
=============================================================================
