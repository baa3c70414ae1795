---------------------------- MODULE MCFileStore -----------------------------
(* A prepared file whose last block is only partly filled, and instances   *)
(* that differ in nothing but their names.                                 *)
EXTENDS FileStore, TLC

PreparedImage == <<1, 1, 1, 1>>
Interchangeable == Permutations(Instance)
=============================================================================
