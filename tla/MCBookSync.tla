------------------------------ MODULE MCBookSync ------------------------------
(***************************************************************************)
(* Two price levels, so that an update may leave a level alone; the levels *)
(* are interchangeable.                                                    *)
(***************************************************************************)
EXTENDS BookSync, TLC

LevelSymmetry == Permutations(Levels)
=============================================================================
