----------------------------- MODULE MCAdsClient -----------------------------
(***************************************************************************)
(* Small instances of AdsClient for TLC.                                   *)
(***************************************************************************)
EXTENDS AdsClient, TLC

(* Callers are interchangeable in the safety runs: neither Next nor the    *)
(* invariants name one.                                                    *)
Symmetry == Permutations(Callers)
=============================================================================
