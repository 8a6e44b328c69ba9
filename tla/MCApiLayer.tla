----------------------------- MODULE MCApiLayer -----------------------------
(* Two chains: a short list without Meta extensions, and a longer one that *)
(* has one of them itself.                                                 *)
EXTENDS ApiLayer, TLC

CONSTANTS core, vendor, m1, m2, short, long

MCNames   == {core, vendor, m1, m2}
MCMeta    == {m1, m2}
MCChains  == {short, long}
MCOffered == (short :> {core}) @@ (long :> {core, vendor, m1})

MCSymmetry == Permutations(Threads)
=============================================================================
