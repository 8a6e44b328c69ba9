----------------------------- MODULE MCOxrHost -----------------------------
(* Handles of one kind are interchangeable, and so are layers.             *)
EXTENDS HostGraphics, TLC

HandleSymmetry == Permutations(Instances) \cup Permutations(Sessions)
                    \cup Permutations(Spaces) \cup Permutations(Fences)
                    \cup Permutations(Quads) \cup Permutations(Contexts)
=============================================================================
