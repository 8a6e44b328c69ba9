---- MODULE MCIpcBridge ----
EXTENDS IpcBridge, TLC
ThreadSymmetry == Permutations(Threads)
====
