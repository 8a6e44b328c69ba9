SPECIFICATION Spec
CONSTANTS
 Threads = {t1, t2}
 NoThread = NoThread
 Descriptors = {3}
 SeqMod = 3
 HostHandMesh = TRUE
 Interrupts = FALSE
 MaxBuffered = 2
SYMMETRY ThreadSymmetry
PROPERTY StubsWithoutHost
