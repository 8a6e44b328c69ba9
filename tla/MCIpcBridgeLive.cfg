SPECIFICATION FairSpec
CONSTANTS
 Threads = {t1, t2}
 NoThread = NoThread
 Descriptors = {3}
 SeqMod = 3
 HostHandMesh = FALSE
 Interrupts = FALSE
 MaxBuffered = 1
PROPERTIES LockReleased
