SPECIFICATION Spec
CONSTANTS
 Threads = {t1, t2}
 NoThread = NoThread
 Descriptors = {3, 4}
 SeqMod = 3
 HostHandMesh = TRUE
 Interrupts = TRUE
 MaxBuffered = 2
SYMMETRY ThreadSymmetry
INVARIANTS TypeOK Lockstep DescriptorsAccounted CapsBeforeConnected NobodyWaitsInVain
PROPERTIES OnlyInterruptsDesync NoCloseInFlight ChannelUntilInterrupted RemoteUntilInterrupted
