SPECIFICATION FairSpec
CONSTANTS
 Conns = {k1, k2}
 NoConn = NoConn
 Listener = "server_listen_thread"
 Backlog = 1
 Sent <- MCSent
 Signals = TRUE
 Rivals = FALSE
 MaxInFlight = 2
INVARIANTS TypeOK NoUseAfterFree ConnectionsAccounted StopServesAtMostOne
PROPERTIES ImplementsHostChannel StopHeeded ConnectionsAccepted
