SPECIFICATION FairSpec
CONSTANTS
 Conns = {k1, k2}
 NoConn = NoConn
 Listener = "ipc_server_listen"
 Backlog = 1
 Sent <- MCSent
 Signals = TRUE
 Rivals = TRUE
 MaxInFlight = 1
INVARIANTS NoUseAfterFree SocketFileAccounted
PROPERTIES LaterStopHeeded
