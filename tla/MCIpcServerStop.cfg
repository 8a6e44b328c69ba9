SPECIFICATION FairSpec
CONSTANTS
 Conns = {k1}
 NoConn = NoConn
 Listener = "ipc_server_listen"
 Backlog = 1
 Sent <- MCSent
 Signals = TRUE
 Rivals = FALSE
 MaxInFlight = 1
PROPERTY StopHeeded
