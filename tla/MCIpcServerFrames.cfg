SPECIFICATION FairSpec
CONSTANTS
 Conns = {k1}
 NoConn = NoConn
 Listener = "server_listen_thread"
 Backlog = 1
 Sent <- MCFrames
 Signals = TRUE
 Rivals = FALSE
 MaxInFlight = 1
INVARIANT RepliesTruthful
