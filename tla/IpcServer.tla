------------------------------ MODULE IpcServer ------------------------------
(***************************************************************************)
(* The host server process: main() and its signal handler                  *)
(* (src/host/src/waydroid_xr_server.c), the life of the IpcServer object,  *)
(* its listener thread and its message handlers                            *)
(* (src/host/src/ipc_server.c), across exits, crashes and restarts.        *)
(*                                                                         *)
(* main() starts a thread and, on a signal, tells it to stop through       *)
(* should_stop, joins it and frees the server.  The thread main() starts   *)
(* runs ipc_server_listen(), which accepts nobody; the accept loop,        *)
(* server_listen_thread(), is in the same file and nothing starts it.      *)
(* Listener says which of the two the thread runs.                         *)
(*                                                                         *)
(* What is abstracted.  A message and its reply are one unit each; of a    *)
(* payload only its being too short is kept, of a reply only whether it    *)
(* carries an answer of the OpenXR runtime (for an error code: 0) and, as  *)
(* a history, whether the runtime really did what was asked.  Accesses to  *)
(* the volatile flags are atomic.                                          *)
(*                                                                         *)
(* Another server process may be started or end at any time: it takes, or  *)
(* removes, the socket file whoever has put it there, as this one does.    *)
(*                                                                         *)
(* The guests are the environment: they connect when the socket listens    *)
(* and its backlog has room, send, read and close when they like.          *)
(***************************************************************************)
EXTENDS Integers, Sequences, MessageTypes

CONSTANTS
    Conns,          \* slots for connections, used again once closed
    NoConn,         \* the value of client.sd when it is -1
    Listener,       \* the function the listener thread runs
    Backlog,        \* the backlog given to listen(): 1 in the code
    Sent,           \* the messages the guests of this instance send
    Signals,        \* do SIGINT and SIGTERM come?
    Rivals,         \* are there other server processes?
    MaxInFlight     \* bound: messages in flight on one connection

VARIABLES
    g_should_stop,  \* set by the signal handler
    main,           \* where main() is
    should_stop,    \* server->should_stop
    oxr_host,       \* server->oxr_host: "absent", "no_session", "session"
    client,         \* server->client.sd
    connected,      \* server->client.connected
    listener,       \* where the listener thread is
    path,           \* the socket file: "none", "own", "other" (of another
                    \* process, dead or alive)
    robbed,         \* history: has another process touched it since it was bound?
    listening,      \* is server->listen_sd listening?
    queue,          \* connections it has queued
    hostEnd,        \* the host's end of each connection
    guestEnd,       \* is the guest's end of each connection open?
    c2s,            \* requests in flight on each connection
    s2c,            \* replies in flight on each connection
    late            \* history: messages handled since should_stop was set

memory  == <<should_stop, oxr_host, client, connected>>
process == <<g_should_stop, main, listener, late>>
file    == <<path, robbed>>
socket  == <<file, listening, queue>>
conns   == <<hostEnd, guestEnd, c2s, s2c>>
vars    == <<process, memory, socket, conns>>

Bodies == {"ipc_server_listen", "server_listen_thread"}

(* The requests of enum WaydroidXrMsgType.  Two of them have no case in    *)
(* handle_client_message(), two have a payload that can be too short.      *)
WithPayload == {"REQUEST_REFRESH_RATE", "SWAPCHAIN_FRAME_END"}
ReplyTo == [PING                    |-> "PONG",
            QUERY_CAPS              |-> "CAPS_RESPONSE",
            ENUMERATE_REFRESH_RATES |-> "ENUMERATE_REFRESH_RATES_RESP",
            GET_REFRESH_RATE        |-> "GET_REFRESH_RATE_RESP",
            REQUEST_REFRESH_RATE    |-> "REQUEST_REFRESH_RATE_RESP",
            SWAPCHAIN_FRAME_END     |-> "SWAPCHAIN_FRAME_RESP"]
Unhandled == {"GET_HAND_MESH", "SWAPCHAIN_FRAME_BEGIN"}

Messages == {m \in [type : DOMAIN ReplyTo \cup Unhandled, short : BOOLEAN] :
                m.short => m.type \in WithPayload}
Replies  == [type : {ReplyTo[q] : q \in DOMAIN ReplyTo}, good : BOOLEAN, done : BOOLEAN]

ASSUME NoConnAssumption   == NoConn \notin Conns
ASSUME ListenerAssumption == Listener \in Bodies
ASSUME SentAssumption     == Sent \subseteq Messages
ASSUME SignalsAssumption  == Signals \in BOOLEAN /\ Rivals \in BOOLEAN
ASSUME BoundsAssumption   == Backlog \in Nat /\ MaxInFlight \in Nat

Runtimes == {"absent", "no_session", "session"}

Init ==
    /\ g_should_stop = FALSE
    /\ main = "off"
    /\ should_stop = FALSE
    /\ oxr_host = "absent"
    /\ client = NoConn
    /\ connected = FALSE
    /\ listener = "none"
    /\ path \in {"none", "other"}
    /\ robbed = FALSE
    /\ listening = FALSE
    /\ queue = <<>>
    /\ hostEnd = [k \in Conns |-> "none"]
    /\ guestEnd = [k \in Conns |-> FALSE]
    /\ c2s = [k \in Conns |-> <<>>]
    /\ s2c = [k \in Conns |-> <<>>]
    /\ late = 0

(***************************************************************************)
(* Helpers.                                                                *)
(***************************************************************************)

(* The host's ends of the connections in K are closed; what was not read   *)
(* there is lost.                                                          *)
CloseHostEnds(K) ==
    /\ hostEnd' = [k \in Conns |-> IF k \in K THEN "none" ELSE hostEnd[k]]
    /\ c2s' = [k \in Conns |-> IF k \in K THEN <<>> ELSE c2s[k]]
    /\ UNCHANGED <<guestEnd, s2c>>

Queued == {k \in Conns : hostEnd[k] = "queued"}

(* Closing the listening socket resets what nobody accepted.               *)
StopListening == listening' = FALSE /\ queue' = <<>>

Goto(l) == main' = l /\ UNCHANGED <<g_should_stop, listener, late>>
Step(l) == listener' = l /\ UNCHANGED <<g_should_stop, main>>

(* The process ends; its memory is gone.                                   *)
Exit ==
    /\ main' = "off"
    /\ g_should_stop' = FALSE /\ listener' = "none" /\ late' = 0
    /\ should_stop' = FALSE /\ oxr_host' = "absent"
    /\ client' = NoConn /\ connected' = FALSE

(* Mutant: the socket file stays.                                          *)
ServerDestroyKeepsFile ==
    /\ StopListening
    /\ UNCHANGED file
    /\ CloseHostEnds(Queued \cup {client})

(* ipc_server_destroy(), which removes the file whosever it is; main()    *)
(* exits after it.                                                         *)
ServerDestroy ==
    /\ StopListening
    /\ path' = "none" /\ UNCHANGED robbed
    /\ CloseHostEnds(Queued \cup {client})

(***************************************************************************)
(* main() and ipc_server_create(), _stop() and _destroy().                 *)
(***************************************************************************)
Start ==
    /\ main = "off"
    /\ Goto("bind")
    /\ UNCHANGED <<memory, socket, conns>>

(* socket() fails; or the file there is unlinked, be its server alive or   *)
(* not, and bind() fails or not.                                           *)
CreateBind ==
    /\ main = "bind"
    /\ \/ Exit /\ path' \in {path, "none"} /\ UNCHANGED robbed
       \/ Goto("listen") /\ path' = "own" /\ robbed' = FALSE /\ UNCHANGED memory
    /\ UNCHANGED <<listening, queue, conns>>

CreateListen ==
    /\ main = "listen"
    /\ \/ Exit /\ path' = "none" /\ UNCHANGED listening
       \/ Goto("host") /\ listening' = TRUE /\ UNCHANGED <<path, memory>>
    /\ UNCHANGED <<robbed, queue, conns>>

(* oxr_host_init() may find no runtime; the server goes on without one.    *)
(* Nothing in the program ever calls oxr_host_create_session().            *)
CreateHost ==
    /\ main = "host"
    /\ oxr_host' \in {"absent", "no_session"}
    /\ Goto("spawn")
    /\ UNCHANGED <<should_stop, client, connected, socket, conns>>

Spawn ==
    /\ main = "spawn"
    /\ main' = "wait"
    /\ listener' = IF Listener = "ipc_server_listen" THEN "reset" ELSE "loop"
    /\ UNCHANGED <<g_should_stop, late, memory, socket, conns>>

SpawnFails ==
    /\ main = "spawn"
    /\ ServerDestroy
    /\ Exit

SeeSignal ==
    /\ main = "wait"
    /\ g_should_stop
    /\ Goto("stop")
    /\ UNCHANGED <<memory, socket, conns>>

(* Mutant: ipc_server_stop() leaves the flag alone.                        *)
StopForgets ==
    /\ main = "stop"
    /\ Goto("join")
    /\ UNCHANGED <<memory, socket, conns>>

Stop ==
    /\ main = "stop"
    /\ should_stop' = TRUE
    /\ Goto("join")
    /\ UNCHANGED <<oxr_host, client, connected, socket, conns>>

(* Mutant: the thread is not waited for.                                   *)
JoinSkipped ==
    /\ main = "join"
    /\ Goto("destroy")
    /\ UNCHANGED <<memory, socket, conns>>

Join ==
    /\ main = "join"
    /\ listener = "returned"
    /\ Goto("destroy")
    /\ UNCHANGED <<memory, socket, conns>>

Destroy ==
    /\ main = "destroy"
    /\ ServerDestroy
    /\ Exit

(***************************************************************************)
(* Signals and crashes.                                                    *)
(***************************************************************************)

(* The handler runs on some thread.  select() in the listener is not       *)
(* restarted after it: the loop breaks.  (recv() and sleep() go on.)       *)
Signal ==
    /\ Signals
    /\ main # "off"
    /\ g_should_stop' = TRUE
    /\ listener' \in {listener} \cup (IF listener = "select" THEN {"returned"} ELSE {})
    /\ UNCHANGED <<main, late, memory, socket, conns>>

(* The process is killed: the kernel closes its sockets, the file stays.   *)
Crash ==
    /\ main # "off"
    /\ StopListening
    /\ CloseHostEnds(Conns)
    /\ Exit
    /\ path' = IF path = "own" THEN "other" ELSE path
    /\ UNCHANGED robbed

(* Another server process is created, or destroyed.                        *)
Rival ==
    /\ Rivals
    /\ path' \in {"none", "other"}
    /\ robbed' = TRUE
    /\ UNCHANGED <<process, memory, listening, queue, conns>>

(***************************************************************************)
(* The listener thread as main() starts it: ipc_server_listen().           *)
(***************************************************************************)
ListenReset ==
    /\ listener = "reset"
    /\ should_stop' = FALSE
    /\ Step("sleep")
    /\ UNCHANGED <<late, oxr_host, client, connected, socket, conns>>

ListenReturns ==
    /\ listener = "sleep"
    /\ should_stop
    /\ Step("returned")
    /\ UNCHANGED <<late, memory, socket, conns>>

(***************************************************************************)
(* The accept loop: server_listen_thread().                                *)
(***************************************************************************)
LoopTop ==
    /\ listener = "loop"
    /\ Step(IF should_stop THEN "returned" ELSE "select")
    /\ UNCHANGED <<late, memory, socket, conns>>

(* Nobody connected within a second; or accept() failed.                   *)
NobodyAccepted ==
    /\ listener = "select"
    /\ Step("loop")
    /\ UNCHANGED <<late, memory, socket, conns>>

Accept ==
    /\ listener = "select"
    /\ queue # <<>>
    /\ client' = Head(queue)
    /\ connected' = TRUE
    /\ queue' = Tail(queue)
    /\ hostEnd' = [hostEnd EXCEPT ![Head(queue)] = "accepted"]
    /\ Step("inner")
    /\ UNCHANGED <<late, should_stop, oxr_host, file, listening, guestEnd, c2s, s2c>>

(* Mutant: a client is served until it leaves, stop or no stop.            *)
ServeOnHeedless ==
    /\ listener = "inner"
    /\ connected
    /\ Step("recv")
    /\ UNCHANGED <<late, memory, socket, conns>>

ServeOn ==
    /\ listener = "inner"
    /\ connected /\ ~should_stop
    /\ Step("recv")
    /\ UNCHANGED <<late, memory, socket, conns>>

(* Mutant: the closed descriptor stays in client.sd.                       *)
CloseClientKeepsSd ==
    /\ listener = "inner"
    /\ ~connected \/ should_stop
    /\ CloseHostEnds({client})
    /\ Step("loop")
    /\ UNCHANGED <<late, memory, socket>>

(* Mutant: the thread ends with its first client.                          *)
CloseClientReturns ==
    /\ listener = "inner"
    /\ ~connected \/ should_stop
    /\ CloseHostEnds({client})
    /\ client' = NoConn
    /\ Step("returned")
    /\ UNCHANGED <<late, should_stop, oxr_host, connected, socket>>

CloseClient ==
    /\ listener = "inner"
    /\ ~connected \/ should_stop
    /\ CloseHostEnds({client})
    /\ client' = NoConn
    /\ Step("loop")
    /\ UNCHANGED <<late, should_stop, oxr_host, connected, socket>>

(***************************************************************************)
(* handle_client_message() and its handlers.                               *)
(***************************************************************************)
Handled(m) == m.type \in DOMAIN ReplyTo /\ ~m.short

(* Requests the runtime has a part in.                                     *)
AskRuntime == {"ENUMERATE_REFRESH_RATES", "GET_REFRESH_RATE", "REQUEST_REFRESH_RATE"}

(* Mutant: the reply carries the type of the request.                      *)
ReplyEchoesType(m) ==
    [type |-> m.type, good |-> TRUE, done |-> oxr_host # "absent"]

(* Without a runtime: no rates, a rate of 0, an error.  A frame is         *)
(* acknowledged without an error whether oxr_host_submit_layer() took its  *)
(* layer or not; it takes none without a session.                          *)
Reply(m) ==
    [type |-> ReplyTo[m.type],
     good |-> m.type \in AskRuntime => oxr_host # "absent",
     done |-> /\ m.type \in AskRuntime => oxr_host # "absent"
              /\ m.type = "SWAPCHAIN_FRAME_END" => oxr_host = "session"]

(* Mutant: a message is answered and stays in the stream.                  *)
HandleMessageAgain ==
    /\ listener = "recv"
    /\ c2s[client] # <<>>
    /\ LET m    == Head(c2s[client])
           sent == Handled(m) /\ guestEnd[client]
       IN /\ connected' = sent
          /\ s2c' = IF sent THEN [s2c EXCEPT ![client] = Append(@, Reply(m))] ELSE s2c
    /\ late' = IF should_stop THEN late + 1 ELSE late
    /\ Step("inner")
    /\ UNCHANGED <<should_stop, oxr_host, client, socket, hostEnd, guestEnd, c2s>>

(* A handler that cannot send, or that finds a message it does not know or *)
(* a payload too short, ends the connection.                               *)
HandleMessage ==
    /\ listener = "recv"
    /\ c2s[client] # <<>>
    /\ LET m    == Head(c2s[client])
           sent == Handled(m) /\ guestEnd[client]
       IN /\ connected' = sent
          /\ s2c' = IF sent THEN [s2c EXCEPT ![client] = Append(@, Reply(m))] ELSE s2c
    /\ c2s' = [c2s EXCEPT ![client] = Tail(@)]
    /\ late' = IF should_stop THEN late + 1 ELSE late
    /\ Step("inner")
    /\ UNCHANGED <<should_stop, oxr_host, client, socket, hostEnd, guestEnd>>

(* recv() finds the guest's end closed.                                    *)
GuestLeft ==
    /\ listener = "recv"
    /\ c2s[client] = <<>>
    /\ ~guestEnd[client]
    /\ connected' = FALSE
    /\ Step("inner")
    /\ UNCHANGED <<late, should_stop, oxr_host, client, socket, conns>>

(***************************************************************************)
(* The guests.                                                             *)
(***************************************************************************)
Connect(k) ==
    /\ ~guestEnd[k] /\ hostEnd[k] = "none"
    /\ path = "own" /\ listening
    /\ Len(queue) <= Backlog
    /\ queue' = Append(queue, k)
    /\ guestEnd' = [guestEnd EXCEPT ![k] = TRUE]
    /\ hostEnd' = [hostEnd EXCEPT ![k] = "queued"]
    /\ UNCHANGED <<process, memory, file, listening, c2s, s2c>>

Send(k) ==
    /\ guestEnd[k] /\ hostEnd[k] # "none"
    /\ Len(c2s[k]) + Len(s2c[k]) < MaxInFlight
    /\ \E m \in Sent : c2s' = [c2s EXCEPT ![k] = Append(@, m)]
    /\ UNCHANGED <<process, memory, socket, hostEnd, guestEnd, s2c>>

Receive(k) ==
    /\ guestEnd[k]
    /\ s2c[k] # <<>>
    /\ s2c' = [s2c EXCEPT ![k] = Tail(@)]
    /\ UNCHANGED <<process, memory, socket, hostEnd, guestEnd, c2s>>

Leave(k) ==
    /\ guestEnd[k]
    /\ guestEnd' = [guestEnd EXCEPT ![k] = FALSE]
    /\ s2c' = [s2c EXCEPT ![k] = <<>>]
    /\ UNCHANGED <<process, memory, socket, hostEnd, c2s>>

(***************************************************************************)
(* The specification.                                                      *)
(***************************************************************************)
MainStep ==
    \/ CreateBind \/ CreateListen \/ CreateHost \/ Spawn \/ SpawnFails
    \/ SeeSignal \/ Stop \/ Join \/ Destroy

ListenerStep ==
    \/ ListenReset \/ ListenReturns
    \/ LoopTop \/ NobodyAccepted \/ Accept \/ ServeOn \/ CloseClient
    \/ HandleMessage \/ GuestLeft

Guests == \E k \in Conns : Connect(k) \/ Send(k) \/ Receive(k) \/ Leave(k)

Next == Start \/ MainStep \/ Signal \/ Crash \/ Rival \/ ListenerStep \/ Guests

(* Both threads are scheduled, and while connections are queued accept()   *)
(* does not fail for ever.  Nothing makes a guest do anything, or a signal *)
(* come.                                                                   *)
Fairness == WF_vars(MainStep) /\ WF_vars(ListenerStep) /\ SF_vars(Accept)

Spec     == Init /\ [][Next]_vars
FairSpec == Spec /\ Fairness

(***************************************************************************)
(* Properties.                                                             *)
(***************************************************************************)
MainPlaces == {"off", "bind", "listen", "host", "spawn", "wait", "stop", "join", "destroy"}
Running    == {"reset", "sleep", "loop", "select", "inner", "recv"}

(* The variables have the types of the code's.                             *)
TypeOK ==
    /\ g_should_stop \in BOOLEAN /\ should_stop \in BOOLEAN
    /\ main \in MainPlaces
    /\ oxr_host \in Runtimes
    /\ client \in Conns \cup {NoConn} /\ connected \in BOOLEAN
    /\ listener \in Running \cup {"none", "returned"}
    /\ path \in {"none", "own", "other"} /\ robbed \in BOOLEAN
    /\ listening \in BOOLEAN
    /\ queue \in Seq(Conns)
    /\ hostEnd \in [Conns -> {"none", "queued", "accepted"}]
    /\ guestEnd \in [Conns -> BOOLEAN]
    /\ c2s \in [Conns -> Seq(Messages)]
    /\ s2c \in [Conns -> Seq(Replies)]
    /\ late \in Nat

(* main() frees the server, and closes its sockets, only when no listener  *)
(* thread can touch them any more, whatever the order of signal, stop and  *)
(* the thread's start (waydroid_xr_server.c 58-80).                        *)
NoUseAfterFree == listener \in Running => main \in {"wait", "stop", "join"}

(* Every connection is in exactly one place: the backlog, once, or         *)
(* client.sd.  None leaks, none is closed twice: ipc_server_destroy() never *)
(* sees a client.sd the listener has closed (ipc_server.c 461-480, 541-558)*)
(* and nothing is queued where nobody listens.                             *)
ConnectionsAccounted ==
    /\ {k \in Conns : hostEnd[k] = "accepted"} = {client} \ {NoConn}
    /\ client # NoConn => listener \in {"inner", "recv"}
    /\ {queue[i] : i \in DOMAIN queue} = Queued
    /\ \A i, j \in DOMAIN queue : queue[i] = queue[j] => i = j
    /\ queue # <<>> => listening

(* Whatever file it found, that of a crashed server or of one that still   *)
(* runs, a server is found under the path from bind() until it exits,      *)
(* unless another process has touched the file since; and it leaves no     *)
(* file of its own behind but by a crash (ipc_server.c 504-524, 552-555).  *)
SocketFileAccounted ==
    /\ main \notin {"off", "bind"} /\ ~robbed => path = "own"
    /\ main \in {"off", "bind"} => path # "own"

(* Once ipc_server_stop() has set should_stop, at most one more message is *)
(* handled: the one the listener was already waiting for.                  *)
StopServesAtMostOne == late <= 1

(* On each connection the server is the host the guest's bridge relies on: *)
(* one reply per request, in order and of its type, until an end closes;   *)
(* once a handler failed, nothing more is answered there                   *)
(* (handle_client_message() and the accept loop implement HostChannel).    *)
Serving(k) == hostEnd[k] = "queued" \/ (client = k /\ connected)

Channel(k) == INSTANCE HostChannel WITH
    client <- guestEnd[k],
    host   <- Serving(k),
    c2s    <- IF Serving(k) THEN Types(c2s[k]) ELSE <<>>,
    s2c    <- Types(s2c[k])

ImplementsHostChannel ==
    /\ \A k \in Conns : Channel(k)!Init
    /\ [][\A k \in Conns : [Channel(k)!Next]_(Channel(k)!vars)]_vars

(* The listener waits for a guest that keeps its end open and sends        *)
(* nothing: recv() has no timeout, and stopping does not end it.           *)
HeldUp == listener = "recv" /\ guestEnd[client] /\ c2s[client] = <<>>

(* ipc_server_listen() "returns when signaled to stop" (ipc_server.h:47),  *)
(* unless a silent guest holds it up: main()'s pthread_join() returns.     *)
StopHeeded == (main = "join") ~> (main # "join" \/ HeldUp)

(* ipc_server_listen() "starts accepting connections" (ipc_server.h:45):   *)
(* a connection does not stay in the backlog for ever, as long as the one  *)
(* guest the thread serves at a time does not stay for ever.               *)
ConnectionsAccepted ==
    []<>(client = NoConn) =>
        \A k \in Conns : (hostEnd[k] = "queued") ~> (hostEnd[k] # "queued")

(* As main() starts it, the listener thread ends if the signal comes after *)
(* its first assignment: only a stop before that is lost.                  *)
LaterStopHeeded == (listener = "sleep" /\ main = "wait" /\ g_should_stop) ~> (main = "off")

(***************************************************************************)
(* A property the documentation states and the code does not have.         *)
(***************************************************************************)

(* A frame's response signals "any error status", "0 = success"            *)
(* (ipc_bridge.h:184-187): no reply without an error to what was not done. *)
RepliesTruthful ==
    \A k \in Conns : \A i \in DOMAIN s2c[k] : s2c[k][i].good => s2c[k][i].done
=============================================================================
