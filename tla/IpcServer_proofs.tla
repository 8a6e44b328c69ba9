--------------------------- MODULE IpcServer_proofs ---------------------------
(***************************************************************************)
(* Proofs about the host server: what main() frees, which connection is    *)
(* where, whose the socket file is, and how long the server serves after a *)
(* stop, for any number of connections, any messages and either listener.  *)
(***************************************************************************)
EXTENDS IpcServer, TLAPS

(* How far main() has come says whether there can be a listener thread and *)
(* a listening socket; a client is served exactly between accept() and     *)
(* close().                                                                *)
Phases ==
    /\ listener # "none" => main \in {"wait", "stop", "join", "destroy"}
    /\ listening => main \notin {"off", "bind", "listen"}
    /\ listener \in {"inner", "recv"} => client # NoConn

(* The message handled after a stop is the last: nothing leads back to     *)
(* recv().                                                                 *)
LateLast ==
    /\ late <= 1
    /\ late > 0 => should_stop /\ listener \in {"inner", "loop", "returned"}

Control == NoUseAfterFree /\ Phases

IInv == TypeOK /\ Control /\ ConnectionsAccounted /\ LateLast /\ SocketFileAccounted

LEMMA Streams ==
    ASSUME NEW S, NEW s \in Seq(S)
    PROVE  /\ s # <<>> => Head(s) \in S /\ Tail(s) \in Seq(S)
           /\ <<>> \in Seq(S)
           /\ \A m \in S : Append(s, m) \in Seq(S)
OBVIOUS

(* What a handler sends is one of the protocol's replies.                  *)
LEMMA ReplyType ==
    ASSUME NEW m \in Messages, Handled(m)
    PROVE  Reply(m) \in Replies
BY DEF Handled, Reply, Replies

LEMMA Empty == <<>> \in Seq(Conns) /\ <<>> \in Seq(Messages) /\ <<>> \in Seq(Replies)
OBVIOUS

LEMMA TypeInit == Init => TypeOK
<1>. SUFFICES ASSUME Init PROVE TypeOK  OBVIOUS
<1>1. /\ c2s \in [Conns -> Seq(Messages)] /\ s2c \in [Conns -> Seq(Replies)]
      /\ queue \in Seq(Conns)
  BY Empty DEF Init
<1>2. guestEnd \in [Conns -> BOOLEAN]  BY DEF Init
<1>3. hostEnd \in [Conns -> {"none", "queued", "accepted"}]  BY DEF Init
<1>. QED  BY <1>1, <1>2, <1>3 DEF Init, TypeOK, MainPlaces, Running, Runtimes

LEMMA TypeExit ==
    Exit => /\ g_should_stop' \in BOOLEAN /\ should_stop' \in BOOLEAN
            /\ main' \in MainPlaces /\ oxr_host' \in Runtimes
            /\ client' \in Conns \cup {NoConn} /\ connected' \in BOOLEAN
            /\ listener' \in Running \cup {"none", "returned"}
            /\ late' \in Nat
<1>. SUFFICES ASSUME Exit
              PROVE  /\ main' \in MainPlaces /\ oxr_host' \in Runtimes
                     /\ client' \in Conns \cup {NoConn}
                     /\ listener' \in Running \cup {"none", "returned"}
                     /\ late' \in Nat
  BY DEF Exit
<1>. QED  BY DEF Exit, MainPlaces, Runtimes

LEMMA TypeCloseEnds ==
    ASSUME TypeOK, NEW K, CloseHostEnds(K)
    PROVE  /\ hostEnd' \in [Conns -> {"none", "queued", "accepted"}]
           /\ guestEnd' \in [Conns -> BOOLEAN]
           /\ c2s' \in [Conns -> Seq(Messages)]
           /\ s2c' \in [Conns -> Seq(Replies)]
<1>1. hostEnd' \in [Conns -> {"none", "queued", "accepted"}]
  BY DEF TypeOK, CloseHostEnds
<1>2. c2s' \in [Conns -> Seq(Messages)]
  <2>1. \A k \in Conns : (IF k \in K THEN <<>> ELSE c2s[k]) \in Seq(Messages)
    BY Empty DEF TypeOK
  <2>. QED  BY <2>1 DEF CloseHostEnds
<1>. QED  BY <1>1, <1>2 DEF TypeOK, CloseHostEnds

(* main(): every step keeps the types.                                     *)
LEMMA TypeMain == TypeOK /\ MainStep => TypeOK'
<1>. SUFFICES ASSUME TypeOK, MainStep PROVE TypeOK'  OBVIOUS
<1>. USE DEF process, memory, file, socket, conns
<1>1. CASE CreateBind
  BY <1>1, TypeExit DEF TypeOK, CreateBind, Goto, MainPlaces
<1>2. CASE CreateListen
  BY <1>2, TypeExit DEF TypeOK, CreateListen, Goto, MainPlaces
<1>3. CASE CreateHost
  BY <1>3 DEF TypeOK, CreateHost, Goto, MainPlaces, Runtimes
<1>4. CASE Spawn
  BY <1>4 DEF TypeOK, Spawn, MainPlaces, Running
<1>5. CASE SpawnFails \/ Destroy
  BY <1>5, TypeExit, TypeCloseEnds, Empty
  DEF TypeOK, SpawnFails, Destroy, ServerDestroy, StopListening
<1>6. CASE SeeSignal \/ Stop \/ Join
  BY <1>6 DEF TypeOK, SeeSignal, Stop, Join, Goto, MainPlaces
<1>. QED  BY <1>1, <1>2, <1>3, <1>4, <1>5, <1>6 DEF MainStep

(* The listener thread: a message is taken from a stream and its reply put *)
(* on the other.                                                           *)
LEMMA TypeListener == TypeOK /\ Phases /\ ListenerStep => TypeOK'
<1>. SUFFICES ASSUME TypeOK, Phases, ListenerStep PROVE TypeOK'  OBVIOUS
<1>. USE DEF process, memory, file, socket, conns
<1>1. CASE ListenReset \/ ListenReturns \/ LoopTop \/ NobodyAccepted \/ ServeOn
  BY <1>1 DEF TypeOK, ListenReset, ListenReturns, LoopTop, NobodyAccepted, ServeOn, Step, Running
<1>2. CASE Accept
  <2>1. Head(queue) \in Conns /\ Tail(queue) \in Seq(Conns)
    BY <1>2, Streams DEF TypeOK, Accept
  <2>. QED  BY <1>2, <2>1 DEF TypeOK, Accept, Step, Running
<1>3. CASE CloseClient
  BY <1>3, TypeCloseEnds DEF TypeOK, CloseClient, Step, Running
<1>4. CASE HandleMessage
  <2>. DEFINE m == Head(c2s[client])
              sent == Handled(m) /\ guestEnd[client]
  <2>1. client \in Conns  BY <1>4 DEF HandleMessage, Phases, TypeOK
  <2>2. m \in Messages /\ Tail(c2s[client]) \in Seq(Messages)
    BY <1>4, <2>1, Streams DEF HandleMessage, TypeOK
  <2>3. c2s' \in [Conns -> Seq(Messages)]
    BY <1>4, <2>1, <2>2 DEF HandleMessage, TypeOK
  <2>4. ASSUME sent PROVE Append(s2c[client], Reply(m)) \in Seq(Replies)
    <3>1. Reply(m) \in Replies  BY <2>2, <2>4, ReplyType
    <3>. QED  BY <3>1, <2>1, Streams DEF TypeOK
  <2>5. s2c' = IF sent THEN [s2c EXCEPT ![client] = Append(@, Reply(m))] ELSE s2c
    BY <1>4 DEF HandleMessage
  <2>6. s2c' \in [Conns -> Seq(Replies)]
    <3>. HIDE DEF sent, m
    <3>. QED  BY <2>4, <2>5 DEF TypeOK
  <2>7. connected' \in BOOLEAN
    BY <1>4 DEF HandleMessage, Handled, TypeOK
  <2>8. late' \in Nat  BY <1>4 DEF HandleMessage, TypeOK
  <2>. QED  BY <1>4, <2>3, <2>6, <2>7, <2>8 DEF TypeOK, HandleMessage, Step, Running
<1>5. CASE GuestLeft
  BY <1>5 DEF TypeOK, GuestLeft, Step, Running
<1>. QED  BY <1>1, <1>2, <1>3, <1>4, <1>5 DEF ListenerStep

LEMMA TypeGuests == TypeOK /\ Guests => TypeOK'
<1>. SUFFICES ASSUME TypeOK, NEW k \in Conns, Connect(k) \/ Send(k) \/ Receive(k) \/ Leave(k)
              PROVE TypeOK'
  BY DEF Guests
<1>. USE DEF process, memory, file, socket, conns
<1>1. CASE Connect(k)
  <2>1. queue' \in Seq(Conns)  BY <1>1, Streams DEF TypeOK, Connect
  <2>. QED  BY <1>1, <2>1 DEF TypeOK, Connect
<1>2. CASE Send(k)
  <2>1. \A m \in Sent : Append(c2s[k], m) \in Seq(Messages)
    BY SentAssumption, Streams DEF TypeOK
  <2>2. c2s' \in [Conns -> Seq(Messages)]  BY <1>2, <2>1 DEF TypeOK, Send
  <2>. QED  BY <1>2, <2>2 DEF TypeOK, Send
<1>3. CASE Receive(k)
  <2>1. Tail(s2c[k]) \in Seq(Replies)  BY <1>3, Streams DEF TypeOK, Receive
  <2>. QED  BY <1>3, <2>1 DEF TypeOK, Receive
<1>4. CASE Leave(k)
  <2>1. s2c' \in [Conns -> Seq(Replies)]  BY <1>4, Empty DEF TypeOK, Leave
  <2>2. guestEnd' \in [Conns -> BOOLEAN]  BY <1>4 DEF TypeOK, Leave
  <2>. QED  BY <1>4, <2>1, <2>2 DEF TypeOK, Leave
<1>. QED  BY <1>1, <1>2, <1>3, <1>4

LEMMA TypeStep == TypeOK /\ Phases /\ [Next]_vars => TypeOK'
<1>. SUFFICES ASSUME TypeOK, Phases, [Next]_vars PROVE TypeOK'  OBVIOUS
<1>. USE DEF process, memory, file, socket, conns
<1>1. CASE Start
  BY <1>1 DEF TypeOK, Start, Goto, MainPlaces
<1>4. CASE Signal
  <2>1. listener' \in Running \cup {"none", "returned"}  BY <1>4 DEF TypeOK, Signal
  <2>. QED  BY <1>4, <2>1 DEF TypeOK, Signal
<1>2. CASE Crash
  BY <1>2, TypeExit, TypeCloseEnds, Empty DEF TypeOK, Crash, StopListening
<1>5. CASE Rival
  BY <1>5 DEF TypeOK, Rival
<1>3. CASE UNCHANGED vars
  BY <1>3 DEF TypeOK, vars
<1>. QED  BY <1>1, <1>2, <1>3, <1>4, <1>5, TypeMain, TypeListener, TypeGuests DEF Next

(***************************************************************************)
(* The listener thread and main().                                         *)
(***************************************************************************)
LEMMA ControlStep == TypeOK /\ Control /\ [Next]_vars => Control'
<1>. SUFFICES ASSUME TypeOK, Control, [Next]_vars PROVE Control'  OBVIOUS
<1>. USE DEF Control, NoUseAfterFree, Phases, Running, process, memory, file, socket, conns
<1>1. CASE Start  BY <1>1 DEF Start, Goto
<1>11. CASE CreateBind  BY <1>11 DEF CreateBind, Goto, Exit
<1>12. CASE CreateListen  BY <1>12 DEF CreateListen, Goto, Exit
<1>13. CASE CreateHost  BY <1>13 DEF CreateHost, Goto
<1>2. CASE Spawn
  BY <1>2, ListenerAssumption DEF Spawn
<1>3. CASE SpawnFails \/ Destroy \/ Crash
  BY <1>3 DEF SpawnFails, Destroy, Crash, ServerDestroy, StopListening, Exit
<1>4. CASE SeeSignal \/ Stop \/ Join
  BY <1>4 DEF SeeSignal, Stop, Join, Goto
<1>5. CASE Signal
  BY <1>5 DEF Signal
<1>6. CASE ListenReset \/ ListenReturns \/ LoopTop \/ NobodyAccepted \/ ServeOn \/ GuestLeft
  <2>1. listener \in {"reset", "sleep", "loop", "select", "inner", "recv"}
    BY <1>6 DEF ListenReset, ListenReturns, LoopTop, NobodyAccepted, ServeOn, GuestLeft
  <2>2. UNCHANGED <<main, listening, client>>
    BY <1>6 DEF ListenReset, ListenReturns, LoopTop, NobodyAccepted, ServeOn, GuestLeft, Step
  <2>3. listener' \in {"inner", "recv"} => listener \in {"inner", "recv"}
    BY <1>6 DEF ListenReset, ListenReturns, LoopTop, NobodyAccepted, ServeOn, GuestLeft, Step
  <2>. QED  BY <2>1, <2>2, <2>3
<1>7. CASE Accept
  <2>1. Head(queue) # NoConn
    BY <1>7, NoConnAssumption, Streams DEF TypeOK, Accept
  <2>. QED  BY <1>7, <2>1 DEF Accept, Step
<1>8. CASE CloseClient \/ HandleMessage
  BY <1>8 DEF CloseClient, HandleMessage, Step
<1>9. CASE Guests
  <2>1. PICK k \in Conns : Connect(k) \/ Send(k) \/ Receive(k) \/ Leave(k)
    BY <1>9 DEF Guests
  <2>2. UNCHANGED <<main, listener, listening, client>>
    BY <2>1 DEF Connect, Send, Receive, Leave
  <2>. QED  BY <2>2
<1>10. CASE UNCHANGED vars
  BY <1>10 DEF vars
<1>14. CASE Rival
  BY <1>14 DEF Rival
<1>. QED
  BY <1>1, <1>2, <1>3, <1>4, <1>5, <1>6, <1>7, <1>8, <1>9, <1>10, <1>11, <1>12, <1>13,
     <1>14
  DEF Next, MainStep, ListenerStep

(***************************************************************************)
(* The connections.                                                        *)
(***************************************************************************)

(* A step that leaves the backlog, the host's ends and client.sd alone.    *)
Untouched ==
    /\ UNCHANGED <<client, listening, queue, hostEnd>>
    /\ client # NoConn => listener' \in {"inner", "recv"}

LEMMA AccountedUntouched == ConnectionsAccounted /\ Untouched => ConnectionsAccounted'
BY DEF ConnectionsAccounted, Untouched, Queued

(* Outside wait, stop and join there is no client, and before host no      *)
(* backlog either.                                                         *)
LEMMA Early ==
    ASSUME Control, ConnectionsAccounted
    PROVE  /\ main \notin {"wait", "stop", "join"} => client = NoConn
           /\ main \in {"off", "bind", "listen"} => queue = <<>>
BY DEF Control, NoUseAfterFree, Phases, ConnectionsAccounted, Running

(* All connections are closed with the server.                             *)
LEMMA AccountedClosed ==
    ASSUME TypeOK, Exit, StopListening, NEW K, CloseHostEnds(K),
           \A k \in Conns : hostEnd[k] # "none" => k \in K
    PROVE  ConnectionsAccounted'
<1>1. \A k \in Conns : hostEnd'[k] = "none"  BY DEF TypeOK, CloseHostEnds
<1>2. queue' = <<>> /\ client' = NoConn  BY DEF StopListening, Exit
<1>. QED  BY <1>1, <1>2 DEF ConnectionsAccounted, Queued

(* Accepting takes the head of the backlog, and only that, out of it.      *)
LEMMA Dequeue ==
    ASSUME NEW S, NEW s \in Seq(S), s # <<>>,
           \A i, j \in DOMAIN s : s[i] = s[j] => i = j
    PROVE  LET r == Tail(s) IN
           /\ {r[i] : i \in DOMAIN r} = {s[i] : i \in DOMAIN s} \ {Head(s)}
           /\ \A i, j \in DOMAIN r : r[i] = r[j] => i = j
<1>. DEFINE r == Tail(s)
<1>1. /\ Len(s) \in Nat /\ Len(s) > 0 /\ DOMAIN s = 1 .. Len(s) /\ Head(s) = s[1]
      /\ DOMAIN r = 1 .. Len(s) - 1
      /\ \A i \in 1 .. Len(s) - 1 : r[i] = s[i + 1]
  OBVIOUS
<1>. HIDE DEF r
<1>2. {r[i] : i \in DOMAIN r} \subseteq {s[i] : i \in DOMAIN s} \ {Head(s)}
  <2>. SUFFICES ASSUME NEW i \in 1 .. Len(s) - 1
                PROVE  \E j \in DOMAIN s : r[i] = s[j] /\ s[j] # s[1]
    BY <1>1
  <2>1. i + 1 \in DOMAIN s /\ 1 \in DOMAIN s /\ i + 1 # 1  BY <1>1
  <2>. QED  BY <1>1, <2>1
<1>3. {s[i] : i \in DOMAIN s} \ {Head(s)} \subseteq {r[i] : i \in DOMAIN r}
  <2>. SUFFICES ASSUME NEW i \in DOMAIN s, s[i] # s[1]
                PROVE  \E j \in DOMAIN r : s[i] = r[j]
    BY <1>1
  <2>1. i - 1 \in 1 .. Len(s) - 1 /\ (i - 1) + 1 = i  BY <1>1
  <2>2. r[i - 1] = s[i]  BY <1>1, <2>1
  <2>. QED  BY <1>1, <2>1, <2>2
<1>4. \A i, j \in DOMAIN r : r[i] = r[j] => i = j
  <2>. SUFFICES ASSUME NEW i \in 1 .. Len(s) - 1, NEW j \in 1 .. Len(s) - 1, r[i] = r[j]
                PROVE  i = j
    BY <1>1
  <2>1. i + 1 \in DOMAIN s /\ j + 1 \in DOMAIN s /\ s[i + 1] = s[j + 1]  BY <1>1
  <2>2. i + 1 = j + 1  BY <2>1
  <2>. QED  BY <2>2
<1>. QED  BY <1>2, <1>3, <1>4 DEF r

(* Connecting puts at the end what was not there.                          *)
LEMMA Enqueue ==
    ASSUME NEW S, NEW s \in Seq(S), NEW x \in S,
           \A i, j \in DOMAIN s : s[i] = s[j] => i = j,
           \A i \in DOMAIN s : s[i] # x
    PROVE  LET r == Append(s, x) IN
           /\ {r[i] : i \in DOMAIN r} = {s[i] : i \in DOMAIN s} \cup {x}
           /\ \A i, j \in DOMAIN r : r[i] = r[j] => i = j
<1>. DEFINE r == Append(s, x)
<1>1. /\ Len(s) \in Nat /\ DOMAIN s = 1 .. Len(s) /\ DOMAIN r = 1 .. Len(s) + 1
      /\ \A i \in 1 .. Len(s) : r[i] = s[i]
      /\ r[Len(s) + 1] = x
  OBVIOUS
<1>. HIDE DEF r
<1>2. \A i \in DOMAIN r : i \in DOMAIN s \/ i = Len(s) + 1  BY <1>1
<1>3. DOMAIN s \subseteq DOMAIN r /\ Len(s) + 1 \in DOMAIN r  BY <1>1
<1>4. {r[i] : i \in DOMAIN r} = {s[i] : i \in DOMAIN s} \cup {x}
  BY <1>1, <1>2, <1>3
<1>5. \A i, j \in DOMAIN r : r[i] = r[j] => i = j
  BY <1>1, <1>2
<1>. QED  BY <1>4, <1>5 DEF r

(* Every step keeps the books of the connections.                          *)
LEMMA AccountedStep ==
    TypeOK /\ Control /\ ConnectionsAccounted /\ [Next]_vars => ConnectionsAccounted'
<1>. SUFFICES ASSUME TypeOK, Control, ConnectionsAccounted, [Next]_vars
              PROVE  ConnectionsAccounted'
  OBVIOUS
<1>. USE DEF process, memory, file, socket, conns
<1>1. CASE Start \/ CreateHost \/ Spawn
  <2>1. main \notin {"wait", "stop", "join"}  BY <1>1 DEF Start, CreateHost, Spawn
  <2>2. client = NoConn  BY <2>1, Early
  <2>. QED  BY <1>1, <2>2, AccountedUntouched DEF Start, CreateHost, Spawn, Goto, Untouched
<1>2. CASE CreateBind \/ CreateListen
  <2>1. main \in {"bind", "listen"}  BY <1>2 DEF CreateBind, CreateListen
  <2>2. client = NoConn /\ queue = <<>>  BY <2>1, Early
  <2>3. UNCHANGED <<client, queue, hostEnd>>
    BY <1>2, <2>2 DEF CreateBind, CreateListen, Goto, Exit
  <2>. QED  BY <2>2, <2>3 DEF ConnectionsAccounted, Queued
<1>3. CASE SpawnFails \/ Destroy
  <2>1. Exit /\ StopListening /\ CloseHostEnds(Queued \cup {client})
    BY <1>3 DEF SpawnFails, Destroy, ServerDestroy
  <2>2. \A k \in Conns : hostEnd[k] # "none" => k \in Queued \cup {client}
    BY DEF TypeOK, ConnectionsAccounted, Queued
  <2>. QED  BY <2>1, <2>2, AccountedClosed
<1>4. CASE Crash
  BY <1>4, AccountedClosed DEF Crash
<1>5. CASE SeeSignal \/ Stop \/ Join \/ Signal
  <2>1. client # NoConn => listener \in {"inner", "recv"}  BY DEF ConnectionsAccounted
  <2>2. client # NoConn => listener' = listener
    BY <1>5, <2>1 DEF SeeSignal, Stop, Join, Signal, Goto
  <2>. QED
    BY <1>5, <2>1, <2>2, AccountedUntouched DEF SeeSignal, Stop, Join, Signal, Goto, Untouched
<1>6. CASE ListenReset \/ ListenReturns \/ LoopTop \/ NobodyAccepted
  <2>1. listener \notin {"inner", "recv"}
    BY <1>6 DEF ListenReset, ListenReturns, LoopTop, NobodyAccepted
  <2>2. client = NoConn  BY <2>1 DEF ConnectionsAccounted
  <2>. QED
    BY <1>6, <2>2, AccountedUntouched
    DEF ListenReset, ListenReturns, LoopTop, NobodyAccepted, Untouched
<1>7. CASE ServeOn \/ HandleMessage \/ GuestLeft
  BY <1>7, AccountedUntouched DEF ServeOn, HandleMessage, GuestLeft, Step, Untouched
<1>8. CASE Accept
  <2>. DEFINE h == Head(queue)
  <2>1. queue \in Seq(Conns) /\ queue # <<>> /\ h \in Conns
    BY <1>8, Streams DEF TypeOK, Accept
  <2>2. h \in {queue[i] : i \in DOMAIN queue}  BY <2>1
  <2>3. /\ {queue'[i] : i \in DOMAIN queue'} = {queue[i] : i \in DOMAIN queue} \ {h}
        /\ \A i, j \in DOMAIN queue' : queue'[i] = queue'[j] => i = j
    BY <1>8, <2>1, Dequeue DEF ConnectionsAccounted, Accept
  <2>4. client = NoConn  BY <1>8 DEF Accept, ConnectionsAccounted
  <2>5. hostEnd' = [hostEnd EXCEPT ![h] = "accepted"] /\ client' = h /\ listener' = "inner"
        /\ UNCHANGED listening
    BY <1>8 DEF Accept, Step
  <2>6. h # NoConn  BY <2>1, NoConnAssumption
  <2>. HIDE DEF h
  <2>7. {k \in Conns : hostEnd'[k] = "accepted"} = {h}
    BY <2>1, <2>4, <2>5 DEF TypeOK, ConnectionsAccounted
  <2>8. Queued' = Queued \ {h}
    BY <2>1, <2>5 DEF TypeOK, Queued
  <2>. QED
    BY <1>8, <2>1, <2>3, <2>5, <2>6, <2>7, <2>8 DEF ConnectionsAccounted
<1>9. CASE CloseClient
  <2>1. client # NoConn /\ client \in Conns
    BY <1>9 DEF CloseClient, Control, Phases, TypeOK
  <2>2. hostEnd[client] = "accepted"  BY <2>1 DEF ConnectionsAccounted
  <2>3. \A k \in Conns : hostEnd'[k] = IF k = client THEN "none" ELSE hostEnd[k]
    BY <1>9 DEF CloseClient, CloseHostEnds
  <2>4. Queued' = Queued  BY <2>2, <2>3 DEF Queued
  <2>5. {k \in Conns : hostEnd'[k] = "accepted"} = {}
    BY <2>3 DEF ConnectionsAccounted
  <2>6. client' = NoConn /\ UNCHANGED <<queue, listening>>  BY <1>9 DEF CloseClient
  <2>. QED  BY <2>4, <2>5, <2>6 DEF ConnectionsAccounted
<1>10. ASSUME NEW k \in Conns, Connect(k)  PROVE ConnectionsAccounted'
  <2>1. queue \in Seq(Conns)  BY DEF TypeOK
  <2>2. hostEnd[k] = "none" /\ hostEnd' = [hostEnd EXCEPT ![k] = "queued"]
        /\ listening' /\ UNCHANGED <<client, listener>>
    BY <1>10 DEF Connect
  <2>3. \A i \in DOMAIN queue : queue[i] # k
    BY <2>2 DEF ConnectionsAccounted, Queued
  <2>4. /\ {queue'[i] : i \in DOMAIN queue'} = {queue[i] : i \in DOMAIN queue} \cup {k}
        /\ \A i, j \in DOMAIN queue' : queue'[i] = queue'[j] => i = j
    BY <1>10, <2>1, <2>3, Enqueue DEF Connect, ConnectionsAccounted
  <2>5. Queued' = Queued \cup {k}  BY <2>2 DEF TypeOK, Queued
  <2>6. {j \in Conns : hostEnd'[j] = "accepted"} = {j \in Conns : hostEnd[j] = "accepted"}
    BY <2>2 DEF TypeOK
  <2>. QED  BY <2>2, <2>4, <2>5, <2>6 DEF ConnectionsAccounted
<1>11. ASSUME NEW k \in Conns, Send(k) \/ Receive(k) \/ Leave(k)  PROVE ConnectionsAccounted'
  BY <1>11, AccountedUntouched DEF Send, Receive, Leave, Untouched, ConnectionsAccounted
<1>12. CASE UNCHANGED vars
  BY <1>12, AccountedUntouched DEF vars, Untouched, ConnectionsAccounted
<1>13. CASE Rival
  BY <1>13, AccountedUntouched DEF Rival, Untouched, ConnectionsAccounted
<1>. QED
  BY <1>1, <1>2, <1>3, <1>4, <1>5, <1>6, <1>7, <1>8, <1>9, <1>10, <1>11, <1>12, <1>13
  DEF Next, MainStep, ListenerStep, Guests

(***************************************************************************)
(* After a stop.                                                           *)
(***************************************************************************)
LEMMA LateStep == TypeOK /\ Control /\ LateLast /\ [Next]_vars => LateLast'
<1>. SUFFICES ASSUME TypeOK, Control, LateLast, [Next]_vars PROVE LateLast'  OBVIOUS
<1>. USE DEF LateLast, process, memory, file, socket, conns
<1>1. late \in Nat  BY DEF TypeOK
<1>2. CASE Start \/ CreateHost \/ SeeSignal \/ Stop \/ Join
  BY <1>2 DEF Start, CreateHost, SeeSignal, Stop, Join, Goto
<1>3. CASE CreateBind
  <2>1. Exit \/ UNCHANGED <<should_stop, listener, late>>
    BY <1>3 DEF CreateBind, Goto
  <2>. QED  BY <2>1 DEF Exit
<1>4. CASE CreateListen
  <2>1. Exit \/ UNCHANGED <<should_stop, listener, late>>
    BY <1>4 DEF CreateListen, Goto
  <2>. QED  BY <2>1 DEF Exit
<1>5. CASE SpawnFails \/ Destroy \/ Crash  BY <1>5 DEF SpawnFails, Destroy, Crash, Exit
<1>6. CASE Spawn
  <2>1. listener = "none"  BY <1>6 DEF Spawn, Control, Phases
  <2>2. late = 0  BY <1>1, <2>1
  <2>. QED  BY <1>6, <2>2 DEF Spawn
<1>7. CASE Signal
  <2>1. listener' = listener \/ listener = "select"  BY <1>7 DEF Signal
  <2>. QED  BY <1>1, <1>7, <2>1 DEF Signal
<1>8. CASE ListenReset \/ ListenReturns \/ NobodyAccepted \/ Accept
  <2>1. late = 0
    BY <1>1, <1>8 DEF ListenReset, ListenReturns, NobodyAccepted, Accept
  <2>2. late' = late  BY <1>8 DEF ListenReset, ListenReturns, NobodyAccepted, Accept
  <2>. QED  BY <2>1, <2>2
<1>9. CASE LoopTop \/ ServeOn \/ CloseClient
  BY <1>1, <1>9 DEF LoopTop, ServeOn, CloseClient, Step
<1>10. CASE HandleMessage
  <2>1. late = 0  BY <1>1, <1>10 DEF HandleMessage
  <2>. QED  BY <1>10, <2>1 DEF HandleMessage, Step
<1>11. CASE GuestLeft
  <2>1. late = 0  BY <1>1, <1>11 DEF GuestLeft
  <2>. QED  BY <1>11, <2>1 DEF GuestLeft
<1>12. ASSUME NEW k \in Conns, Connect(k) \/ Send(k) \/ Receive(k) \/ Leave(k)
       PROVE  LateLast'
  BY <1>12 DEF Connect, Send, Receive, Leave
<1>13. CASE UNCHANGED vars  BY <1>13 DEF vars
<1>14. CASE Rival  BY <1>14 DEF Rival
<1>. QED
  BY <1>2, <1>3, <1>4, <1>5, <1>6, <1>7, <1>8, <1>9, <1>10, <1>11, <1>12, <1>13, <1>14
  DEF Next, MainStep, ListenerStep, Guests

(***************************************************************************)
(* The socket file.                                                        *)
(***************************************************************************)

(* A step within the life of the server, or none, that leaves the file.    *)
FileLeft ==
    /\ UNCHANGED file
    /\ main' \in {"off", "bind"} <=> main \in {"off", "bind"}

LEMMA FileSame == SocketFileAccounted /\ FileLeft => SocketFileAccounted'
BY DEF SocketFileAccounted, FileLeft, file

LEMMA FileStep == SocketFileAccounted /\ [Next]_vars => SocketFileAccounted'
<1>. SUFFICES ASSUME SocketFileAccounted, [Next]_vars PROVE SocketFileAccounted'  OBVIOUS
<1>. USE DEF process, memory, file, socket, conns
<1>1. CASE Start  BY <1>1, FileSame DEF Start, Goto, FileLeft
<1>2. CASE CreateBind
  BY <1>2 DEF CreateBind, Goto, Exit, SocketFileAccounted
<1>3. CASE CreateListen
  BY <1>3 DEF CreateListen, Goto, Exit, SocketFileAccounted
<1>4. CASE CreateHost \/ Spawn \/ SeeSignal \/ Stop \/ Join \/ Signal
  <2>1. UNCHANGED file
    BY <1>4 DEF CreateHost, Spawn, SeeSignal, Stop, Join, Signal
  <2>2. \/ main' = main
        \/ /\ main \in {"host", "spawn", "wait", "stop", "join"}
           /\ main' \in {"spawn", "wait", "stop", "join", "destroy"}
    BY <1>4 DEF CreateHost, Spawn, SeeSignal, Stop, Join, Signal, Goto
  <2>. QED  BY <2>1, <2>2, FileSame DEF FileLeft
<1>5. CASE SpawnFails \/ Destroy
  BY <1>5 DEF SpawnFails, Destroy, ServerDestroy, Exit, SocketFileAccounted
<1>6. CASE Crash  BY <1>6 DEF Crash, Exit, SocketFileAccounted
<1>7. CASE Rival  BY <1>7 DEF Rival, SocketFileAccounted
<1>8. CASE ListenerStep
  <2>1. UNCHANGED <<file, main>>
    BY <1>8 DEF ListenerStep, ListenReset, ListenReturns, LoopTop, NobodyAccepted, Accept,
                ServeOn, CloseClient, HandleMessage, GuestLeft, Step
  <2>. QED  BY <2>1, FileSame DEF FileLeft
<1>9. CASE Guests
  <2>1. UNCHANGED <<file, main>>  BY <1>9 DEF Guests, Connect, Send, Receive, Leave
  <2>. QED  BY <2>1, FileSame DEF FileLeft
<1>10. CASE UNCHANGED vars  BY <1>10, FileSame DEF vars, FileLeft
<1>. QED
  BY <1>1, <1>2, <1>3, <1>4, <1>5, <1>6, <1>7, <1>8, <1>9, <1>10 DEF Next, MainStep

(***************************************************************************)
(* The theorems.                                                           *)
(***************************************************************************)
LEMMA InitInv == Init => IInv
<1>. SUFFICES ASSUME Init PROVE IInv  OBVIOUS
<1>1. TypeOK  BY TypeInit
<1>2. Control  BY DEF Init, Control, NoUseAfterFree, Phases, Running
<1>3. ConnectionsAccounted
  <2>1. {queue[i] : i \in DOMAIN queue} = {} /\ DOMAIN queue = {}  BY DEF Init
  <2>2. Queued = {}  BY DEF Init, Queued
  <2>. QED  BY <2>1, <2>2 DEF Init, ConnectionsAccounted
<1>4. LateLast
  <2>1. late = 0  BY DEF Init
  <2>. QED  BY <2>1 DEF LateLast
<1>5. SocketFileAccounted  BY DEF Init, SocketFileAccounted
<1>. QED  BY <1>1, <1>2, <1>3, <1>4, <1>5 DEF IInv

LEMMA Inductive == Spec => []IInv
<1>1. IInv /\ [Next]_vars => IInv'
  BY TypeStep, ControlStep, AccountedStep, LateStep, FileStep DEF IInv, Control
<1>. QED  BY <1>1, InitInv, PTL DEF Spec

(* The variables keep their types, for any number of connections, any      *)
(* backlog and any bound on the messages in flight.                        *)
THEOREM TypeCorrect == Spec => []TypeOK
<1>1. IInv => TypeOK  BY DEF IInv
<1>. QED  BY <1>1, Inductive, PTL

(* Neither listener ever runs when main() frees the server.                *)
THEOREM ServerOutlivesListener == Spec => []NoUseAfterFree
<1>1. IInv => NoUseAfterFree  BY DEF IInv, Control
<1>. QED  BY <1>1, Inductive, PTL

(* No connection is lost, kept after its end or closed twice.              *)
THEOREM NoConnectionLost == Spec => []ConnectionsAccounted
<1>1. IInv => ConnectionsAccounted  BY DEF IInv
<1>. QED  BY <1>1, Inductive, PTL

(* Whatever crashed before it, a server is found under the path unless     *)
(* another process has interfered, and a clean exit leaves no file.        *)
THEOREM FoundUnderThePath == Spec => []SocketFileAccounted
<1>1. IInv => SocketFileAccounted  BY DEF IInv
<1>. QED  BY <1>1, Inductive, PTL

(* At most one message is handled after a stop.                            *)
THEOREM StopIsNearlyImmediate == Spec => []StopServesAtMostOne
<1>1. IInv => StopServesAtMostOne  BY DEF IInv, LateLast, StopServesAtMostOne
<1>. QED  BY <1>1, Inductive, PTL

(***************************************************************************)
(* What the choice of the listener decides.                                *)
(***************************************************************************)

(* Nobody has been accepted, and nobody has been sent anything.            *)
Unserved ==
    /\ listener \in {"none", "reset", "sleep", "returned"}
    /\ client = NoConn
    /\ \A k \in Conns : hostEnd[k] # "accepted" /\ s2c[k] = <<>>

LEMMA UnservedStep ==
    ASSUME Listener = "ipc_server_listen", TypeOK, Unserved, [Next]_vars
    PROVE  Unserved'
<1>. USE DEF process, memory, file, socket, conns
<1>1. ASSUME UNCHANGED <<client, hostEnd, s2c>>,
             listener' \in {"none", "reset", "sleep", "returned"}
      PROVE  Unserved'
  BY <1>1 DEF Unserved
<1>2. CASE Start \/ CreateHost \/ Spawn \/ SeeSignal \/ Stop \/ Join \/ Signal \/ Rival
  BY <1>1, <1>2
  DEF Start, CreateHost, Spawn, SeeSignal, Stop, Join, Signal, Rival, Goto, Unserved
<1>3. CASE CreateBind \/ CreateListen
  <2>1. Exit \/ UNCHANGED <<listener, client>>
    BY <1>3 DEF CreateBind, CreateListen, Goto
  <2>. QED  BY <1>3, <2>1 DEF CreateBind, CreateListen, Exit, Unserved
<1>4. CASE SpawnFails \/ Destroy \/ Crash
  <2>1. Exit /\ \E K : CloseHostEnds(K)
    BY <1>4 DEF SpawnFails, Destroy, Crash, ServerDestroy
  <2>. QED  BY <2>1 DEF Exit, CloseHostEnds, Unserved
<1>5. CASE ListenReset \/ ListenReturns
  BY <1>1, <1>5 DEF ListenReset, ListenReturns, Step
<1>6. ASSUME \/ LoopTop \/ NobodyAccepted \/ Accept \/ ServeOn \/ CloseClient
             \/ HandleMessage \/ GuestLeft
      PROVE  FALSE
  BY <1>6 DEF LoopTop, NobodyAccepted, Accept, ServeOn, CloseClient, HandleMessage, GuestLeft,
              Unserved
<1>7. ASSUME NEW k \in Conns, Connect(k) \/ Send(k) \/ Receive(k) \/ Leave(k)
      PROVE  Unserved'
  BY <1>7 DEF Connect, Send, Receive, Leave, Unserved, TypeOK
<1>8. CASE UNCHANGED vars  BY <1>1, <1>8 DEF vars, Unserved
<1>. QED
  BY <1>2, <1>3, <1>4, <1>5, <1>6, <1>7, <1>8 DEF Next, MainStep, ListenerStep, Guests

(* As main() starts the listener thread (ipc_server_listen(), ipc_server.c *)
(* 560-568), the server never accepts a connection and never sends a reply,*)
(* whatever the guests and the other processes do.                         *)
THEOREM NobodyIsServed ==
    ASSUME Listener = "ipc_server_listen"
    PROVE  Spec => [](client = NoConn /\ \A k \in Conns : s2c[k] = <<>>)
<1>1. Init => Unserved  BY DEF Init, Unserved
<1>2. IInv /\ Unserved /\ [Next]_vars => Unserved'  BY UnservedStep DEF IInv
<1>3. Unserved => client = NoConn /\ \A k \in Conns : s2c[k] = <<>>  BY DEF Unserved
<1>. QED  BY <1>1, <1>2, <1>3, Inductive, PTL DEF Spec

(* main() has a thread once it waits, and has told it to stop when it      *)
(* joins it.                                                               *)
Told ==
    /\ main \in {"wait", "stop", "join"} => listener # "none"
    /\ main = "join" => should_stop
    /\ listener # "reset"

LEMMA ToldStep ==
    ASSUME Listener = "server_listen_thread", Control, Told, [Next]_vars
    PROVE  Told'
<1>. USE DEF Told, process, memory, file, socket, conns
<1>1. CASE Start \/ CreateHost \/ Spawn \/ SeeSignal \/ Stop \/ Join
  BY <1>1 DEF Start, CreateHost, Spawn, SeeSignal, Stop, Join, Goto
<1>2. CASE CreateBind \/ CreateListen
  BY <1>2 DEF CreateBind, CreateListen, Goto, Exit
<1>3. CASE SpawnFails \/ Destroy \/ Crash
  BY <1>3 DEF SpawnFails, Destroy, Crash, Exit
<1>4. CASE Signal
  <2>1. listener' = listener \/ listener' = "returned"  BY <1>4 DEF Signal
  <2>. QED  BY <1>4, <2>1 DEF Signal
<1>5. CASE ListenerStep /\ ~ListenReset
  <2>1. /\ UNCHANGED <<main, should_stop>>
        /\ listener' \in {"sleep", "loop", "select", "inner", "recv", "returned"}
    BY <1>5
    DEF ListenerStep, ListenReturns, LoopTop, NobodyAccepted, Accept, ServeOn, CloseClient,
        HandleMessage, GuestLeft, Step
  <2>. QED  BY <2>1
<1>6. CASE ListenReset  BY <1>6 DEF ListenReset
<1>7. CASE Guests \/ Rival \/ UNCHANGED vars
  <2>1. UNCHANGED <<main, listener, should_stop>>
    BY <1>7 DEF Guests, Connect, Send, Receive, Leave, Rival, vars
  <2>. QED  BY <2>1
<1>. QED  BY <1>1, <1>2, <1>3, <1>4, <1>5, <1>6, <1>7 DEF Next, MainStep

(* With the accept loop as the thread's body, no stop is lost: while main()*)
(* joins the thread, the thread is there and should_stop is set, however   *)
(* early the signal came (waydroid_xr_server.c 58-80).                     *)
THEOREM NoStopIsLost ==
    ASSUME Listener = "server_listen_thread"
    PROVE  Spec => [](main = "join" => listener # "none" /\ should_stop)
<1>1. Init => Told  BY DEF Init, Told
<1>2. IInv /\ Told /\ [Next]_vars => Told'  BY ToldStep DEF IInv
<1>3. Told => (main = "join" => listener # "none" /\ should_stop)  BY DEF Told
<1>. QED  BY <1>1, <1>2, <1>3, Inductive, PTL DEF Spec
=============================================================================
