------------------------------ MODULE IpcBridge ------------------------------
(***************************************************************************)
(* The guest's IPC bridge: src/src/ipc_bridge.c, together with the four    *)
(* API entry points of src/src/meta_ext_stubs.c that use it and the two    *)
(* intercepts of src/src/layer_main.c that open and close it.              *)
(*                                                                         *)
(* The application's threads call the entry points in any order.  Each     *)
(* first reads s_connected WITHOUT the lock; if it is set the call is      *)
(* forwarded under s_lock: one request is written to the stream socket and *)
(* one reply read back, while the lock is held.                            *)
(*                                                                         *)
(* What is abstracted.  A message is one unit (a header and its payload    *)
(* are written by one caller under the lock, and read by one); payloads    *)
(* are left out, for no branch of the bridge depends on them except on     *)
(* s_caps.supports_hand_mesh.  A reply carries, as a history, the sequence *)
(* number of the request the host served with it; on the wire its seq is   *)
(* always 0 and recv_msg() looks at nothing but magic, type and length.    *)
(* Steps that only the lock's owner can observe are merged.                *)
(*                                                                         *)
(* The host is the environment here: it answers requests in order, dies    *)
(* and comes back.  With Interrupts = TRUE a blocked recv() can also fail  *)
(* while the connection stays good (EINTR), the n <= 0 case of recv_all(). *)
(***************************************************************************)
EXTENDS Integers, Sequences, MessageTypes

CONSTANTS
    Threads,        \* the application threads that call into the layer
    NoThread,       \* the value of lock when no thread holds s_lock
    Descriptors,    \* file descriptors socket() may return
    SeqMod,         \* s_seq is a uint32_t: SeqMod = 2^32 in the code
    HostHandMesh,   \* what the host reports in caps.supports_hand_mesh
    Interrupts,     \* may a signal interrupt a blocked recv()?
    MaxBuffered     \* bound: interrupts, and nonsense read in pieces, leave
                    \* at most so many messages in flight

ASSUME NoThreadAssumption    == NoThread \notin Threads
ASSUME DescriptorsAssumption == Descriptors \subseteq Nat
ASSUME SeqModAssumption      == SeqMod \in Nat \ {0}
ASSUME FlagsAssumption       == HostHandMesh \in BOOLEAN /\ Interrupts \in BOOLEAN
ASSUME BoundAssumption       == MaxBuffered \in Nat

VARIABLES
    lock,           \* the owner of s_lock
    s_sockfd,       \* the bridge's socket, Closed when there is none
    s_connected,    \* set once the handshake is complete
    s_seq,          \* sequence number of the next request
    s_caps,         \* s_caps.supports_hand_mesh
    open,           \* the descriptors the bridge has open
    pc,             \* where each thread is
    call,           \* each thread's current or last call
    ret,            \* the outcome of each thread's last forwardable call
    up,             \* is a host server listening?
    peer,           \* is the host's end of the bridge's connection open?
    c2s,            \* requests in flight on the connection
    s2c,            \* replies in flight on the connection
    interrupted     \* history: was a recv() on this connection interrupted?

bridge == <<s_sockfd, s_connected, s_caps, open>>
thread == <<pc, call, ret>>
conn   == <<peer, c2s, s2c, interrupted>>
vars   == <<lock, s_seq, up, bridge, thread, conn>>

Closed == -1
Seqs   == 0 .. SeqMod - 1
NoSeq  == SeqMod

(* The calls a thread can make.                                            *)
Lifecycle == {"init", "shutdown"}
Forwarded == {"enumerate", "get", "request"}
Ops       == Lifecycle \cup Forwarded \cup {"handmesh"}

(* Mutant: a reply's constant where the request's is meant.                *)
RequestOfSlip == [enumerate |-> "ENUMERATE_REFRESH_RATES",
                  get       |-> "GET_REFRESH_RATE_RESP",
                  request   |-> "REQUEST_REFRESH_RATE"]

(* enum WaydroidXrMsgType: what each call sends and what answers it.       *)
RequestOf == [enumerate |-> "ENUMERATE_REFRESH_RATES",
              get       |-> "GET_REFRESH_RATE",
              request   |-> "REQUEST_REFRESH_RATE"]
ReplyTo   == [PING                    |-> "PONG",
              QUERY_CAPS              |-> "CAPS_RESPONSE",
              ENUMERATE_REFRESH_RATES |-> "ENUMERATE_REFRESH_RATES_RESP",
              GET_REFRESH_RATE        |-> "GET_REFRESH_RATE_RESP",
              REQUEST_REFRESH_RATE    |-> "REQUEST_REFRESH_RATE_RESP"]
RequestTypes == DOMAIN ReplyTo
ReplyTypes   == {ReplyTo[q] : q \in RequestTypes}

(* What is left of a reply when an interrupt cut its reading short: the    *)
(* next header read there has no magic.                                    *)
Torn == "TORN"

Requests == [type : RequestTypes, seq : Seqs]
Replies  == [type : ReplyTypes \cup {Torn}, answers : Seqs]

(* A call in progress: what it is, the sequence number of its last         *)
(* request, and, as a history, whether a server was listening when it      *)
(* began.                                                                  *)
Called(o, hostUp) == [op |-> o, seq |-> NoSeq, hostUp |-> hostUp]
NoCall == Called("none", FALSE)
Calls  == [op : Ops \cup {"none"}, seq : Seqs \cup {NoSeq}, hostUp : BOOLEAN]

(* What a forwardable call returned and whose reply it read: its own       *)
(* request's, another's, or none.                                          *)
Outcome(result, reply) == [result |-> result, reply |-> reply]
NoOutcome == Outcome("none", "none")
Results == {"none", "stub", "success", "failure", "ignored", "unsupported"}
Outcomes == [result : Results, reply : {"none", "own", "stale"}]

Init ==
    /\ lock = NoThread
    /\ s_sockfd = Closed
    /\ s_connected = FALSE
    /\ s_seq = 0
    /\ s_caps = FALSE
    /\ open = {}
    /\ pc = [t \in Threads |-> "idle"]
    /\ call = [t \in Threads |-> NoCall]
    /\ ret = [t \in Threads |-> NoOutcome]
    /\ up \in BOOLEAN
    /\ peer = FALSE
    /\ c2s = <<>>
    /\ s2c = <<>>
    /\ interrupted = FALSE

(***************************************************************************)
(* Helpers.                                                                *)
(***************************************************************************)
Goto(t, l) == pc' = [pc EXCEPT ![t] = l]

(* pthread_mutex_unlock(&s_lock), and the call returns.                    *)
Unlock(t) ==
    /\ lock' = NoThread
    /\ Goto(t, "idle")
    /\ call' = [call EXCEPT ![t] = NoCall]

Return(t, result, reply) ==
    /\ ret' = [ret EXCEPT ![t] = Outcome(result, reply)]
    /\ Unlock(t)

(* send_msg() takes the next sequence number; the message is in the stream *)
(* if the host's end is open.  It is there whole: a message has some dozen *)
(* bytes and at most a few are unread, so that send() finds room in the    *)
(* socket's buffer at once and has nothing to be interrupted in.           *)
NextSeq == s_seq' = (s_seq + 1) % SeqMod

SendMsg(t, type) ==
    /\ NextSeq
    /\ call' = [call EXCEPT ![t].seq = s_seq]
    /\ c2s' = IF peer THEN Append(c2s, [type |-> type, seq |-> s_seq]) ELSE c2s

(* The streams of a connection are new, or gone with its descriptor.       *)
NoMessages == c2s' = <<>> /\ s2c' = <<>> /\ interrupted' = FALSE

(* close(s_sockfd); s_sockfd = -1.                                         *)
CloseSocket ==
    /\ open' = open \ {s_sockfd}
    /\ s_sockfd' = Closed
    /\ peer' = FALSE
    /\ NoMessages

(* What recv_msg() can find.                                               *)
Arrived   == s2c # <<>> /\ Head(s2c).type # Torn
BadMagic  == s2c # <<>> /\ Head(s2c).type = Torn
EndOfFile == s2c = <<>> /\ ~peer

(* A reading that stopped short leaves all of the next reply, or the part  *)
(* of it that had not been consumed.                                       *)
CutShort(replies) ==
    {replies} \cup (IF replies = <<>> THEN {} ELSE {[replies EXCEPT ![1].type = Torn]})

(***************************************************************************)
(* Entering a call.                                                        *)
(***************************************************************************)

(* layer_xrCreateInstance and layer_xrDestroyInstance.                     *)
CallLifecycle(t) ==
    /\ pc[t] = "idle"
    /\ \E o \in Lifecycle : call' = [call EXCEPT ![t] = Called(o, up)]
    /\ Goto(t, "lock")
    /\ UNCHANGED <<lock, s_seq, up, bridge, ret, conn>>

(* ipc_bridge_is_connected() and, for xrGetHandMeshFB, also                *)
(* ipc_bridge_supports_hand_mesh(): read without the lock.  Nothing orders *)
(* the two reads, so that a thread which sees the connection may see, for  *)
(* caps, what s_caps held at any time before.  (An old s_connected is one  *)
(* that was read earlier.)                                                 *)
SeesHost(o, caps) == s_connected /\ (o = "handmesh" => caps)

(* xrEnumerateDisplayRefreshRatesFB, xrGetDisplayRefreshRateFB,            *)
(* xrRequestDisplayRefreshRateFB, xrGetHandMeshFB: forward, or answer from *)
(* the stub at once.                                                       *)
CallEntryPoint(t) ==
    /\ pc[t] = "idle"
    /\ \E o \in Forwarded \cup {"handmesh"}, caps \in BOOLEAN :
          IF SeesHost(o, caps)
          THEN /\ Goto(t, "lock")
               /\ call' = [call EXCEPT ![t] = Called(o, up)]
               /\ ret' = [ret EXCEPT ![t] = NoOutcome]
          ELSE /\ UNCHANGED <<pc, call>>
               /\ ret' = [ret EXCEPT ![t] = Outcome("stub", "none")]
    /\ UNCHANGED <<lock, s_seq, up, bridge, conn>>

(* Mutant: a call that goes on without waiting for the lock.               *)
AcquireUnlocked(t) ==
    /\ pc[t] = "lock"
    /\ lock' = t
    /\ Goto(t, "held")
    /\ UNCHANGED <<s_seq, up, bridge, call, ret, conn>>

Acquire(t) ==
    /\ pc[t] = "lock"
    /\ lock = NoThread
    /\ lock' = t
    /\ Goto(t, "held")
    /\ UNCHANGED <<s_seq, up, bridge, call, ret, conn>>

(***************************************************************************)
(* ipc_bridge_init(), with the lock.                                       *)
(***************************************************************************)
InitAlreadyConnected(t) ==
    /\ pc[t] = "held" /\ call[t].op = "init"
    /\ s_connected
    /\ Unlock(t)
    /\ UNCHANGED <<s_seq, up, bridge, ret, conn>>

(* socket() fails, or connect() finds nobody listening: the descriptor is  *)
(* closed again.                                                           *)
InitNoConnection(t) ==
    /\ pc[t] = "held" /\ call[t].op = "init"
    /\ ~s_connected
    /\ s_sockfd' = Closed
    /\ Unlock(t)
    /\ UNCHANGED <<s_seq, up, s_connected, s_caps, open, ret, conn>>

(* connect() may wait for room in the backlog of the host: then this step  *)
(* comes late.                                                             *)
InitConnect(t) ==
    /\ pc[t] = "held" /\ call[t].op = "init"
    /\ ~s_connected
    /\ up
    /\ \E fd \in Descriptors \ open : s_sockfd' = fd /\ open' = open \cup {fd}
    /\ peer' = TRUE
    /\ NoMessages
    /\ Goto(t, "ping")
    /\ UNCHANGED <<lock, s_seq, up, s_connected, s_caps, call, ret>>

(* Mutant: the label fail: without its close().                            *)
InitFailLeaks(t) ==
    /\ s_sockfd' = Closed
    /\ peer' = FALSE
    /\ NoMessages
    /\ Unlock(t)
    /\ UNCHANGED <<up, open, s_connected, ret>>

(* The label fail: close, forget the socket, unlock.                       *)
InitFail(t) ==
    /\ CloseSocket
    /\ Unlock(t)
    /\ UNCHANGED <<up, s_connected, ret>>

(* A request of the handshake is sent, or the host is gone.                *)
InitSend(t, from, type, next) ==
    /\ pc[t] = from
    /\ peer
    /\ SendMsg(t, type)
    /\ Goto(t, next)
    /\ UNCHANGED <<lock, up, bridge, ret, peer, s2c, interrupted>>

InitSendPing(t)      == InitSend(t, "ping", "PING", "pong")
InitSendQueryCaps(t) == InitSend(t, "query", "QUERY_CAPS", "caps")

InitSendFails(t) ==
    /\ pc[t] \in {"ping", "query"}
    /\ ~peer
    /\ NextSeq
    /\ InitFail(t)
    /\ UNCHANGED s_caps

(* Mutant: connected as soon as the PONG has come.                         *)
InitRecvPongConnects(t) ==
    /\ pc[t] = "pong"
    /\ Arrived
    /\ s2c' = Tail(s2c)
    /\ s_connected' = TRUE
    /\ Goto(t, "query")
    /\ UNCHANGED <<lock, s_seq, up, s_sockfd, s_caps, open, call, ret, peer, c2s, interrupted>>

InitRecvPong(t) ==
    /\ pc[t] = "pong"
    /\ Arrived
    /\ IF Head(s2c).type = "PONG"
       THEN /\ s2c' = Tail(s2c)
            /\ Goto(t, "query")
            /\ UNCHANGED <<lock, up, bridge, call, ret, peer, c2s, interrupted>>
       ELSE InitFail(t) /\ UNCHANGED s_caps
    /\ UNCHANGED s_seq

(* The payload goes to s_caps before the type is looked at, or as far as   *)
(* it came.                                                                *)
CapsWritten(t) == s_caps' \in IF pc[t] = "caps" THEN BOOLEAN ELSE {s_caps}

InitRecvCaps(t) ==
    /\ pc[t] = "caps"
    /\ Arrived
    /\ IF Head(s2c).type = "CAPS_RESPONSE"
       THEN /\ s2c' = Tail(s2c)
            /\ s_caps' = HostHandMesh
            /\ Goto(t, "ready")
            /\ UNCHANGED <<lock, up, s_sockfd, s_connected, open, call, ret, peer, c2s, interrupted>>
       ELSE InitFail(t) /\ CapsWritten(t)
    /\ UNCHANGED s_seq

InitConnected(t) ==
    /\ pc[t] = "ready"
    /\ s_connected' = TRUE
    /\ Unlock(t)
    /\ UNCHANGED <<s_seq, up, s_sockfd, s_caps, open, ret, conn>>

InitRecvFails(t) ==
    /\ pc[t] \in {"pong", "caps"}
    /\ EndOfFile
    /\ InitFail(t)
    /\ CapsWritten(t)
    /\ UNCHANGED s_seq

(***************************************************************************)
(* ipc_bridge_shutdown(), with the lock.                                   *)
(***************************************************************************)

(* Mutant: a shutdown that does not take the lock.                         *)
ShutdownUnlocked(t) ==
    /\ pc[t] = "lock" /\ call[t].op = "shutdown"
    /\ IF s_sockfd # Closed THEN CloseSocket
                            ELSE UNCHANGED <<open, s_sockfd, conn>>
    /\ s_connected' = FALSE
    /\ Goto(t, "idle")
    /\ call' = [call EXCEPT ![t] = NoCall]
    /\ UNCHANGED <<lock, s_seq, up, s_caps, ret>>

Shutdown(t) ==
    /\ pc[t] = "held" /\ call[t].op = "shutdown"
    /\ IF s_sockfd # Closed THEN CloseSocket
                            ELSE UNCHANGED <<open, s_sockfd, conn>>
    /\ s_connected' = FALSE
    /\ Unlock(t)
    /\ UNCHANGED <<s_seq, up, s_caps, ret>>

(***************************************************************************)
(* ipc_bridge_EnumerateDisplayRefreshRates, _GetDisplayRefreshRate and     *)
(* _RequestDisplayRefreshRate, with the lock.  Only the last one ignores   *)
(* every failure and reports XR_SUCCESS.                                   *)
(***************************************************************************)
WithoutReply(o) == IF o = "request" THEN "ignored" ELSE "failure"

(* s_connected was cleared between the unlocked test and the lock.         *)
ForwardDisconnected(t) ==
    /\ pc[t] = "held" /\ call[t].op \in Forwarded
    /\ ~s_connected
    /\ Return(t, WithoutReply(call[t].op), "none")
    /\ UNCHANGED <<s_seq, up, bridge, conn>>

(* Mutant: a request that, for it ignores the answer anyway, does not wait *)
(* for it.                                                                 *)
ForwardSendNoWait(t) ==
    /\ pc[t] = "held" /\ call[t].op \in Forwarded
    /\ s_connected
    /\ NextSeq
    /\ c2s' = IF peer THEN Append(c2s, [type |-> RequestOf[call[t].op], seq |-> s_seq]) ELSE c2s
    /\ IF peer /\ call[t].op # "request"
       THEN /\ call' = [call EXCEPT ![t].seq = s_seq]
            /\ Goto(t, "recv")
            /\ UNCHANGED <<lock, ret>>
       ELSE Return(t, WithoutReply(call[t].op), "none")
    /\ UNCHANGED <<up, bridge, peer, s2c, interrupted>>

ForwardSend(t) ==
    /\ pc[t] = "held" /\ call[t].op \in Forwarded
    /\ s_connected
    /\ IF peer \/ call[t].op = "request"
       THEN /\ SendMsg(t, RequestOf[call[t].op])
            /\ Goto(t, "recv")
            /\ UNCHANGED <<lock, ret>>
       ELSE /\ NextSeq /\ UNCHANGED c2s
            /\ Return(t, "failure", "none")
    /\ UNCHANGED <<up, bridge, peer, s2c, interrupted>>

(* A reply is read: of the right type, or the call fails; a request does   *)
(* not even look at the type.                                              *)
ForwardRecv(t) ==
    /\ pc[t] = "recv"
    /\ Arrived
    /\ s2c' = Tail(s2c)
    /\ IF \/ call[t].op = "request"
          \/ Head(s2c).type = ReplyTo[RequestOf[call[t].op]]
       THEN Return(t, "success", IF Head(s2c).answers = call[t].seq THEN "own" ELSE "stale")
       ELSE Return(t, "failure", "none")
    /\ UNCHANGED <<s_seq, up, bridge, peer, c2s, interrupted>>

(* Mutant: the return on a failed recv_msg() without its unlock.           *)
ForwardRecvFailsLocked(t) ==
    /\ pc[t] = "recv"
    /\ EndOfFile
    /\ ret' = [ret EXCEPT ![t] = Outcome(WithoutReply(call[t].op), "none")]
    /\ Goto(t, "idle")
    /\ call' = [call EXCEPT ![t] = NoCall]
    /\ UNCHANGED <<lock, s_seq, up, bridge, conn>>

(* A header is read that has no magic: sixteen bytes out of a reply cut    *)
(* short, of which there may be more, or which may have had fewer, so that *)
(* the next one is cut into.  (For fewer recv() waits until the next reply *)
(* is there: this step comes late.)                                        *)
Misread ==
    \/ s2c' \in CutShort(Tail(s2c))
    \/ Len(s2c) + Len(c2s) <= MaxBuffered /\ UNCHANGED s2c

(* Nothing is read, or nonsense.  The socket stays open and s_connected    *)
(* stays set.                                                              *)
ForwardRecvFails(t) ==
    /\ pc[t] = "recv"
    /\ \/ EndOfFile /\ UNCHANGED s2c
       \/ BadMagic /\ Misread
    /\ Return(t, WithoutReply(call[t].op), "none")
    /\ UNCHANGED <<s_seq, up, bridge, peer, c2s, interrupted>>

(* ipc_bridge_GetHandMesh() sends nothing.                                 *)
HandMesh(t) ==
    /\ pc[t] = "held" /\ call[t].op = "handmesh"
    /\ Return(t, "unsupported", "none")
    /\ UNCHANGED <<s_seq, up, bridge, conn>>

(***************************************************************************)
(* A signal handler runs while a thread is blocked in recv(), which fails  *)
(* with the connection still good.  recv_all() treats this as any failure. *)
(***************************************************************************)
CanInterrupt == Interrupts /\ Len(s2c) + Len(c2s) <= MaxBuffered

InterruptInit(t) ==
    /\ CanInterrupt
    /\ pc[t] \in {"pong", "caps"}
    /\ InitFail(t)
    /\ CapsWritten(t)
    /\ UNCHANGED s_seq

InterruptForward(t) ==
    /\ CanInterrupt
    /\ pc[t] = "recv"
    /\ s2c' \in CutShort(s2c)
    /\ interrupted' = TRUE
    /\ Return(t, WithoutReply(call[t].op), "none")
    /\ UNCHANGED <<s_seq, up, bridge, peer, c2s>>

(***************************************************************************)
(* The host.                                                               *)
(***************************************************************************)

(* Mutant: a request is answered and stays in the stream.                  *)
HostAnswersAgain ==
    /\ peer
    /\ c2s # <<>>
    /\ s2c' = Append(s2c, [type |-> ReplyTo[Head(c2s).type], answers |-> Head(c2s).seq])
    /\ UNCHANGED <<lock, s_seq, up, bridge, thread, peer, c2s, interrupted>>

(* Mutant: a request is dropped without a reply, the connection kept.      *)
HostDrops ==
    /\ peer
    /\ c2s # <<>>
    /\ c2s' = Tail(c2s)
    /\ UNCHANGED <<lock, s_seq, up, bridge, thread, peer, s2c, interrupted>>

(* handle_client_message(): one reply per request, in order.               *)
HostAnswers ==
    /\ peer
    /\ c2s # <<>>
    /\ s2c' = Append(s2c, [type |-> ReplyTo[Head(c2s).type], answers |-> Head(c2s).seq])
    /\ c2s' = Tail(c2s)
    /\ UNCHANGED <<lock, s_seq, up, bridge, thread, peer, interrupted>>

HostStarts ==
    /\ ~up
    /\ up' = TRUE
    /\ UNCHANGED <<lock, s_seq, bridge, thread, conn>>

(* The server process exits or crashes; replies it wrote can still be read.*)
HostDies ==
    /\ up
    /\ up' = FALSE
    /\ peer' = FALSE
    /\ c2s' = <<>>
    /\ UNCHANGED <<lock, s_seq, bridge, thread, s2c, interrupted>>

(***************************************************************************)
(* The specification.                                                      *)
(***************************************************************************)
LockedStep(t) ==
    \/ InitAlreadyConnected(t) \/ InitNoConnection(t) \/ InitConnect(t)
    \/ InitSendPing(t) \/ InitSendQueryCaps(t) \/ InitSendFails(t)
    \/ InitRecvPong(t) \/ InitRecvCaps(t) \/ InitConnected(t) \/ InitRecvFails(t)
    \/ Shutdown(t)
    \/ ForwardDisconnected(t) \/ ForwardSend(t)
    \/ ForwardRecv(t) \/ ForwardRecvFails(t)
    \/ HandMesh(t)

ThreadStep(t) == CallLifecycle(t) \/ CallEntryPoint(t) \/ Acquire(t) \/ LockedStep(t)

Interrupt(t)  == InterruptInit(t) \/ InterruptForward(t)

Next == (\E t \in Threads : ThreadStep(t) \/ Interrupt(t)) \/ HostAnswers \/ HostStarts \/ HostDies

(* A thread inside the lock is scheduled; a live host answers what it is   *)
(* asked.  Nothing makes threads call, hosts start or die, or the mutex    *)
(* fair.                                                                   *)
Fairness == (\A t \in Threads : WF_vars(LockedStep(t))) /\ WF_vars(HostAnswers)

Spec     == Init /\ [][Next]_vars
FairSpec == Spec /\ Fairness

(***************************************************************************)
(* Properties.                                                             *)
(***************************************************************************)
Waiting == {"pong", "caps", "recv"}
Inside  == Waiting \cup {"held", "ping", "query", "ready"}
Places  == Inside \cup {"idle", "lock"}

(* The variables have the types of the code's variables, s_seq wraps like  *)
(* a uint32_t, and every message on the wire is one the protocol defines.  *)
TypeOK ==
    /\ lock \in Threads \cup {NoThread}
    /\ s_sockfd \in Descriptors \cup {Closed}
    /\ s_connected \in BOOLEAN
    /\ s_seq \in Seqs
    /\ s_caps \in BOOLEAN
    /\ open \subseteq Descriptors
    /\ pc \in [Threads -> Places]
    /\ call \in [Threads -> Calls]
    /\ ret \in [Threads -> Outcomes]
    /\ up \in BOOLEAN
    /\ peer \in BOOLEAN
    /\ c2s \in Seq(Requests)
    /\ s2c \in Seq(Replies)
    /\ interrupted \in BOOLEAN

(* The type of reply a waiting thread expects next.                        *)
Awaited(t) ==
    IF pc[t] = "pong" THEN "PONG"
    ELSE IF pc[t] = "caps" THEN "CAPS_RESPONSE"
    ELSE ReplyTo[RequestOf[call[t].op]]

HolderAwaits(type, seq) ==
    /\ lock \in Threads
    /\ pc[lock] \in Waiting
    /\ type = Awaited(lock)
    /\ seq = call[lock].seq

(* At most one message is in flight, in both directions together, and it   *)
(* belongs to the thread that is waiting for it inside the lock.           *)
OneMessage ==
    /\ Len(c2s) + Len(s2c) <= 1
    /\ c2s # <<>> => HolderAwaits(ReplyTo[Head(c2s).type], Head(c2s).seq)
    /\ s2c # <<>> => HolderAwaits(Head(s2c).type, Head(s2c).answers)

(* Unless a recv() on this connection was interrupted, requests and        *)
(* replies alternate.  This is all that pairs a reply with its request,    *)
(* for nothing in ipc_bridge.c compares sequence numbers.                  *)
Lockstep == ~interrupted => OneMessage

(* Only an interrupted recv() can make a later call on the same connection *)
(* return another call's reply: no crash, no restart of the host and no    *)
(* interleaving of init, shutdown and calls can (ipc_bridge.c 208-284).    *)
OnlyInterruptsDesync ==
    [][\A t \in Threads :
          ret'[t] # ret[t] /\ ret'[t].reply = "stale" => interrupted]_vars

(* No path through ipc_bridge_init(), its fail label or                    *)
(* ipc_bridge_shutdown() leaks a descriptor or forgets one, and outside    *)
(* the lock s_connected says whether there is a socket.                    *)
DescriptorsAccounted ==
    /\ open = {s_sockfd} \ {Closed}
    /\ lock = NoThread => (s_connected <=> s_sockfd # Closed)

(* The socket is never closed or replaced under a thread that stays        *)
(* blocked in recv() on it, by another thread's ipc_bridge_shutdown() or   *)
(* ipc_bridge_init().                                                      *)
NoCloseInFlight ==
    [][\A t \in Threads :
          pc[t] \in Waiting /\ pc'[t] = pc[t] => s_sockfd' = s_sockfd /\ s_sockfd # Closed]_vars

(* s_connected is set, for all who read it without the lock, only when the *)
(* capabilities the host reported are complete, also after handshakes that *)
(* failed (ipc_bridge.c 161, 175).  This is the order of the writes; what  *)
(* a reader on a weakly ordered machine makes of it is in CallEntryPoint.  *)
CapsBeforeConnected == s_connected => s_caps = HostHandMesh

(* A call forwarded through the bridge is a remote procedure call: served  *)
(* at most once, while it is pending, alone, and successful exactly if     *)
(* served (ipc_bridge.c 208-299 implement RemoteCall).                     *)
Phase ==
    [t \in Threads |->
       IF pc[t] = "idle" \/ call[t].op \in Lifecycle THEN "idle"
       ELSE IF pc[t] = "recv" /\ s2c # <<>> THEN "served"
       ELSE "pending"]
Result == [t \in Threads |-> ret[t].result]

Remote == INSTANCE RemoteCall WITH phase <- Phase, result <- Result

(* Every step is one of RemoteCall up to the moment a recv() on the        *)
(* connection is interrupted, and again once the connection has been       *)
(* closed, as no trace of the interruption outlives its socket.            *)
RemoteUntilInterrupted ==
    /\ Remote!Init
    /\ [][~interrupted' => [Remote!Next]_(Remote!vars)]_vars

(* The connection the bridge makes is the channel the server implements    *)
(* (IpcServer): the bridge asks, reads and closes, and its host answers,   *)
(* only as HostChannel allows.                                             *)
Channel == INSTANCE HostChannel WITH
    client <- s_sockfd # Closed,
    host   <- peer,
    c2s    <- Types(c2s),
    s2c    <- Types(s2c)

(* It is such a channel until a recv() on it is interrupted, and the next  *)
(* connection is one again.                                                *)
ChannelUntilInterrupted ==
    /\ Channel!Init
    /\ [][~interrupted' => [Channel!Next]_(Channel!vars)]_vars

(* Nobody waits for a reply that cannot come: while a thread is blocked in *)
(* recv() under the lock and the host's end is open, its request or a      *)
(* reply is in flight, whatever was interrupted before.                    *)
NobodyWaitsInVain ==
    \A t \in Threads : pc[t] \in Waiting /\ peer => c2s # <<>> \/ s2c # <<>>

(* Whoever holds s_lock releases it: every path through the bridge, every  *)
(* failure included, ends in an unlock, as long as a live host answers.    *)
LockReleased == \A t \in Threads : (lock = t) ~> (lock # t)

(***************************************************************************)
(* Properties the documentation states and the code does not have.         *)
(***************************************************************************)

(* Replies are matched with requests ("seq (monotonic, for                 *)
(* request/response matching)", README.md:140): no call returns the reply  *)
(* to another one.                                                         *)
RepliesMatched == \A t \in Threads : ret[t].reply # "stale"

(* "Without it, stubs activate automatically" (README.md:144): a call made *)
(* while no host server is running does not fail for want of one.          *)
StubsWithoutHost ==
    [][\A t \in Threads :
          pc[t] # "idle" /\ ret'[t] # ret[t] /\ ret'[t].result = "failure"
             => call[t].hostUp]_vars
=============================================================================
