--------------------------- MODULE IpcBridge_proofs ---------------------------
(***************************************************************************)
(* Proofs about the guest's IPC bridge.  None of the properties proved is  *)
(* inductive alone; IInv is, and it says three things more than they do:   *)
(* who is inside the lock, which calls can be where, and how far s_sockfd  *)
(* and s_connected have come at each point of a call.                      *)
(***************************************************************************)
EXTENDS IpcBridge, TLAPS

Shaking == {"ping", "pong", "query", "caps", "ready"}

(* s_lock excludes: a thread is inside exactly if it is the lock's owner.  *)
LockOwner == \A t \in Threads : pc[t] \in Inside <=> lock = t

(* Only ipc_bridge_init() shakes hands, only forwarded calls await replies.*)
CallAt ==
    \A t \in Threads :
       /\ pc[t] \in {"lock", "held"} => call[t].op \in Ops
       /\ pc[t] \in Shaking => call[t].op = "init"
       /\ pc[t] = "recv" => call[t].op \in Forwarded

(* The socket at each point of a call.                                     *)
SocketAt ==
    /\ s_connected => s_sockfd # Closed
    /\ \A t \in Threads :
          /\ pc[t] \in Shaking => s_sockfd # Closed /\ ~s_connected
          /\ pc[t] = "recv" => s_connected
          /\ pc[t] = "ready" => s_caps = HostHandMesh
    /\ (\A t \in Threads : pc[t] \notin Shaking) => (s_sockfd # Closed => s_connected)
    /\ open = {s_sockfd} \ {Closed}

(* The lock, the calls and the socket are inductive together.              *)
Control == LockOwner /\ CallAt /\ SocketAt /\ CapsBeforeConnected

(* What was sent to a host that is gone is gone too.                       *)
NoPeerNoRequests == ~peer => c2s = <<>>

IInv == TypeOK /\ Control /\ NoPeerNoRequests /\ Lockstep

USE NoThreadAssumption, DescriptorsAssumption, SeqModAssumption, FlagsAssumption

(* The protocol's tables are what they are used as: each forwarded call    *)
(* has a request, each request has a reply.                                *)
LEMMA Protocol ==
    /\ \A o \in Forwarded : RequestOf[o] \in RequestTypes
    /\ \A q \in RequestTypes : ReplyTo[q] \in ReplyTypes
    /\ {"PING", "QUERY_CAPS"} \subseteq RequestTypes
    /\ ReplyTo["PING"] = "PONG" /\ ReplyTo["QUERY_CAPS"] = "CAPS_RESPONSE"
BY DEF Forwarded, RequestOf, RequestTypes, ReplyTypes, ReplyTo

(* The sequences the streams are: their heads, tails and ends.             *)
LEMMA Streams ==
    ASSUME NEW S, NEW s \in Seq(S)
    PROVE  /\ s # <<>> => Head(s) \in S /\ Tail(s) \in Seq(S) /\ Len(Tail(s)) = Len(s) - 1
           /\ s # <<>> <=> Len(s) > 0
           /\ Len(s) \in Nat
           /\ Len(s) <= 1 /\ s # <<>> => Tail(s) = <<>>
           /\ <<>> \in Seq(S)
           /\ \A m \in S : /\ Append(s, m) \in Seq(S)
                           /\ Len(Append(s, m)) = Len(s) + 1
                           /\ s = <<>> => Head(Append(s, m)) = m
OBVIOUS

LEMMA Constructors ==
    /\ NoCall \in Calls /\ NoCall.op = "none"
    /\ \A o \in Ops, b \in BOOLEAN : Called(o, b) \in Calls /\ Called(o, b).op = o
    /\ \A r \in Results, w \in {"none", "own", "stale"} :
          /\ Outcome(r, w) \in Outcomes
          /\ Outcome(r, w).reply = w
    /\ NoOutcome \in Outcomes
    /\ \A q \in RequestTypes, n \in Seqs : [type |-> q, seq |-> n] \in Requests
    /\ \A q \in ReplyTypes, n \in Seqs : [type |-> q, answers |-> n] \in Replies
BY DEF NoCall, Called, Calls, Outcome, Outcomes, NoOutcome, Results, Requests, Replies, NoSeq

(* A message cut short is still one of the stream's, and none is gained.   *)
LEMMA Cut ==
    ASSUME NEW s \in Seq(Replies), NEW r \in CutShort(s)
    PROVE  r \in Seq(Replies) /\ Len(r) = Len(s)
<1>1. CASE s = <<>>  BY <1>1 DEF CutShort
<1>2. CASE s # <<>>
  <2>0. Len(s) > 0  BY <1>2, Streams
  <2>1. s[1] \in Replies  BY <2>0
  <2>4. [s[1] EXCEPT !.type = Torn] \in Replies  BY <2>1 DEF Replies
  <2>2. r = s \/ r = [s EXCEPT ![1] = [s[1] EXCEPT !.type = Torn]]
    BY <1>2 DEF CutShort
  <2>3. 1 \in DOMAIN s  BY <2>0
  <2>. QED  BY <2>1, <2>2, <2>3, <2>4
<1>. QED  BY <1>1, <1>2

LEMMA Empty == <<>> \in Seq(Requests) /\ <<>> \in Seq(Replies)
OBVIOUS

LEMMA TypeInit == Init => TypeOK
<1>. SUFFICES ASSUME Init PROVE TypeOK  OBVIOUS
<1>1. call \in [Threads -> Calls] /\ ret \in [Threads -> Outcomes]
  BY Constructors DEF Init
<1>2. pc \in [Threads -> Places] /\ s_seq \in Seqs
  BY DEF Init, Places, Inside, Waiting, Seqs
<1>. QED  BY <1>1, <1>2, Empty DEF Init, TypeOK, Closed

(* Every step keeps the types; what a step assigns is built by the helpers *)
(* the actions share.                                                      *)
LEMMA TypeUnlock ==
    ASSUME TypeOK, NEW t \in Threads, Unlock(t)
    PROVE  lock' \in Threads \cup {NoThread} /\ pc' \in [Threads -> Places]
           /\ call' \in [Threads -> Calls]
BY Constructors DEF TypeOK, Unlock, Goto, Places, Inside, Waiting

LEMMA TypeGoto ==
    ASSUME TypeOK, NEW t \in Threads, NEW l \in Places, Goto(t, l)
    PROVE  pc' \in [Threads -> Places]
BY DEF TypeOK, Goto

LEMMA TypeNextSeq == TypeOK /\ NextSeq => s_seq' \in Seqs
BY DEF TypeOK, NextSeq, Seqs

LEMMA TypeSendMsg ==
    ASSUME TypeOK, NEW t \in Threads, NEW q \in RequestTypes, SendMsg(t, q)
    PROVE  s_seq' \in Seqs /\ call' \in [Threads -> Calls] /\ c2s' \in Seq(Requests)
<1>1. s_seq' \in Seqs  BY TypeNextSeq DEF SendMsg
<1>2. [call[t] EXCEPT !.seq = s_seq] \in Calls  BY DEF TypeOK, Calls
<1>3. [type |-> q, seq |-> s_seq] \in Requests  BY Constructors DEF TypeOK
<1>. QED  BY <1>1, <1>2, <1>3 DEF TypeOK, SendMsg

LEMMA TypeClose ==
    ASSUME TypeOK, CloseSocket
    PROVE  /\ open' \subseteq Descriptors /\ s_sockfd' \in Descriptors \cup {Closed}
           /\ peer' \in BOOLEAN /\ c2s' \in Seq(Requests) /\ s2c' \in Seq(Replies)
           /\ interrupted' \in BOOLEAN
BY Empty DEF TypeOK, CloseSocket, NoMessages

LEMMA TypeReturn ==
    ASSUME TypeOK, NEW t \in Threads, NEW r \in Results, NEW w \in {"none", "own", "stale"},
           Return(t, r, w)
    PROVE  /\ ret' \in [Threads -> Outcomes]
           /\ lock' \in Threads \cup {NoThread} /\ pc' \in [Threads -> Places]
           /\ call' \in [Threads -> Calls]
BY TypeUnlock, Constructors DEF TypeOK, Return

LEMMA TypeInitFail ==
    ASSUME TypeOK, NEW t \in Threads, InitFail(t), s_seq' \in Seqs, s_caps' \in BOOLEAN
    PROVE  TypeOK'
BY TypeClose, TypeUnlock DEF InitFail, TypeOK

LEMMA TypeStep == TypeOK /\ [Next]_vars => TypeOK'
<1>. SUFFICES ASSUME TypeOK, [Next]_vars PROVE TypeOK'  OBVIOUS
<1>. USE DEF bridge, thread, conn
<1>1. ASSUME NEW t \in Threads, CallLifecycle(t)  PROVE TypeOK'
  BY <1>1, Constructors DEF CallLifecycle, Goto, TypeOK, Ops, Places
<1>2. ASSUME NEW t \in Threads, CallEntryPoint(t)  PROVE TypeOK'
  <2>1. call' \in [Threads -> Calls]
    BY <1>2, Constructors DEF CallEntryPoint, TypeOK, Ops
  <2>2. ret' \in [Threads -> Outcomes]
    BY <1>2, Constructors DEF CallEntryPoint, TypeOK, Results
  <2>3. pc' \in [Threads -> Places]
    BY <1>2 DEF CallEntryPoint, Goto, TypeOK, Places
  <2>. QED  BY <1>2, <2>1, <2>2, <2>3 DEF CallEntryPoint, TypeOK
<1>3. ASSUME NEW t \in Threads, Acquire(t)  PROVE TypeOK'
  BY <1>3 DEF Acquire, Goto, TypeOK, Places, Inside
<1>4. ASSUME NEW t \in Threads, InitAlreadyConnected(t)  PROVE TypeOK'
  BY <1>4, TypeUnlock DEF InitAlreadyConnected, TypeOK
<1>5. ASSUME NEW t \in Threads, InitNoConnection(t)  PROVE TypeOK'
  BY <1>5, TypeUnlock DEF InitNoConnection, TypeOK
<1>6. ASSUME NEW t \in Threads, InitConnect(t)  PROVE TypeOK'
  <2>1. /\ s_sockfd' \in Descriptors \cup {Closed} /\ open' \subseteq Descriptors
        /\ peer' \in BOOLEAN
    BY <1>6 DEF InitConnect, TypeOK
  <2>2. c2s' \in Seq(Requests) /\ s2c' \in Seq(Replies) /\ interrupted' \in BOOLEAN
    BY <1>6, Empty DEF InitConnect, NoMessages
  <2>3. pc' \in [Threads -> Places]
    BY <1>6 DEF InitConnect, Goto, TypeOK, Places, Inside
  <2>. QED  BY <1>6, <2>1, <2>2, <2>3 DEF InitConnect, TypeOK
<1>7. ASSUME NEW t \in Threads, InitSendPing(t)  PROVE TypeOK'
  BY <1>7, TypeSendMsg, TypeGoto, Protocol
     DEF InitSendPing, InitSend, TypeOK, Places, Inside, Waiting
<1>8. ASSUME NEW t \in Threads, InitSendQueryCaps(t)  PROVE TypeOK'
  BY <1>8, TypeSendMsg, TypeGoto, Protocol
     DEF InitSendQueryCaps, InitSend, TypeOK, Places, Inside, Waiting
<1>9. ASSUME NEW t \in Threads, InitSendFails(t)  PROVE TypeOK'
  BY <1>9, TypeInitFail, TypeNextSeq DEF InitSendFails, TypeOK
<1>10. ASSUME NEW t \in Threads, InitRecvPong(t)  PROVE TypeOK'
  <2>1. s_seq' \in Seqs /\ s_caps' \in BOOLEAN
    BY <1>10 DEF InitRecvPong, TypeOK
  <2>2. CASE Head(s2c).type = "PONG"
    <3>1. Goto(t, "query") /\ s2c' \in Seq(Replies)
      BY <1>10, <2>2, Streams DEF InitRecvPong, Arrived, TypeOK
    <3>2. pc' \in [Threads -> Places]  BY <3>1, TypeGoto DEF Places, Inside
    <3>. QED  BY <1>10, <2>2, <3>1, <3>2 DEF InitRecvPong, TypeOK
  <2>3. CASE Head(s2c).type # "PONG"
    BY <1>10, <2>1, <2>3, TypeInitFail DEF InitRecvPong
  <2>. QED  BY <2>2, <2>3
<1>11. ASSUME NEW t \in Threads, InitRecvCaps(t)  PROVE TypeOK'
  <2>1. s_seq' \in Seqs
    BY <1>11 DEF InitRecvCaps, TypeOK
  <2>2. CASE Head(s2c).type = "CAPS_RESPONSE"
    <3>1. Goto(t, "ready") /\ s2c' \in Seq(Replies) /\ s_caps' \in BOOLEAN
      BY <1>11, <2>2, Streams DEF InitRecvCaps, Arrived, TypeOK
    <3>2. pc' \in [Threads -> Places]  BY <3>1, TypeGoto DEF Places, Inside
    <3>. QED  BY <1>11, <2>2, <3>1, <3>2 DEF InitRecvCaps, TypeOK
  <2>3. CASE Head(s2c).type # "CAPS_RESPONSE"
    BY <1>11, <2>1, <2>3, TypeInitFail DEF InitRecvCaps, CapsWritten
  <2>. QED  BY <2>2, <2>3
<1>12. ASSUME NEW t \in Threads, InitRecvFails(t)  PROVE TypeOK'
  BY <1>12, TypeInitFail DEF CapsWritten, InitRecvFails, TypeOK
<1>13. ASSUME NEW t \in Threads, Shutdown(t)  PROVE TypeOK'
  BY <1>13, TypeUnlock, TypeClose DEF Shutdown, TypeOK
<1>14. ASSUME NEW t \in Threads, ForwardDisconnected(t)  PROVE TypeOK'
  BY <1>14, TypeReturn DEF ForwardDisconnected, WithoutReply, Results, TypeOK
<1>15. ASSUME NEW t \in Threads, ForwardSend(t)  PROVE TypeOK'
  <2>1. CASE peer \/ call[t].op = "request"
    BY <1>15, <2>1, TypeSendMsg, TypeGoto, Protocol
       DEF ForwardSend, TypeOK, Places, Inside, Waiting
  <2>2. CASE ~(peer \/ call[t].op = "request")
    BY <1>15, <2>2, TypeReturn, TypeNextSeq DEF ForwardSend, Results, TypeOK
  <2>. QED  BY <2>1, <2>2
<1>16. ASSUME NEW t \in Threads, ForwardRecv(t)  PROVE TypeOK'
  <2>1. s2c' \in Seq(Replies)
    BY <1>16, Streams DEF ForwardRecv, Arrived, TypeOK
  <2>2. \E r \in Results, w \in {"none", "own", "stale"} : Return(t, r, w)
    BY <1>16 DEF ForwardRecv, Results
  <2>. QED  BY <1>16, <2>1, <2>2, TypeReturn DEF ForwardRecv, TypeOK
<1>17. ASSUME NEW t \in Threads, ForwardRecvFails(t)  PROVE TypeOK'
  <2>1. s2c' \in Seq(Replies)
    BY <1>17, Streams, Cut DEF ForwardRecvFails, BadMagic, Misread, TypeOK
  <2>. QED  BY <1>17, <2>1, TypeReturn DEF ForwardRecvFails, WithoutReply, Results, TypeOK
<1>18. ASSUME NEW t \in Threads, HandMesh(t)  PROVE TypeOK'
  BY <1>18, TypeReturn DEF HandMesh, Results, TypeOK
<1>19. ASSUME NEW t \in Threads, InterruptInit(t)  PROVE TypeOK'
  BY <1>19, TypeInitFail DEF CapsWritten, InterruptInit, TypeOK
<1>20. ASSUME NEW t \in Threads, InterruptForward(t)  PROVE TypeOK'
  <2>1. s2c' \in Seq(Replies)
    BY <1>20, Cut DEF InterruptForward, TypeOK
  <2>. QED  BY <1>20, <2>1, TypeReturn DEF InterruptForward, WithoutReply, Results, TypeOK
<1>21. CASE HostAnswers
  <2>1. Head(c2s) \in Requests /\ Tail(c2s) \in Seq(Requests)
    BY <1>21, Streams DEF HostAnswers, TypeOK
  <2>2. [type |-> ReplyTo[Head(c2s).type], answers |-> Head(c2s).seq] \in Replies
    BY <2>1, Constructors, Protocol DEF Requests
  <2>. QED  BY <1>21, <2>1, <2>2, Streams DEF HostAnswers, TypeOK
<1>22. CASE HostStarts  BY <1>22 DEF HostStarts, TypeOK
<1>23. CASE HostDies  BY <1>23, Empty DEF HostDies, TypeOK
<1>24. CASE UNCHANGED vars  BY <1>24 DEF vars, TypeOK
<1>25. ASSUME NEW t \in Threads, InitConnected(t)  PROVE TypeOK'
  BY <1>25, TypeUnlock DEF InitConnected, TypeOK
<1>. QED
  BY <1>1, <1>2, <1>3, <1>4, <1>5, <1>6, <1>7, <1>8, <1>9, <1>10, <1>11, <1>12, <1>13,
     <1>14, <1>15, <1>16, <1>17, <1>18, <1>19, <1>20, <1>21, <1>22, <1>23, <1>24,
     <1>25
  DEF Next, ThreadStep, LockedStep, Interrupt

(* The type invariant of the run "bridge", for any number of threads and   *)
(* descriptors, any modulus and any backlog.                               *)
THEOREM TypeCorrect == Spec => []TypeOK
BY TypeInit, TypeStep, PTL DEF Spec

(***************************************************************************)
(* Control: the lock, the calls and the socket.                            *)
(***************************************************************************)

LEMMA ControlInit == Init => Control
BY DEF Init, Control, LockOwner, CallAt, SocketAt, CapsBeforeConnected, Inside, Waiting,
       Shaking, Closed

(* The places a thread leaves the lock from are those of its owner.        *)
LEMMA Owner ==
    ASSUME TypeOK, Control, NEW t \in Threads, pc[t] \in Inside
    PROVE  lock = t /\ \A u \in Threads : u # t => pc[u] \notin Inside
BY DEF Control, LockOwner

(* A thread that leaves takes no other with it.                            *)
LEMMA Left ==
    ASSUME TypeOK, Control, NEW t \in Threads, pc[t] \in Inside, Unlock(t)
    PROVE  /\ LockOwner' /\ CallAt'
           /\ \A u \in Threads : pc'[u] \notin Inside
<1>1. \A u \in Threads : pc'[u] = IF u = t THEN "idle" ELSE pc[u]
  BY DEF TypeOK, Unlock, Goto
<1>2. "idle" \notin Inside
  BY DEF Inside, Waiting
<1>3. \A u \in Threads : pc'[u] \notin Inside
  BY <1>1, <1>2, Owner
<1>4. LockOwner'
  BY <1>3 DEF LockOwner, Unlock, Inside, Waiting
<1>5. \A u \in Threads : pc'[u] = "lock" => pc[u] = "lock" /\ call'[u] = call[u]
  BY <1>1 DEF TypeOK, Unlock
<1>6. CallAt'
  BY <1>3, <1>5 DEF Control, CallAt, Inside, Waiting, Shaking
<1>. QED  BY <1>3, <1>4, <1>6

LEMMA LeftSocket ==
    ASSUME TypeOK, Control, NEW t \in Threads, pc[t] \in Inside, Unlock(t),
           s_connected' = (s_sockfd' # Closed),
           open' = {s_sockfd'} \ {Closed}
    PROVE  SocketAt'
BY Left DEF SocketAt, Shaking, Inside, Waiting

LEMMA ControlInitFail ==
    ASSUME TypeOK, Control, NEW t \in Threads, pc[t] \in Shaking, InitFail(t)
    PROVE  Control'
<1>1. pc[t] \in Inside /\ Unlock(t)  BY DEF Shaking, Inside, Waiting, InitFail
<1>2. s_connected' = FALSE  BY DEF InitFail, Control, SocketAt
<1>3. s_sockfd' = Closed /\ open' = {}
  BY DEF InitFail, CloseSocket, Control, SocketAt
<1>4. SocketAt'  BY <1>1, <1>2, <1>3, LeftSocket
<1>. QED  BY <1>1, <1>2, <1>4, Left DEF Control, CapsBeforeConnected

(* A thread that leaves without a change to the socket leaves it connected *)
(* exactly if it is open.                                                  *)
LEMMA ControlLeave ==
    ASSUME TypeOK, Control, NEW t \in Threads, pc[t] \in Inside \ Shaking, Unlock(t),
           UNCHANGED <<s_sockfd, s_connected, s_caps, open>>
    PROVE  Control'
<1>1. pc[t] \in Inside  OBVIOUS
<1>2. \A u \in Threads : pc[u] \notin Shaking
  BY <1>1, Owner DEF Shaking, Inside, Waiting
<1>3. s_connected = (s_sockfd # Closed)
  BY <1>2 DEF Control, SocketAt, TypeOK
<1>4. SocketAt'  BY <1>1, <1>3, LeftSocket DEF Control, SocketAt
<1>. QED  BY <1>1, <1>4, Left DEF Control, CapsBeforeConnected

(* A step of the owner inside the lock.                                    *)
LEMMA Moved ==
    ASSUME TypeOK, Control, NEW t \in Threads, NEW l \in Inside,
           pc[t] \in Inside, Goto(t, l), UNCHANGED lock
    PROVE  /\ LockOwner'
           /\ pc'[t] = l
           /\ \A u \in Threads : u # t => pc'[u] = pc[u] /\ pc'[u] \notin Inside
<1>1. \A u \in Threads : pc'[u] = IF u = t THEN l ELSE pc[u]
  BY DEF TypeOK, Goto
<1>. QED  BY <1>1, Owner DEF LockOwner, Control

LEMMA ControlStep == TypeOK /\ Control /\ [Next]_vars => Control'
<1>. SUFFICES ASSUME TypeOK, Control, [Next]_vars PROVE Control'  OBVIOUS
<1>. USE DEF bridge, thread, conn
<1>1. ASSUME NEW t \in Threads, CallLifecycle(t)  PROVE Control'
  <2>1. \A u \in Threads : pc'[u] = IF u = t THEN "lock" ELSE pc[u]
    BY <1>1 DEF CallLifecycle, Goto, TypeOK
  <2>2. /\ \A u \in Threads : u # t => call'[u] = call[u]
        /\ call'[t].op \in Ops
    BY <1>1, Constructors DEF CallLifecycle, TypeOK, Ops
  <2>. QED
    BY <1>1, <2>1, <2>2
    DEF CallLifecycle, Control, LockOwner, CallAt, SocketAt, CapsBeforeConnected,
        Inside, Waiting, Shaking
<1>2. ASSUME NEW t \in Threads, CallEntryPoint(t)  PROVE Control'
  <2>0. PICK o \in Forwarded \cup {"handmesh"} :
           \/ Goto(t, "lock") /\ call' = [call EXCEPT ![t] = Called(o, up)]
           \/ UNCHANGED <<pc, call>>
    BY <1>2 DEF CallEntryPoint
  <2>1. \A u \in Threads : pc'[u] = pc[u] \/ (u = t /\ pc'[u] = "lock")
    BY <2>0 DEF Goto, TypeOK
  <2>2. /\ \A u \in Threads : u # t => call'[u] = call[u]
        /\ pc'[t] = "lock" => call'[t].op \in Ops
    <3>0. pc[t] = "idle"  BY <1>2 DEF CallEntryPoint
    <3>1. CASE UNCHANGED <<pc, call>>  BY <3>0, <3>1
    <3>2. CASE call' = [call EXCEPT ![t] = Called(o, up)]
      <4>1. o \in Ops  BY DEF Ops
      <4>2. Called(o, up).op = o  BY <4>1, Constructors DEF TypeOK
      <4>3. call \in [Threads -> Calls]  BY DEF TypeOK
      <4>4. call'[t] = Called(o, up) /\ \A u \in Threads : u # t => call'[u] = call[u]
        BY <3>2, <4>3
      <4>. QED  BY <4>1, <4>2, <4>4
    <3>. QED  BY <2>0, <3>1, <3>2
  <2>3. pc[t] = "idle"  BY <1>2 DEF CallEntryPoint
  <2>. QED
    BY <1>2, <2>1, <2>2, <2>3
    DEF CallEntryPoint, Control, LockOwner, CallAt, SocketAt, CapsBeforeConnected,
        Inside, Waiting, Shaking
<1>3. ASSUME NEW t \in Threads, Acquire(t)  PROVE Control'
  <2>1. \A u \in Threads : pc'[u] = IF u = t THEN "held" ELSE pc[u]
    BY <1>3 DEF Acquire, Goto, TypeOK
  <2>2. \A u \in Threads : pc[u] \notin Inside
    BY <1>3, NoThreadAssumption DEF Acquire, Control, LockOwner
  <2>3. call[t].op \in Ops
    BY <1>3 DEF Acquire, Control, CallAt
  <2>. QED
    BY <1>3, <2>1, <2>2, <2>3
    DEF Acquire, Control, LockOwner, CallAt, SocketAt, CapsBeforeConnected,
        Inside, Waiting, Shaking
<1>4. ASSUME NEW t \in Threads, InitAlreadyConnected(t)  PROVE Control'
  <2>1. pc[t] \in Inside \ Shaking /\ Unlock(t)
    BY <1>4 DEF InitAlreadyConnected, Inside, Waiting, Shaking
  <2>. QED  BY <1>4, <2>1, ControlLeave DEF InitAlreadyConnected
<1>5. ASSUME NEW t \in Threads, InitNoConnection(t)  PROVE Control'
  <2>1. pc[t] \in Inside \ Shaking /\ Unlock(t)
    BY <1>5 DEF InitNoConnection, Inside, Waiting, Shaking
  <2>2. \A u \in Threads : pc[u] \notin Shaking
    BY <2>1, Owner DEF Inside, Waiting, Shaking
  <2>3. UNCHANGED s_sockfd
    BY <1>5, <2>2 DEF InitNoConnection, Control, SocketAt
  <2>. QED  BY <1>5, <2>1, <2>3, ControlLeave DEF InitNoConnection
<1>6. ASSUME NEW t \in Threads, InitConnect(t)  PROVE Control'
  <2>1. pc[t] \in Inside /\ Goto(t, "ping") /\ UNCHANGED <<lock, call>>
    BY <1>6 DEF InitConnect, Inside
  <2>2. /\ LockOwner' /\ pc'[t] = "ping"
        /\ \A u \in Threads : u # t => pc'[u] = pc[u] /\ pc'[u] \notin Inside
    BY <2>1, Moved DEF Inside
  <2>3. \A u \in Threads : pc[u] \notin Shaking
    BY <1>6, <2>1, Owner DEF InitConnect, Inside, Waiting, Shaking
  <2>4. open = {}
    BY <1>6, <2>3 DEF InitConnect, Control, SocketAt
  <2>5. s_sockfd' \in Descriptors /\ open' = {s_sockfd'} /\ s_sockfd' # Closed
    BY <1>6, <2>4, DescriptorsAssumption DEF InitConnect, Closed
  <2>6. SocketAt'
    BY <1>6, <2>2, <2>5 DEF InitConnect, SocketAt, Inside, Waiting, Shaking
  <2>7. CallAt'
    BY <1>6, <2>1, <2>2 DEF InitConnect, Control, CallAt, Inside, Waiting, Shaking
  <2>. QED
    BY <1>6, <2>2, <2>6, <2>7 DEF InitConnect, Control, CapsBeforeConnected
<1>7. ASSUME NEW t \in Threads, InitSendPing(t)  PROVE Control'
  <2>1. pc[t] \in Shaking /\ Goto(t, "pong") /\ UNCHANGED lock
    BY <1>7 DEF InitSendPing, InitSend, Shaking
  <2>2. /\ LockOwner' /\ pc'[t] = "pong"
        /\ \A u \in Threads : u # t => pc'[u] = pc[u] /\ pc'[u] \notin Inside
    BY <2>1, Moved DEF Inside, Waiting, Shaking
  <2>3. \A u \in Threads : call'[u].op = call[u].op
    BY <1>7 DEF InitSendPing, InitSend, SendMsg, TypeOK, Calls
  <2>. QED
    BY <1>7, <2>1, <2>2, <2>3
    DEF InitSendPing, InitSend, Control, CallAt, SocketAt, CapsBeforeConnected,
        Inside, Waiting, Shaking
<1>8. ASSUME NEW t \in Threads, InitSendQueryCaps(t)  PROVE Control'
  <2>1. pc[t] \in Shaking /\ Goto(t, "caps") /\ UNCHANGED lock
    BY <1>8 DEF InitSendQueryCaps, InitSend, Shaking
  <2>2. /\ LockOwner' /\ pc'[t] = "caps"
        /\ \A u \in Threads : u # t => pc'[u] = pc[u] /\ pc'[u] \notin Inside
    BY <2>1, Moved DEF Inside, Waiting, Shaking
  <2>3. \A u \in Threads : call'[u].op = call[u].op
    BY <1>8 DEF InitSendQueryCaps, InitSend, SendMsg, TypeOK, Calls
  <2>. QED
    BY <1>8, <2>1, <2>2, <2>3
    DEF InitSendQueryCaps, InitSend, Control, CallAt, SocketAt, CapsBeforeConnected,
        Inside, Waiting, Shaking
<1>9. ASSUME NEW t \in Threads, InitSendFails(t)  PROVE Control'
  BY <1>9, ControlInitFail DEF InitSendFails, Shaking
<1>10. ASSUME NEW t \in Threads, InitRecvPong(t)  PROVE Control'
  <2>1. CASE Head(s2c).type = "PONG"
    <3>1. pc[t] \in Shaking /\ Goto(t, "query") /\ UNCHANGED <<lock, call>>
      BY <1>10, <2>1 DEF InitRecvPong, Shaking
    <3>2. /\ LockOwner' /\ pc'[t] = "query"
          /\ \A u \in Threads : u # t => pc'[u] = pc[u] /\ pc'[u] \notin Inside
      BY <3>1, Moved DEF Inside, Waiting, Shaking
    <3>. QED
      BY <1>10, <2>1, <3>1, <3>2
      DEF InitRecvPong, Control, CallAt, SocketAt, CapsBeforeConnected,
          Inside, Waiting, Shaking
  <2>2. CASE Head(s2c).type # "PONG"
    BY <1>10, <2>2, ControlInitFail DEF InitRecvPong, Shaking
  <2>. QED  BY <2>1, <2>2
<1>11. ASSUME NEW t \in Threads, InitRecvCaps(t)  PROVE Control'
  <2>1. CASE Head(s2c).type = "CAPS_RESPONSE"
    <3>1. pc[t] \in Shaking /\ Goto(t, "ready") /\ UNCHANGED <<lock, call>>
      BY <1>11, <2>1 DEF InitRecvCaps, Shaking
    <3>2. /\ LockOwner' /\ pc'[t] = "ready"
          /\ \A u \in Threads : u # t => pc'[u] = pc[u] /\ pc'[u] \notin Inside
      BY <3>1, Moved DEF Inside, Waiting, Shaking
    <3>3. s_caps' = HostHandMesh /\ UNCHANGED <<s_sockfd, s_connected, open>>
      BY <1>11, <2>1 DEF InitRecvCaps
    <3>. QED
      BY <3>1, <3>2, <3>3
      DEF Control, CallAt, SocketAt, CapsBeforeConnected, Inside, Waiting, Shaking
  <2>2. CASE Head(s2c).type # "CAPS_RESPONSE"
    BY <1>11, <2>2, ControlInitFail DEF InitRecvCaps, Shaking
  <2>. QED  BY <2>1, <2>2
<1>12. ASSUME NEW t \in Threads, InitRecvFails(t)  PROVE Control'
  BY <1>12, ControlInitFail DEF InitRecvFails, Shaking
<1>13. ASSUME NEW t \in Threads, Shutdown(t)  PROVE Control'
  <2>1. pc[t] \in Inside /\ Unlock(t)
    BY <1>13 DEF Shutdown, Inside
  <2>2. s_sockfd' = Closed /\ open' = {} /\ s_connected' = FALSE
    BY <1>13 DEF Shutdown, CloseSocket, Control, SocketAt
  <2>3. SocketAt'
    BY <2>1, <2>2, LeftSocket
  <2>. QED
    BY <1>13, <2>1, <2>2, <2>3, Left DEF Control, CapsBeforeConnected
<1>14. ASSUME NEW t \in Threads, ForwardDisconnected(t)  PROVE Control'
  <2>1. pc[t] \in Inside \ Shaking /\ Unlock(t)
    BY <1>14 DEF ForwardDisconnected, Return, Inside, Waiting, Shaking
  <2>. QED  BY <1>14, <2>1, ControlLeave DEF ForwardDisconnected
<1>15. ASSUME NEW t \in Threads, ForwardSend(t)  PROVE Control'
  <2>1. CASE peer \/ call[t].op = "request"
    <3>1. pc[t] \in Inside /\ Goto(t, "recv") /\ UNCHANGED lock
      BY <1>15, <2>1 DEF ForwardSend, Inside
    <3>2. /\ LockOwner' /\ pc'[t] = "recv"
          /\ \A u \in Threads : u # t => pc'[u] = pc[u] /\ pc'[u] \notin Inside
      BY <3>1, Moved DEF Inside, Waiting
    <3>3. \A u \in Threads : call'[u].op = call[u].op
      <4>1. call' = [call EXCEPT ![t].seq = s_seq]
        BY <1>15, <2>1 DEF ForwardSend, SendMsg
      <4>. QED  BY <4>1 DEF TypeOK, Calls
    <3>4. s_connected /\ call[t].op \in Forwarded /\ UNCHANGED bridge
      BY <1>15 DEF ForwardSend
    <3>5. CallAt'
      <4>1. call'[t].op \in Forwarded  BY <3>3, <3>4
      <4>2. ASSUME NEW u \in Threads, u # t
            PROVE  /\ pc'[u] \in {"lock", "held"} => call'[u].op \in Ops
                   /\ pc'[u] \in Shaking => call'[u].op = "init"
                   /\ pc'[u] = "recv" => call'[u].op \in Forwarded
        BY <3>2, <3>3, <4>2 DEF Control, CallAt
      <4>. QED  BY <3>2, <4>1, <4>2 DEF CallAt, Shaking
    <3>6. SocketAt'
      BY <3>2, <3>4 DEF Control, SocketAt, Inside, Waiting, Shaking
    <3>. QED
      BY <3>2, <3>4, <3>5, <3>6 DEF Control, CapsBeforeConnected
  <2>2. CASE ~(peer \/ call[t].op = "request")
    <3>1. pc[t] \in Inside \ Shaking /\ Unlock(t)
      BY <1>15, <2>2 DEF ForwardSend, Return, Inside, Waiting, Shaking
    <3>. QED  BY <1>15, <3>1, ControlLeave DEF ForwardSend
  <2>. QED  BY <2>1, <2>2
<1>16. ASSUME NEW t \in Threads, ForwardRecv(t)  PROVE Control'
  <2>1. pc[t] \in Inside \ Shaking /\ Unlock(t)
    BY <1>16 DEF ForwardRecv, Return, Inside, Waiting, Shaking
  <2>. QED  BY <1>16, <2>1, ControlLeave DEF ForwardRecv
<1>17. ASSUME NEW t \in Threads, ForwardRecvFails(t)  PROVE Control'
  <2>1. pc[t] \in Inside \ Shaking /\ Unlock(t)
    BY <1>17 DEF ForwardRecvFails, Return, Inside, Waiting, Shaking
  <2>. QED  BY <1>17, <2>1, ControlLeave DEF ForwardRecvFails
<1>18. ASSUME NEW t \in Threads, HandMesh(t)  PROVE Control'
  <2>1. pc[t] \in Inside \ Shaking /\ Unlock(t)
    BY <1>18 DEF HandMesh, Return, Inside, Waiting, Shaking
  <2>. QED  BY <1>18, <2>1, ControlLeave DEF HandMesh
<1>19. ASSUME NEW t \in Threads, InterruptInit(t)  PROVE Control'
  BY <1>19, ControlInitFail DEF InterruptInit, Shaking
<1>20. ASSUME NEW t \in Threads, InterruptForward(t)  PROVE Control'
  <2>1. pc[t] \in Inside \ Shaking /\ Unlock(t)
    BY <1>20 DEF InterruptForward, Return, Inside, Waiting, Shaking
  <2>. QED  BY <1>20, <2>1, ControlLeave DEF InterruptForward
<1>21. CASE HostAnswers
  BY <1>21 DEF HostAnswers, Control, LockOwner, CallAt, SocketAt, CapsBeforeConnected
<1>22. CASE HostStarts
  BY <1>22 DEF HostStarts, Control, LockOwner, CallAt, SocketAt, CapsBeforeConnected
<1>23. CASE HostDies
  BY <1>23 DEF HostDies, Control, LockOwner, CallAt, SocketAt, CapsBeforeConnected
<1>24. CASE UNCHANGED vars
  BY <1>24 DEF vars, Control, LockOwner, CallAt, SocketAt, CapsBeforeConnected
<1>25. ASSUME NEW t \in Threads, InitConnected(t)  PROVE Control'
  <2>1. pc[t] \in Inside /\ Unlock(t) /\ s_caps' = HostHandMesh
    BY <1>25 DEF InitConnected, Inside, Control, SocketAt
  <2>2. s_sockfd' # Closed /\ s_connected' = TRUE /\ open' = {s_sockfd'} \ {Closed}
    BY <1>25 DEF InitConnected, Control, SocketAt, Shaking
  <2>3. SocketAt'  BY <2>1, <2>2, LeftSocket
  <2>. QED  BY <2>1, <2>3, Left DEF Control, CapsBeforeConnected
<1>. QED
  BY <1>1, <1>2, <1>3, <1>4, <1>5, <1>6, <1>7, <1>8, <1>9, <1>10, <1>11, <1>12, <1>13,
     <1>14, <1>15, <1>16, <1>17, <1>18, <1>19, <1>20, <1>21, <1>22, <1>23, <1>24,
     <1>25
  DEF Next, ThreadStep, LockedStep, Interrupt

(***************************************************************************)
(* The conversation on the socket.                                         *)
(***************************************************************************)
Quiet == ~interrupted => c2s = <<>> /\ s2c = <<>>

(* Quiet streams need no one waiting.                                      *)
LEMMA QuietLockstep == Quiet => Lockstep
BY DEF Quiet, Lockstep, OneMessage

(* Nothing is in flight while the owner of the lock is not waiting, nor    *)
(* while there is no owner.                                                *)
LEMMA Silence ==
    ASSUME TypeOK, Control, Lockstep,
           \A t \in Threads : pc[t] \notin Waiting
    PROVE  Quiet
BY DEF Lockstep, OneMessage, HolderAwaits, Quiet

LEMMA SilentOwner ==
    ASSUME TypeOK, Control, Lockstep, NEW t \in Threads, pc[t] \in Inside \ Waiting
    PROVE  Quiet
<1>1. \A u \in Threads : pc[u] \notin Waiting
  BY Owner DEF Inside
<1>. QED  BY <1>1, Silence

(* A reply the owner can read is the one it awaits, and the only message.  *)
LEMMA ReplyAwaited ==
    ASSUME TypeOK, Control, Lockstep, NEW t \in Threads, pc[t] \in Waiting,
           ~interrupted, s2c # <<>>
    PROVE  /\ Head(s2c).type = Awaited(t) /\ Head(s2c).answers = call[t].seq
           /\ Tail(s2c) = <<>> /\ c2s = <<>>
           /\ Head(s2c).type # Torn
<1>1. lock = t  BY Owner DEF Inside
<1>2. Head(s2c).type = Awaited(t) /\ Head(s2c).answers = call[t].seq
  BY <1>1 DEF Lockstep, OneMessage, HolderAwaits
<1>3. Len(c2s) + Len(s2c) <= 1 /\ s2c \in Seq(Replies) /\ c2s \in Seq(Requests)
  BY DEF Lockstep, OneMessage, TypeOK
<1>4. Tail(s2c) = <<>> /\ c2s = <<>>
  <2>1. Len(s2c) \in Nat /\ Len(s2c) > 0 /\ Len(c2s) \in Nat  BY <1>3, Streams
  <2>2. Len(s2c) <= 1 /\ ~(Len(c2s) > 0)  BY <1>3, <2>1
  <2>. QED  BY <1>3, <2>2, Streams
<1>5. Awaited(t) # Torn
  <2>1. pc[t] \in {"pong", "caps"} \/ (pc[t] = "recv" /\ call[t].op \in Forwarded)
    BY DEF Waiting, Control, CallAt
  <2>. QED
    BY <2>1 DEF Awaited, Torn, Forwarded, RequestOf, ReplyTo
<1>. QED  BY <1>2, <1>4, <1>5

(* The owner sends its request on quiet streams and waits for the reply.   *)
LEMMA SentLockstep ==
    ASSUME TypeOK, Control, Quiet, NEW t \in Threads, NEW q \in RequestTypes,
           pc[t] \in Inside, SendMsg(t, q), lock' = t,
           pc'[t] \in Waiting, ReplyTo[q] = Awaited(t)',
           UNCHANGED <<s2c, interrupted>>
    PROVE  Lockstep'
<1>. SUFFICES ASSUME ~interrupted PROVE OneMessage'  BY DEF Lockstep
<1>1. c2s = <<>> /\ s2c' = <<>>  BY DEF Quiet
<1>2. call'[t].seq = s_seq  BY DEF SendMsg, TypeOK, Calls
<1>3. CASE ~peer  BY <1>1, <1>3 DEF SendMsg, OneMessage
<1>4. CASE peer
  <2>. DEFINE m == [type |-> q, seq |-> s_seq]
  <2>1. m \in Requests /\ c2s \in Seq(Requests)
    BY Constructors DEF TypeOK
  <2>2. c2s' = Append(c2s, m)  BY <1>4 DEF SendMsg
  <2>3. Len(c2s') = 1 /\ Head(c2s') = m
    BY <2>1, <2>2, <1>1, Streams
  <2>4. Head(c2s').type = q /\ Head(c2s').seq = s_seq
    BY <2>3
  <2>5. HolderAwaits(ReplyTo[Head(c2s).type], Head(c2s).seq)'
    BY <1>2, <2>4 DEF HolderAwaits
  <2>6. s2c' = <<>> /\ Len(s2c') = 0
    BY <1>1
  <2>. QED  BY <2>3, <2>5, <2>6 DEF OneMessage
<1>. QED  BY <1>3, <1>4

(* A reply is read by its owner, or the owner leaves with none in flight.  *)
LEMMA LockstepStep ==
    TypeOK /\ Control /\ NoPeerNoRequests /\ Lockstep /\ [Next]_vars
      => NoPeerNoRequests' /\ Lockstep'
<1>. SUFFICES ASSUME TypeOK, Control, NoPeerNoRequests, Lockstep, [Next]_vars
              PROVE  NoPeerNoRequests' /\ Lockstep'
  OBVIOUS
<1>. USE DEF bridge, thread, conn
<1>0. ASSUME NEW t \in Threads, pc[t] \notin Inside,
             UNCHANGED <<lock, c2s, s2c, peer, interrupted>>,
             \A u \in Threads : u # t => pc'[u] = pc[u] /\ call'[u] = call[u]
      PROVE  NoPeerNoRequests' /\ Lockstep'
  <2>1. \A u \in Threads : u = lock => u # t
    BY <1>0 DEF Control, LockOwner
  <2>2. \A a, b : HolderAwaits(a, b) =>
          /\ lock' \in Threads /\ pc'[lock'] \in Waiting
          /\ a = Awaited(lock)' /\ b = call'[lock'].seq
    BY <1>0, <2>1 DEF HolderAwaits, Awaited
  <2>. QED
    BY <1>0, <2>2 DEF NoPeerNoRequests, Lockstep, OneMessage, HolderAwaits
<1>1. ASSUME NEW t \in Threads, CallLifecycle(t)  PROVE NoPeerNoRequests' /\ Lockstep'
  <2>1. pc[t] \notin Inside  BY <1>1 DEF CallLifecycle, Inside, Waiting
  <2>2. \A u \in Threads : u # t => pc'[u] = pc[u] /\ call'[u] = call[u]
    BY <1>1 DEF CallLifecycle, Goto, TypeOK
  <2>. QED  BY <1>0, <1>1, <2>1, <2>2 DEF CallLifecycle
<1>2. ASSUME NEW t \in Threads, CallEntryPoint(t)  PROVE NoPeerNoRequests' /\ Lockstep'
  <2>1. pc[t] \notin Inside  BY <1>2 DEF CallEntryPoint, Inside, Waiting
  <2>2. PICK o \in Forwarded \cup {"handmesh"} :
           \/ Goto(t, "lock") /\ call' = [call EXCEPT ![t] = Called(o, up)]
           \/ UNCHANGED <<pc, call>>
    BY <1>2 DEF CallEntryPoint
  <2>3. \A u \in Threads : u # t => pc'[u] = pc[u] /\ call'[u] = call[u]
    BY <2>2 DEF Goto, TypeOK
  <2>. QED  BY <1>0, <1>2, <2>1, <2>3 DEF CallEntryPoint
<1>3. ASSUME NEW t \in Threads, Acquire(t)  PROVE NoPeerNoRequests' /\ Lockstep'
  <2>1. Quiet
    BY <1>3, NoThreadAssumption, Silence DEF Acquire, Control, LockOwner, Inside
  <2>. QED
    BY <1>3, <2>1, QuietLockstep DEF Acquire, Quiet, NoPeerNoRequests, Lockstep, OneMessage
<1>4. ASSUME NEW t \in Threads, InitAlreadyConnected(t)  PROVE NoPeerNoRequests' /\ Lockstep'
  <2>1. pc[t] \in Inside \ Waiting
    BY <1>4 DEF InitAlreadyConnected, Inside, Waiting
  <2>2. Quiet /\ UNCHANGED <<c2s, s2c, peer, interrupted>>
    BY <1>4, <2>1, SilentOwner DEF InitAlreadyConnected
  <2>. QED  BY <2>2 DEF Quiet, NoPeerNoRequests, Lockstep, OneMessage
<1>5. ASSUME NEW t \in Threads, InitNoConnection(t)  PROVE NoPeerNoRequests' /\ Lockstep'
  <2>1. pc[t] \in Inside \ Waiting
    BY <1>5 DEF InitNoConnection, Inside, Waiting
  <2>2. Quiet /\ UNCHANGED <<c2s, s2c, peer, interrupted>>
    BY <1>5, <2>1, SilentOwner DEF InitNoConnection
  <2>. QED  BY <2>2 DEF Quiet, NoPeerNoRequests, Lockstep, OneMessage
<1>6. ASSUME NEW t \in Threads, InitConnect(t)  PROVE NoPeerNoRequests' /\ Lockstep'
  BY <1>6 DEF InitConnect, NoMessages, NoPeerNoRequests, Lockstep, OneMessage
<1>7. ASSUME NEW t \in Threads, InitSendPing(t)  PROVE NoPeerNoRequests' /\ Lockstep'
  <2>1. pc[t] \in Inside \ Waiting /\ SendMsg(t, "PING") /\ peer /\ UNCHANGED <<peer, lock, s2c, interrupted>>
    BY <1>7 DEF InitSendPing, InitSend, Inside, Waiting
  <2>2. Quiet /\ lock = t
    BY <2>1, SilentOwner, Owner
  <2>3. pc'[t] = "pong"
    BY <1>7 DEF InitSendPing, InitSend, Goto, TypeOK
  <2>4. pc'[t] \in Waiting /\ ReplyTo["PING"] = Awaited(t)'
    BY <2>3, Protocol DEF Awaited, Waiting
  <2>. QED
    BY <2>1, <2>2, <2>4, SentLockstep, Protocol DEF NoPeerNoRequests
<1>8. ASSUME NEW t \in Threads, InitSendQueryCaps(t)  PROVE NoPeerNoRequests' /\ Lockstep'
  <2>1. pc[t] \in Inside \ Waiting /\ SendMsg(t, "QUERY_CAPS") /\ peer /\ UNCHANGED <<peer, lock, s2c, interrupted>>
    BY <1>8 DEF InitSendQueryCaps, InitSend, Inside, Waiting
  <2>2. Quiet /\ lock = t
    BY <2>1, SilentOwner, Owner
  <2>3. pc'[t] = "caps"
    BY <1>8 DEF InitSendQueryCaps, InitSend, Goto, TypeOK
  <2>4. pc'[t] \in Waiting /\ ReplyTo["QUERY_CAPS"] = Awaited(t)'
    BY <2>3, Protocol DEF Awaited, Waiting
  <2>. QED
    BY <2>1, <2>2, <2>4, SentLockstep, Protocol DEF NoPeerNoRequests
<1>9. ASSUME NEW t \in Threads, InitSendFails(t)  PROVE NoPeerNoRequests' /\ Lockstep'
  BY <1>9 DEF InitSendFails, InitFail, CloseSocket, NoMessages, NoPeerNoRequests, Lockstep, OneMessage
<1>10. ASSUME NEW t \in Threads, InitRecvPong(t)  PROVE NoPeerNoRequests' /\ Lockstep'
  <2>1. CASE Head(s2c).type = "PONG"
    <3>1. pc[t] \in Waiting /\ s2c # <<>> /\ s2c' = Tail(s2c) /\ UNCHANGED <<peer, c2s, interrupted>>
      BY <1>10, <2>1 DEF InitRecvPong, Arrived, Waiting
    <3>. QED
      BY <3>1, ReplyAwaited DEF NoPeerNoRequests, Lockstep, OneMessage
  <2>2. CASE Head(s2c).type # "PONG"
    BY <1>10, <2>2 DEF InitRecvPong, InitFail, CloseSocket, NoMessages, NoPeerNoRequests, Lockstep, OneMessage
  <2>. QED  BY <2>1, <2>2
<1>11. ASSUME NEW t \in Threads, InitRecvCaps(t)  PROVE NoPeerNoRequests' /\ Lockstep'
  <2>1. CASE Head(s2c).type = "CAPS_RESPONSE"
    <3>1. pc[t] \in Waiting /\ s2c # <<>> /\ s2c' = Tail(s2c) /\ UNCHANGED <<peer, c2s, interrupted>>
      BY <1>11, <2>1 DEF InitRecvCaps, Arrived, Waiting
    <3>. QED
      BY <3>1, ReplyAwaited DEF NoPeerNoRequests, Lockstep, OneMessage
  <2>2. CASE Head(s2c).type # "CAPS_RESPONSE"
    BY <1>11, <2>2 DEF InitRecvCaps, InitFail, CloseSocket, NoMessages, NoPeerNoRequests, Lockstep, OneMessage
  <2>. QED  BY <2>1, <2>2
<1>12. ASSUME NEW t \in Threads, InitRecvFails(t)  PROVE NoPeerNoRequests' /\ Lockstep'
  BY <1>12 DEF InitRecvFails, InitFail, CloseSocket, NoMessages, NoPeerNoRequests, Lockstep, OneMessage
<1>13. ASSUME NEW t \in Threads, Shutdown(t)  PROVE NoPeerNoRequests' /\ Lockstep'
  <2>1. CASE s_sockfd # Closed
    BY <1>13, <2>1 DEF Shutdown, CloseSocket, NoMessages, NoPeerNoRequests, Lockstep, OneMessage
  <2>2. CASE s_sockfd = Closed
    <3>1. pc[t] \in Inside \ Waiting
      BY <1>13 DEF Shutdown, Inside, Waiting
    <3>2. Quiet /\ UNCHANGED <<c2s, s2c, peer, interrupted>>
      BY <1>13, <2>2, <3>1, SilentOwner DEF Shutdown
    <3>. QED  BY <3>2 DEF Quiet, NoPeerNoRequests, Lockstep, OneMessage
  <2>. QED  BY <2>1, <2>2
<1>14. ASSUME NEW t \in Threads, ForwardDisconnected(t)  PROVE NoPeerNoRequests' /\ Lockstep'
  <2>1. pc[t] \in Inside \ Waiting
    BY <1>14 DEF ForwardDisconnected, Inside, Waiting
  <2>2. Quiet /\ UNCHANGED <<c2s, s2c, peer, interrupted>>
    BY <1>14, <2>1, SilentOwner DEF ForwardDisconnected
  <2>. QED  BY <2>2 DEF Quiet, NoPeerNoRequests, Lockstep, OneMessage
<1>15. ASSUME NEW t \in Threads, ForwardSend(t)  PROVE NoPeerNoRequests' /\ Lockstep'
  <2>1. pc[t] \in Inside \ Waiting /\ call[t].op \in Forwarded /\ UNCHANGED <<peer, s2c, interrupted>>
    BY <1>15 DEF ForwardSend, Inside, Waiting
  <2>2. Quiet /\ lock = t
    BY <2>1, SilentOwner, Owner
  <2>3. CASE peer \/ call[t].op = "request"
    <3>1. SendMsg(t, RequestOf[call[t].op]) /\ Goto(t, "recv") /\ UNCHANGED lock
      BY <1>15, <2>3 DEF ForwardSend
    <3>2. pc'[t] = "recv" /\ call'[t].op = call[t].op
      BY <3>1 DEF Goto, SendMsg, TypeOK, Calls
    <3>3. pc'[t] \in Waiting /\ ReplyTo[RequestOf[call[t].op]] = Awaited(t)'
      BY <3>2 DEF Awaited, Waiting
    <3>4. Lockstep'
      BY <2>1, <2>2, <3>1, <3>3, SentLockstep, Protocol
    <3>5. NoPeerNoRequests'
      BY <2>1, <3>1 DEF SendMsg, NoPeerNoRequests
    <3>. QED  BY <3>4, <3>5
  <2>4. CASE ~(peer \/ call[t].op = "request")
    <3>1. UNCHANGED c2s  BY <1>15, <2>4 DEF ForwardSend
    <3>. QED  BY <2>1, <2>2, <3>1 DEF Quiet, NoPeerNoRequests, Lockstep, OneMessage
  <2>. QED  BY <2>3, <2>4
<1>16. ASSUME NEW t \in Threads, ForwardRecv(t)  PROVE NoPeerNoRequests' /\ Lockstep'
  <2>1. pc[t] \in Waiting /\ s2c # <<>> /\ s2c' = Tail(s2c) /\ UNCHANGED <<peer, c2s, interrupted>>
    BY <1>16 DEF ForwardRecv, Arrived, Waiting
  <2>. QED
    BY <2>1, ReplyAwaited DEF NoPeerNoRequests, Lockstep, OneMessage
<1>17. ASSUME NEW t \in Threads, ForwardRecvFails(t)  PROVE NoPeerNoRequests' /\ Lockstep'
  <2>1. pc[t] \in Waiting /\ UNCHANGED <<peer, c2s, interrupted>>
    BY <1>17 DEF ForwardRecvFails, Waiting
  <2>2. CASE EndOfFile
    BY <1>17, <2>1, <2>2 DEF ForwardRecvFails, BadMagic, EndOfFile, NoPeerNoRequests, Lockstep, OneMessage
  <2>3. CASE BadMagic
    BY <2>1, <2>3, ReplyAwaited DEF BadMagic, NoPeerNoRequests, Lockstep
  <2>. QED  BY <1>17, <2>2, <2>3 DEF ForwardRecvFails
<1>18. ASSUME NEW t \in Threads, HandMesh(t)  PROVE NoPeerNoRequests' /\ Lockstep'
  <2>1. pc[t] \in Inside \ Waiting
    BY <1>18 DEF HandMesh, Inside, Waiting
  <2>2. Quiet /\ UNCHANGED <<c2s, s2c, peer, interrupted>>
    BY <1>18, <2>1, SilentOwner DEF HandMesh
  <2>. QED  BY <2>2 DEF Quiet, NoPeerNoRequests, Lockstep, OneMessage
<1>19. ASSUME NEW t \in Threads, InterruptInit(t)  PROVE NoPeerNoRequests' /\ Lockstep'
  BY <1>19 DEF InterruptInit, InitFail, CloseSocket, NoMessages, NoPeerNoRequests, Lockstep, OneMessage
<1>20. ASSUME NEW t \in Threads, InterruptForward(t)  PROVE NoPeerNoRequests' /\ Lockstep'
  BY <1>20 DEF InterruptForward, NoPeerNoRequests, Lockstep
<1>21. CASE HostAnswers
  <2>1. NoPeerNoRequests'  BY <1>21 DEF HostAnswers, NoPeerNoRequests
  <2>2. ASSUME ~interrupted  PROVE OneMessage'
    <3>. DEFINE m == [type |-> ReplyTo[Head(c2s).type], answers |-> Head(c2s).seq]
    <3>1. OneMessage /\ c2s # <<>> /\ c2s \in Seq(Requests) /\ s2c \in Seq(Replies)
      BY <1>21, <2>2 DEF HostAnswers, Lockstep, TypeOK
    <3>2. HolderAwaits(m.type, m.answers)
      BY <3>1 DEF OneMessage
    <3>3. Len(c2s) \in Nat /\ Len(c2s) > 0 /\ Len(s2c) \in Nat
      BY <3>1, Streams
    <3>4. Len(c2s) <= 1 /\ ~(Len(s2c) > 0)
      BY <3>1, <3>3 DEF OneMessage
    <3>5. s2c = <<>> /\ Tail(c2s) = <<>>
      BY <3>1, <3>4, Streams
    <3>6. m \in Replies
      <4>1. Head(c2s) \in Requests  BY <3>1, Streams
      <4>. QED  BY <4>1, Constructors, Protocol DEF Requests
    <3>7. Len(s2c') = 1 /\ Head(s2c') = m /\ c2s' = <<>>
      BY <1>21, <3>1, <3>5, <3>6, Streams DEF HostAnswers
    <3>8. HolderAwaits(Head(s2c).type, Head(s2c).answers)'
      BY <1>21, <3>2, <3>7 DEF HostAnswers, HolderAwaits, Awaited
    <3>. QED  BY <3>7, <3>8 DEF OneMessage
  <2>3. UNCHANGED interrupted  BY <1>21 DEF HostAnswers
  <2>. QED  BY <2>1, <2>2, <2>3 DEF Lockstep
<1>22. CASE HostStarts
  BY <1>22 DEF HostStarts, NoPeerNoRequests, Lockstep, OneMessage, HolderAwaits, Awaited
<1>23. CASE HostDies
  <2>1. s2c \in Seq(Replies) /\ c2s \in Seq(Requests)  BY DEF TypeOK
  <2>2. Len(s2c) \in Nat /\ Len(c2s) \in Nat  BY <2>1, Streams
  <2>. QED
    BY <1>23, <2>2 DEF HostDies, NoPeerNoRequests, Lockstep, OneMessage, HolderAwaits, Awaited
<1>24. CASE UNCHANGED vars
  BY <1>24 DEF vars, NoPeerNoRequests, Lockstep, OneMessage, HolderAwaits, Awaited
<1>25. ASSUME NEW t \in Threads, InitConnected(t)  PROVE NoPeerNoRequests' /\ Lockstep'
  <2>1. pc[t] \in Inside \ Waiting
    BY <1>25 DEF InitConnected, Inside, Waiting
  <2>2. Quiet /\ UNCHANGED <<c2s, s2c, peer, interrupted>>
    BY <1>25, <2>1, SilentOwner DEF InitConnected
  <2>. QED  BY <2>2 DEF Quiet, NoPeerNoRequests, Lockstep, OneMessage
<1>. QED
  BY <1>1, <1>2, <1>3, <1>4, <1>5, <1>6, <1>7, <1>8, <1>9, <1>10, <1>11, <1>12, <1>13,
     <1>14, <1>15, <1>16, <1>17, <1>18, <1>19, <1>20, <1>21, <1>22, <1>23, <1>24,
     <1>25
  DEF Next, ThreadStep, LockedStep, Interrupt

(***************************************************************************)
(* The theorems.                                                           *)
(***************************************************************************)
LEMMA Inductive == Spec => []IInv
<1>1. Init => IInv
  <2>1. Init => Lockstep /\ NoPeerNoRequests
    BY DEF Init, Lockstep, OneMessage, NoPeerNoRequests
  <2>. QED  BY <2>1, TypeInit, ControlInit DEF IInv
<1>2. IInv /\ [Next]_vars => IInv'
  BY TypeStep, ControlStep, LockstepStep DEF IInv
<1>. QED  BY <1>1, <1>2, PTL DEF Spec

(* Requests and replies alternate on the socket, whatever the threads do   *)
(* and however often the host dies, until a recv() is interrupted.         *)
THEOREM OneConversation == Spec => []Lockstep
<1>1. IInv => Lockstep  BY DEF IInv
<1>. QED  BY <1>1, Inductive, PTL

(* No path through init, its fail label or shutdown leaks a descriptor.    *)
THEOREM NoDescriptorLeak == Spec => []DescriptorsAccounted
<1>1. IInv => DescriptorsAccounted
  <2>. SUFFICES ASSUME IInv PROVE DescriptorsAccounted  OBVIOUS
  <2>1. open = {s_sockfd} \ {Closed}  BY DEF IInv, Control, SocketAt
  <2>2. ASSUME lock = NoThread  PROVE s_connected <=> s_sockfd # Closed
    <3>1. \A t \in Threads : pc[t] \notin Shaking
      BY <2>2, NoThreadAssumption DEF IInv, Control, LockOwner, Inside, Waiting, Shaking
    <3>. QED  BY <3>1 DEF IInv, Control, SocketAt
  <2>. QED  BY <2>1, <2>2 DEF DescriptorsAccounted
<1>. QED  BY <1>1, Inductive, PTL

(* What is read without the lock: connected never before capabilities.     *)
THEOREM CapsFirst == Spec => []CapsBeforeConnected
<1>1. IInv => CapsBeforeConnected  BY DEF IInv, Control
<1>. QED  BY <1>1, Inductive, PTL

(* Only an interrupted recv() can hand a call another call's reply.        *)
THEOREM OwnReply == Spec => OnlyInterruptsDesync
<1>. DEFINE P == \A t \in Threads :
                    ret'[t] # ret[t] /\ ret'[t].reply = "stale" => interrupted
<1>1. IInv /\ [Next]_vars => P
  <2>. SUFFICES ASSUME IInv, [Next]_vars, ~interrupted,
                       NEW t \in Threads, ret'[t] # ret[t], ret'[t].reply = "stale"
                PROVE  FALSE
    OBVIOUS
  <2>. USE DEF bridge, thread, conn
  <2>0. ret \in [Threads -> Outcomes]  BY DEF IInv, TypeOK
  <2>1. ASSUME NEW u \in Threads, NEW r \in Results, Return(u, r, "none")  PROVE FALSE
    <3>1. ret'[t] = ret[t] \/ ret'[t] = Outcome(r, "none")
      BY <2>0, <2>1 DEF Return
    <3>. QED  BY <3>1, Constructors
  <2>2. ASSUME NEW u \in Threads, CallEntryPoint(u)  PROVE FALSE
    <3>1. ret'[t] \in {ret[t], NoOutcome, Outcome("stub", "none")}
      BY <2>0, <2>2 DEF CallEntryPoint
    <3>2. NoOutcome.reply = "none" /\ Outcome("stub", "none").reply = "none"
      BY DEF NoOutcome, Outcome
    <3>. QED  BY <3>1, <3>2
  <2>3. ASSUME NEW u \in Threads, ForwardSend(u)  PROVE FALSE
    <3>1. ret' = ret \/ Return(u, "failure", "none")
      BY <2>3 DEF ForwardSend
    <3>. QED  BY <3>1, <2>1 DEF Results
  <2>4. ASSUME NEW u \in Threads, ForwardRecv(u)  PROVE FALSE
    <3>1. pc[u] \in Waiting /\ s2c # <<>>
      BY <2>4 DEF ForwardRecv, Arrived, Waiting
    <3>2. Head(s2c).answers = call[u].seq
      BY <3>1, ReplyAwaited DEF IInv
    <3>3. Return(u, "success", "own") \/ Return(u, "failure", "none")
      BY <2>4, <3>2 DEF ForwardRecv
    <3>4. ret'[t] \in {ret[t], Outcome("success", "own"), Outcome("failure", "none")}
      BY <2>0, <3>3 DEF Return
    <3>5. Outcome("success", "own").reply = "own" /\ Outcome("failure", "none").reply = "none"
      BY DEF Outcome
    <3>. QED  BY <3>4, <3>5
  <2>5. ASSUME NEW u \in Threads,
               ForwardDisconnected(u) \/ ForwardRecvFails(u) \/ HandMesh(u) \/ InterruptForward(u)
        PROVE  FALSE
    <3>1. \E r \in Results : Return(u, r, "none")
      BY <2>5 DEF ForwardDisconnected, ForwardRecvFails, HandMesh, InterruptForward,
                  WithoutReply, Results
    <3>. QED  BY <2>1, <3>1
  <2>6. ASSUME NEW u \in Threads,
               \/ CallLifecycle(u) \/ Acquire(u) \/ InitAlreadyConnected(u)
               \/ InitNoConnection(u) \/ InitConnect(u) \/ InitSendPing(u)
               \/ InitSendQueryCaps(u) \/ InitSendFails(u) \/ InitRecvPong(u)
               \/ InitRecvCaps(u) \/ InitConnected(u) \/ InitRecvFails(u) \/ Shutdown(u)
               \/ InterruptInit(u)
        PROVE  FALSE
    <3>1. ret' = ret
      BY <2>6
      DEF CallLifecycle, Acquire, InitAlreadyConnected, InitNoConnection, InitConnect,
          InitSendPing, InitSendQueryCaps, InitSend, InitSendFails, InitRecvPong,
          InitRecvCaps, InitConnected, InitRecvFails, InitFail, Shutdown, InterruptInit
    <3>. QED  BY <3>1
  <2>7. CASE HostAnswers \/ HostStarts \/ HostDies \/ UNCHANGED vars
    BY <2>7 DEF HostAnswers, HostStarts, HostDies, vars
  <2>. QED
    BY <2>2, <2>3, <2>4, <2>5, <2>6, <2>7 DEF Next, ThreadStep, LockedStep, Interrupt
<1>2. [Next]_vars /\ IInv => [P]_vars  BY <1>1
<1>. QED  BY <1>2, Inductive, PTL DEF Spec, OnlyInterruptsDesync

(* No thread has its socket closed or replaced while it waits on it.       *)
THEOREM SocketStable == Spec => NoCloseInFlight
<1>. DEFINE P == \A t \in Threads :
                    pc[t] \in Waiting /\ pc'[t] = pc[t] => s_sockfd' = s_sockfd /\ s_sockfd # Closed
<1>1. IInv /\ [Next]_vars => P
  <2>. SUFFICES ASSUME IInv, [Next]_vars,
                       NEW t \in Threads, pc[t] \in Waiting, pc'[t] = pc[t]
                PROVE  s_sockfd' = s_sockfd /\ s_sockfd # Closed
    OBVIOUS
  <2>. USE DEF bridge, thread, conn
  <2>1. s_sockfd # Closed
    BY DEF IInv, Control, SocketAt, Waiting, Shaking
  <2>2. pc[t] \in Inside /\ lock = t  BY DEF Inside, IInv, Control, LockOwner
  <2>3. pc \in [Threads -> Places]  BY DEF IInv, TypeOK
  <2>4. ASSUME NEW u \in Threads, pc[u] \in Inside, Unlock(u)  PROVE FALSE
    <3>1. u = t  BY <2>2, <2>4 DEF IInv, Control, LockOwner
    <3>2. pc'[t] = "idle"  BY <3>1, <2>3, <2>4 DEF Unlock, Goto
    <3>. QED  BY <3>2 DEF Waiting
  <2>5. ASSUME NEW u \in Threads, InitConnect(u)  PROVE FALSE
    <3>1. pc[u] = "held"  BY <2>5 DEF InitConnect
    <3>2. u = t  BY <2>2, <3>1 DEF IInv, Control, LockOwner, Inside
    <3>. QED  BY <3>1, <3>2 DEF Waiting
  <2>6. ASSUME NEW u \in Threads, pc[u] \in Inside, InitFail(u)  PROVE FALSE
    BY <2>4, <2>6 DEF InitFail
  <2>7. ASSUME NEW u \in Threads,
               \/ InitNoConnection(u) \/ InitSendFails(u) \/ InitRecvFails(u)
               \/ Shutdown(u) \/ InterruptInit(u)
        PROVE  FALSE
    BY <2>4, <2>6, <2>7
    DEF InitNoConnection, InitSendFails, InitRecvFails, Shutdown, InterruptInit,
        Inside, Waiting
  <2>8. ASSUME NEW u \in Threads, InitRecvPong(u)  PROVE s_sockfd' = s_sockfd
    BY <2>6, <2>8 DEF InitRecvPong, Inside, Waiting
  <2>9. ASSUME NEW u \in Threads, InitRecvCaps(u)  PROVE s_sockfd' = s_sockfd
    BY <2>6, <2>9 DEF InitRecvCaps, Inside, Waiting
  <2>10. ASSUME NEW u \in Threads,
                \/ CallLifecycle(u) \/ CallEntryPoint(u) \/ Acquire(u)
                \/ InitAlreadyConnected(u) \/ InitSendPing(u) \/ InitSendQueryCaps(u)
                \/ InitConnected(u)
                \/ ForwardDisconnected(u) \/ ForwardSend(u) \/ ForwardRecv(u)
                \/ ForwardRecvFails(u) \/ HandMesh(u) \/ InterruptForward(u)
         PROVE  s_sockfd' = s_sockfd
    BY <2>10
    DEF CallLifecycle, CallEntryPoint, Acquire, InitAlreadyConnected, InitSendPing,
        InitSendQueryCaps, InitSend, InitConnected, ForwardDisconnected, ForwardSend,
        ForwardRecv, ForwardRecvFails, HandMesh, InterruptForward
  <2>11. CASE HostAnswers \/ HostStarts \/ HostDies \/ UNCHANGED vars
    BY <2>1, <2>11 DEF HostAnswers, HostStarts, HostDies, vars
  <2>. QED
    BY <2>1, <2>5, <2>7, <2>8, <2>9, <2>10, <2>11
    DEF Next, ThreadStep, LockedStep, Interrupt
<1>2. [Next]_vars /\ IInv => [P]_vars  BY <1>1
<1>. QED  BY <1>2, Inductive, PTL DEF Spec, NoCloseInFlight
===============================================================================
