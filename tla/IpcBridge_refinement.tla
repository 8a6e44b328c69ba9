------------------------ MODULE IpcBridge_refinement ------------------------
(***************************************************************************)
(* What the bridge implements, for any number of threads: HostChannel      *)
(* towards the host and RemoteCall towards the application, step by step,  *)
(* until a recv() is interrupted, and again on the next connection.        *)
(***************************************************************************)
EXTENDS IpcBridge_proofs

(* Without a socket there is no connection, and nothing is left of the     *)
(* last one.                                                               *)
Vacant == s_sockfd = Closed => ~peer /\ c2s = <<>> /\ s2c = <<>> /\ ~interrupted

LEMMA VacantStep == TypeOK /\ Control /\ Vacant /\ [Next]_vars => Vacant'
<1>. SUFFICES ASSUME TypeOK, Control, Vacant, [Next]_vars PROVE Vacant'  OBVIOUS
<1>. USE DEF bridge, thread, conn
<1>1. ASSUME UNCHANGED <<s_sockfd, conn>>  PROVE Vacant'
  BY <1>1 DEF Vacant
<1>2. ASSUME CloseSocket  PROVE Vacant'
  BY <1>2 DEF Vacant, CloseSocket, NoMessages
<1>3. ASSUME s_sockfd # Closed, UNCHANGED s_sockfd  PROVE Vacant'
  BY <1>3 DEF Vacant
<1>4. ASSUME NEW t \in Threads,
             \/ CallLifecycle(t) \/ CallEntryPoint(t) \/ Acquire(t) \/ InitAlreadyConnected(t)
             \/ ForwardDisconnected(t) \/ HandMesh(t)
      PROVE  Vacant'
  BY <1>1, <1>4
  DEF CallLifecycle, CallEntryPoint, Acquire, InitAlreadyConnected, ForwardDisconnected, HandMesh
<1>5. ASSUME NEW t \in Threads, InitNoConnection(t)  PROVE Vacant'
  <2>1. \A u \in Threads : pc[u] \notin Shaking
    BY <1>5, Owner DEF InitNoConnection, Inside, Waiting, Shaking
  <2>2. s_sockfd = Closed  BY <1>5, <2>1 DEF InitNoConnection, Control, SocketAt
  <2>. QED  BY <1>1, <1>5, <2>2 DEF InitNoConnection
<1>6. ASSUME NEW t \in Threads, InitConnect(t)  PROVE Vacant'
  BY <1>6, DescriptorsAssumption DEF InitConnect, Vacant, Closed
<1>7. ASSUME NEW t \in Threads, InitFail(t)  PROVE Vacant'
  BY <1>2, <1>7 DEF InitFail
<1>8. ASSUME NEW t \in Threads, pc[t] \in Shaking \cup {"recv"}, UNCHANGED s_sockfd
      PROVE  Vacant'
  BY <1>3, <1>8 DEF Control, SocketAt
<1>9. ASSUME NEW t \in Threads,
             \/ InitSendPing(t) \/ InitSendQueryCaps(t) \/ InitSendFails(t) \/ InitRecvPong(t)
             \/ InitRecvCaps(t) \/ InitConnected(t) \/ InitRecvFails(t) \/ InterruptInit(t)
      PROVE  Vacant'
  <2>1. pc[t] \in Shaking
    BY <1>9
    DEF InitSendPing, InitSendQueryCaps, InitSend, InitSendFails, InitRecvPong, InitRecvCaps,
        InitConnected, InitRecvFails, InterruptInit, Shaking
  <2>2. InitFail(t) \/ UNCHANGED s_sockfd
    BY <1>9
    DEF InitSendPing, InitSendQueryCaps, InitSend, InitSendFails, InitRecvPong, InitRecvCaps,
        InitConnected, InitRecvFails, InterruptInit
  <2>. QED  BY <1>7, <1>8, <2>1, <2>2
<1>10. ASSUME NEW t \in Threads, Shutdown(t)  PROVE Vacant'
  BY <1>1, <1>2, <1>10 DEF Shutdown
<1>11. ASSUME NEW t \in Threads, ForwardSend(t)  PROVE Vacant'
  <2>1. s_sockfd # Closed /\ UNCHANGED s_sockfd
    BY <1>11 DEF ForwardSend, Control, SocketAt
  <2>. QED  BY <1>3, <2>1
<1>12. ASSUME NEW t \in Threads, ForwardRecv(t) \/ ForwardRecvFails(t) \/ InterruptForward(t)
       PROVE  Vacant'
  BY <1>8, <1>12 DEF ForwardRecv, ForwardRecvFails, InterruptForward
<1>13. CASE HostAnswers  BY <1>13 DEF HostAnswers, Vacant
<1>14. CASE HostStarts \/ UNCHANGED vars  BY <1>1, <1>14 DEF HostStarts, vars
<1>15. CASE HostDies  BY <1>15 DEF HostDies, Vacant
<1>. QED
  BY <1>4, <1>5, <1>6, <1>9, <1>10, <1>11, <1>12, <1>13, <1>14, <1>15
  DEF Next, ThreadStep, LockedStep, Interrupt

(* What the refinements rest on.                                           *)
RInv == IInv /\ Vacant

LEMMA RInductive == Spec => []RInv
<1>1. Init => Vacant  BY DEF Init, Vacant
<1>2. IInv /\ Vacant /\ [Next]_vars => Vacant'  BY VacantStep DEF IInv
<1>3. Spec => []Vacant  BY <1>1, <1>2, Inductive, PTL DEF Spec
<1>. QED  BY <1>3, Inductive, PTL DEF RInv

(* Whatever ended a connection, a reply cut short or one that came too     *)
(* late, nothing of it is left for the next: the stream is closed with the *)
(* socket, and a new one starts in step (ipc_bridge.c 137, 180, 189).      *)
THEOREM FreshStart == Spec => []Vacant
<1>1. RInv => Vacant  BY DEF RInv
<1>. QED  BY <1>1, RInductive, PTL

(***************************************************************************)
(* The connection is a HostChannel.                                        *)
(***************************************************************************)

(* The requests and replies of the bridge are the channel's.               *)
LEMMA ChannelProtocol ==
    /\ RequestTypes \subseteq DOMAIN Channel!ReplyTo
    /\ \A q \in RequestTypes : Channel!ReplyTo[q] = ReplyTo[q]
BY DEF RequestTypes, ReplyTo, Channel!ReplyTo

(* What a step may do to the connection, seen from the channel.            *)
LEMMA StepNothing ==
    ASSUME UNCHANGED <<s_sockfd, peer, c2s, s2c>>
    PROVE  UNCHANGED Channel!vars
BY DEF Channel!vars, Types

LEMMA StepAsk ==
    ASSUME TypeOK, NEW t \in Threads, NEW q \in RequestTypes, SendMsg(t, q),
           s_sockfd # Closed, UNCHANGED <<s_sockfd, peer, s2c>>
    PROVE  [Channel!Next]_(Channel!vars)
<1>1. CASE peer
  <2>. DEFINE m == [type |-> q, seq |-> s_seq]
  <2>1. c2s' = Append(c2s, m) /\ m \in Requests /\ c2s \in Seq(Requests)
    BY <1>1, Constructors DEF SendMsg, TypeOK
  <2>2. Types(c2s') = Append(Types(c2s), q)
    BY <2>1, TypesAppend
  <2>3. Types(s2c') = Types(s2c)  BY DEF Types
  <2>4. Channel!Ask
    BY <1>1, <2>2, <2>3, ChannelProtocol DEF Channel!Ask
  <2>. QED  BY <2>4 DEF Channel!Next
<1>2. CASE ~peer
  BY <1>2, StepNothing DEF SendMsg
<1>. QED  BY <1>1, <1>2

LEMMA StepRead ==
    ASSUME TypeOK, s_sockfd # Closed, s2c # <<>>, s2c' = Tail(s2c),
           UNCHANGED <<s_sockfd, peer, c2s>>
    PROVE  [Channel!Next]_(Channel!vars)
<1>1. Types(s2c') = Tail(Types(s2c)) /\ Types(s2c) # <<>>
  BY TypesTail, TypesHead DEF TypeOK
<1>2. Types(c2s') = Types(c2s)  BY DEF Types
<1>3. Channel!Read  BY <1>1, <1>2 DEF Channel!Read
<1>. QED  BY <1>3 DEF Channel!Next

LEMMA StepClose ==
    ASSUME TypeOK, Vacant, CloseSocket
    PROVE  [Channel!Next]_(Channel!vars)
<1>1. s_sockfd' = Closed /\ peer' = FALSE /\ c2s' = <<>> /\ s2c' = <<>>
  BY DEF CloseSocket, NoMessages
<1>2. CASE s_sockfd # Closed
  <2>1. Types(c2s') = <<>> /\ Types(s2c') = <<>>  BY <1>1, TypesEmpty
  <2>2. Channel!Close  BY <1>1, <1>2, <2>1 DEF Channel!Close, TypeOK
  <2>. QED  BY <2>2 DEF Channel!Next
<1>3. CASE s_sockfd = Closed
  <2>1. UNCHANGED <<s_sockfd, peer, c2s, s2c>>  BY <1>1, <1>3 DEF Vacant, TypeOK
  <2>. QED  BY <2>1, StepNothing
<1>. QED  BY <1>2, <1>3

LEMMA StepConnect ==
    ASSUME TypeOK, Vacant, s_sockfd = Closed, s_sockfd' # Closed, peer' = TRUE, NoMessages
    PROVE  [Channel!Next]_(Channel!vars)
<1>1. /\ ~peer /\ Types(c2s') = Types(c2s) /\ Types(s2c') = Types(s2c)
  BY DEF Vacant, NoMessages
<1>2. Channel!Connect  BY <1>1 DEF Channel!Connect
<1>. QED  BY <1>2 DEF Channel!Next

(* What the host answers is there to be read.                              *)
LEMMA ReplyArrives == ASSUME TypeOK, HostAnswers PROVE s2c' # <<>>
<1>. DEFINE m == [type |-> ReplyTo[Head(c2s).type], answers |-> Head(c2s).seq]
<1>1. Head(c2s) \in Requests  BY Streams DEF HostAnswers, TypeOK
<1>2. m \in Replies  BY <1>1, Constructors, Protocol DEF Requests
<1>3. s2c \in Seq(Replies) /\ s2c' = Append(s2c, m)  BY DEF HostAnswers, TypeOK
<1>. HIDE DEF m
<1>. QED  BY <1>2, <1>3

LEMMA StepAnswer ==
    ASSUME TypeOK, Vacant, HostAnswers
    PROVE  [Channel!Next]_(Channel!vars)
<1>. DEFINE q == Head(c2s).type
            m == [type |-> ReplyTo[q], answers |-> Head(c2s).seq]
<1>. USE DEF bridge
<1>1. /\ peer /\ s_sockfd # Closed /\ c2s # <<>> /\ c2s \in Seq(Requests) /\ s2c \in Seq(Replies)
      /\ c2s' = Tail(c2s) /\ s2c' = Append(s2c, m) /\ UNCHANGED <<s_sockfd, peer>>
  BY DEF HostAnswers, Vacant, TypeOK
<1>2. Head(c2s) \in Requests /\ q \in RequestTypes
  <2>1. Head(c2s) \in Requests  BY <1>1, Streams
  <2>. QED  BY <2>1 DEF Requests
<1>3. m \in Replies  BY <1>2, Constructors, Protocol DEF Requests
<1>4. Types(c2s) # <<>> /\ Head(Types(c2s)) = q /\ Types(c2s') = Tail(Types(c2s))
  <2>1. Types(c2s) # <<>> /\ Head(Types(c2s)) = q  BY <1>1, TypesHead
  <2>2. Types(Tail(c2s)) = Tail(Types(c2s))  BY <1>1, TypesTail
  <2>. QED  BY <1>1, <2>1, <2>2
<1>5. Types(s2c') = Append(Types(s2c), ReplyTo[q])
  BY <1>1, <1>3, TypesAppend
<1>6. q \in DOMAIN Channel!ReplyTo /\ Channel!ReplyTo[q] = ReplyTo[q]
  BY <1>2, ChannelProtocol
<1>. HIDE DEF q
<1>7. Channel!Answer  BY <1>1, <1>4, <1>5, <1>6 DEF Channel!Answer
<1>. QED  BY <1>7 DEF Channel!Next

LEMMA StepHostDies ==
    ASSUME TypeOK, Vacant, NoPeerNoRequests, HostDies
    PROVE  [Channel!Next]_(Channel!vars)
<1>. USE DEF bridge
<1>1. peer' = FALSE /\ c2s' = <<>> /\ UNCHANGED <<s_sockfd, s2c>>  BY DEF HostDies
<1>2. CASE peer
  <2>1. s_sockfd # Closed  BY <1>2 DEF Vacant
  <2>2. Types(c2s') = <<>> /\ Types(s2c') = Types(s2c)  BY <1>1, TypesEmpty
  <2>3. Channel!Close  BY <1>1, <1>2, <2>1, <2>2 DEF Channel!Close
  <2>. QED  BY <2>3 DEF Channel!Next
<1>3. CASE ~peer
  BY <1>1, <1>3, StepNothing DEF NoPeerNoRequests, TypeOK
<1>. QED  BY <1>2, <1>3

(* Each action of the bridge and its host is one of those or none.         *)
LEMMA ChannelStep ==
    ASSUME RInv, [Next]_vars, ~interrupted'
    PROVE  [Channel!Next]_(Channel!vars)
<1>. USE DEF bridge, thread, conn
<1>0. TypeOK /\ Control /\ NoPeerNoRequests /\ Lockstep /\ Vacant  BY DEF RInv, IInv
<1>1. ASSUME NEW t \in Threads,
             \/ CallLifecycle(t) \/ CallEntryPoint(t) \/ Acquire(t) \/ InitAlreadyConnected(t)
             \/ InitConnected(t) \/ ForwardDisconnected(t) \/ HandMesh(t)
      PROVE  [Channel!Next]_(Channel!vars)
  BY <1>1, StepNothing
  DEF CallLifecycle, CallEntryPoint, Acquire, InitAlreadyConnected, InitConnected,
      ForwardDisconnected, HandMesh
<1>2. ASSUME NEW t \in Threads, pc[t] = "held", ~s_connected  PROVE s_sockfd = Closed
  <2>1. \A u \in Threads : pc[u] \notin Shaking
    BY <1>0, <1>2, Owner DEF Inside, Waiting, Shaking
  <2>. QED  BY <1>0, <1>2, <2>1 DEF Control, SocketAt
<1>3. ASSUME NEW t \in Threads, InitNoConnection(t)  PROVE [Channel!Next]_(Channel!vars)
  BY <1>2, <1>3, StepNothing DEF InitNoConnection
<1>4. ASSUME NEW t \in Threads, InitConnect(t)  PROVE [Channel!Next]_(Channel!vars)
  <2>1. s_sockfd = Closed  BY <1>2, <1>4 DEF InitConnect
  <2>2. s_sockfd' # Closed  BY <1>4, DescriptorsAssumption DEF InitConnect, Closed
  <2>. QED  BY <1>0, <1>4, <2>1, <2>2, StepConnect DEF InitConnect
<1>5. ASSUME NEW t \in Threads, InitFail(t)  PROVE [Channel!Next]_(Channel!vars)
  BY <1>0, <1>5, StepClose DEF InitFail
<1>6. ASSUME NEW t \in Threads, pc[t] \in Shaking \cup {"recv"}  PROVE s_sockfd # Closed
  BY <1>0, <1>6 DEF Control, SocketAt
<1>7. ASSUME NEW t \in Threads, InitSendPing(t)  PROVE [Channel!Next]_(Channel!vars)
  BY <1>0, <1>6, <1>7, StepAsk, Protocol DEF InitSendPing, InitSend, Shaking
<1>8. ASSUME NEW t \in Threads, InitSendQueryCaps(t)  PROVE [Channel!Next]_(Channel!vars)
  BY <1>0, <1>6, <1>8, StepAsk, Protocol DEF InitSendQueryCaps, InitSend, Shaking
<1>9. ASSUME NEW t \in Threads, InitSendFails(t) \/ InitRecvFails(t) \/ InterruptInit(t)
      PROVE  [Channel!Next]_(Channel!vars)
  BY <1>5, <1>9 DEF InitSendFails, InitRecvFails, InterruptInit
<1>10. ASSUME NEW t \in Threads, InitRecvPong(t)  PROVE [Channel!Next]_(Channel!vars)
  <2>1. CASE Head(s2c).type = "PONG"
    BY <1>0, <1>6, <1>10, <2>1, StepRead DEF InitRecvPong, Arrived, Shaking
  <2>2. CASE Head(s2c).type # "PONG"
    BY <1>5, <1>10, <2>2 DEF InitRecvPong
  <2>. QED  BY <2>1, <2>2
<1>11. ASSUME NEW t \in Threads, InitRecvCaps(t)  PROVE [Channel!Next]_(Channel!vars)
  <2>1. CASE Head(s2c).type = "CAPS_RESPONSE"
    BY <1>0, <1>6, <1>11, <2>1, StepRead DEF InitRecvCaps, Arrived, Shaking
  <2>2. CASE Head(s2c).type # "CAPS_RESPONSE"
    BY <1>5, <1>11, <2>2 DEF InitRecvCaps
  <2>. QED  BY <2>1, <2>2
<1>12. ASSUME NEW t \in Threads, Shutdown(t)  PROVE [Channel!Next]_(Channel!vars)
  BY <1>0, <1>12, StepClose, StepNothing DEF Shutdown
<1>13. ASSUME NEW t \in Threads, ForwardSend(t)  PROVE [Channel!Next]_(Channel!vars)
  <2>1. s_sockfd # Closed  BY <1>0, <1>13 DEF ForwardSend, Control, SocketAt
  <2>2. CASE peer \/ call[t].op = "request"
    BY <1>0, <1>13, <2>1, <2>2, StepAsk, Protocol DEF ForwardSend
  <2>3. CASE ~(peer \/ call[t].op = "request")
    BY <1>13, <2>3, StepNothing DEF ForwardSend
  <2>. QED  BY <2>2, <2>3
<1>14. ASSUME NEW t \in Threads, ForwardRecv(t)  PROVE [Channel!Next]_(Channel!vars)
  BY <1>0, <1>6, <1>14, StepRead DEF ForwardRecv, Arrived
<1>15. ASSUME NEW t \in Threads, ForwardRecvFails(t)  PROVE [Channel!Next]_(Channel!vars)
  <2>1. ~interrupted /\ pc[t] \in Waiting  BY <1>15 DEF ForwardRecvFails, Waiting
  <2>2. ~BadMagic  BY <1>0, <2>1, ReplyAwaited DEF BadMagic
  <2>. QED  BY <1>15, <2>2, StepNothing DEF ForwardRecvFails
<1>16. ASSUME NEW t \in Threads, InterruptForward(t)  PROVE [Channel!Next]_(Channel!vars)
  BY <1>16 DEF InterruptForward
<1>17. CASE HostAnswers  BY <1>0, <1>17, StepAnswer
<1>18. CASE HostStarts \/ UNCHANGED vars  BY <1>18, StepNothing DEF HostStarts, vars
<1>19. CASE HostDies  BY <1>0, <1>19, StepHostDies
<1>. QED
  BY <1>1, <1>3, <1>4, <1>7, <1>8, <1>9, <1>10, <1>11, <1>12, <1>13, <1>14, <1>15, <1>16,
     <1>17, <1>18, <1>19
  DEF Next, ThreadStep, LockedStep, Interrupt

LEMMA ChannelInit == Init => Channel!Init
BY TypesEmpty DEF Init, Channel!Init

(* Until a recv() is interrupted, and again after the next connect(), the  *)
(* bridge and the host it talks to use their connection as HostChannel     *)
(* says.                                                                   *)
THEOREM ChannelKept == Spec => ChannelUntilInterrupted
<1>1. RInv /\ [Next]_vars => [~interrupted' => [Channel!Next]_(Channel!vars)]_vars
  BY ChannelStep
<1>. QED  BY <1>1, ChannelInit, RInductive, PTL DEF Spec, ChannelUntilInterrupted

(***************************************************************************)
(* A call is a remote procedure call.                                      *)
(***************************************************************************)

(* A step of t alone changes no other thread's phase: inside the lock only *)
(* one thread can have been served, outside no reply comes or goes.        *)
StepOf(t) ==
    /\ pc[t] \in Inside \/ UNCHANGED s2c
    /\ \E l \in Places : Goto(t, l)
    /\ \A u \in Threads : u # t => call'[u] = call[u]

LEMMA PhaseAt ==
    /\ Phase = [t \in Threads |-> Phase[t]]
    /\ \A t \in Threads :
          Phase[t] = IF pc[t] = "idle" \/ call[t].op \in Lifecycle THEN "idle"
                     ELSE IF pc[t] = "recv" /\ s2c # <<>> THEN "served"
                     ELSE "pending"
BY DEF Phase

LEMMA PhaseNext ==
    /\ Phase' = [t \in Threads |-> Phase'[t]]
    /\ \A t \in Threads :
          Phase'[t] = IF pc'[t] = "idle" \/ call'[t].op \in Lifecycle THEN "idle"
                      ELSE IF pc'[t] = "recv" /\ s2c' # <<>> THEN "served"
                      ELSE "pending"
BY DEF Phase

LEMMA OnlyMine ==
    ASSUME TypeOK, Control, NEW t \in Threads, StepOf(t)
    PROVE  Phase' = [Phase EXCEPT ![t] = Phase'[t]]
<1>1. \A u \in Threads : u # t => pc'[u] = pc[u] /\ call'[u] = call[u]
  BY DEF StepOf, Goto, TypeOK
<1>2. ASSUME NEW u \in Threads, u # t  PROVE Phase'[u] = Phase[u]
  <2>1. pc[u] # "recv" \/ UNCHANGED s2c
    BY <1>2, Owner DEF StepOf, Inside, Waiting
  <2>. QED  BY <1>1, <1>2, <2>1, PhaseAt, PhaseNext
<1>. QED  BY <1>2, PhaseAt, PhaseNext

(* Where no phase and no result changes, RemoteCall stutters.              *)
LEMMA RemoteSame ==
    ASSUME TypeOK, Control, NEW t \in Threads, StepOf(t), Phase'[t] = Phase[t], UNCHANGED ret
    PROVE  UNCHANGED Remote!vars
<1>1. Phase' = Phase  BY OnlyMine, PhaseAt
<1>. QED  BY <1>1 DEF Remote!vars, Result

LEMMA ResultOf ==
    ASSUME TypeOK, NEW t \in Threads, NEW r, NEW w, ret' = [ret EXCEPT ![t] = Outcome(r, w)]
    PROVE  Result' = [Result EXCEPT ![t] = r]
BY DEF TypeOK, Result, Outcome

(* init and shutdown are no calls of RemoteCall.                           *)
LEMMA LifecycleStep ==
    ASSUME TypeOK, Control, NEW t \in Threads, pc[t] \in Inside, call[t].op \in Lifecycle,
           UNCHANGED ret,
           \/ Unlock(t)
           \/ /\ \E l \in Inside : Goto(t, l)
              /\ call' = call \/ call' = [call EXCEPT ![t].seq = s_seq]
    PROVE  UNCHANGED Remote!vars
<1>1. StepOf(t)
  <2>1. \A u \in Threads : u # t => call'[u] = call[u]  BY DEF Unlock, TypeOK
  <2>. QED  BY <2>1 DEF StepOf, Unlock, Places
<1>2. Phase[t] = "idle"  BY PhaseAt
<1>3. Phase'[t] = "idle"
  <2>1. CASE Unlock(t)
    <3>1. pc'[t] = "idle"  BY <2>1 DEF Unlock, Goto, TypeOK
    <3>. QED  BY <3>1, PhaseNext
  <2>2. CASE call' = call \/ call' = [call EXCEPT ![t].seq = s_seq]
    <3>1. call'[t].op = call[t].op  BY <2>2 DEF TypeOK, Calls
    <3>. QED  BY <3>1, PhaseNext
  <2>. QED  BY <2>1, <2>2
<1>. QED  BY <1>1, <1>2, <1>3, RemoteSame

(* A call that returns without having been served gives up.                *)
LEMMA GiveUpStep ==
    ASSUME TypeOK, Control, NEW t \in Threads, pc[t] \in Inside, call[t].op \notin Lifecycle,
           pc[t] # "recv" \/ s2c = <<>>,
           NEW r \in Remote!GivenUp, NEW w, Return(t, r, w)
    PROVE  Remote!Next
<1>1. StepOf(t)
  BY DEF StepOf, Return, Unlock, Places, TypeOK
<1>2. Phase[t] = "pending"  BY PhaseAt DEF Inside, Waiting
<1>3. pc'[t] = "idle"  BY DEF Return, Unlock, Goto, TypeOK
<1>4. Phase' = [Phase EXCEPT ![t] = "idle"]  BY <1>1, <1>3, PhaseNext, OnlyMine
<1>5. Result' = [Result EXCEPT ![t] = r]  BY ResultOf DEF Return
<1>6. Remote!GiveUp(t)  BY <1>2, <1>4, <1>5 DEF Remote!GiveUp, Remote!Moves
<1>. QED  BY <1>6 DEF Remote!Next

LEMMA RemoteStep ==
    ASSUME RInv, [Next]_vars, ~interrupted'
    PROVE  [Remote!Next]_(Remote!vars)
<1>. USE DEF bridge, thread, conn
<1>0. TypeOK /\ Control /\ NoPeerNoRequests /\ Lockstep /\ Vacant  BY DEF RInv, IInv
<1>1. ASSUME NEW t \in Threads, CallLifecycle(t)  PROVE [Remote!Next]_(Remote!vars)
  <2>1. PICK o \in Lifecycle : call' = [call EXCEPT ![t] = Called(o, up)]
    BY <1>1 DEF CallLifecycle
  <2>2. call'[t].op = o /\ \A u \in Threads : u # t => call'[u] = call[u]
    BY <1>0, <2>1 DEF TypeOK, Called
  <2>3. StepOf(t)  BY <1>1, <2>2 DEF CallLifecycle, StepOf, Places
  <2>4. Phase[t] = "idle" /\ Phase'[t] = "idle"
    BY <1>1, <2>2, PhaseAt, PhaseNext DEF CallLifecycle
  <2>. QED  BY <1>0, <1>1, <2>3, <2>4, RemoteSame DEF CallLifecycle
<1>2. ASSUME NEW t \in Threads, CallEntryPoint(t)  PROVE [Remote!Next]_(Remote!vars)
  <2>0. PICK o \in Forwarded \cup {"handmesh"}, caps \in BOOLEAN :
           IF SeesHost(o, caps)
           THEN /\ Goto(t, "lock")
                /\ call' = [call EXCEPT ![t] = Called(o, up)]
                /\ ret' = [ret EXCEPT ![t] = NoOutcome]
           ELSE /\ UNCHANGED <<pc, call>>
                /\ ret' = [ret EXCEPT ![t] = Outcome("stub", "none")]
    BY <1>2 DEF CallEntryPoint
  <2>1. Phase[t] = "idle" /\ pc[t] = "idle" /\ UNCHANGED s2c
    BY <1>2, PhaseAt DEF CallEntryPoint
  <2>2. CASE SeesHost(o, caps)
    <3>1. Goto(t, "lock") /\ call' = [call EXCEPT ![t] = Called(o, up)]
          /\ ret' = [ret EXCEPT ![t] = NoOutcome]
      BY <2>0, <2>2
    <3>2. call'[t].op = o /\ o \notin Lifecycle /\ \A u \in Threads : u # t => call'[u] = call[u]
      BY <1>0, <3>1 DEF TypeOK, Called, Forwarded, Lifecycle
    <3>3. pc'[t] = "lock"  BY <1>0, <3>1 DEF TypeOK, Goto
    <3>4. Phase'[t] = "pending"  BY <3>2, <3>3, PhaseNext
    <3>5. StepOf(t)  BY <2>1, <3>1, <3>2 DEF StepOf, Places
    <3>6. Phase' = [Phase EXCEPT ![t] = "pending"]  BY <1>0, <3>4, <3>5, OnlyMine
    <3>7. Result' = [Result EXCEPT ![t] = "none"]
      BY <1>0, <3>1, ResultOf DEF NoOutcome
    <3>8. Remote!Invoke(t)  BY <2>1, <3>6, <3>7 DEF Remote!Invoke, Remote!Moves
    <3>. QED  BY <3>8 DEF Remote!Next
  <2>3. CASE ~SeesHost(o, caps)
    <3>1. UNCHANGED <<pc, call>> /\ ret' = [ret EXCEPT ![t] = Outcome("stub", "none")]
      BY <2>0, <2>3
    <3>2. Phase' = Phase  BY <2>1, <3>1 DEF Phase
    <3>3. Result' = [Result EXCEPT ![t] = "stub"]  BY <1>0, <3>1, ResultOf
    <3>4. Remote!Stub(t)  BY <2>1, <3>2, <3>3 DEF Remote!Stub
    <3>. QED  BY <3>4 DEF Remote!Next
  <2>. QED  BY <2>2, <2>3
<1>3. ASSUME NEW t \in Threads, Acquire(t)  PROVE [Remote!Next]_(Remote!vars)
  <2>1. pc[t] = "lock" /\ pc'[t] = "held" /\ UNCHANGED <<call, s2c, ret>> /\ Goto(t, "held")
    BY <1>0, <1>3 DEF Acquire, Goto, TypeOK
  <2>2. StepOf(t)  BY <2>1 DEF StepOf, Places, Inside
  <2>3. Phase'[t] = Phase[t]  BY <2>1, PhaseAt, PhaseNext
  <2>. QED  BY <1>0, <2>1, <2>2, <2>3, RemoteSame
<1>4. ASSUME NEW t \in Threads, pc[t] \in Inside, call[t].op \in Lifecycle, UNCHANGED ret,
             \/ Unlock(t)
             \/ /\ \E l \in Inside : Goto(t, l)
                /\ call' = call \/ call' = [call EXCEPT ![t].seq = s_seq]
      PROVE  [Remote!Next]_(Remote!vars)
  BY <1>0, <1>4, LifecycleStep
<1>5. ASSUME NEW t \in Threads, pc[t] \in Shaking
      PROVE  pc[t] \in Inside /\ call[t].op \in Lifecycle
  BY <1>0, <1>5 DEF Control, CallAt, Inside, Waiting, Shaking, Lifecycle
<1>6. ASSUME NEW t \in Threads,
             InitAlreadyConnected(t) \/ InitNoConnection(t) \/ Shutdown(t)
      PROVE  [Remote!Next]_(Remote!vars)
  BY <1>4, <1>6 DEF InitAlreadyConnected, InitNoConnection, Shutdown, Inside, Lifecycle
<1>7. ASSUME NEW t \in Threads, InitConnect(t)  PROVE [Remote!Next]_(Remote!vars)
  BY <1>4, <1>7 DEF InitConnect, Inside, Lifecycle
<1>8. ASSUME NEW t \in Threads, InitSendPing(t) \/ InitSendQueryCaps(t)
      PROVE  [Remote!Next]_(Remote!vars)
  <2>1. pc[t] \in Shaking
    BY <1>8 DEF InitSendPing, InitSendQueryCaps, InitSend, Shaking
  <2>2. \E l \in Inside : Goto(t, l)
    BY <1>8 DEF InitSendPing, InitSendQueryCaps, InitSend, Inside, Waiting
  <2>3. UNCHANGED ret /\ call' = [call EXCEPT ![t].seq = s_seq]
    BY <1>8 DEF InitSendPing, InitSendQueryCaps, InitSend, SendMsg
  <2>. QED  BY <1>4, <1>5, <2>1, <2>2, <2>3
<1>9. ASSUME NEW t \in Threads, pc[t] \in Shaking, InitFail(t)  PROVE [Remote!Next]_(Remote!vars)
  BY <1>4, <1>5, <1>9 DEF InitFail
<1>10. ASSUME NEW t \in Threads, InitSendFails(t) \/ InitRecvFails(t) \/ InterruptInit(t)
       PROVE  [Remote!Next]_(Remote!vars)
  BY <1>9, <1>10 DEF InitSendFails, InitRecvFails, InterruptInit, Shaking
<1>11. ASSUME NEW t \in Threads, InitRecvPong(t)  PROVE [Remote!Next]_(Remote!vars)
  <2>1. pc[t] \in Shaking  BY <1>11 DEF InitRecvPong, Shaking
  <2>2. CASE Head(s2c).type = "PONG"
    <3>1. Goto(t, "query") /\ "query" \in Inside /\ UNCHANGED <<call, ret>>
      BY <1>11, <2>2 DEF InitRecvPong, Inside
    <3>. QED  BY <1>4, <1>5, <2>1, <3>1
  <2>3. CASE Head(s2c).type # "PONG"
    BY <1>9, <1>11, <2>1, <2>3 DEF InitRecvPong
  <2>. QED  BY <2>2, <2>3
<1>12. ASSUME NEW t \in Threads, InitRecvCaps(t)  PROVE [Remote!Next]_(Remote!vars)
  <2>1. pc[t] \in Shaking  BY <1>12 DEF InitRecvCaps, Shaking
  <2>2. CASE Head(s2c).type = "CAPS_RESPONSE"
    <3>1. Goto(t, "ready") /\ "ready" \in Inside /\ UNCHANGED <<call, ret>>
      BY <1>12, <2>2 DEF InitRecvCaps, Inside
    <3>. QED  BY <1>4, <1>5, <2>1, <3>1
  <2>3. CASE Head(s2c).type # "CAPS_RESPONSE"
    BY <1>9, <1>12, <2>1, <2>3 DEF InitRecvCaps
  <2>. QED  BY <2>2, <2>3
<1>13. ASSUME NEW t \in Threads, ForwardDisconnected(t)  PROVE [Remote!Next]_(Remote!vars)
  BY <1>0, <1>13, GiveUpStep
  DEF ForwardDisconnected, WithoutReply, Inside, Forwarded, Lifecycle, Remote!GivenUp
<1>14. ASSUME NEW t \in Threads, HandMesh(t)  PROVE [Remote!Next]_(Remote!vars)
  BY <1>0, <1>14, GiveUpStep DEF HandMesh, Inside, Lifecycle, Remote!GivenUp
<1>15. ASSUME NEW t \in Threads, ForwardSend(t)  PROVE [Remote!Next]_(Remote!vars)
  <2>1. pc[t] = "held" /\ call[t].op \notin Lifecycle /\ UNCHANGED <<s2c, interrupted>>
    BY <1>15 DEF ForwardSend, Forwarded, Lifecycle
  <2>2. pc[t] \in Inside \ Waiting  BY <2>1 DEF Inside, Waiting
  <2>3. CASE peer \/ call[t].op = "request"
    <3>1. SendMsg(t, RequestOf[call[t].op]) /\ Goto(t, "recv") /\ UNCHANGED ret
      BY <1>15, <2>3 DEF ForwardSend
    <3>2. /\ pc'[t] = "recv" /\ call'[t].op = call[t].op
          /\ \A u \in Threads : u # t => call'[u] = call[u]
      BY <1>0, <3>1 DEF SendMsg, Goto, TypeOK, Calls
    <3>3. s2c' = <<>>  BY <1>0, <2>1, <2>2, SilentOwner DEF Quiet
    <3>4. Phase[t] = "pending" /\ Phase'[t] = "pending"
      BY <2>1, <3>2, <3>3, PhaseAt, PhaseNext
    <3>5. StepOf(t)  BY <2>1, <3>1, <3>2 DEF StepOf, Places, Inside, Waiting
    <3>. QED  BY <1>0, <3>1, <3>4, <3>5, RemoteSame
  <2>4. CASE ~(peer \/ call[t].op = "request")
    <3>1. Return(t, "failure", "none")  BY <1>15, <2>4 DEF ForwardSend
    <3>. QED  BY <1>0, <2>1, <2>2, <3>1, GiveUpStep DEF Remote!GivenUp
  <2>. QED  BY <2>3, <2>4
<1>16. ASSUME NEW t \in Threads, ForwardRecv(t)  PROVE [Remote!Next]_(Remote!vars)
  <2>1. pc[t] = "recv" /\ s2c # <<>> /\ ~interrupted
    BY <1>16 DEF ForwardRecv, Arrived
  <2>2. call[t].op \notin Lifecycle /\ pc[t] \in Waiting
    BY <1>0, <2>1 DEF Control, CallAt, Forwarded, Lifecycle, Waiting
  <2>3. Head(s2c).type = ReplyTo[RequestOf[call[t].op]]
    BY <1>0, <2>1, <2>2, ReplyAwaited DEF Awaited
  <2>4. PICK w \in {"own", "stale"} : Return(t, "success", w)
    BY <1>16, <2>3 DEF ForwardRecv
  <2>5. StepOf(t) /\ pc'[t] = "idle"
    BY <1>0, <2>2, <2>4 DEF StepOf, Return, Unlock, Goto, Places, Inside, TypeOK
  <2>6. Phase[t] = "served" /\ Phase' = [Phase EXCEPT ![t] = "idle"]
    BY <1>0, <2>1, <2>2, <2>5, PhaseAt, PhaseNext, OnlyMine
  <2>7. Result' = [Result EXCEPT ![t] = "success"]  BY <1>0, <2>4, ResultOf DEF Return
  <2>8. Remote!Succeed(t)  BY <2>6, <2>7 DEF Remote!Succeed, Remote!Moves
  <2>. QED  BY <2>8 DEF Remote!Next
<1>17. ASSUME NEW t \in Threads, ForwardRecvFails(t)  PROVE [Remote!Next]_(Remote!vars)
  <2>1. pc[t] = "recv" /\ pc[t] \in Waiting /\ ~interrupted
    BY <1>17 DEF ForwardRecvFails, Waiting
  <2>2. call[t].op \notin Lifecycle /\ pc[t] \in Inside
    BY <1>0, <2>1 DEF Control, CallAt, Forwarded, Lifecycle, Inside
  <2>3. s2c = <<>>
    BY <1>0, <1>17, <2>1, ReplyAwaited DEF ForwardRecvFails, BadMagic, EndOfFile
  <2>. QED
    BY <1>0, <1>17, <2>2, <2>3, GiveUpStep DEF ForwardRecvFails, WithoutReply, Remote!GivenUp
<1>18. ASSUME NEW t \in Threads, InterruptForward(t)  PROVE [Remote!Next]_(Remote!vars)
  BY <1>18 DEF InterruptForward
<1>19. CASE HostAnswers
  <2>1. ~interrupted /\ c2s # <<>> /\ s2c' # <<>> /\ UNCHANGED <<pc, call, ret>>
    BY <1>0, <1>19, ReplyArrives DEF HostAnswers
  <2>2. lock \in Threads /\ pc[lock] \in Waiting
    BY <1>0, <2>1 DEF Lockstep, OneMessage, HolderAwaits
  <2>3. s2c = <<>>  BY <1>0, <2>1, <2>2, ReplyAwaited
  <2>4. \A u \in Threads : u # lock => pc[u] # "recv"
    BY <1>0, <2>2 DEF Control, LockOwner, Inside, Waiting
  <2>5. \A u \in Threads : Phase[u] # "served" /\ (u # lock => Phase'[u] = Phase[u])
    BY <2>1, <2>3, <2>4, PhaseAt, PhaseNext
  <2>6. Result' = Result  BY <2>1 DEF Result
  <2>7. CASE pc[lock] = "recv"
    <3>1. call[lock].op \notin Lifecycle
      BY <1>0, <2>2, <2>7 DEF Control, CallAt, Forwarded, Lifecycle
    <3>2. Phase[lock] = "pending" /\ Phase'[lock] = "served"
      BY <2>1, <2>2, <2>3, <2>7, <3>1, PhaseAt, PhaseNext
    <3>3. Phase' = [Phase EXCEPT ![lock] = "served"]
      BY <2>2, <2>5, <3>2, PhaseAt, PhaseNext
    <3>4. Remote!Serve(lock)
      BY <2>5, <2>6, <3>2, <3>3 DEF Remote!Serve, Remote!Moves
    <3>. QED  BY <2>2, <3>4 DEF Remote!Next
  <2>8. CASE pc[lock] # "recv"
    <3>1. \A u \in Threads : Phase'[u] = Phase[u]
      BY <2>1, <2>4, <2>8, PhaseAt, PhaseNext
    <3>2. Phase' = Phase  BY <3>1, PhaseAt, PhaseNext
    <3>. QED  BY <2>6, <3>2 DEF Remote!vars
  <2>. QED  BY <2>7, <2>8
<1>20. CASE HostStarts \/ HostDies \/ UNCHANGED vars
  <2>1. UNCHANGED <<pc, call, ret, s2c>>  BY <1>20 DEF HostStarts, HostDies, vars
  <2>. QED  BY <2>1 DEF Phase, Result, Remote!vars
<1>21. ASSUME NEW t \in Threads, InitConnected(t)  PROVE [Remote!Next]_(Remote!vars)
  <2>1. pc[t] \in Shaking /\ Unlock(t) /\ UNCHANGED ret
    BY <1>21 DEF InitConnected, Shaking
  <2>. QED  BY <1>4, <1>5, <2>1
<1>. QED
  BY <1>1, <1>2, <1>3, <1>6, <1>7, <1>8, <1>10, <1>11, <1>12, <1>13, <1>14, <1>15, <1>16,
     <1>17, <1>18, <1>19, <1>20, <1>21
  DEF Next, ThreadStep, LockedStep, Interrupt

LEMMA RemoteInit == Init => Remote!Init
BY DEF Init, Remote!Init, Phase, Result, NoOutcome, Outcome

(* Until a recv() is interrupted a forwarded call is a remote procedure    *)
(* call: served at most once, alone, while it is pending, and successful   *)
(* exactly if it was served.                                               *)
THEOREM CallsKept == Spec => RemoteUntilInterrupted
<1>1. RInv /\ [Next]_vars => [~interrupted' => [Remote!Next]_(Remote!vars)]_vars
  BY RemoteStep
<1>. QED  BY <1>1, RemoteInit, RInductive, PTL DEF Spec, RemoteUntilInterrupted

(***************************************************************************)
(* No wait is in vain.                                                     *)
(***************************************************************************)
LEMMA WaitStep ==
    TypeOK /\ Control /\ NobodyWaitsInVain /\ [Next]_vars => NobodyWaitsInVain'
<1>. SUFFICES ASSUME TypeOK, Control, NobodyWaitsInVain, [Next]_vars,
                     NEW u \in Threads, pc'[u] \in Waiting, peer'
              PROVE  c2s' # <<>> \/ s2c' # <<>>
  BY DEF NobodyWaitsInVain
<1>. USE DEF bridge, thread, conn
<1>1. ASSUME pc'[u] = pc[u], UNCHANGED <<peer, c2s, s2c>>  PROVE c2s' # <<>> \/ s2c' # <<>>
  BY <1>1 DEF NobodyWaitsInVain
<1>2. ASSUME NEW t \in Threads, pc[t] \notin Inside \/ ~(pc'[t] \in Waiting),
             \E l \in Places \ Waiting : Goto(t, l), UNCHANGED <<peer, c2s, s2c>>
      PROVE  c2s' # <<>> \/ s2c' # <<>>
  <2>1. u # t  BY <1>2 DEF Goto, TypeOK
  <2>2. pc'[u] = pc[u]  BY <1>2, <2>1 DEF Goto, TypeOK
  <2>. QED  BY <1>1, <1>2, <2>2
(* Whoever leaves, or moves on without having sent, leaves nobody waiting. *)
<1>3. ASSUME NEW t \in Threads, pc[t] \in Inside, \E l \in Places \ Waiting : Goto(t, l)
      PROVE  FALSE
  <2>1. u # t  BY <1>3 DEF Goto, TypeOK
  <2>2. pc'[u] = pc[u] /\ pc[u] \in Inside  BY <1>3, <2>1 DEF Goto, TypeOK, Inside
  <2>. QED  BY <1>3, <2>1, <2>2, Owner
<1>4. ASSUME NEW t \in Threads, NEW q \in RequestTypes, SendMsg(t, q), UNCHANGED peer
      PROVE  c2s' # <<>> \/ s2c' # <<>>
  <2>1. [type |-> q, seq |-> s_seq] \in Requests /\ c2s \in Seq(Requests)
    BY Constructors DEF TypeOK
  <2>2. c2s' = Append(c2s, [type |-> q, seq |-> s_seq])  BY <1>4 DEF SendMsg
  <2>. QED  BY <2>1, <2>2
<1>5. ASSUME NEW t \in Threads, pc[t] \in Inside, Unlock(t)  PROVE FALSE
  BY <1>3, <1>5 DEF Unlock, Places, Inside, Waiting
<1>6. ASSUME NEW t \in Threads, CallLifecycle(t) \/ Acquire(t)
      PROVE  c2s' # <<>> \/ s2c' # <<>>
  <2>1. pc[t] \notin Inside /\ UNCHANGED <<peer, c2s, s2c>>
        /\ \E l \in Places \ Waiting : Goto(t, l)
    BY <1>6 DEF CallLifecycle, Acquire, Places, Inside, Waiting
  <2>. QED  BY <1>2, <2>1
<1>7. ASSUME NEW t \in Threads, CallEntryPoint(t)  PROVE c2s' # <<>> \/ s2c' # <<>>
  <2>1. pc[t] = "idle" /\ UNCHANGED <<peer, c2s, s2c>> /\ (Goto(t, "lock") \/ UNCHANGED pc)
    BY <1>7 DEF CallEntryPoint
  <2>2. CASE Goto(t, "lock")
    BY <1>2, <2>1, <2>2 DEF Places, Inside, Waiting
  <2>3. CASE UNCHANGED pc  BY <1>1, <2>1, <2>3
  <2>. QED  BY <2>1, <2>2, <2>3
<1>8. ASSUME NEW t \in Threads,
             \/ InitAlreadyConnected(t) \/ InitNoConnection(t) \/ InitSendFails(t)
             \/ InitConnected(t) \/ InitRecvFails(t) \/ Shutdown(t) \/ ForwardDisconnected(t)
             \/ ForwardRecv(t) \/ ForwardRecvFails(t) \/ HandMesh(t) \/ Interrupt(t)
      PROVE  FALSE
  <2>1. pc[t] \in Inside
    BY <1>8
    DEF InitAlreadyConnected, InitNoConnection, InitSendFails, InitConnected, InitRecvFails,
        Shutdown, ForwardDisconnected, ForwardRecv, ForwardRecvFails, HandMesh, Interrupt,
        InterruptInit, InterruptForward, Inside, Waiting
  <2>2. Unlock(t)
    BY <1>8
    DEF InitAlreadyConnected, InitNoConnection, InitSendFails, InitConnected, InitRecvFails,
        Shutdown, ForwardDisconnected, ForwardRecv, ForwardRecvFails, HandMesh, Interrupt,
        InterruptInit, InterruptForward, InitFail, Return
  <2>. QED  BY <1>5, <2>1, <2>2
<1>9. ASSUME NEW t \in Threads, InitConnect(t)  PROVE FALSE
  BY <1>3, <1>9 DEF InitConnect, Places, Inside, Waiting
<1>10. ASSUME NEW t \in Threads, InitRecvPong(t)  PROVE FALSE
  <2>1. pc[t] \in Inside  BY <1>10 DEF InitRecvPong, Inside, Waiting
  <2>2. Goto(t, "query") \/ Unlock(t)  BY <1>10 DEF InitRecvPong, InitFail
  <2>. QED  BY <1>3, <1>5, <2>1, <2>2 DEF Places, Inside, Waiting
<1>16. ASSUME NEW t \in Threads, InitRecvCaps(t)  PROVE FALSE
  <2>1. pc[t] \in Inside  BY <1>16 DEF InitRecvCaps, Inside, Waiting
  <2>2. Goto(t, "ready") \/ Unlock(t)  BY <1>16 DEF InitRecvCaps, InitFail
  <2>. QED  BY <1>3, <1>5, <2>1, <2>2 DEF Places, Inside, Waiting
<1>11. ASSUME NEW t \in Threads, InitSendPing(t) \/ InitSendQueryCaps(t)
       PROVE  c2s' # <<>> \/ s2c' # <<>>
  BY <1>4, <1>11, Protocol DEF InitSendPing, InitSendQueryCaps, InitSend
<1>12. ASSUME NEW t \in Threads, ForwardSend(t)  PROVE c2s' # <<>> \/ s2c' # <<>>
  <2>1. CASE peer \/ call[t].op = "request"
    BY <1>4, <1>12, <2>1, Protocol DEF ForwardSend
  <2>2. CASE ~(peer \/ call[t].op = "request")
    BY <1>12, <2>2 DEF ForwardSend
  <2>. QED  BY <2>1, <2>2
<1>13. CASE HostAnswers  BY <1>13, ReplyArrives
<1>14. CASE HostStarts \/ UNCHANGED vars  BY <1>1, <1>14 DEF HostStarts, vars
<1>15. CASE HostDies  BY <1>15 DEF HostDies
<1>. QED
  BY <1>6, <1>7, <1>8, <1>9, <1>10, <1>11, <1>12, <1>13, <1>14, <1>15, <1>16
  DEF Next, ThreadStep, LockedStep

(* However often signals interrupt a recv() and the host dies, a thread    *)
(* that waits for a live host has a message in flight to wait for.         *)
THEOREM WaitsEnd == Spec => []NobodyWaitsInVain
<1>1. Init => NobodyWaitsInVain  BY DEF Init, NobodyWaitsInVain, Waiting
<1>2. IInv /\ NobodyWaitsInVain /\ [Next]_vars => NobodyWaitsInVain'
  BY WaitStep DEF IInv
<1>. QED  BY <1>1, <1>2, Inductive, PTL DEF Spec
=============================================================================
