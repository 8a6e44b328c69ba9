------------------------ MODULE IpcServer_refinement ------------------------
(***************************************************************************)
(* Every connection of the host's server is a HostChannel, step by step,   *)
(* for any number of connections, any messages and either listener.        *)
(***************************************************************************)
EXTENDS IpcServer_proofs

(* A closed end holds nothing that was not read, and the thread waits in   *)
(* recv() only for a client no handler has given up.                       *)
Vacated ==
    /\ \A k \in Conns : hostEnd[k] = "none" => c2s[k] = <<>>
    /\ \A k \in Conns : ~guestEnd[k] => s2c[k] = <<>>
    /\ listener = "recv" => connected

LEMMA VacatedStep == TypeOK /\ Control /\ Vacated /\ [Next]_vars => Vacated'
<1>. SUFFICES ASSUME TypeOK, Control, Vacated, [Next]_vars PROVE Vacated'  OBVIOUS
<1>. USE DEF Vacated, process, memory, file, socket, conns
<1>1. ASSUME UNCHANGED conns, listener' # "recv" \/ UNCHANGED <<listener, connected>>
      PROVE  Vacated'
  BY <1>1
<1>2. CASE Start \/ CreateHost \/ Spawn \/ SeeSignal \/ Stop \/ Join \/ Signal \/ Rival
  BY <1>1, <1>2 DEF Start, CreateHost, Spawn, SeeSignal, Stop, Join, Signal, Rival, Goto
<1>3. CASE CreateBind \/ CreateListen
  <2>1. Exit \/ UNCHANGED <<listener, connected>>
    BY <1>3 DEF CreateBind, CreateListen, Goto
  <2>. QED  BY <1>1, <1>3, <2>1 DEF CreateBind, CreateListen, Exit
<1>4. ASSUME NEW K, CloseHostEnds(K), listener' # "recv"  PROVE Vacated'
  BY <1>4 DEF CloseHostEnds, TypeOK
<1>5. CASE SpawnFails \/ Destroy \/ Crash
  <2>1. Exit /\ \E K : CloseHostEnds(K)
    BY <1>5 DEF SpawnFails, Destroy, Crash, ServerDestroy
  <2>. QED  BY <1>4, <2>1 DEF Exit
<1>6. CASE ListenReset \/ ListenReturns \/ LoopTop \/ NobodyAccepted \/ ServeOn \/ GuestLeft
  BY <1>1, <1>6 DEF ListenReset, ListenReturns, LoopTop, NobodyAccepted, ServeOn, GuestLeft, Step
<1>7. CASE Accept
  BY <1>7 DEF Accept, Step, TypeOK
<1>8. CASE CloseClient
  BY <1>4, <1>8 DEF CloseClient, Step
<1>9. CASE HandleMessage
  <2>. DEFINE sent == Handled(Head(c2s[client])) /\ guestEnd[client]
  <2>1. /\ c2s[client] # <<>> /\ listener' = "inner" /\ UNCHANGED <<hostEnd, guestEnd>>
        /\ c2s' = [c2s EXCEPT ![client] = Tail(@)]
    BY <1>9 DEF HandleMessage, Step
  <2>2. \A k \in Conns : s2c'[k] = s2c[k] \/ guestEnd[k]
    <3>1. CASE sent  BY <1>9, <3>1 DEF HandleMessage, TypeOK
    <3>2. CASE ~sent  BY <1>9, <3>2 DEF HandleMessage
    <3>. QED  BY <3>1, <3>2
  <2>3. \A k \in Conns : c2s'[k] = c2s[k] \/ hostEnd[k] # "none"
    BY <2>1 DEF TypeOK
  <2>. QED  BY <2>1, <2>2, <2>3
<1>10. ASSUME NEW k \in Conns, Connect(k) \/ Send(k) \/ Receive(k) \/ Leave(k)
       PROVE  Vacated'
  BY <1>10 DEF Connect, Send, Receive, Leave, TypeOK
<1>11. CASE UNCHANGED vars  BY <1>1, <1>11 DEF vars
<1>. QED
  BY <1>2, <1>3, <1>5, <1>6, <1>7, <1>8, <1>9, <1>10, <1>11
  DEF Next, MainStep, ListenerStep, Guests

(* What the refinement rests on.                                           *)
RInv == IInv /\ Vacated

LEMMA RInductive == Spec => []RInv
<1>1. Init => Vacated  BY DEF Init, Vacated
<1>2. IInv /\ Vacated /\ [Next]_vars => Vacated'  BY VacatedStep DEF IInv
<1>3. Spec => []Vacated  BY <1>1, <1>2, Inductive, PTL DEF Spec
<1>. QED  BY <1>3, Inductive, PTL DEF RInv

(***************************************************************************)
(* What a step may do to one connection, seen from its channel.            *)
(***************************************************************************)
ChannelStep(k) == [Channel(k)!Next]_(Channel(k)!vars)

LEMMA StepNothing ==
    ASSUME NEW k \in Conns,
           guestEnd'[k] = guestEnd[k], s2c'[k] = s2c[k],
           Serving(k)' <=> Serving(k), c2s'[k] = c2s[k] \/ ~Serving(k)
    PROVE  ChannelStep(k)
BY DEF ChannelStep, Channel!vars, Types, Serving

(* The host's end is closed, or will not be read any more.                 *)
LEMMA StepHostCloses ==
    ASSUME TypeOK, Vacated, NEW k \in Conns,
           guestEnd'[k] = guestEnd[k], s2c'[k] = s2c[k], Serving(k), ~Serving(k)'
    PROVE  ChannelStep(k)
<1>1. Serving(k) = TRUE /\ Serving(k)' = FALSE  BY DEF Serving
<1>2. Types(s2c'[k]) = IF guestEnd'[k] THEN Types(s2c[k]) ELSE <<>>
  BY TypesEmpty DEF Vacated
<1>3. <<guestEnd'[k], Serving(k)'>> \in
          ({guestEnd[k], FALSE} \X {Serving(k), FALSE}) \ {<<guestEnd[k], Serving(k)>>}
  BY <1>1
<1>4. Channel(k)!Close  BY <1>1, <1>2, <1>3 DEF Channel!Close
<1>. QED  BY <1>4 DEF ChannelStep, Channel!Next

(* The guest's end is closed: the replies it did not read are lost.        *)
LEMMA StepGuestCloses ==
    ASSUME NEW k \in Conns, guestEnd[k] = TRUE, guestEnd'[k] = FALSE,
           s2c'[k] = <<>>, c2s'[k] = c2s[k], Serving(k)' <=> Serving(k)
    PROVE  ChannelStep(k)
<1>1. Serving(k)' = Serving(k)  BY DEF Serving
<1>2. <<guestEnd'[k], Serving(k)'>> \in
          ({guestEnd[k], FALSE} \X {Serving(k), FALSE}) \ {<<guestEnd[k], Serving(k)>>}
  BY <1>1
<1>3. Types(s2c'[k]) = <<>>  BY TypesEmpty
<1>4. Channel(k)!Close  BY <1>1, <1>2, <1>3 DEF Channel!Close
<1>. QED  BY <1>4 DEF ChannelStep, Channel!Next

LEMMA StepConnect ==
    ASSUME Vacated, NEW k \in Conns, ~guestEnd[k], hostEnd[k] = "none", ~Serving(k),
           guestEnd'[k] = TRUE, hostEnd'[k] = "queued", UNCHANGED <<c2s, s2c>>
    PROVE  ChannelStep(k)
<1>1. Serving(k)' = TRUE  BY DEF Serving
<1>2. Types(c2s'[k]) = <<>>  BY TypesEmpty DEF Vacated
<1>3. Types(s2c'[k]) = Types(s2c[k])  OBVIOUS
<1>4. Channel(k)!Connect  BY <1>1, <1>2, <1>3 DEF Channel!Connect
<1>. QED  BY <1>4 DEF ChannelStep, Channel!Next

(* What a guest sends is a request to the channel, unless the host has     *)
(* stopped to listen to it.                                                *)
LEMMA StepAsk ==
    ASSUME TypeOK, NEW k \in Conns, NEW m \in Messages, guestEnd[k],
           guestEnd'[k] = guestEnd[k], s2c'[k] = s2c[k], Serving(k)' <=> Serving(k),
           c2s'[k] = Append(c2s[k], m)
    PROVE  ChannelStep(k)
<1>1. CASE Serving(k)
  <2>1. Types(c2s'[k]) = Append(Types(c2s[k]), m.type)
    BY TypesAppend DEF TypeOK
  <2>2. m.type \in DOMAIN Channel(k)!ReplyTo \cup Channel(k)!Unanswered
    BY DEF Messages, ReplyTo, Unhandled, Channel!ReplyTo, Channel!Unanswered
  <2>3. Serving(k)' = Serving(k)  BY DEF Serving
  <2>4. Types(s2c'[k]) = Types(s2c[k])  OBVIOUS
  <2>5. Channel(k)!Ask  BY <1>1, <2>1, <2>2, <2>3, <2>4 DEF Channel!Ask
  <2>. QED  BY <2>5 DEF ChannelStep, Channel!Next
<1>2. CASE ~Serving(k)
  BY <1>2, StepNothing
<1>. QED  BY <1>1, <1>2

LEMMA StepRead ==
    ASSUME TypeOK, NEW k \in Conns, guestEnd[k], s2c[k] # <<>>,
           guestEnd'[k] = guestEnd[k], c2s'[k] = c2s[k], Serving(k)' <=> Serving(k),
           s2c'[k] = Tail(s2c[k])
    PROVE  ChannelStep(k)
<1>1. s2c[k] \in Seq(Replies)  BY DEF TypeOK
<1>2. Types(s2c[k]) # <<>> /\ Types(s2c'[k]) = Tail(Types(s2c[k]))
  BY <1>1, TypesHead, TypesTail
<1>3. Serving(k)' = Serving(k)  BY DEF Serving
<1>4. Channel(k)!Read  BY <1>2, <1>3 DEF Channel!Read
<1>. QED  BY <1>4 DEF ChannelStep, Channel!Next

(* A handler that sends its reply answers the request at the head.         *)
LEMMA StepAnswer ==
    ASSUME TypeOK, NEW k \in Conns, c2s[k] # <<>>, Handled(Head(c2s[k])), guestEnd[k],
           Serving(k), Serving(k)', guestEnd'[k] = guestEnd[k],
           c2s'[k] = Tail(c2s[k]), s2c'[k] = Append(s2c[k], Reply(Head(c2s[k])))
    PROVE  ChannelStep(k)
<1>. DEFINE m == Head(c2s[k])
<1>1. c2s[k] \in Seq(Messages) /\ s2c[k] \in Seq(Replies)  BY DEF TypeOK
<1>2. m \in Messages /\ Reply(m) \in Replies
  <2>1. m \in Messages  BY <1>1, Streams
  <2>. QED  BY <2>1, ReplyType
<1>3. Types(c2s[k]) # <<>> /\ Head(Types(c2s[k])) = m.type
  BY <1>1, TypesHead
<1>4. Types(c2s'[k]) = Tail(Types(c2s[k]))  BY <1>1, TypesTail
<1>5. Types(s2c'[k]) = Append(Types(s2c[k]), ReplyTo[m.type])
  <2>1. Reply(m).type = ReplyTo[m.type]  BY DEF Reply
  <2>. QED  BY <1>1, <1>2, <2>1, TypesAppend
<1>6. m.type \in DOMAIN Channel(k)!ReplyTo /\ Channel(k)!ReplyTo[m.type] = ReplyTo[m.type]
  BY DEF Handled, ReplyTo, Channel!ReplyTo
<1>7. Serving(k) = TRUE /\ Serving(k)' = TRUE  BY DEF Serving
<1>. HIDE DEF m
<1>8. Channel(k)!Answer
  BY <1>3, <1>4, <1>5, <1>6, <1>7 DEF Channel!Answer
<1>. QED  BY <1>8 DEF ChannelStep, Channel!Next

(* The server ends: every connection is closed with it.                    *)
LEMMA StepServerEnds ==
    ASSUME RInv, Exit, NEW K, CloseHostEnds(K),
           \A j \in Conns : hostEnd[j] # "none" => j \in K,
           NEW k \in Conns
    PROVE  ChannelStep(k)
<1>1. hostEnd'[k] = "none" /\ client' = NoConn /\ UNCHANGED <<guestEnd, s2c>>
  BY DEF RInv, IInv, TypeOK, CloseHostEnds, Exit
<1>2. ~Serving(k)'  BY <1>1, NoConnAssumption DEF Serving
<1>3. CASE Serving(k)  BY <1>1, <1>2, <1>3, StepHostCloses DEF RInv, IInv
<1>4. CASE ~Serving(k)  BY <1>1, <1>2, <1>4, StepNothing
<1>. QED  BY <1>3, <1>4

(* Each action of the server and its guests is one of those or none, on    *)
(* every connection.                                                       *)
LEMMA EveryStep ==
    ASSUME RInv, [Next]_vars, NEW k \in Conns
    PROVE  ChannelStep(k)
<1>0. TypeOK /\ Control /\ Phases /\ ConnectionsAccounted /\ Vacated
  BY DEF RInv, IInv, Control
<1>. USE DEF process, memory, file, socket, conns
<1>1. ASSUME UNCHANGED <<client, connected, conns>>  PROVE ChannelStep(k)
  BY <1>1, StepNothing DEF Serving
<1>2. CASE \/ Start \/ CreateHost \/ Spawn \/ SeeSignal \/ Stop \/ Join \/ Signal \/ Rival
           \/ UNCHANGED vars
  BY <1>1, <1>2
  DEF Start, CreateHost, Spawn, SeeSignal, Stop, Join, Signal, Rival, Goto, vars
<1>3. CASE CreateBind \/ CreateListen
  <2>1. client = NoConn
    BY <1>0, <1>3, Early DEF CreateBind, CreateListen
  <2>2. client' = NoConn /\ UNCHANGED conns
    BY <1>3, <2>1 DEF CreateBind, CreateListen, Goto, Exit
  <2>3. Serving(k)' <=> Serving(k)
    BY <2>1, <2>2, NoConnAssumption DEF Serving
  <2>. QED  BY <2>2, <2>3, StepNothing
<1>4. CASE SpawnFails \/ Destroy
  <2>1. Exit /\ CloseHostEnds(Queued \cup {client})
    BY <1>4 DEF SpawnFails, Destroy, ServerDestroy
  <2>2. \A j \in Conns : hostEnd[j] # "none" => j \in Queued \cup {client}
    BY <1>0 DEF ConnectionsAccounted, Queued, TypeOK
  <2>. QED  BY <2>1, <2>2, StepServerEnds
<1>5. CASE Crash
  BY <1>5, StepServerEnds DEF Crash
<1>6. CASE ListenReset \/ ListenReturns \/ LoopTop \/ NobodyAccepted \/ ServeOn
  BY <1>1, <1>6 DEF ListenReset, ListenReturns, LoopTop, NobodyAccepted, ServeOn, Step
<1>7. CASE Accept
  <2>1. client = NoConn
    BY <1>0, <1>7 DEF Accept, ConnectionsAccounted
  <2>2. Head(queue) \in Conns /\ hostEnd[Head(queue)] = "queued"
    <3>1. queue \in Seq(Conns) /\ queue # <<>>  BY <1>0, <1>7 DEF Accept, TypeOK
    <3>2. Head(queue) = queue[1] /\ 1 \in DOMAIN queue  BY <3>1
    <3>3. Head(queue) \in Queued  BY <1>0, <3>2 DEF ConnectionsAccounted
    <3>. QED  BY <3>3 DEF Queued
  <2>3. /\ client' = Head(queue) /\ connected' = TRUE /\ UNCHANGED <<guestEnd, c2s, s2c>>
        /\ hostEnd' = [hostEnd EXCEPT ![Head(queue)] = "accepted"]
    BY <1>7 DEF Accept
  <2>4. Serving(k)' <=> Serving(k)
    BY <1>0, <2>1, <2>2, <2>3, NoConnAssumption DEF Serving, TypeOK
  <2>. QED  BY <2>3, <2>4, StepNothing
<1>8. CASE CloseClient
  <2>1. client \in Conns /\ hostEnd[client] = "accepted"
    BY <1>0, <1>8 DEF CloseClient, Phases, ConnectionsAccounted, TypeOK
  <2>2. /\ client' = NoConn /\ UNCHANGED <<guestEnd, s2c>>
        /\ hostEnd' = [hostEnd EXCEPT ![client] = "none"]
        /\ \A j \in Conns : j # client => c2s'[j] = c2s[j]
    BY <1>0, <1>8 DEF CloseClient, CloseHostEnds, TypeOK
  <2>3. CASE k = client
    <3>1. ~Serving(k)'  BY <1>0, <2>1, <2>2, <2>3, NoConnAssumption DEF Serving, TypeOK
    <3>. QED  BY <1>0, <2>2, <3>1, StepHostCloses, StepNothing
  <2>4. CASE k # client
    <3>1. Serving(k)' <=> Serving(k)
      BY <1>0, <2>1, <2>2, <2>4, NoConnAssumption DEF Serving, TypeOK
    <3>. QED  BY <2>2, <2>4, <3>1, StepNothing
  <2>. QED  BY <2>3, <2>4
<1>9. CASE HandleMessage
  <2>. DEFINE m == Head(c2s[client])
              sent == Handled(m) /\ guestEnd[client]
  <2>1. client \in Conns /\ hostEnd[client] = "accepted" /\ connected
    BY <1>0, <1>9 DEF HandleMessage, Phases, ConnectionsAccounted, Vacated, TypeOK
  <2>2. /\ c2s[client] # <<>> /\ UNCHANGED <<client, hostEnd, guestEnd>>
        /\ connected' = sent
        /\ c2s' = [c2s EXCEPT ![client] = Tail(@)]
        /\ s2c' = IF sent THEN [s2c EXCEPT ![client] = Append(@, Reply(m))] ELSE s2c
    BY <1>9 DEF HandleMessage
  <2>3. CASE k # client
    <3>1. Serving(k)' <=> Serving(k)  BY <2>2, <2>3 DEF Serving
    <3>2. c2s'[k] = c2s[k] /\ s2c'[k] = s2c[k]
      <4>. HIDE DEF sent, m
      <4>. QED  BY <1>0, <2>2, <2>3 DEF TypeOK
    <3>. QED  BY <2>2, <3>1, <3>2, StepNothing
  <2>4. CASE k = client /\ sent
    <3>1. Serving(k) /\ Serving(k)'  BY <2>1, <2>2, <2>4 DEF Serving
    <3>2. c2s'[k] = Tail(c2s[k]) /\ s2c'[k] = Append(s2c[k], Reply(Head(c2s[k])))
      BY <1>0, <2>1, <2>2, <2>4 DEF TypeOK
    <3>. QED  BY <1>0, <2>2, <2>4, <3>1, <3>2, StepAnswer
  <2>5. CASE k = client /\ ~sent
    <3>1. Serving(k) /\ ~Serving(k)' /\ s2c' = s2c
      BY <2>1, <2>2, <2>5 DEF Serving
    <3>. QED  BY <1>0, <2>2, <3>1, StepHostCloses
  <2>. QED  BY <2>3, <2>4, <2>5
<1>10. CASE GuestLeft
  <2>1. client \in Conns /\ hostEnd[client] = "accepted" /\ connected
    BY <1>0, <1>10 DEF GuestLeft, Phases, ConnectionsAccounted, Vacated, TypeOK
  <2>2. connected' = FALSE /\ UNCHANGED <<client, conns>>  BY <1>10 DEF GuestLeft
  <2>3. CASE k = client
    BY <1>0, <2>1, <2>2, <2>3, StepHostCloses DEF Serving
  <2>4. CASE k # client
    BY <2>2, <2>4, StepNothing DEF Serving
  <2>. QED  BY <2>3, <2>4
<1>11. ASSUME NEW j \in Conns, j # k, Connect(j) \/ Send(j) \/ Receive(j) \/ Leave(j)
       PROVE  ChannelStep(k)
  <2>1. /\ UNCHANGED <<client, connected>>
        /\ hostEnd'[k] = hostEnd[k] /\ guestEnd'[k] = guestEnd[k]
        /\ c2s'[k] = c2s[k] /\ s2c'[k] = s2c[k]
    BY <1>0, <1>11 DEF Connect, Send, Receive, Leave, TypeOK
  <2>. QED  BY <2>1, StepNothing DEF Serving
<1>12. CASE Connect(k)
  <2>1. ~guestEnd[k] /\ hostEnd[k] = "none" /\ UNCHANGED <<client, c2s, s2c>>
        /\ guestEnd'[k] = TRUE /\ hostEnd'[k] = "queued"
    BY <1>0, <1>12 DEF Connect, TypeOK
  <2>2. ~Serving(k)
    BY <1>0, <2>1, NoConnAssumption DEF Serving, ConnectionsAccounted
  <2>. QED  BY <1>0, <2>1, <2>2, StepConnect
<1>13. CASE Send(k)
  <2>1. PICK m \in Messages : c2s' = [c2s EXCEPT ![k] = Append(@, m)]
    BY <1>13, SentAssumption DEF Send
  <2>2. guestEnd[k] /\ UNCHANGED <<client, connected, hostEnd, guestEnd, s2c>>
    BY <1>13 DEF Send
  <2>3. (Serving(k)' <=> Serving(k)) /\ c2s'[k] = Append(c2s[k], m)
    BY <1>0, <2>1, <2>2 DEF Serving, TypeOK
  <2>. QED  BY <1>0, <2>2, <2>3, StepAsk
<1>14. CASE Receive(k)
  <2>1. /\ guestEnd[k] /\ s2c[k] # <<>> /\ s2c'[k] = Tail(s2c[k])
        /\ UNCHANGED <<client, connected, hostEnd, guestEnd, c2s>>
    BY <1>0, <1>14 DEF Receive, TypeOK
  <2>2. Serving(k)' <=> Serving(k)  BY <2>1 DEF Serving
  <2>. QED  BY <1>0, <2>1, <2>2, StepRead
<1>15. CASE Leave(k)
  <2>1. /\ guestEnd[k] = TRUE /\ guestEnd'[k] = FALSE /\ s2c'[k] = <<>>
        /\ UNCHANGED <<client, connected, hostEnd, c2s>>
    BY <1>0, <1>15 DEF Leave, TypeOK
  <2>2. Serving(k)' <=> Serving(k)  BY <2>1 DEF Serving
  <2>. QED  BY <2>1, <2>2, StepGuestCloses
<1>. QED
  BY <1>2, <1>3, <1>4, <1>5, <1>6, <1>7, <1>8, <1>9, <1>10, <1>11, <1>12, <1>13, <1>14, <1>15
  DEF Next, MainStep, ListenerStep, Guests

LEMMA ChannelInit == ASSUME Init, NEW k \in Conns PROVE Channel(k)!Init
<1>1. /\ guestEnd[k] = FALSE /\ hostEnd[k] = "none" /\ client = NoConn
      /\ c2s[k] = <<>> /\ s2c[k] = <<>>
  BY DEF Init
<1>2. ~Serving(k)  BY <1>1, NoConnAssumption DEF Serving
<1>. QED  BY <1>1, <1>2, TypesEmpty DEF Channel!Init

(* On every connection, whoever connects, sends, leaves or is given up,    *)
(* and whenever the server stops or crashes, the server is the host that   *)
(* the guest's bridge relies on.                                           *)
THEOREM ImplementsChannel == Spec => ImplementsHostChannel
<1>. DEFINE I == \A k \in Conns : Channel(k)!Init
            N == \A k \in Conns : [Channel(k)!Next]_(Channel(k)!vars)
<1>1. Init => I  BY ChannelInit
<1>2. RInv /\ [Next]_vars => N
  BY EveryStep DEF ChannelStep
<1>3. RInv /\ [Next]_vars => [N]_vars  BY <1>2
<1>4. Spec => I  BY <1>1 DEF Spec
<1>. HIDE DEF N
<1>5. Spec => [][N]_vars  BY <1>3, RInductive, PTL DEF Spec
<1>. QED  BY <1>4, <1>5 DEF ImplementsHostChannel, N
=============================================================================
