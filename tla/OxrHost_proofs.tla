---------------------------- MODULE OxrHost_proofs ----------------------------
(***************************************************************************)
(* Proofs about OxrHost, for any sets of handles and layers and any        *)
(* interval and bounds.                                                    *)
(***************************************************************************)
EXTENDS OxrHost, SequenceTheorems, TLAPS

USE NullAssumption, IntervalAssumption, MaxTimeAssumption, MaxFramesAssumption

(***************************************************************************)
(* The inductive invariant.  HandlesAccounted says what is live; to keep   *)
(* it one must know that callers in order find nothing left of an earlier  *)
(* session when they make one, and that a host that is gone left nothing.  *)
(***************************************************************************)
Gone == ~Exists => host = Absent /\ ~made /\ ~inFrame

NothingLeft ==
    orderly =>
        /\ ~made => host.session = Null /\ ~host.session_active
        /\ ~host.session_active => host.play_space = Null /\ host.frame_fence = Null
        /\ inFrame => made

IInv == TypeOK /\ HandlesLive /\ Gone /\ NothingLeft /\ HandlesAccounted /\ FrameUsable

(***************************************************************************)
(* Types.                                                                  *)
(***************************************************************************)
LEMMA AbsentType == Absent \in Hosts /\ Len(Absent.layers) = 0
BY DEF Absent, Hosts

(* What an update of one field of the host's state, or of the pacing's,    *)
(* leaves.                                                                 *)
LEMMA LayersUpdate ==
    ASSUME NEW h \in Hosts, NEW ls \in Seq(Layers)
    PROVE  /\ [h EXCEPT !.layers = ls] \in Hosts
           /\ [h EXCEPT !.layers = ls].layers = ls
BY DEF Hosts

LEMMA CountUpdate ==
    ASSUME NEW h \in Hosts
    PROVE  /\ [h EXCEPT !.frame_count = @ + 1] \in Hosts
           /\ [h EXCEPT !.frame_count = @ + 1].layers = h.layers
<1>1. h.frame_count \in Nat  BY DEF Hosts
<1>2. h.frame_count + 1 \in Nat  BY <1>1
<1>3. \A n \in Nat : [h EXCEPT !.frame_count = n] \in Hosts
                     /\ [h EXCEPT !.frame_count = n].layers = h.layers
  BY DEF Hosts
<1>. QED  BY <1>2, <1>3

LEMMA FewLayers == Len(Absent.layers) <= MaxLayers /\ 0 <= MaxLayers /\ Len(<<>>) = 0
BY AbsentType DEF MaxLayers

LEMMA NoQuads == QuadsOf(<<>>) = <<>>
BY DEF QuadsOf

LEMMA QuadSeq ==
    ASSUME NEW ls \in Seq(Layers)
    PROVE  QuadsOf(ls) \in Seq(Quads) /\ Len(QuadsOf(ls)) = Len(ls)
<1>1. Len(ls) \in Nat /\ DOMAIN ls = 1 .. Len(ls) /\ ls \in [1 .. Len(ls) -> Layers]
  BY LenProperties
<1>2. \A i \in 1 .. Len(ls) : ls[i].quad \in Quads  BY <1>1 DEF Layers
<1>3. QuadsOf(ls) \in [1 .. Len(ls) -> Quads]  BY <1>1, <1>2 DEF QuadsOf
<1>4. QuadsOf(ls) \in Seq(Quads)  BY <1>1, <1>3, SeqDef
<1>5. 1 .. Len(QuadsOf(ls)) = 1 .. Len(ls) /\ Len(QuadsOf(ls)) \in Nat
  BY <1>3, <1>4, LenProperties
<1>. QED  BY <1>1, <1>4, <1>5

LEMMA TypeInit == Init => TypeOK
<1>. SUFFICES ASSUME Init PROVE TypeOK  OBVIOUS
<1>1. host \in Hosts /\ Len(host.layers) <= MaxLayers  BY AbsentType, FewLayers DEF Init
<1>2. PacingTypeOK  BY DEF Init, PacingInit, PacingTypeOK, Reset
<1>3. shown \in Seq(Quads)  BY DEF Init
<1>. QED  BY <1>1, <1>2, <1>3 DEF Init, TypeOK

LEMMA PacingType == PacingTypeOK /\ PacingUpdate => PacingTypeOK'
<1>. SUFFICES ASSUME PacingTypeOK, PacingUpdate PROVE PacingTypeOK'  OBVIOUS
<1>. DEFINE G == [last_frame_time : Nat, frame_count : Nat, dropped_frames : Nat]
<1>1. /\ now \in Nat \ {0} /\ now' = now /\ g_frame_pace \in G
      /\ g_frame_pace.last_frame_time \in Nat
      /\ g_frame_pace.frame_count + 1 \in Nat /\ g_frame_pace.dropped_frames + 1 \in Nat
  BY DEF PacingTypeOK, PacingUpdate
<1>2. \A a, b \in Nat :
         /\ [g_frame_pace EXCEPT !.last_frame_time = a] \in G
         /\ [g_frame_pace EXCEPT !.last_frame_time = a, !.frame_count = b] \in G
         /\ [g_frame_pace EXCEPT !.last_frame_time = a, !.dropped_frames = b] \in G
  BY <1>1
<1>3. CASE FirstFrame  BY <1>1, <1>2, <1>3 DEF FirstFrame, PacingTypeOK
<1>4. CASE LateFrame  BY <1>1, <1>2, <1>4 DEF LateFrame, PacingTypeOK
<1>5. CASE FrameInTime
  <2>1. now + WaitNs \in Nat  BY <1>1 DEF WaitNs
  <2>. QED  BY <1>1, <1>2, <1>5, <2>1 DEF FrameInTime, PacingTypeOK
<1>. QED  BY <1>3, <1>4, <1>5 DEF PacingUpdate

(* The layer that is added is a layer, and there are no more than two.     *)
LEMMA AddedLayer ==
    ASSUME TypeOK, SubmitLayer
    PROVE  host' \in Hosts /\ Len(host'.layers) <= MaxLayers
<1>1. PICK q \in Quads :
          host' = [host EXCEPT !.layers = Append(@, [space |-> host.play_space, quad |-> q])]
  BY DEF SubmitLayer
<1>2. [space |-> host.play_space, quad |-> q] \in Layers
  BY DEF TypeOK, Hosts, Layers
<1>3. host.layers \in Seq(Layers)  BY DEF TypeOK, Hosts
<1>4. /\ Append(host.layers, [space |-> host.play_space, quad |-> q]) \in Seq(Layers)
      /\ Len(Append(host.layers, [space |-> host.play_space, quad |-> q]))
           = Len(host.layers) + 1
  BY <1>2, <1>3
<1>5. Len(host.layers) < MaxLayers /\ Len(host.layers) \in Nat  BY <1>3 DEF SubmitLayer
<1>6. Len(host.layers) + 1 <= MaxLayers  BY <1>5 DEF MaxLayers
<1>. QED  BY <1>1, <1>4, <1>6, LayersUpdate DEF TypeOK

LEMMA TypeStep == TypeOK /\ [Next]_vars => TypeOK'
<1>. SUFFICES ASSUME TypeOK, [Next]_vars PROVE TypeOK'  OBVIOUS
<1>. USE DEF runtime, pacing, caller
<1>1. CASE InitHost
  <2>1. PICK i \in Instances \ instances :
            instances' = instances \cup {i} /\ host' \in {Absent, [Absent EXCEPT !.instance = i]}
    BY <1>1 DEF InitHost
  <2>2. host' \in Hosts /\ Len(host'.layers) <= MaxLayers
    <3>1. [Absent EXCEPT !.instance = i] \in Hosts
      BY AbsentType DEF Hosts
    <3>2. [Absent EXCEPT !.instance = i].layers = Absent.layers
      BY AbsentType DEF Hosts
    <3>. QED  BY <2>1, <3>1, <3>2, AbsentType, FewLayers
  <2>. QED  BY <1>1, <2>1, <2>2 DEF InitHost, TypeOK, PacingTypeOK
<1>2. CASE Shutdown
  BY <1>2, AbsentType, FewLayers DEF Shutdown, TypeOK, PacingTypeOK
<1>3. CASE CreateSessionFails
  BY <1>3 DEF CreateSessionFails, Requires, TypeOK, PacingTypeOK, Hosts
<1>4. CASE CreateSession
  <2>1. PICK s \in Sessions \ sessions, p \in Spaces, f \in Fences \cup {Null} :
          /\ sessions' = sessions \cup {s}
          /\ spaces' = [spaces EXCEPT ![p] = s]
          /\ fences' = fences \cup ({f} \ {Null})
          /\ host' = [host EXCEPT !.session = s, !.play_space = p, !.frame_fence = f,
                                  !.session_active = TRUE]
    BY <1>4 DEF CreateSession
  <2>2. PacingTypeOK'  BY <1>4 DEF CreateSession, PacingReset, Reset, TypeOK, PacingTypeOK
  <2>. QED  BY <1>4, <2>1, <2>2 DEF CreateSession, Requires, TypeOK, Hosts
<1>5. CASE DestroySession
  BY <1>5 DEF DestroySession, DestroyHandles, TypeOK, PacingTypeOK, Hosts
<1>6. CASE BeginFrameFails
  BY <1>6, PacingType DEF BeginFrameFails, TypeOK
<1>7. CASE BeginFrame
  <2>1. <<>> \in Seq(Layers)  OBVIOUS
  <2>2. host' \in Hosts /\ host'.layers = <<>>
    BY <1>7, <2>1, LayersUpdate DEF BeginFrame, TypeOK
  <2>3. Len(host'.layers) <= MaxLayers  BY <2>2, FewLayers
  <2>4. begun' \in Sessions \cup {Null}  BY <1>7 DEF BeginFrame, TypeOK, Hosts
  <2>. QED  BY <1>7, <2>2, <2>3, <2>4, PacingType DEF BeginFrame, TypeOK
<1>8. CASE SubmitLayer
  BY <1>8, AddedLayer DEF SubmitLayer, Requires, TypeOK, PacingTypeOK
<1>9. CASE EndFrameFails
  BY <1>9 DEF EndFrameFails, Requires, TypeOK, PacingTypeOK
<1>10. CASE EndFrame
  <2>1. host' \in Hosts /\ host'.layers = host.layers
    BY <1>10, CountUpdate DEF EndFrame, TypeOK
  <2>2. host.layers \in Seq(Layers)  BY DEF TypeOK, Hosts
  <2>3. shown' \in Seq(Quads)  BY <1>10, <2>2, QuadSeq DEF EndFrame
  <2>. QED  BY <1>10, <2>1, <2>3 DEF EndFrame, Requires, TypeOK, PacingTypeOK
<1>11. CASE TimePasses
  BY <1>11 DEF TimePasses, Tick, TypeOK, PacingTypeOK
<1>12. CASE CreateSessionRefused
  BY <1>12 DEF CreateSessionRefused, Requires, TypeOK, PacingTypeOK
<1>13. CASE UNCHANGED vars
  BY <1>13 DEF vars, TypeOK, PacingTypeOK
<1>. QED  BY <1>1, <1>2, <1>3, <1>4, <1>5, <1>6, <1>7, <1>8, <1>9, <1>10, <1>11, <1>12, <1>13
          DEF Next, InitHostFails

(* The state keeps its types; no frame has a third layer.                  *)
THEOREM TypeCorrect == Spec => []TypeOK
BY TypeInit, TypeStep, PTL DEF Spec

(***************************************************************************)
(* What each action leaves of the host's state, field by field.            *)
(***************************************************************************)
Same(h, g) ==
    /\ h.instance = g.instance /\ h.session = g.session /\ h.play_space = g.play_space
    /\ h.frame_fence = g.frame_fence /\ h.session_active = g.session_active

LEMMA InitFields ==
    ASSUME NEW i \in Instances, host' \in {Absent, [Absent EXCEPT !.instance = i]}
    PROVE  /\ host' = Absent \/ host'.instance = i
           /\ host'.session = Null /\ host'.play_space = Null /\ host'.frame_fence = Null
           /\ host'.session_active = FALSE
BY DEF Absent

LEMMA FailedFields ==
    ASSUME TypeOK, NEW s \in Sessions, host' = [host EXCEPT !.session = s]
    PROVE  /\ host'.session = s
           /\ host'.instance = host.instance /\ host'.play_space = host.play_space
           /\ host'.frame_fence = host.frame_fence
           /\ host'.session_active = host.session_active
           /\ host'.layers = host.layers
BY DEF TypeOK, Hosts

LEMMA CreatedFields ==
    ASSUME TypeOK, NEW s \in Sessions, NEW p \in Spaces, NEW f \in Fences \cup {Null},
           host' = [host EXCEPT !.session = s, !.play_space = p, !.frame_fence = f,
                                !.session_active = TRUE]
    PROVE  /\ host'.instance = host.instance
           /\ host'.session = s /\ host'.play_space = p /\ host'.frame_fence = f
           /\ host'.session_active = TRUE
BY DEF TypeOK, Hosts

LEMMA DestroyedFields ==
    ASSUME TypeOK, DestroySession
    PROVE  /\ host'.instance = host.instance
           /\ host'.session = Null /\ host'.play_space = Null /\ host'.frame_fence = Null
           /\ host'.session_active = FALSE
BY DEF DestroySession, TypeOK, Hosts

LEMMA FrameFields ==
    ASSUME TypeOK, BeginFrame \/ SubmitLayer \/ EndFrame
    PROVE  Same(host', host)
<1>1. CASE BeginFrame  BY <1>1 DEF BeginFrame, TypeOK, Hosts, Same
<1>2. CASE SubmitLayer  BY <1>2 DEF SubmitLayer, TypeOK, Hosts, Same
<1>3. CASE EndFrame
  <2>1. \A n : Same([host EXCEPT !.frame_count = n], host)  BY DEF TypeOK, Hosts, Same
  <2>. QED  BY <1>3, <2>1 DEF EndFrame
<1>. QED  BY <1>1, <1>2, <1>3

(***************************************************************************)
(* Nothing that has been destroyed is kept.                                *)
(***************************************************************************)
LEMMA LiveStep == TypeOK /\ HandlesLive /\ [Next]_vars => HandlesLive'
<1>. SUFFICES ASSUME TypeOK, HandlesLive, [Next]_vars PROVE HandlesLive'  OBVIOUS
<1>. USE DEF HandlesLive, runtime, pacing, caller
<1>1. CASE InitHost
  <2>1. PICK i \in Instances :
            instances' = instances \cup {i} /\ host' \in {Absent, [Absent EXCEPT !.instance = i]}
    BY <1>1 DEF InitHost
  <2>2. host' = Absent => host'.instance = Null  BY DEF Absent
  <2>. QED  BY <2>1, <2>2, InitFields
<1>2. CASE Shutdown
  BY <1>2 DEF Shutdown, Absent
<1>3. CASE CreateSessionFails
  <2>1. PICK s \in Sessions :
            sessions' = sessions \cup {s} /\ host' = [host EXCEPT !.session = s]
    BY <1>3 DEF CreateSessionFails
  <2>. QED  BY <1>3, <2>1, FailedFields DEF CreateSessionFails
<1>4. CASE CreateSession
  <2>1. PICK s \in Sessions, p \in Spaces, f \in Fences \cup {Null} :
          /\ sessions' = sessions \cup {s}
          /\ spaces' = [spaces EXCEPT ![p] = s]
          /\ fences' = fences \cup ({f} \ {Null})
          /\ host' = [host EXCEPT !.session = s, !.play_space = p, !.frame_fence = f,
                                  !.session_active = TRUE]
    BY <1>4 DEF CreateSession
  <2>2. spaces'[p] = s  BY <2>1 DEF TypeOK
  <2>3. /\ host'.instance = host.instance
        /\ host'.session = s /\ host'.play_space = p /\ host'.frame_fence = f
    BY <2>1, CreatedFields
  <2>4. instances' = instances /\ s \in sessions' /\ (f # Null => f \in fences')
    BY <1>4, <2>1 DEF CreateSession
  <2>5. s # Null /\ p # Null  OBVIOUS
  <2>. QED  BY <2>2, <2>3, <2>4, <2>5
<1>5. CASE DestroySession
  BY <1>5, DestroyedFields DEF DestroySession
<1>6. CASE CreateSessionRefused \/ BeginFrameFails \/ EndFrameFails \/ TimePasses
           \/ UNCHANGED vars
  BY <1>6 DEF CreateSessionRefused, BeginFrameFails, EndFrameFails, TimePasses, vars
<1>7. CASE BeginFrame \/ SubmitLayer \/ EndFrame
  BY <1>7, FrameFields DEF Same, BeginFrame, SubmitLayer, EndFrame
<1>. QED  BY <1>1, <1>2, <1>3, <1>4, <1>5, <1>6, <1>7 DEF Next, InitHostFails

LEMMA LiveInit == Init => HandlesLive
BY DEF Init, HandlesLive, Absent

(* No handle and no fence is used or destroyed after it was destroyed,     *)
(* whatever is called in whatever order and whatever fails.                *)
THEOREM NoStaleHandle == Spec => []HandlesLive
<1>1. TypeOK /\ HandlesLive /\ [Next]_vars => TypeOK' /\ HandlesLive'
  BY TypeStep, LiveStep
<1>. QED  BY <1>1, TypeInit, LiveInit, PTL DEF Spec

(***************************************************************************)
(* What is live, to callers in order.                                      *)
(***************************************************************************)
LEMMA GoneStep == TypeOK /\ Gone /\ [Next]_vars => Gone'
<1>. SUFFICES ASSUME TypeOK, Gone, [Next]_vars PROVE Gone'  OBVIOUS
<1>. USE DEF Gone, Exists, runtime, pacing, caller
<1>1. CASE InitHost
  <2>1. PICK i \in Instances : host' \in {Absent, [Absent EXCEPT !.instance = i]}
    BY <1>1 DEF InitHost
  <2>2. host' = Absent \/ host'.instance # Null  BY <2>1, InitFields
  <2>. QED  BY <1>1, <2>2 DEF InitHost
<1>2. CASE Shutdown  BY <1>2 DEF Shutdown
<1>3. CASE CreateSessionFails \/ CreateSession
  <2>1. host'.instance = host.instance
    BY <1>3 DEF CreateSessionFails, CreateSession, TypeOK, Hosts
  <2>. QED  BY <1>3, <2>1 DEF CreateSessionFails, CreateSession
<1>4. CASE DestroySession  BY <1>4, DestroyedFields DEF DestroySession
<1>5. CASE CreateSessionRefused \/ BeginFrameFails \/ EndFrameFails
  BY <1>5 DEF CreateSessionRefused, BeginFrameFails, EndFrameFails, Active
<1>6. CASE BeginFrame \/ SubmitLayer \/ EndFrame
  BY <1>6, FrameFields DEF Same, BeginFrame, SubmitLayer, EndFrame, Active
<1>7. CASE TimePasses \/ UNCHANGED vars
  BY <1>7 DEF TimePasses, vars
<1>. QED  BY <1>1, <1>2, <1>3, <1>4, <1>5, <1>6, <1>7 DEF Next, InitHostFails

LEMMA LeftStep == TypeOK /\ Gone /\ NothingLeft /\ [Next]_vars => NothingLeft'
<1>. SUFFICES ASSUME TypeOK, Gone, NothingLeft, [Next]_vars PROVE NothingLeft'  OBVIOUS
<1>. USE DEF NothingLeft, runtime, pacing, caller
<1>1. CASE InitHost
  <2>1. PICK i \in Instances : host' \in {Absent, [Absent EXCEPT !.instance = i]}
    BY <1>1 DEF InitHost
  <2>. QED  BY <1>1, <2>1, InitFields DEF InitHost, Gone
<1>2. CASE Shutdown  BY <1>2 DEF Shutdown, Absent
<1>3. CASE CreateSessionFails
  <2>1. PICK s \in Sessions : host' = [host EXCEPT !.session = s]
    BY <1>3 DEF CreateSessionFails
  <2>. QED  BY <1>3, <2>1, FailedFields DEF CreateSessionFails, Requires
<1>4. CASE CreateSession
  <2>1. host'.session_active = TRUE  BY <1>4 DEF CreateSession, TypeOK, Hosts
  <2>. QED  BY <1>4, <2>1 DEF CreateSession, Requires
<1>5. CASE DestroySession  BY <1>5, DestroyedFields DEF DestroySession
<1>6. CASE CreateSessionRefused \/ BeginFrameFails \/ EndFrameFails
  BY <1>6 DEF CreateSessionRefused, BeginFrameFails, EndFrameFails, Requires
<1>7. CASE BeginFrame \/ SubmitLayer \/ EndFrame
  BY <1>7, FrameFields DEF Same, BeginFrame, SubmitLayer, EndFrame, Requires, Active
<1>8. CASE TimePasses \/ UNCHANGED vars
  BY <1>8 DEF TimePasses, vars
<1>. QED  BY <1>1, <1>2, <1>3, <1>4, <1>5, <1>6, <1>7, <1>8 DEF Next, InitHostFails

LEMMA AccountedStep ==
    TypeOK /\ Gone /\ NothingLeft /\ HandlesAccounted /\ [Next]_vars => HandlesAccounted'
<1>. SUFFICES ASSUME TypeOK, Gone, NothingLeft, HandlesAccounted, [Next]_vars, orderly'
              PROVE  HandlesAccounted'
  BY DEF HandlesAccounted
<1>. USE DEF runtime, pacing, caller
<1>0. orderly
  BY DEF Next, InitHostFails, InitHost, Shutdown, CreateSessionRefused, CreateSessionFails,
         CreateSession, DestroySession, BeginFrameFails, BeginFrame, SubmitLayer, EndFrameFails, EndFrame,
         TimePasses, Requires, vars
<1>. DEFINE Live == {p \in Spaces : spaces[p] # Null}
<1>. SUFFICES /\ sessions' = {host'.session} \ {Null}
              /\ Live' = {host'.play_space} \ {Null}
              /\ fences' = {host'.frame_fence} \ {Null}
              /\ host'.session_active => spaces'[host'.play_space] = host'.session
  BY DEF HandlesAccounted
<1>a. /\ sessions = {host.session} \ {Null} /\ Live = {host.play_space} \ {Null}
      /\ fences = {host.frame_fence} \ {Null}
      /\ host.session_active => spaces[host.play_space] = host.session
  BY <1>0 DEF HandlesAccounted
<1>1. CASE InitHost
  <2>1. PICK i \in Instances : host' \in {Absent, [Absent EXCEPT !.instance = i]}
    BY <1>1 DEF InitHost
  <2>2. host.session = Null /\ host.play_space = Null /\ host.frame_fence = Null
    BY <1>1 DEF InitHost, Gone, Absent
  <2>. QED  BY <1>1, <1>a, <2>1, <2>2, InitFields DEF InitHost
<1>2. CASE Shutdown
  <2>1. fences' = {}  BY <1>0, <1>2, <1>a DEF Shutdown, NothingLeft
  <2>2. Live' = {}  BY <1>2 DEF Shutdown
  <2>. QED  BY <1>2, <2>1, <2>2 DEF Shutdown, Absent
<1>3. CASE CreateSessionFails
  <2>1. PICK s \in Sessions :
            sessions' = sessions \cup {s} /\ host' = [host EXCEPT !.session = s]
    BY <1>3 DEF CreateSessionFails
  <2>2. ~made /\ UNCHANGED <<spaces, fences>>
    BY <1>3 DEF CreateSessionFails, Requires
  <2>3. host.session = Null /\ ~host.session_active /\ host.play_space = Null
    BY <1>0, <2>2 DEF NothingLeft
  <2>4. /\ host'.session = s /\ host'.play_space = Null
        /\ host'.frame_fence = host.frame_fence /\ ~host'.session_active
    BY <2>1, <2>3, FailedFields
  <2>5. s # Null /\ sessions = {}  BY <1>a, <2>3
  <2>6. sessions' = {s}  BY <2>1, <2>5
  <2>. QED  BY <1>a, <2>2, <2>3, <2>4, <2>5, <2>6
<1>4. CASE CreateSession
  <2>1. PICK s \in Sessions, p \in Spaces, f \in Fences \cup {Null} :
          /\ sessions' = sessions \cup {s}
          /\ spaces' = [spaces EXCEPT ![p] = s]
          /\ fences' = fences \cup ({f} \ {Null})
          /\ host' = [host EXCEPT !.session = s, !.play_space = p, !.frame_fence = f,
                                  !.session_active = TRUE]
    BY <1>4 DEF CreateSession
  <2>2. ~made  BY <1>4 DEF CreateSession, Requires
  <2>3. host.session = Null /\ host.play_space = Null /\ host.frame_fence = Null
    BY <1>0, <2>2 DEF NothingLeft
  <2>4. host'.session = s /\ host'.play_space = p /\ host'.frame_fence = f
    BY <2>1, CreatedFields
  <2>5. s # Null /\ p # Null  OBVIOUS
  <2>6. sessions' = {s} /\ fences' = {f} \ {Null}  BY <1>a, <2>1, <2>3
  <2>7. \A q \in Spaces : spaces[q] = Null  BY <1>a, <2>3
  <2>8. \A q \in Spaces : spaces'[q] = IF q = p THEN s ELSE Null
    BY <2>1, <2>7 DEF TypeOK
  <2>9. Live' = {p}  BY <2>5, <2>8
  <2>. QED  BY <2>4, <2>5, <2>6, <2>8, <2>9
<1>5. CASE DestroySession
  <2>1. sessions' = {} /\ fences' = {}
    BY <1>5, <1>a DEF DestroySession, DestroyHandles
  <2>2. \A q \in Spaces : spaces'[q] = Null
    BY <1>5, <1>a DEF DestroySession, DestroyHandles
  <2>. QED  BY <2>1, <2>2, <1>5, DestroyedFields
<1>6. CASE CreateSessionRefused \/ BeginFrameFails \/ EndFrameFails \/ TimePasses
           \/ UNCHANGED vars
  BY <1>6, <1>a DEF CreateSessionRefused, BeginFrameFails, EndFrameFails, TimePasses, vars
<1>7. CASE BeginFrame \/ SubmitLayer \/ EndFrame
  <2>1. Same(host', host)  BY <1>7, FrameFields
  <2>2. UNCHANGED <<sessions, spaces, fences>>
    BY <1>7 DEF BeginFrame, SubmitLayer, EndFrame
  <2>. QED  BY <2>1, <2>2, <1>a DEF Same
<1>. QED  BY <1>1, <1>2, <1>3, <1>4, <1>5, <1>6, <1>7 DEF Next, InitHostFails

LEMMA UsableStep ==
    TypeOK /\ Gone /\ NothingLeft /\ FrameUsable /\ [Next]_vars => FrameUsable'
<1>. SUFFICES ASSUME TypeOK, Gone, NothingLeft, FrameUsable, [Next]_vars, orderly', inFrame'
              PROVE  /\ Active' /\ begun' = host'.session
                     /\ \A i \in DOMAIN host'.layers :
                           host'.layers[i].space = host'.play_space
  BY DEF FrameUsable
<1>. USE DEF runtime, pacing, caller
<1>1. CASE InitHost  BY <1>1 DEF InitHost, Gone
<1>2. CASE Shutdown \/ DestroySession \/ BeginFrameFails \/ EndFrameFails \/ EndFrame
  BY <1>2 DEF Shutdown, DestroySession, BeginFrameFails, EndFrameFails, EndFrame
<1>3. CASE CreateSessionRefused \/ CreateSessionFails \/ CreateSession
  BY <1>3 DEF CreateSessionRefused, CreateSessionFails, CreateSession, Requires, NothingLeft
<1>4. CASE BeginFrame
  <2>1. host'.layers = <<>>
    <3>1. <<>> \in Seq(Layers)  OBVIOUS
    <3>. QED  BY <1>4, <3>1, LayersUpdate DEF BeginFrame, TypeOK
  <2>2. Same(host', host)  BY <1>4, FrameFields
  <2>3. Active' /\ begun' = host'.session
    BY <1>4, <2>2 DEF BeginFrame, Active, Exists, Same
  <2>. QED  BY <2>1, <2>3
<1>5. CASE SubmitLayer
  <2>1. Same(host', host)  BY <1>5, FrameFields
  <2>2. orderly /\ inFrame  BY <1>5 DEF SubmitLayer, Requires
  <2>3. Active' /\ begun' = host'.session
    BY <1>5, <2>1, <2>2 DEF SubmitLayer, Active, Exists, Same, FrameUsable
  <2>4. PICK q \in Quads :
          host' = [host EXCEPT !.layers = Append(@, [space |-> host.play_space, quad |-> q])]
    BY <1>5 DEF SubmitLayer
  <2>. DEFINE l == [space |-> host.play_space, quad |-> q]
  <2>5. host.layers \in Seq(Layers) /\ l \in Layers  BY DEF TypeOK, Hosts, Layers
  <2>6. host'.layers = Append(host.layers, l)  BY <2>4, <2>5, LayersUpdate DEF TypeOK
  <2>7. \A i \in DOMAIN host.layers : host.layers[i].space = host.play_space
    BY <2>2 DEF FrameUsable
  <2>. HIDE DEF l
  <2>8. l.space = host.play_space  BY DEF l
  <2>9. \A i \in DOMAIN host'.layers :
           (i \in DOMAIN host.layers /\ host'.layers[i] = host.layers[i]) \/ host'.layers[i] = l
    BY <2>5, <2>6
  <2>. QED  BY <2>1, <2>3, <2>7, <2>8, <2>9 DEF Same
<1>6. CASE TimePasses \/ UNCHANGED vars
  BY <1>6 DEF TimePasses, vars, FrameUsable, Active, Exists
<1>. QED  BY <1>1, <1>2, <1>3, <1>4, <1>5, <1>6 DEF Next, InitHostFails

LEMMA Inductive == Spec => []IInv
<1>1. Init => IInv
  <2>. SUFFICES ASSUME Init PROVE IInv  OBVIOUS
  <2>1. Gone /\ NothingLeft /\ FrameUsable
    BY DEF Init, Gone, NothingLeft, FrameUsable, Absent
  <2>2. HandlesAccounted  BY DEF Init, HandlesAccounted, Absent
  <2>. QED  BY <2>1, <2>2, TypeInit, LiveInit DEF IInv
<1>2. IInv /\ [Next]_vars => IInv'
  BY TypeStep, LiveStep, GoneStep, LeftStep, AccountedStep, UsableStep DEF IInv
<1>. QED  BY <1>1, <1>2, PTL DEF Spec

(* Callers that destroy what they tried to make leak no session, no space  *)
(* and no fence, whatever fails.                                           *)
THEOREM NothingLeaks == Spec => []HandlesAccounted
<1>1. IInv => HandlesAccounted  BY DEF IInv
<1>. QED  BY <1>1, Inductive, PTL

(* A frame that has begun is a frame of the session there is, and so is    *)
(* every layer of it.                                                      *)
THEOREM FramesOfTheSession == Spec => []FrameUsable
<1>1. IInv => FrameUsable  BY DEF IInv
<1>. QED  BY <1>1, Inductive, PTL

(***************************************************************************)
(* Pacing.                                                                 *)
(***************************************************************************)
LEMMA PacingSpaced ==
    ASSUME PacingTypeOK, PacingUpdate, g_frame_pace.last_frame_time # 0
    PROVE  g_frame_pace'.last_frame_time >= g_frame_pace.last_frame_time + Interval
<1>1. \A a, b \in Nat :
         /\ [g_frame_pace EXCEPT !.last_frame_time = a, !.frame_count = b].last_frame_time = a
         /\ [g_frame_pace EXCEPT !.last_frame_time = a, !.dropped_frames = b].last_frame_time = a
  BY DEF PacingTypeOK
<1>2. /\ now \in Nat /\ g_frame_pace.last_frame_time \in Nat /\ Interval \in Nat
      /\ g_frame_pace.frame_count + 1 \in Nat /\ g_frame_pace.dropped_frames + 1 \in Nat
  BY DEF PacingTypeOK
<1>3. CASE LateFrame
  <2>1. g_frame_pace'.last_frame_time = now  BY <1>1, <1>2, <1>3 DEF LateFrame
  <2>2. WaitNs < 0  BY <1>3 DEF LateFrame
  <2>. QED  BY <1>2, <2>1, <2>2 DEF WaitNs
<1>4. CASE FrameInTime
  <2>1. now + WaitNs = g_frame_pace.last_frame_time + Interval  BY <1>2 DEF WaitNs
  <2>2. now + WaitNs \in Nat  BY <1>2, <2>1
  <2>3. g_frame_pace'.last_frame_time = now + WaitNs
    BY <1>1, <1>2, <1>4, <2>2 DEF FrameInTime
  <2>. QED  BY <1>2, <2>1, <2>3
<1>. QED  BY <1>3, <1>4 DEF PacingUpdate, FirstFrame

(* The deadlines recorded are an interval apart, whenever frames begin.    *)
THEOREM Spaced == Spec => FramesSpaced
<1>. DEFINE P == g_frame_pace.last_frame_time # 0 /\ g_frame_pace' # g_frame_pace
                   => \/ g_frame_pace'.last_frame_time
                           >= g_frame_pace.last_frame_time + Interval
                      \/ g_frame_pace' = Reset
<1>1. TypeOK /\ [Next]_vars => [P]_g_frame_pace
  <2>. SUFFICES ASSUME TypeOK, [Next]_vars PROVE P  OBVIOUS
  <2>1. CASE BeginFrameFails \/ BeginFrame
    BY <2>1, PacingSpaced DEF BeginFrameFails, BeginFrame, TypeOK
  <2>2. CASE CreateSession  BY <2>2 DEF CreateSession, PacingReset
  <2>3. CASE UNCHANGED g_frame_pace  BY <2>3
  <2>. QED
    BY <2>1, <2>2, <2>3
    DEF Next, InitHostFails, InitHost, Shutdown, CreateSessionRefused,
        CreateSessionFails, DestroySession,
        SubmitLayer, EndFrameFails, EndFrame, TimePasses, Tick, pacing, vars
<1>. QED  BY <1>1, TypeCorrect, PTL DEF Spec, FramesSpaced

(***************************************************************************)
(* Frames are composed as FrameStream says.                                *)
(***************************************************************************)
LEMMA OneMoreQuad ==
    ASSUME NEW ls \in Seq(Layers), NEW l \in Layers
    PROVE  /\ QuadsOf(Append(ls, l)) = Append(QuadsOf(ls), l.quad)
           /\ QuadsOf(ls) \in Seq(Quads) /\ Len(QuadsOf(ls)) = Len(ls)
<1>1. QuadsOf(ls) \in Seq(Quads) /\ Len(QuadsOf(ls)) = Len(ls)  BY QuadSeq
<1>2. l.quad \in Quads  BY DEF Layers
<1>. DEFINE a == QuadsOf(Append(ls, l))  b == Append(QuadsOf(ls), l.quad)
<1>3. Append(ls, l) \in Seq(Layers) /\ Len(Append(ls, l)) = Len(ls) + 1  OBVIOUS
<1>4. a \in Seq(Quads) /\ Len(a) = Len(ls) + 1  BY <1>3, QuadSeq
<1>5. b \in Seq(Quads) /\ Len(b) = Len(ls) + 1  BY <1>1, <1>2
<1>6. \A i \in 1 .. Len(ls) + 1 : a[i] = b[i]
  BY <1>1, <1>2, <1>3 DEF QuadsOf
<1>7. a = b  BY <1>4, <1>5, <1>6
<1>. QED  BY <1>1, <1>7

LEMMA StreamStep ==
    ASSUME IInv, [Next]_vars, orderly'
    PROVE  [Stream!Next]_(Stream!vars)
<1>. USE DEF IInv, runtime, pacing, caller
<1>. DEFINE stream  == IF inFrame THEN QuadsOf(host.layers) ELSE <<>>
<1>0. orderly
  BY DEF Next, InitHostFails, InitHost, Shutdown, CreateSessionRefused, CreateSessionFails,
         CreateSession, DestroySession, BeginFrameFails, BeginFrame, SubmitLayer, EndFrameFails, EndFrame,
         TimePasses, Requires, vars
<1>1. CASE ~inFrame' /\ UNCHANGED shown
  <2>1. stream' = <<>> /\ shown' = shown  BY <1>1
  <2>2. CASE inFrame  BY <1>1, <2>1, <2>2 DEF Stream!Next, Stream!Abandon
  <2>3. CASE ~inFrame
    <3>1. inFrame' = inFrame  BY <1>1, <2>3, TypeStep DEF TypeOK
    <3>. QED  BY <2>1, <2>3, <3>1 DEF Stream!vars
  <2>. QED  BY <2>2, <2>3
<1>2. CASE inFrame' = inFrame /\ UNCHANGED <<shown, host>>
  BY <1>2 DEF Stream!vars
<1>3. CASE InitHost  BY <1>1, <1>3 DEF InitHost, Gone
<1>4. CASE CreateSessionRefused \/ CreateSessionFails \/ CreateSession
  BY <1>0, <1>1, <1>4 DEF CreateSessionRefused, CreateSessionFails, CreateSession, Requires, NothingLeft
<1>5. CASE Shutdown \/ DestroySession \/ BeginFrameFails \/ EndFrameFails
  BY <1>1, <1>5 DEF Shutdown, DestroySession, BeginFrameFails, EndFrameFails
<1>6. CASE BeginFrame
  <2>1. host'.layers = <<>>
    <3>1. <<>> \in Seq(Layers)  OBVIOUS
    <3>. QED  BY <1>6, <3>1, LayersUpdate DEF BeginFrame, TypeOK
  <2>2. inFrame' = TRUE /\ UNCHANGED shown  BY <1>6 DEF BeginFrame
  <2>3. stream' = <<>> /\ shown' = shown  BY <2>1, <2>2, NoQuads
  <2>. QED  BY <2>2, <2>3 DEF Stream!Next, Stream!Begin
<1>7. CASE SubmitLayer
  <2>1. PICK q \in Quads :
          host' = [host EXCEPT !.layers = Append(@, [space |-> host.play_space, quad |-> q])]
    BY <1>7 DEF SubmitLayer
  <2>. DEFINE l == [space |-> host.play_space, quad |-> q]
  <2>2. host.layers \in Seq(Layers) /\ l \in Layers /\ l.quad = q
    BY DEF TypeOK, Hosts, Layers
  <2>3. host'.layers = Append(host.layers, l)  BY <2>1, <2>2, LayersUpdate DEF TypeOK
  <2>4. inFrame /\ inFrame' /\ UNCHANGED shown /\ Len(host.layers) < MaxLayers
    BY <1>7 DEF SubmitLayer, Requires
  <2>5. QuadsOf(host'.layers) = Append(QuadsOf(host.layers), q)
    BY <2>2, <2>3, OneMoreQuad
  <2>6. Len(QuadsOf(host.layers)) < 2  BY <2>2, <2>4, OneMoreQuad DEF MaxLayers
  <2>7. stream' = Append(stream, q) /\ Len(stream) < 2 /\ shown' = shown
    BY <2>4, <2>5, <2>6
  <2>. QED
    BY <2>4, <2>7 DEF Stream!Next, Stream!Register, Stream!MaxLayers
<1>8. CASE EndFrame
  <2>1. inFrame /\ ~inFrame' /\ shown' = QuadsOf(host.layers)
    BY <1>8 DEF EndFrame, Requires
  <2>2. stream' = <<>> /\ shown' = stream  BY <2>1
  <2>. QED  BY <2>1, <2>2 DEF Stream!Next, Stream!End
<1>9. CASE TimePasses \/ UNCHANGED vars
  BY <1>2, <1>9 DEF TimePasses, vars
<1>. QED  BY <1>3, <1>4, <1>5, <1>6, <1>7, <1>8, <1>9 DEF Next, InitHostFails

(* To callers in order, every step of the host is a step of FrameStream or *)
(* leaves it alone: what is shown is what was submitted for the frame.     *)
THEOREM ComposesFrames == Spec => ImplementsFrameStream
<1>1. Init => Stream!Init
  BY NoQuads DEF Init, Stream!Init
<1>2. IInv /\ [Next]_vars => [orderly' => [Stream!Next]_(Stream!vars)]_vars
  BY StreamStep
<1>. QED  BY <1>1, <1>2, Inductive, PTL DEF Spec, ImplementsFrameStream
=============================================================================
