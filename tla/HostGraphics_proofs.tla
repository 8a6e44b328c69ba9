------------------------ MODULE HostGraphics_proofs ------------------------
(***************************************************************************)
(* Proofs about HostGraphics, for any contexts and machines.  It implements*)
(* OxrHost, so what is proved of OxrHost holds of it too.                  *)
(***************************************************************************)
EXTENDS HostGraphics, OxrHost_proofs

USE ContextsAssumption, MachinesAssumption

GTypeOK ==
    /\ g_graphics \in Bindings
    /\ contexts \subseteq Contexts
    /\ bound \in Apis \cup {"UNKNOWN", "NONE"}
    /\ tidy \in BOOLEAN

GInv == GTypeOK /\ ContextsReleasable /\ GraphicsAccounted

(***************************************************************************)
(* The composition.                                                        *)
(***************************************************************************)
LEMMA GStepIsStep == [GNext]_gvars => [Next]_vars
BY DEF GNext, gvars, DetectAvailable, GCreateSession, GDestroySession, GShutdown, GOther, Next

(* With its graphics the host still is what OxrHost says it is.            *)
THEOREM ImplementsHost == GSpec => Spec
<1>1. GInit => Init  BY DEF GInit
<1>. QED  BY <1>1, GStepIsStep, PTL DEF GSpec, Spec

(* Also with its graphics the host keeps no handle that was destroyed.     *)
THEOREM NoStaleHandleG == GSpec => []HandlesLive
BY ImplementsHost, NoStaleHandle, PTL

(* Also with its graphics orderly callers leak nothing.                    *)
THEOREM NothingLeaksG == GSpec => []HandlesAccounted
BY ImplementsHost, NothingLeaks, PTL

(* Also with its graphics the host hands the runtime well-formed frames,   *)
(* whose recorded deadlines are an interval apart.                         *)
THEOREM ComposesFramesG == GSpec => ImplementsFrameStream /\ FramesSpaced
BY ImplementsHost, ComposesFrames, Spaced, PTL

(***************************************************************************)
(* What the steps do to the graphics.                                      *)
(***************************************************************************)
LEMMA Bind ==
    ASSUME GTypeOK, NEW api \in Apis \cup {"UNKNOWN"}, BindGraphics(api)
    PROVE  /\ g_graphics' \in Bindings /\ contexts' \subseteq Contexts
           /\ \/ /\ api = "OPENGL" /\ g_graphics'.egl_display
                 /\ g_graphics'.selected_api = api /\ g_graphics'.egl_context # Null
                 /\ contexts' = contexts \cup {g_graphics'.egl_context}
              \/ /\ api # "OPENGL" /\ contexts' \in {contexts, {}}
                 /\ g_graphics'.egl_display = g_graphics.egl_display
                 /\ g_graphics'.egl_context = g_graphics.egl_context
                 /\ g_graphics'.selected_api =
                      IF api = "UNKNOWN" THEN g_graphics.selected_api ELSE api
<1>1. CASE api = "OPENGL" /\ EglSetup
  <2>1. PICK c \in Contexts :
          /\ contexts' = contexts \cup {c}
          /\ g_graphics' = [g_graphics EXCEPT !.selected_api = "OPENGL",
                                              !.egl_display = TRUE, !.egl_context = c]
    BY <1>1 DEF EglSetup
  <2>2. /\ g_graphics'.selected_api = "OPENGL" /\ g_graphics'.egl_display
        /\ g_graphics'.egl_context = c /\ g_graphics' \in Bindings
    BY <2>1 DEF GTypeOK, Bindings, Apis
  <2>3. c # Null  OBVIOUS
  <2>. QED  BY <1>1, <2>1, <2>2, <2>3 DEF GTypeOK
<1>2. CASE api = "VULKAN" /\ EglNotUsed
           /\ g_graphics' = [g_graphics EXCEPT !.selected_api = api]
  <2>1. contexts' \in {contexts, {}}  BY <1>2 DEF EglNotUsed, EglFails
  <2>2. /\ g_graphics'.selected_api = api /\ g_graphics' \in Bindings
        /\ g_graphics'.egl_display = g_graphics.egl_display
        /\ g_graphics'.egl_context = g_graphics.egl_context
    BY <1>2 DEF GTypeOK, Bindings, Apis
  <2>. QED  BY <1>2, <2>1, <2>2 DEF GTypeOK
<1>3. CASE api = "UNKNOWN" /\ EglNotUsed /\ UNCHANGED g_graphics
  <2>1. contexts' \in {contexts, {}}  BY <1>3 DEF EglNotUsed, EglFails
  <2>. QED  BY <1>3, <2>1 DEF GTypeOK
<1>. QED  BY <1>1, <1>2, <1>3 DEF BindGraphics

LEMMA ShutDown ==
    ASSUME GTypeOK, ContextsReleasable, GraphicsShutdown
    PROVE  /\ g_graphics' \in Bindings /\ contexts' = {}
           /\ g_graphics'.selected_api = "UNKNOWN" /\ g_graphics'.egl_context = Null
<1>1. contexts' = {}  BY DEF ContextsReleasable, GraphicsShutdown
<1>2. /\ g_graphics' \in Bindings
      /\ g_graphics'.selected_api = "UNKNOWN" /\ g_graphics'.egl_context = Null
  BY DEF GraphicsShutdown, GTypeOK, Bindings
<1>. QED  BY <1>1, <1>2

LEMMA GStep == TypeOK /\ GInv /\ [GNext]_gvars => GInv'
<1>. SUFFICES ASSUME TypeOK, GInv, [GNext]_gvars PROVE GInv'  OBVIOUS
<1>. USE DEF GInv
<1>1. CASE DetectAvailable
  <2>1. PICK found \in Machines : g_graphics' = [g_graphics EXCEPT !.available_apis = found]
    BY <1>1 DEF DetectAvailable
  <2>2. /\ g_graphics' \in Bindings
        /\ g_graphics'.selected_api = g_graphics.selected_api
        /\ g_graphics'.egl_display = g_graphics.egl_display
        /\ g_graphics'.egl_context = g_graphics.egl_context
    BY <2>1 DEF GTypeOK, Bindings
  <2>3. UNCHANGED <<contexts, bound, tidy, made>>
    BY <1>1 DEF DetectAvailable, vars, caller
  <2>. QED  BY <2>2, <2>3 DEF GTypeOK, ContextsReleasable, GraphicsAccounted
<1>2. CASE GCreateSession
  <2>1. PICK api \in Apis \cup {"UNKNOWN"} :
          /\ BindGraphics(api)
          /\ tidy' = (tidy /\ ~made)
          /\ \/ (CreateSession \/ CreateSessionFails) /\ bound' = IF tidy' THEN api ELSE "NONE"
             \/ CreateSessionRefused /\ bound' = "NONE"
    BY <1>2 DEF GCreateSession
  <2>2. tidy' \in BOOLEAN /\ (tidy' => tidy /\ ~made)  BY <2>1
  <2>3. made' = TRUE
    BY <2>1 DEF CreateSession, CreateSessionFails, CreateSessionRefused
  <2>4. bound' \in {api, "NONE"}  BY <2>1
  <2>5. GTypeOK'  BY <2>1, <2>2, <2>4, Bind DEF GTypeOK
  <2>6. ContextsReleasable'  BY <2>1, Bind DEF ContextsReleasable
  <2>7. ASSUME tidy' PROVE /\ contexts = {} /\ g_graphics.egl_context = Null
                           /\ g_graphics.selected_api = "UNKNOWN"
    <3>1. /\ contexts = {} /\ g_graphics.selected_api = "UNKNOWN"
          /\ contexts = {g_graphics.egl_context} \ {Null}
      BY <2>2, <2>7 DEF GraphicsAccounted
    <3>. QED  BY <3>1
  <2>8. GraphicsAccounted'
    BY <2>1, <2>3, <2>4, <2>7, Bind DEF GraphicsAccounted
  <2>. QED  BY <2>5, <2>6, <2>8
<1>3. CASE GDestroySession
  <2>1. GraphicsShutdown /\ bound' = "NONE" /\ tidy' = tidy  BY <1>3 DEF GDestroySession
  <2>. QED  BY <2>1, ShutDown DEF GTypeOK, ContextsReleasable, GraphicsAccounted
<1>4. CASE GShutdown
  <2>1. /\ bound' = "NONE" /\ tidy' = (tidy /\ (made => host.session_active))
        /\ IF host.session_active THEN GraphicsShutdown ELSE UNCHANGED graphics
    BY <1>4 DEF GShutdown
  <2>2. tidy' \in BOOLEAN /\ (tidy' => tidy /\ (made => host.session_active))  BY <2>1
  <2>3. CASE host.session_active
    <3>1. GraphicsShutdown  BY <2>1, <2>3
    <3>. QED  BY <2>1, <2>2, <3>1, ShutDown DEF GTypeOK, ContextsReleasable, GraphicsAccounted
  <2>4. CASE ~host.session_active
    <3>1. UNCHANGED graphics /\ (tidy' => tidy /\ ~made)  BY <2>1, <2>2, <2>4
    <3>. QED  BY <2>1, <2>2, <3>1 DEF graphics, GTypeOK, ContextsReleasable, GraphicsAccounted
  <2>. QED  BY <2>3, <2>4
<1>5. CASE GOther
  <2>1. UNCHANGED <<graphics, bound, tidy>>  BY <1>5 DEF GOther
  <2>2. UNCHANGED made
    BY <1>5 DEF GOther, InitHostFails, InitHost, BeginFrameFails, BeginFrame, SubmitLayer,
                EndFrameFails, EndFrame, TimePasses, vars, caller
  <2>. QED  BY <2>1, <2>2 DEF graphics, GTypeOK, ContextsReleasable, GraphicsAccounted
<1>6. CASE UNCHANGED gvars
  BY <1>6 DEF gvars, vars, caller, graphics, GTypeOK, ContextsReleasable, GraphicsAccounted
<1>. QED  BY <1>1, <1>2, <1>3, <1>4, <1>5, <1>6 DEF GNext

LEMMA GInvInit == GInit => GInv
<1>. SUFFICES ASSUME GInit PROVE GInv  OBVIOUS
<1>1. g_graphics \in Bindings /\ g_graphics.selected_api = "UNKNOWN"
      /\ g_graphics.egl_context = Null
  BY DEF GInit, Bindings
<1>. QED
  BY <1>1 DEF GInit, GInv, GTypeOK, ContextsReleasable, GraphicsAccounted

LEMMA GInductive == GSpec => []GInv
<1>1. GSpec => []TypeOK  BY ImplementsHost, TypeCorrect, PTL
<1>2. TypeOK /\ GInv /\ [GNext]_gvars => GInv'  BY GStep
<1>. QED  BY <1>1, <1>2, GInvInit, PTL DEF GSpec

(* A shutdown of the graphics always leaves no context, whatever happened. *)
THEOREM ContextsAreReleasable == GSpec => []ContextsReleasable
<1>1. GInv => ContextsReleasable  BY DEF GInv
<1>. QED  BY <1>1, GInductive, PTL

(* To tidy callers no context outlives its session, and the selected API   *)
(* is that of the session's binding.                                       *)
THEOREM GraphicsAreAccounted == GSpec => []GraphicsAccounted
<1>1. GInv => GraphicsAccounted  BY DEF GInv
<1>. QED  BY <1>1, GInductive, PTL
=============================================================================
