---------------------------- MODULE HostGraphics ----------------------------
(***************************************************************************)
(* The OpenXR host with its graphics: openxr_host.c together with          *)
(* src/host/src/graphics_binding.c.  Every creation of a session binds the *)
(* graphics first, whether it then succeeds or not; the destruction of one *)
(* shuts the graphics down, and so does the shutdown of a host with an     *)
(* active session.  The state of the graphics is global: it outlives the   *)
(* host.                                                                   *)
(*                                                                         *)
(* EGL is the environment.  Every call of it may fail; there is one        *)
(* display, the default one, and eglTerminate() takes all its contexts.    *)
(* Who asks for the available APIs is the environment too: nothing in the  *)
(* repository calls graphics_binding_detect_available() yet, so that today *)
(* every session is headless; the model is of the module as it is ready to *)
(* be used.                                                                *)
(*                                                                         *)
(* The history variable tidy says whether callers have been orderly and    *)
(* have, before a shutdown, destroyed a session whose creation failed.     *)
(***************************************************************************)
EXTENDS OxrHost, FiniteSets

CONSTANTS
    Contexts,       \* handles of EGL contexts
    Machines        \* sets of APIs whose libraries a machine may have

Apis == {"OPENGL", "VULKAN"}

ASSUME ContextsAssumption == Null \notin Contexts
ASSUME MachinesAssumption == Machines \subseteq SUBSET Apis

VARIABLES
    g_graphics,     \* the state of graphics_binding.c
    contexts,       \* EGL's live contexts
    bound,          \* history: the API of a tidy caller's session's binding
    tidy            \* history: have callers cleaned up what failed?

graphics == <<g_graphics, contexts>>
gvars    == <<vars, graphics, bound, tidy>>

Bindings == [selected_api : Apis \cup {"UNKNOWN"}, available_apis : SUBSET Apis,
             egl_display : BOOLEAN, egl_context : Contexts \cup {Null}]

GInit ==
    /\ Init
    /\ g_graphics = [selected_api |-> "UNKNOWN", available_apis |-> {},
                     egl_display |-> FALSE, egl_context |-> Null]
    /\ contexts = {}
    /\ bound = "NONE"
    /\ tidy = TRUE

(***************************************************************************)
(* graphics_binding.c.                                                     *)
(***************************************************************************)

(* What is found is remembered, unless it is nothing.                      *)
DetectAvailable ==
    /\ g_graphics.available_apis = {}
    /\ \E found \in Machines :
          g_graphics' = [g_graphics EXCEPT !.available_apis = found]
    /\ UNCHANGED <<vars, contexts, bound, tidy>>

(* egl_setup() fails: in eglGetDisplay() or eglInitialize(), or after them,*)
(* and then it terminates the display.                                     *)
EglFails == contexts' \in {contexts, {}}

(* Mutant: a context that is recorded already is not replaced.             *)
EglSetupKeepsFirst ==
    \E c \in Contexts \ contexts :
        /\ contexts' = contexts \cup {c}
        /\ g_graphics' = [g_graphics EXCEPT !.selected_api = "OPENGL", !.egl_display = TRUE,
                                            !.egl_context = IF @ = Null THEN c ELSE @]

EglSetup ==
    \E c \in Contexts \ contexts :
        /\ contexts' = contexts \cup {c}
        /\ g_graphics' = [g_graphics EXCEPT !.selected_api = "OPENGL",
                                            !.egl_display = TRUE, !.egl_context = c]

Found(api) == api \in g_graphics.available_apis

(* create_session() tries EGL, then Vulkan, then goes without.             *)
EglNotUsed == IF Found("OPENGL") THEN EglFails ELSE UNCHANGED contexts

BindGraphics(api) ==
    \/ api = "OPENGL" /\ Found(api) /\ EglSetup
    \/ /\ api = "VULKAN" /\ Found(api) /\ EglNotUsed
       /\ g_graphics' = [g_graphics EXCEPT !.selected_api = api]
    \/ api = "UNKNOWN" /\ ~Found("VULKAN") /\ EglNotUsed /\ UNCHANGED g_graphics

(* Mutant: the choice of the API stays.                                    *)
GraphicsShutdownKeepsApi ==
    /\ contexts' = IF g_graphics.egl_display THEN {} ELSE contexts \ {g_graphics.egl_context}
    /\ g_graphics' = [g_graphics EXCEPT !.egl_display = FALSE, !.egl_context = Null]

GraphicsShutdown ==
    /\ contexts' = IF g_graphics.egl_display THEN {} ELSE contexts \ {g_graphics.egl_context}
    /\ g_graphics' = [g_graphics EXCEPT !.selected_api = "UNKNOWN",
                                        !.egl_display = FALSE, !.egl_context = Null]

(***************************************************************************)
(* openxr_host.c, with the graphics.                                       *)
(***************************************************************************)

(* The session is made, with a reference space or without, or it is not.   *)
GCreateSession ==
    \E api \in Apis \cup {"UNKNOWN"} :
        /\ BindGraphics(api)
        /\ tidy' = (tidy /\ ~made)
        /\ \/ (CreateSession \/ CreateSessionFails) /\ bound' = IF tidy' THEN api ELSE "NONE"
           \/ CreateSessionRefused /\ bound' = "NONE"

GDestroySession ==
    /\ DestroySession /\ GraphicsShutdown
    /\ bound' = "NONE"
    /\ UNCHANGED tidy

GShutdown ==
    /\ Shutdown
    /\ IF host.session_active THEN GraphicsShutdown ELSE UNCHANGED graphics
    /\ bound' = "NONE"
    /\ tidy' = (tidy /\ (made => host.session_active))

GOther ==
    /\ \/ InitHostFails \/ InitHost
       \/ BeginFrameFails \/ BeginFrame \/ SubmitLayer \/ EndFrameFails \/ EndFrame
       \/ TimePasses
    /\ UNCHANGED <<graphics, bound, tidy>>

GNext ==
    \/ DetectAvailable
    \/ GCreateSession \/ GDestroySession \/ GShutdown
    \/ GOther

GSpec == GInit /\ [][GNext]_gvars

(***************************************************************************)
(* Properties.                                                             *)
(***************************************************************************)

(* Whatever fails, whatever is called in whatever order and however many   *)
(* hosts there were, the next shutdown of the graphics leaves no context,  *)
(* for the display of those there are is known; and the recorded context,  *)
(* which eglDestroyContext() is given, is one of them.  It may be a dead   *)
(* one only when none is left: an egl_setup() that fails half way takes    *)
(* the recorded context with the display and does not forget it, and the   *)
(* next one that succeeds replaces it (graphics_binding.c 97-146, 209-219).*)
ContextsReleasable ==
    contexts # {} => g_graphics.egl_display /\ g_graphics.egl_context \in contexts

(* To callers that clean up what failed, the context there is is the one   *)
(* recorded, none outlives the session, and the selected API is that of    *)
(* the binding the session was made with (openxr_host.c 117-172, 293-363,  *)
(* graphics_binding.c 139-142, 205-221).                                   *)
GraphicsAccounted ==
    tidy =>
        /\ contexts = {g_graphics.egl_context} \ {Null}
        /\ ~made => contexts = {} /\ g_graphics.selected_api = "UNKNOWN"
        /\ bound # "NONE" => g_graphics.selected_api = bound
        /\ bound = "OPENGL" => contexts # {}
=============================================================================
