------------------------------- MODULE OxrHost -------------------------------
(***************************************************************************)
(* The OpenXR host: src/host/src/openxr_host.c, with the frame pacing it   *)
(* updates (FramePacing) and, as its environment, an OpenXR runtime of     *)
(* which every call may fail.  Its calls do not overlap: the server makes  *)
(* them from main() and from the listener thread in turn.  In the program  *)
(* nobody calls oxr_host_create_session(), oxr_host_begin_frame() or       *)
(* oxr_host_end_frame() yet: who composes frames is the environment too.   *)
(*                                                                         *)
(* Callers may call in any order.  The history variable orderly says       *)
(* whether they have kept to the rules so far: a session is created once   *)
(* before it is destroyed, whether the creation succeeded or not, and      *)
(* layers are submitted and frames ended only within a frame that has      *)
(* begun (openxr_host.h 67-72).                                            *)
(*                                                                         *)
(* What is abstracted.  A layer is the space it is placed in and what is   *)
(* left of its parameters, a member of Quads; layers[] beyond layer_count  *)
(* is never read, so the two are one sequence.  A refused call that        *)
(* changes nothing is left out.  What graphics API a session is bound to   *)
(* is module HostGraphics'; no swapchain is ever created.  The runtime is  *)
(* more permissive than OpenXR, so that frames come about at all: the host *)
(* never calls xrBeginSession() and its layers have no swapchain, for      *)
(* which a conforming runtime would refuse them.  What holds of the host   *)
(* with this runtime holds with one that refuses more.                     *)
(***************************************************************************)
EXTENDS FramePacing, Sequences

CONSTANTS
    Instances, Sessions, Spaces,    \* handles the runtime gives out
    Fences,                         \* what malloc() returns for fences
    Null,                           \* XR_NULL_HANDLE and NULL
    Quads,                          \* parameters of layers
    MaxFrames                       \* bound: frames counted by one host

ASSUME NullAssumption ==
    /\ Null \notin Instances \cup Sessions \cup Spaces
    /\ Null \notin Fences
ASSUME MaxFramesAssumption == MaxFrames \in Nat

VARIABLES
    host,           \* OxrHostState, Absent when there is none
    instances,      \* the runtime's live instances
    sessions,       \* its live sessions
    spaces,         \* its live spaces, each with its session
    fences,         \* the live fences
    begun,          \* the session of which the runtime has begun a frame
    shown,          \* history: the quads of the last frame it accepted
    orderly,        \* history: have callers kept the rules?
    made,           \* history: was a session made, or tried, and not destroyed?
    inFrame         \* history: has a frame begun that has not ended?

runtime == <<instances, sessions, spaces>>
pacing  == <<now, g_frame_pace>>
caller  == <<orderly, made, inFrame>>
vars    == <<host, runtime, fences, begun, shown, caller, pacing>>

Absent == [instance |-> Null, session |-> Null, play_space |-> Null, frame_fence |-> Null,
           session_active |-> FALSE, frame_count |-> 0, layers |-> <<>>]

MaxLayers == 2
Layers == [space : Spaces \cup {Null}, quad : Quads]
Hosts  == [instance       : Instances \cup {Null},
           session        : Sessions \cup {Null},
           play_space     : Spaces \cup {Null},
           frame_fence    : Fences \cup {Null},
           session_active : BOOLEAN,
           frame_count    : Nat,
           layers         : Seq(Layers)]

Init ==
    /\ host = Absent
    /\ instances = {} /\ sessions = {} /\ fences = {}
    /\ spaces = [p \in Spaces |-> Null]
    /\ begun = Null
    /\ shown = <<>>
    /\ orderly = TRUE /\ made = FALSE /\ inFrame = FALSE
    /\ PacingInit

(***************************************************************************)
(* Helpers.                                                                *)
(***************************************************************************)
Exists == host.instance # Null
Active == Exists /\ host.session_active

QuadsOf(ls) == [i \in DOMAIN ls |-> ls[i].quad]

(* Callers may do this only if rule holds.                                 *)
Requires(rule) == orderly' = (orderly /\ rule)

(* xrDestroySpace(), if there is one, and xrDestroySession(), if there is  *)
(* one: a session takes its spaces and its frame with it.                  *)
DestroyHandles ==
    /\ spaces' = [p \in Spaces |->
                    IF p = host.play_space \/ spaces[p] = host.session THEN Null ELSE spaces[p]]
    /\ sessions' = sessions \ {host.session}
    /\ fences' = fences \ {host.frame_fence}
    /\ begun' = IF begun = host.session THEN Null ELSE begun

(***************************************************************************)
(* oxr_host_init() and oxr_host_shutdown().                                *)
(***************************************************************************)

(* xrCreateInstance() fails, or malloc().                                  *)
InitHostFails == ~Exists /\ UNCHANGED vars

(* xrCreateInstance() succeeds; xrGetSystem() may not, and then the host   *)
(* is freed and the instance stays.                                        *)
InitHost ==
    /\ ~Exists
    /\ \E i \in Instances \ instances :
          /\ instances' = instances \cup {i}
          /\ host' \in {Absent, [Absent EXCEPT !.instance = i]}
    /\ UNCHANGED <<sessions, spaces, fences, begun, shown, caller, pacing>>

(* xrDestroyInstance() takes with it what was made from the instance.      *)
Shutdown ==
    /\ Exists
    /\ instances' = instances \ {host.instance}
    /\ sessions' = {} /\ spaces' = [p \in Spaces |-> Null] /\ begun' = Null
    /\ fences' = IF host.session_active THEN fences \ {host.frame_fence} ELSE fences
    /\ host' = Absent
    /\ made' = FALSE /\ inFrame' = FALSE
    /\ UNCHANGED <<shown, orderly, pacing>>

(***************************************************************************)
(* oxr_host_create_session() and oxr_host_destroy_session().               *)
(***************************************************************************)

(* xrCreateSession() fails.                                                *)
CreateSessionRefused ==
    /\ Exists
    /\ Requires(~made) /\ made' = TRUE
    /\ UNCHANGED <<host, runtime, fences, begun, shown, inFrame, pacing>>

(* xrCreateSession() succeeds and xrCreateReferenceSpace() does not.       *)
CreateSessionFails ==
    /\ Exists
    /\ Requires(~made) /\ made' = TRUE
    /\ \E s \in Sessions \ sessions :
          /\ sessions' = sessions \cup {s}
          /\ host' = [host EXCEPT !.session = s]
    /\ UNCHANGED <<instances, spaces, fences, begun, shown, inFrame, pacing>>

(* The fence is NULL if there is no memory for it.                         *)
CreateSession ==
    /\ Exists
    /\ Requires(~made) /\ made' = TRUE
    /\ \E s \in Sessions \ sessions, p \in {q \in Spaces : spaces[q] = Null},
          f \in (Fences \ fences) \cup {Null} :
          /\ sessions' = sessions \cup {s}
          /\ spaces' = [spaces EXCEPT ![p] = s]
          /\ fences' = fences \cup ({f} \ {Null})
          /\ host' = [host EXCEPT !.session = s, !.play_space = p, !.frame_fence = f,
                                  !.session_active = TRUE]
    /\ PacingReset
    /\ UNCHANGED <<instances, begun, shown, inFrame>>

(* Mutant: the fence is destroyed and its pointer kept.                    *)
DestroySessionKeepsFence ==
    /\ Exists
    /\ DestroyHandles
    /\ host' = [host EXCEPT !.session = Null, !.play_space = Null, !.session_active = FALSE]
    /\ made' = FALSE /\ inFrame' = FALSE
    /\ UNCHANGED <<instances, shown, orderly, pacing>>

(* Mutant: only a session that became active is destroyed.                 *)
DestroySessionIfActive ==
    /\ Exists
    /\ IF host.session_active
       THEN /\ DestroyHandles
            /\ host' = [host EXCEPT !.session = Null, !.play_space = Null,
                                    !.frame_fence = Null, !.session_active = FALSE]
       ELSE UNCHANGED <<host, sessions, spaces, fences, begun>>
    /\ made' = FALSE /\ inFrame' = FALSE
    /\ UNCHANGED <<instances, shown, orderly, pacing>>

DestroySession ==
    /\ Exists
    /\ DestroyHandles
    /\ host' = [host EXCEPT !.session = Null, !.play_space = Null, !.frame_fence = Null,
                            !.session_active = FALSE]
    /\ made' = FALSE /\ inFrame' = FALSE
    /\ UNCHANGED <<instances, shown, orderly, pacing>>

(***************************************************************************)
(* oxr_host_begin_frame(), _submit_layer() and _end_frame().               *)
(***************************************************************************)

(* xrWaitFrame() or xrBeginFrame() fails: the frame counts for the pacing. *)
BeginFrameFails ==
    /\ Active
    /\ PacingUpdate
    /\ inFrame' = FALSE
    /\ UNCHANGED <<host, runtime, fences, begun, shown, orderly, made>>

(* Mutant: the layers of the frame before stay.                            *)
BeginFrameKeepsLayers ==
    /\ Active
    /\ PacingUpdate
    /\ begun' = host.session
    /\ inFrame' = TRUE
    /\ UNCHANGED <<host, runtime, fences, shown, orderly, made>>

(* A frame begun before and not ended is discarded.  (The runtime does not *)
(* ask for xrBeginSession().)                                              *)
BeginFrame ==
    /\ Active
    /\ PacingUpdate
    /\ host' = [host EXCEPT !.layers = <<>>]
    /\ begun' = host.session
    /\ inFrame' = TRUE
    /\ UNCHANGED <<runtime, fences, shown, orderly, made>>

(* Mutant: one layer too many.                                             *)
SubmitLayerUnbounded ==
    /\ Active
    /\ Len(host.layers) <= MaxLayers
    /\ Requires(inFrame)
    /\ \E q \in Quads :
          host' = [host EXCEPT !.layers = Append(@, [space |-> host.play_space, quad |-> q])]
    /\ UNCHANGED <<runtime, fences, begun, shown, made, inFrame, pacing>>

SubmitLayer ==
    /\ Active
    /\ Len(host.layers) < MaxLayers
    /\ Requires(inFrame)
    /\ \E q \in Quads :
          host' = [host EXCEPT !.layers = Append(@, [space |-> host.play_space, quad |-> q])]
    /\ UNCHANGED <<runtime, fences, begun, shown, made, inFrame, pacing>>

(* xrEndFrame() is refused, always if no frame has begun.                  *)
EndFrameFails ==
    /\ Active
    /\ Requires(inFrame)
    /\ begun' \in {begun, Null}
    /\ inFrame' = FALSE
    /\ UNCHANGED <<host, runtime, fences, shown, made, pacing>>

EndFrame ==
    /\ Active
    /\ Requires(inFrame)
    /\ begun = host.session
    /\ host.frame_count < MaxFrames
    /\ begun' = Null
    /\ shown' = QuadsOf(host.layers)
    /\ host' = [host EXCEPT !.frame_count = @ + 1]
    /\ inFrame' = FALSE
    /\ UNCHANGED <<runtime, fences, made, pacing>>

(***************************************************************************)
(* The specification.                                                      *)
(***************************************************************************)
TimePasses ==
    /\ Tick
    /\ UNCHANGED <<host, runtime, fences, begun, shown, caller>>

Next ==
    \/ InitHostFails \/ InitHost \/ Shutdown
    \/ CreateSessionRefused \/ CreateSessionFails \/ CreateSession \/ DestroySession
    \/ BeginFrameFails \/ BeginFrame \/ SubmitLayer \/ EndFrameFails \/ EndFrame
    \/ TimePasses

Spec == Init /\ [][Next]_vars

(***************************************************************************)
(* Properties.                                                             *)
(***************************************************************************)

(* The state has the types of OxrHostState; layers[2] is never overrun.    *)
TypeOK ==
    /\ host \in Hosts /\ Len(host.layers) <= MaxLayers
    /\ instances \subseteq Instances /\ sessions \subseteq Sessions /\ fences \subseteq Fences
    /\ spaces \in [Spaces -> Sessions \cup {Null}]
    /\ begun \in Sessions \cup {Null}
    /\ shown \in Seq(Quads)
    /\ orderly \in BOOLEAN /\ made \in BOOLEAN /\ inFrame \in BOOLEAN
    /\ PacingTypeOK

(* Whatever is called in whatever order and whatever fails on the way, the *)
(* host never keeps a handle or a fence that has been destroyed: nothing   *)
(* is destroyed twice, and no frame call goes to a dead session            *)
(* (openxr_host.c 293-363).                                                *)
HandlesLive ==
    /\ host.instance # Null => host.instance \in instances
    /\ host.session # Null => host.session \in sessions
    /\ host.play_space # Null => spaces[host.play_space] # Null
    /\ host.frame_fence # Null => host.frame_fence \in fences
    /\ host.session_active => host.session # Null /\ host.play_space # Null

(* To callers that destroy a session they tried to make before they make   *)
(* another one, nothing leaks: what is live is what the host holds, and an *)
(* active session's space is its own (openxr_host.c 117-172, 312-363).     *)
HandlesAccounted ==
    orderly =>
        /\ sessions = {host.session} \ {Null}
        /\ {p \in Spaces : spaces[p] # Null} = {host.play_space} \ {Null}
        /\ fences = {host.frame_fence} \ {Null}
        /\ host.session_active => spaces[host.play_space] = host.session

(* Between a begin_frame() and its end, across failures and new sessions,  *)
(* the runtime has a frame of this session, and every layer registered is  *)
(* placed in this session's space (openxr_host.c 212-262, 365-416).        *)
FrameUsable ==
    orderly /\ inFrame =>
        /\ Active /\ begun = host.session
        /\ \A i \in DOMAIN host.layers : host.layers[i].space = host.play_space

(* To orderly callers the host composes frames as FrameStream says: the    *)
(* runtime shows exactly the layers submitted since the frame began.       *)
Stream == INSTANCE FrameStream WITH
    Layers <- Quads,
    open   <- inFrame,
    layers <- IF inFrame THEN QuadsOf(host.layers) ELSE <<>>,
    shown  <- shown

ImplementsFrameStream ==
    /\ Stream!Init
    /\ [][orderly' => [Stream!Next]_(Stream!vars)]_vars
=============================================================================
