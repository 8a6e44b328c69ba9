------------------------------ MODULE ApiLayer ------------------------------
(***************************************************************************)
(* The OpenXR API layer in the guest: src/src/layer_main.c, and from       *)
(* src/src/meta_ext_stubs.c the stub handles and the dispatch table.       *)
(*                                                                         *)
(* The loader negotiates with the layer and so tells it the next chain,    *)
(* the layers and the runtime below, which the layer keeps in globals;     *)
(* then the threads of the application create and destroy instances,       *)
(* enumerate extensions, look up functions and create stub objects.  A     *)
(* call of the layer is cut where it calls the next chain: another thread, *)
(* or another negotiation, may come in between.                            *)
(*                                                                         *)
(* The history variable orderly says whether loader and application have   *)
(* so far had one instance at a time, created and destroyed one after the  *)
(* other, destroyed only what there was, and negotiated only when there    *)
(* was none.                                                               *)
(*                                                                         *)
(* What is abstracted.  An extension is its name.  Of the bridge there is  *)
(* only whether it is connected; ipc_bridge_init() and _shutdown() hold    *)
(* its lock (module IpcBridge).  Of functions there are three kinds.  The  *)
(* stubs that only return a constant, and every refused negotiation,       *)
(* change nothing and are left out.                                        *)
(***************************************************************************)
EXTENDS Naturals, FiniteSets

CONSTANTS
    Threads,        \* the threads of the application
    Chains,         \* the chains the loader puts below the layer
    Instances,      \* handles of instances
    Null,           \* NULL and XR_NULL_HANDLE
    Names,          \* names of extensions
    MetaExtensions, \* those the layer adds
    Offered,        \* those each chain lists, once each
    GlobalOnly,     \* does a chain know only global functions without an instance?
    Capacities,     \* the array sizes the application passes
    FirstHandle,    \* 0x1000 in the code
    MaxHandles      \* bound: stub handles given out

ASSUME NullAssumption     == Null \notin Chains \cup Instances
ASSUME NamesAssumption    ==
    /\ IsFiniteSet(Names)
    /\ MetaExtensions \subseteq Names
    /\ Offered \in [Chains -> SUBSET Names]
ASSUME GlobalOnlyAssumption == GlobalOnly \in BOOLEAN
ASSUME NumbersAssumption  ==
    Capacities \subseteq Nat /\ FirstHandle \in Nat \ {0} /\ MaxHandles \in Nat

VARIABLES
    s_next,             \* the chain of s_next_xrGetInstanceProcAddr, and of
                        \* _xrCreateInstance and _xrEnumerateInstanceExtensionProperties
    s_next_destroy,     \* the chain of s_next_xrDestroyInstance
    s_connected,        \* is the bridge connected?
    s_handle_counter,   \* the next stub handle
    pc,                 \* where each thread is in a call of the layer
    target,             \* the instance it destroys
    request,            \* a thread's enumeration, between its two calls
    answer,             \* history: what the last enumeration gave
    told,               \* history: the size of this chain's list as last told
    held,               \* the stub objects and requests of each thread
    madeBy,             \* the chain that made each instance, while it lives
    served,             \* history: was the bridge connected when it was made?
    looked,             \* the last function looked up, while its instance lives
    failed,             \* history: has the last creation failed?
    orderly             \* history: have loader and application kept the rules?

chain   == <<s_next, s_next_destroy>>
listing == <<request, answer, told>>
life    == <<madeBy, served, failed>>
stubs   == <<s_handle_counter, held>>
vars    == <<chain, s_connected, stubs, pc, target, listing, life, looked, orderly>>

Functions == {"meta", "intercepted", "other"}
NoRequest == [capacity |-> 0, real |-> 0, promised |-> FALSE]
NoAnswer  == [result |-> "NONE", capacity |-> 0, promised |-> FALSE,
              count |-> 0, names |-> {}]
NoLookup  == [instance |-> Null, function |-> "other", leads |-> Null]

Init ==
    /\ s_next = Null /\ s_next_destroy = Null
    /\ s_connected = FALSE
    /\ s_handle_counter = FirstHandle
    /\ pc = [t \in Threads |-> "idle"]
    /\ target = [t \in Threads |-> Null]
    /\ request = [t \in Threads |-> NoRequest]
    /\ answer = NoAnswer
    /\ told = 0
    /\ held = [t \in Threads |-> {}]
    /\ madeBy = [i \in Instances |-> Null]
    /\ served = [i \in Instances |-> FALSE]
    /\ looked = NoLookup
    /\ failed = FALSE
    /\ orderly = TRUE

(***************************************************************************)
(* Helpers.                                                                *)
(***************************************************************************)
Live    == {i \in Instances : madeBy[i] # Null}
Changing == {t \in Threads : pc[t] \in {"create", "destroy"}}

(* The application may call the layer: the loader has loaded it.           *)
MayCall(t) == pc[t] = "idle" /\ s_next # Null

Requires(rule) == orderly' = (orderly /\ rule)

(***************************************************************************)
(* xrNegotiateLoaderApiLayerInterface().                                   *)
(***************************************************************************)

(* Mutant: a negotiation that is refused has dropped the chain before.     *)
CaptureOrClear(c) == s_next' \in {c, Null} /\ s_next_destroy' = s_next'

(* Without an instance OpenXR resolves xrCreateInstance and the            *)
(* enumerations only.  The four globals are written in one step: a call    *)
(* sees the old chain or the new one, never a mixture.                     *)
Capture(c) ==
    /\ s_next' = c
    /\ s_next_destroy' = IF GlobalOnly THEN Null ELSE c

Negotiate(c) ==
    /\ Requires(Live = {} /\ Changing = {})
    /\ Capture(c)
    /\ told' = 0
    /\ request' = [t \in Threads |-> [request[t] EXCEPT !.promised = FALSE]]
    /\ UNCHANGED <<s_connected, stubs, pc, target, answer, life, looked>>

(***************************************************************************)
(* layer_xrCreateInstance() and layer_xrDestroyInstance().                 *)
(***************************************************************************)

(* ipc_bridge_init(): the host may be there or not; a bridge there is stays.*)
CreateInstance(t) ==
    /\ MayCall(t)
    /\ Requires(Changing = {})
    /\ s_connected' \in {s_connected, TRUE}
    /\ pc' = [pc EXCEPT ![t] = "create"]
    /\ UNCHANGED <<chain, stubs, target, listing, life, looked>>

NextCreates(t) ==
    /\ pc[t] = "create"
    /\ Requires(Live = {})
    /\ \E i \in Instances \ Live :
          /\ madeBy' = [madeBy EXCEPT ![i] = s_next]
          /\ served' = [served EXCEPT ![i] = s_connected]
    /\ failed' = FALSE
    /\ pc' = [pc EXCEPT ![t] = "idle"]
    /\ UNCHANGED <<chain, s_connected, stubs, target, listing, looked>>

(* Mutant: the bridge is shut down again, for all.                         *)
CreateFailsShuts(t) ==
    /\ pc[t] = "create"
    /\ failed' = TRUE
    /\ s_connected' = FALSE
    /\ pc' = [pc EXCEPT ![t] = "idle"]
    /\ UNCHANGED <<chain, stubs, target, listing, madeBy, served, looked, orderly>>

(* The bridge stays as it is.                                              *)
NextCreateFails(t) ==
    /\ pc[t] = "create"
    /\ failed' = TRUE
    /\ pc' = [pc EXCEPT ![t] = "idle"]
    /\ UNCHANGED <<chain, s_connected, stubs, target, listing, madeBy, served,
                   looked, orderly>>

(* Mutant: the bridge is left connected.                                   *)
BridgeKept == UNCHANGED s_connected

(* ipc_bridge_shutdown(): always, whoever else uses the bridge.            *)
BridgeShutdown == s_connected' = FALSE

DestroyInstance(t) ==
    /\ MayCall(t)
    /\ BridgeShutdown
    /\ \E i \in Instances :
          /\ Requires(i \in Live /\ Changing = {})
          /\ target' = [target EXCEPT ![t] = i]
    /\ pc' = [pc EXCEPT ![t] = "destroy"]
    /\ UNCHANGED <<chain, stubs, listing, life, looked>>

(* A call through NULL is the end of the process.  A chain destroys what   *)
(* it made and refuses the rest.                                           *)
NextDestroys(t) ==
    /\ pc[t] = "destroy"
    /\ s_next_destroy # Null
    /\ IF madeBy[target[t]] = s_next_destroy
       THEN /\ madeBy' = [madeBy EXCEPT ![target[t]] = Null]
            /\ served' = [served EXCEPT ![target[t]] = FALSE]
            /\ looked' = IF looked.instance = target[t] THEN NoLookup ELSE looked
       ELSE UNCHANGED <<madeBy, served, looked>>
    /\ pc' = [pc EXCEPT ![t] = "idle"]
    /\ target' = [target EXCEPT ![t] = Null]
    /\ UNCHANGED <<chain, s_connected, stubs, listing, failed, orderly>>

(***************************************************************************)
(* layer_xrEnumerateInstanceExtensionProperties().                         *)
(***************************************************************************)
RealCount == Cardinality(Offered[s_next])
Total     == RealCount + Cardinality(MetaExtensions)

(* The application's call with an array of n; is n the size it was told?   *)
Request(n) == [capacity |-> n, real |-> RealCount, promised |-> told # 0 /\ n >= told]

Answer(result, asked, count, names) ==
    [result |-> result, capacity |-> asked.capacity, promised |-> asked.promised,
     count |-> count, names |-> names]

(* The first call of the next chain, for the count, and what follows from  *)
(* it: the count alone, too small an array, or the second call.            *)
Enumerate(t) ==
    /\ MayCall(t)
    /\ \E n \in Capacities :
          IF n # 0 /\ n >= Total
          THEN /\ pc' = [pc EXCEPT ![t] = "fetch"]
               /\ request' = [request EXCEPT ![t] = Request(n)]
               /\ UNCHANGED answer
          ELSE /\ answer' = Answer(IF n = 0 THEN "SUCCESS" ELSE "SIZE_INSUFFICIENT",
                                   Request(n), Total, {})
               /\ UNCHANGED <<pc, request>>
    /\ told' = Total
    /\ UNCHANGED <<chain, s_connected, stubs, target, life, looked, orderly>>

(* Mutant: what the chain has itself is appended again.                    *)
AppendedUnchecked == MetaExtensions

(* The names the layer adds to what the chain wrote.                       *)
Appended == MetaExtensions \ Offered[s_next]

(* Mutants: the second call may fill the whole array, or one name too few. *)
RoomInArray(t) == request[t].capacity
RoomShort(t)   == request[t].real - 1

(* How many names the second call may write.                               *)
Room(t) == request[t].real

(* The second call, of a chain that may be another one by now, and the     *)
(* Meta names appended.  If that one has more names than the first counted,*)
(* the application keeps the total of the first.                           *)
Fetch(t) ==
    /\ pc[t] = "fetch"
    /\ answer' = IF RealCount > Room(t)
                 THEN Answer("SIZE_INSUFFICIENT", request[t],
                             request[t].real + Cardinality(MetaExtensions), {})
                 ELSE Answer("SUCCESS", request[t], RealCount + Cardinality(Appended),
                             Offered[s_next] \cup Appended)
    /\ pc' = [pc EXCEPT ![t] = "idle"]
    /\ request' = [request EXCEPT ![t] = NoRequest]
    /\ UNCHANGED <<chain, s_connected, stubs, target, told, life, looked, orderly>>

(* The second call fails for a reason of the chain's own.  (When the first *)
(* does, nothing has happened yet.)                                        *)
FetchFails(t) ==
    /\ pc[t] = "fetch"
    /\ answer' = NoAnswer
    /\ pc' = [pc EXCEPT ![t] = "idle"]
    /\ request' = [request EXCEPT ![t] = NoRequest]
    /\ UNCHANGED <<chain, s_connected, stubs, target, told, life, looked, orderly>>

(***************************************************************************)
(* layer_xrGetInstanceProcAddr() and xrMetaExtLoadDispatchTable().         *)
(***************************************************************************)

(* Mutant: xrDestroyInstance and the like are not intercepted.             *)
ResolveMetaOnly(f) == IF f = "meta" THEN "layer" ELSE s_next

Resolve(f) == IF f \in {"meta", "intercepted"} THEN "layer" ELSE s_next

GetInstanceProcAddr(t) ==
    /\ MayCall(t)
    /\ \E i \in Live, f \in Functions :
          looked' = [instance |-> i, function |-> f, leads |-> Resolve(f)]
    /\ UNCHANGED <<chain, s_connected, stubs, pc, target, listing, life, orderly>>

(* Mutant: what the loader does not know stays NULL.                       *)
LoadedBare(found) == found

(* One entry of the table: the loader's answer, or the layer's own stub.   *)
Loaded(found) == IF found = Null THEN "layer" ELSE found

(* The program may be linked with the stubs and load its table without the *)
(* layer, or for an instance that never was; the loader does not know a    *)
(* function whose extension was not enabled.                               *)
LoadDispatchTable(t) ==
    /\ pc[t] = "idle"
    /\ \E i \in Live \cup {Null} :
       \E found \in IF i = Null THEN {Null} ELSE {Null, Resolve("meta")} :
          looked' = [instance |-> i, function |-> "meta", leads |-> Loaded(found)]
    /\ UNCHANGED <<chain, s_connected, stubs, pc, target, listing, life, orderly>>

(***************************************************************************)
(* The stubs that give out a handle, or the id of a request.               *)
(***************************************************************************)

(* Mutant: the counter is read and written in two steps, and another       *)
(* thread's increment is lost.                                             *)
AllocTorn == s_handle_counter' \in {s_handle_counter, s_handle_counter + 1}

AllocStubHandle == s_handle_counter' = s_handle_counter + 1

Give(t) ==
    /\ pc[t] = "idle"
    /\ s_handle_counter < FirstHandle + MaxHandles
    /\ AllocStubHandle
    /\ held' = [held EXCEPT ![t] = @ \cup {s_handle_counter}]
    /\ UNCHANGED <<chain, s_connected, pc, target, listing, life, looked, orderly>>

(* A foveation profile, a passthrough or a layer of one.                   *)
CreateStubObject(t) == Give(t)

(* The layer keeps nothing of an object; it is the application's to forget.*)
DestroyStubObject(t) ==
    /\ pc[t] = "idle"
    /\ \E h \in held[t] : held' = [held EXCEPT ![t] = @ \ {h}]
    /\ UNCHANGED <<chain, s_connected, s_handle_counter, pc, target, listing, life,
                   looked, orderly>>

(* The id of a request for an anchor, or for a component's status: no      *)
(* event ever completes the one, and the other is refused.                 *)
RequestStub(t) == Give(t)

(***************************************************************************)
(* The specification.                                                      *)
(***************************************************************************)
Call(t) ==
    \/ CreateInstance(t) \/ NextCreates(t) \/ NextCreateFails(t)
    \/ DestroyInstance(t) \/ NextDestroys(t)
    \/ Enumerate(t) \/ Fetch(t) \/ FetchFails(t)
    \/ GetInstanceProcAddr(t) \/ LoadDispatchTable(t)
    \/ CreateStubObject(t) \/ DestroyStubObject(t) \/ RequestStub(t)

Next == (\E c \in Chains : Negotiate(c)) \/ (\E t \in Threads : Call(t))

Spec == Init /\ [][Next]_vars

(***************************************************************************)
(* Properties.                                                             *)
(***************************************************************************)
Requests == [capacity : Nat, real : Nat, promised : BOOLEAN]
Answers  == [result : {"NONE", "SUCCESS", "SIZE_INSUFFICIENT"}, capacity : Nat,
             promised : BOOLEAN, count : Nat, names : SUBSET Names]

(* The variables have their types; a thread in a call has what it needs.   *)
TypeOK ==
    /\ s_next \in Chains \cup {Null} /\ s_next_destroy \in Chains \cup {Null}
    /\ s_connected \in BOOLEAN
    /\ s_handle_counter \in Nat
    /\ pc \in [Threads -> {"idle", "create", "destroy", "fetch"}]
    /\ target \in [Threads -> Instances \cup {Null}]
    /\ request \in [Threads -> Requests]
    /\ answer \in Answers
    /\ told \in Nat
    /\ held \in [Threads -> SUBSET Nat]
    /\ madeBy \in [Instances -> Chains \cup {Null}]
    /\ served \in [Instances -> BOOLEAN]
    /\ looked \in [instance : Instances \cup {Null}, function : Functions,
                   leads : Chains \cup {Null, "layer"}]
    /\ failed \in BOOLEAN /\ orderly \in BOOLEAN
    /\ \A t \in Threads : pc[t] # "idle" => s_next # Null
    /\ \A t \in Threads : pc[t] = "destroy" => target[t] # Null

(* The last enumeration filled the application's array.                    *)
Filled == answer.result = "SUCCESS" /\ answer.capacity # 0

(* The array is never written beyond its end, even when a negotiation      *)
(* between the two calls of the next chain makes the list longer           *)
(* (layer_main.c 67-97).                                                   *)
ListFits == Filled => answer.count <= answer.capacity

(* A filled array has every Meta extension and what one chain listed, and  *)
(* nothing twice, whichever Meta extensions the chain has itself           *)
(* (layer_main.c 76-99).                                                   *)
ListExact ==
    Filled =>
        /\ answer.count = Cardinality(answer.names)
        /\ \E c \in Chains : answer.names = Offered[c] \cup MetaExtensions

(* The two-call idiom works: an array of the size told for this chain is   *)
(* large enough (layer_main.c 60-71).                                      *)
IdiomWorks == answer.promised => answer.result # "SIZE_INSUFFICIENT"

(* In order, what an instance's calls are passed on to is the chain that   *)
(* made the instance: those of the layer's globals, and those of functions *)
(* looked up before.  What the layer intercepts goes through it, and a     *)
(* Meta function always, whatever the loader knows of it (layer_main.c     *)
(* 337-356 and 389-400, meta_ext_stubs.c 561-564).                         *)
OwnChain ==
    /\ orderly =>
         /\ \A i \in Live : madeBy[i] = s_next
         /\ looked.instance \in Live =>
              looked.leads = IF looked.function = "other" THEN madeBy[looked.instance]
                                                          ELSE "layer"
    /\ looked.function = "meta" => looked.leads = "layer"

(* In order, an instance that had the host when it was made has it until   *)
(* its own destruction begins, also when the creation of another one is    *)
(* refused meanwhile (layer_main.c 112-116, 126).                          *)
InstanceKeepsHost ==
    orderly =>
        \A i \in Live :
            served[i] /\ (\A t \in Threads : target[t] # i) => s_connected

(* In order, and but for a creation that failed last, the bridge is        *)
(* connected only for an instance there is or that is being made           *)
(* (layer_main.c 112, 126).                                                *)
BridgeReleased ==
    orderly /\ s_connected =>
        failed \/ Live # {} \/ \E t \in Threads : pc[t] = "create"

(* No stub handle is held twice, none is NULL, and the next one is none of *)
(* those still held (meta_ext_stubs.c 93-97).                              *)
HandlesUnique ==
    /\ \A t, u \in Threads : t # u => held[t] \cap held[u] = {}
    /\ \A t \in Threads : 0 \notin held[t] /\ s_handle_counter \notin held[t]

(***************************************************************************)
(* A property the documentation states and the code does not have.         *)
(***************************************************************************)

(* With the layer applications "run inside Waydroid without crashing"      *)
(* (openxr_layer_manifest.json:8): called in order, it calls no function    *)
(* through NULL.                                                           *)
NoCallThroughNull ==
    orderly => \A t \in Threads : pc[t] = "destroy" => s_next_destroy # Null
=============================================================================
