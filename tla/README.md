# TLA+ models of Waydroid XR stubs

Waydroid XR lets an Android OpenXR application inside a Waydroid container use
the host's OpenXR runtime. The repository has two programs, which meet at a UNIX
stream socket, `host.sock`:

* in the **guest**, an OpenXR API layer (`src/src/`) that advertises Meta
  extensions, answers them with stubs, and forwards some of them to the host
  when a host server is running;
* on the **host**, a server (`src/host/src/`) that answers those requests with
  the help of the host's OpenXR runtime.

This directory holds TLA+ modules of both sides, the TLC configurations that
check them on small instances, and TLAPS proofs of the main invariants for every
value of the constants. `PROJECT.json` maps each definition to the lines it models.

## 1. Inventory

| Component | State | Operations | Talks to |
|---|---|---|---|
| **API layer** `src/layer_main.c` | the functions of the next chain (globals, set by each negotiation) | negotiation, `layer_xrCreateInstance` / `_DestroyInstance` (open and close the bridge), extension enumeration, `xrGetInstanceProcAddr` | loader (callbacks), bridge (calls) |
| **Stubs** `src/meta_ext_stubs.c` | `s_handle_counter`, the source of stub handles; the static list of Meta extensions | some forty entry points; four may forward, the others return constants | bridge (reads `s_connected` without the lock, then calls) |
| **IPC bridge** `src/ipc_bridge.c` | `s_lock`, `s_sockfd`, `s_connected`, `s_seq`, `s_caps` | `ipc_bridge_init` (connect, PING/PONG, QUERY_CAPS), `_shutdown`, `_is_connected`, `_supports_hand_mesh`, three forwarded calls and `_GetHandMesh` | server (messages) |
| **Server process** `host/src/waydroid_xr_server.c` | `g_should_stop` | `main`, `signal_handler`: create, start the listener thread, wait for a signal, stop, join, destroy | IPC server (calls, a thread, a flag) |
| **IPC server** `host/src/ipc_server.c` | the listening socket and its file, `should_stop`, one client, the OpenXR host | create / listen / stop / destroy, two listener bodies, six message handlers | guests (messages), OpenXR host (calls) |
| **OpenXR host** `host/src/openxr_host.c` | instance, session, space, fence, up to two layers, frame count | init / shutdown, create / destroy session, begin frame, submit layer, end frame, refresh-rate queries | the OpenXR runtime |
| **GPU sync** `host/src/gpu_sync.c` | fences (a flag under a mutex), process-wide frame pacing | fence create / wait / reset / destroy, pacing init / update | used by the OpenXR host |
| **Graphics binding** `host/src/graphics_binding.c` | `g_graphics`, process-wide: available APIs, the selected one, EGL display and context | detect, init EGL or Vulkan, shutdown | used by the OpenXR host; EGL |
| **DMA-BUF import** `host/src/dma_buf_import.c` | none kept: an imported buffer and its descriptor | import by EGL, GL or Vulkan, release | nothing calls it with a buffer yet |

What is hard here:

* **threads in the guest**: the application calls from any thread; the test of
  `s_connected` is outside the lock, one socket is shared, and nothing in a reply
  says whose it is;
* **failure of the other side**: the server may be absent, die in the middle of a
  handshake or a call, and come back; a `recv()` may be interrupted;
* **threads in the server**: signal handler, `main()` and the listener thread meet
  at two flags and at the memory `main()` frees;
* **liveness**: blocking reads without a timeout on both sides, one client at a
  time, a backlog of one, a stop that does not wake a blocked read;
* **call order in the host**: frames and sessions are a protocol nobody enforces;
  a session's graphics are global and outlive it when its creation fails;
* **the loader**: it may negotiate again and so replace the chain under instances
  and functions already given out, also between two calls of one function;
* **other server processes**: each takes the socket file, whoever it belongs to.

What makes each component correct:

* bridge: one conversation at a time on the socket; a call returns its own
  reply; descriptors do not leak on any failure; capabilities are there before
  anyone sees `s_connected`; the socket is not closed under a reader; the lock
  is always released; a forwarded call is a remote procedure call;
* server: requests answered in order, once, until the connection ends; no
  connection lost or closed twice; the memory outlives the listener; a stop ends
  the process; who connects is accepted; replies tell the truth;
* OpenXR host: handles are created and destroyed in pairs; frames are waited for,
  begun and ended in order; at most two layers, all of the current frame;
* GPU sync: a wait ends by a signal or the timeout; pacing counts late frames;
* graphics: no context is left without a display to release it by; the selected
  API is that of the session there is;
* API layer: the list of extensions fits, is complete and has nothing twice; a
  call reaches the chain that made its instance; the bridge lives as long as the
  instance that opened it; stub handles are distinct.

The full list of hazards, each at its line and with the properties aimed at
it, is `hazards` in `PROJECT.json`.

## 2. Modules

| Module | What it is |
|---|---|
| `HostChannel` | abstract: one connection, as either side may rely on it |
| `RemoteCall` | abstract: what the bridge promises a thread that makes a forwarded call |
| `IpcBridge` | the guest's bridge with its callers, any number of threads; the host is its environment |
| `IpcServer` | the host's server process; the guests are its environment |
| `FrameStream` | abstract: what the OpenXR host promises who composes frames |
| `FramePacing` | the frame pacing of `gpu_sync.c`, with the clock |
| `OxrHost` | the OpenXR host, with `FramePacing`; the OpenXR runtime and the callers are its environment |
| `HostGraphics` | `OxrHost` composed with the graphics binding; EGL is its environment |
| `ApiLayer` | the guest's API layer and the stubs' handles and dispatch table; the loader, the application's threads and the next chains are its environment |
| `MessageTypes` | the types of the messages of a stream, which is what `HostChannel` sees of it, with lemmas on them |
| `MCIpcBridge`, `MCIpcServer`, `MCOxrHost`, `MCApiLayer` | symmetry, messages and lists of extensions for TLC |
| `IpcBridge_proofs`, `IpcServer_proofs`, `OxrHost_proofs`, `HostGraphics_proofs`, `ApiLayer_proofs` | TLAPS proofs of invariants and action properties |
| `IpcBridge_refinement`, `IpcServer_refinement` | TLAPS proofs that the bridge implements `HostChannel` and `RemoteCall`, and the server `HostChannel` |

**How they compose.** `IpcBridge` assumes a host, `IpcServer` assumes guests.
`HostChannel` is the contract between them, and each is shown to implement it
with its assumed other half: every step of the bridge and of the host it assumes
is a step of `HostChannel`, and so is every step the server and its guests make
on one connection. The one thing the bridge's liveness assumes beyond that
contract, that a live host answers, is what the program as built does not give
(run `never_accepts`). `OxrHost` sits behind the server: `IpcServer` keeps of it
only whether it exists and has a session (`oxr_host`), which decides what the
handlers answer. Its calls never overlap, for `main()` makes the first and the last
and the listener those between (theorem `ServerOutlivesListener`). `HostGraphics` adds the
graphics binding to every step of `OxrHost` that touches it and is shown to
implement `OxrHost`. `ApiLayer` sits in front of `IpcBridge`, of which it keeps
whether it is connected: `IpcBridge` has the threads that meet in the bridge,
`ApiLayer` the instances that open and close it.

### IpcBridge

`lock`, `s_sockfd`, `s_connected`, `s_seq` and `s_caps` are the variables of the
same names; `open` is the set of descriptors the bridge has open; `pc`, `call` and
`ret` are each thread's place, current call and outcome; `peer`, `c2s`, `s2c` are
the connection; `interrupted` is a history of it.

| Code | Actions |
|---|---|
| `layer_xrCreateInstance`, `_DestroyInstance` enter the bridge | `CallLifecycle` |
| the four entry points of the stubs, with their unlocked tests | `CallEntryPoint` (forward, or answer from the stub at once) |
| `pthread_mutex_lock` | `Acquire` |
| `ipc_bridge_init` | `InitAlreadyConnected`, `InitNoConnection`, `InitConnect`, `InitSendPing`, `InitRecvPong`, `InitSendQueryCaps`, `InitRecvCaps`, `InitConnected`, and on every failure `InitSendFails`, `InitRecvFails`, `InterruptInit`, all through `InitFail` (the label `fail:`) |
| `ipc_bridge_shutdown` | `Shutdown` |
| the three forwarded calls | `ForwardDisconnected`, `ForwardSend`, `ForwardRecv`, `ForwardRecvFails`, `InterruptForward` |
| `ipc_bridge_GetHandMesh` | `HandMesh` |
| the host, assumed | `HostAnswers`, `HostStarts`, `HostDies` |

Abstractions. A message is one unit: it is written by one caller under the lock
and read by one. No branch of the bridge depends on a payload except on
`supports_hand_mesh`, so payloads are left out but for that bit. `recv_msg()`
checks magic and length, never `seq`; a reply therefore carries, as a history
the code cannot see, which request it answers. A reading cut short
leaves the reply whole or `TORN` (its next header has no magic); what is left of a
torn one may take several reads or reach into the next reply (`Misread`). `s_caps`
and `s_connected` are written in two steps, and the unlocked reads of them are
ordered by nothing: who sees the connection may see any earlier value of
`s_caps`. A message is sent whole and at once, as the few bytes under way leave
room in the socket's buffer; a `connect()` or `recv()` that waits is a step that comes
late. Other steps only the lock's owner can observe are merged.
`s_seq` counts modulo `SeqMod`.

### IpcServer

Variables have the names of the code's (`client` is `client.sd`); `main` and
`listener` are program counters; `path`, `listening` and `queue` are the socket
file, the listening socket and its backlog; `hostEnd`, `guestEnd`, `c2s` and
`s2c` are the connections; `late` counts messages handled after a stop; `robbed`
remembers that another process has touched the socket file since it was bound.

| Code | Actions |
|---|---|
| `ipc_server_create` | `CreateBind`, `CreateListen`, `CreateHost`, with their failures |
| `main` | `Start`, `Spawn`, `SpawnFails`, `SeeSignal`, `Stop`, `Join`, `Destroy` |
| `signal_handler`, process death | `Signal`, `Crash` |
| `ipc_server_listen` | `ListenReset`, `ListenReturns` |
| `server_listen_thread` | `LoopTop`, `NobodyAccepted`, `Accept`, `ServeOn`, `CloseClient` |
| `handle_client_message` and handlers | `HandleMessage`, `GuestLeft` |
| the guests, assumed | `Connect`, `Send`, `Receive`, `Leave` |
| another server process, which binds or removes the same path | `Rival` |

The thread that `main()` starts runs `ipc_server_listen()`, which clears
`should_stop` and sleeps until it is set again. The accept loop is
`server_listen_thread()`, in the same file; nothing calls it. Both are modelled,
and the constant `Listener` says which one the thread runs: the program as
built, or the program as its documentation describes it.

Abstractions. As for the bridge, a message is one unit; of a payload only its
being too short is kept, of a reply only whether it carries an answer or an error
and whether the thing asked for was done. `recv_msg_with_fds()` and
`ipc_server_submit_frame()` have no callers and change no state. Of another server
process there is only what it does to the file. Closing an end discards what was
unread there.

### FramePacing, OxrHost and HostGraphics

`host` is `OxrHostState`, a record; a host that is `NULL` is `Absent`. `layers[]` and
`layer_count` are one sequence, as the code never reads beyond the count.
`instances`, `sessions`, `spaces`, `fences` and `begun` are what is live in the
runtime and on the heap; every runtime call may fail. `shown` is the last frame
the runtime accepted. `g_frame_pace` and `now` are the pacing and its clock.

| Code | Actions |
|---|---|
| `oxr_host_init` | `InitHostFails`, `InitHost` (with `xrGetSystem` failing or not) |
| `oxr_host_shutdown` | `Shutdown` |
| `oxr_host_create_session` | `CreateSessionRefused`, `CreateSessionFails` (a session without a space), `CreateSession`, which also resets the pacing |
| `oxr_host_destroy_session` | `DestroySession` |
| `oxr_host_begin_frame` | `BeginFrameFails`, `BeginFrame`, both with `PacingUpdate` |
| `oxr_host_submit_layer`, `_end_frame` | `SubmitLayer`, `EndFrameFails`, `EndFrame` |
| `gpu_frame_pacing_init`, `_update` | `PacingReset`, `PacingUpdate` (`FirstFrame`, `LateFrame`, `FrameInTime`) |

In the program nobody creates a session or begins a frame yet, so the callers are
free to call anything in any order. `orderly` remembers whether they kept three
rules: layers only in a frame that has begun (`openxr_host.h:67-72`), ends only of
such a frame, and no second creation of a session before the first, successful or
not, was destroyed. The code states the first rule only; the model shows that the
third is needed: without it, a creation that failed after `xrCreateSession()` and
is tried again leaves a session nobody will destroy. `HandlesLive` and
`FramesSpaced` need no rule.

Abstractions. A layer is its space and a member of `Quads`; the runtime follows
OpenXR in that a session takes its spaces with it and `xrEndFrame` needs a frame
that has begun. It is more permissive than OpenXR in that it accepts frames although the
host never calls `xrBeginSession()` and submits layers with a NULL swapchain
(`create_swapchain()` creates nothing): a conforming runtime would refuse those
frames. That is safe for what is claimed, as every property here is a safety
property and a runtime that refuses more has fewer behaviours. Time is counted in
a unit that makes the interval `Interval`. The pacing is about recorded
deadlines: `begin_frame()` does not wait for them, so `FramesSpaced` does not say when
frames are shown.

`HostGraphics` adds `g_graphics` (a record), `contexts` (the live contexts of EGL), and
two histories: `bound`, the API the session was made with, and `tidy`, whether
callers have always destroyed what they failed to create before they went on or
shut the host down.

| Code | Actions |
|---|---|
| `graphics_binding_detect_available` | `DetectAvailable` |
| `egl_setup`, `graphics_binding_init_egl`, `_init_vulkan`, and their order in `create_session` | `BindGraphics` (`EglSetup`, `EglFails`, `EglNotUsed`) |
| `graphics_binding_shutdown` | `GraphicsShutdown` |
| `oxr_host_create_session`, `_destroy_session`, `_shutdown` | `GCreateSession`, `GDestroySession`, `GShutdown`: the actions of `OxrHost` and the graphics in one step |

There is one EGL display. `egl_setup()` that fails after `eglInitialize()` terminates
it, and with it the context an earlier, failed creation of a session left behind:
`g_graphics` then names a context that is gone, which is why `GraphicsAccounted` is
about tidy callers. `ContextsReleasable` is about all: the recorded context may be
dead only when none is left alive, for the next `egl_setup()` that succeeds replaces it,
and as long as one lives its display is known. Nothing calls
`graphics_binding_detect_available()`, neither the program nor its test, so as built the
EGL and Vulkan branches are unreachable and every session is headless; the model
lets anyone detect at any time.

### ApiLayer

`s_next` is the chain behind `s_next_xrGetInstanceProcAddr`, `_xrCreateInstance` and
`_xrEnumerateInstanceExtensionProperties`, `s_next_destroy` that behind
`s_next_xrDestroyInstance`; `s_connected` is the bridge's flag, `s_handle_counter` the
stubs' counter. `pc`, `target` and `request` are the threads' places and local
variables, `madeBy` the live instances, `held` the stub handles in use, `looked` a
function given out; the rest are histories.

| Code | Actions |
|---|---|
| `xrNegotiateLoaderApiLayerInterface` | `Negotiate` |
| `layer_xrCreateInstance`, up to and after the next chain's answer | `CreateInstance`, then `NextCreates` or `NextCreateFails` |
| `layer_xrDestroyInstance` | `DestroyInstance`, `NextDestroys` |
| `layer_xrEnumerateInstanceExtensionProperties`, up to and after its second call of the next chain | `Enumerate`, then `Fetch` or `FetchFails` |
| `layer_xrGetInstanceProcAddr` | `GetInstanceProcAddr` |
| `xrMetaExtLoadDispatchTable` | `LoadDispatchTable` |
| stubs that create, destroy, or give out the id of a request | `CreateStubObject`, `DestroyStubObject`, `RequestStub` |

A call is cut where it calls the next chain, since other threads and another
negotiation may come in between. A negotiation itself is one step: its four
assignments (`layer_main.c:389-400`) take no lock either, and a call that meets them
half way, with functions of two chains, is not modelled, as a loader negotiates
before it calls. `orderly` remembers whether loader and
application have had one instance at a time and negotiated only without one;
what the layer promises about instances it promises to them, for its globals
hold one chain and its bridge one connection. `GlobalOnly` says whether the next
chain resolves only global functions without an instance, as OpenXR has it.

Abstractions. An extension is its name; functions are of three kinds (Meta,
intercepted, others). Refused negotiations and stubs that return constants change
nothing. The 64-bit counter does not come around.

## 3. Runs

| Run | Question | Result |
|---|---|---|
| `bridge` | Do two threads that call, connect and shut down in any order, with a host that dies and returns and with interrupted reads, keep one conversation, account for descriptors, see capabilities first, never lose the socket while waiting and never wait for a reply that cannot come? Is an interrupt the only cause of a wrong reply, and is the connection a `HostChannel`, and a forwarded call a remote procedure call, up to an interrupted read and again on the next connection? | holds |
| `bridge_live` | Without interrupts: is the lock always released, on every path and failure, as long as a live host answers? | holds |
| `server` | With the accept loop: are connections accounted for, is the memory safe, is at most one message handled after a stop, is each connection a `HostChannel`, is a stop heeded unless a silent guest holds the thread, is every queued guest accepted if the one before leaves? | holds |
| `server_main` | As built, next to other server processes: is the memory safe, does a signal after the thread's first assignment end the process, is the server found under its path after any crash unless another process took the file, and does a clean exit leave none? | holds |
| `oxr_host` | The host with its graphics. Whatever fails and whatever is called: does the host never keep a dead handle, can every EGL context still be released, and are the deadlines recorded for frames an interval apart? To orderly callers: does nothing leak, is the selected API the session's, do frames and layers belong to the session, is what is shown what was submitted? | holds |
| `layer` | Whatever the loader negotiates and when: is the application's array never overrun, and is the list complete and without repetition? Does the two-call idiom work, are stub handles distinct? In order: do calls reach the chain that made the instance, and has the instance the host until it goes, and nobody after it? | holds |
| `replies_matched` | Are replies matched with requests by `seq`, as `README.md:140` says? | violated |
| `stubs_without_host` | Do stubs take over without a host, as `README.md:144` says? | violated |
| `lost_stop` | As built: does the listener return when told to stop, as `ipc_server.h:47` says? | violated |
| `never_accepts` | As built: are connections accepted, as `ipc_server.h:45` says? | violated |
| `frames_acknowledged` | Does a frame's response report errors, as `ipc_bridge.h:184` says? | violated |
| `layer_null_call` | Does the layer never call through NULL, so that applications run "without crashing" as `openxr_layer_manifest.json:8` says, if the next chain follows OpenXR? | violated |

**Bounds.** Two threads: every property of the bridge relates at most a holder
and one other thread, and the proofs cover any number. Two descriptors, so that a
leak is visible as a second open one. `SeqMod = 3` makes the counter wrap within
a run. `MaxBuffered = 2` bounds what interrupted reads, and nonsense read in pieces,
leave behind to two messages in flight: one stale reply is enough to shift every later
call by one, two to shift it twice.
Two connections and the code's backlog of 1 (Linux queues `Backlog + 1`, hence
`Len(queue) <= Backlog`): one served and one waiting, or two waiting.
A rival server is let in only in `server_main` (`Rivals`), whose question it is.
`MaxInFlight = 2` lets a guest send a request behind another, which shows that
nothing is answered after a handler failed. The messages the guests
send are one of each kind the server tells apart: answered, too short, unhandled.

For the OpenXR host two sessions, spaces and kinds of layers, so that a leaked
session and its successor can both be there and order shows. There is one instance
and one fence: when it is taken, a session gets none, as it does when
`gpu_fence_create()` has no memory. The machine has EGL and Vulkan, so that a session
gets either, and none before they are detected; a machine with only one of them is left to
the theorems. There are two EGL contexts, so that the recorded
one can be dead while another lives. The clock runs from 1 to 3 with an interval
of one, so that frames can be early, on time and late. `MaxFrames = 1` bounds the count of
frames a host has shown, not those begun: a frame that failed, or one of an
earlier session, can leave layers for the one that is shown.

For the API layer two threads; one instance, which is enough for a second creation
to be refused by the chain or to be out of order; two chains, of which one has a
longer list and one of the two Meta extensions itself, so that the list can grow
and shrink between two calls and have duplicates; arrays of the size of the
short list with the Meta names, of the long one, and none; two stub handles.

**Fairness.** For the bridge, weak fairness of the steps of the lock's owner
(a thread runs) and of `HostAnswers` (a live host answers). For the server, weak
fairness of `main()`'s and of the listener's steps (both threads are scheduled;
their waits are `sleep` loops and a `select` with a timeout) and strong fairness of
`Accept`: `NobodyAccepted` also stands for a failed `accept()`, which is assumed
not to fail for ever while somebody is queued. Nothing is assumed of guests and
signals. Mutual exclusion is not fair: no property says that a waiting thread gets
`s_lock`.

**Deadlock** is checked in every run.

## 4. Findings

1. *Replies are not matched with requests.* `recv_msg()` never reads `seq`, and the
   server always sends 0. After one interrupted `recv()` every later call returns
   the answer to the one before.
2. *Stubs do not come back.* Once connected, a bridge whose host has died fails
   every call; `s_connected` stays set, and nothing reconnects.
3. *A stop can be lost.* `ipc_server_listen()` clears `should_stop` when its thread
   first runs; a signal handled by `main()` before that is forgotten, and
   `pthread_join()` waits for ever.
4. *Nobody is accepted.* The thread `main()` starts has no accept loop; `connect()`
   succeeds through the backlog, and the guest waits for its PONG in
   `xrCreateInstance`, holding `s_lock`.
5. *Failed frames are acknowledged.* `handle_swapchain_frame_end()` answers error 0
   whatever `oxr_host_submit_layer()` returned.
6. *`xrDestroyInstance` may be a call through NULL.* The negotiation resolves it
   without an instance (`layer_main.c:395`); OpenXR answers NULL for functions that
   are not global, and the answer is not looked at before the call in line 127.

Seen while reading and not the subject of a run: `IMPLEMENTATION_COMPLETE.md:317`
speaks of worker threads per connection, there is one client at a time;
`ipc_server.h:32-36` says that create does not listen yet, it does;
`gpu_sync.h:39` says that a timeout of 0 waits for ever, `gpu_fence_wait` returns at
once, and nothing ever signals a fence; `oxr_host_init()` leaks its instance
when `xrGetSystem()` fails; `begin_frame()` ignores the time the pacing returns, so
against a runtime faster than 90 Hz the pacing's deadlines run ahead of the
clock and it stops counting late frames; `ipc_server_destroy()` removes the socket file
of a server started meanwhile, which then runs on where nobody finds it; with
two instances the first `xrDestroyInstance` disconnects the bridge for both, and a
creation the next chain refuses leaves it connected; `layer_xrCreateInstance` passes
the Meta extensions the application asked for on to a chain that does not know
them; `xrEnumerateDisplayRefreshRatesFB` and `xrEnumerateColorSpacesFB` return success
without filling an array that is too small; `oxr_host_shutdown()` after a creation that
failed leaves its EGL context.

## 5. Proofs

Every invariant, action property and refinement that a run finds to hold is also
proved with TLAPS, for any set of threads, descriptors and connections, any
`SeqMod`, any backlog and both listener bodies, from the `ASSUME`s of the modules
(a `NoThread` that is no thread, a `NoConn` that is no connection, natural
bounds, Booleans that are Booleans). A theorem that needs more of the constants
says so in its `ASSUME`: a value of `Listener` in two of the server.

*Bridge.* `IInv` is `TypeOK /\ Control /\ NoPeerNoRequests /\ Lockstep`. `Control`
says who holds the lock (exactly the threads between lock and unlock: at most
one), which call is at which place, and what the socket, `s_connected` and `open`
are at each place; without it, `DescriptorsAccounted` and `NoCloseInFlight` are
not inductive, as they speak only of the quiet states or of two states.
`Lockstep` needs `NoPeerNoRequests` (nothing is in flight to a closed end). From
`IInv` follow `TypeCorrect`, `OneConversation`, `NoDescriptorLeak`, `CapsFirst`, and
the action properties `OwnReply` and `SocketStable`.

*Bridge, refinements* (`IpcBridge_refinement`). `IInv` is not enough to see the
connection as a channel: a `Connect` of `HostChannel` needs to find both ends closed and both
streams empty. `Vacant` says so of a closed socket; it holds because every path
that gives a connection up goes through `close()` (theorem `FreshStart`: reconnecting heals
what an interrupt did). With `IInv /\ Vacant`, each action is one of five steps of the channel or
none (`StepConnect`, `StepAsk`, `StepRead`, `StepAnswer`, `StepClose`, then `ChannelStep` by cases);
the lemmas of `MessageTypes` say how `Append` and `Tail` look through the types of the messages.
For `RemoteCall` the mapping `Phase` makes a call *served* when its reply has
arrived for its holder, so the host's step is the call's `Serve`: that needs `Lockstep` (the request in
flight is the holder's) and `SilentOwner` (nothing is in flight before it is sent).
An interrupted read breaks both contracts, as finding 1 shows; therefore the theorems are about
steps. `ChannelKept` and `CallsKept`: every step that does not leave a connection
interrupted is a step of the abstract specification, so that without interrupts all are. `WaitsEnd` is the safety half of `LockReleased`, with interrupts and crashes: whoever waits
under the lock for a live host has a message in flight.

*Server.* `IInv` is `TypeOK /\ Control /\ ConnectionsAccounted /\ LateLast /\ SocketFileAccounted`.
`Control` is `NoUseAfterFree` strengthened by where the listener can be in each
phase of `main()`; without the phases a thread could be running while `main()` is
at `destroy`. `LateLast` says where the listener is after its one late message, so
that `StopServesAtMostOne` is preserved. The proof of `ConnectionsAccounted` rests
on two lemmas on queues without repetition, `Enqueue` and `Dequeue`. The theorems
are `TypeCorrect`, `ServerOutlivesListener`, `NoConnectionLost` and
`StopIsNearlyImmediate`. Two more say what the choice of the listener decides, by
small invariants of their own: `NobodyIsServed` (as `main()` starts it, the server never accepts and
never sends a reply: finding 4 for every instance) and `NoStopIsLost` (with the accept
loop, the thread that `main()` joins has been told to stop: finding 3 is due to
`ipc_server_listen()` alone).

*Server, refinement* (`IpcServer_refinement`). `ImplementsChannel` is about all connections at
once, so one step of the server is a step of each channel or none of it: a crash
closes all, a message is about `client` only. The channel's host is there from the
backlog until a handler gives the client up (`Serving`), which is before the socket is
closed: what a guest sends in between is not asked of anybody. `Vacated` is added to `IInv`:
closed ends hold nothing, and the listener is in `recv()` only for a client that is not
given up, without which `HandleMessage` could answer on a closed channel.
`ConnectionsAccounted` shows that `Accept` changes nothing for the channel and that
`ipc_server_destroy()` closes every host's end there is.

*OpenXR host.* `IInv` is the conjunction of the type invariant, `HandlesLive`,
`HandlesAccounted`, `FrameUsable` and two strengthenings: `Gone` (a host that is
not there left nothing) and `NothingLeft` (what callers in order find when they
make a session). Without `NothingLeft` the assignment of a new session could
overwrite one that is still live, which is exactly what happens to callers that
break the third rule. The theorems are `TypeCorrect`, `NoStaleHandle`,
`NothingLeaks`, `FramesOfTheSession`, `Spaced` (arithmetic, for every interval) and
the refinement `ComposesFrames`: a mapping lemma on sequences (`OneMoreQuad`) and
one case per action.

*Graphics.* `ImplementsHost` shows that `HostGraphics` implements `OxrHost`, so the host's
invariants and its refinement of `FrameStream` carry over (`NoStaleHandleG`, `NothingLeaksG`,
`ComposesFramesG`). `ContextsReleasable` is
inductive with the types of the binding: contexts die with their display, all at once, and
none is made without being recorded; `GraphicsAccounted` needs what the host's
variables say about `made`, and that a binding without a display has no context.

*API layer.* Three invariants that do not need each other. `ListInv`: between its two
calls a thread has room for what the first one counted and every Meta extension;
that is why the array is safe (`ArrayNotOverrun`) although the second list need not
be the first. The count itself is a lemma on cardinalities (`Counts`), from which
`ListIsExact` and `TwoCallIdiom` follow. `LifeInv`: in order, there is at most one
instance and one call in flight on it, and the bridge goes before the instance
does; it gives `CallsReachTheirChain`, `HostKept` and `HostReleased`. `HandleInv`: every
handle in use is below the counter (`HandlesAreUnique`).

*Server, socket file.* `SocketFileAccounted` is inductive by itself
(`FoundUnderThePath`).

*Model-checked only.* Liveness: `LockReleased`, `StopHeeded`, `LaterStopHeeded` and
`ConnectionsAccepted`. Their proofs need `ENABLED`, which is beyond the provers. Of the
first two the safety halves are proved (`WaitsEnd`, `NoStopIsLost`).

## 6. Not modelled, and why

* Stubs that return constants (`meta_ext_stubs.c` 154-183, 232-243, 261-278, 301-318,
  329-554): no state. `meta_ext_stubs.h` only declares.
* `gpu_fence_wait()`, `gpu_fence_is_signaled()`, `gpu_fence_reset()`: nothing calls them, and no
  function signals a fence, so a wait could only time out. The semaphores are empty.
* `dma_buf_import.c`: every import is a placeholder that fails, nothing calls one, and
  `dmabuf_init()` only caches an answer nobody reads. A model would be of code
  yet to be written.
* Message framing byte by byte, payload contents, logging.
* The test program, build files, scripts, Android packaging, vendored headers.

## 7. What is left

When the program begins to create sessions and to import buffers: the calls
of `HostGraphics` from the server's handlers, fences that are signalled, and
who owns a descriptor on each error path of `dma_buf_import.c`.
