----------------------------- MODULE RemoteCall -----------------------------
(***************************************************************************)
(* What the bridge promises the application's threads: a forwarded call is *)
(* a remote procedure call.  The host serves it at most once, between its  *)
(* invocation and its return and never while it serves another; the call   *)
(* succeeds exactly when the host served it; otherwise it gives up without *)
(* having been served, or the stub answered it and the host never heard of *)
(* it.  (The outcomes are those of src/src/ipc_bridge.c 208-299 and of the *)
(* entry points of src/src/meta_ext_stubs.c.)                              *)
(***************************************************************************)
CONSTANT Threads

VARIABLES
    phase,          \* "idle", "pending" or "served", for each thread
    result          \* how each thread's last call ended

vars == <<phase, result>>

GivenUp == {"failure", "ignored", "unsupported"}

Init ==
    /\ phase = [t \in Threads |-> "idle"]
    /\ result = [t \in Threads |-> "none"]

Moves(t, from, to) == phase[t] = from /\ phase' = [phase EXCEPT ![t] = to]

Invoke(t) == Moves(t, "idle", "pending") /\ result' = [result EXCEPT ![t] = "none"]

Stub(t) ==
    /\ phase[t] = "idle"
    /\ result' = [result EXCEPT ![t] = "stub"]
    /\ UNCHANGED phase

Serve(t) ==
    /\ \A u \in Threads : phase[u] # "served"
    /\ Moves(t, "pending", "served")
    /\ UNCHANGED result

Succeed(t) == Moves(t, "served", "idle") /\ result' = [result EXCEPT ![t] = "success"]

GiveUp(t) ==
    /\ Moves(t, "pending", "idle")
    /\ \E r \in GivenUp : result' = [result EXCEPT ![t] = r]

Next == \E t \in Threads : Invoke(t) \/ Stub(t) \/ Serve(t) \/ Succeed(t) \/ GiveUp(t)

Spec == Init /\ [][Next]_vars
=============================================================================
