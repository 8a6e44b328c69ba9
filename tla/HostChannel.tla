----------------------------- MODULE HostChannel -----------------------------
(***************************************************************************)
(* One connection over host.sock, as either side may rely on it: requests  *)
(* are answered in the order they were sent, each at most once and by the  *)
(* reply src/src/ipc_bridge.h 102-118 pairs with its type, until one of    *)
(* the two ends is closed; a closed connection is never answered on again. *)
(* The guest's bridge (src/src/ipc_bridge.c) is one side, the host's       *)
(* server (src/host/src/ipc_server.c) the other.                           *)
(***************************************************************************)
EXTENDS Sequences

VARIABLES
    client,         \* is the guest's end open?
    host,           \* is the host's end open, or waiting to be accepted?
    c2s,            \* types of the requests in flight
    s2c             \* types of the replies in flight

vars == <<client, host, c2s, s2c>>

(* What answers a request; a request that is not here is never answered.   *)
ReplyTo == [PING                    |-> "PONG",
            QUERY_CAPS              |-> "CAPS_RESPONSE",
            ENUMERATE_REFRESH_RATES |-> "ENUMERATE_REFRESH_RATES_RESP",
            GET_REFRESH_RATE        |-> "GET_REFRESH_RATE_RESP",
            REQUEST_REFRESH_RATE    |-> "REQUEST_REFRESH_RATE_RESP",
            SWAPCHAIN_FRAME_END     |-> "SWAPCHAIN_FRAME_RESP"]

(* Requests the protocol names and no host answers.                        *)
Unanswered == {"GET_HAND_MESH", "SWAPCHAIN_FRAME_BEGIN"}

Init == ~client /\ ~host /\ c2s = <<>> /\ s2c = <<>>

Connect ==
    /\ ~client /\ ~host
    /\ client' = TRUE /\ host' = TRUE
    /\ UNCHANGED <<c2s, s2c>>

Ask ==
    /\ client /\ host
    /\ \E q \in DOMAIN ReplyTo \cup Unanswered : c2s' = Append(c2s, q)
    /\ UNCHANGED <<client, host, s2c>>

(* The reply reaches nobody when the guest's end is closed.                *)
Answer ==
    /\ host
    /\ c2s # <<>> /\ Head(c2s) \in DOMAIN ReplyTo
    /\ c2s' = Tail(c2s)
    /\ s2c' = IF client THEN Append(s2c, ReplyTo[Head(c2s)]) ELSE s2c
    /\ UNCHANGED <<client, host>>

Read ==
    /\ client
    /\ s2c # <<>>
    /\ s2c' = Tail(s2c)
    /\ UNCHANGED <<client, host, c2s>>

(* One end is closed or both are; what was not read is lost with the end   *)
(* that would have read it.                                                *)
Close ==
    /\ <<client', host'>> \in ({client, FALSE} \X {host, FALSE}) \ {<<client, host>>}
    /\ s2c' = IF client' THEN s2c ELSE <<>>
    /\ c2s' = IF host' THEN c2s ELSE <<>>

Next == Connect \/ Ask \/ Answer \/ Read \/ Close

Spec == Init /\ [][Next]_vars
=============================================================================
