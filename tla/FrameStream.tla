----------------------------- MODULE FrameStream -----------------------------
(***************************************************************************)
(* What the OpenXR host promises who composes frames with it               *)
(* (src/host/src/openxr_host.h 66-100): a frame is begun, layers are       *)
(* registered for it, two at most, and what the runtime is given to show   *)
(* at its end is those layers in that order and nothing else.              *)
(***************************************************************************)
EXTENDS Naturals, Sequences

CONSTANT Layers

VARIABLES
    open,           \* is a frame begun and not ended?
    layers,         \* the layers registered for it
    shown           \* the frame the runtime has been given last

vars == <<open, layers, shown>>

MaxLayers == 2

Init == ~open /\ layers = <<>> /\ shown = <<>>

Begin == open' = TRUE /\ layers' = <<>> /\ UNCHANGED shown

Register ==
    /\ open /\ Len(layers) < MaxLayers
    /\ \E l \in Layers : layers' = Append(layers, l)
    /\ UNCHANGED <<open, shown>>

End == open /\ shown' = layers /\ open' = FALSE /\ layers' = <<>>

(* The runtime refused the frame, or the session ended before it.          *)
Abandon == open /\ open' = FALSE /\ layers' = <<>> /\ UNCHANGED shown

Next == Begin \/ Register \/ End \/ Abandon

Spec == Init /\ [][Next]_vars
=============================================================================
