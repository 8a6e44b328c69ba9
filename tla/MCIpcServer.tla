---------------------------- MODULE MCIpcServer ----------------------------
(* Two connection slots, and guests that send every kind of message the    *)
(* server tells apart: one that is answered, one whose payload is too      *)
(* short, one without a handler; or guests that submit frames.             *)
EXTENDS IpcServer

Message(type) == [type |-> type, short |-> FALSE]

MCSent == {Message("GET_REFRESH_RATE"), Message("GET_HAND_MESH"),
           [type |-> "REQUEST_REFRESH_RATE", short |-> TRUE]}

MCFrames == {Message("SWAPCHAIN_FRAME_END")}
=============================================================================
