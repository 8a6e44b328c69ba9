----------------------------- MODULE FramePacing -----------------------------
(***************************************************************************)
(* Frame pacing of the host: g_frame_pace in src/host/src/gpu_sync.c, one  *)
(* for the whole process, with the monotonic clock it reads.               *)
(*                                                                         *)
(* Time is counted in a unit of which frame_interval_ns is Interval.  The  *)
(* rate is always the 90 Hz both initialisers give it, so the interval is  *)
(* a constant.                                                             *)
(***************************************************************************)
EXTENDS Integers

CONSTANTS
    Interval,       \* g_frame_pace.frame_interval_ns
    MaxTime         \* bound: the clock and the deadlines set stop there

ASSUME IntervalAssumption == Interval \in Nat \ {0}
ASSUME MaxTimeAssumption  == MaxTime \in Nat

VARIABLES
    now,            \* CLOCK_MONOTONIC, which is never 0
    g_frame_pace    \* last_frame_time, frame_count and dropped_frames

Reset == [last_frame_time |-> 0, frame_count |-> 0, dropped_frames |-> 0]

PacingInit == now = 1 /\ g_frame_pace = Reset

Tick == now < MaxTime /\ now' = now + 1 /\ UNCHANGED g_frame_pace

(* gpu_frame_pacing_init().                                                *)
PacingReset == g_frame_pace' = Reset /\ UNCHANGED now

(* What is left of the interval since the last frame; more than an         *)
(* interval when the last deadline has not come yet.                       *)
WaitNs == Interval - (now - g_frame_pace.last_frame_time)

FirstFrame ==
    /\ g_frame_pace.last_frame_time = 0
    /\ g_frame_pace' = [g_frame_pace EXCEPT !.last_frame_time = now]

LateFrame ==
    /\ g_frame_pace.last_frame_time # 0 /\ WaitNs < 0
    /\ g_frame_pace' = [g_frame_pace EXCEPT !.last_frame_time = now,
                                            !.dropped_frames = @ + 1]

(* Mutant: the frame is taken to be at the time of the call.               *)
FrameInTimeAtOnce ==
    /\ g_frame_pace.last_frame_time # 0 /\ WaitNs >= 0
    /\ g_frame_pace' = [g_frame_pace EXCEPT !.last_frame_time = now,
                                            !.frame_count = @ + 1]

FrameInTime ==
    /\ g_frame_pace.last_frame_time # 0 /\ WaitNs >= 0
    /\ g_frame_pace' = [g_frame_pace EXCEPT !.last_frame_time = now + WaitNs,
                                            !.frame_count = @ + 1]

(* gpu_frame_pacing_update().                                              *)
PacingUpdate ==
    /\ g_frame_pace.last_frame_time < MaxTime
    /\ FirstFrame \/ LateFrame \/ FrameInTime
    /\ UNCHANGED now

PacingTypeOK ==
    /\ now \in Nat \ {0}
    /\ g_frame_pace \in [last_frame_time : Nat, frame_count : Nat, dropped_frames : Nat]

(* The deadlines recorded for two frames of a session are never less than  *)
(* an interval apart, however early or late begin_frame() comes            *)
(* (gpu_sync.c 180-208).  When frames are shown is another matter:         *)
(* begin_frame() does not wait for the deadline (openxr_host.c 214).       *)
FramesSpaced ==
    [][g_frame_pace.last_frame_time # 0 /\ g_frame_pace' # g_frame_pace
         => \/ g_frame_pace'.last_frame_time >= g_frame_pace.last_frame_time + Interval
            \/ g_frame_pace' = Reset]_g_frame_pace
=============================================================================
