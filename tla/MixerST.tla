------------------------------- MODULE MixerST -------------------------------
(***************************************************************************)
(* The mixer of src/src/rtcmix/bus_config.cpp as the build without        *)
(* MULTI_THREAD has it: each instrument's addout calls addToBus, which     *)
(* adds the instrument's samples into the destination bus buffer at once. *)
(* This is what a mix promises (spec section 4.4): every request          *)
(* issued in a block is summed into its bus exactly once, sample          *)
(* src[k * chans] into frame offset + k.  The multi-threaded mixer,       *)
(* BusMixer, refines it.                                                   *)
(*                                                                         *)
(* The instruments of a block are grouped by the worker that runs them;   *)
(* here the grouping only says which requests a block issues.  A request  *)
(* is a record [type, bus, offset, endfr, chans] of addToBus's arguments; *)
(* its source is an interleaved buffer whose sample x has the value       *)
(* Sample(x), so that a sample read from the wrong place shows.           *)
(***************************************************************************)
EXTENDS Integers

CONSTANTS
  RT_THREAD_COUNT,  \* the number of worker threads
  Work,             \* worker -> the requests its instruments issue in a block
  FRAMES,           \* bufsamps(): the frames of a bus buffer
  MaxBlocks         \* the blocks a behaviour renders

Threads == 0 .. RT_THREAD_COUNT - 1
Dest(r) == [type |-> r.type, bus |-> r.bus]
Dests == UNION {{Dest(r) : r \in Work[t]} : t \in Threads}
Frames == 0 .. FRAMES - 1
Sample(x) == x + 1
ZeroBuffer == [f \in Frames |-> 0]

\* What addToBus adds to frame f: for (frame = offset; frame < endfr;
\* frame++) { dest[frame] += *src; src += chans; }
Contribution(offset, endfr, chans, f) ==
  IF f \in offset .. endfr - 1 THEN Sample((f - offset) * chans) ELSE 0

VARIABLES
  buf,    \* destination -> the samples of its bus buffer
  todo,   \* worker -> the requests of this block not issued yet
  blk     \* the block being rendered

vars == <<buf, todo, blk>>

Init ==
  /\ buf = [d \in Dests |-> ZeroBuffer]
  /\ todo = Work
  /\ blk = 1

\* addToBus of the build without MULTI_THREAD: dest is aux_buffer[bus] or
\* out_buffer[bus], and the samples are summed into it straight away.
addToBus(t, r) ==
  /\ r \in todo[t]
  /\ buf' = [buf EXCEPT ![Dest(r)] =
               [f \in Frames |-> @[f] + Contribution(r.offset, r.endfr, r.chans, f)]]
  /\ todo' = [todo EXCEPT ![t] = @ \ {r}]
  /\ UNCHANGED blk

\* The next block starts once every request of this one has been issued.
NextBlock ==
  /\ \A t \in Threads : todo[t] = {}
  /\ blk < MaxBlocks
  /\ todo' = Work
  /\ blk' = blk + 1
  /\ UNCHANGED buf

Next ==
  \/ \E t \in Threads : \E r \in todo[t] : addToBus(t, r)
  \/ NextBlock

Spec == Init /\ [][Next]_vars
====
