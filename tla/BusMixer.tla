------------------------------- MODULE BusMixer ------------------------------
(***************************************************************************)
(* The MULTI_THREAD mixer of src/src/rtcmix/bus_config.cpp.  In the       *)
(* parallel phase of a block each worker thread runs its instruments, and *)
(* their addToBus pushes a MixData record onto the worker's own          *)
(* mixVectors entry.  A barrier (spec section 5, outside these files)     *)
(* ends the phase; the main thread then runs mixToBus, which applies     *)
(* every vector in thread order with mixOperation and clears it.          *)
(*                                                                         *)
(* The loop of mixToBus is modelled one MixData at a time, with its       *)
(* position (i, j), so that the liveness and the refinement see the       *)
(* mixed-but-not-yet-cleared entries.  The buffers and the requests are   *)
(* those of MixerST, which this module refines: the abstract buffers are  *)
(* the real ones plus what the MixData still pending will add.            *)
(***************************************************************************)
EXTENDS Integers, Sequences, FiniteSetsExt

CONSTANTS RT_THREAD_COUNT, Work, FRAMES, MaxBlocks

VARIABLES
  buf, todo, blk,   \* as in MixerST
  mixVectors,       \* worker -> its std::vector<MixData>
  phase,            \* "dsp" (parallel phase) or "mix" (after the barrier)
  i, j              \* mixToBus: the vector and the position it is at

vars == <<buf, todo, blk, mixVectors, phase, i, j>>

M == INSTANCE MixerST

\* MixData(src, dest + offset, endfr - offset, chans), the dest pointer
\* kept as its buffer and offset.
MixData(r) ==
  [dest |-> M!Dest(r), offset |-> r.offset, frames |-> r.endfr - r.offset, chans |-> r.chans]
MixDatas == {MixData(r) : r \in UNION {Work[t] : t \in M!Threads}}

\* Mutant: framesRemaining without the << 2 of framesOverFour.
mixOperationNoShift(b, m) ==
  LET framesOverFour == m.frames \div 4
      framesRemaining == m.frames - framesOverFour
      rounds == IF framesOverFour > 0 THEN framesOverFour ELSE 0
      Add(f) ==
        LET k == f - m.offset IN
        CASE k \in 0 .. 4 * rounds - 1 ->
               M!Sample((k \div 4) * 4 * m.chans + (k % 4) * m.chans)
          [] k - 4 * rounds \in 0 .. framesRemaining - 1 ->
               M!Sample(4 * rounds * m.chans + (k - 4 * rounds) * m.chans)
          [] OTHER -> 0
  IN [f \in M!Frames |-> b[f] + Add(f)]

\* mixOperation: framesOverFour rounds of four frames, the source stepping
\* chans samples per frame, then framesRemaining single frames from where
\* the first loop left dest and src.  >> 2 on an int is a floor division.
mixOperation(b, m) ==
  LET framesOverFour == m.frames \div 4
      framesRemaining == m.frames - framesOverFour * 4
      rounds == IF framesOverFour > 0 THEN framesOverFour ELSE 0
      Add(f) ==
        LET k == f - m.offset IN
        CASE k \in 0 .. 4 * rounds - 1 ->
               M!Sample((k \div 4) * 4 * m.chans + (k % 4) * m.chans)
          [] k - 4 * rounds \in 0 .. framesRemaining - 1 ->
               M!Sample(4 * rounds * m.chans + (k - 4 * rounds) * m.chans)
          [] OTHER -> 0
  IN [f \in M!Frames |-> b[f] + Add(f)]

Init ==
  /\ M!Init
  /\ mixVectors = [t \in M!Threads |-> <<>>]
  /\ phase = "dsp"
  /\ i = 0 /\ j = 0

\* addToBus: mixVectors[RTThread::GetIndexForThread()].push_back(...).
addToBus(t, r) ==
  /\ phase = "dsp"
  /\ r \in todo[t]
  /\ mixVectors' = [mixVectors EXCEPT ![t] = Append(@, MixData(r))]
  /\ todo' = [todo EXCEPT ![t] = @ \ {r}]
  /\ UNCHANGED <<buf, blk, phase, i, j>>

\* The barrier after the parallel phase; mixToBus starts at vector 0.
Barrier ==
  /\ phase = "dsp"
  /\ \A t \in M!Threads : todo[t] = {}
  /\ phase' = "mix"
  /\ i' = 0 /\ j' = 0
  /\ UNCHANGED <<buf, todo, blk, mixVectors>>

\* Mutant: the loop stops one thread short.
MoreThreadsShort(x) == x < RT_THREAD_COUNT - 1

\* The condition of mixToBus's loop over the threads.
MoreThreads(x) == x < RT_THREAD_COUNT

\* std::for_each(vector.begin(), vector.end(), mixOperation), one element.
MixNext ==
  /\ phase = "mix"
  /\ MoreThreads(i)
  /\ j < Len(mixVectors[i])
  /\ LET m == mixVectors[i][j + 1]
     IN buf' = [buf EXCEPT ![m.dest] = mixOperation(@, m)]
  /\ j' = j + 1
  /\ UNCHANGED <<todo, blk, mixVectors, phase, i>>

\* vector.clear(), and on to the next thread's vector.
ClearVector ==
  /\ phase = "mix"
  /\ MoreThreads(i)
  /\ j = Len(mixVectors[i])
  /\ mixVectors' = [mixVectors EXCEPT ![i] = <<>>]
  /\ i' = i + 1 /\ j' = 0
  /\ UNCHANGED <<buf, todo, blk, phase>>

\* mixToBus has returned; the next block's parallel phase begins.
EndBlock ==
  /\ phase = "mix"
  /\ ~MoreThreads(i)
  /\ blk < MaxBlocks
  /\ phase' = "dsp"
  /\ todo' = Work
  /\ blk' = blk + 1
  /\ UNCHANGED <<buf, mixVectors, i, j>>

\* The last block has been mixed.
Terminated ==
  /\ phase = "mix" /\ ~MoreThreads(i) /\ blk = MaxBlocks
  /\ UNCHANGED vars

Next ==
  \/ \E t \in M!Threads : \E r \in todo[t] : addToBus(t, r)
  \/ Barrier \/ MixNext \/ ClearVector \/ EndBlock \/ Terminated

\* Every worker runs the instruments it was given, and the main thread
\* runs mixToBus to its end: the audio loop renders block after block.
Fairness ==
  /\ \A t \in M!Threads : \A r \in UNION {Work[x] : x \in M!Threads} : WF_vars(addToBus(t, r))
  /\ WF_vars(Barrier) /\ WF_vars(MixNext) /\ WF_vars(ClearVector) /\ WF_vars(EndBlock)

Spec == Init /\ [][Next]_vars /\ Fairness

-----------------------------------------------------------------------------
(* Refinement                                                              *)
\* The MixData still to be mixed: every entry in the parallel phase, and
\* after the barrier those past mixToBus's position (i, j).
Pending ==
  {e \in UNION {{x} \X (1 .. Len(mixVectors[x])) : x \in M!Threads} :
     phase = "dsp" \/ e[1] > i \/ (e[1] = i /\ e[2] > j)}

\* The buffers as the single-threaded mixer has them: what mixToBus has
\* mixed, plus what addToBus of MixerST adds for each pending MixData.
AbsBuf ==
  [d \in M!Dests |-> [f \in M!Frames |->
     buf[d][f] + MapThenSumSet(LAMBDA e :
                   LET m == mixVectors[e[1]][e[2]]
                   IN IF m.dest = d
                      THEN M!Contribution(m.offset, m.offset + m.frames, m.chans, f)
                      ELSE 0,
                   Pending)]]

ST == INSTANCE MixerST WITH buf <- AbsBuf

-----------------------------------------------------------------------------
(* Properties                                                              *)
\* Spec section 4.4: the multi-threaded mixer implements the single-threaded
\* one.  Deferring every request to a per-thread vector and mixing the
\* vectors after the barrier sums each request into its bus exactly once,
\* with mixOperation's unrolled loop reading the samples addToBus reads.
ImplementsST == ST!Spec

\* Every block's requests are eventually all mixed by mixToBus, whatever
\* the order the workers push them in.
BlocksDrained ==
  \A b \in 1 .. MaxBlocks : (blk = b) ~> (blk = b /\ phase = "mix" /\ Pending = {})
====
