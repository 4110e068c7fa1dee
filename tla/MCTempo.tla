------------------------------ MODULE MCTempo -------------------------------
(***************************************************************************)
(* Inputs for Tempo: one to three (time, tempo) pairs with times 0, 2 and *)
(* 4 seconds in ascending order and tempos of 60 or 120 beats per minute  *)
(* or 0, the tempo tempo() rejects; bases of 60 and 120.  With TLEN = 6   *)
(* the read loop takes all three pairs, and npts reaches TLEN/2 + 1, the  *)
(* largest value the code can give it.                                    *)
(***************************************************************************)
EXTENDS Tempo

MCTimes == {0, 2, 4}
MCTempos == {60, 120}

\* Flatten a sequence of <<time, tempo>> pairs into pfields.
RECURSIVE Flat(_)
Flat(ps) == IF ps = <<>> THEN <<>> ELSE ps[1] \o Flat(Tail(ps))

Ascending(ts) == \A i \in 1..(Len(ts) - 1) : ts[i] < ts[i + 1]
MCTimeSeqs == {s \in UNION {[1..k -> MCTimes] : k \in 1..3} : Ascending(s)}
PairLists(T) ==
  UNION {{Flat([i \in 1..Len(ts) |-> <<ts[i], tp[i]>>]) : tp \in [1..Len(ts) -> T]} :
           ts \in MCTimeSeqs}
MCArgLists == PairLists(MCTempos \cup {0})

MCBases == {60, 120}
MCProbes == {0, 5000, 10000, 25000, 40000, 60000}
MCForever == 200000
====
