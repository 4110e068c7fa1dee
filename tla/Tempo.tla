------------------------------- MODULE Tempo --------------------------------
(***************************************************************************)
(* The tempo map of src/unnamed/part_001: tbase, tempo, time_beat and     *)
(* beat_time over the static arrays xtime, temp, rxtime and accel.        *)
(*                                                                         *)
(* Reals are fixed point: a quantity q is the integer q * SC.  Tempo and  *)
(* its precomputation keep the code's order of writes, including the      *)
(* clear of the arrays before the breakpoints are read and the die on a   *)
(* zero tempo in the middle of the read loop.  As in BusConfig, die ends   *)
(* the call with what it had written still written (the embedded build).  *)
(***************************************************************************)
EXTENDS Integers, Sequences

CONSTANTS
  TLEN,       \* the code's TLEN: the read loop runs m = 0, 2, ..., < TLEN
  Bases,      \* arguments tbase may be given (beats per minute)
  ArgLists,   \* pfield lists tempo may be given: t0, T0, t1, T1, ... (seconds, bpm)
  Forever,    \* the sentinel time .999999e+10, in SC units
  Probes,     \* times and beats (SC units) at which the map is evaluated
  Tol         \* the rounding error of a fixed-point round trip

SC == 10000
TLENP == TLEN + 1
Idx == 0..(TLENP - 1)

VARIABLES
  BASIS, tset, npts, xtime, temp, rxtime, accel

vars == <<BASIS, tset, npts, xtime, temp, rxtime, accel>>

Zeros == [m \in Idx |-> 0]

\* for (m = 0; m < TLEN; m++) a[m] = 0: the last slot, TLEN, is not cleared.
Cleared(a) == [m \in Idx |-> IF m < TLEN THEN 0 ELSE a[m]]

\* The largest r with r * r <= n: sqrt on fixed-point values.
RECURSIVE ISqrtIn(_, _, _)
ISqrtIn(n, lo, hi) ==
  IF lo >= hi THEN lo
  ELSE LET mid == (lo + hi + 1) \div 2
       IN IF mid * mid <= n THEN ISqrtIn(n, mid, hi) ELSE ISqrtIn(n, lo, mid - 1)
ISqrt(n) == ISqrtIn(n, 0, IF n < 1 THEN 0 ELSE IF n < 46340 THEN n ELSE 46340)

-----------------------------------------------------------------------------
Init ==
  /\ BASIS = 60
  /\ tset = FALSE
  /\ npts = 0
  /\ xtime = Zeros /\ temp = Zeros /\ rxtime = Zeros /\ accel = Zeros

\* tbase(p): BASIS = p[0].
TBase(b) ==
  /\ BASIS' = b
  /\ UNCHANGED <<tset, npts, xtime, temp, rxtime, accel>>

\* Mutant: npts is advanced before the pair is stored.
RECURSIVE ReadPairsEarly(_, _, _, _, _)
ReadPairsEarly(p, m, n, xt, tp) ==
  IF m >= TLEN \/ (m > 0 /\ m >= Len(p)) THEN [npts |-> n + 1, xt |-> xt, tp |-> tp, died |-> FALSE]
  ELSE LET xt2 == [xt EXCEPT ![n + 1] = p[m + 1] * SC]
           tp2 == [tp EXCEPT ![n + 1] = (p[m + 2] * SC) \div BASIS]
       IN IF tp2[n + 1] = 0 THEN [npts |-> n + 1, xt |-> xt2, tp |-> tp2, died |-> TRUE]
          ELSE ReadPairsEarly(p, m + 2, n + 1, xt2, tp2)

\* The breakpoint loop: for (m = 0, npts = 1; m < TLEN; m += 2, npts++),
\* breaking when m > 0 and m >= n_args, and returning through die as soon
\* as a tempo is zero.  The result is npts, the arrays and whether it died.
RECURSIVE ReadPairs(_, _, _, _, _)
ReadPairs(p, m, n, xt, tp) ==
  IF m >= TLEN \/ (m > 0 /\ m >= Len(p)) THEN [npts |-> n, xt |-> xt, tp |-> tp, died |-> FALSE]
  ELSE LET xt2 == [xt EXCEPT ![n] = p[m + 1] * SC]
           tp2 == [tp EXCEPT ![n] = (p[m + 2] * SC) \div BASIS]
       IN IF tp2[n] = 0 THEN [npts |-> n, xt |-> xt2, tp |-> tp2, died |-> TRUE]
          ELSE ReadPairs(p, m + 2, n + 1, xt2, tp2)

\* accel[m] = (temp[m+1]^2 - temp[m]^2) / (2 dur), for dur # 0.
Accel(tp, dur, m) == (tp[m + 1] * tp[m + 1] - tp[m] * tp[m]) \div (2 * dur)

\* The beat offset of a segment of length dur starting at tempo t with
\* acceleration a: dur/t, or (sqrt(t^2 + 2 a dur) - t) / a.
SegmentBeats(t, a, dur) ==
  IF a = 0 THEN (dur * SC) \div t
  ELSE ((ISqrt(t * t + 2 * a * dur) - t) * SC) \div a

\* Mutant: a segment's beats are not offset by the beats before it (prvbt).
RECURSIVE PrecomputeNoPrvbt(_, _, _, _, _, _)
PrecomputeNoPrvbt(n, xt, tp, rx, ac, m) ==
  IF m >= n THEN [rx |-> rx, ac |-> ac]
  ELSE LET dur == xt[m + 1] - xt[m]
           a == IF dur = 0 THEN 0 ELSE Accel(tp, dur, m)
           rx1 == IF dur = 0 THEN rx[m] ELSE SegmentBeats(tp[m], a, dur)
       IN PrecomputeNoPrvbt(n, xt, tp, [rx EXCEPT ![m + 1] = rx1], [ac EXCEPT ![m] = a], m + 1)

\* The precomputation loop for (m = 0; m < npts; m++), over rxtime and accel.
RECURSIVE Precompute(_, _, _, _, _, _)
Precompute(n, xt, tp, rx, ac, m) ==
  IF m >= n THEN [rx |-> rx, ac |-> ac]
  ELSE LET dur == xt[m + 1] - xt[m]
           a == IF dur = 0 THEN 0 ELSE Accel(tp, dur, m)
           rx1 == IF dur = 0 THEN rx[m] ELSE SegmentBeats(tp[m], a, dur) + rx[m]
       IN Precompute(n, xt, tp, [rx EXCEPT ![m + 1] = rx1], [ac EXCEPT ![m] = a], m + 1)

\* tempo() with no arguments: the map is cleared.
TempoClear ==
  /\ tset' = FALSE
  /\ UNCHANGED <<BASIS, npts, xtime, temp, rxtime, accel>>

\* tempo(p, n_args) with n_args > 0.
Tempo(p) ==
  LET r == ReadPairs(p, 0, 1, Cleared(xtime), Cleared(temp))
      n == r.npts
      xt == [r.xt EXCEPT ![n] = Forever, ![0] = 0]
      tp == [r.tp EXCEPT ![n] = r.tp[n - 1], ![0] = r.tp[1]]
      rx == [Cleared(rxtime) EXCEPT ![n] = Forever, ![0] = 0]
      pc == Precompute(n, xt, tp, rx, [Cleared(accel) EXCEPT ![0] = 0], 0)
  IN /\ Len(p) > 0
     /\ npts' = n
     /\ IF r.died
        THEN /\ xtime' = r.xt /\ temp' = r.tp
             /\ rxtime' = Cleared(rxtime) /\ accel' = Cleared(accel)
             /\ UNCHANGED <<BASIS, tset>>
        ELSE /\ tset' = TRUE
             /\ xtime' = xt /\ temp' = tp /\ rxtime' = pc.rx /\ accel' = pc.ac
             /\ UNCHANGED BASIS

Next ==
  \/ \E b \in Bases : TBase(b)
  \/ TempoClear
  \/ \E p \in ArgLists : Tempo(p)

Spec == Init /\ [][Next]_vars

-----------------------------------------------------------------------------
\* The segment search of time_beat and beat_time: the first m in 0..npts
\* with lo[m] < v <= lo[m+1], or npts + 1 when the loop runs off the end.
Segment(lo, v) ==
  LET hits == {m \in 0..npts : lo[m] < v /\ v <= lo[m + 1]}
  IN IF hits = {} THEN npts + 1 ELSE CHOOSE m \in hits : \A k \in hits : m <= k

\* time_beat(timein): beats at time timein.
TimeBeat(t0) ==
  LET t == IF t0 < 0 THEN 0 ELSE t0
      m == IF t > 0 THEN Segment(xtime, t) ELSE 0
      durp == IF t > 0 /\ m <= npts THEN t - xtime[m] ELSE 0
  IN IF ~tset THEN t
     ELSE SegmentBeats(temp[m], accel[m], durp) + rxtime[m]

\* beat_time(beatin): the time of beat beatin.
BeatTime(b) ==
  LET m == IF b # 0 THEN Segment(rxtime, b) ELSE 0
      d == b - rxtime[m]
  IN IF ~tset THEN b
     ELSE IF accel[m] = 0 THEN (d * temp[m]) \div SC + xtime[m]
     ELSE LET v == (d * accel[m]) \div SC + temp[m]
          IN (v * v - temp[m] * temp[m]) \div (2 * accel[m]) + xtime[m]

-----------------------------------------------------------------------------
(***************************************************************************)
(* Properties                                                              *)
(***************************************************************************)
\* Type invariant: the arrays stay TLENP long and npts, one past the last
\* breakpoint read, leaves room in them for the sentinel and the slot after.
TypeOK ==
  /\ BASIS \in Bases \cup {60}
  /\ tset \in BOOLEAN
  /\ npts \in 0..(TLEN \div 2 + 1)
  /\ \A a \in {xtime, temp, rxtime, accel} : a \in [Idx -> Int]

Dist(a, b) == IF a >= b THEN a - b ELSE b - a

\* A map in force never has a zero tempo: time_beat divides by temp[m].
\* tempo() rejects a zero tempo with die, so the map it leaves must be
\* usable, the previous one or none.
MapUsable == tset => \A m \in 0..npts : temp[m] # 0

\* Spec property 4: time_beat(beat_time(b)) = b and beat_time(time_beat(t))
\* = t for b, t >= 0 and any legal tempo map (one without a zero tempo).  Both functions must find
\* the same segment as the precomputation of tempo, with rxtime and accel
\* as that loop left them.
RoundTrip ==
  tset /\ MapUsable =>
    \A v \in Probes : /\ Dist(TimeBeat(BeatTime(v)), v) <= Tol
                    /\ Dist(BeatTime(TimeBeat(v)), v) <= Tol
====
