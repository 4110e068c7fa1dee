------------------------------ MODULE MCBusMixer ------------------------------
(***************************************************************************)
(* Two workers and bus buffers of six frames.  Worker 0 issues three      *)
(* requests and worker 1 two, so the vectors mixToBus walks differ in     *)
(* length.  The frame counts 6, 3, 4, 5 and 0 take mixOperation through   *)
(* one round of four with 2, 0 and 1 frames left over, through the        *)
(* remainder loop alone, and through neither; chans 2 makes the source    *)
(* stride visible.                                                         *)
(***************************************************************************)
EXTENDS BusMixer, TLC

Req(type, bus, offset, endfr, chans) ==
  [type |-> type, bus |-> bus, offset |-> offset, endfr |-> endfr, chans |-> chans]

MCWork ==
  (0 :> {Req("out", 0, 0, 6, 2), Req("aux", 1, 1, 4, 1), Req("aux", 0, 2, 6, 2)})
  @@ (1 :> {Req("aux", 1, 0, 5, 1), Req("out", 0, 3, 3, 1)})
====
