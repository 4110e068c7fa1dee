---------------------------- MODULE MCBusConfig ----------------------------
(***************************************************************************)
(* Model values for BusConfig: three buses, one output channel, two       *)
(* instrument names.  Args holds every auxin => auxout routing over       *)
(* single buses and two-bus ranges, plus the calls that take each error   *)
(* path of bus_config.                                                     *)
(***************************************************************************)
EXTENDS BusConfig

\* A busname "<type> lo-hi".
BN(t, lo, hi) == [type |-> t, lo |-> lo, hi |-> hi, neg |-> FALSE]

MCRanges == {<<0, 0>>, <<1, 1>>, <<2, 2>>, <<0, 1>>, <<1, 2>>}

\* bus_config("inst", "aux r1 in", "aux r2 out")
MCAuxRoutes == {<<BN("auxin", r1[1], r1[2]), BN("auxout", r2[1], r2[2])>> :
                  r1, r2 \in MCRanges}

MCOtherCalls ==
  { <<>>,                                           \* too few arguments
    <<BN("in", 0, 0), BN("out", 0, 0)>>,            \* plain in => out
    <<BN("chainin", 0, 0), BN("out", 0, 0)>>,       \* chained input
    <<BN("auxin", 0, 0), BN("chainout", 0, 1)>>,    \* chained output
    <<BN("auxout", 1, 1), BN("out", 0, 0)>>,        \* out after auxout: die
    <<BN("in", 0, 0), BN("auxin", 1, 1)>>,          \* auxin after in: die
    <<BN("auxout", 2, 2), BN("bad", 0, 0)>>,        \* unknown busname: die
    <<BN("auxin", 0, 0), BN("auxout", 3, 3)>> }     \* channel >= busCount

MCArgs == MCAuxRoutes \cup MCOtherCalls

InstSymmetry == Permutations(Inst)

\* Three routings 0 -> 1, 1 -> 2 and {1, 2} -> 3 (busCount 4): a diamond
\* whose breadth-first walk from the leaf meets 1 before 2.
MCPlayOrderArgs ==
  { <<BN("auxin", 0, 0), BN("auxout", 1, 1)>>,
    <<BN("auxin", 1, 1), BN("auxout", 2, 2)>>,
    <<BN("auxin", 1, 2), BN("auxout", 3, 3)>> }

\* Two opposite routings over busCount 2: the second closes a cycle.
MCWrapArgs ==
  { <<BN("auxin", 0, 0), BN("auxout", 1, 1)>>,
    <<BN("auxin", 1, 1), BN("auxout", 0, 0)>> }

\* Calls bus_config rejects after it marked an aux bus as written.
MCRejectedArgs ==
  { <<BN("auxout", 1, 1), BN("out", 0, 0)>>,
    <<BN("auxin", 0, 0), BN("auxout", 0, 0)>> }

\* A reversed range, and a range given twice.
MCCountArgs ==
  { <<BN("auxin", 0, 0), BN("auxout", 2, 0)>>,
    <<BN("auxout", 0, 2), BN("auxout", 0, 2)>> }
====
