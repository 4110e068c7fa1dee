----------------------------- MODULE BusConfig -----------------------------
(***************************************************************************)
(* The aux-bus routing graph of RTcmix (src/src/rtcmix/bus_config.cpp).   *)
(*                                                                         *)
(* A score calls bus_config(inst, busname...) to route an instrument from *)
(* input/aux buses to output/aux buses.  The engine keeps per-bus flags   *)
(* (OutInUse, AuxInUse, AuxOutInUse, HasParent, HasChild), for each bus   *)
(* the list In_Config of aux buses feeding it, one current BusSlot per     *)
(* instrument name, and three play lists the mixer walks every block.     *)
(* One step of this module is one whole call: bus_config (parse loop,     *)
(* check_bus_inst_config, insert_bus_slot, aux buffer allocation, chain   *)
(* counts, create_play_order), the default configuration built by         *)
(* get_bus_config, or free_bus_config.  A fatal error (die + RTExit)      *)
(* aborts the call; what the call already wrote stays, as in the code.    *)
(***************************************************************************)
EXTENDS Integers, Sequences, FiniteSets, SequencesExt, Relation

CONSTANTS
  NBUS,       \* busCount
  NCHANS,     \* channels set by rtsetparams
  Inst,       \* instrument names
  Args,       \* argument lists (sequences of busnames) a score may pass
  FileChans,  \* channel counts of open input files get_bus_config may see
  NoSlot,     \* no BusQueue entry for an instrument name
  MaxCalls    \* bound on the bus_config calls of one score

ASSUME NBUS \in Nat \ {0} /\ NCHANS \in 1..NBUS
ASSUME FileChans \subseteq 1..NBUS
ASSUME MaxCalls \in Nat

VARIABLES
  rtsetparams,      \* rtsetparams_was_called()
  configured,       \* Bus_Config_Status: In_Config lists allocated
  OutInUse, AuxInUse, AuxOutInUse, HasParent, HasChild,  \* BusConfigs[i]
  InConfig,         \* BusConfigs[i].In_Config: its first bus_count entries
  insts,            \* Inst_Bus_Config: current BusSlot of each instrument
  auxBuffers,       \* buses whose aux_buffer has been allocated
  AuxToAuxPlayList, ToAuxPlayList, ToOutPlayList,
  lastExit,         \* outcome of the last call: "NO_ERR" or the RTExit code
  wrapped,          \* history: some In_Config list was reset by the wrap
  shutdown,         \* free_bus_config has run
  calls             \* bus_config calls so far (bounded by MaxCalls)

vars == <<rtsetparams, configured, OutInUse, AuxInUse, AuxOutInUse, HasParent,
          HasChild, InConfig, insts, auxBuffers, AuxToAuxPlayList,
          ToAuxPlayList, ToOutPlayList, lastExit, wrapped, shutdown, calls>>

Bus == 0..NBUS-1
BusSeq == [i \in 1..NBUS |-> i - 1]   \* the loops for (i=0;i<busCount;i++)

\* bf_traverse seeds its check with this auxout so that no bus matches it.
FictitiousBus == 333

BusTypes == {"in", "out", "auxin", "auxout", "chainin", "chainout", "bad"}
\* neg marks a channel text that starts with '-' ("aux -1 out").
Busname == [type : BusTypes, lo : 0..NBUS, hi : 0..NBUS, neg : BOOLEAN]

(***************************************************************************)
(* A BusSlot: four bus arrays of busCount entries and their counts.       *)
(***************************************************************************)
NoBuses == [i \in Bus |-> 0]
NewSlot == [in |-> NoBuses, out |-> NoBuses, auxin |-> NoBuses, auxout |-> NoBuses,
            in_count |-> 0, out_count |-> 0, auxin_count |-> 0, auxout_count |-> 0]

\* The first cnt entries of a bus array, as the loops over *_count read them.
\* Entries past the end of the array are heap memory and are not modelled.
Entries(arr, cnt) == [i \in 1..IF cnt > NBUS THEN NBUS ELSE cnt |-> arr[i - 1]]

\* for (k = lo; k <= hi; k++) arr[j++] = k;  starting at j = cnt.
AppendRange(arr, cnt, lo, hi) ==
  [i \in Bus |-> IF cnt <= i /\ i <= cnt + hi - lo THEN lo + i - cnt ELSE arr[i]]

(***************************************************************************)
(* parse_bus_name / parse_bus_chan: the busname's text is abstracted to   *)
(* its type and range; "bad" stands for a name that matches no specifier. *)
(* parse_bus_chan reads startchan with strtol from the channel text and   *)
(* endchan from the text after its first '-'.  For "lo-hi" that is lo and *)
(* hi; for "-lo" the '-' is the sign, so startchan is -lo and endchan lo. *)
(***************************************************************************)
ParseBusChan(b) ==
  IF b.neg THEN [start |-> -b.lo, end |-> b.lo]
  ELSE [start |-> b.lo, end |-> b.hi]

ParseBusName(b) ==
  IF b.type = "bad" THEN "INVAL_BUS_ERR"
  ELSE IF ParseBusChan(b).start >= NBUS \/ ParseBusChan(b).end >= NBUS
       THEN "INVAL_BUS_CHAN_ERR"
  ELSE "NO_ERR"

(***************************************************************************)
(* One turn of the busname loop of bus_config.  acc carries the slot      *)
(* being built, the flags the loop sets, the chain counts and the exit.   *)
(***************************************************************************)
AddBusname(bn, acc) ==
  LET s == acc.slot
      b == [lo |-> ParseBusChan(bn).start, hi |-> ParseBusChan(bn).end,
            type |-> bn.type]
      n == b.hi - b.lo + 1
      die == [acc EXCEPT !.exit = "PARAM_ERROR"]
      inRange(k) == b.lo <= k /\ k <= b.hi
  IN
  IF ParseBusName(bn) # "NO_ERR" THEN die
  ELSE CASE b.type = "in" ->
              IF s.auxin_count > 0 \/ acc.chainIn > 0 \/ b.hi >= NCHANS THEN die
              ELSE [acc EXCEPT !.slot = [s EXCEPT !.in = AppendRange(s.in, s.in_count, b.lo, b.hi),
                                                  !.in_count = @ + n]]
         [] b.type = "out" ->
              IF s.auxout_count > 0 \/ acc.chainOut > 0 \/ b.hi >= NCHANS THEN die
              ELSE [acc EXCEPT !.slot = [s EXCEPT !.out = AppendRange(s.out, s.out_count, b.lo, b.hi),
                                                  !.out_count = @ + n],
                               !.outInUse = [k \in Bus |-> @[k] \/ inRange(k)]]
         [] b.type = "auxin" ->
              IF s.in_count > 0 \/ acc.chainIn > 0 THEN die
              ELSE [acc EXCEPT !.slot = [s EXCEPT !.auxin = AppendRange(s.auxin, s.auxin_count, b.lo, b.hi),
                                                  !.auxin_count = @ + n]]
         [] b.type = "auxout" ->
              IF s.out_count > 0 \/ acc.chainOut > 0 THEN die
              ELSE [acc EXCEPT !.slot = [s EXCEPT !.auxout = AppendRange(s.auxout, s.auxout_count, b.lo, b.hi),
                                                  !.auxout_count = @ + n],
                               !.auxOutInUse = [k \in Bus |-> @[k] \/ inRange(k)]]
         [] b.type = "chainin" ->
              IF s.in_count + s.auxin_count > 0 THEN die
              ELSE [acc EXCEPT !.chainIn = @ + n]
         [] b.type = "chainout" ->
              IF s.out_count + s.auxout_count > 0 THEN die
              ELSE [acc EXCEPT !.chainOut = n]

RECURSIVE ParseArgs(_, _)
ParseArgs(args, acc) ==
  IF args = <<>> \/ acc.exit # "none" THEN acc
  ELSE ParseArgs(Tail(args), AddBusname(Head(args), acc))

(***************************************************************************)
(* The breadth-first walk of check_bus_inst_config.  The queue holds the  *)
(* bus ids of the queued CheckNodes in order; for each one the walk       *)
(* compares it with the slot's auxouts (unless Checked), then, if it has  *)
(* parents and is not Visited, records it in RevPlay (when HasParent) and *)
(* queues its In_Config list.  g is the graph the walk reads.             *)
(***************************************************************************)
RECURSIVE Traverse(_, _, _, _, _, _)
Traverse(g, queue, outs, checked, visited, rev) ==
  IF queue = <<>> THEN [err |-> "NO_ERR", visited |-> visited, rev |-> rev]
  ELSE
    LET t == Head(queue)
        expand == Len(g.inConfig[t]) > 0 /\ t \notin visited
    IN IF t \notin checked /\ t \in outs
       THEN [err |-> "LOOP_ERR", visited |-> visited, rev |-> rev]
       ELSE Traverse(g, Tail(queue) \o (IF expand THEN g.inConfig[t] ELSE <<>>),
                     outs, checked \cup {t},
                     IF expand THEN visited \cup {t} ELSE visited,
                     IF expand /\ g.hasParent[t] THEN Append(rev, t) ELSE rev)

\* Mutant: only the slot's first auxout is compared.
CheckFirstAuxout(g, slot) ==
  Traverse(g, Entries(slot.auxin, slot.auxin_count),
           ToSet(Entries(slot.auxout, 1)), {}, {}, <<>>).err

CheckBusInstConfig(g, slot) ==
  Traverse(g, Entries(slot.auxin, slot.auxin_count),
           ToSet(Entries(slot.auxout, slot.auxout_count)), {}, {}, <<>>).err

\* Mutant: out_ctr and aux_ctr are not reset to 0, so the buses are written
\* after the entries the previous recompute left.
PlayListNoReset(old, flags) ==
  LET l == SelectSeq(BusSeq, LAMBDA i : flags[i])
      k == Cardinality({i \in Bus : old[i] # -1})
  IN [i \in Bus |-> IF k <= i /\ i < k + Len(l) THEN l[i - k + 1] ELSE old[i]]

\* The prefix of a play list rewritten from the buses with flag set; the
\* entries after it keep what they held.
PlayList(old, flags) ==
  LET l == SelectSeq(BusSeq, LAMBDA i : flags[i])
  IN [i \in Bus |-> IF i < Len(l) THEN l[i + 1] ELSE old[i]]

(***************************************************************************)
(* insert_bus_slot, graph part: for each auxout, mark it in use, then for *)
(* each auxin append it to the auxout's In_Config, wrapping the count to  *)
(* 0 when it reaches busCount.                                             *)
(***************************************************************************)
\* Mutant: the wrap test is off by one (bus_count > busCount).
AppendParentLate(lst, s) == IF Len(lst) + 1 > NBUS THEN <<>> ELSE Append(lst, s)

AppendParent(lst, s) == IF Len(lst) + 1 >= NBUS THEN <<>> ELSE Append(lst, s)

RECURSIVE InsertIns(_, _, _)
InsertIns(out, ins, g) ==
  IF ins = <<>> THEN g
  ELSE LET in == Head(ins)
           lst == AppendParent(g.inConfig[out], in)
       IN InsertIns(out, Tail(ins),
            [g EXCEPT !.hasParent[out] = TRUE,
                      !.inConfig[out] = lst,
                      !.wrapped = @ \/ lst = <<>>,
                      !.hasChild[in] = TRUE,
                      !.auxInUse[in] = TRUE])

RECURSIVE InsertOuts(_, _, _)
InsertOuts(outs, ins, g) ==
  IF outs = <<>> THEN g
  ELSE InsertOuts(Tail(outs), ins,
         InsertIns(Head(outs), ins, [g EXCEPT !.auxInUse[Head(outs)] = TRUE]))

InsertBusSlot(g, slot) ==
  InsertOuts(Entries(slot.auxout, slot.auxout_count),
             Entries(slot.auxin, slot.auxin_count), g)

(***************************************************************************)
(* create_play_order: roots (in use, no parent) first, then for each leaf *)
(* (in use, no child) the RevPlay list of a bf_traverse from it, read     *)
(* backwards.  Visited is reset by the first bf_traverse only.            *)
(***************************************************************************)
RECURSIVE PlayLeaves(_, _, _, _)
PlayLeaves(g, leaves, visited, acc) ==
  IF leaves = <<>> THEN acc
  ELSE LET r == Traverse(g, <<Head(leaves)>>, {FictitiousBus}, {}, visited, <<>>)
       IN PlayLeaves(g, Tail(leaves), r.visited, acc \o Reverse(r.rev))

\* Mutant: the roots loop puts every bus in use on, parent or not.
CreatePlayOrderAllRoots(g, old) ==
  LET roots  == SelectSeq(BusSeq, LAMBDA i : g.auxInUse[i])
      leaves == SelectSeq(BusSeq, LAMBDA i : g.auxInUse[i] /\ ~g.hasChild[i])
      l == roots \o PlayLeaves(g, leaves, {}, <<>>)
  IN [i \in Bus |-> IF i < Len(l) THEN l[i + 1] ELSE old[i]]

CreatePlayOrder(g, old) ==
  LET roots  == SelectSeq(BusSeq, LAMBDA i : g.auxInUse[i] /\ ~g.hasParent[i])
      leaves == SelectSeq(BusSeq, LAMBDA i : g.auxInUse[i] /\ ~g.hasChild[i])
      l == roots \o PlayLeaves(g, leaves, {}, <<>>)
  IN [i \in Bus |-> IF i < Len(l) THEN l[i + 1] ELSE old[i]]

Graph == [auxInUse |-> AuxInUse, hasParent |-> HasParent, hasChild |-> HasChild,
          inConfig |-> InConfig, wrapped |-> wrapped]

-----------------------------------------------------------------------------
(***************************************************************************)
(* Actions                                                                 *)
(***************************************************************************)
Init ==
  /\ rtsetparams = FALSE
  /\ configured = FALSE
  /\ OutInUse = [i \in Bus |-> FALSE]
  /\ AuxInUse = [i \in Bus |-> FALSE]
  /\ AuxOutInUse = [i \in Bus |-> FALSE]
  /\ HasParent = [i \in Bus |-> FALSE]
  /\ HasChild = [i \in Bus |-> FALSE]
  /\ InConfig = [i \in Bus |-> <<>>]
  /\ insts = [n \in Inst |-> NoSlot]
  /\ auxBuffers = {}
  /\ AuxToAuxPlayList = [i \in Bus |-> -1]
  /\ ToAuxPlayList = [i \in Bus |-> -1]
  /\ ToOutPlayList = [i \in Bus |-> -1]
  /\ lastExit = "NO_ERR"
  /\ wrapped = FALSE
  /\ shutdown = FALSE
  /\ calls = 0

\* The score calls rtsetparams (outside bus_config.cpp).
RtSetParams ==
  /\ ~shutdown /\ ~rtsetparams
  /\ rtsetparams' = TRUE
  /\ UNCHANGED <<configured, OutInUse, AuxInUse, AuxOutInUse, HasParent, HasChild,
                 InConfig, insts, auxBuffers, AuxToAuxPlayList, ToAuxPlayList,
                 ToOutPlayList, lastExit, wrapped, shutdown, calls>>

\* The accumulator the busname loop of bus_config starts from.
ParseStart == [slot |-> NewSlot, outInUse |-> OutInUse, auxOutInUse |-> AuxOutInUse,
               chainIn |-> 0, chainOut |-> 0, exit |-> "none"]

\* bus_config(inst, args...) from a score.
BusConfigCall(inst, args) ==
  LET p == ParseArgs(args, ParseStart)
      g == InsertBusSlot(Graph, p.slot)
      slot == [p.slot EXCEPT !.auxin_count = @ + p.chainIn,
                             !.out_count = @ + p.chainOut]
      used == ToSet(Entries(p.slot.auxin, p.slot.auxin_count))
              \cup ToSet(Entries(p.slot.auxout, p.slot.auxout_count))
  IN
  /\ ~shutdown /\ calls < MaxCalls
  /\ calls' = calls + 1
  /\ \/ /\ Len(args) = 0 \/ ~rtsetparams           \* n_args < 2, no rtsetparams
        /\ lastExit' = "PARAM_ERROR"
        /\ UNCHANGED <<rtsetparams, configured, OutInUse, AuxInUse, AuxOutInUse,
                       HasParent, HasChild, InConfig, insts, auxBuffers,
                       AuxToAuxPlayList, ToAuxPlayList, ToOutPlayList, wrapped, shutdown>>
     \/ /\ Len(args) > 0 /\ rtsetparams /\ p.exit # "none"  \* die in the loop
        /\ lastExit' = p.exit
        /\ OutInUse' = p.outInUse
        /\ AuxOutInUse' = p.auxOutInUse
        /\ UNCHANGED <<rtsetparams, configured, AuxInUse, HasParent, HasChild,
                       InConfig, insts, auxBuffers, AuxToAuxPlayList,
                       ToAuxPlayList, ToOutPlayList, wrapped, shutdown>>
     \/ /\ Len(args) > 0 /\ rtsetparams /\ p.exit = "none"
        /\ configured' = TRUE
        /\ OutInUse' = p.outInUse
        /\ AuxOutInUse' = p.auxOutInUse
        /\ ToOutPlayList' = PlayList(ToOutPlayList, p.outInUse)
        /\ ToAuxPlayList' = PlayList(ToAuxPlayList, p.auxOutInUse)
        /\ IF CheckBusInstConfig(Graph, p.slot) = "LOOP_ERR"
           THEN /\ lastExit' = "SYSTEM_ERROR"
                /\ UNCHANGED <<AuxInUse, HasParent, HasChild, InConfig, insts,
                               auxBuffers, AuxToAuxPlayList, wrapped>>
           ELSE /\ lastExit' = "NO_ERR"
                /\ AuxInUse' = g.auxInUse
                /\ HasParent' = g.hasParent
                /\ HasChild' = g.hasChild
                /\ InConfig' = g.inConfig
                /\ wrapped' = g.wrapped
                /\ insts' = [insts EXCEPT ![inst] = slot]
                /\ auxBuffers' = auxBuffers \cup used
                /\ AuxToAuxPlayList' = CreatePlayOrder(g, AuxToAuxPlayList)
        /\ UNCHANGED <<rtsetparams, shutdown>>

(***************************************************************************)
(* get_bus_config(inst) for an instrument with no bus_config: the default *)
(* slot (in 0..in_chans-1) => inst => (out 0..NCHANS-1).  in_chans comes   *)
(* from the last input file, else NCHANS when record and play are on,      *)
(* else 0.  Instruments are only set up after rtsetparams.                 *)
(***************************************************************************)
GetBusConfig(inst) ==
  LET first == ~configured
      outUse == [i \in Bus |-> (~first /\ OutInUse[i]) \/ i < NCHANS]
      toOut0 == [i \in Bus |-> IF i < NCHANS THEN i
                               ELSE IF first THEN -1 ELSE ToOutPlayList[i]]
      toAux0 == IF first THEN [i \in Bus |-> -1] ELSE ToAuxPlayList
  IN
  /\ ~shutdown /\ rtsetparams
  /\ insts[inst] = NoSlot
  /\ \E inChans \in {0, NCHANS} \cup FileChans :
       insts' = [insts EXCEPT ![inst] =
                   [NewSlot EXCEPT !.in = AppendRange(NoBuses, 0, 0, inChans - 1),
                                   !.in_count = inChans,
                                   !.out = AppendRange(NoBuses, 0, 0, NCHANS - 1),
                                   !.out_count = NCHANS]]
  /\ configured' = TRUE
  /\ OutInUse' = outUse
  /\ ToOutPlayList' = PlayList(toOut0, outUse)
  /\ ToAuxPlayList' = PlayList(toAux0, AuxOutInUse)
  /\ AuxToAuxPlayList' = IF first THEN [i \in Bus |-> -1] ELSE AuxToAuxPlayList
  /\ lastExit' = "NO_ERR"
  /\ UNCHANGED <<rtsetparams, AuxInUse, AuxOutInUse, HasParent, HasChild,
                 InConfig, auxBuffers, wrapped, shutdown, calls>>

\* free_bus_config at engine shutdown: every BusQueue and BusConfig is reset.
FreeBusConfig ==
  /\ ~shutdown
  /\ shutdown' = TRUE
  /\ configured' = FALSE
  /\ insts' = [n \in Inst |-> NoSlot]
  /\ OutInUse' = [i \in Bus |-> FALSE]
  /\ AuxInUse' = [i \in Bus |-> FALSE]
  /\ AuxOutInUse' = [i \in Bus |-> FALSE]
  /\ HasParent' = [i \in Bus |-> FALSE]
  /\ HasChild' = [i \in Bus |-> FALSE]
  /\ InConfig' = [i \in Bus |-> <<>>]
  /\ UNCHANGED <<rtsetparams, auxBuffers, AuxToAuxPlayList, ToAuxPlayList,
                 ToOutPlayList, lastExit, wrapped, calls>>

\* After shutdown nothing more happens.
Terminated == shutdown /\ UNCHANGED vars

Next ==
  \/ RtSetParams
  \/ \E inst \in Inst, args \in Args : BusConfigCall(inst, args)
  \/ \E inst \in Inst : GetBusConfig(inst)
  \/ FreeBusConfig
  \/ Terminated

Spec == Init /\ [][Next]_vars

-----------------------------------------------------------------------------
(***************************************************************************)
(* Properties                                                              *)
(***************************************************************************)
Slot == [in : [Bus -> Int], out : [Bus -> Int], auxin : [Bus -> Int],
         auxout : [Bus -> Int], in_count : Int, out_count : Int,
         auxin_count : Int, auxout_count : Int]

TypeOK ==
  /\ rtsetparams \in BOOLEAN /\ configured \in BOOLEAN
  /\ \A f \in {OutInUse, AuxInUse, AuxOutInUse, HasParent, HasChild} : f \in [Bus -> BOOLEAN]
  /\ InConfig \in [Bus -> Seq(Bus)]
  /\ \A b \in Bus : Len(InConfig[b]) < NBUS    \* bus_count indexes bus_list
  /\ insts \in [Inst -> Slot \cup {NoSlot}]
  /\ auxBuffers \subseteq Bus
  /\ \A l \in {AuxToAuxPlayList, ToAuxPlayList, ToOutPlayList} : l \in [Bus -> -1..NBUS]
  /\ lastExit \in {"NO_ERR", "PARAM_ERROR", "SYSTEM_ERROR"}

\* The aux graph: an edge p -> c when p is in In_Config[c] (p feeds c).
ParentGraph(inConfig) ==
  [node |-> Bus, edge |-> {<<p, c>> \in Bus \X Bus : p \in ToSet(inConfig[c])}]

\* Some bus reaches itself along the edges of G.
Cyclic(G) ==
  LET tc == TransitiveClosure([p, c \in G.node |-> <<p, c>> \in G.edge], G.node)
  IN \E b \in G.node : tc[b, b]

\* The aux graph with the edges auxin -> auxout of a slot added.
WithSlot(G, s) ==
  [G EXCEPT !.edge = @ \cup (ToSet(Entries(s.auxin, s.auxin_count))
                             \X ToSet(Entries(s.auxout, s.auxout_count)))]

\* For every argument list a score could pass next, the breadth-first walk of
\* check_bus_inst_config over In_Config reports LOOP_ERR exactly when the
\* routing it asks for would close a cycle of aux buses.  A false LOOP_ERR
\* kills a legal score; a missed one lets the mixer loop a bus into itself.
LoopCheckExact ==
  ~shutdown =>
    \A args \in Args :
      LET p == ParseArgs(args, ParseStart)
      IN p.exit = "none" =>
           ((CheckBusInstConfig(Graph, p.slot) = "LOOP_ERR")
              <=> Cyclic(WithSlot(ParentGraph(InConfig), p.slot)))

\* The entries of AuxToAuxPlayList the mixer acts on (it skips -1).
LiveAuxPlay == SelectSeq([i \in 1..NBUS |-> AuxToAuxPlayList[i - 1]], LAMBDA b : b # -1)

\* The entries of an output play list the mixer acts on (it skips -1).
LivePlay(l) == SelectSeq([x \in 1..NBUS |-> l[x - 1]], LAMBDA b : b # -1)

\* After any sequence of bus_config and get_bus_config calls that ended
\* without an error, ToOutPlayList and ToAuxPlayList name exactly the buses
\* with OutInUse and AuxOutInUse, each once and in bus order.  The
\* recompute in check_bus_inst_config and get_bus_config writes only a
\* prefix of each list, so this holds only while the flags never lose a
\* bus between two recomputes (a flag set by a failed call included).
PlayListsMatchFlags ==
  ~shutdown /\ lastExit = "NO_ERR" =>
    /\ LivePlay(ToOutPlayList) = SelectSeq(BusSeq, LAMBDA b : OutInUse[b])
    /\ LivePlay(ToAuxPlayList) = SelectSeq(BusSeq, LAMBDA b : AuxOutInUse[b])

\* Until free_bus_config, and while no In_Config list has wrapped, the
\* AuxToAuxPlayList that create_play_order leaves names every aux bus in use exactly once, and
\* nothing else, with the root buses (no aux parent) first.
PlayListCoversAuxBuses ==
  LET l == LiveAuxPlay
      isRoot(b) == b \in Bus /\ ~HasParent[b]
  IN ~wrapped /\ ~shutdown =>
       /\ ToSet(l) = {b \in Bus : AuxInUse[b]}
       /\ Len(l) = Cardinality(ToSet(l))
       /\ \A i, j \in 1..Len(l) : i < j /\ isRoot(l[j]) => isRoot(l[i])

\* Spec, property 2: AuxToAuxPlayList is a topological order of the aux
\* graph, so a bus is mixed into its children only after all of its own
\* parents were mixed into it.  create_play_order emits each leaf's
\* breadth-first RevPlay list backwards, which is not such an order.
PlayOrderTopological ==
  LET l == LiveAuxPlay
  IN ~wrapped /\ ~shutdown =>
       \A i, j \in 1..Len(l) :
         l[i] \in Bus /\ l[j] \in Bus /\ l[i] \in ToSet(InConfig[l[j]]) => i < j

\* The routing the instruments' current BusSlots ask for (each auxin feeds
\* each auxout of the same slot) has no cycle: no aux bus is, through a
\* chain of instruments, mixed into itself.  insert_bus_slot's wrap of
\* bus_count forgets parents the cycle check would need.
RoutingAcyclic ==
  LET slots == {insts[n] : n \in {m \in Inst : insts[m] # NoSlot}}
      edges == UNION {ToSet(Entries(s.auxin, s.auxin_count))
                        \X ToSet(Entries(s.auxout, s.auxout_count)) : s \in slots}
  IN ~Cyclic([node |-> Bus, edge |-> edges])

\* Spec section 3.4: a bus marked AuxInUse or AuxOutInUse has an allocated
\* aux buffer.  bus_config sets AuxOutInUse while it parses, before the
\* call can still fail (a later busname, or the loop check).
AuxBuffersAllocated ==
  \A b \in Bus : ~shutdown /\ (AuxInUse[b] \/ AuxOutInUse[b]) => b \in auxBuffers

\* Every BusSlot's counts index its busCount-long arrays: 0 <= count <=
\* busCount.  bus_config adds endchan - startchan + 1 per busname with no
\* check that startchan <= endchan nor on the total.
SlotCountsInBounds ==
  \A n \in Inst : insts[n] # NoSlot =>
    \A c \in {insts[n].in_count, insts[n].out_count, insts[n].auxin_count,
              insts[n].auxout_count} : 0 <= c /\ c <= NBUS

\* Spec section 5 (bus name grammar): a busname names buses a..b with
\* 0 <= a and b < busCount, and parse_bus_name's warning reads "exceeded
\* bus count (or negative bus)".  parse_bus_chan only rejects
\* startchan >= maxBus or endchan >= maxBus.
BusChanNonNegative ==
  \A b \in Busname : ParseBusName(b) = "NO_ERR" => ParseBusChan(b).start >= 0
====
