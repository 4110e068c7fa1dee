# TLA+ models of RTcmix

This directory holds TLA+ models of the RTcmix sources under `src/`, and the
TLC configurations that check them. `PROJECT.json` lists the components, the
runs, the mutants, the map from each definition to the source lines it
models, the findings and the hazards.

## The system

RTcmix is a real-time synthesis engine driven by scores in the Minc language.
The sources in this repository are:

| part | source | state it keeps | operations |
|---|---|---|---|
| bus routing graph | `src/src/rtcmix/bus_config.cpp` | For each bus: `OutInUse`, `AuxInUse`, `AuxOutInUse`, `HasParent`, `HasChild`, the parent list `In_Config` (`bus_list`, `bus_count`) and `RevPlay`. Also `Visited`, `Bus_Config_Status`, the BusQueue of instrument name to current BusSlot, the play lists `AuxToAuxPlayList`, `ToAuxPlayList` and `ToOutPlayList`, and the aux buffers. | `bus_config`, `get_bus_config`, `check_bus_inst_config`, `insert_bus_slot`, `bf_traverse`, `create_play_order`, `free_bus_config`, `parse_bus_name`, `parse_bus_chan` |
| bus mixing | same file, l. 660-738 | the per-thread `mixVectors` (MULTI_THREAD) | `addToBus`, `mixOperation`, `mixToBus` |
| Minc interpreter | `src/src/parser/minc/Node.cpp` | the list stack (`MAXSTACK` frames), `sMethodThisSymbols`, `sCalledFunctions`, the call depth, the scope and function stacks | node `exct` methods: call, return (a C++ throw), store, op-assign, subscript read/write, member access, block, function and argument declarations |
| Minc builtins | `src/unnamed/part_004` | none (pure functions over values) | `len`, `interp`, `index`, `contains`, `substring`, `printf`, `call_builtin_function` |
| tempo map | `src/unnamed/part_001` | `xtime`, `temp`, `rxtime`, `accel`, `npts`, `tset` | `tempo`, `time_beat`, `beat_time` |
| options | `src/unnamed/part_002`, `part_003` | the RTOption fields (play, record, clobber, devices, buffer sizes and so on) | the RTOption constructor, `readConfigFile`, the setters and getters, and the `set_option` score function |
| WASM build notes | `src/unnamed/part_000` | - | documentation only |

How the parts interact:
- A score runs in the parser thread. Its calls `rtsetparams`, `set_option`,
  `bus_config`, `tempo` and the instrument calls run the operations above.
- Each instrument gets its BusSlot from `get_bus_config` when it is set up.
  If the score configured no buses for it, that call synthesises the default
  `in => inst => out` slot.
- Every block, the audio thread runs the instruments, which mix into the
  buses through `addToBus`. It then walks `ToAuxPlayList`,
  `AuxToAuxPlayList` and `ToOutPlayList` to sum the aux buffers into one
  another and into the outputs.
- The play lists are rewritten by the parser thread on each `bus_config`.
  Each list entry is written under its own lock.

### What is hard, and what makes each part correct

- **Bus graph.**
  - The loop check must reject exactly the routings that close a cycle of
    aux buses.
  - The graph the engine stores must stay acyclic.
  - The play list must name each aux bus in use exactly once, in an order
    where every bus comes after its parents.
  - A rejected call should leave the graph as it was.
  - Every aux bus marked in use must have a buffer.
  - Slot counts must index their busCount-long arrays.

  All of this depends on long sequences of calls: wrapping an `In_Config`
  count takes `busCount` insertions into one bus, and a non-topological
  order needs a diamond of routings. Unit tests hardly reach such cases.
- **Mixer.** A request queued by a worker thread is mixed exactly once. The
  audio thread must never act on a play list that is only half rewritten.
- **Interpreter.** A call restores the call depth, the scope, the list stack
  and the this-stack on every exit: a normal return, a `return` statement
  (a throw), or an error. Nested list frames are bounded by `MAXSTACK`.
- **Builtins.** `substring`, `interp` and `index` agree with their reference
  definitions at every boundary.
- **Tempo.** A tempo map is either fully built or not in force.
  `time_beat` and `beat_time` are inverse to each other.
- **Options.** The options that must be set before `rtsetparams`
  (`record`, `full_duplex`) are refused after it, and are never half
  applied.

The hazards are listed, with their source lines, in `PROJECT.json`.

## Modules

### `BusConfig.tla`: the bus routing graph

**State.** The variables are the per-bus flags (`OutInUse`, `AuxInUse`,
`AuxOutInUse`, `HasParent`, `HasChild`) and `InConfig[b]`. `InConfig[b]` is
the first `bus_count` entries of `BusConfigs[b].In_Config`, as a sequence.
The other variables are:

| variable | models |
|---|---|
| `insts` | the BusQueue, as instrument name to current BusSlot |
| `auxBuffers` | which `aux_buffer`s are allocated |
| `AuxToAuxPlayList`, `ToAuxPlayList`, `ToOutPlayList` | the three play lists |
| `configured` | `Bus_Config_Status` |
| `rtsetparams` | whether `rtsetparams` has been called |
| `lastExit` | the RTExit code of the last call |
| `shutdown` | whether `free_bus_config` has run |
| `wrapped` | history: some `In_Config` list wrapped |
| `calls` | the number of `bus_config` calls so far, bounded by `MaxCalls` |

A BusSlot is a record of four `busCount`-long arrays and their counts, as in
the code, so out-of-range counts are visible. `RevPlay`, `Visited` and
`Checked` are scratch state that is reset at the start of every top-level
walk. They appear only as parameters of the recursive operators.

**Actions.** Each action is one whole call. A `die` followed by `RTExit`
ends the call with its error code, and what the call had already written
stays written. This is what the code does when the engine survives the exit
(the embedded build). The actions are:

- **`BusConfigCall(inst, args)`** is `bus_config`. Busnames are records
  `[type, lo, hi, neg]`: the text of a busname is abstracted to its type,
  its numbers and whether the channel text starts with `-`; the type
  `"bad"` stands for a name no specifier matches. **`ParseBusChan`** is
  `parse_bus_chan`: `strtol` of the text, then of the text after its first
  `-`, so `aux -1 out` reads as buses -1 to 1. The action does the following, in order:
  - **`ParseArgs` / `AddBusname`** — the parse loop. It includes every `die`
    check, and it sets `OutInUse` and `AuxOutInUse` as it goes.
  - **`PlayList`** — the recompute of `ToOutPlayList` and `ToAuxPlayList`
    at the start of `check_bus_inst_config`. It rewrites only the prefix of
    each list.
  - **`Traverse`** — the breadth-first loop check. It models the
    CheckQueue, `Checked`, `Visited` and `RevPlay`.
  - **`InsertBusSlot`** — `insert_bus_slot`, including the wrap of
    `bus_count` to 0 at `busCount`.
  - the allocation of aux buffers and the chain counts;
  - **`CreatePlayOrder` / `PlayLeaves`** — `create_play_order`. Roots come
    first. Then, for each leaf, a `bf_traverse` from it, which resets
    `Visited` only the first time, and whose `RevPlay` is read backwards.
- **`GetBusConfig(inst)`** is the default slot of `get_bus_config`:
  - the first-call initialisation;
  - `OutInUse` and `ToOutPlayList` for the first `NCHANS` buses;
  - an input channel count of 0, or `NCHANS`, or that of an open input
    file.
- **`FreeBusConfig`** is `free_bus_config`. It resets the BusQueue and
  every BusConfig. It is the last step of a run (`Terminated` stutters after
  it).
- **`RtSetParams`** is the call that enables `bus_config`. Its code is not
  under `src/`.

**Properties.**

| property | kind | what it says |
|---|---|---|
| `TypeOK` | invariant | Every variable has its type. Every `In_Config` count is a valid index for the next write. |
| `LoopCheckExact` | invariant | For every argument list a score could pass next, the walk reports `LOOP_ERR` if and only if the routing would close a cycle (computed with `TransitiveClosure`). |
| `PlayListsMatchFlags` | invariant | After a call that ended without an error, the live entries of `ToOutPlayList` and `ToAuxPlayList` are exactly the buses with `OutInUse` and `AuxOutInUse`, each once, in bus order. The recompute writes only a prefix of each list, so a flag that lost a bus between two recomputes would leave a stale entry after it. |
| `PlayListCoversAuxBuses` | invariant | While nothing has wrapped, the live play list names each aux bus in use exactly once and nothing else, with the roots first. |
| `PlayOrderTopological` | invariant | Spec property 2: every parent precedes its child in the play list. |
| `RoutingAcyclic` | invariant | The routing of the instruments' current slots has no cycle. |
| `AuxBuffersAllocated` | invariant | Spec section 3.4: a bus marked `AuxInUse` or `AuxOutInUse` has an aux buffer. |
| `BusChanNonNegative` | invariant, no run | Spec section 5 and `parse_bus_name`'s warning ("exceeded bus count (or negative bus)"): an accepted busname starts at a bus >= 0. TLC finds it false in the initial state: `parse_bus_chan` accepts `aux -1 out` as buses -1 to 1, and `bus_config` would then index `BusConfigs[-1]`. |
| `SlotCountsInBounds` | invariant, no run | Every slot count is in `0..busCount`. One call breaks it: `aux 2-0 out` gives `auxout_count = -1`, and two `aux 0-2 out` give 6 on a 3-bus array. |

### `Builtins.tla`: the Minc builtins

**State.** The builtins have no state of their own. The model keeps:
- `call`, the name and arguments of the last `call_builtin_function`;
- `status`, what that call returned: 0, or `FUNCTION_NOT_FOUND` for an
  unknown name;
- `ret`, the `*retval` it produced;
- `oob`, whether the call wrote outside a buffer it had allocated;
- `died`, the value `minc_die` threw with during the call (`error`), or
  `NoDeath`.

A MincValue is a record whose fields depend on its type:
- a float's `val` is a count of 1/16 units (`Scale`), so the arithmetic of
  `interp` is exact on the inputs;
- a string's `str` is a sequence of characters, and `NullString` is the
  NULL MincString;
- lists, handles and maps carry an `id`, because `index` compares them by
  identity. A list also has `elems`, and a map is abstracted to its keys.

`Undefined` stands for a result the C++ leaves undefined: a type the code
does not check before it reads a union member, or `strlen(NULL)`.

**Actions.**
- **`CallBuiltin(name, args)`** is `call_builtin_function`. It looks the
  name up in `builtin_funcs`, then runs the whole builtin. The builtins are
  operators:
  - `MincLen`;
  - `MincInterp`, with `InterpPoint` and `InterpSingle`;
  - `MincIndex`, with the comparison chain `IndexMatch` and the loop
    `IndexLoop`;
  - `MincContains`, with `StrStr`;
  - `MincSubstring`, with the clamps and the terminator write `Cut`;
  - `MincType`, with `MakeTypeString`. The name's characters are
    abstracted to the one symbol of the type;
  - `MincError`, which dies and sets no `*retval`.

  Each operator keeps every argument check and early return of its
  function.
- **`Consume`** is the calling node taking the return value before the
  next call.

**Properties.**

| property | kind | what it says |
|---|---|---|
| `IndexFirstMatch` | invariant | `index(list, item)` is the position of the first element equal to `item` by the code's own comparison (value for numbers and strings, identity otherwise), or -1. |
| `InterpEndpoints` | invariant | `interp(list, 0)` is the first element and `interp(list, 1)` the last, for lists of floats. |
| `SubstringConcat` | invariant, no run | Spec property 3: `substring(s, i, j) + substring(s, j, len(s)) = substring(s, i, len(s))` for `0 <= i <= j <= len(s)`, with `+` the Minc string concatenation (`Concat`). |
| `InterpPiecewiseLinear` | invariant, no run | The spec: `interp` returns the linear interpolation between the two elements adjacent to the fraction. |
| `SubstringInBounds` | invariant, no run | `substring` never writes outside the buffer it allocates. |

**Observed, with no run of their own.** One call reaches each of these, so a
unit test shows them as well as a model checker. Checking `MCBuiltins` with
the invariant named gives each counterexample.
- `InterpPiecewiseLinear`: `interp({0, 1, 2}, 0.75)` returns 1.75, not 1.5.
  The code weights the segment by the global fraction.
- `SubstringInBounds`: `substring("", 0, 1)` writes `sbuffer[-1]`.
- `SubstringConcat`: `substring` returns NULL when `i = j` and when
  `j = len(s)`, and `+` takes `strlen` of a NULL operand, which is
  undefined. So `substring("a", 0, 1) + substring("a", 1, 1)` has no
  defined result.
- `error()` with no argument reads `args[0]` anyway. That is the slot of
  the static `sMincList` that the previous call filled. The model's `died` is
  `Undefined` then.
- `printf` advances the print pointer twice after the `]` of `%l`. After
  `%z` it advances by a stale or uninitialized `nchars`. The print buffer's
  helpers are not under `src/`, so these two are listed as hazards only.

`substring` clamps its end index to
`len - 1`, so `substring(s, 0, len(s))` is one character short of `s`. Spec
section 6 expects the whole string.

### `Tempo.tla`: the tempo map

**State.** The variables have the names of the static variables of
`part_001`: `BASIS`, `tset`, `npts`, and the `TLEN + 1` long arrays
`xtime`, `temp`, `rxtime` and `accel`. Real numbers are fixed point. A
quantity q is the integer `q * SC` with `SC = 10000`, and `sqrt` is the
integer square root `ISqrt`.

**Actions.**
- **`TBase(b)`** is `tbase`.
- **`TempoClear`** is `tempo()` with no arguments.
- **`Tempo(p)`** is `tempo(p, n_args)`, as one step in the code's order:
  - clear the first `TLEN` slots of each array (`Cleared`);
  - the read loop `ReadPairs`, which stops at `TLEN` or at the last
    argument, and returns through `die` on a zero tempo;
  - on success, the sentinel, `temp[0] = temp[1]`, and the precomputation
    loop `Precompute` over `rxtime` and `accel` (using `Accel` and
    `SegmentBeats`). Then `tset = 1`.

  A `die` ends the call with what it had written still written, and `tset`
  as it was.

`time_beat` and `beat_time` are pure reads of the map. They are the
operators `TimeBeat` and `BeatTime`, which share the segment search
`Segment`.

**Properties.**

| property | kind | what it says |
|---|---|---|
| `TypeOK` | invariant | `npts` stays within `0..TLEN/2 + 1`, so the sentinel and the slot after it lie inside the arrays. |
| `RoundTrip` | invariant | Spec property 4: on every map in force without a zero tempo, `time_beat(beat_time(v))` and `beat_time(time_beat(v))` are within `Tol` of `v` at every probe `v >= 0`. |
| `MapUsable` | invariant | A map in force has no zero tempo, since `time_beat` divides by `temp[m]`. |

### `Options.tla`: the option store and `set_option`

**State.**
- `opts` is the Option object. It maps the boolean options, the device
  strings and `bufferFrames` to their values. A device string is a model
  value or `"NULL"`.
- `phase` is where the program is: `"new"`, then `"startup"` once the rc
  file is read, then `"score"`.
- `rtsetparams_called` records whether audio has been set up.
- `ret` is what the last `set_option` returned.
- `recordAtSetup` is a history variable: the `record` option that
  `rtsetparams` set audio up with.

An option string is abstracted to what `set_option` extracts from it: the
key, matched without case against `param_list`, and the text after `=`
(`None` when there is no `=`).

**Actions.**
- **`ReadConfigFile(rc)`** is `Option::readConfigFile`. An rc file is
  abstracted to its result and, for each key, whether `getValue` found a
  value of the right type, and which value.
- **`SetHostOption(c)`** is `set_bool_option`, `set_double_option` or
  `set_string_option`.
- **`StartScore`** ends the host's configuration.
- **`SetOption(args)`** is the whole `set_option`. It runs the argument
  loop `SetOptionLoop` and the per-argument switch `SetOptionArg`. The first
  `die` returns -1, and the arguments before it stay applied.
  `FullDuplex` is the `FULL_DUPLEX` case, with both of its `rtsetparams`
  checks. A device option goes through `SetStringOption`, the
  `Option::device` family, which keeps its own copy of the string.
- **`RtSetParams`** sets audio up once, with the record option the store
  holds. Its code is not under `src/`.

**Properties.**

| property | kind | what it says |
|---|---|---|
| `TypeOK` | invariant | Every option keeps the type of its setter, and `ret` is 0 or -1. |
| `RecordFixedAtSetup` | invariant, no run | Spec sections 6 and 7: after `rtsetparams`, `record` is on only if audio was set up with it. It fails on the code: `set_option("RECORD_ON")` after `rtsetparams` turns record on with no check, while spec section 7 calls this fatal and the `FULL_DUPLEX` case of `set_option` dies on it. One call shows it, so it has no run; checking `MCOptions` with this invariant gives the trace. |

**Observed, with no run of its own.** `FULL_DUPLEX_OFF` after `rtsetparams`
with play off keeps `record` on, and then dies. So a score cannot turn full
duplex off once audio is set up.

### `MixerST.tla` and `BusMixer.tla`: the bus mixer

Instruments mix their output into the buses with `addToBus(type, bus, src,
offset, endfr, chans)`. It adds `src[k * chans]` into frame `offset + k` of
`aux_buffer[bus]` or `out_buffer[bus]`. The code has two builds:
- without `MULTI_THREAD`, `addToBus` adds the samples at once;
- with it, `addToBus` pushes a `MixData` onto the calling worker's
  `mixVectors` entry. After the parallel phase, the main thread's
  `mixToBus` applies every vector in thread order with `mixOperation` (a
  loop unrolled by four, then a remainder loop) and clears it.

**`MixerST`** is the first build, and the abstract specification. A request
is a record of `addToBus`'s arguments. The constant `Work` gives each worker
the requests its instruments issue in a block. The source buffer's sample
`x` has the value `x + 1`, so a sample read from the wrong place changes
the sums. The variables are:
- `buf`, the bus buffers;
- `todo`, the requests of the block not issued yet;
- `blk`, the block.

The actions are `addToBus(t, r)` and `NextBlock`.

**`BusMixer`** is the second build. It adds these variables:
- `mixVectors`;
- `phase`, either the parallel phase or the mix after the barrier;
- the position `(i, j)` of `mixToBus`'s two loops.

The actions are:
- `addToBus(t, r)`, the push;
- `Barrier`, the end of the parallel phase (spec section 5; the barrier
  is not in these files);
- `MixNext`, one `mixOperation` of the `for_each`;
- `ClearVector`, the `vector.clear()` and the step to the next thread;
- `EndBlock`, the start of the next block's parallel phase;
- `Terminated`, which stutters after the last block.

`mixOperation` is translated with its two loops: `framesOverFour` rounds of
four, then `framesRemaining` frames from where the first loop left `dest`
and `src`. `>> 2` on an int is a floor division.

**Refinement.** `ST == INSTANCE MixerST WITH buf <- AbsBuf`. The mapping adds
to the real buffers what the single-threaded `addToBus` would add for each
`MixData` still pending:
- in the parallel phase, every entry is pending;
- after the barrier, only the entries past `(i, j)` are.

Each `MixNext` then has to add exactly what the pending entry stood for.
This holds only if the unrolled `mixOperation` reads the same samples as
the plain loop. Entries that are mixed but not yet cleared must not be
mixed again in a later block.

**Fairness.** `BusMixer`'s `Spec` has weak fairness on:
- each worker's `addToBus` of each request: a worker runs every
  instrument it is given in a block;
- `Barrier`, `MixNext`, `ClearVector` and `EndBlock`: the audio loop
  renders block after block, and `mixToBus` is a plain loop with no waits.

**Properties.**

| property | kind | what it says |
|---|---|---|
| `ImplementsST` | refinement (`PROPERTY ST!Spec`) | The multi-threaded mixer implements the single-threaded one. Every request is summed into its bus exactly once, with the samples the plain loop reads. |
| `BlocksDrained` | liveness | Every block eventually reaches a state where `mixToBus` has mixed every pending `MixData`. |

**Observed, with no run of its own.** For `endfr < offset`,
`framesOverFour` is -1 and `framesRemaining` is `4 + frames`. So
`mixOperation` mixes up to three frames where the other build mixes none.
Adding such a request to `MCWork` makes `ImplementsST` fail. Whether
`addout`, outside these files, can pass one is not known here.

### `MincCall.tla`: the Minc tree interpreter

`Node.cpp` runs a parse tree by calling `exct()` on its root. Each node
class's `doExct` runs its children and then acts. A `return` is a C++
`throw` of the `NodeRet` node, caught by `NodeCall::callMincFunctionFromNode`.
An error is `minc_die`, which throws in the embedded build.

**State.** The parse tree is the constant `Tree`, from node ids to records
(kind, children `ch`, and the attributes of the node class). The variables
are the static state of `Node.cpp` and the fields of the nodes:

| variable | models |
|---|---|
| `nodeValue`, `nodeSymbol` | `Node::v` and `Node::symbol()` of every node: one per node, shared by every activation of a recursive function |
| `globals`, `scopes` | the global symbols and the stack of local scopes |
| `functionStack` | the scope stacks saved by `push_function_stack` |
| `structTypes`, `sNewStructType` | the struct type table, and the type a `NodeStructDef` is filling |
| `sMincList`, `list_stack` | the current argument list and the `MAXSTACK` saved frames |
| `sMethodThisSymbols`, `sCalledFunctions`, `sFunctionCallDepth` | the this-stack, the called-function names, the call depth |
| `inCalledFunctionArgList`, `sArgListLen`, `sArgListIndex` | the walk of a called function's argument list |
| `lists` | the `MincList`s, from id to elements; a list value holds only its id, so every name holding it shares it (spec section 3.1) |
| `listPeak` | ghost: the most frames `list_stack` has held |
| `done`, `aborted`, `last` | the statements of the pass run so far, whether one failed, and the last one's outcome |

The symbol table (`Symbol.cpp`) is not under `src/`. `lookupSymbol`,
`installSymbol`, the scope operators and `handleThis` are modelled from its
contract in spec section 4.2, and are marked `spec_modelled` in the map.

**Executing a node.** `Exct(n, c)` is a RECURSIVE operator. It takes a
context `c`, a record of all the state above plus `out`, and returns the
context after `n->exct()`. `out` is `"ok"`, `"ret"` while a `NodeRet` is
thrown (`thrown` names it), or `"err"` after `minc_die`. Each `doExct` is
one operator (`NodeCall`, `NodeStore`, `NodeOpAssign`, `NodeWhile`,
`NodeArgListElem`, `NodeMemberAccess`, ...). Each is written as a chain of
steps: the operator runs a child, and a step operator (`CallArgs`,
`CallDispatch`, `StoreLhs`, `ArgBind`, ...) takes the resulting context and
either propagates a throw or goes on. A step stands for the lines of the
handler after that `exct()` call. `callMincFunctionFromNode` keeps every
exit path of the code:
- the normal end;
- the `catch (Node *)` of a return, which restores the depth and the scope;
- the `catch (...)` of an error, which pops the function stack, decrements
  the depth, and rethrows without popping `sCalledFunctions`.

`NodeOp` and `NodeRelation` read both children's value fields after both
children have run, as the references `v0` and `v1` in the code do.

**Operators.** `OpOf` is `NodeOp::doExct`'s dispatch on the two operand
types:
- two floats go to `do_op_num`. `%` is C's `(long) a % (long) b`
  (`LongRem`, the remainder with the dividend's sign), and a divisor in
  (-1, 1) dies as the code's guard says. `**` is not modelled, because
  `pow` leaves the multiples of 1/16 that the model's floats are;
- a list and a float go to `do_op_list_float`, element first. For `-`
  and `/` with the float on the left they go to `do_op_float_list`;
- two lists go to `do_op_list_list`, which concatenates for `+`;
- a string and a float, or two strings, go to `do_op_string`. A float
  operand is first formatted with `snprintf("%g")` (`FmtG`): its sign,
  the decimal digits of its integer part, and its fraction without
  trailing zeros. `+` concatenates, and a NULL operand of `+` is a NULL
  dereference. `-`, `*` and `/` warn and give a NULL string.

Each list result is a new list in the heap (`NewList`). The pairs the
code only warns about (`OpWarns`) leave the node's value as it was. A NULL
list operand of a scalar operator is dereferenced, and the model ends the
statement there. So does `long % 0` in the list arms, which traps. Handles
as operands are not modelled: `minc_binop_*` is not under `src/`.

**Actions.** `Init` runs the prelude, the score's definitions, in order.
Then:
- **`RunStatement(s)`** is the parser's driver executing one top-level
  statement of the pass. A statement that fails ends the pass (`aborted`).
- **`clear_tree_state`** is the host's call between passes. It resets the
  static stacks and counters, and keeps the symbols and the nodes.

The score, in `MCMincCall.tla`, defines:
- a struct `P` with a method `get`;
- a recursive `fact`;
- an iterative `ifact` (a `while` loop with `*=` and `-=`);
- an iterative `tri` (a `for` loop over an `if`-`else` whose condition
  uses `&&`, `||` and `!`, and whose else branch adds `-k`);
- a `setlast(list l)` that writes `l[-1]` and returns `len(l)`;
- an `h(list l)` that returns `l + gv`, with `gv` a global;
- two objects, `p = {1}` and `q = {2}`.

Its statements are calls of these, a method value `m = q.get` called later
as `m()`, `len` of a list, calls with too few and too many arguments, and
the nested `p.get(q.get)`. The statements `MCCalc`, the last of the
prelude, run the calls that neither fail nor depend on the statements
after it, in the order written: `len`,
`ifact(3)`, `tri(3)`, then a list block: `la = {1, 2}; lb = la; lb[3] = 7;
ln = setlast(la); lv = la[1 / 2]; lw = lb[3]; list lz; lz[1] = 5; lm =
10 - la; lc = la + lb; gv = 1; h1 = h(la); gv = p; h2 = h(la)`, and a map
block: `map mz; mz[1] = 5; mz[2] = 6; my = mz; my[1] = 7; mv = mz[1]; mn =
len(mz)`, a modulo block: `md = 7 % 2; mq = -7 % 2; ml = la % 2`, and a
string block: `sa = "ab" + 3 / 2; sb = -1 + sa; sc = sa[-1]; se = sa - "b";
sn = len(sb)`. It runs once, in `Init`. The properties about it hold once
its last store has bound `sn` (`CalcRan`).

**Subscripts.** `readAtSubscript` and `writeToSubscript` are modelled for
lists, with every branch:
- a read past either end reads the last element;
- a fractional index interpolates between two float elements;
- a write with a negative index goes to the last slot;
- a write past the end grows the list with void slots;
- a write to a NULL list (`list lz`) makes a new list for the symbol only.

For maps, `searchWithMapKey` and `writeWithMapKey` are modelled over a heap
of MincMaps (`maps`), each a function from keys to values:
- a read of a NULL map, or of a missing key, dies;
- a write is an upsert, and to a NULL map it makes a new map for the symbol;
- both take the map from child(0)'s symbol, and a child without one is a
  NULL dereference.

For strings, `readStringAt` is the string arm of `NodeSubscriptRead`. It
takes the string from child(0)'s symbol and truncates the float index. An
index below 0 or past the end reads the last character. For `""` the last
index is -1, and `strncpy` copies the byte before the buffer (`StrayByte`).

**Properties.**

| property | kind | what it says |
|---|---|---|
| `TypeOK` | invariant | `push_list` never stores past the `MAXSTACK` entries of `list_stack`, and no list holds more than `MAXDISPARGS` values. |
| `ContextClean` | invariant | Spec section 8, and the call protocol: after every statement of a pass that has not failed, each `push_list`, `push_function_stack`, `++depth` and `sCalledFunctions.push_back` has been undone. |
| `MethodDispatch` | invariant | Spec S5: `p.get()` reads `p`'s `x`, and `m = q.get; m()` reads `q`'s, in any order of the statements and of the host's `clear_tree_state`. |
| `CallResults` | invariant | Calls that do not re-enter an active function compute their definitions: `ifact(3) = 6`, `fact() = 0! = 1` with the argument defaulted to 0, and `len({1, 2}) = 2`, and `tri(3)` equals its reference sum `TriFrom(1, 3)`. |
| `ListsShared` | invariant | Spec section 3.1 and S4: after `lb = la`, the growing write `lb[3] = 7` and the write through `setlast`'s parameter are seen through both names, so `lb[3]` reads 9 and `len` sees 4 slots. `la[1 / 2]` interpolates to 1.5, and `lz[1] = 5` on a NULL list gives `{void, 5}`. |
| `ListOpsFresh` | invariant | The comments of the list operators: the result is a new list, "so that child's list is unchanged". After `lm = 10 - la`, `lc = la + lb` and `h1 = la + 1`, `la` still holds `{1, 2, void, 9}`. `10 - la` puts the scalar first, and `lc` is `la`'s elements followed by `lb`'s. |
| `MapsShared` | invariant | Spec sections 3.1 and 4.3: maps are shared by reference, and a write is an upsert that creates a NULL map. After `map mz; mz[1] = 5; mz[2] = 6; my = mz; my[1] = 7`, both names hold one map, `mz[1]` reads 7 and `len(mz)` is 2. |
| `ModuloTruncates` | invariant | Spec section 4.1: `%` is integer modulo on the truncated operands. `7 % 2` is 1, `-7 % 2` is -1 (C's remainder keeps the dividend's sign), and `la % 2` maps 1, 2, 9 to 1, 0, 1 and copies the void slot. |
| `StringOpsResult` | invariant | Spec sections 4.1 and 4.3: a float and a string concatenate, with the float formatted by `%g`, and a float index into a string returns one character. `"ab" + 3 / 2` is `"ab1.5"`, `-1 + sa` is `"-1ab1.5"`, `sa[-1]` is `"5"`, and `len` counts 7. |
| `StringErrorEmpty` | invariant, no run | Spec section 4.1: "other string ops warn and return empty". It fails on the code: `se = sa - "b"` is a NULL string. |
| `OpErrorSafeValue` | invariant, no run | Spec section 7: an operator error is recoverable and yields a safe value (0 or an empty list). It fails on the code: with `gv = p`, `h(la)` warns and returns the list its previous call built, so `h2` and `h1` are the same list. |
| `NoListCycle` | invariant, no run | Spec section 9: no value refers back to itself, so reference counting frees every list. It fails on the code: `lc = {1}; lc[0] = lc` stores the list in its own slot, and checking a score with those two statements gives the trace. |
| `RecursionFrames` | invariant | Spec line 135: each active call has its own frame, so `fact(3) = 6`. |
| `MethodCallBindsOwnObject` | invariant | `p.get(q.get)` binds `this` to `p`. |

**Observed, with no run of their own.**
- `handleThis` takes `back()` of `sMethodThisSymbols`. After `m = q.get`, a
  `clear_tree_state` empties the stack, and `m()` in the next pass reads
  `back()` of an empty vector, which is undefined behaviour. The model ends
  such a call as a crash (`out = "err"`).
- The arity check is in `NodeArgListElem`. A function with no parameters
  has no such node, so `p.get(5)` is accepted.
- When `copyArguments` fails, the `catch (...)` decrements a call depth it
  never incremented, leaving -1 until `clear_tree_state`.
- `lc[0] = lc` stores a list in its own slot (`NoListCycle`), a cycle
  that spec section 9 says the language cannot express.
- `OpErrorSafeValue`: for a list and a struct, `NodeOp::doExct` only
  warns, and `this->v` keeps the value of the node's previous execution.
  `h2 = h(la)` after `gv = p` is the list `h1` (list 8 in TLC's trace),
  aliased to it. Adding `OpErrorSafeValue` to `MCMincCall.cfg` gives the
  violation in the initial state.
- `do_op_list_float` and `do_op_float_list` compute `long % long` with no
  check of the divisor, where `do_op_num` dies for a divisor in (-1, 1).
  So `{1, 2} % 0.5` divides by zero and traps; `OpOf` ends the program
  there. A float `/ 0` is not checked either and gives `inf`. The spec
  says both yield a safe zero.
- `StringErrorEmpty`: `do_op_string` gives a NULL string for `-`, `*` and
  `/`, where the spec says empty. `len` sees 0 either way, but a later
  subscript dies ("attempt to index a NULL string") and a later `+`
  passes NULL to `strlen`. Adding `StringErrorEmpty` to `MCMincCall.cfg`
  gives the violation in the initial state.
- Subscripting `""` clamps the index to -1 and copies the byte before the
  string's buffer. The model gives `StrayByte`; no program here does it.
- `readAtSubscript` takes the list from its first child's value field
  after the index has run, the same node sharing as `NodeOp`'s: an index
  that recursively runs the same subscript node reads the inner call's
  list.

## Runs

| run | cfg | expect | what it shows |
|---|---|---|---|
| `bus_graph` | `MCBusConfig.cfg` | pass | `TypeOK`, `PlayListsMatchFlags`, `PlayListCoversAuxBuses` and `LoopCheckExact` hold over every score of up to 3 `bus_config` calls (11,278 distinct states, about 35 s). The calls are every auxin => auxout routing over single buses and two-bus ranges, eight calls that take each error path, default configurations, and shutdown. |
| `play_order` | `MCPlayOrder.cfg` | violation | The routings 0->1, 1->2 and {1,2}->3 give the play order 0,2,1,3, where 2 comes before its parent 1. |
| `routing_wrap` | `MCRoutingWrap.cfg` | violation | On two buses, configuring `aux 0 in, aux 1 out` twice wraps `In_Config[1]` to empty, and `aux 1 in, aux 0 out` is then accepted. |
| `rejected_config` | `MCRejectedConfig.cfg` | violation | `aux 1 out, out 0` dies, and `aux 0 in, aux 0 out` fails the loop check. Both leave `AuxOutInUse` set on a bus with no buffer. |
| `builtins` | `MCBuiltins.cfg` | pass | `IndexFirstMatch` and `InterpEndpoints` hold over every call of the seven builtins and an unknown name (11,377 distinct states, a few seconds). The inputs are strings of up to 3 characters over {a, b}, lists of up to 3 items, fractions from -0.25 to 1.25 in quarters, indices 0..4, and calls with wrong argument counts and types. |
| `mincall` | `MCMincCall.cfg` | pass | `TypeOK`, `ContextClean`, `MethodDispatch`, `CallResults`, `ListsShared`, `ListOpsFresh`, `MapsShared`, `ModuloTruncates` and `StringOpsResult` hold. The score's five statements run in every order after the prelude, each at most once per behaviour, with `clear_tree_state` between any two (243 distinct states, about 25 s with coverage). The statements are `b = p.get()`, `m = q.get`, `d = m()`, `y = fact()` and `w = fact(4)`. |
| `recursion_frames` | `MCRecursionFrames.cfg` | violation | `a = fact(3)` gives 4. The recursive call overwrites the value of the `n` node that the caller's `NodeOp` still refers to: 3 * fact(2) becomes 2 * 2. |
| `method_this` | `MCMethodThis.cfg` | violation | `c = p.get(q.get)` gives 2, `q`'s `x`. The argument `q.get` pushes `q` on `sMethodThisSymbols` after `p`, and `handleThis` takes the back. |
| `mixer` | `MCBusMixer.cfg` | pass | `ImplementsST` and `BlocksDrained` hold over two blocks, in which two workers push five requests in every order (270 distinct states, 1 s). |
| `tempo` | `MCTempo.cfg` | pass | `TypeOK` and `RoundTrip` hold over every map of 1 to 3 breakpoints at 0, 2 and 4 s with tempos 60, 120 or 0, with base changes, clears and rejected calls (258 distinct states). |
| `tempo_reject` | `MCMapUsable.cfg` | violation | `tempo(0, 60)` then `tempo(0, 0)`: the second call dies after clearing the arrays, and `tset` stays 1 over a zero tempo. |
| `options` | `MCOptions.cfg` | pass | `TypeOK` holds over three rc files, the host setters, every `set_option` list of one or two options and `rtsetparams` (7,720 distinct states, a few seconds). |

Each property of a passing run is broken by a mutant of the code it is about:

| mutant | property it breaks |
|---|---|
| the wrap test off by one (`AppendParentLate`) | `TypeOK` |
| `out_ctr` and `aux_ctr` not reset before the recompute (`PlayListNoReset`) | `PlayListsMatchFlags` |
| a roots loop without the `HasParent` test (`CreatePlayOrderAllRoots`) | `PlayListCoversAuxBuses` |
| comparing only the first auxout (`CheckFirstAuxout`) | `LoopCheckExact` |
| the `index` loop without its `break` (`IndexLoopNoBreak`) | `IndexFirstMatch` |
| the interpolation with its ends swapped (`InterpSwapped`) | `InterpEndpoints` |
| `npts` advanced before the pair is stored (`ReadPairsEarly`) | `TypeOK` (tempo) |
| the precomputation without the previous beats `prvbt` (`PrecomputeNoPrvbt`) | `RoundTrip` |
| no check for an empty value after `=` (`MissingValueNever`) | `TypeOK` (options) |
| `framesRemaining` without the `<< 2` (`mixOperationNoShift`) | `ImplementsST` |
| `mixToBus`'s loop stopping one thread short (`MoreThreadsShort`) | `BlocksDrained` |
| `push_list` without its `MAXSTACK` check (`push_list_unchecked`) | `TypeOK` (mincall) |
| the end of a call that does not pop `sCalledFunctions` (`EndCallKeepName`) | `ContextClean` |
| `handleThis` taking the front of the this-stack (`handleThisFront`) | `MethodDispatch` |
| a `while` that tests its condition once (`NodeWhileOnce`) | `CallResults` |
| a subscript write that copies the list and rebinds the symbol (`writeToSubscriptCopy`) | `ListsShared` |
| a map write with `std::map::insert`, which keeps an existing key's value (`writeWithMapKeyInsert`) | `MapsShared` |
| `%` as floored modulo, the remainder taking the divisor's sign (`LongRemFloored`) | `ModuloTruncates` |
| the float operand formatted with `%f`, six decimals kept (`FmtGFixed`) | `StringOpsResult` |
| `float - list` and `float / list` computed element first, as for the symmetric operators (`do_op_float_list_swapped`) | `ListOpsFresh` |

**Bounds.**
- `bus_graph` uses `busCount` 3, so that a chain 0->1->2 and a cycle
  through three buses exist. With busCount 3, an `In_Config` list wraps on
  its third parent.
  - Up to 3 calls let a score build a chain and then try to close it.
  - `NCHANS` is 1.
  - There are two instrument names, which form a symmetry set. The model
    treats names alike: only their equality matters, as in the
    `strcmp`-keyed BusQueue.
  - The bus violation runs use the smallest `busCount` that shows each
    case: 4 for the diamond, 2 for the wrap.
- `builtins` covers every boundary of the clamps:
  - indices below, at and past the end of strings of length 0 to 3;
  - fractions below 0 and above 1;
  - lists of length 0 to 3, where three is the smallest length at which
    global and local interpolation differ;
  - a negative start index.
- `tempo` uses `TLEN` 6, so the read loop takes all three pairs and `npts`
  reaches its largest value, `TLEN/2 + 1`. The real `TLEN` of 20 only
  repeats the same loop.
  - Tempos 60 and 120 give both constant segments and accelerating ones.
  - A tempo of 0 is the die path.
  - `SC` 10000 with `Tol` 25 (2.5 ms or 0.0025 beats) bounds the rounding
    of the fixed-point square root. The largest error over the inputs is
    22 units.
- `options` uses the following inputs:
  - two devices and one frame count;
  - three rc files: one missing, one that sets record on and play off, and
    one with a mistyped record value;
  - one host call of each setter;
  - single options over the flag labels, both `FULL_DUPLEX` labels,
    devices with and without a value, an empty value and an unknown key;
  - two-option lists where the second option is `FULL_DUPLEX` or a flag
    and the first is `PLAY_OFF`, `RECORD_ON` or an unknown key.

- `mincall` uses `MAXSTACK` 3, exactly the depth of `fact(3)`: the call
  in the statement and two recursive calls each push a list frame. So
  `fact(4)` is the smallest call that overflows, and `w = fact(4)` takes
  the die path of `push_list`.
  - `MAXDISPARGS` 2 lets `len({1, 2})` fill one list, and lets `fact(1, 2)`
    pass more arguments than parameters.
  - The list block writes past the end, with a negative index, through a
    parameter, and into a NULL list, and reads with a fractional index:
    every branch of the list subscripts except the errors. The modulo
    block has a positive and a negative dividend and a list with a void
    slot. The string block formats a fraction and a negative number, on
    either side of `+`, reads with -1, and takes a warned operator's NULL
    result. The map block
    writes a NULL map, writes a new key, overwrites a key through a second
    name, and reads. It covers every branch of the map subscripts except
    the errors.
  - The definitions and `MCCalc` run once, in order, before any
    statement, as at the head of a score. The five statements, in any
    order, with
    `clear_tree_state` anywhere, give every order of a method access and
    its call, and every position of the host's clear between them.
  - The statement that re-enters `fact` is checked by `recursion_frames`
    alone, because `RecursionFrames` fails on it.

- `mixer` uses two workers, so that the vectors are walked in thread
  order and one worker's pushes interleave with the other's. Worker 0 has
  three requests and worker 1 two, so the vectors differ in length.
  - The frame counts 6, 3, 4, 5 and 0 take `mixOperation` through one
    round of four with 2, 0 and 1 frames left over, through the remainder
    loop alone, and through neither.
  - `chans` 2 makes the source stride visible.
  - Two blocks are the fewest in which a vector left uncleared would be
    mixed again.

**Fairness.** The mixer's `Spec` assumes weak fairness of the workers and
of the main thread, as described in its section above. No other module
assumes any: their properties are safety properties, and the score
decides which calls happen.

**Findings.** The code bugs and divergences these runs show are in
`PROJECT.json`:
- the play order is not topological;
- the wrap lets a cycle in;
- a rejected call leaves an aux bus in use with no buffer;
- a `tempo()` that dies leaves a cleared map in force;
- a recursive Minc function shares its nodes' values between frames, so
  `n * fact(n - 1)` is computed wrong;
- an uncalled method access in an argument rebinds `this` of the call.

One more finding is about the spec, not the code. Spec scenario S3 expects
`bus_config("B", "aux 1 in", "aux 0 out")` to succeed after
`bus_config("A", "aux 0 in", "aux 1 out")`. That contradicts spec property 1,
and the code, as `LoopCheckExact` shows, rejects it.

## Not modelled yet, and the plan

The bus graph came first, because it carries the most state and the most
interaction between calls. The builtins, the tempo map and the options
followed. The plan, in order:

1. **`MincCall.tla`** is done for calls, returns, arguments, methods,
   structs, stores, `if`, `if`-`else`, `while`, `for`, `!`, `&&`, `||`
   (short-circuit, with the value set to 0 first as the code does) and
   unary minus, the list, string and `%` operators, and list, map and
   string subscripts over heaps of shared lists and maps. What is left of
   `Node.cpp` is `**`: `pow` of multiples of 1/16 is in general not one,
   and the model's floats are.

   Handles are not modelled, because `minc_binop_*` is not under `src/`.
   `callListFunction` and the list arm of `NodeMemberAccess` are compiled
   out (`#if NOT_YET`).

   `RecursionFrames` fails on the code. So the abstract spec, "a call
   restores everything it pushed", would be refined only by the runs that
   do not recurse.
2. **`BusMixer.tla`** is done. The audio thread's walk of the play lists
   (`RTcmix::inTraverse`) is not under `src/`, so the race between that
   walk and `create_play_order` is not modelled.
3. **`BusGraph.tla`**. An abstract routing spec: a set of edges, accepting
   only acyclic additions. `BusConfig` would refine it through a refinement
   mapping from `InConfig`, for scores that do not wrap.
4. `type` and `error` are modelled. `tostring` and `print` only format a
   value as text, so they are left to the "not modelled" list below. Still
   to model: the Option getters and setters for the numeric fields that no score can
   reach.

Not modelled at all:
- `print`, `printf` and `tostring`, `readConfigFile`'s text parsing, and the verbose messages. They
  are formatting and I/O.
- The allocation failure (`MEMORY_ERROR`) of `new BusSlot`.
- The WASM build notes.
