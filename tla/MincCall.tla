------------------------------ MODULE MincCall ------------------------------
(***************************************************************************)
(* The Minc tree interpreter of src/src/parser/minc/Node.cpp: how nodes   *)
(* are executed, how a call passes its arguments through the list stack, *)
(* binds 'this' for a method, opens a scope, and comes back from a        *)
(* return, which the code throws as a C++ exception.                      *)
(*                                                                         *)
(* The parse tree is a constant: Tree maps a node id to a record with its *)
(* kind, its children ch (node ids) and the attributes its class keeps.   *)
(* Executing a node is the RECURSIVE operator Exct(n, c) from a context c *)
(* to the context after n->exct() returns or throws.  The context holds   *)
(* what the code keeps in static variables and in the nodes themselves:   *)
(*   heap   the MincLists: id -> elements; lists are shared by reference *)
(*   mheap  the MincMaps: id -> (key -> value), shared the same way       *)
(*          (spec.md 3.1), and a list value holds only its id;            *)
(*   nv     the value field of every node (Node::v), one per node, shared *)
(*          by every activation that executes that node;                  *)
(*   nsym   the symbol a node last set (Node::setSymbol);                 *)
(*   g, sc  the global symbols and the stack of local scopes;             *)
(*   fs     the scope stacks saved by push_function_stack;                *)
(*   ls, cl list_stack and the current sMincList; pk the most frames the  *)
(*          list stack has held (a ghost);                                *)
(*   th     sMethodThisSymbols; cf sCalledFunctions;                      *)
(*   depth  sFunctionCallDepth; inArg, argLen, argIdx the arg-list walk;  *)
(*   newStruct, stypes  sNewStructType and the struct type table;         *)
(*   out    "ok", "ret" while a NodeRet is thrown, "err" after minc_die   *)
(*          (which throws in the embedded build, where every catch(...)   *)
(*          of the caller sees it); thrown is the NodeRet in flight.      *)
(* The symbol table (Symbol.cpp, not under src) is modelled from its      *)
(* contract in spec.md section 4.2.                                       *)
(***************************************************************************)
EXTENDS Integers, Sequences, SequencesExt

CONSTANTS
  Tree,          \* node id -> node record
  Prelude,       \* the definitions at the head of the score, in order
  Stmts,         \* the top-level statements a pass may then execute
  MAXSTACK,      \* depth of list_stack
  MAXDISPARGS    \* capacity of one sMincList

B == INSTANCE Builtins WITH Names <- {}, ArgLists <- {},
       call <- [name |-> "none", args |-> <<>>], status <- 0,
       ret <- [type |-> "void"], oob <- FALSE, died <- [type |-> "none"]

F(n) == B!F(n)
Void == [type |-> "void"]
\* MincValue(MincFunctionType): a function symbol declared but not defined.
NullFunction == [type |-> "function", fn |-> "null", method |-> FALSE]
\* A list value refers to its MincList in the heap by id; id 0 is NULL.
NullList == [type |-> "list", id |-> 0]
NullMap == [type |-> "map", id |-> 0]
\* MincValue(type) for the declared types of the programs.
Zero(t) == CASE t = "float" -> F(0)
             [] t = "function" -> NullFunction
             [] t = "list" -> NullList
             [] t = "map" -> NullMap
             [] t = "string" -> B!NullString
             [] OTHER -> Void
\* The types the argument check of NodeArgListElem accepts.
MincTypes == {"float", "string", "handle", "list", "map", "struct", "function"}
Truthy(v) == v.type = "float" /\ v.val # 0

\* A symbol: its scope level (0 is global) and name.
Ref(l, name) == [lvl |-> l, name |-> name]
NoSym == Ref(-1, "none")
NoStruct == "none"
Ch(n, i) == Tree[n].ch[i]
Mangled(st, name) == st \o "." \o name     \* methodNameFromStructAndFunction

-----------------------------------------------------------------------------
(* Symbol table (spec.md 4.2)                                              *)
current_scope(c) == Len(c.sc)
SymVal(c, r) == IF r.lvl = 0 THEN c.g[r.name] ELSE c.sc[r.lvl][r.name]
SetSym(c, r, v) ==
  IF r.lvl = 0 THEN [c EXCEPT !.g = (r.name :> v) @@ @]
  ELSE [c EXCEPT !.sc[r.lvl] = (r.name :> v) @@ @]
\* lookupSymbol(name, AnyLevel | ThisLevel | GlobalLevel)
lookupSymbol(c, name, lvl) ==
  LET here == {k \in 1..Len(c.sc) : name \in DOMAIN c.sc[k]}
  IN CASE lvl = "any" /\ here # {} -> Ref(Max(here), name)
       [] lvl = "this" /\ Len(c.sc) > 0 ->
            IF Len(c.sc) \in here THEN Ref(Len(c.sc), name) ELSE NoSym
       [] name \in DOMAIN c.g -> Ref(0, name)
       [] OTHER -> NoSym
\* installSymbol(name, isGlobal) with its initial value.
installSymbol(c, name, isGlobal, v) ==
  SetSym(c, Ref(IF isGlobal THEN 0 ELSE current_scope(c), name), v)
push_scope(c) == [c EXCEPT !.sc = Append(@, <<>>)]
pop_scope(c) == [c EXCEPT !.sc = Front(@)]
restore_scope(c, i) == [c EXCEPT !.sc = SubSeq(@, 1, i)]
\* Saves the caller's scopes; the callee sees the globals only.
push_function_stack(c) == [c EXCEPT !.fs = Append(@, c.sc), !.sc = <<>>]
pop_function_stack(c) == [c EXCEPT !.sc = Last(c.fs), !.fs = Front(c.fs)]
\* Symbol::initAsStruct: members from the initializer list, in order and
\* type-checked, the rest zeroed.
initAsStruct(c, r, st, init) ==
  LET mem == c.stypes[st]
  IN IF Len(init) > Len(mem) \/ \E i \in 1..Len(init) : init[i].type # mem[i].type
     THEN [c EXCEPT !.out = "err"]
     ELSE SetSym(c, r, [type |-> "struct", stype |-> st,
                        mem |-> [m \in {mem[i].name : i \in 1..Len(mem)} |->
                                  LET i == CHOOSE j \in 1..Len(mem) : mem[j].name = m
                                  IN IF i <= Len(init) THEN init[i] ELSE Zero(mem[i].type)]])
\* MincFunction::handleThis: a method declares 'this' in the new scope,
\* bound to the object at the back of sMethodThisSymbols, and pops it.  The
\* back() of an empty vector, or a NULL symbol (a temporary object), is
\* undefined behaviour; the model ends the call there as a crash.
\* Mutant: the object is taken from the front of sMethodThisSymbols.
handleThisFront(c, f) ==
  LET r == Head(c.th)
      obj == IF r.lvl = 0 THEN c.g[r.name] ELSE Last(c.fs)[r.lvl][r.name]
  IN IF ~f.method THEN c
     ELSE IF c.th = <<>> \/ r = NoSym THEN [c EXCEPT !.out = "err"]
     ELSE SetSym([c EXCEPT !.th = Tail(@)], Ref(current_scope(c), "this"), obj)

handleThis(c, f) ==
  LET r == Last(c.th)
      obj == IF r.lvl = 0 THEN c.g[r.name] ELSE Last(c.fs)[r.lvl][r.name]
  IN IF ~f.method THEN c
     ELSE IF c.th = <<>> \/ r = NoSym THEN [c EXCEPT !.out = "err"]
     ELSE SetSym([c EXCEPT !.th = Front(@)], Ref(current_scope(c), "this"), obj)

-----------------------------------------------------------------------------
(* Node helpers                                                            *)
Die(c) == [c EXCEPT !.out = "err"]
SetNv(c, n, v) == [c EXCEPT !.nv[n] = v]
SetNsym(c, n, r) == [c EXCEPT !.nsym[n] = r]
\* Node::copyValue(Node *): the embedded build skips a void source.  The
\* type-overwrite check is left out: it only warns when allowTypeOverwrite
\* is true, the default the model assumes (Node.h is not under src).
copyValue(c, n, src) == IF c.nv[src].type = "void" THEN c ELSE SetNv(c, n, c.nv[src])

\* Mutant: no check of list_stack_ptr against MAXSTACK.
push_list_unchecked(c) ==
  [c EXCEPT !.ls = Append(@, c.cl), !.cl = <<>>, !.pk = Max({@, Len(c.ls) + 1})]

push_list(c) ==
  IF Len(c.ls) >= MAXSTACK THEN Die(c)
  ELSE [c EXCEPT !.ls = Append(@, c.cl), !.cl = <<>>, !.pk = Max({@, Len(c.ls) + 1})]
pop_list(c) ==
  IF c.ls = <<>> THEN Die(c)
  ELSE [c EXCEPT !.cl = Last(c.ls), !.ls = Front(c.ls)]

\* Mutant: the remainder takes the sign of the divisor (floored modulo).
LongRemFloored(x, y) == x % y

\* (long) x % (long) y in C: the remainder of the truncated division, with
\* the sign of the dividend.  y # 0.
LongRem(x, y) ==
  LET r == (IF x < 0 THEN -x ELSE x) % (IF y < 0 THEN -y ELSE y)
  IN IF x < 0 THEN -r ELSE r

\* NodeOp::do_op_num for the operators the programs use; % takes (long)
\* of both operands (its guard on the divisor is in OpOf).  ** (pow) is not
\* modelled: its results leave the multiples of 1/16 the floats are.
do_op_num(a, b, op) ==
  [type |-> "float",
   val |-> CASE op = "+" -> a.val + b.val
             [] op = "-" -> a.val - b.val
             [] op = "*" -> (a.val * b.val) \div B!Scale
             [] op = "/" -> (a.val * B!Scale) \div b.val
             [] op = "%" -> LongRem(B!Trunc(a.val), B!Trunc(b.val)) * B!Scale]
\* MincValue's relational operators on two floats.
Compare(a, b, op) ==
  CASE op = "<=" -> a.val <= b.val
    [] op = "<"  -> a.val < b.val
    [] op = ">"  -> a.val > b.val
    [] op = "==" -> a.val = b.val

-----------------------------------------------------------------------------
(* Node::exct for each node class                                          *)
RECURSIVE Exct(_, _), callMincFunctionFromNode(_, _, _)

(* Each handler is a chain of steps: a step takes the context its child  *)
(* left and decides, on its out field, whether to go on.                  *)

\* Runs the children i..j of n in order, stopping at the first that throws.
RECURSIVE ExctKids(_, _, _, _)
ExctKids(n, i, j, c) ==
  IF i > j \/ c.out # "ok" THEN c ELSE ExctKids(n, i + 1, j, Exct(Ch(n, i), c))

\* NodeLoadSym::finishExct (NodeLoadFuncSym's when fn): a symbol that is
\* not found fails, or, for a function name, leaves the name as a string.
finishExct(c, n, fn) ==
  IF c.nsym[n] # NoSym THEN SetNv(c, n, SymVal(c, c.nsym[n]))
  ELSE IF fn THEN SetNv(c, n, [type |-> "string", name |-> Tree[n].name])
  ELSE Die(c)

\* lookupOrAutodeclare: a name not found is declared in the current scope.
AutoDeclare(c, n) ==
  LET r == lookupSymbol(c, Tree[n].name, "any")
      r2 == IF r = NoSym THEN Ref(current_scope(c), Tree[n].name) ELSE r
  IN SetNsym(IF r = NoSym THEN SetSym(c, r2, Void) ELSE c, n, r2)

\* copyNodeToMincList skips a void payload, leaving the slot's
\* default-constructed void value.
ListElemCopy(n, c2) ==
  IF c2.out # "ok" THEN c2
  ELSE [copyValue(c2, n, Ch(n, 2)) EXCEPT !.cl = Append(@, c2.nv[Ch(n, 2)])]
ListElemPayload(n, c1) ==
  IF c1.out # "ok" THEN c1
  ELSE IF Len(c1.cl) = MAXDISPARGS THEN Die(c1)
  ELSE ListElemCopy(n, Exct(Ch(n, 2), c1))
NodeListElem(n, c) == ListElemPayload(n, Exct(Ch(n, 1), c))

ListDone(n, c2) ==
  IF c2.out # "ok" THEN c2
  ELSE pop_list(SetNv([c2 EXCEPT !.heap = Append(@, c2.cl)], n,
                      [type |-> "list", id |-> Len(c2.heap) + 1]))
ListBody(n, c1) == IF c1.out # "ok" THEN c1 ELSE ListDone(n, Exct(Ch(n, 1), c1))
NodeList(n, c) == ListBody(n, push_list(c))

MemberOf(n, c1) ==
  LET o == Ch(n, 1)
      v == c1.nv[o]
      r == lookupSymbol(c1, Mangled(v.stype, Tree[n].member), "any")
  IN CASE c1.out # "ok" -> c1
       [] v.type # "struct" -> Die(c1)
       [] Tree[n].member \in DOMAIN v.mem ->
            \* the member symbol (writes through it are not modelled)
            SetNv(SetNsym(c1, n, NoSym), n, v.mem[Tree[n].member])
       [] r # NoSym ->
            [SetNv(SetNsym(c1, n, r), n, SymVal(c1, r)) EXCEPT !.th = Append(@, c1.nsym[o])]
       [] OTHER -> Die(c1)
NodeMemberAccess(n, c) == MemberOf(n, Exct(Ch(n, 1), c))

\* NodeCall::callBuiltinFunction.  A name neither builtin_funcs nor the
\* host's external functions know leaves the default (void) retval.
\* The builtins see a list argument with its elements.
\* A map argument is seen as its set of keys.
Deref(c, v) ==
  CASE v.type = "list" /\ v.id # 0 -> [type |-> "list", id |-> v.id, elems |-> c.heap[v.id]]
    [] v.type = "map" /\ v.id # 0 -> [type |-> "map", id |-> v.id, keys |-> DOMAIN c.mheap[v.id]]
    [] OTHER -> v
callBuiltinFunction(c, n, name) ==
  IF name = "error" THEN Die(c)     \* _minc_error: minc_die throws
  ELSE SetNv(c, n, IF name \in B!BuiltinNames
                   THEN B!BuiltinResult(name, [k \in 1..Len(c.cl) |-> Deref(c, c.cl[k])]).r
                   ELSE Void)

CallDone(c4) == IF c4.out # "ok" THEN c4 ELSE pop_list(c4)
CallDispatch(n, c3) ==
  LET f == Ch(n, 1) IN
  IF c3.out # "ok" THEN c3
  ELSE CallDone(CASE c3.nv[f].type = "function" -> callMincFunctionFromNode(c3, n, f)
                  [] c3.nv[f].type = "string" -> callBuiltinFunction(c3, n, c3.nv[f].name)
                  [] OTHER -> Die(c3))
CallPushed(n, c2) == IF c2.out # "ok" THEN c2 ELSE CallDispatch(n, Exct(Ch(n, 2), c2))
CallArgs(n, c1) == IF c1.out # "ok" THEN c1 ELSE CallPushed(n, push_list(c1))
NodeCall(n, c) == CallArgs(n, Exct(Ch(n, 1), c))

\* After the call: --depth, copy the result, pop_function_stack and
\* sCalledFunctions.pop_back().
\* Mutant: sCalledFunctions is not popped.
EndCallKeepName(c, n, temp) ==
  pop_function_stack([copyValue(c, n, temp) EXCEPT !.depth = @ - 1])

EndCall(c, n, temp) ==
  LET c1 == [copyValue(c, n, temp) EXCEPT !.depth = @ - 1]
  IN [pop_function_stack(c1) EXCEPT !.cf = Front(@)]

\* The end of callMincFunctionFromNode, after the body ran from a scope
\* savedScope and a depth savedCallDepth.
CallReturn(n, fv, savedScope, savedCallDepth, c5) ==
  CASE c5.out = "ret" ->       \* catch (Node *returned)
         EndCall([restore_scope(c5, savedScope) EXCEPT !.depth = savedCallDepth,
                                                       !.out = "ok"], n, c5.thrown)
    [] c5.out = "err" ->       \* catch (...): rethrow
         [pop_function_stack(c5) EXCEPT !.depth = @ - 1]
    [] OTHER -> EndCall(c5, n, Tree[fv.fn].ch[3])
\* ++sFunctionCallDepth and execute the body (child 3 of the FuncDef).
CallBody(n, fv, c3) ==
  CallReturn(n, fv, current_scope(c3), c3.depth + 1,
             IF c3.out = "ok" THEN Exct(Tree[fv.fn].ch[3], [c3 EXCEPT !.depth = @ + 1])
             ELSE c3)
\* copyArguments: the arg list (child 2 of the FuncDef) binds the list.
CallCopyArgs(n, fv, c2) ==
  CallBody(n, fv, IF c2.out = "ok" THEN Exct(Tree[fv.fn].ch[2], c2) ELSE c2)

callMincFunctionFromNode(c, n, f) ==
  LET fv == c.nv[f]
      c1 == [c EXCEPT !.cf = Append(@, IF c.nsym[f] = NoSym THEN "temp lhs" ELSE c.nsym[f].name)]
  IN IF fv.fn = "null" THEN Die(c1)
     ELSE CallCopyArgs(n, fv, handleThis(push_scope(push_function_stack(c1)), fv))

\* NodeRelation and NodeOp take references to their children's value
\* fields and read them only after both children have run.
RelationOf(n, c2) ==
  LET v0 == c2.nv[Ch(n, 1)]
      v1 == c2.nv[Ch(n, 2)]
  IN IF c2.out # "ok" THEN c2
     \* operands of different types: NonmatchingTypeException, false
     ELSE SetNv(c2, n, F(IF v0.type = "float" /\ v1.type = "float" /\ Compare(v0, v1, Tree[n].op)
                         THEN 1 ELSE 0))
NodeRelation(n, c) == RelationOf(n, ExctKids(n, 1, 2, c))

\* NodeOp::do_op_list_float: each float element combined with the scalar,
\* the element first; other elements are copied.
do_op_list_float(data, x, op) ==
  [k \in DOMAIN data |-> IF data[k].type = "float" THEN do_op_num(data[k], x, op) ELSE data[k]]

\* Mutant: the asymmetric operators put the element first.
do_op_float_list_swapped(x, data, op) == do_op_list_float(data, x, op)

\* NodeOp::do_op_float_list, used for - and / with the scalar on the left.
do_op_float_list(x, data, op) ==
  [k \in DOMAIN data |-> IF data[k].type = "float" THEN do_op_num(x, data[k], op) ELSE data[k]]

\* NodeOp::do_op_list_list: + concatenates, a NULL list counting as empty;
\* any other operator warns and yields a zero-length list.
do_op_list_list(d1, d2, op) == IF op = "+" THEN d1 \o d2 ELSE <<>>

ListData(c, v) == IF v.id = 0 THEN <<>> ELSE c.heap[v.id]
\* this->value() = destList: the result is a new MincList, so that the
\* operands' lists are left unchanged.
NewList(c, n, data) ==
  SetNv([c EXCEPT !.heap = Append(@, data)], n, [type |-> "list", id |-> Len(c.heap) + 1])

\* The operand types NodeOp::doExct only warns about: this->v is not
\* assigned, so the node keeps the value of its previous execution.
OpWarns(t0, t1) ==
  \/ t0 = "struct"
  \/ t0 \in {"float", "string", "handle", "list"} /\ t1 \in {"map", "struct"}
  \/ t0 # t1 /\ {t0, t1} \subseteq {"string", "handle", "list"}

\* A MincString value; str is its sequence of characters.
StrVal(str) == [type |-> "string", str |-> str]

DigitChar(d) == <<"0", "1", "2", "3", "4", "5", "6", "7", "8", "9">>[d + 1]
\* The decimal digits of a natural number, most significant first.
RECURSIVE Decimal(_)
Decimal(k) == IF k < 10 THEN <<DigitChar(k)>> ELSE Decimal(k \div 10) \o <<DigitChar(k % 10)>>

\* The fraction f / Scale written out: Scale divides 10000, so it has at
\* most four decimals; %g drops the trailing zeros.
FracDigits(f) ==
  LET d == Decimal(10000 + f * (10000 \div B!Scale))    \* "1" and four digits
      last == CHOOSE k \in 2..5 : d[k] # "0" /\ \A j \in k + 1..5 : d[j] = "0"
  IN SubSeq(d, 2, last)

\* Mutant: the float is formatted with %f, six decimals kept.
FmtGFixed(x) ==
  LET q == IF x.val < 0 THEN -x.val ELSE x.val
  IN (IF x.val < 0 THEN <<"-">> ELSE <<>>) \o Decimal(q \div B!Scale) \o <<".">>
       \o SubSeq(Decimal(1000000 + (q % B!Scale) * (1000000 \div B!Scale)), 2, 7)

\* snprintf(buf, 64, "%g", x) for a float of the model: sign, integer part,
\* and the fraction without trailing zeros.  Multiples of 1/16 below 100
\* have at most six significant digits, so %g neither rounds them nor
\* switches to the exponent form; the programs' values stay in that range.
FmtG(x) ==
  LET q == IF x.val < 0 THEN -x.val ELSE x.val
  IN (IF x.val < 0 THEN <<"-">> ELSE <<>>) \o Decimal(q \div B!Scale)
       \o (IF q % B!Scale = 0 THEN <<>> ELSE <<".">> \o FracDigits(q % B!Scale))

\* NodeOp::do_op_string: + copies both strings into a new buffer, where
\* strlen of a NULL operand dereferences NULL and ends the program; the
\* other binary operators warn and set the value to a NULL string.
do_op_string(c, n, v0, v1, op) ==
  CASE op = "+" /\ B!NullString \in {v0, v1} -> Die(c)
    [] op = "+" -> SetNv(c, n, StrVal(v0.str \o v1.str))
    [] OTHER -> SetNv(c, n, B!NullString)

\* NodeOp::doExct, by the types of the two values.  The arms of handles
\* (minc_binop_*, not under src) are not modelled: no program here has a
\* handle.  minc_internal_error ends the pass like minc_die.
OpOf(n, c2) ==
  LET v0 == c2.nv[Ch(n, 1)]
      v1 == c2.nv[Ch(n, 2)]
      op == Tree[n].op
      lv == IF v0.type = "list" THEN v0 ELSE v1
      x == IF v0.type = "list" THEN v1 ELSE v0
      \* (long) of a float element of the list when it is the divisor
      zeroIn(d) == \E k \in DOMAIN d : d[k].type = "float" /\ B!Trunc(d[k].val) = 0
  IN CASE c2.out # "ok" -> c2
       \* minc_die("Illegal value for RHS of a modulo operation")
       [] v0.type = "float" /\ v1.type = "float" /\ op = "%"
            /\ -B!Scale < v1.val /\ v1.val < B!Scale -> Die(c2)
       [] v0.type = "float" /\ v1.type = "float" -> SetNv(c2, n, do_op_num(v0, v1, op))
       [] v0.type = "float" /\ v1.type = "string" -> do_op_string(c2, n, StrVal(FmtG(v0)), v1, op)
       [] v0.type = "string" /\ v1.type = "float" -> do_op_string(c2, n, v0, StrVal(FmtG(v1)), op)
       [] v0.type = "string" /\ v1.type = "string" -> do_op_string(c2, n, v0, v1, op)
       [] v0.type = "list" /\ v1.type = "list" ->
            NewList(c2, n, do_op_list_list(ListData(c2, v0), ListData(c2, v1), op))
       \* srcList->len of a NULL list: the dereference ends the program
       [] {v0.type, v1.type} = {"float", "list"} /\ lv.id = 0 -> Die(c2)
       \* the list arms compute long % 0 unchecked: the division traps
       \* (SIGFPE, or a wasm trap) and the program ends
       [] op = "%" /\ v0.type = "list" /\ v1.type = "float" /\ B!Trunc(v1.val) = 0 -> Die(c2)
       [] op = "%" /\ v0.type = "float" /\ v1.type = "list" /\ zeroIn(c2.heap[v1.id]) -> Die(c2)
       [] v0.type = "float" /\ v1.type = "list" /\ op \in {"-", "/", "%"} ->
            NewList(c2, n, do_op_float_list(v0, c2.heap[v1.id], op))
       [] {v0.type, v1.type} = {"float", "list"} ->
            NewList(c2, n, do_op_list_float(c2.heap[lv.id], x, op))
       [] OpWarns(v0.type, v1.type) -> c2
       [] v0.type \in {"void", "map", "function"} \/ v1.type \in {"void", "function"} -> Die(c2)
NodeOp(n, c) == OpOf(n, ExctKids(n, 1, 2, c))

\* NodeSubscriptRead::readAtSubscript: the list and the index are the
\* children's node values.  An index past either end reads the last
\* element; a fractional one interpolates between two float elements.
readAtSubscript(c, n) ==
  LET ix == c.nv[Ch(n, 2)]
      lv == c.nv[Ch(n, 1)]
      data == c.heap[lv.id]
      len == Len(data)
      clamp == ix.val < 0 \/ ix.val > (len - 1) * B!Scale
      index == IF clamp THEN len - 1 ELSE B!Trunc(ix.val)
      frac == IF clamp THEN 0 ELSE ix.val - index * B!Scale
      elem == data[index + 1]
  IN CASE ix.type # "float" -> Die(c)
       [] lv.id = 0 -> Die(c)
       [] len = 0 -> Die(c)
       [] elem.type = "float" /\ frac > 0 /\ index < len - 1 ->
            SetNv(c, n, IF data[index + 2].type = "float"
                        THEN [type |-> "float", val |-> B!InterpPoint(elem.val, data[index + 2].val, frac)]
                        ELSE elem)
       [] OTHER -> SetNv(c, n, elem)
\* NodeSubscriptRead::searchWithMapKey: the map is the value of child(0)'s
\* symbol, not of the node; a node with no symbol is a NULL dereference,
\* which ends the program.  A NULL map or a missing key dies.
searchWithMapKey(c, n) ==
  LET sym == c.nsym[Ch(n, 1)]
      m == SymVal(c, sym)
      key == c.nv[Ch(n, 2)]
  IN CASE sym = NoSym -> Die(c)
       [] m.id = 0 -> Die(c)
       [] key \notin DOMAIN c.mheap[m.id] -> Die(c)
       [] OTHER -> SetNv(c, n, c.mheap[m.id][key])
\* What strncpy copies from the byte before a string's buffer.
StrayByte == "stray byte"

\* The string arm of NodeSubscriptRead::doExct: the string is the value of
\* child(0)'s symbol, the index is (int) of the float, and an index below
\* 0 or past the end reads the last character.  For "" the last index is
\* -1, and strncpy copies the byte before the buffer.
readStringAt(c, n) ==
  LET sym == c.nsym[Ch(n, 1)]
      s == SymVal(c, sym)
      ix == c.nv[Ch(n, 2)]
      i0 == B!Trunc(ix.val)
      index == IF i0 < 0 \/ i0 > Len(s.str) - 1 THEN Len(s.str) - 1 ELSE i0
  IN CASE sym = NoSym -> Die(c)
       [] ix.type # "float" -> Die(c)
       [] s = B!NullString -> Die(c)
       [] index < 0 -> SetNv(c, n, StrVal(<<StrayByte>>))
       [] OTHER -> SetNv(c, n, StrVal(<<s.str[index + 1]>>))

\* NodeSubscriptRead::doExct on the type of child(0)'s value.
SubReadOf(n, c2) ==
  CASE c2.out # "ok" -> c2
    [] c2.nv[Ch(n, 1)].type = "list" -> readAtSubscript(c2, n)
    [] c2.nv[Ch(n, 1)].type = "map" -> searchWithMapKey(c2, n)
    [] c2.nv[Ch(n, 1)].type = "string" -> readStringAt(c2, n)
    [] c2.nv[Ch(n, 1)].type \notin {"list", "map", "string"} -> Die(c2)
NodeSubscriptRead(n, c) == SubReadOf(n, ExctKids(n, 1, 2, c))

\* Mutant: the write goes to a copy of the list, bound to the symbol.
writeToSubscriptCopy(c, n) ==
  LET sym == c.nsym[Ch(n, 1)]
      lv == SymVal(c, sym)
      old == IF lv.id = 0 THEN <<>> ELSE c.heap[lv.id]
      i0 == B!Trunc(c.nv[Ch(n, 2)].val)
      index == IF i0 < 0 THEN (IF Len(old) > 0 THEN Len(old) - 1 ELSE 0) ELSE i0
      grown == [k \in 1 .. IF index >= Len(old) THEN index + 1 ELSE Len(old) |->
                  IF k <= Len(old) THEN old[k] ELSE Void]
      data == IF c.nv[Ch(n, 3)].type = "void" THEN grown
              ELSE [grown EXCEPT ![index + 1] = c.nv[Ch(n, 3)]]
  IN IF c.nv[Ch(n, 2)].type # "float" THEN Die(c)
     ELSE SetSym([c EXCEPT !.heap = Append(@, data)], sym, [type |-> "list", id |-> Len(c.heap) + 1])

\* NodeSubscriptWrite::writeToSubscript on the list of the target's
\* symbol: a negative index is the last slot, an index past the end grows
\* the list with void slots (a NULL list becomes a new one), and
\* copyNodeToMincList leaves the slot alone for a void payload.
writeToSubscript(c, n) ==
  LET sym == c.nsym[Ch(n, 1)]
      lv == SymVal(c, sym)
      old == IF lv.id = 0 THEN <<>> ELSE c.heap[lv.id]
      len == Len(old)
      i0 == B!Trunc(c.nv[Ch(n, 2)].val)
      index == IF i0 < 0 THEN (IF len > 0 THEN len - 1 ELSE 0) ELSE i0
      grown == [k \in 1 .. IF index >= len THEN index + 1 ELSE len |->
                  IF k <= len THEN old[k] ELSE Void]
      payload == c.nv[Ch(n, 3)]
      data == IF payload.type = "void" THEN grown ELSE [grown EXCEPT ![index + 1] = payload]
  IN CASE c.nv[Ch(n, 2)].type # "float" -> Die(c)
       [] lv.id = 0 -> SetSym([c EXCEPT !.heap = Append(@, data)], sym,
                              [type |-> "list", id |-> Len(c.heap) + 1])
       [] OTHER -> [c EXCEPT !.heap[lv.id] = data]
WriteDone(n, c4) == IF c4.out # "ok" THEN c4 ELSE copyValue(c4, n, Ch(n, 3))
\* Mutant: std::map::insert, which keeps the value of a key already there.
writeWithMapKeyInsert(c, n) ==
  LET sym == c.nsym[Ch(n, 1)]
      m == SymVal(c, sym)
      key == c.nv[Ch(n, 2)]
      v == c.nv[Ch(n, 3)]
  IN IF m.id = 0
     THEN SetSym([c EXCEPT !.mheap = Append(@, key :> v)], sym,
                 [type |-> "map", id |-> Len(c.mheap) + 1])
     ELSE [c EXCEPT !.mheap[m.id] = @ @@ (key :> v)]

\* NodeSubscriptWrite::writeWithMapKey: theMap->map[key] = value, an
\* upsert; a NULL map is first replaced by a new one in the symbol.
writeWithMapKey(c, n) ==
  LET sym == c.nsym[Ch(n, 1)]
      m == SymVal(c, sym)
      key == c.nv[Ch(n, 2)]
      v == c.nv[Ch(n, 3)]
  IN IF m.id = 0
     THEN SetSym([c EXCEPT !.mheap = Append(@, key :> v)], sym,
                 [type |-> "map", id |-> Len(c.mheap) + 1])
     ELSE [c EXCEPT !.mheap[m.id] = (key :> v) @@ @]

\* NodeSubscriptWrite::doExct on the type of child(0)'s symbol.
SubWriteOf(n, c3) ==
  LET t == SymVal(c3, c3.nsym[Ch(n, 1)]).type IN
  CASE c3.out # "ok" -> c3
    [] t = "list" -> WriteDone(n, writeToSubscript(c3, n))
    [] t = "map" -> WriteDone(n, writeWithMapKey(c3, n))
    [] OTHER -> Die(c3)
NodeSubscriptWrite(n, c) == SubWriteOf(n, ExctKids(n, 1, 3, c))

StoreAssign(n, c2) ==
  IF c2.out # "ok" THEN c2
  ELSE copyValue(SetSym(c2, c2.nsym[Ch(n, 1)], c2.nv[Ch(n, 2)]), n, Ch(n, 2))
StoreLhs(n, c1) == IF c1.out # "ok" THEN c1 ELSE StoreAssign(n, Exct(Ch(n, 1), c1))
NodeStore(n, c) == StoreLhs(n, Exct(Ch(n, 2), c))      \* the right-hand side first

ArgListDone(c1) == IF c1.out # "ok" THEN c1 ELSE [c1 EXCEPT !.inArg = FALSE]
NodeArgList(n, c) ==
  ArgListDone(Exct(Ch(n, 1), [c EXCEPT !.argLen = 0, !.argIdx = 0, !.inArg = TRUE]))

\* Binds the next passed argument (or a zero of the declared type when the
\* caller passed fewer) to the argument symbol the declaration made.
ArgBind(n, c2) ==
  LET sym == c2.nsym[Ch(n, 2)]
      arg == IF c2.argIdx < Len(c2.cl) THEN c2.cl[c2.argIdx + 1]
             ELSE Zero(SymVal(c2, sym).type)
  IN CASE c2.out # "ok" -> c2
       [] Len(c2.cl) > c2.argLen -> Die(c2)
       [] c2.argIdx < Len(c2.cl) /\ arg.type \notin MincTypes -> Die(c2)  \* internal error
       [] c2.argIdx < Len(c2.cl) /\ arg.type # SymVal(c2, sym).type -> Die(c2)
       [] OTHER -> [SetSym(SetNv(c2, n, arg), sym, arg) EXCEPT !.argIdx = @ + 1]
NodeArgListElem(n, c) == ArgBind(n, ExctKids(n, 1, 2, [c EXCEPT !.argLen = @ + 1]))

\* NodeDecl and NodeStructDecl: reuse a symbol of the current scope (an
\* argument name used twice fails), else install a new one.
Declare(c, n, init) ==
  LET r == lookupSymbol(c, Tree[n].name, IF c.inArg THEN "this" ELSE "any")
      new == Ref(current_scope(c), Tree[n].name)
  IN IF r # NoSym /\ r.lvl = current_scope(c) THEN
        IF c.inArg THEN Die(c) ELSE SetNsym(c, n, r)
     ELSE SetNsym(SetSym(c, new, init), n, new)

\* After the initializer list c1 ran (or the context c when there is none).
StructDeclInit(n, c1) ==
  LET st == Tree[n].stype
      hasInit == Tree[n].ch # <<>>
      r == lookupSymbol(c1, Tree[n].name, "any")
      new == Ref(current_scope(c1), Tree[n].name)
  IN CASE c1.out # "ok" -> c1
       [] r # NoSym /\ r.lvl = current_scope(c1) ->
            IF c1.inArg \/ hasInit THEN Die(c1) ELSE SetNsym(c1, n, r)
       [] OTHER -> SetNsym(initAsStruct(c1, new, st, IF hasInit THEN c1.heap[c1.nv[Ch(n, 1)].id]
                                                     ELSE <<>>), n, new)
NodeStructDecl(n, c) ==
  CASE Tree[n].stype \notin DOMAIN c.stypes -> Die(c)
    [] Tree[n].ch # <<>> -> StructDeclInit(n, Exct(Ch(n, 1), c))
    [] OTHER -> StructDeclInit(n, c)

\* NodeFuncDecl and NodeMethodDecl: functions are global; a second
\* declaration reuses the symbol (the embedded build only warns).
DeclareFunction(c, n, name) ==
  LET r == lookupSymbol(c, name, "global")
  IN CASE current_scope(c) > 0 -> Die(c)
       [] r = NoSym -> SetNsym(SetSym(c, Ref(0, name), NullFunction), n, Ref(0, name))
       [] OTHER -> SetNsym(c, n, r)

StructDefDone(c1) == IF c1.out # "ok" THEN c1 ELSE [c1 EXCEPT !.newStruct = NoStruct]
NodeStructDef(n, c) ==
  IF current_scope(c) > 0 THEN Die(c)
  ELSE StructDefDone(Exct(Ch(n, 1), [c EXCEPT !.stypes = (Tree[n].name :> <<>>) @@ @,
                                              !.newStruct = Tree[n].name]))

NodeConstf(n, c) == SetNv(c, n, F(Tree[n].v))
\* NodeString::doExct: v = u.string, the literal's text.
NodeString(n, c) == SetNv(c, n, StrVal(Tree[n].str))

\* NodeLoadSym::doExct and NodeLoadFuncSym (fn): look the name up at any level.
NodeLoadSym(n, c, fn) == finishExct(SetNsym(c, n, lookupSymbol(c, Tree[n].name, "any")), n, fn)

IfThen(n, c1) ==
  IF c1.out = "ok" /\ Truthy(c1.nv[Ch(n, 1)]) THEN Exct(Ch(n, 2), c1) ELSE c1
NodeIf(n, c) == IfThen(n, Exct(Ch(n, 1), c))

\* NodeIfElse: the condition picks the child that runs.
IfElseThen(n, c1) ==
  CASE c1.out # "ok" -> c1
    [] Truthy(c1.nv[Ch(n, 1)]) -> Exct(Ch(n, 2), c1)
    [] OTHER -> Exct(Ch(n, 3), c1)
NodeIfElse(n, c) == IfElseThen(n, Exct(Ch(n, 1), c))

NotOf(n, c1) ==
  IF c1.out # "ok" THEN c1 ELSE SetNv(c1, n, F(IF Truthy(c1.nv[Ch(n, 1)]) THEN 0 ELSE 1))
NodeNot(n, c) == NotOf(n, Exct(Ch(n, 1), c))

\* NodeAnd and NodeOr set their value to 0 first, run the right operand
\* only when the left one does not decide, and set 1 when it is true.
RightTrue(n, c2) ==
  IF c2.out = "ok" /\ Truthy(c2.nv[Ch(n, 2)]) THEN SetNv(c2, n, F(1)) ELSE c2
AndLeft(n, c1) ==
  IF c1.out = "ok" /\ Truthy(c1.nv[Ch(n, 1)]) THEN RightTrue(n, Exct(Ch(n, 2), c1)) ELSE c1
NodeAnd(n, c) == AndLeft(n, Exct(Ch(n, 1), SetNv(c, n, F(0))))
OrLeft(n, c1) ==
  CASE c1.out # "ok" -> c1
    [] Truthy(c1.nv[Ch(n, 1)]) -> SetNv(c1, n, F(1))
    [] OTHER -> RightTrue(n, Exct(Ch(n, 2), c1))
NodeOr(n, c) == OrLeft(n, Exct(Ch(n, 1), SetNv(c, n, F(0))))

\* NodeUnaryOperator with OpNeg, the only unary operator.
NegOf(n, c1) ==
  IF c1.out # "ok" THEN c1 ELSE SetNv(c1, n, [type |-> "float", val |-> -1 * c1.nv[Ch(n, 1)].val])
NodeUnaryOperator(n, c) == NegOf(n, Exct(Ch(n, 1), c))

\* NodeFor: init, then while the condition holds the body and the step.
RECURSIVE ForLoop(_, _)
ForNext(n, c4) == IF c4.out # "ok" THEN c4 ELSE ForLoop(n, c4)
ForStep(n, c3) == IF c3.out # "ok" THEN c3 ELSE ForNext(n, Exct(Ch(n, 3), c3))
ForTest(n, c2) ==
  IF c2.out # "ok" \/ ~Truthy(c2.nv[Ch(n, 2)]) THEN c2
  ELSE ForStep(n, Exct(Ch(n, 4), c2))
ForLoop(n, c) == ForTest(n, Exct(Ch(n, 2), c))
ForInit(n, c1) == IF c1.out # "ok" THEN c1 ELSE ForLoop(n, c1)
NodeFor(n, c) == ForInit(n, Exct(Ch(n, 1), c))

\* Mutant: the loop condition is tested once, as an if.
NodeWhileOnce(n, c) == NodeIf(n, c)

RECURSIVE NodeWhile(_, _)
WhileNext(n, c2) == IF c2.out # "ok" THEN c2 ELSE NodeWhile(n, c2)
WhileTest(n, c1) ==
  IF c1.out # "ok" \/ ~Truthy(c1.nv[Ch(n, 1)]) THEN c1
  ELSE WhileNext(n, Exct(Ch(n, 2), c1))
NodeWhile(n, c) == WhileTest(n, Exct(Ch(n, 1), c))

\* NodeOpAssign: x op= e on the symbol of the left-hand node; a non-float
\* operand only warns and loads the symbol's value.
OpAssignOf(n, c2) ==
  LET sym == c2.nsym[Ch(n, 1)]
      v == do_op_num(SymVal(c2, sym), c2.nv[Ch(n, 2)], Tree[n].op)
  IN CASE c2.out # "ok" -> c2
       [] SymVal(c2, sym).type # "float" \/ c2.nv[Ch(n, 2)].type # "float" ->
            SetNv(c2, n, SymVal(c2, sym))
       [] OTHER -> SetNv(SetSym(c2, sym, v), n, v)
NodeOpAssign(n, c) == OpAssignOf(n, ExctKids(n, 1, 2, c))

\* NodeRet copies its value and throws itself to the calling NodeCall.
RetOf(n, c1) ==
  IF c1.out # "ok" THEN c1
  ELSE [copyValue(c1, n, Ch(n, 1)) EXCEPT !.out = "ret", !.thrown = n]
NodeRet(n, c) == RetOf(n, Exct(Ch(n, 1), c))

FuncBodyOf(n, c1) == IF c1.out # "ok" THEN c1 ELSE copyValue(c1, n, Ch(n, 2))
NodeFuncBodySeq(n, c) == FuncBodyOf(n, ExctKids(n, 1, 2, c))

\* A throw out of the block skips pop_scope; the caller restores the scope.
BlockDone(c1) == IF c1.out # "ok" THEN c1 ELSE pop_scope(c1)
NodeBlock(n, c) == BlockDone(Exct(Ch(n, 1), push_scope(c)))

NodeMemberDecl(n, c) ==
  [c EXCEPT !.stypes[c.newStruct] = Append(@, [name |-> Tree[n].name, type |-> Tree[n].type])]

\* The MincFunction keeps the arg list and body (children 2 and 3) of the
\* FuncDef node, and whether it is a method.
FuncDefOf(n, c1) ==
  IF c1.out # "ok" THEN c1
  ELSE SetSym(c1, c1.nsym[Ch(n, 1)], [type |-> "function", fn |-> n, method |-> Tree[n].isMethod])
NodeFuncDef(n, c) == FuncDefOf(n, Exct(Ch(n, 1), c))

\* Node::exct dispatches to the doExct of the node's class.
Exct(n, c) ==
  LET k == Tree[n].kind IN
  CASE k = "noop"        -> c
    [] k = "constf"      -> NodeConstf(n, c)
    [] k = "string"      -> NodeString(n, c)
    [] k = "loadsym"     -> NodeLoadSym(n, c, FALSE)
    [] k = "loadfuncsym" -> NodeLoadSym(n, c, TRUE)
    [] k = "autodecl"    -> finishExct(AutoDeclare(c, n), n, FALSE)
    [] k = "listelem"    -> NodeListElem(n, c)
    [] k = "list"        -> NodeList(n, c)
    [] k = "memberaccess" -> NodeMemberAccess(n, c)
    [] k = "call"        -> NodeCall(n, c)
    [] k = "store"       -> NodeStore(n, c)
    [] k = "opassign"    -> NodeOpAssign(n, c)
    [] k = "relation"    -> NodeRelation(n, c)
    [] k = "op"          -> NodeOp(n, c)
    [] k = "subread"     -> NodeSubscriptRead(n, c)
    [] k = "subwrite"    -> NodeSubscriptWrite(n, c)
    [] k = "if"          -> NodeIf(n, c)
    [] k = "while"       -> NodeWhile(n, c)
    [] k = "ifelse"      -> NodeIfElse(n, c)
    [] k = "for"         -> NodeFor(n, c)
    [] k = "not"         -> NodeNot(n, c)
    [] k = "and"         -> NodeAnd(n, c)
    [] k = "or"          -> NodeOr(n, c)
    [] k = "neg"         -> NodeUnaryOperator(n, c)
    [] k = "arglist"     -> NodeArgList(n, c)
    [] k = "arglistelem" -> NodeArgListElem(n, c)
    [] k = "ret"         -> NodeRet(n, c)
    [] k = "funcbodyseq" -> NodeFuncBodySeq(n, c)
    [] k = "seq"         -> ExctKids(n, 1, 2, c)
    [] k = "block"       -> NodeBlock(n, c)
    [] k = "decl"        -> Declare(c, n, Zero(Tree[n].type))
    [] k = "structdef"   -> NodeStructDef(n, c)
    [] k = "memberdecl"  -> NodeMemberDecl(n, c)
    [] k = "structdecl"  -> NodeStructDecl(n, c)
    [] k = "funcdecl"    -> DeclareFunction(c, n, Tree[n].name)
    [] k = "methoddecl"  -> DeclareFunction(c, n, Mangled(Tree[n].stype, Tree[n].name))
    [] k = "funcdef"     -> NodeFuncDef(n, c)

-----------------------------------------------------------------------------
VARIABLES
  nodeValue, nodeSymbol,     \* Node::v and Node::symbol() of every node
  globals, scopes,           \* the symbol table
  functionStack,             \* scope stacks saved by push_function_stack
  structTypes,               \* the struct type table
  sMincList, list_stack,
  sMethodThisSymbols, sCalledFunctions, sFunctionCallDepth,
  inCalledFunctionArgList, sArgListLen, sArgListIndex, sNewStructType,
  lists,                     \* the MincLists, by id
  maps,                      \* the MincMaps, by id
  listPeak,                  \* the most frames list_stack has held (ghost)
  done,                      \* the statements executed so far
  aborted,                   \* a statement of this pass failed
  last                       \* [stmt, out] of the last statement run

vars == <<nodeValue, nodeSymbol, globals, scopes, functionStack, structTypes,
          sMincList, list_stack, sMethodThisSymbols, sCalledFunctions,
          sFunctionCallDepth, inCalledFunctionArgList, sArgListLen,
          sArgListIndex, sNewStructType, lists, maps, listPeak, done, aborted, last>>

Ctx == [nv |-> nodeValue, nsym |-> nodeSymbol, g |-> globals, sc |-> scopes,
        fs |-> functionStack, stypes |-> structTypes, cl |-> sMincList,
        ls |-> list_stack, th |-> sMethodThisSymbols, cf |-> sCalledFunctions,
        depth |-> sFunctionCallDepth, inArg |-> inCalledFunctionArgList,
        argLen |-> sArgListLen, argIdx |-> sArgListIndex,
        newStruct |-> sNewStructType, heap |-> lists, mheap |-> maps, pk |-> listPeak, out |-> "ok", thrown |-> "none"]

\* The context before the first statement: no symbols, empty stacks.
EmptyCtx ==
  [nv |-> [n \in DOMAIN Tree |-> Void], nsym |-> [n \in DOMAIN Tree |-> NoSym],
   g |-> <<>>, sc |-> <<>>, fs |-> <<>>, stypes |-> <<>>, cl |-> <<>>, ls |-> <<>>,
   th |-> <<>>, cf |-> <<>>, depth |-> 0, inArg |-> FALSE, argLen |-> 0,
   argIdx |-> 0, newStruct |-> NoStruct, heap |-> <<>>, mheap |-> <<>>, pk |-> 0, out |-> "ok", thrown |-> "none"]

\* The statements of a sequence run in order, up to the first that fails.
RECURSIVE ExctStmts(_, _)
ExctStmts(ss, c) ==
  IF ss = <<>> \/ c.out # "ok" THEN c ELSE ExctStmts(Tail(ss), Exct(Head(ss), c))

\* The interpreter state a context stands for.
Assign(c) ==
  /\ nodeValue' = c.nv /\ nodeSymbol' = c.nsym
  /\ globals' = c.g /\ scopes' = c.sc /\ functionStack' = c.fs
  /\ structTypes' = c.stypes /\ sMincList' = c.cl /\ list_stack' = c.ls
  /\ sMethodThisSymbols' = c.th /\ sCalledFunctions' = c.cf
  /\ sFunctionCallDepth' = c.depth /\ inCalledFunctionArgList' = c.inArg
  /\ sArgListLen' = c.argLen /\ sArgListIndex' = c.argIdx
  /\ sNewStructType' = c.newStruct /\ lists' = c.heap /\ maps' = c.mheap /\ listPeak' = c.pk

\* The state a context c stands for, as an initial state.
InitFrom(c) ==
  /\ nodeValue = c.nv /\ nodeSymbol = c.nsym
  /\ globals = c.g /\ scopes = c.sc /\ functionStack = c.fs
  /\ structTypes = c.stypes /\ sMincList = c.cl /\ list_stack = c.ls
  /\ sMethodThisSymbols = c.th /\ sCalledFunctions = c.cf
  /\ sFunctionCallDepth = c.depth /\ inCalledFunctionArgList = c.inArg
  /\ sArgListLen = c.argLen /\ sArgListIndex = c.argIdx
  /\ sNewStructType = c.newStruct /\ lists = c.heap /\ maps = c.mheap /\ listPeak = c.pk
  /\ done = {} /\ aborted = (c.out # "ok")
  /\ last = [stmt |-> "prelude", out |-> c.out]

\* The state after the prelude has run.
Init == InitFrom(ExctStmts(Prelude, EmptyCtx))

\* The parser's driver executes one top-level statement of the pass; a
\* statement that fails ends the pass.
StatementDone(s, c) ==
  /\ Assign(c)
  /\ aborted' = (c.out # "ok")
  /\ last' = [stmt |-> s, out |-> c.out]
  /\ done' = done \cup {s}
RunStatement(s) ==
  /\ ~aborted
  /\ s \notin done
  /\ StatementDone(s, Exct(s, Ctx))

\* clear_tree_state, which the host calls between passes: the symbol
\* table and the nodes are kept.
clear_tree_state ==
  /\ sMincList' = <<>> /\ list_stack' = <<>>
  /\ sMethodThisSymbols' = <<>> /\ inCalledFunctionArgList' = FALSE
  /\ sCalledFunctions' = <<>> /\ sFunctionCallDepth' = 0
  /\ sArgListLen' = 0 /\ sArgListIndex' = 0 /\ sNewStructType' = NoStruct
  /\ aborted' = FALSE
  /\ last' = [stmt |-> "clear", out |-> "ok"]
  /\ UNCHANGED <<nodeValue, nodeSymbol, globals, scopes, functionStack,
                 structTypes, lists, maps, listPeak, done>>

Next ==
  \/ \E s \in Stmts : RunStatement(s)
  \/ clear_tree_state

Spec == Init /\ [][Next]_vars

-----------------------------------------------------------------------------
(* Properties                                                              *)
\* Type invariant: push_list never stores past the end of the MAXSTACK
\* entries of list_stack, however deep calls and list literals nest, no
\* list holds more than MAXDISPARGS values, and the call depth is an integer.
TypeOK ==
  /\ listPeak <= MAXSTACK
  /\ Len(sMincList) <= MAXDISPARGS
  /\ \A i \in 1..Len(list_stack) : Len(list_stack[i]) <= MAXDISPARGS
  /\ sFunctionCallDepth \in Int
  /\ inCalledFunctionArgList \in BOOLEAN
  /\ sNewStructType \in DOMAIN structTypes \cup {NoStruct}
  /\ aborted \in BOOLEAN

\* Spec section 8, scope hygiene, and the call protocol of NodeCall: after
\* every statement of a pass that has not failed, each push_list has had
\* its pop_list, each push_function_stack its pop, each ++depth its --depth
\* and each sCalledFunctions.push_back its pop_back, and no argument list is
\* being walked.  A return thrown from any depth must unwind all of them.
ContextClean ==
  ~aborted =>
    /\ list_stack = <<>> /\ sMincList = <<>>
    /\ scopes = <<>> /\ functionStack = <<>>
    /\ sFunctionCallDepth = 0 /\ sCalledFunctions = <<>>
    /\ ~inCalledFunctionArgList

\* Spec section 9 says no value can refer back to itself, so reference
\* counting frees every list.  writeToSubscript stores any value into a
\* slot with copyNodeToMincList, the list itself included: lc[0] = lc.
NoListCycle ==
  \A k \in DOMAIN lists : [type |-> "list", id |-> k] \notin Range(lists[k])
====
