------------------------------ MODULE Builtins ------------------------------
(***************************************************************************)
(* The Minc builtins of src/unnamed/part_004: call_builtin_function and   *)
(* the value functions len, interp, index, contains, type, error and     *)
(* substring.                                                              *)
(*                                                                         *)
(* A MincValue is a record whose fields depend on its type.  A float's   *)
(* val is an integer count of 1/Scale units, so the arithmetic of interp  *)
(* is exact for the inputs the models use; a string's str is a sequence   *)
(* of characters (NullString is the NULL MincString); lists, handles and  *)
(* maps carry an id, since index compares them by identity, and a map is  *)
(* abstracted to its set of keys.  The state is the last call and what it *)
(* returned; the builtins themselves have no state.                       *)
(***************************************************************************)
EXTENDS Integers, Sequences, FiniteSets

CONSTANTS
  Names,      \* function names a score may call
  ArgLists    \* argument lists (sequences of MincValues) it may pass

\* MincFloat values are integers in units of 1/Scale.
Scale == 16

F(n) == [type |-> "float", val |-> n * Scale]   \* the MincFloat n
NullString == [type |-> "string", null |-> TRUE]
\* The result of a read the C++ leaves undefined (UB, or a failed assert).
Undefined == [type |-> "undefined"]
\* The nonzero status call_builtin_function returns for an unknown name.
FUNCTION_NOT_FOUND == -1

VARIABLES
  call,     \* [name, args] of the last call_builtin_function
  status,   \* its return: 0, or FUNCTION_NOT_FOUND
  ret,      \* *retval
  oob,      \* the call wrote outside a buffer it allocated
  died      \* the message minc_die threw with, or NoDeath

vars == <<call, status, ret, oob, died>>

\* No minc_die during the call.
NoDeath == [type |-> "none"]

\* (int) of a MincFloat: truncation toward zero.
Trunc(q) == IF q >= 0 THEN q \div Scale ELSE -((-q) \div Scale)

MinInt(a, b) == IF a <= b THEN a ELSE b

-----------------------------------------------------------------------------
\* _minc_len
MincLen(args) ==
  IF Len(args) # 1 THEN F(0)
  ELSE LET a == args[1] IN
    CASE a.type \in {"float", "handle"} -> F(1)
      [] a.type = "string" -> F(IF a = NullString THEN 0 ELSE Len(a.str))
      [] a.type = "list"   -> F(Len(a.elems))
      [] a.type = "map"    -> F(Cardinality(a.keys))
      [] OTHER             -> F(0)              \* struct, void: warn

\* Mutant: the two points of the segment are taken in the wrong order.
InterpSwapped(dl, dh, q) == dh + (q * (dl - dh)) \div Scale

\* outValue = data[lowIndex] + fraction * (data[highIndex] - data[lowIndex])
InterpPoint(dl, dh, q) == dl + (q * (dh - dl)) \div Scale

\* (MincFloat) data[0] for a one-element list: the cast of a non-float
\* fails MincValue's type check.
InterpSingle(d) == IF d.type = "float" THEN d ELSE Undefined

\* _minc_interp.  A non-float fraction fails the assert.
MincInterp(args) ==
  IF Len(args) # 2 THEN F(-1)
  ELSE IF args[2].type # "float" THEN Undefined
  ELSE IF args[1].type # "list" THEN F(-1)
  ELSE LET data == args[1].elems
           len == Len(data)
           q == IF args[2].val < 0 THEN 0 ELSE IF args[2].val > Scale THEN Scale
                ELSE args[2].val
           low == ((len - 1) * q) \div Scale
           high == MinInt(len - 1, low + 1)
       IN IF len = 0 THEN F(0)
          ELSE IF len = 1 THEN InterpSingle(data[1])
          ELSE IF data[low + 1].type # "float" \/ data[high + 1].type # "float" THEN F(-1)
          ELSE [type |-> "float", val |-> InterpPoint(data[low + 1].val, data[high + 1].val, q)]

\* The type-matched comparison of _minc_index: floats and strings by value,
\* lists and handles by identity; other types never match.
IndexMatch(d, item) ==
  /\ d.type = item.type
  /\ CASE item.type = "float"  -> d.val = item.val
       [] item.type = "string" -> d.str = item.str
       [] item.type \in {"list", "handle"} -> d.id = item.id
       [] OTHER -> FALSE

\* Mutant: the loop keeps going after a match (no break).
RECURSIVE IndexLoopNoBreak(_, _, _, _)
IndexLoopNoBreak(data, item, i, found) ==
  IF i > Len(data) THEN found
  ELSE IndexLoopNoBreak(data, item, i + 1, IF IndexMatch(data[i], item) THEN i - 1 ELSE found)

\* for (i = 0; i < len; i++) if (match) { index = i; break; }
RECURSIVE IndexLoop(_, _, _, _)
IndexLoop(data, item, i, found) ==
  IF i > Len(data) THEN found
  ELSE IF IndexMatch(data[i], item) THEN i - 1
  ELSE IndexLoop(data, item, i + 1, found)

\* _minc_index
MincIndex(args) ==
  IF Len(args) # 2 \/ args[1].type # "list" THEN F(-1)
  ELSE F(IndexLoop(args[1].elems, args[2], 1, -1))

\* strstr(hay, needle) != NULL
StrStr(hay, needle) ==
  \E i \in 0..(Len(hay) - Len(needle)) : SubSeq(hay, i + 1, i + Len(needle)) = needle

\* _minc_contains
MincContains(args) ==
  IF Len(args) # 2 THEN F(0)
  ELSE CASE args[1].type = "list" -> F(IF MincIndex(args).val # -Scale THEN 1 ELSE 0)
         [] args[1].type = "map"  -> F(IF args[2] \in args[1].keys THEN 1 ELSE 0)
         [] args[1].type = "string" ->
              IF args[2].type # "string" \/ args[2] = NullString THEN F(0)
              ELSE IF args[1] = NullString THEN Undefined     \* strstr(NULL, ..)
              ELSE F(IF StrStr(args[1].str, args[2].str) THEN 1 ELSE 0)
         [] OTHER -> F(0)

\* sbuffer[endIdx - startIdx] = '\0': the number of characters kept.
Cut(startIdx, endIdx) == endIdx - startIdx

\* _minc_substring: [result, whether sbuffer[endIdx - startIdx] is outside
\* the newlen bytes allocated].  When it is, startIdx >= len and what
\* strdup returns is undefined.
MincSubstring(args) ==
  IF Len(args) # 3 \/ args[1].type # "string"
     \/ args[2].type # "float" \/ args[3].type # "float"
  THEN [r |-> NullString, oob |-> FALSE]
  ELSE IF args[1] = NullString THEN [r |-> Undefined, oob |-> FALSE]   \* strlen(NULL)
  ELSE LET s == args[1].str
           len == Len(s)
           startIdx == Trunc(args[2].val)
           endIdx0 == Trunc(args[3].val)
           endIdx == IF endIdx0 > len - 1 THEN len - 1 ELSE endIdx0
           cut == Cut(startIdx, endIdx)
       IN IF startIdx < 0 \/ endIdx0 <= startIdx THEN [r |-> NullString, oob |-> FALSE]
          ELSE IF cut < 0 THEN [r |-> Undefined, oob |-> TRUE]
          ELSE [r |-> [type |-> "string", str |-> SubSeq(s, startIdx + 1, startIdx + cut)],
                oob |-> FALSE]

\* NodeOp's + on two MincStrings (do_op_string in Node.cpp): strlen of
\* each operand, then a concatenated copy; strlen of a NULL operand is
\* undefined.
Concat(a, b) ==
  IF a = NullString \/ b = NullString THEN Undefined
  ELSE [type |-> "string", str |-> a.str \o b.str]

\* _make_type_string: a fresh string naming the type, its characters
\* abstracted to the one symbol of the type's name.
MakeTypeString(t) == [type |-> "string", str |-> <<t>>]

\* _minc_type: NULL unless there is exactly one argument.
MincType(args) ==
  IF Len(args) # 1 THEN NullString ELSE MakeTypeString(args[1].type)

\* _minc_error: minc_die("%s", (MincString) args[0]) whatever nargs is.
\* With no argument, args[0] is the slot of sMincList the previous call
\* left there (Undefined); a non-string is cast to a MincString.
MincError(args) == IF Len(args) = 0 THEN Undefined ELSE args[1]

\* The entries of builtin_funcs modelled here: the MincFloat-returning ones
\* and the MincString-returning type and substring.
NumberReturn == {"len", "interp", "index", "contains", "error"}
BuiltinNames == NumberReturn \cup {"type", "substring"}

-----------------------------------------------------------------------------
Init ==
  /\ call = [name |-> "none", args |-> <<>>]
  /\ status = 0
  /\ ret = F(0)
  /\ oob = FALSE
  /\ died = NoDeath

\* The dispatch of call_builtin_function over builtin_funcs, for a name it
\* finds: [the value left in *retval, whether a buffer was overrun].
BuiltinResult(name, args) ==
  CASE name = "len"      -> [r |-> MincLen(args), oob |-> FALSE]
    [] name = "interp"   -> [r |-> MincInterp(args), oob |-> FALSE]
    [] name = "index"    -> [r |-> MincIndex(args), oob |-> FALSE]
    [] name = "contains" -> [r |-> MincContains(args), oob |-> FALSE]
    [] name = "type"     -> [r |-> MincType(args), oob |-> FALSE]
    [] name = "substring" -> MincSubstring(args)

\* call_builtin_function(funcname, arglist, nargs, &retval)
CallBuiltin(name, args) ==
  /\ call' = [name |-> name, args |-> args]
  /\ IF name \notin BuiltinNames
     THEN /\ status' = FUNCTION_NOT_FOUND
          /\ UNCHANGED <<ret, oob, died>>
     ELSE IF name = "error"
     THEN /\ died' = MincError(args)    \* minc_die throws: no *retval
          /\ UNCHANGED <<status, ret, oob>>
     ELSE /\ status' = 0
          /\ UNCHANGED died
          /\ ret' = BuiltinResult(name, args).r
          /\ oob' = BuiltinResult(name, args).oob

\* The calling node takes *retval and evaluation moves on to the next call.
Consume ==
  /\ call.name # "none"
  /\ call' = [name |-> "none", args |-> <<>>]
  /\ status' = 0
  /\ ret' = F(0)
  /\ oob' = FALSE
  /\ died' = NoDeath

Next ==
  \/ \E name \in Names, args \in ArgLists : call.name = "none" /\ CallBuiltin(name, args)
  \/ Consume

Spec == Init /\ [][Next]_vars

-----------------------------------------------------------------------------
(***************************************************************************)
(* Properties                                                              *)
(***************************************************************************)
\* The comparison the spec gives index: values of one type, floats and
\* strings by value, lists, handles and maps by identity.
SameItem(a, b) ==
  /\ a.type = b.type
  /\ CASE a.type = "float"  -> a.val = b.val
       [] a.type = "string" -> a.str = b.str
       [] OTHER -> a.id = b.id

\* Spec property 7: index(L, v) is the position of the first element of L
\* equal to v, and -1 when there is none.  The loop of _minc_index must
\* stop at the first match and compare each type the way the spec says.
IndexFirstMatch ==
  LET a == call.args
  IN call.name = "index" /\ Len(a) = 2 /\ a[1].type = "list" =>
       LET hits == {i \in 1..Len(a[1].elems) : SameItem(a[1].elems[i], a[2])}
       IN ret = F(IF hits = {} THEN -1 ELSE (CHOOSE i \in hits : \A j \in hits : i <= j) - 1)

\* A non-empty list of floats, and a float fraction.
InterpCall ==
  LET a == call.args
  IN /\ call.name = "interp" /\ Len(a) = 2 /\ a[1].type = "list" /\ a[2].type = "float"
     /\ Len(a[1].elems) > 0 /\ \A i \in 1..Len(a[1].elems) : a[1].elems[i].type = "float"

\* Spec property 6: interp(L, 0) is the first element of L and interp(L, 1)
\* the last, for every non-empty list of floats.
InterpEndpoints ==
  LET L == call.args[1].elems
  IN InterpCall /\ call.args[2].val \in {0, Scale} =>
       ret = IF call.args[2].val = 0 THEN L[1] ELSE L[Len(L)]

\* The fraction of an interp call, clamped to [0, 1] as _minc_interp does.
ClampedFraction(q) == IF q < 0 THEN 0 ELSE IF q > Scale THEN Scale ELSE q

\* The spec of interp: the point at (len-1)*frac on the polyline through the
\* elements, i.e. the linear interpolation between the two adjacent elements
\* around that position, by the position's own fractional part.
InterpPiecewiseLinear ==
  LET L == call.args[1].elems
      x == (Len(L) - 1) * ClampedFraction(call.args[2].val)
      lo == x \div Scale
      hi == MinInt(Len(L) - 1, lo + 1)
  IN InterpCall /\ Len(L) > 1 =>
       ret.val = L[lo + 1].val + ((x % Scale) * (L[hi + 1].val - L[lo + 1].val)) \div Scale

\* A substring call with a string and two float indices.
SubstringCall ==
  LET a == call.args
  IN /\ call.name = "substring" /\ Len(a) = 3 /\ a[1].type = "string" /\ a[1] # NullString
     /\ a[2].type = "float" /\ a[3].type = "float"

\* Spec property 3: substring(s, i, j) + substring(s, j, len(s)) equals
\* substring(s, i, len(s)) whenever 0 <= i <= j <= len(s), with + the
\* Minc string concatenation of Concat.  _minc_substring returns NULL for
\* i = j and for j = len(s), and clamps its end index to len(s) - 1.
SubstringConcat ==
  LET s == call.args[1]
      i == Trunc(call.args[2].val)
      j == Trunc(call.args[3].val)
      whole == F(Len(s.str))
  IN SubstringCall /\ 0 <= i /\ i <= j /\ j <= Len(s.str) =>
       Concat(ret, MincSubstring(<<s, F(j), whole>>).r)
         = MincSubstring(<<s, F(i), whole>>).r

\* _minc_substring never writes outside the sbuffer it allocates: the
\* terminator index endIdx - startIdx lies in 0..newlen-1.
SubstringInBounds == ~oob
====
