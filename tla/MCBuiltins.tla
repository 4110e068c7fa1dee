---------------------------- MODULE MCBuiltins -----------------------------
(***************************************************************************)
(* Inputs for Builtins: strings of up to three characters over a two-     *)
(* letter alphabet, short lists of floats, strings, a list and a handle,  *)
(* fractions in quarter steps from -0.25 to 1.25, indices 0..4, and calls  *)
(* with the wrong number or type of arguments.                             *)
(***************************************************************************)
EXTENDS Builtins

MCChars == {"a", "b"}
MCStrings == UNION {[1..n -> MCChars] : n \in 0..3}
Str(s) == [type |-> "string", str |-> s]
\* A MincFloat given in quarters.
Q(n) == [type |-> "float", val |-> n * (Scale \div 4)]

L1 == [type |-> "list", id |-> "l1", elems |-> <<F(1)>>]
H1 == [type |-> "handle", id |-> "h1"]
M1 == [type |-> "map", id |-> "m1", keys |-> {F(1)}]

\* Seqs of up to n elements of S.
UpTo(S, n) == UNION {[1..k -> S] : k \in 0..n}
ListOf(elems, id) == [type |-> "list", id |-> id, elems |-> elems]

MCItems == {F(0), F(1), Str(<<"a">>), L1, H1}
MCIndexCalls ==
  {<<ListOf(l, "l0"), v>> : l \in UpTo(MCItems, 3), v \in MCItems}
MCInterpCalls ==
  {<<ListOf(l, "l0"), Q(q)>> : l \in UpTo({F(0), F(1), F(2)}, 3), q \in -1..5}
  \cup {<<ListOf(<<F(0), Str(<<"a">>), F(2)>>, "l0"), Q(2)>>, <<ListOf(<<Str(<<"a">>)>>, "l0"), Q(0)>>}
MCSubstringCalls ==
  {<<Str(s), F(i), F(j)>> : s \in MCStrings, i \in 0..4, j \in 0..4}
  \cup {<<Str(<<"a">>), Q(-1), F(1)>>}
MCOtherCalls ==
  {<<>>, <<F(2)>>, <<H1>>, <<M1>>, <<NullString>>, <<Str(<<"a", "b">>)>>,
   <<M1, F(1)>>, <<M1, F(0)>>, <<NullString, F(1), F(2)>>,
   <<Str(<<"a", "b">>), Str(<<"b">>)>>, <<Str(<<"a", "b">>), Str(<<"b", "a">>)>>,
   <<Str(<<"a">>), F(1)>>, <<Str(<<"a">>), NullString>>, <<F(1), F(1)>>, <<L1, Str(<<>>)>>}

MCArgLists == MCIndexCalls \cup MCInterpCalls \cup MCSubstringCalls \cup MCOtherCalls
MCNames == BuiltinNames \cup {"play"}
====
