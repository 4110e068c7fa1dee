----------------------------- MODULE MCMincCall -----------------------------
(***************************************************************************)
(* A score for the interpreter model, as the parser would build its tree: *)
(*                                                                         *)
(*   struct P { float x }                                   st_struct      *)
(*   method P.get() { return this.x }                       st_get         *)
(*   float fact(float n) { if (n <= 1) { return 1 }                        *)
(*                         return n * fact(n - 1) }         st_fact        *)
(*   float ifact(float n) { r = 1                                         *)
(*     while (n > 1) { r *= n; n -= 1 } return r }          st_ifact       *)
(*   float setlast(list l) { l[-1] = 9  return len(l) }    st_setlast     *)
(*   struct P p = {1}                                       st_p           *)
(*   struct P q = {2}                                       st_q           *)
(*   a = fact(3)                                            st_a           *)
(*   b = p.get()                                            st_b           *)
(*   m = q.get                                              st_m           *)
(*   d = m()                                                st_d           *)
(*   float tri(float n) { s = 0                                            *)
(*     for (k = 1; k <= n; k += 1) {                                       *)
(*       if ((k == 2 || !(k < n)) && n > 0) s += k else s += -k }          *)
(*     return s }                                           st_tri         *)
(*   float h(list l) { return l + gv }                      st_h           *)
(*   e = len({1, 2})  i = ifact(3)  t = tri(3)                             *)
(*   la = {1, 2}  lb = la  lb[3] = 7  ln = setlast(la)                     *)
(*   lv = la[1 / 2]  lw = lb[3]  list lz  lz[1] = 5                        *)
(*   lm = 10 - la  lc = la + lb  gv = 1  h1 = h(la)                        *)
(*   gv = p  h2 = h(la)  map mz  mz[1] = 5  mz[2] = 6                      *)
(*   my = mz  my[1] = 7  mv = mz[1]  mn = len(mz)                          *)
(*   md = 7 % 2  mq = -7 % 2  ml = la % 2                                  *)
(*   sa = "ab" + 3 / 2  sb = -1 + sa  sc = sa[-1]                          *)
(*   se = sa - "b"  sn = len(sb)                            MCCalc         *)
(*   y = fact()                                             st_y           *)
(*   z = fact(1, 2)                                         st_z           *)
(*   w = fact(4)                                            st_w           *)
(*   c = p.get(q.get)                                       st_c           *)
(*                                                                         *)
(* The definitions run first, in order; then a pass runs any of the     *)
(* other statements in any order, each once, and the host may clear the  *)
(* tree state between any two of them.  MAXSTACK = 3 is exactly the depth   *)
(* of fact(3): the call in st_a and two recursive calls each push a list  *)
(* frame, so fact(4) overflows the list stack.  The statements of MCCalc *)
(* neither fail nor depend on the statements after the prelude, so they *)
(* run in the order written, at the prelude's end.                       *)
(***************************************************************************)
EXTENDS MincCall

K(v) == [kind |-> "constf", v |-> v, ch |-> <<>>]
Nd(k, ch) == [kind |-> k, ch |-> ch]
Nm(k, name) == [kind |-> k, name |-> name, ch |-> <<>>]
Elem(prev, x) == Nd("listelem", <<prev, x>>)
Call(f, args) == Nd("call", <<f, args>>)
Store(lhs, rhs) == Nd("store", <<lhs, rhs>>)
SubWrite(l, i, v) == Nd("subwrite", <<l, i, v>>)

MCTree ==
  [noop |-> Nd("noop", <<>>), one |-> K(1), two |-> K(2), three |-> K(3), four |-> K(4),
   st_struct |-> [kind |-> "structdef", name |-> "P", ch |-> <<"P_x">>],
   P_x |-> [kind |-> "memberdecl", name |-> "x", type |-> "float", ch |-> <<>>],
   st_get |-> [kind |-> "funcdef", isMethod |-> TRUE, ch |-> <<"get_decl", "get_args", "get_body">>],
   get_decl |-> [kind |-> "methoddecl", stype |-> "P", name |-> "get", ch |-> <<>>],
   get_args |-> Nd("arglist", <<"noop">>),
   get_body |-> Nd("funcbodyseq", <<"noop", "get_ret">>),
   get_ret |-> Nd("ret", <<"get_x">>),
   get_x |-> [kind |-> "memberaccess", member |-> "x", ch |-> <<"get_this">>],
   get_this |-> Nm("loadsym", "this"),
   st_fact |-> [kind |-> "funcdef", isMethod |-> FALSE, ch |-> <<"fact_decl", "fact_args", "fact_body">>],
   fact_decl |-> Nm("funcdecl", "fact"),
   fact_args |-> Nd("arglist", <<"fact_arg">>),
   fact_arg |-> Nd("arglistelem", <<"noop", "fact_n">>),
   fact_n |-> [kind |-> "decl", name |-> "n", type |-> "float", ch |-> <<>>],
   fact_body |-> Nd("funcbodyseq", <<"fact_if", "fact_ret">>),
   fact_if |-> Nd("if", <<"fact_cond", "fact_then">>),
   fact_cond |-> [kind |-> "relation", op |-> "<=", ch |-> <<"n1", "one">>],
   fact_then |-> Nd("block", <<"fact_ret1">>),
   fact_ret1 |-> Nd("ret", <<"one">>),
   fact_ret |-> Nd("ret", <<"fact_mul">>),
   fact_mul |-> [kind |-> "op", op |-> "*", ch |-> <<"n2", "fact_rec">>],
   fact_rec |-> Call("fact_f", "fact_rec_arg"),
   fact_f |-> Nm("loadfuncsym", "fact"),
   fact_rec_arg |-> Elem("noop", "fact_sub"),
   fact_sub |-> [kind |-> "op", op |-> "-", ch |-> <<"n3", "one">>],
   n1 |-> Nm("loadsym", "n"), n2 |-> Nm("loadsym", "n"), n3 |-> Nm("loadsym", "n"),
   st_ifact |-> [kind |-> "funcdef", isMethod |-> FALSE, ch |-> <<"ifact_decl", "ifact_args", "ifact_body">>],
   ifact_decl |-> Nm("funcdecl", "ifact"),
   ifact_args |-> Nd("arglist", <<"ifact_arg">>),
   ifact_arg |-> Nd("arglistelem", <<"noop", "fact_n">>),
   ifact_body |-> Nd("funcbodyseq", <<"ifact_stmts", "ifact_ret">>),
   ifact_stmts |-> Nd("seq", <<"ifact_init", "ifact_loop">>),
   ifact_init |-> Store("r_lhs", "one"), r_lhs |-> Nm("autodecl", "r"),
   ifact_loop |-> Nd("while", <<"ifact_cond", "ifact_blk">>),
   ifact_cond |-> [kind |-> "relation", op |-> ">", ch |-> <<"n4", "one">>],
   ifact_blk |-> Nd("block", <<"ifact_seq">>),
   ifact_seq |-> Nd("seq", <<"ifact_mul", "ifact_dec">>),
   ifact_mul |-> [kind |-> "opassign", op |-> "*", ch |-> <<"r1", "n5">>],
   ifact_dec |-> [kind |-> "opassign", op |-> "-", ch |-> <<"n6", "one">>],
   ifact_ret |-> Nd("ret", <<"r2">>),
   n4 |-> Nm("loadsym", "n"), n5 |-> Nm("loadsym", "n"), n6 |-> Nm("loadsym", "n"),
   r1 |-> Nm("loadsym", "r"), r2 |-> Nm("loadsym", "r"),
   st_i |-> Store("i_lhs", "i_call"), i_lhs |-> Nm("autodecl", "i"),
   i_call |-> Call("i_f", "a_arg"), i_f |-> Nm("loadfuncsym", "ifact"),
   st_tri |-> [kind |-> "funcdef", isMethod |-> FALSE, ch |-> <<"tri_decl", "tri_args", "tri_body">>],
   tri_decl |-> Nm("funcdecl", "tri"),
   tri_args |-> Nd("arglist", <<"tri_arg">>),
   tri_arg |-> Nd("arglistelem", <<"noop", "fact_n">>),
   tri_body |-> Nd("funcbodyseq", <<"tri_stmts", "tri_ret">>),
   tri_stmts |-> Nd("seq", <<"tri_init", "tri_for">>),
   tri_init |-> Store("s_lhs", "zero"), s_lhs |-> Nm("autodecl", "s"), zero |-> K(0),
   tri_for |-> Nd("for", <<"tri_k0", "tri_cond", "tri_step", "tri_blk">>),
   tri_k0 |-> Store("k_lhs", "one"), k_lhs |-> Nm("autodecl", "k"),
   tri_cond |-> [kind |-> "relation", op |-> "<=", ch |-> <<"k1", "n7">>],
   tri_step |-> [kind |-> "opassign", op |-> "+", ch |-> <<"k2", "one">>],
   tri_blk |-> Nd("block", <<"tri_if">>),
   tri_if |-> Nd("ifelse", <<"tri_test", "tri_add", "tri_sub">>),
   tri_test |-> Nd("and", <<"tri_or", "tri_pos">>),
   tri_or |-> Nd("or", <<"tri_eq", "tri_not">>),
   tri_eq |-> [kind |-> "relation", op |-> "==", ch |-> <<"k3", "two">>],
   tri_not |-> Nd("not", <<"tri_lt">>),
   tri_lt |-> [kind |-> "relation", op |-> "<", ch |-> <<"k4", "n8">>],
   tri_pos |-> [kind |-> "relation", op |-> ">", ch |-> <<"n9", "zero">>],
   tri_add |-> [kind |-> "opassign", op |-> "+", ch |-> <<"s1", "k5">>],
   tri_sub |-> [kind |-> "opassign", op |-> "+", ch |-> <<"s2", "tri_neg">>],
   tri_neg |-> Nd("neg", <<"k6">>),
   tri_ret |-> Nd("ret", <<"s3">>),
   k1 |-> Nm("loadsym", "k"), k2 |-> Nm("loadsym", "k"), k3 |-> Nm("loadsym", "k"),
   k4 |-> Nm("loadsym", "k"), k5 |-> Nm("loadsym", "k"), k6 |-> Nm("loadsym", "k"),
   n7 |-> Nm("loadsym", "n"), n8 |-> Nm("loadsym", "n"), n9 |-> Nm("loadsym", "n"),
   s1 |-> Nm("loadsym", "s"), s2 |-> Nm("loadsym", "s"), s3 |-> Nm("loadsym", "s"),
   st_t |-> Store("t_lhs", "t_call"), t_lhs |-> Nm("autodecl", "t"),
   t_call |-> Call("t_f", "a_arg"), t_f |-> Nm("loadfuncsym", "tri"),
   st_setlast |-> [kind |-> "funcdef", isMethod |-> FALSE, ch |-> <<"sl_decl", "sl_args", "sl_body">>],
   sl_decl |-> Nm("funcdecl", "setlast"),
   sl_args |-> Nd("arglist", <<"sl_arg">>),
   sl_arg |-> Nd("arglistelem", <<"noop", "sl_l">>),
   sl_l |-> [kind |-> "decl", name |-> "l", type |-> "list", ch |-> <<>>],
   sl_body |-> Nd("funcbodyseq", <<"sl_w", "sl_ret">>),
   sl_w |-> SubWrite("l1n", "minus1", "nine"),
   minus1 |-> Nd("neg", <<"one">>), nine |-> K(9),
   sl_ret |-> Nd("ret", <<"sl_len">>),
   sl_len |-> Call("len_f", "sl_larg"), len_f |-> Nm("loadfuncsym", "len"),
   sl_larg |-> Elem("noop", "l2n"),
   l1n |-> Nm("loadsym", "l"), l2n |-> Nm("loadsym", "l"),
   md1 |-> Store("md_lhs", "md_op"), md_lhs |-> Nm("autodecl", "md"),
   md_op |-> [kind |-> "op", op |-> "%", ch |-> <<"seven2", "two">>], seven2 |-> K(7),
   md2 |-> Store("mq_lhs", "mq_op"), mq_lhs |-> Nm("autodecl", "mq"),
   mq_op |-> [kind |-> "op", op |-> "%", ch |-> <<"minus7", "two">>],
   minus7 |-> Nd("neg", <<"seven3">>), seven3 |-> K(7),
   md3 |-> Store("ml_lhs", "ml_op"), ml_lhs |-> Nm("autodecl", "ml"),
   ml_op |-> [kind |-> "op", op |-> "%", ch |-> <<"la8", "two">>], la8 |-> Nm("loadsym", "la"),
   str1 |-> Store("sa_lhs", "sa_op"), sa_lhs |-> Nm("autodecl", "sa"),
   sa_op |-> [kind |-> "op", op |-> "+", ch |-> <<"str_ab", "half3">>],
   str_ab |-> [kind |-> "string", str |-> <<"a", "b">>, ch |-> <<>>],
   half3 |-> [kind |-> "op", op |-> "/", ch |-> <<"three", "two">>],
   str2 |-> Store("sb_lhs", "sb_op"), sb_lhs |-> Nm("autodecl", "sb"),
   sb_op |-> [kind |-> "op", op |-> "+", ch |-> <<"minus1b", "sa1">>],
   minus1b |-> Nd("neg", <<"one">>), sa1 |-> Nm("loadsym", "sa"),
   str3 |-> Store("sc_lhs", "sc_read"), sc_lhs |-> Nm("autodecl", "sc"),
   sc_read |-> Nd("subread", <<"sa2", "minus1c">>),
   sa2 |-> Nm("loadsym", "sa"), minus1c |-> Nd("neg", <<"one">>),
   str4 |-> Store("se_lhs", "se_op"), se_lhs |-> Nm("autodecl", "se"),
   se_op |-> [kind |-> "op", op |-> "-", ch |-> <<"sa3", "str_b">>],
   sa3 |-> Nm("loadsym", "sa"), str_b |-> [kind |-> "string", str |-> <<"b">>, ch |-> <<>>],
   str5 |-> Store("sn_lhs", "sn_call"), sn_lhs |-> Nm("autodecl", "sn"),
   sn_call |-> Call("len_f3", "sn_arg"), len_f3 |-> Nm("loadfuncsym", "len"),
   sn_arg |-> Elem("noop", "sb1"), sb1 |-> Nm("loadsym", "sb"),
   m1 |-> [kind |-> "decl", name |-> "mz", type |-> "map", ch |-> <<>>],
   m2 |-> SubWrite("mz1", "one", "five"), m3 |-> SubWrite("mz2", "two", "six"), six |-> K(6),
   m4 |-> Store("my_lhs", "mz3"), my_lhs |-> Nm("autodecl", "my"),
   m5 |-> SubWrite("my1", "one", "seven"),
   m6 |-> Store("mv_lhs", "mv_read"), mv_lhs |-> Nm("autodecl", "mv"),
   mv_read |-> Nd("subread", <<"mz4", "one">>),
   m7 |-> Store("mn_lhs", "mn_call"), mn_lhs |-> Nm("autodecl", "mn"),
   mn_call |-> Call("len_f2", "mn_arg"), len_f2 |-> Nm("loadfuncsym", "len"),
   mn_arg |-> Elem("noop", "mz5"),
   mz1 |-> Nm("loadsym", "mz"), mz2 |-> Nm("loadsym", "mz"), mz3 |-> Nm("loadsym", "mz"),
   mz4 |-> Nm("loadsym", "mz"), mz5 |-> Nm("loadsym", "mz"), my1 |-> Nm("loadsym", "my"),
   l9 |-> Store("lm_lhs", "lm_op"), lm_lhs |-> Nm("autodecl", "lm"),
   lm_op |-> [kind |-> "op", op |-> "-", ch |-> <<"ten", "la4">>], ten |-> K(10),
   l10 |-> Store("lc_lhs", "lc_op"), lc_lhs |-> Nm("autodecl", "lc"),
   lc_op |-> [kind |-> "op", op |-> "+", ch |-> <<"la5", "lb3">>],
   l11 |-> Store("gv_lhs1", "one"), gv_lhs1 |-> Nm("autodecl", "gv"),
   l12 |-> Store("h1_lhs", "h1_call"), h1_lhs |-> Nm("autodecl", "h1"),
   h1_call |-> Call("h_f1", "h_arg1"), h_f1 |-> Nm("loadfuncsym", "h"), h_arg1 |-> Elem("noop", "la6"),
   l13 |-> Store("gv_lhs2", "p1"), gv_lhs2 |-> Nm("autodecl", "gv"), p1 |-> Nm("loadsym", "p"),
   l14 |-> Store("h2_lhs", "h2_call"), h2_lhs |-> Nm("autodecl", "h2"),
   h2_call |-> Call("h_f2", "h_arg2"), h_f2 |-> Nm("loadfuncsym", "h"), h_arg2 |-> Elem("noop", "la7"),
   la4 |-> Nm("loadsym", "la"), la5 |-> Nm("loadsym", "la"), la6 |-> Nm("loadsym", "la"),
   la7 |-> Nm("loadsym", "la"), lb3 |-> Nm("loadsym", "lb"),
   st_h |-> [kind |-> "funcdef", isMethod |-> FALSE, ch |-> <<"h_decl", "h_args", "h_body">>],
   h_decl |-> Nm("funcdecl", "h"),
   h_args |-> Nd("arglist", <<"h_arg">>),
   h_arg |-> Nd("arglistelem", <<"noop", "sl_l">>),
   h_body |-> Nd("funcbodyseq", <<"noop", "h_ret">>),
   h_ret |-> Nd("ret", <<"h_add">>),
   h_add |-> [kind |-> "op", op |-> "+", ch |-> <<"l3n", "gv1">>],
   l3n |-> Nm("loadsym", "l"), gv1 |-> Nm("loadsym", "gv"),
   l1 |-> Store("la_lhs", "la_list"), la_lhs |-> Nm("autodecl", "la"),
   la_list |-> Nd("list", <<"la_e2">>), la_e2 |-> Elem("la_e1", "two"), la_e1 |-> Elem("noop", "one"),
   l2 |-> Store("lb_lhs", "la1"), lb_lhs |-> Nm("autodecl", "lb"),
   l3 |-> SubWrite("lb1", "three", "seven"), seven |-> K(7),
   l4 |-> Store("ln_lhs", "ln_call"), ln_lhs |-> Nm("autodecl", "ln"),
   ln_call |-> Call("ln_f", "ln_arg"), ln_f |-> Nm("loadfuncsym", "setlast"),
   ln_arg |-> Elem("noop", "la2"),
   l5 |-> Store("lv_lhs", "lv_read"), lv_lhs |-> Nm("autodecl", "lv"),
   lv_read |-> Nd("subread", <<"la3", "half">>),
   half |-> [kind |-> "op", op |-> "/", ch |-> <<"one", "two">>],
   l6 |-> Store("lw_lhs", "lw_read"), lw_lhs |-> Nm("autodecl", "lw"),
   lw_read |-> Nd("subread", <<"lb2", "three">>),
   l7 |-> [kind |-> "decl", name |-> "lz", type |-> "list", ch |-> <<>>],
   l8 |-> SubWrite("lz1", "one", "five"), five |-> K(5),
   la1 |-> Nm("loadsym", "la"), la2 |-> Nm("loadsym", "la"), la3 |-> Nm("loadsym", "la"),
   lb1 |-> Nm("loadsym", "lb"), lb2 |-> Nm("loadsym", "lb"), lz1 |-> Nm("loadsym", "lz"),
   st_p |-> [kind |-> "structdecl", stype |-> "P", name |-> "p", ch |-> <<"p_init">>],
   p_init |-> Nd("list", <<"p_init1">>), p_init1 |-> Elem("noop", "one"),
   st_q |-> [kind |-> "structdecl", stype |-> "P", name |-> "q", ch |-> <<"q_init">>],
   q_init |-> Nd("list", <<"q_init1">>), q_init1 |-> Elem("noop", "two"),
   st_a |-> Store("a_lhs", "a_call"), a_lhs |-> Nm("autodecl", "a"),
   a_call |-> Call("a_f", "a_arg"), a_f |-> Nm("loadfuncsym", "fact"), a_arg |-> Elem("noop", "three"),
   st_b |-> Store("b_lhs", "b_call"), b_lhs |-> Nm("autodecl", "b"),
   b_call |-> Call("b_get", "noop"),
   b_get |-> [kind |-> "memberaccess", member |-> "get", ch |-> <<"b_p">>], b_p |-> Nm("loadsym", "p"),
   st_m |-> Store("m_lhs", "m_get"), m_lhs |-> Nm("autodecl", "m"),
   m_get |-> [kind |-> "memberaccess", member |-> "get", ch |-> <<"m_q">>], m_q |-> Nm("loadsym", "q"),
   st_d |-> Store("d_lhs", "d_call"), d_lhs |-> Nm("autodecl", "d"),
   d_call |-> Call("d_f", "noop"), d_f |-> Nm("loadfuncsym", "m"),
   st_e |-> Store("e_lhs", "e_call"), e_lhs |-> Nm("autodecl", "e"),
   e_call |-> Call("e_f", "e_arg"), e_f |-> Nm("loadfuncsym", "len"), e_arg |-> Elem("noop", "e_list"),
   e_list |-> Nd("list", <<"e_l2">>), e_l2 |-> Elem("e_l1", "two"), e_l1 |-> Elem("noop", "one"),
   st_y |-> Store("y_lhs", "y_call"), y_lhs |-> Nm("autodecl", "y"),
   y_call |-> Call("y_f", "noop"), y_f |-> Nm("loadfuncsym", "fact"),
   st_z |-> Store("z_lhs", "z_call"), z_lhs |-> Nm("autodecl", "z"),
   z_call |-> Call("z_f", "z_arg2"), z_f |-> Nm("loadfuncsym", "fact"),
   z_arg2 |-> Elem("z_arg1", "two"), z_arg1 |-> Elem("noop", "one"),
   st_w |-> Store("w_lhs", "w_call"), w_lhs |-> Nm("autodecl", "w"),
   w_call |-> Call("w_f", "w_arg"), w_f |-> Nm("loadfuncsym", "fact"), w_arg |-> Elem("noop", "four"),
   st_c |-> Store("c_lhs", "c_call"), c_lhs |-> Nm("autodecl", "c"),
   c_call |-> Call("c_get", "c_arg"),
   c_get |-> [kind |-> "memberaccess", member |-> "get", ch |-> <<"c_p">>], c_p |-> Nm("loadsym", "p"),
   c_arg |-> Elem("noop", "c_qget"),
   c_qget |-> [kind |-> "memberaccess", member |-> "get", ch |-> <<"c_q">>], c_q |-> Nm("loadsym", "q")]

\* The calculation statements, in the order written, at the prelude's end.
MCCalc ==
  <<"st_e", "st_i", "st_t", "l1", "l2", "l3", "l4", "l5", "l6", "l7", "l8", "l9",
    "l10", "l11", "l12", "l13", "l14", "m1", "m2", "m3", "m4", "m5", "m6", "m7",
    "md1", "md2", "md3", "str1", "str2", "str3", "str4", "str5">>

MCPrelude ==
  <<"st_struct", "st_get", "st_fact", "st_ifact", "st_tri", "st_setlast", "st_h", "st_p", "st_q">> \o MCCalc
\* The statements that do not re-enter a function while it is active.
MCStmts == {"st_b", "st_m", "st_d", "st_y", "st_w"}
\* The recursive call, and a call with more arguments than parameters.
MCStmtsRecursive == {"st_a", "st_z"}
\* With the call whose argument is itself a method access.
MCStmtsNested == MCStmts \cup {"st_c"}

-----------------------------------------------------------------------------
\* The reference definition of the factorial.
RECURSIVE Factorial(_)
Factorial(k) == IF k <= 1 THEN 1 ELSE k * Factorial(k - 1)

\* The reference definition of tri(n): the sum of k or -k over 1 .. n.
RECURSIVE TriFrom(_, _)
TriFrom(k, n) ==
  IF k > n THEN 0
  ELSE (IF (k = 2 \/ ~(k < n)) /\ n > 0 THEN k ELSE -k) + TriFrom(k + 1, n)

\* The calculation statements of the prelude ran to their end: the last
\* of them, and no other statement, binds sn.
CalcRan == "sn" \in DOMAIN globals

\* The statement just run completed without an error.
Ran(s) == last.stmt = s /\ last.out = "ok"
XOf(obj) == globals[obj].mem["x"]

\* Spec S5, method dispatch: p.get() evaluates get with 'this' bound to p,
\* and m = q.get; m() with 'this' bound to q, however the statements and
\* the host's clear_tree_state interleave.  The object pushed on
\* sMethodThisSymbols by NodeMemberAccess must be the one handleThis pops.
MethodDispatch ==
  /\ Ran("st_b") => globals["b"] = XOf("p")
  /\ Ran("st_d") /\ "m" \in DOMAIN globals => globals["d"] = XOf("q")

\* Calls that do not re-enter a function while it is active compute what
\* their definitions say: the loop of ifact(3) multiplies into the symbol r
\* (NodeWhile, NodeOpAssign), fact() runs with n defaulted to 0 by
\* NodeArgListElem, the builtin len counts the list NodeList built, and
\* tri(3) steps its for loop with NodeIfElse, NodeAnd, NodeOr, NodeNot and
\* the unary minus deciding what is added.
CallResults ==
  /\ CalcRan => /\ globals["i"] = F(Factorial(3))
                       /\ globals["t"] = F(TriFrom(1, 3))
                       /\ globals["e"] = F(2)
  /\ Ran("st_y") => globals["y"] = F(Factorial(0))

\* Spec line 135: each active call has its own frame, so a recursive
\* function computes what its definition says: fact(3) is 3! = 6.  It needs
\* NodeOp to keep the value of n across the recursive call n * fact(n - 1).
RecursionFrames == Ran("st_a") => globals["a"] = F(Factorial(3))

\* A method call binds 'this' to the object it is called on, also when an
\* argument is an (uncalled) method access of another object:
\* p.get(q.get) is p.get().
MethodCallBindsOwnObject == Ran("st_c") => globals["c"] = XOf("p")

\* Spec section 3.1, lists are shared by reference, and S4, a write past
\* the end grows the list: after la = {1, 2}; lb = la, the write lb[3] = 7
\* grows the list both names hold, setlast(la) writes its last slot through
\* its parameter, so lb[3] reads 9 and len sees 4 slots; la[1 / 2]
\* interpolates 1.5; and a write to the NULL list of list lz makes a new one.
ListsShared ==
  CalcRan =>
    /\ globals["la"] = globals["lb"]
    /\ globals["ln"] = F(4)
    /\ globals["lw"] = F(9)
    /\ globals["lv"] = [type |-> "float", val |-> (3 * B!Scale) \div 2]
    /\ lists[globals["lz"].id] = <<Void, F(5)>>

\* The list values of a global.
ListOf(v) == lists[globals[v].id]

\* The comments of do_op_list_float, do_op_float_list and do_op_list_list:
\* the result goes into a new list "so that child's list is unchanged".
\* After lm = 10 - la, lc = la + lb and h(la) = la + 1, the list la and lb
\* share still holds 1, 2, (the void slot lb[3] = 7 padded), 9; 10 - la
\* has the scalar first and copies the void slot; and the concatenation is
\* la's elements then lb's.
ListOpsFresh ==
  CalcRan =>
    /\ ListOf("la") = <<F(1), F(2), Void, F(9)>>
    /\ ListOf("lm") = <<F(9), F(8), Void, F(1)>>
    /\ ListOf("lc") = ListOf("la") \o ListOf("lb")
    /\ ListOf("h1") = <<F(2), F(3), Void, F(10)>>

\* Spec section 7: an operator error is recoverable and "yields a safe
\* value (0, empty string/list, false comparison)".  NodeOp::doExct only
\* warns for a list and a struct and leaves the node's value as it was:
\* with gv = p, h(la) returns the list its previous call built.
OpErrorSafeValue ==
  CalcRan =>
    \/ globals["h2"] = F(0)
    \/ globals["h2"].type = "list" /\ ListOf("h2") = <<>>

\* Spec section 3.1, maps are shared by reference, and section 4.3, a
\* subscript write to a map is an upsert that creates a NULL map on the
\* first write: after map mz; mz[1] = 5; mz[2] = 6; my = mz; my[1] = 7,
\* both names hold one map, mz[1] reads the 7 written through my, and len
\* counts two keys.
MapsShared ==
  CalcRan =>
    /\ globals["my"] = globals["mz"]
    /\ globals["mv"] = F(7)
    /\ globals["mn"] = F(2)

\* Spec section 4.1: "% is integer-modulo on the truncated operands".
\* do_op_num and do_op_list_float compute (long) a % (long) b, C's
\* remainder, which keeps the dividend's sign: 7 % 2 is 1, -7 % 2 is -1,
\* and la % 2 maps la's 1, 2, 9 to 1, 0, 1 and copies its void slot.
ModuloTruncates ==
  CalcRan =>
    /\ globals["md"] = F(1)
    /\ globals["mq"] = F(-1)
    /\ ListOf("ml") = <<F(1), F(0), Void, F(1)>>

\* Spec section 4.1: a float and a string concatenate, the float formatted
\* by %g, on either side; and section 4.3: a float index into a string
\* returns a one-character string, -1 the last.  After sa = "ab" + 3 / 2,
\* sb = -1 + sa, sc = sa[-1] and sn = len(sb), sa is "ab1.5", sb is
\* "-1ab1.5", sc is "5" and len counts 7 characters.  It needs do_op_string,
\* the float conversion and the string arm of NodeSubscriptRead.
StringOpsResult ==
  CalcRan =>
    /\ globals["sa"] = [type |-> "string", str |-> <<"a", "b", "1", ".", "5">>]
    /\ globals["sb"].str = <<"-", "1">> \o globals["sa"].str
    /\ globals["sc"].str = <<"5">>
    /\ globals["sn"] = F(7)

\* Spec section 4.1: "other string ops warn and return empty".
\* do_op_string sets a NULL string for -, * and /: len sees 0 as for "",
\* but a later subscript dies and a later + dereferences NULL.
StringErrorEmpty == CalcRan => globals["se"] = [type |-> "string", str |-> <<>>]
====
