------------------------------- MODULE MCEval -------------------------------
(***************************************************************************)
(* Grammars and inputs for the runs of the evaluator.  The characters are  *)
(* 1, 2 and 3; a, b and c match one each.                                  *)
(***************************************************************************)
EXTENDS EvalProperties

CONSTANT MaxLen  \* the longest input over all characters; of a and b one more

Terminals ==
  cc_char("a", 1) @@ cc_char("b", 2) @@ cc_char("c", 3)
    @@ cc_any("any") @@ cc_eof("eof") @@ cc_sof("sof")
    @@ cc_range("range", 1, 2) @@ cc_string("string", <<1, 2>>)
    @@ cc_anyof("anyof", <<1, 3>>) @@ cc_oneof("oneof", <<1, 2, 2>>)
    @@ cc_noneof("noneof", <<2, 3>>) @@ cc_match("space", {3})
    @@ "pass" :> cc_pass @@ "fail" :> cc_fail("message")
    @@ "location" :> cc_location @@ "lift" :> cc_lift("g") @@ "value" :> cc_lift_val("v")

InOrder ==
     "ab"    :> cc_seq("f", "a", "b")
  @@ "ac"    :> cc_seq("f", "a", "c")
  @@ "marks" :> cc_and("f", <<"sof", "location", "lift", "value", "pass", "range", "eof">>)
  @@ "class" :> cc_and("f", <<"anyof", "oneof", "noneof">>)
  @@ "drop"  :> cc_and(NoFold, <<"a", "string">>)
  @@ "keep"  :> cc_seq("f", "drop", "any")

Alternatives ==
     "or"     :> cc_or(<<"ab", "ac", "c", "string">>)
  @@ "either" :> cc_either("b", "or")
  @@ "maybe"  :> cc_maybe("ab")
  @@ "opt"    :> cc_and("f", <<"maybe", "any", "eof">>)
  @@ "not"    :> cc_not("b")
  @@ "except" :> cc_and("f", <<"not", "any", "any">>)
  @@ "late"   :> cc_seq("f", "any", "maybe")
  @@ "retry"  :> cc_seq("f", "b", "or")

Repeats ==
     "many"   :> cc_many("f", "or")
  @@ "skip"   :> cc_many(NoFold, "space")
  @@ "lead"   :> cc_and("f", <<"skip", "many", "b">>)
  @@ "until"  :> cc_many_until("f", "any", "c")
  @@ "mute"   :> cc_many_until(NoFold, "a", "c")
  @@ "until0" :> cc_noreturn("mute")
  @@ "two"    :> cc_count(2, "f", "a")
  @@ "three"  :> cc_count(3, "f", "any")
  @@ "none"   :> cc_count(0, "f", "a")
  @@ "two0"   :> cc_count(2, NoFold, "any")
  @@ "some"   :> cc_least(1, "f", "a")
  @@ "some3"  :> cc_least(3, "f", "range")
  @@ "any0"   :> cc_least(0, "f", "b")
  @@ "counts" :> cc_or(<<"three", "two0", "some">>)
  @@ "mixed"  :> cc_and("f", <<"none", "any0", "some", "eof">>)
  @@ "chain"  :> cc_chain("f", "a", "b")
  @@ "post"   :> cc_postfix("f", "a", "or")
  @@ "post0"  :> cc_postfix(NoFold, "a", "b")
  @@ "posts"  :> cc_seq("f", "post0", "post")

Wrappers ==
     "apply"  :> cc_apply("chain", "g")
  @@ "quiet"  :> cc_noreturn("chain")
  @@ "pair"   :> cc_seq("f", "quiet", "many")
  @@ "hush"   :> cc_noerror("or")
  @@ "loud"   :> cc_or(<<"hush", "fail", "b">>)
  @@ "label"  :> cc_expect("or", "a label")
  @@ cc_between("between", "a", "label", "c")
  @@ cc_token("token", "space", "ab")
  @@ cc_matches("matches", "many")

\* Bindings: a name hides an outer one, names a recursive rule or another name.
Scopes ==
     "x"      :> cc_lookup("x")
  @@ "y"      :> cc_lookup("y")
  @@ "unknown" :> cc_lookup("unknown")
  @@ "inner"  :> cc_bind("x", "b", "x")
  @@ "xix"    :> cc_and("f", <<"x", "inner", "x">>)
  @@ "hides"  :> cc_bind("x", "a", "xix")
  @@ "nest"   :> cc_and("f", <<"a", "y", "b">>)
  @@ "rule"   :> cc_or(<<"nest", "c">>)
  @@ "rules"  :> cc_bind("y", "rule", "y")
  @@ "alias"  :> cc_bind("x", "y", "x")
  @@ "aliased" :> cc_bind("y", "ab", "alias")
  @@ "free"   :> cc_or(<<"unknown", "rules", "unknown">>)

(***************************************************************************)
(* Grammars on which the code does not do what is said of it.              *)
(***************************************************************************)
Defects ==
     "prefix" :> cc_or(<<"ab", "a">>)        \* backs off from the end of the input
  @@ "chain0" :> cc_chain(NoFold, "a", "b")  \* fails above its iteration counter
  @@ "leaky"  :> cc_or(<<"chain0", "any">>)
  @@ "count0" :> cc_count(3, NoFold, "a")    \* fails above a counter of zero
  @@ "aaa"    :> cc_or(<<"count0", "many">>)
  @@ "lost"   :> cc_noreturn("aaa")
  @@ "losing" :> cc_seq("f", "lost", "maybe")
  @@ "over"   :> cc_many_until("f", "ac", "b") \* its second try of the end succeeds
  @@ "notac"  :> cc_not("ac")
  @@ "minus"  :> cc_seq("cc_fold_last", "notac", "ab") \* bnf: ab - ac

(***************************************************************************)
(* The grammar of examples/calculator.c, tied back to itself by cc_fix:    *)
(* sums of products of signed numbers and parenthesised sums.  Characters: *)
(* 1 a digit, 2 '+', 3 '(', 4 ')', 5 '-', 6 '*', 7 '/'.                    *)
(***************************************************************************)
Calculator ==
  cc_match("digit", {1})
    @@ cc_char("plus", 2) @@ cc_char("dash", 5) @@ cc_char("times", 6) @@ cc_char("by", 7)
    @@ cc_char("open", 3) @@ cc_char("close", 4)
    @@ "digits"  :> cc_least(1, "cc_fold_concat", "digit")
    @@ "number"  :> cc_apply("digits", "read_int")
    @@ "sign"    :> cc_noreturn("dash")
    @@ "signed"  :> cc_and("cc_fold_last", <<"sign", "number">>)
    @@ "negate"  :> cc_apply("signed", "calc_negate")
    @@ cc_between("parens", "open", "sum", "close")
    @@ "unary"   :> cc_or(<<"negate", "number", "parens">>)
    @@ "mulop"   :> cc_or(<<"times", "by">>)
    @@ "prod"    :> cc_chain("calc_prod", "unary", "mulop")
    @@ "sumop"   :> cc_or(<<"plus", "dash">>)
    @@ "sum"     :> cc_chain("calc_sum", "prod", "sumop")

Grammar == Calculator @@ Terminals @@ InOrder @@ Alternatives @@ Repeats @@ Wrappers @@ Scopes @@ Defects

SoundRoots ==
  {"marks", "class", "keep", "either", "opt", "except", "late", "retry", "lead",
   "until", "until0", "two", "counts", "some3", "mixed", "apply", "posts", "pair",
   "loud", "label", "between", "token", "matches", "hides", "rules", "aliased", "free",
   "sum"}

\* Every way to fail passes through an expected label, a message or a lookup.
LoudRoots ==
  {"keep", "either", "lead", "until", "counts", "some3", "mixed", "apply", "posts",
   "between", "token", "hides", "rules", "aliased", "free", "label"}

\* A parse that fails tells its caller something, a label or a message, wherever
\* in the grammar it failed and whatever was tried and dropped before
\* (cc_eval.c:802-821, 904-914): of grammars that label each way to fail.
FailureIsReported ==
  (root \in LoudRoots /\ status = "done" /\ ~answer.matched)
    => answer.err.expected # <<>> \/ answer.err.failure # NoFailure

DefectRoots == {"prefix", "leaky", "losing", "over", "minus", "mute", "chain"}

PrefixRoot == {"prefix"}
LeakyRoot  == {"leaky"}
\* Calls itself as deep as the input nests.
DeepRoot   == {"rules"}

UpTo(n, chars) == UNION {[1 .. k -> chars] : k \in 0 .. n}
ShortInputs == UpTo(MaxLen, {1, 2, 3}) \cup [1 .. MaxLen + 1 -> {1, 2}]

\* The "2+2*(16/4-2)" of the example with shorter numbers, and the ways to go wrong.
Expressions ==
  {<<1, 2, 1, 6, 3, 1, 1, 7, 1, 5, 1, 4>>, <<3, 5, 1, 4, 6, 1>>, <<1, 5, 5, 1>>, <<3, 1, 4, 7, 1>>,
   <<3, 3, 1, 4>>, <<3, 1, 2>>, <<1, 2, 3, 4>>, <<1, 6, 1, 2>>, <<1, 7>>, <<5, 5, 1>>, <<5, 3, 1, 4>>}

AllInputs == ShortInputs \cup Expressions

(***************************************************************************)
(* The contract of cc_parse.                                               *)
(***************************************************************************)
\* What is due: the verdict of the header and the tree that folds lone operands, as in
\* AnswerIsPromised; for a parse that meets a stale EOF flag, what it comes to.
Due(p, input) ==
  LET run == BigStep!Answer(Parsers, p, input)
  IN  IF run.missed THEN [matched |-> run.matched, out |-> run.out]
      ELSE Folding!Promise(Parsers, p, input)

Promises == {[root |-> p, src |-> input, due |-> Due(p, input)] : p \in Roots, input \in Inputs}

Contract == INSTANCE ParseContract
              WITH Undelivered <- Null,
                   verdict <- IF status # "done" THEN "pending"
                              ELSE IF answer.matched THEN "matched" ELSE "failed",
                   out <- answer.out

\* The evaluator implements the contract of cc_parse: however calls, backtracking and
\* folds follow each other inside, its caller sees one answer, the one that is due,
\* and always gets it (include/ccombinator.h:488-493, cc_eval.c:926-963). Two things
\* are due that the header does not say: see Due.
ImplementsContract == Contract!Spec
=============================================================================
