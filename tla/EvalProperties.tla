--------------------------- MODULE EvalProperties ---------------------------
(***************************************************************************)
(* What the evaluator must get right, beyond the shape of its state.  The  *)
(* answers are compared with the promises of the header, module Peg.  What *)
(* single calls must leave alone is in CallProperties.                     *)
(***************************************************************************)
EXTENDS CallProperties

Header  == INSTANCE Peg WITH FoldsLone <- FALSE
Folding == INSTANCE Peg WITH FoldsLone <- TRUE
BigStep == INSTANCE Evaluation

\* cc_parse answers what the header promises for the grammar and the input: its
\* verdict, and its tree of folds but for one thing, the operand of cc_chain and
\* cc_postfix that no operator follows: the code folds it, where the header says that
\* it "is returned directly" (include/ccombinator.h:267-355, cc_compiler.c:396).
\* Runs in which a terminal met a stale EOF flag are exempt here.
AnswerIsPromised ==
  status = "done" /\ ~missed =>
    /\ answer.matched = Header!Promise(Parsers, root, src).matched
    /\ answer.out = Folding!Promise(Parsers, root, src).out

\* With no exemption: cc_parse answers what the recursive evaluation, which
\* hands the EOF flag on as ir_eval does, comes to; and it says which runs are
\* exempt above (cc_compiler.c:83-620, cc_eval.c:53-64, 714-720).
AnswerIsComputed ==
  status = "done" =>
    [matched |-> answer.matched, out |-> answer.out, missed |-> missed]
      = BigStep!Answer(Parsers, root, src)

\* Verdict and tree are those of the header as it is written, in every run.
AnswerIsAlwaysPromised ==
  status = "done" =>
    [matched |-> answer.matched, out |-> answer.out] = Header!Promise(Parsers, root, src)

\* Every parse comes to an end (or to a failing assert), whatever the input.
Terminates == <>(status # "run")
=============================================================================
