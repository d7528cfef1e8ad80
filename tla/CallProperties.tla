--------------------------- MODULE CallProperties ---------------------------
(***************************************************************************)
(* What a call of ir_eval leaves as it found it, whatever parser is called *)
(* and however it ends: the two flags, the scope, the input behind it and, *)
(* where it promises silence, the error report; and what its instructions  *)
(* count on.                                                               *)
(***************************************************************************)
EXTENDS Eval

Returns == Len(calls') < Len(calls)

\* NORETURN and NOERROR hold "temporarily ... for the parser p"
\* (include/ccombinator.h:347-355): a parser returns, whatever its outcome,
\* with the two flags as it found them.
ReturnsRestoreFlags ==
  [][Returns => /\ flags'.noreturn = Top.entry.noreturn
                /\ flags'.noerror = Top.entry.noerror]_vars

\* A binding is in scope while the parser of its cc_bind runs and no longer,
\* on success and on failure (cc_compiler.c:641-645, cc_eval.c:823-835).
ReturnsRestoreScope == [][Returns => scope' = Top.entry.scope]_vars

\* No parser moves the input back behind the place where it was called: a
\* RESTORE_LOCATION goes back to a SAVE_LOCATION of its own call
\* (cc_eval.c:714-720; the saved location of a new frame is the file's start).
NeverRewindsPastCall == \A i \in DOMAIN calls : calls[i].entry.loc <= loc

\* A parser that never makes its caller fail with a message leaves the report
\* as it found it: "no error messages are generated" (include/ccombinator.h:
\* 288, 353), and what a repetition's last attempt expected is dropped too.
SilentParsersReportNothing ==
  [][Returns /\ Object.type \in {"NOT", "NOERROR", "MANY", "MAYBE"}
       => err' = Top.entry.err]_vars

\* A program whose combinator has no fold never builds a fold: lazy_eval would
\* call the NULL function (cc_eval.c:541, 781).
NoNullFold ==
  AtInstr /\ Op = "FOLD" /\ ~flags.noreturn => Object.fold # NoFold

\* No assert of ir_eval or lazy_eval fails: the result stack holds one result
\* per successful parser that makes values, FOLD and APPLY find theirs, every
\* jump was patched and the scope is unwound in order (cc_eval.c:741-897).
NoAssertFails == status # "aborted"
=============================================================================
