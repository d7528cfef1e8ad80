------------------------------ MODULE Compiler ------------------------------
(***************************************************************************)
(* cc_compiler.c: a combinator is compiled to a program for the stack      *)
(* machine of cc_eval.c the first time it is called.                       *)
(*                                                                         *)
(* A generate_* operator returns the instructions its C function emits, in *)
(* order, as records [op, arg].  The C code emits a jump with the target   *)
(* UINT32_MAX and patches it when the target is reached; here a jump names *)
(* a label, a mark in the stream says where the label stands, and Assemble *)
(* resolves the names.  Positions count instructions, not bytes.           *)
(*                                                                         *)
(* IR_RETURN and IR_POP_RESULT are emitted by no generator and left out.   *)
(***************************************************************************)
EXTENDS Parsers, SequencesExt

CONSTANTS
  UnrollThreshold   \* IR_UNROLL_THRESHOLD: repeat counts below it are unrolled

PARSE_FAILURE == 0
PARSE_SUCCESS == 1

\* UINT32_MAX in the operand of a jump that no one patched.
Unpatched == 0

Jumps == {"JUMP", "JUMP_IF_NONZERO", "JUMP_IF_SUCCESS", "JUMP_IF_FAILURE"}

Ops == {"PUSH", "POP", "SWAP", "DUP", "NEGATE", "INCREMENT", "DECREMENT",
        "SAVE_LOCATION", "RESTORE_LOCATION", "SET_NOERROR", "SET_NORETURN",
        "CALL", "FOLD", "APPLY", "EXPECT", "PUSH_BINDING", "POP_BINDING",
        "NULL_RESULT"} \cup Jumps

Instr(op, arg)   == <<[op |-> op, arg |-> arg]>>
Emit(ops)        == [i \in DOMAIN ops |-> [op |-> ops[i], arg |-> 0]]
EmitPush(v)      == Instr("PUSH", v)
EmitCall(p)      == Instr("CALL", p)
EmitJump(op, label) == Instr(op, label)
Label(label)     == Instr("LABEL", label)

SetNoreturn     == EmitPush(1) \o Emit(<<"SET_NORETURN">>)
SetNoerror      == EmitPush(1) \o Emit(<<"SET_NOERROR">>)
RestoreNoreturn == Emit(<<"SWAP", "SET_NORETURN", "POP">>)
RestoreNoerror  == Emit(<<"SWAP", "SET_NOERROR", "POP">>)

\* Mutant: the flag is cleared where it should be set.
EnterFoldClearing(f) == IF f = NoFold THEN EmitPush(0) \o Emit(<<"SET_NORETURN">>) ELSE <<>>

\* The brackets a combinator puts around its program when it has no fold.
EnterFold(f) == IF f = NoFold THEN SetNoreturn ELSE <<>>
LeaveFold(f) == IF f = NoFold THEN RestoreNoreturn \o Emit(<<"NULL_RESULT">>) ELSE <<>>

\* Mutant: tries without saving the location it restores.
generate_try_unsaved(inner, noerror, lsuccess) ==
  (IF noerror THEN SetNoerror ELSE <<>>) \o EmitCall(inner)
    \o (IF noerror THEN RestoreNoerror ELSE <<>>)
    \o EmitJump("JUMP_IF_SUCCESS", lsuccess) \o Emit(<<"RESTORE_LOCATION">>)

generate_try(inner, noerror, lsuccess) ==
  (IF noerror THEN SetNoerror ELSE <<>>)
    \o Emit(<<"SAVE_LOCATION">>) \o EmitCall(inner)
    \o (IF noerror THEN RestoreNoerror ELSE <<>>)
    \o EmitJump("JUMP_IF_SUCCESS", lsuccess) \o Emit(<<"RESTORE_LOCATION">>)

\* Mutant: counts the attempt that failed.
generate_many_iter_overcounting(inner, extra_iter) ==
  SetNoerror \o EmitPush(extra_iter)
    \o Label("lrepeat")
    \o Emit(<<"SAVE_LOCATION", "INCREMENT">>) \o EmitCall(inner)
    \o EmitJump("JUMP_IF_SUCCESS", "lrepeat")
    \o Emit(<<"RESTORE_LOCATION", "FOLD", "SET_NOERROR", "POP">>)

\* Mutant: tries again after a failure.
generate_many_iter_retrying(inner, extra_iter) ==
  SetNoerror \o EmitPush(extra_iter)
    \o Label("lrepeat")
    \o Emit(<<"SAVE_LOCATION", "INCREMENT">>) \o EmitCall(inner)
    \o EmitJump("JUMP_IF_FAILURE", "lrepeat")
    \o Emit(<<"RESTORE_LOCATION", "DECREMENT", "FOLD", "SET_NOERROR", "POP">>)

generate_many_iter(inner, extra_iter) ==
  SetNoerror \o EmitPush(extra_iter)
    \o Label("lrepeat")
    \o Emit(<<"SAVE_LOCATION", "INCREMENT">>) \o EmitCall(inner)
    \o EmitJump("JUMP_IF_SUCCESS", "lrepeat")
    \o Emit(<<"RESTORE_LOCATION", "DECREMENT", "FOLD", "SET_NOERROR", "POP">>)

generate_many(f, inner) ==
  EnterFold(f) \o generate_many_iter(inner, 0)
    \o (IF f = NoFold THEN Emit(<<"SET_NORETURN", "POP", "NULL_RESULT">>) ELSE <<>>)
    \o EmitPush(PARSE_SUCCESS)

generate_many_until(f, inner, end) ==
  EnterFold(f) \o EmitPush(1)
    \o Label("lrepeat") \o generate_try(end, TRUE, "lsuccess")
    \o Emit(<<"INCREMENT">>) \o EmitCall(inner) \o EmitJump("JUMP_IF_SUCCESS", "lrepeat")
    \o generate_try(end, FALSE, "lsuccess")
    \o EmitPush(PARSE_FAILURE) \o EmitJump("JUMP", "lrestore")
    \o EmitJump("JUMP", "lrepeat")
    \o Label("lsuccess") \o Emit(<<"FOLD">>) \o EmitPush(PARSE_SUCCESS)
    \o Label("lrestore") \o LeaveFold(f)

\* One call whose failure ends the enclosing combinator.
CallOrRestore(inner) ==
  EmitCall(inner) \o Emit(<<"DUP">>) \o EmitJump("JUMP_IF_FAILURE", "lrestore")
    \o Emit(<<"POP">>)

generate_count_linear(inner, n) == FlattenSeq([i \in 1..n |-> CallOrRestore(inner)])

generate_count_iter(inner, n) ==
  EmitPush(n)
    \o Label("lcount") \o Emit(<<"DECREMENT">>) \o CallOrRestore(inner)
    \o Emit(<<"DUP">>) \o EmitJump("JUMP_IF_NONZERO", "lcount") \o Emit(<<"POP">>)

RunTimes(inner, n) ==
  IF n < UnrollThreshold THEN generate_count_linear(inner, n)
                         ELSE generate_count_iter(inner, n)

generate_count(f, inner, n) ==
  IF n = 0
  THEN Emit(<<"NULL_RESULT">>) \o EmitPush(PARSE_SUCCESS)
  ELSE EnterFold(f) \o RunTimes(inner, n)
         \o EmitPush(n) \o Emit(<<"FOLD">>) \o EmitPush(PARSE_SUCCESS)
         \o Label("lrestore") \o LeaveFold(f)

generate_least(f, inner, n) ==
  EnterFold(f) \o RunTimes(inner, n) \o generate_many_iter(inner, n)
    \o EmitPush(PARSE_SUCCESS) \o Label("lrestore") \o LeaveFold(f)

\* Mutant: lets the optional parser report what it expected.
generate_maybe_reporting(inner) ==
  generate_try(inner, FALSE, "lsuccess") \o Emit(<<"NULL_RESULT">>)
    \o Label("lsuccess") \o EmitPush(PARSE_SUCCESS)

\* Mutant: ends without an outcome.
generate_maybe_mute(inner) ==
  generate_try(inner, TRUE, "lsuccess") \o Emit(<<"NULL_RESULT">>) \o Label("lsuccess")

generate_maybe(inner) ==
  generate_try(inner, TRUE, "lsuccess") \o Emit(<<"NULL_RESULT">>)
    \o Label("lsuccess") \o EmitPush(PARSE_SUCCESS)

\* Mutant: counts an operator and its operand as one result.
generate_chain_undercounting(f, lr, op) ==
  EnterFold(f) \o CallOrRestore(lr) \o EmitPush(1)
    \o Label("lrepeat") \o Emit(<<"SAVE_LOCATION">>) \o SetNoerror
    \o EmitCall(op) \o RestoreNoerror \o EmitJump("JUMP_IF_FAILURE", "lbreak")
    \o CallOrRestore(lr) \o Emit(<<"INCREMENT">>)
    \o EmitJump("JUMP", "lrepeat")
    \o Label("lbreak") \o Emit(<<"RESTORE_LOCATION", "FOLD">>) \o EmitPush(PARSE_SUCCESS)
    \o Label("lrestore") \o LeaveFold(f)

generate_chain(f, lr, op) ==
  EnterFold(f) \o CallOrRestore(lr) \o EmitPush(1)
    \o Label("lrepeat") \o Emit(<<"SAVE_LOCATION">>) \o SetNoerror
    \o EmitCall(op) \o RestoreNoerror \o EmitJump("JUMP_IF_FAILURE", "lbreak")
    \o CallOrRestore(lr) \o Emit(<<"INCREMENT", "INCREMENT">>)
    \o EmitJump("JUMP", "lrepeat")
    \o Label("lbreak") \o Emit(<<"RESTORE_LOCATION", "FOLD">>) \o EmitPush(PARSE_SUCCESS)
    \o Label("lrestore") \o LeaveFold(f)

generate_postfix(f, lhs, rhs) ==
  EnterFold(f) \o CallOrRestore(lhs) \o generate_many_iter(rhs, 1)
    \o EmitPush(PARSE_SUCCESS) \o Label("lrestore") \o LeaveFold(f)

generate_sequenced(f, inner) ==
  EnterFold(f) \o FlattenSeq([i \in DOMAIN inner |-> CallOrRestore(inner[i])])
    \o EmitPush(Len(inner)) \o Emit(<<"FOLD">>) \o EmitPush(PARSE_SUCCESS)
    \o Label("lrestore") \o LeaveFold(f)

\* Mutant: goes on where the failed alternative stopped.
generate_variants_forward(inner) ==
  FlattenSeq([i \in DOMAIN inner |->
                Emit(<<"SAVE_LOCATION">>)
                  \o EmitCall(inner[i]) \o Emit(<<"DUP">>)
                  \o EmitJump("JUMP_IF_SUCCESS", "lbreak") \o Emit(<<"POP">>)])
    \o EmitPush(PARSE_FAILURE) \o Label("lbreak")

generate_variants(inner) ==
  FlattenSeq([i \in DOMAIN inner |->
                Emit(<<IF i = 1 THEN "SAVE_LOCATION" ELSE "RESTORE_LOCATION">>)
                  \o EmitCall(inner[i]) \o Emit(<<"DUP">>)
                  \o EmitJump("JUMP_IF_SUCCESS", "lbreak") \o Emit(<<"POP">>)])
    \o EmitPush(PARSE_FAILURE) \o Label("lbreak")

generate_not(inner) ==
  Emit(<<"SAVE_LOCATION">>) \o SetNoreturn \o SetNoerror \o EmitCall(inner)
    \o RestoreNoerror \o RestoreNoreturn
    \o Emit(<<"NULL_RESULT", "NEGATE", "DUP">>)
    \o EmitJump("JUMP_IF_SUCCESS", "lend") \o Emit(<<"RESTORE_LOCATION">>)
    \o Label("lend")

\* Mutant: reports the label of a parser that succeeded.
generate_expect_inverted(inner) ==
  EmitCall(inner) \o Emit(<<"DUP">>) \o EmitJump("JUMP_IF_FAILURE", "lend")
    \o Emit(<<"EXPECT">>) \o Label("lend")

generate_expect(inner) ==
  EmitCall(inner) \o Emit(<<"DUP">>) \o EmitJump("JUMP_IF_SUCCESS", "lend")
    \o Emit(<<"EXPECT">>) \o Label("lend")

generate_apply(inner) ==
  EmitCall(inner) \o Emit(<<"DUP">>) \o EmitJump("JUMP_IF_FAILURE", "lend")
    \o Emit(<<"APPLY">>) \o Label("lend")

generate_noreturn(inner) ==
  SetNoreturn \o EmitCall(inner) \o RestoreNoreturn \o Emit(<<"NULL_RESULT">>)

\* Mutant: drops the saved flag instead of restoring it.
generate_noerror_leaking(inner) ==
  SetNoerror \o EmitCall(inner) \o Emit(<<"SWAP", "POP">>)

generate_noerror(inner) == SetNoerror \o EmitCall(inner) \o RestoreNoerror

\* Mutant: a failure leaves the binding in scope.
generate_bind_unbalanced(inner) ==
  Emit(<<"PUSH_BINDING">>) \o EmitCall(inner)
    \o Emit(<<"DUP">>) \o EmitJump("JUMP_IF_FAILURE", "lend")
    \o Emit(<<"POP_BINDING">>) \o Label("lend")

generate_bind(inner) ==
  Emit(<<"PUSH_BINDING">>) \o EmitCall(inner) \o Emit(<<"POP_BINDING">>)

(***************************************************************************)
(* apply_patches: a jump to a label becomes a jump to the instruction that *)
(* follows the mark; a label that stands nowhere stays Unpatched.          *)
(***************************************************************************)
Target(code, label) ==
  LET marks == {k \in DOMAIN code : code[k].op = "LABEL" /\ code[k].arg = label}
      before(k) == Len(SelectSeq(SubSeq(code, 1, k), LAMBDA i : i.op # "LABEL"))
  IN  IF marks = {} THEN Unpatched ELSE 1 + before(CHOOSE k \in marks : TRUE)

Assemble(code) ==
  LET resolved == [k \in DOMAIN code |->
                     IF code[k].op \in Jumps
                     THEN [code[k] EXCEPT !.arg = Target(code, @)] ELSE code[k]]
  IN  SelectSeq(resolved, LAMBDA i : i.op # "LABEL")

\* The dispatch on the parser's type.
cc_compile(p) ==
  LET a == p.inner[1]
      b == p.inner[2]
  IN  Assemble(
        CASE p.type = "MANY"       -> generate_many(p.fold, a)
          [] p.type = "MANY_UNTIL" -> generate_many_until(p.fold, a, b)
          [] p.type = "COUNT"      -> generate_count(p.fold, a, p.n)
          [] p.type = "LEAST"      -> generate_least(p.fold, a, p.n)
          [] p.type = "MAYBE"      -> generate_maybe(a)
          [] p.type = "CHAIN"      -> generate_chain(p.fold, a, b)
          [] p.type = "POSTFIX"    -> generate_postfix(p.fold, a, b)
          [] p.type \in {"SEQ", "AND"}   -> generate_sequenced(p.fold, p.inner)
          [] p.type \in {"EITHER", "OR"} -> generate_variants(p.inner)
          [] p.type = "NOT"        -> generate_not(a)
          [] p.type = "EXPECT"     -> generate_expect(a)
          [] p.type = "APPLY"      -> generate_apply(a)
          [] p.type = "NORETURN"   -> generate_noreturn(a)
          [] p.type = "NOERROR"    -> generate_noerror(a)
          [] p.type = "BIND"       -> generate_bind(a))
=============================================================================
