----------------------------- MODULE Evaluation -----------------------------
(***************************************************************************)
(* What a run of the evaluator comes to, as a recursive function: the      *)
(* programs of cc_compiler.c run by ir_eval, with the two things a failed  *)
(* attempt leaves behind, the EOF flag and a report that was begun.  Eval  *)
(* takes the steps; EvalProperties compares the two, and what is built on  *)
(* top of cc_parse uses this one.                                          *)
(*                                                                         *)
(* It stops short of the grammars whose programs spoil their stacks: a     *)
(* combinator without a fold that fails above its counter, and a           *)
(* cc_many_until whose end succeeds on the second try.                     *)
(***************************************************************************)
EXTENDS Parsers, SequencesExt

Nothing == <<"null">>

\* loc; eof, the EOF flag; told, whether the report expects something; missed, a
\* terminal met the EOF flag before the end.
Start == [loc |-> 0, eof |-> FALSE, told |-> FALSE, missed |-> FALSE]

Done(ok, st, out) == [ok |-> ok, st |-> st, out |-> out]
Fails(st) == Done(FALSE, st, Nothing)

\* ctx: the grammar, the input, the scope and the flags NORETURN and NOERROR.
Value(ctx, v)  == IF ctx.noreturn THEN Nothing ELSE v
Quiet(ctx)     == [ctx EXCEPT !.noreturn = TRUE]
Hushed(ctx)    == [ctx EXCEPT !.noerror = TRUE]
Inside(ctx, f) == IF f = NoFold THEN Quiet(ctx) ELSE ctx
Back(st, to)   == [st EXCEPT !.loc = to.loc]

\* peek_at sets the EOF flag at the end and never clears it.
Peek(ctx, st) == [st EXCEPT !.eof = @ \/ st.loc >= Len(ctx.input)]

\* new_error forgets what was expected.
new_error(ctx, st) == IF ctx.noerror THEN st ELSE [Peek(ctx, st) EXCEPT !.told = FALSE]

Accepts(p, ch) ==
  LET places == {i \in DOMAIN p.arg : p.arg[i] = ch} IN
  CASE p.type = "ANY"        -> TRUE
    [] p.type = "CHAR"       -> ch = p.arg
    [] p.type = "CHAR_RANGE" -> p.arg[1] <= ch /\ ch <= p.arg[2]
    [] p.type = "MATCH"      -> ch \in p.arg
    [] p.type = "ONEOF"      -> \E i \in places : places = {i}
    [] p.type = "ANYOF"      -> places # {}
    [] p.type = "NONEOF"     -> places = {}

call_terminal(ctx, p, before) ==
  LET st     == [before EXCEPT !.missed = @ \/ (before.eof /\ before.loc < Len(ctx.input))]
      peeked == Peek(ctx, st)
      stays(ok, v) == Done(ok, st, Value(ctx, v))
      moves(n, v)  == Done(TRUE, [st EXCEPT !.loc = @ + n], Value(ctx, v))
  IN CASE p.type = "STRING"   -> IF \/ p.arg = <<>>
                                    \/ ~st.eof /\ IsPrefix(p.arg, SubSeq(ctx.input, st.loc + 1, Len(ctx.input)))
                                 THEN moves(Len(p.arg), <<"string", p.arg>>) ELSE Fails(st)
       [] p.type = "EOF"      -> Done(peeked.eof, peeked, Nothing)
       [] p.type = "SOF"      -> stays(st.loc = 0, Nothing)
       [] p.type = "PASS"     -> stays(TRUE, Nothing)
       [] p.type = "LOCATION" -> stays(TRUE, <<"location", st.loc>>)
       [] p.type = "LIFT"     -> stays(TRUE, <<"lift", p.arg>>)
       [] p.type = "LIFT_VAL" -> stays(TRUE, <<"value", p.arg>>)
       [] p.type = "FAIL"     -> Fails(new_error(ctx, st))
       [] OTHER -> IF ~peeked.eof /\ Accepts(p, ctx.input[st.loc + 1])
                   THEN moves(1, <<"char", ctx.input[st.loc + 1]>>) ELSE Fails(peeked)

Bindings(ctx, name) == SelectSeq(ctx.scope, LAMBDA b : b.name = name)

RECURSIVE Run(_, _, _), All(_, _, _, _), First(_, _, _, _), Star(_, _, _, _),
          Until(_, _, _, _, _), Links(_, _, _, _, _)

\* generate_try: a failure goes back to where the attempt began.
Try(ctx, p, st) == LET r == Run(ctx, p, st) IN IF r.ok THEN r ELSE Fails(Back(r.st, st))

All(ctx, ps, st, outs) ==
  IF ps = <<>> THEN Done(TRUE, st, outs)
  ELSE LET r == Run(ctx, Head(ps), st)
       IN  IF r.ok THEN All(ctx, Tail(ps), r.st, Append(outs, r.out)) ELSE r

\* Each alternative from where the first one began; the last one stays where it failed.
First(ctx, ps, from, st) ==
  LET r == Run(ctx, Head(ps), Back(st, from))
  IN  IF r.ok \/ Tail(ps) = <<>> THEN r ELSE First(ctx, Tail(ps), from, r.st)

Star(ctx, p, st, outs) ==
  LET r == Try(Hushed(ctx), p, st)
  IN  IF r.ok THEN Star(ctx, p, r.st, Append(outs, r.out)) ELSE Done(TRUE, r.st, outs)

Until(ctx, p, end, st, outs) ==
  LET e == Try(Hushed(ctx), end, st)
      r == Run(ctx, p, e.st)
  IN  IF e.ok THEN Done(TRUE, e.st, Append(outs, e.out))
      ELSE IF r.ok THEN Until(ctx, p, end, r.st, Append(outs, r.out))
      ELSE Try(ctx, end, r.st)

Links(ctx, op, p, st, outs) ==
  LET o == Try(Hushed(ctx), op, st)
      r == Run(ctx, p, o.st)
  IN  IF ~o.ok THEN Done(TRUE, o.st, outs)
      ELSE IF r.ok THEN Links(ctx, op, p, r.st, outs \o <<o.out, r.out>>) ELSE r

Run(ctx, id, st) ==
  LET p == ctx.parsers[id]
      f == p.fold
      c == Inside(ctx, f)
      a == p.inner[1]
      b == p.inner[2]
      fold(r) == IF r.ok THEN Done(TRUE, r.st, Value(c, <<"fold", f, r.out>>)) ELSE Fails(r.st)
      times(n) == All(c, [i \in 1 .. n |-> a], st, <<>>)
      then(h, r) == fold(IF h.ok THEN r ELSE h)
      inner == Run(ctx, a, st)
      maybe == Try(Hushed(ctx), a, st)
      denied == Run(Hushed(Quiet(ctx)), a, st)
      quiet == Run(Quiet(ctx), a, st)
      found == Bindings(ctx, p.arg)
  IN CASE p.type \in TerminalTypes -> call_terminal(ctx, p, st)
       [] p.type \in {"SEQ", "AND"}   -> fold(All(c, p.inner, st, <<>>))
       [] p.type \in {"EITHER", "OR"} -> First(ctx, p.inner, st, st)
       [] p.type = "MANY"       -> fold(Star(c, a, st, <<>>))
       [] p.type = "MANY_UNTIL" -> fold(Until(c, a, b, st, <<>>))
       [] p.type = "COUNT"      -> IF p.n = 0 THEN Done(TRUE, st, Nothing) ELSE fold(times(p.n))
       [] p.type = "LEAST"      -> LET h == times(p.n) IN then(h, Star(c, a, h.st, h.out))
       [] p.type = "CHAIN"      -> LET h == times(1) IN then(h, Links(c, b, a, h.st, h.out))
       [] p.type = "POSTFIX"    -> LET h == times(1) IN then(h, Star(c, b, h.st, h.out))
       [] p.type = "MAYBE"      -> Done(TRUE, maybe.st, maybe.out)
       [] p.type = "NOT"        -> IF denied.ok THEN Fails(Back(denied.st, st))
                                   ELSE Done(TRUE, denied.st, Nothing)
       [] p.type = "NORETURN"   -> Done(quiet.ok, quiet.st, Nothing)
       [] p.type = "NOERROR"    -> Run(Hushed(ctx), a, st)
       [] p.type = "EXPECT"     -> IF inner.ok \/ ctx.noerror THEN inner
                                   ELSE Fails([IF inner.st.told THEN inner.st
                                               ELSE Peek(ctx, inner.st) EXCEPT !.told = TRUE])
       [] p.type = "APPLY"      -> IF inner.ok
                                   THEN Done(TRUE, inner.st, Value(ctx, <<"apply", p.arg, inner.out>>))
                                   ELSE inner
       [] p.type = "BIND"       -> Run([ctx EXCEPT !.scope = Append(@, p.arg)], a, st)
       [] p.type = "LOOKUP"     -> IF found = <<>> THEN Fails(new_error(ctx, st))
                                   ELSE Run(ctx, Last(found).p, st)

\* What cc_parse answers.
Answer(parsers, p, input) ==
  LET ctx == [parsers |-> parsers, input |-> input, scope |-> <<>>,
              noreturn |-> FALSE, noerror |-> FALSE]
      r   == Run(ctx, p, Start)
  IN  [matched |-> r.ok, out |-> r.out, missed |-> r.st.missed]
=============================================================================
