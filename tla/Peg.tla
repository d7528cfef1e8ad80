-------------------------------- MODULE Peg ---------------------------------
(***************************************************************************)
(* What the header promises of each parser and combinator, as a recursive  *)
(* function of the input: no programs, no stacks, no flags to restore, and *)
(* a failed attempt leaves no trace.  The evaluator is compared with it.   *)
(*                                                                         *)
(* Two points on which the header is silent follow the code: the result of *)
(* the end parser of cc_many_until is the last one folded, and cc_count of *)
(* zero yields NULL without a fold.  On one point the header and the code  *)
(* disagree, and FoldsLone tells whose word is taken: an operand of        *)
(* cc_chain or cc_postfix that no operator follows is returned directly,   *)
(* says the header (ccombinator.h:324, :330); the code folds it.           *)
(***************************************************************************)
EXTENDS Parsers, SequencesExt

CONSTANT FoldsLone  \* FALSE: the header as it is written

Nothing == <<"null">>
Fails == [ok |-> FALSE, loc |-> 0, out |-> Nothing]
Succeeds(at, out) == [ok |-> TRUE, loc |-> at, out |-> out]

\* ctx: the grammar, the input, the bindings in scope, and whether values are made.
Value(ctx, v) == IF ctx.noreturn THEN Nothing ELSE v
Quiet(ctx)    == [ctx EXCEPT !.noreturn = TRUE]
\* The parsers of a combinator without a fold make no values.
Inside(ctx, f) == IF f = NoFold THEN Quiet(ctx) ELSE ctx
Folded(ctx, f, at, outs) == Succeeds(at, Value(Inside(ctx, f), <<"fold", f, outs>>))

CharMatches(p, ch) ==
  LET places == {i \in DOMAIN p.arg : p.arg[i] = ch} IN
  CASE p.type = "ANY"        -> TRUE
    [] p.type = "CHAR"       -> ch = p.arg
    [] p.type = "CHAR_RANGE" -> ch \in p.arg[1] .. p.arg[2]
    [] p.type = "MATCH"      -> ch \in p.arg
    [] p.type = "ONEOF"      -> \E i \in places : places = {i}
    [] p.type = "ANYOF"      -> places # {}
    [] p.type = "NONEOF"     -> places = {}

ParseTerminal(ctx, p, at) ==
  LET rest == SubSeq(ctx.input, at + 1, Len(ctx.input)) IN
  CASE p.type = "STRING"   -> IF IsPrefix(p.arg, rest)
                              THEN Succeeds(at + Len(p.arg), Value(ctx, <<"string", p.arg>>))
                              ELSE Fails
    [] p.type = "EOF"      -> IF rest = <<>> THEN Succeeds(at, Nothing) ELSE Fails
    [] p.type = "SOF"      -> IF at = 0 THEN Succeeds(at, Nothing) ELSE Fails
    [] p.type = "PASS"     -> Succeeds(at, Nothing)
    [] p.type = "LOCATION" -> Succeeds(at, Value(ctx, <<"location", at>>))
    [] p.type = "LIFT"     -> Succeeds(at, Value(ctx, <<"lift", p.arg>>))
    [] p.type = "LIFT_VAL" -> Succeeds(at, Value(ctx, <<"value", p.arg>>))
    [] p.type = "FAIL"     -> Fails
    [] OTHER -> IF rest # <<>> /\ CharMatches(p, Head(rest))
                THEN Succeeds(at + 1, Value(ctx, <<"char", Head(rest)>>))
                ELSE Fails

\* The innermost binding of a name: the last one in the list.
Bindings(ctx, name) == SelectSeq(ctx.env, LAMBDA b : b.name = name)

RECURSIVE Parse(_, _, _), All(_, _, _, _), First(_, _, _), Star(_, _, _, _),
          Until(_, _, _, _, _), Links(_, _, _, _, _)

\* ps one after the other; the record's out is the sequence of their results.
All(ctx, ps, at, outs) ==
  IF ps = <<>> THEN Succeeds(at, outs)
  ELSE LET r == Parse(ctx, Head(ps), at)
       IN  IF r.ok THEN All(ctx, Tail(ps), r.loc, Append(outs, r.out)) ELSE Fails

\* The first of ps that succeeds.
First(ctx, ps, at) ==
  IF ps = <<>> THEN Fails
  ELSE LET r == Parse(ctx, Head(ps), at)
       IN  IF r.ok THEN r ELSE First(ctx, Tail(ps), at)

\* p as often as it succeeds.
Star(ctx, p, at, outs) ==
  LET r == Parse(ctx, p, at)
  IN  IF r.ok THEN Star(ctx, p, r.loc, Append(outs, r.out)) ELSE Succeeds(at, outs)

\* p until end succeeds.
Until(ctx, p, end, at, outs) ==
  LET e == Parse(ctx, end, at)
      r == Parse(ctx, p, at)
  IN  IF e.ok THEN Succeeds(e.loc, Append(outs, e.out))
      ELSE IF r.ok THEN Until(ctx, p, end, r.loc, Append(outs, r.out)) ELSE Fails

\* op and p in turn until op fails.
Links(ctx, op, p, at, outs) ==
  LET o == Parse(ctx, op, at)
      r == Parse(ctx, p, o.loc)
  IN  IF ~o.ok THEN Succeeds(at, outs)
      ELSE IF r.ok THEN Links(ctx, op, p, r.loc, outs \o <<o.out, r.out>>) ELSE Fails

Parse(ctx, id, at) ==
  LET p == ctx.parsers[id]
      f == p.fold
      c == Inside(ctx, f)
      a == p.inner[1]
      b == p.inner[2]
      fold(r) == IF r.ok THEN Folded(ctx, f, r.loc, r.out) ELSE Fails
      link(r) == IF r.ok /\ Len(r.out) = 1 /\ ~FoldsLone
                 THEN Succeeds(r.loc, Head(r.out)) ELSE fold(r)
      inner == Parse(ctx, a, at)
      quiet == Parse(Quiet(ctx), a, at)
      head(n) == All(c, [i \in 1 .. n |-> a], at, <<>>)
  IN CASE p.type \in TerminalTypes -> ParseTerminal(ctx, p, at)
       [] p.type \in {"SEQ", "AND"}   -> fold(All(c, p.inner, at, <<>>))
       [] p.type \in {"EITHER", "OR"} -> First(ctx, p.inner, at)
       [] p.type = "MANY"       -> fold(Star(c, a, at, <<>>))
       [] p.type = "MANY_UNTIL" -> fold(Until(c, a, b, at, <<>>))
       [] p.type = "COUNT"      -> IF p.n = 0 THEN Succeeds(at, Nothing) ELSE fold(head(p.n))
       [] p.type = "LEAST"      -> LET h == head(p.n)
                                   IN  fold(IF h.ok THEN Star(c, a, h.loc, h.out) ELSE Fails)
       [] p.type = "CHAIN"      -> LET h == head(1)
                                   IN  link(IF h.ok THEN Links(c, b, a, h.loc, h.out) ELSE Fails)
       [] p.type = "POSTFIX"    -> LET h == head(1)
                                   IN  link(IF h.ok THEN Star(c, b, h.loc, h.out) ELSE Fails)
       [] p.type = "MAYBE"      -> IF inner.ok THEN inner ELSE Succeeds(at, Nothing)
       [] p.type = "NOT"        -> IF quiet.ok THEN Fails ELSE Succeeds(at, Nothing)
       [] p.type = "NORETURN"   -> quiet
       [] p.type \in {"EXPECT", "NOERROR"} -> inner
       [] p.type = "APPLY"      -> IF inner.ok
                                   THEN Succeeds(inner.loc, Value(ctx, <<"apply", p.arg, inner.out>>))
                                   ELSE Fails
       [] p.type = "BIND"       -> Parse([ctx EXCEPT !.env = Append(@, p.arg)], a, at)
       [] p.type = "LOOKUP"     -> LET found == Bindings(ctx, p.arg)
                                   IN  IF found = <<>> THEN Fails
                                       ELSE Parse(ctx, found[Len(found)].p, at)

\* What cc_parse owes its caller for an input.
Promise(parsers, p, input) ==
  LET r == Parse([parsers |-> parsers, input |-> input, env |-> <<>>, noreturn |-> FALSE], p, 0)
  IN  [matched |-> r.ok, out |-> r.out]
=============================================================================
