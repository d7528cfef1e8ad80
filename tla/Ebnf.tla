-------------------------------- MODULE Ebnf --------------------------------
(***************************************************************************)
(* The grammars of the README's extended Backus-Naur form, as trees: how   *)
(* each is written, and what it matches and returns, with ordered          *)
(* alternatives and repetitions that give nothing back.  It knows nothing  *)
(* of parsers; cc_bnf and cc_rule are compared with it.                    *)
(*                                                                         *)
(* A grammar is a sequence of rules and the text that follows every token, *)
(* white space or comments.  NoAction stands where no action is named.     *)
(***************************************************************************)
EXTENDS Integers, Sequences, SequencesExt

CONSTANT Actions  \* names to their type ("fold", "apply", "lift", "value", "match") and meaning

NoAction == <<>>

Literal(text, quote) == [op |-> "literal", text |-> text, quote |-> quote]
Named(name)          == [op |-> "named", name |-> name]
Optional(p)          == [op |-> "optional", of |-> <<p>>]
Repetition(a, p)     == [op |-> "repetition", action |-> a, of |-> <<p>>]
Grouping(a, p)       == [op |-> "grouping", action |-> a, of |-> <<p>>]
Action(a)            == [op |-> "action", action |-> a, of |-> <<>>]
Exception(p, q)      == [op |-> "exception", of |-> <<p, q>>]
Concatenation(a, ps) == [op |-> "concatenation", action |-> a, of |-> ps]
Alternation(ps)      == [op |-> "alternation", of |-> ps]
RuleOf(name, body)   == [name |-> name, body |-> body]

-----------------------------------------------------------------------------
\* In a literal \t, \n, \v, \r, \", \' and \\ stand for one character.
Escapes == <<9, 10, 11, 13, 34, 39, 92>>
Letters == <<116, 110, 118, 114, 34, 39, 92>>
Escaped(c) ==
  IF c \in Range(Escapes)
  THEN <<92, Letters[CHOOSE i \in DOMAIN Escapes : Escapes[i] = c]>> ELSE <<c>>

RECURSIVE Wording(_, _), Listing(_, _, _)

\* How an expression is written, with a gap after each token, and a space before
\* the sign of an exception, which would be part of a name otherwise.
Wording(p, gap) ==
  LET tok(text) == text \o gap
      by(a, after) == IF a = NoAction THEN <<>> ELSE tok(<<64>> \o a) \o after
      in(a, open, close) == by(a, <<>>) \o tok(open) \o Wording(p.of[1], gap) \o tok(close)
  IN CASE p.op = "literal"    -> tok(<<p.quote>> \o FlattenSeq([i \in DOMAIN p.text |-> Escaped(p.text[i])])
                                       \o <<p.quote>>)
       [] p.op = "named"      -> tok(p.name)
       [] p.op = "optional"   -> in(NoAction, <<91>>, <<93>>)
       [] p.op = "repetition" -> in(p.action, <<123>>, <<125>>)
       [] p.op = "grouping"   -> in(p.action, <<40>>, <<41>>)
       [] p.op = "action"     -> by(p.action, <<>>)
       [] p.op = "exception"  -> Listing(p.of, <<32>> \o tok(<<45>>), gap)
       [] p.op = "concatenation" -> by(p.action, tok(<<58>>)) \o Listing(p.of, tok(<<44>>), gap)
       [] p.op = "alternation"   -> Listing(p.of, tok(<<124>>), gap)

Listing(ps, sep, gap) ==
  Wording(ps[1], gap) \o FlattenSeq([i \in 1 .. Len(ps) - 1 |-> sep \o Wording(ps[i + 1], gap)])

WordingOf(g) ==
  g.gap \o FlattenSeq([i \in DOMAIN g.rules |->
    g.rules[i].name \o g.gap \o <<61>> \o g.gap \o Wording(g.rules[i].body, g.gap) \o <<59>> \o g.gap])

-----------------------------------------------------------------------------
\* No rule is defined twice, and every action is one of the type its place asks for.
TypesAt(p) ==
  CASE p.op \in {"repetition", "concatenation"} -> {"fold"}
    [] p.op = "grouping" -> {"apply"}
    [] p.op = "action"   -> {"lift", "value", "match"}

RECURSIVE ActionsFit(_)
ActionsFit(p) ==
  /\ "action" \in DOMAIN p /\ p.action # NoAction =>
       p.action \in DOMAIN Actions /\ Actions[p.action].type \in TypesAt(p)
  /\ "of" \in DOMAIN p => \A i \in DOMAIN p.of : ActionsFit(p.of[i])

WellFormed(g) ==
  /\ \A i, j \in DOMAIN g.rules : g.rules[i].name = g.rules[j].name => i = j
  /\ \A i \in DOMAIN g.rules : ActionsFit(g.rules[i].body)

-----------------------------------------------------------------------------
\* A match ends somewhere and returns a text, "" if it returns none.
Ends(at, text) == [ends |-> at, text |-> text]
Refuses == Ends(-1, <<>>)

ByFold(f, texts) ==
  CASE f = "cc_fold_concat" -> FlattenSeq(texts)
    [] f = "cc_fold_null"   -> <<>>
    [] f = "cc_fold_first"  -> IF texts = <<>> THEN <<>> ELSE texts[1]
    [] f = "cc_fold_last"   -> IF texts = <<>> THEN <<>> ELSE Last(texts)

\* Without a fold there is no text; the apply function of the library, which
\* frees what it is given, leaves none either.
TextBy(a, texts) == IF a = NoAction THEN <<>> ELSE ByFold(Actions[a].of, texts)

RECURSIVE Derives(_, _, _, _), InOrder(_, _, _, _, _), AnyOf(_, _, _, _), Again(_, _, _, _, _)

Derives(g, p, input, at) ==
  LET once == Derives(g, p.of[1], input, at)
      rule == SelectSeq(g.rules, LAMBDA r : r.name = p.name)
  IN CASE p.op = "literal"  -> IF IsPrefix(p.text, SubSeq(input, at + 1, Len(input)))
                               THEN Ends(at + Len(p.text), p.text) ELSE Refuses
       [] p.op = "named"    -> IF rule = <<>> THEN Refuses ELSE Derives(g, rule[1].body, input, at)
       [] p.op = "optional" -> IF once = Refuses THEN Ends(at, <<>>) ELSE once
       [] p.op = "grouping" -> IF once = Refuses \/ p.action = NoAction THEN once
                               ELSE Ends(once.ends, <<>>)
       [] p.op = "action"   ->
            IF Actions[p.action].type # "match" THEN Ends(at, Actions[p.action].of)
            ELSE IF at < Len(input) /\ input[at + 1] \in Actions[p.action].of
                 THEN Ends(at + 1, <<input[at + 1]>>) ELSE Refuses
       [] p.op = "exception"     -> IF Derives(g, p.of[2], input, at) = Refuses THEN once ELSE Refuses
       [] p.op = "repetition"    -> Again(g, p, input, at, <<>>)
       [] p.op = "alternation"   -> AnyOf(g, p.of, input, at)
       [] p.op = "concatenation" ->
            IF Len(p.of) = 1 /\ p.action = NoAction THEN once
            ELSE InOrder(g, p, input, at, <<>>)

\* The texts of the items so far decide which item is next.
InOrder(g, p, input, at, texts) ==
  IF Len(texts) = Len(p.of) THEN Ends(at, TextBy(p.action, texts))
  ELSE LET next == Derives(g, p.of[Len(texts) + 1], input, at)
       IN  IF next = Refuses THEN Refuses
           ELSE InOrder(g, p, input, next.ends, Append(texts, next.text))

Again(g, p, input, at, texts) ==
  LET next == Derives(g, p.of[1], input, at)
  IN  IF next = Refuses THEN Ends(at, TextBy(p.action, texts))
      ELSE Again(g, p, input, next.ends, Append(texts, next.text))

AnyOf(g, ps, input, at) ==
  IF ps = <<>> THEN Refuses
  ELSE LET first == Derives(g, Head(ps), input, at)
       IN  IF first # Refuses THEN first ELSE AnyOf(g, Tail(ps), input, at)

\* The rule that was asked for, to the end of the input.
Sentence(g, name, input) ==
  LET m == Derives(g, Named(name), input, 0) IN IF m.ends = Len(input) THEN m ELSE Refuses
=============================================================================
