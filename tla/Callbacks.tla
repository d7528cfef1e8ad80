----------------------------- MODULE Callbacks ------------------------------
(***************************************************************************)
(* What the two front ends have in common.  cc_regex and cc_bnf parse a    *)
(* source with a grammar of the library's own combinators, and the         *)
(* callbacks of that grammar build parsers for the language of the source: *)
(* the pointers they hand to each other, the constructors as they are      *)
(* called with such pointers, the fold functions of the library, and the   *)
(* parser that comes out.                                                  *)
(*                                                                         *)
(* Characters are ASCII codes.  What a failing allocation does is left out *)
(* and the labels are one text.                                            *)
(***************************************************************************)
EXTENDS Evaluation, FiniteSetsExt

\* NULL, a string, a number, a parser, or something of the caller's.
Nul       == [is |-> "null"]
Str(s)    == [is |-> "text", of |-> s]
Number(n) == IF n = 0 THEN Nul ELSE [is |-> "number", of |-> n]
Object(p) == [is |-> "parser", of |-> p]

\* What a constructor stores when it is handed a value: the memory of a string
\* is no parser.
Wild == Terminal("UNDEFINED", NoFold)
Stored(v) == CASE v.is = "parser" -> v.of [] v.is = "null" -> Nul [] OTHER -> Wild

\* A constructor with named arguments refuses NULL and returns NULL.
Unary(v, build(_)) == IF v = Nul THEN Nul ELSE Object(build(Stored(v)))
Binary(a, b, build(_, _)) ==
  IF Nul \in {a, b} THEN Nul ELSE Object(build(Stored(a), Stored(b)))
\* cc_andv and cc_orv do not look at the array they are given.
StoredAll(vs) == [i \in DOMAIN vs |-> Stored(vs[i])]

\* A character parser is a terminal under a label.
Labelled(type, arg) == cc_expect(Terminal(type, arg), "character")

Digit     == 48 .. 57
Lower     == 97 .. 122
Upper     == 65 .. 90
White     == 9 .. 13 \cup {32}
Alphanum  == Digit \cup Lower \cup Upper
WordChars == Alphanum \cup {95}
HexDigit  == Digit \cup 97 .. 102 \cup 65 .. 70

\* Mutant: a NULL ends the string.
cc_fold_concat_stopping(vs) ==
  LET nulls == {i \in DOMAIN vs : vs[i] = Nul}
      upto == IF nulls = {} THEN vs ELSE SubSeq(vs, 1, Min(nulls) - 1)
  IN  IF Len(vs) = 1 THEN vs[1] ELSE Str(FlattenSeq([i \in DOMAIN upto |-> upto[i].of]))

cc_fold_concat(vs) ==
  IF Len(vs) = 1 THEN vs[1]
  ELSE Str(FlattenSeq([i \in DOMAIN vs |-> IF vs[i] = Nul THEN <<>> ELSE vs[i].of]))

cc_fold_first(vs)  == IF vs = <<>> THEN Nul ELSE vs[1]
cc_fold_middle(vs) == IF vs = <<>> THEN Nul ELSE vs[Len(vs) \div 2 + 1]
cc_fold_last(vs)   == IF vs = <<>> THEN Nul ELSE Last(vs)
cc_fold_null(vs)   == Nul
cc_apply_free(v)   == Nul

\* A character or a string that makes no value; an id names what it builds.
Silent(id, ch)     == id :> cc_noreturn(id \o ".c") @@ cc_char(id \o ".c", ch)
SilentText(id, s)  == id :> cc_noreturn(id \o ".s") @@ cc_string(id \o ".s", s)
Means(id, p, callback) == id :> cc_apply(p, callback)
Joined(grammars, first) == FoldFunction(LAMBDA g, rest : g @@ rest, first, grammars)

-----------------------------------------------------------------------------
(* A parser that was built is a tree; its places name its objects.         *)

RECURSIVE Flat(_, _)
Flat(p, at) ==
  Joined([i \in DOMAIN p.inner |-> Flat(p.inner[i], Append(at, i))],
         at :> [p EXCEPT !.inner = [i \in DOMAIN p.inner |-> Append(at, i)]])

\* Every object that can be reached is a parser.
RECURSIVE Sound(_)
Sound(p) ==
  /\ p # Nul /\ p.type \in {"LOOKUP"} \cup TerminalTypes \cup CombinatorTypes
  /\ \A i \in DOMAIN p.inner : Sound(p.inner[i])
=============================================================================
