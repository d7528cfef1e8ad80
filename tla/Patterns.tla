------------------------------ MODULE Patterns ------------------------------
(***************************************************************************)
(* The regular expressions of the README, as trees: how each is written,   *)
(* and what a match of it takes from an input, with ordered alternatives   *)
(* and repetitions that give nothing back.  It knows nothing of parsers;   *)
(* cc_regex is compared with it.                                           *)
(*                                                                         *)
(* Characters are their ASCII codes.                                       *)
(***************************************************************************)
EXTENDS Integers, Sequences, SequencesExt

Escape == 92
Written == [open |-> 40, close |-> 41, sel |-> 91, end |-> 93, alt |-> 124,
            not |-> 94, to |-> 45, many |-> 42, least1 |-> 43, opt |-> 63]
SpecialChars == {92, 40, 41, 91, 93, 123, 125, 124, 63, 42, 43, 46, 94, 36}
Universe == 1 .. 127

\* One character: how it is written, and the characters it takes.
One(text, set) == [op |-> "one", text |-> text, set |-> set]
Char(c)        == One(IF c \in SpecialChars THEN <<Escape, c>> ELSE <<c>>, {c})
Span(lo, hi)   == One(<<lo, Written.to, hi>>, lo .. hi)
Dot            == One(<<46>>, Universe)
Class(letter, set) == One(<<Escape, letter>>, set)
Posix(name, set)   == One(<<91, 58>> \o name \o <<58, 93>>, set)
\* A character in a selection is not escaped when it stands first: "[]a]".
Bare(c) == One(<<c>>, {c})

Text(items) == FlattenSeq([i \in DOMAIN items |-> items[i].text])
Chars(items) == UNION {items[i].set : i \in DOMAIN items}

Selection(items) == One(<<Written.sel>> \o Text(items) \o <<Written.end>>, Chars(items))
Negated(items)   == One(<<Written.sel, Written.not>> \o Text(items) \o <<Written.end>>,
                        Universe \ Chars(items))

StartOfInput == [op |-> "start"]
EndOfInput   == [op |-> "end"]
Many(p)      == [op |-> "many", of |-> <<p>>]
Least1(p)    == [op |-> "least1", of |-> <<p>>]
Opt(p)       == [op |-> "opt", of |-> <<p>>]
Group(p)     == [op |-> "group", of |-> <<p>>]
Sequence(ps) == [op |-> "seq", of |-> ps]
Alt(ps)      == [op |-> "alt", of |-> ps]

RECURSIVE Spelling(_), Takes(_, _, _), TakesAll(_, _, _), TakesFirst(_, _, _), TakesMany(_, _, _),
          HasPair(_)

\* How a pattern is written.
Spelling(p) ==
  CASE p.op = "one"    -> p.text
    [] p.op = "start"  -> <<94>>
    [] p.op = "end"    -> <<36>>
    [] p.op = "many"   -> Append(Spelling(p.of[1]), Written.many)
    [] p.op = "least1" -> Append(Spelling(p.of[1]), Written.least1)
    [] p.op = "opt"    -> Append(Spelling(p.of[1]), Written.opt)
    [] p.op = "group"  -> <<Written.open>> \o Spelling(p.of[1]) \o <<Written.close>>
    [] p.op = "seq"    -> FlattenSeq([i \in DOMAIN p.of |-> Spelling(p.of[i])])
    [] p.op = "alt"    -> FlattenSeq([i \in DOMAIN p.of |->
                            (IF i = 1 THEN <<>> ELSE <<Written.alt>>) \o Spelling(p.of[i])])

None == -1

\* Where a match of p ends that begins at a place of the input.
Takes(p, input, at) ==
  LET once == Takes(p.of[1], input, at) IN
  CASE p.op = "one"    -> IF at < Len(input) /\ input[at + 1] \in p.set THEN at + 1 ELSE None
    [] p.op = "start"  -> IF at = 0 THEN at ELSE None
    [] p.op = "end"    -> IF at = Len(input) THEN at ELSE None
    [] p.op = "many"   -> TakesMany(p.of[1], input, at)
    [] p.op = "least1" -> IF once = None THEN None ELSE TakesMany(p.of[1], input, once)
    [] p.op = "opt"    -> IF once = None THEN at ELSE once
    [] p.op = "group"  -> once
    [] p.op = "seq"    -> TakesAll(p.of, input, at)
    [] p.op = "alt"    -> TakesFirst(p.of, input, at)

TakesMany(p, input, at) ==
  LET once == Takes(p, input, at) IN IF once = None THEN at ELSE TakesMany(p, input, once)

TakesAll(ps, input, at) ==
  IF ps = <<>> \/ at = None THEN at ELSE TakesAll(Tail(ps), input, Takes(Head(ps), input, at))

TakesFirst(ps, input, at) ==
  IF ps = <<>> THEN None
  ELSE LET first == Takes(Head(ps), input, at)
       IN  IF first # None THEN first ELSE TakesFirst(Tail(ps), input, at)

\* Some part of p is a sequence of exactly two.
HasPair(p) ==
  CASE p.op \in {"one", "start", "end"} -> FALSE
    [] p.op = "seq" -> Len(p.of) = 2 \/ \E i \in DOMAIN p.of : HasPair(p.of[i])
    [] p.op = "alt" -> \E i \in DOMAIN p.of : HasPair(p.of[i])
    [] OTHER -> HasPair(p.of[1])
=============================================================================
