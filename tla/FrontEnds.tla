----------------------------- MODULE FrontEnds ------------------------------
(***************************************************************************)
(* cc_regex and cc_bnf from the source they are given to the parser that   *)
(* runs: the source is parsed, its result tree is evaluated, which builds  *)
(* a parser or a table of rules, and cc_parse or cc_matches runs what was  *)
(* built.  Patterns and Ebnf say what the source means.                    *)
(***************************************************************************)
EXTENDS Regex, Bnf

CONSTANTS
  Pats,      \* the patterns tried, as trees
  Grammars,  \* the grammars tried, as trees
  Texts,     \* the inputs they are matched with
  Sentences  \* the inputs of the grammars

VARIABLES
  from,   \* the front end that was called, "none" before
  source, \* the tree of the source it was given
  made,   \* what came of it, and whether its parse met a stale EOF flag
  call,   \* the call that ran it
  text,   \* and on which input
  found   \* what it came to

vars == <<from, source, made, call, text, found>>

-----------------------------------------------------------------------------
\* The table of rules goes with the values of the declarations.
Folded(f, vs) ==
  CASE f = "cc_fold_concat" -> cc_fold_concat(vs)
    [] f = "cc_fold_first"  -> cc_fold_first(vs)
    [] f = "cc_fold_middle" -> cc_fold_middle(vs)
    [] f = "cc_fold_last"   -> cc_fold_last(vs)
    [] f = "cc_fold_null"   -> LET decls == SelectSeq(vs, IsDecl)
                               IN  IF decls = <<>> THEN cc_fold_null(vs) ELSE Declared(decls)
    [] f \in RegexFolds     -> RegexFold(f, vs)
    [] OTHER                -> BnfFold(f, vs)

Applied(f, v) ==
  CASE f = "cc_apply_free"  -> cc_apply_free(v)
    [] f = "bnf_identifier" -> bnf_identifier(v)
    [] OTHER                -> RegexApply(f, v)

\* lazy_eval: the children first, then the callback, unless one of them failed.
RECURSIVE ValueOf(_)
ValueOf(tree) ==
  CASE tree[1] = "null"  -> Nul
    [] tree[1] = "char"  -> Str(<<tree[2]>>)
    [] tree[1] \in {"string", "lift"} -> Str(tree[2])
    [] tree[1] = "value" -> tree[2]
    [] tree[1] = "apply" -> LET v == ValueOf(tree[3]) IN IF v = Error THEN Error ELSE Applied(tree[2], v)
    [] tree[1] = "fold"  -> LET vs == [i \in DOMAIN tree[3] |-> ValueOf(tree[3][i])]
                            IN  IF Error \in Range(vs) THEN Error ELSE Folded(tree[2], vs)

NoMatch == [matched |-> FALSE, value |-> Nul, missed |-> FALSE]
Evaluated(parsers, p, input) ==
  LET r == Answer(parsers, p, input)
  IN  [matched |-> r.matched, missed |-> r.missed,
       value |-> IF r.matched THEN ValueOf(r.out) ELSE Nul]

-----------------------------------------------------------------------------
NotYet == [op |-> "none"]
Init ==
  /\ from = "none" /\ source = NotYet /\ made = NoMatch
  /\ call = "none" /\ text = <<>> /\ found = NoMatch

Made(by, src, result) ==
  /\ from = "none" /\ from' = by /\ source' = src /\ made' = result
  /\ UNCHANGED <<call, text, found>>

\* Returns the parser that was built, NULL with a report, or NULL alone.
cc_regex == \E p \in Pats : Made("cc_regex", p, Evaluated(RegexGrammar, "re_parser", Spelling(p)))

\* Returns the grammar, or NULL with a report, which may be a callback's.
cc_bnf == \E g \in Grammars : Made("cc_bnf", g, Evaluated(BnfGrammar, "wrapped_bnf", WordingOf(g)))

IsParser(v) == v.is = "parser" /\ Sound(v.of)
IsRules(v)  == v.is = "rules" /\ \A i \in DOMAIN v.of : Sound(v.of[i].p)
Returned == from # "none" /\ made.matched /\ (IsParser(made.value) \/ IsRules(made.value))

\* Runs what was built, once: a parser keeps nothing of a run.
Runs(by, front, parsers, root, t) ==
  /\ from = front /\ Returned /\ call = "none"
  /\ call' = by /\ text' = t /\ found' = Evaluated(parsers, root, t)
  /\ UNCHANGED <<from, source, made>>

RunsPattern(by, p) == \E t \in Texts : Runs(by, "cc_regex", Flat(p, <<>>), <<>>, t)

Parse == RunsPattern("cc_parse", made.value.of)

\* cc_matches makes no values, and no report when it is given no place for one.
Match        == RunsPattern("cc_matches", cc_noreturn(made.value.of))
MatchQuietly == RunsPattern("cc_matches", cc_noerror(cc_noreturn(made.value.of)))

\* A parse with the first rule.
ParseRule ==
  \E t \in Sentences :
    Runs("cc_parse", "cc_bnf", cc_rule(made.value.of, source.rules[1].name), <<-Len(made.value.of)>>, t)

Next == cc_regex \/ cc_bnf \/ Parse \/ Match \/ MatchQuietly \/ ParseRule

Spec == Init /\ [][Next]_vars

-----------------------------------------------------------------------------
TypeOK ==
  /\ from \in {"none", "cc_regex", "cc_bnf"} /\ call \in {"none", "cc_parse", "cc_matches"}
  /\ source \in Pats \cup Grammars \cup {NotYet} /\ text \in Texts \cup Sentences \cup {<<>>}
  /\ made.value.is \in {"null", "parser", "rules", "error"} /\ found.value.is \in {"null", "text"}

\* A pattern that is written as the README describes is accepted, and every
\* object of what is returned is a parser: no NULL and no string is left where
\* a parser belongs (cc_regex.c:37-365, README.md:465-474).
PatternsAreAccepted == from = "cc_regex" => Returned

\* A grammar that is written as the README describes is accepted exactly if no
\* rule is defined twice and every action is in the table and of the type its
\* place asks for: what callbacks report during the evaluation is not lost and
\* nothing else fails (cc_bnf.c:44-324, README.md:499-511).
GrammarsAreAccepted == from = "cc_bnf" => (Returned <=> WellFormed(source))

\* A run in which no alternative was given up at the end of the input, which
\* the parsers that follow still see.
Judged(front) == from = front /\ call # "none" /\ ~found.missed
Expectation == Takes(source, text, 0)

\* What was built from a pattern matches an input exactly if the pattern does,
\* from the start: its order, its repetitions and its alternatives survive the
\* grammar, the callbacks and the two evaluations (cc_regex.c:159-365).
VerdictIsThePatterns == Judged("cc_regex") => (found.matched <=> Expectation # None)

\* The same of patterns with no sequence of two items.
VerdictIsThePatternsUnpaired ==
  (Judged("cc_regex") /\ ~HasPair(source)) => (found.matched <=> Expectation # None)

Returns(s) == s = IF found.value = Nul THEN <<>> ELSE found.value.of

\* cc_parse returns the text that was matched, NULL when it is empty or "", and
\* cc_matches returns none: the folds lose nothing and repeat nothing
\* (cc_common.c:351-413, cc_regex.c:189-239).
TextIsTheMatch ==
  (Judged("cc_regex") /\ ~HasPair(source) /\ found.matched) =>
    IF call = "cc_parse" THEN Returns(SubSeq(text, 1, Expectation)) ELSE found.value = Nul

\* A parse with a rule of a grammar accepts an input exactly if the rule
\* derives all of it, and returns the text that its actions make of it: names
\* are resolved wherever they are used, a fold takes the values of its own
\* items, and what an exception excludes stays out (cc_bnf.c:113-324,
\* cc_common.c:734-762, README.md:499-511).
RuleMeansItsText ==
  Judged("cc_bnf") =>
    LET m == Sentence(source, source.rules[1].name, text)
    IN  IF found.matched THEN m # Refuses /\ Returns(m.text) ELSE m = Refuses
=============================================================================
