---------------------------- MODULE MCFrontEnds -----------------------------
(***************************************************************************)
(* Patterns and inputs for cc_regex: every kind of symbol and selection    *)
(* alone, and sequences, alternatives, groups and repetitions of a few.    *)
(* Grammars for cc_bnf: every kind of expression, alone, under a fold, in  *)
(* pairs and across two rules, and what is refused.                        *)
(* The letters a and b, the digit 1 and ] are 97, 98, 49 and 93.           *)
(***************************************************************************)
EXTENDS FrontEnds

CONSTANT MaxText  \* the longest input

\* re_posix_classes, three of the twelve.
Classes ==
  <<[name |-> <<99, 110>>, match |-> 1 .. 31 \cup {127}],
    [name |-> <<100, 105>>, match |-> 48 .. 57],
    [name |-> <<97, 108>>, match |-> 65 .. 90 \cup 97 .. 122]>>

A == Char(97)
B == Char(98)
Digits  == Class(100, 48 .. 57)
NoDigit == Class(68, Universe \ 48 .. 57)
Alpha   == Posix(<<97, 108>>, 65 .. 90 \cup 97 .. 122)

Alone ==
  {A, Dot, Char(46), Char(93), Digits, NoDigit, Alpha, Class(119, 48 .. 57 \cup 65 .. 90 \cup {95} \cup 97 .. 122),
   Selection(<<A>>), Selection(<<A, B>>), Selection(<<Span(97, 98), Digits>>), Selection(<<Bare(93)>>),
   Selection(<<Bare(93), A, B>>), Selection(<<Alpha, Char(93)>>), Selection(<<A, Char(46), Span(48, 57)>>),
   Negated(<<A>>), Negated(<<A, B>>), Negated(<<Span(97, 98), Digits, Char(93)>>), Negated(<<Bare(93)>>)}

Repeated(p) == {Many(p), Least1(p), Opt(p)}

\* What sequences and alternatives are made of.
Items ==
  {A, Dot, StartOfInput, EndOfInput, Many(A), Least1(Selection(<<A, B>>)), Group(Alt(<<B, A>>))}

Words == {Sequence(<<a, b, c>>) : a, b, c \in Items}
Few   == {Sequence(<<>>), A, EndOfInput, Many(B), Sequence(<<A, B, Dot>>), Sequence(<<B, Opt(A), EndOfInput>>)}
Choice == {Alt(<<a, b>>) : a, b \in Few} \cup {Alt(<<a, b, c>>) : a, b, c \in {A, Many(B), Sequence(<<B, B, A>>)}}
Nested  == {Sequence(<<StartOfInput, Group(c), e>>) : c \in Choice, e \in {EndOfInput, B}}
Looped  == UNION {Repeated(Group(p)) : p \in {Sequence(<<A, Opt(B), Dot>>), Alt(<<A, Sequence(<<B, B, A>>)>>)}}

PatternSet ==
  {Sequence(<<>>)} \cup Alone \cup UNION {Repeated(p) : p \in Alone} \cup Words \cup Choice \cup Nested \cup Looped

Pairs == {Sequence(<<a, b>>) : a, b \in {A, B, Digits}}

\* Over a and b, and what else the symbols are about.
Strings == UNION {[1 .. n -> {97, 98}] : n \in 0 .. MaxText} \cup {<<46>>, <<49>>, <<93>>, <<93, 49>>}

-----------------------------------------------------------------------------
\* An action of each type, under a name of one letter.
C == <<99>>
N == <<110>>
F == <<102>>
M == <<109>>
V == <<118>>
L == <<108>>
ActionTable ==
  C :> [type |-> "fold", of |-> "cc_fold_concat"] @@ N :> [type |-> "fold", of |-> "cc_fold_null"]
  @@ F :> [type |-> "apply", of |-> "cc_apply_free"] @@ M :> [type |-> "match", of |-> {97}]
  @@ V :> [type |-> "value", of |-> <<49>>] @@ L :> [type |-> "lift", of |-> <<49>>]

Quote == 34
LitA  == Literal(<<97>>, Quote)
LitB  == Literal(<<98>>, 39)
LitAB == Literal(<<97, 98>>, Quote)
T == <<116, 45, 49>>  \* t-1
U == <<95>>           \* _

Terms1 ==
  {LitA, LitB, LitAB, Literal(<<9>>, 39), Literal(<<34, 92>>, Quote), Named(T), Named(U),
   Optional(LitA), Optional(Concatenation(C, <<LitA, LitB>>)),
   Repetition(C, LitA), Repetition(NoAction, LitB), Repetition(N, Alternation(<<LitAB, LitA>>)),
   Grouping(F, LitA), Grouping(NoAction, Alternation(<<LitAB, LitB>>)), Action(M), Action(V), Action(L)}

\* An item with an exception is a sequence below, whose fold would be replaced.
Excepting == {Exception(p, q) : p \in {Action(M), LitB, Grouping(NoAction, Alternation(<<LitA, LitB>>))}, q \in {LitA, LitB}}

Mixed   == {LitA, LitAB, Named(T), Optional(LitA), Repetition(C, LitB), Grouping(F, LitA), Action(L)}
             \cup {Exception(Action(M), LitB)}
Single  == Terms1 \cup Excepting \cup {Concatenation(f, <<p>>) : f \in {C, N}, p \in Terms1}
Several == {Concatenation(f, <<p, q>>) : f \in {C, NoAction}, p, q \in Mixed}
             \cup {Concatenation(C, <<p, q, LitB>>) : p, q \in {LitA, Named(T), Exception(Action(M), LitB)}}
Either  == {Alternation(<<p, q>>) : p, q \in Mixed} \cup {Alternation(<<LitB, p, LitAB>>) : p \in Mixed}

\* Rule s, then rule t-1: one is defined with the other.
S == <<115>>
Second == RuleOf(T, Alternation(<<LitB, Concatenation(C, <<LitA, LitA>>)>>))
Nesting == RuleOf(S, Alternation(<<Concatenation(C, <<LitA, Named(S), LitB>>), Named(T)>>))

Gaps == {<<>>, <<32>>, <<40, 42, 42, 41>>}
Written1(rules) == [rules |-> rules, gap |-> <<>>]

GrammarSet ==
  {Written1(<<RuleOf(S, p), Second>>) : p \in Single \cup Several \cup Either}
  \cup {[rules |-> <<Nesting, Second>>, gap |-> gap] : gap \in Gaps}
  \cup {Written1(<<RuleOf(S, p), RuleOf(S, LitB), Second>>) : p \in {LitA, LitB}}
  \cup {Written1(<<RuleOf(S, p)>>) : p \in
         {Action(C), Action(F), Action(S), Repetition(F, LitA), Repetition(S, LitA), Grouping(C, LitA),
          Grouping(S, LitA), Concatenation(M, <<LitA, LitB>>), Concatenation(S, <<LitA>>)}}

\* Over a and b, and what the escapes and lifts are about.
Inputs == UNION {[1 .. n -> {97, 98}] : n \in 0 .. MaxText} \cup {<<9>>, <<34, 92>>, <<49>>, <<97, 97, 97, 98, 98>>}
=============================================================================
