-------------------------------- MODULE Bnf ---------------------------------
(***************************************************************************)
(* cc_bnf: the callbacks that build the parsers of a grammar's rules, the  *)
(* grammar of grammars that calls them, and cc_rule, which binds the rules *)
(* for a parse.  Rules and actions are found as BindingStack says of the   *)
(* table they are kept in.                                                 *)
(***************************************************************************)
EXTENDS Callbacks, Ebnf

\* The error of a callback, which ends the evaluation.
Error      == [is |-> "error"]
Table      == [is |-> "table"]
Grammar    == [is |-> "grammar"]
Decl(n, p) == [is |-> "rule", name |-> n, p |-> p]

IsIdent == Alphanum \cup {45, 95}

bnf_escaped_char(vs) ==
  LET c == vs[2].of[1]
  IN  Str(<<CASE c = 118 -> 11 [] c = 116 -> 9 [] c = 110 -> 10 [] c = 114 -> 13 [] OTHER -> c>>)

bnf_terminal(vs) ==
  LET term == vs[2].of
  IN  Object(IF Len(term) = 1 THEN Labelled("CHAR", term[1]) ELSE Labelled("STRING", term))

bnf_identifier(v) == Object(cc_lookup(v.of))

bnf_optional(vs) == Unary(vs[2], cc_maybe)

\* An action that is not in the table, or of another type than is asked for.
WithAction(name, types, build(_)) ==
  IF name.of \in DOMAIN Actions /\ Actions[name.of].type \in types
  THEN build(Actions[name.of].of) ELSE Error

bnf_repetition(vs) ==
  LET name == vs[2]
      many(f) == Unary(vs[4], LAMBDA p : cc_many(f, p))
  IN  IF Nul \in {vs[4], name} THEN many(NoFold) ELSE WithAction(name, {"fold"}, many)

bnf_application(vs) ==
  LET name == vs[2]
  IN  IF Nul \in {vs[4], name} THEN vs[4]
      ELSE WithAction(name, {"apply"}, LAMBDA f : Unary(vs[4], LAMBDA p : cc_apply(p, f)))

bnf_lift(vs) ==
  LET name == vs[2]
      lift(f) == Object(CASE Actions[name.of].type = "lift"  -> cc_lift(f)
                          [] Actions[name.of].type = "value" -> cc_lift_val(Str(f))
                          [] Actions[name.of].type = "match" -> Labelled("MATCH", f))
  IN  WithAction(name, {"lift", "value", "match"}, lift)

\* Mutant: the order of the two is that of the text.
bnf_exception_swapped(vs) ==
  IF Nul \in Range(vs) THEN vs[1]
  ELSE Binary(Unary(vs[1], cc_not), vs[2], LAMBDA a, b : cc_seq("cc_fold_last", a, b))

bnf_exception(vs) ==
  IF Nul \in Range(vs) THEN vs[1]
  ELSE Binary(Unary(vs[2], cc_not), vs[1], LAMBDA a, b : cc_seq("cc_fold_last", a, b))

\* Every other value is that of a separator.
Operands(vs) == [i \in 1 .. (Len(vs) + 1) \div 2 |-> vs[2 * i - 1]]

bnf_concatenation(vs) ==
  CASE Len(vs) = 1 -> vs[1]
    [] Len(vs) = 3 -> Binary(vs[1], vs[3], LAMBDA a, b : cc_seq(NoFold, a, b))
    [] OTHER       -> Object(cc_and(NoFold, StoredAll(Operands(vs))))

\* The fold is that of the parser below, whether that has one or not, if it is a
\* cc_and or cc_seq.
bnf_fold_concatenation(vs) ==
  LET name == vs[2]
      inner == vs[3].of
      folded(f) == Object(IF inner.type \in {"AND", "SEQ"} THEN [inner EXCEPT !.fold = f]
                          ELSE cc_and(f, <<inner>>))
  IN  IF name = Nul THEN vs[3] ELSE WithAction(name, {"fold"}, folded)

bnf_alternation(vs) ==
  CASE Len(vs) = 1 -> vs[1]
    [] Len(vs) = 3 -> Binary(vs[1], vs[3], cc_either)
    [] OTHER       -> Object(cc_or(StoredAll(Operands(vs))))

\* The rule goes into the table, unless one of its name is there; the rules so
\* far are the declarations before this one.
bnf_decl(vs) == IF Nul \in {vs[2], vs[4]} THEN Nul ELSE Decl(vs[2].of, vs[4].of)

\* Mutant: a rule that is there is replaced.
Declared_again(decls) == [is |-> "rules", of |-> decls]

Declared(decls) ==
  IF IsInjective([i \in DOMAIN decls |-> decls[i].name])
  THEN [is |-> "rules", of |-> decls] ELSE Error

IsDecl(v) == v.is = "rule"

BnfFold(f, vs) ==
  CASE f = "bnf_decl"          -> bnf_decl(vs)
    [] f = "bnf_escaped_char"  -> bnf_escaped_char(vs)
    [] f = "bnf_terminal"      -> bnf_terminal(vs)
    [] f = "bnf_optional"      -> bnf_optional(vs)
    [] f = "bnf_repetition"    -> bnf_repetition(vs)
    [] f = "bnf_application"   -> bnf_application(vs)
    [] f = "bnf_lift"          -> bnf_lift(vs)
    [] f = "bnf_exception"     -> bnf_exception(vs)
    [] f = "bnf_concatenation" -> bnf_concatenation(vs)
    [] f = "bnf_alternation"   -> bnf_alternation(vs)
    [] f = "bnf_fold_concatenation" -> bnf_fold_concatenation(vs)

-----------------------------------------------------------------------------
(* The grammar of grammars: bnf_pattern and bnf_parser. *)

Token(id, p) == id :> cc_seq("cc_fold_first", p, "ws")
Mark(id, ch) == Silent(id, ch) @@ Token(id \o " ", id)
EscapeChars == <<114, 116, 110, 118, 34, 39, 92>>

Spaces ==
     "ws" :> cc_many(NoFold, "blank") @@ "blank" :> cc_either("space", "comment")
  @@ cc_match("space", White) @@ cc_any("any")
  @@ SilentText("(*", <<40, 42>>) @@ SilentText("*)", <<42, 41>>)
  @@ "comment" :> cc_and("cc_fold_null", <<"(*", "inside">>)
  @@ "inside" :> cc_many_until("cc_fold_null", "any", "*)")

Idents ==
     cc_match("alphanum", Alphanum) @@ cc_char("_", 95) @@ cc_match("is_ident", IsIdent)
  @@ "initial" :> cc_either("alphanum", "_")
  @@ "more" :> cc_many("cc_fold_concat", "is_ident")
  @@ "word" :> cc_seq("cc_fold_concat", "initial", "more")
  @@ Token("ident", "word")

\* A literal between quotes of one kind.
Terminals(id, quote) ==
     cc_noneof(id \o ".plain", <<92, quote, 13, 9, 10, 11>>)
  @@ Silent(id \o ".escape", 92) @@ cc_anyof(id \o ".letter", EscapeChars)
  @@ (id \o ".escaped") :> cc_seq("bnf_escaped_char", id \o ".escape", id \o ".letter")
  @@ (id \o ".ch") :> cc_either(id \o ".plain", id \o ".escaped")
  @@ (id \o ".text") :> cc_least(1, "cc_fold_concat", id \o ".ch")
  @@ Silent(id \o ".start", quote) @@ Silent(id \o ".end", quote)
  @@ (id \o ".quoted") :> cc_and("bnf_terminal", <<id \o ".start", id \o ".text", id \o ".end">>)
  @@ Token(id, id \o ".quoted")

Terms ==
     Terminals("a", 34) @@ Terminals("b", 39) @@ "terminal" :> cc_either("a", "b")
  @@ Silent("@", 64) @@ "named" :> cc_seq("cc_fold_last", "@", "ident")
  @@ Token("action", "named") @@ "by" :> cc_maybe("action")
  @@ "actions" :> cc_lookup("action-table")
  @@ Mark("(", 40) @@ Mark(")", 41) @@ Mark("[", 91) @@ Mark("]", 93) @@ Mark("{", 123) @@ Mark("}", 125)
  @@ "group" :> cc_and("bnf_application", <<"actions", "by", "( ", "alt", ") ">>)
  @@ "opt"   :> cc_and("bnf_optional", <<"[ ", "alt", "] ">>)
  @@ "rept"  :> cc_and("bnf_repetition", <<"actions", "by", "{ ", "alt", "} ">>)
  @@ "lift"  :> cc_seq("bnf_lift", "actions", "action")
  @@ Means("identifier", "ident", "bnf_identifier")
  @@ "term"  :> cc_or(<<"terminal", "identifier", "group", "opt", "rept", "lift">>)

\* alt is what cc_fix returns: the placeholder that the terms refer to.
Rules ==
     Mark("-", 45) @@ "excepted" :> cc_seq("cc_fold_last", "- ", "term") @@ "minus" :> cc_maybe("excepted")
  @@ "factor" :> cc_seq("bnf_exception", "term", "minus")
  @@ Mark(",", 44) @@ "concat" :> cc_chain("bnf_concatenation", "factor", ", ")
  @@ cc_char(":", 58) @@ Token(": ", ":")
  @@ "fold" :> cc_seq("cc_fold_first", "action", ": ") @@ "folded" :> cc_maybe("fold")
  @@ "fold_concat" :> cc_and("bnf_fold_concatenation", <<"actions", "folded", "concat">>)
  @@ Mark("|", 124) @@ "alt" :> cc_chain("bnf_alternation", "fold_concat", "| ")
  @@ Mark("=", 61) @@ "is" :> cc_noreturn("= ") @@ Mark(";", 59) @@ "stop" :> cc_noreturn("; ")
  @@ "grammar" :> cc_lookup("grammar")
  @@ "decl" :> cc_and("bnf_decl", <<"grammar", "ident", "is", "alt", "stop">>)
  @@ cc_eof("eof") @@ "decls" :> cc_many_until("cc_fold_null", "decl", "eof")
  @@ "bnf" :> cc_seq("cc_fold_last", "ws", "decls")

\* What cc_bnf_from wraps around it.
Wrapped ==
     "table" :> cc_lift_val(Table) @@ "with-actions" :> cc_bind("action-table", "table", "bnf")
  @@ "rules" :> cc_lift_val(Grammar) @@ "wrapped_bnf" :> cc_bind("grammar", "rules", "with-actions")

BnfGrammar == Spaces @@ Idents @@ Terms @@ Rules @@ Wrapped

-----------------------------------------------------------------------------
\* cc_rule: the rule to the end of the input, with every rule bound.  Rule i and
\* its parts are at <<i, ...>>, the bindings at <<-1>>, <<-2>>, ...
cc_rule(rules, name) ==
  LET found == CHOOSE i \in DOMAIN rules : rules[i].name = name
  IN  Joined([i \in DOMAIN rules |->
               Flat(rules[i].p, <<i>>) @@ <<-i>> :> cc_bind(rules[i].name, <<i>>, <<1 - i>>)],
             <<0>> :> cc_seq("cc_fold_first", <<found>>, <<0, 2>>)
               @@ <<0, 2>> :> cc_expect(<<0, 2, 1>>, "eof") @@ <<0, 2, 1>> :> Terminal("EOF", NoFold))
=============================================================================
