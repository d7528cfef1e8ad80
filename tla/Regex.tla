------------------------------- MODULE Regex --------------------------------
(***************************************************************************)
(* cc_regex: the callbacks that build a parser for a pattern, and the      *)
(* grammar of patterns that calls them.                                    *)
(***************************************************************************)
EXTENDS Callbacks, Patterns

CONSTANT PosixClasses  \* re_posix_classes: the name of each, and the characters it matches

ClassChars == <<97, 100, 68, 108, 115, 83, 117, 119, 87, 120>>
MatchOf(letter) ==
  CASE letter = 97  -> Lower \cup Upper
    [] letter = 100 -> Digit
    [] letter = 68  -> Universe \ Digit
    [] letter = 108 -> Lower
    [] letter = 117 -> Upper
    [] letter = 119 -> WordChars
    [] letter = 87  -> Universe \ WordChars
    [] letter = 115 -> White
    [] letter = 83  -> Universe \ White
    [] letter = 120 -> HexDigit

-----------------------------------------------------------------------------
(* The callbacks. *)

FirstChar(v) == Head(v.of)

\* Mutant: hands the string on.
re_char_raw(v) == v

re_char(v)        == IF v = Nul THEN Nul ELSE Object(Labelled("CHAR", FirstChar(v)))
re_class(v)       == IF v = Nul THEN Nul ELSE Object(Labelled("MATCH", MatchOf(FirstChar(v))))
\* The index of the first class is NULL.
re_posix_class(v) == IF v = Nul THEN Nul ELSE Object(Labelled("MATCH", PosixClasses[v.of + 1].match))

re_sel_range(vs) == Object(Labelled("CHAR_RANGE", <<FirstChar(vs[1]), FirstChar(vs[3])>>))

re_sel(vs) ==
  CASE Len(vs) = 1 -> vs[1]
    [] Len(vs) = 2 -> Binary(vs[1], vs[2], cc_either)
    [] OTHER       -> Object(cc_or(StoredAll(vs)))

re_negated_sel(vs) ==
  LET any == Labelled("ANY", NoFold)
  IN  Unary(Unary(re_sel(vs), cc_not), LAMBDA no : cc_seq("cc_fold_last", no, any))

re_seq(vs) ==
  CASE vs = <<>>   -> Object(cc_pass)
    [] Len(vs) = 1 -> vs[1]
    [] Len(vs) = 2 -> Binary(vs[1], vs[2], cc_either)
    [] OTHER       -> Object(cc_and("cc_fold_concat", StoredAll(vs)))

Quantified(v, qop) ==
  CASE qop = Written.many   -> Unary(v, LAMBDA p : cc_many("cc_fold_concat", p))
    [] qop = Written.least1 -> Unary(v, LAMBDA p : cc_least(1, "cc_fold_concat", p))
    [] qop = Written.opt    -> Unary(v, cc_maybe)

re_quantify(vs) == FoldLeft(LAMBDA v, q : Quantified(v, q.of), vs[1], Tail(vs))

\* Mutant: forgets the last alternative.
re_alt_short(vs) ==
  IF Len(vs) = 1 THEN vs[1]
  ELSE Object(cc_or(StoredAll([i \in 1 .. Len(vs) \div 2 |-> vs[2 * i - 1]])))

\* Every other value is that of a separator.
re_alt(vs) ==
  IF Len(vs) = 1 THEN vs[1]
  ELSE Object(cc_or(StoredAll([i \in 1 .. (Len(vs) + 1) \div 2 |-> vs[2 * i - 1]])))

RegexFolds == {"re_sel_range", "re_sel", "re_negated_sel", "re_seq", "re_quantify", "re_alt"}
RegexFold(f, vs) ==
  CASE f = "re_sel_range"   -> re_sel_range(vs)
    [] f = "re_sel"         -> re_sel(vs)
    [] f = "re_negated_sel" -> re_negated_sel(vs)
    [] f = "re_seq"         -> re_seq(vs)
    [] f = "re_quantify"    -> re_quantify(vs)
    [] f = "re_alt"         -> re_alt(vs)

RegexApply(f, v) ==
  CASE f = "re_char"        -> re_char(v)
    [] f = "re_class"       -> re_class(v)
    [] f = "re_posix_class" -> re_posix_class(v)
    [] f = "re_sel_end_char" -> Object(Labelled("CHAR", Written.end))
    [] f = "re_eof"         -> Object(Labelled("EOF", NoFold))
    [] f = "re_sof"         -> Object(Labelled("SOF", NoFold))
    [] f = "re_any"         -> Object(Labelled("ANY", NoFold))
    [] f = "re_apply_qop_many"   -> Number(Written.many)
    [] f = "re_apply_qop_least1" -> Number(Written.least1)
    [] f = "re_apply_qop_opt"    -> Number(Written.opt)

-----------------------------------------------------------------------------
(* The grammar of patterns: re_expr_fix and re_parser.                     *)

Special == <<92, 40, 41, 91, 93, 123, 125, 124, 63, 42, 43, 46, 94, 36>>
SelAllowed == <<91, 40, 41, 123, 125, 124, 63, 42, 46, 94, 36>>

PosixId(i) == "posix" \o ToString(i)
PosixClass(i) ==
  LET id == PosixId(i) IN
     Means(id, id \o ".seq", "re_posix_class")
  @@ (id \o ".seq") :> cc_seq("cc_fold_last", id \o ".name", id \o ".index")
  @@ SilentText(id \o ".name", PosixClasses[i].name)
  @@ (id \o ".index") :> cc_lift_val(Number(i - 1))

Symbols ==
     Silent("\\", Escape)
  @@ cc_anyof("special", Special) @@ cc_anyof("letter", ClassChars)
  @@ cc_noneof("plain", Special)
  @@ "escape.seq" :> cc_seq("cc_fold_last", "\\", "special")
  @@ Means("escaped", "escape.seq", "re_char")
  @@ "class.seq" :> cc_seq("cc_fold_last", "\\", "letter")
  @@ Means("class", "class.seq", "re_class")
  @@ Silent("[", 91) @@ Silent("]", 93) @@ Silent(":", 58)
  @@ Joined([i \in DOMAIN PosixClasses |-> PosixClass(i)],
            "posix" :> cc_or([i \in DOMAIN PosixClasses |-> PosixId(i)]))
  @@ "posix_class" :> cc_and("cc_fold_middle", <<"[", ":", "posix", ":", "]">>)
  @@ Means("char", "plain", "re_char")
  @@ Silent("$", 36) @@ Means("re_eof", "$", "re_eof")
  @@ Silent("^", 94) @@ Means("re_sof", "^", "re_sof")
  @@ Silent(".", 46) @@ Means("re_any", ".", "re_any")
  @@ "sym" :> cc_or(<<"char", "escaped", "class", "posix_class", "re_eof", "re_sof", "re_any">>)

\* Mutant: the first option is no different.
Selections_closing ==
     Silent("-", 45)
  @@ "sel_range" :> cc_and("re_sel_range", <<"plain", "-", "plain">>)
  @@ cc_anyof("allowed", SelAllowed)
  @@ "opt" :> cc_or(<<"sel_range", "sym", "allowed">>)
  @@ "negated" :> cc_postfix("re_negated_sel", "opt", "opt")
  @@ "negation" :> cc_seq("cc_fold_last", "^", "negated")
  @@ "selected" :> cc_postfix("re_sel", "opt", "opt")
  @@ "selection" :> cc_either("negation", "selected")
  @@ "sel" :> cc_and("cc_fold_middle", <<"[", "selection", "]">>)

Selections ==
     Silent("-", 45)
  @@ "sel_range" :> cc_and("re_sel_range", <<"plain", "-", "plain">>)
  @@ cc_anyof("allowed", SelAllowed)
  @@ "opt" :> cc_or(<<"sel_range", "sym", "allowed">>)
  @@ Means("sel_end", "]", "re_sel_end_char")
  @@ "first_opt" :> cc_either("opt", "sel_end")
  @@ "negated" :> cc_postfix("re_negated_sel", "first_opt", "opt")
  @@ "negation" :> cc_seq("cc_fold_last", "^", "negated")
  @@ "selected" :> cc_postfix("re_sel", "first_opt", "opt")
  @@ "selection" :> cc_either("negation", "selected")
  @@ "sel" :> cc_and("cc_fold_middle", <<"[", "selection", "]">>)

\* alt is what cc_fix returns: the placeholder that group refers to.
Expressions ==
     Silent("(", 40) @@ Silent(")", 41)
  @@ "group" :> cc_and("cc_fold_middle", <<"(", "alt", ")">>)
  @@ "exp" :> cc_or(<<"sym", "group", "sel">>)
  @@ Silent("*", 42) @@ Means("many", "*", "re_apply_qop_many")
  @@ Silent("+", 43) @@ Means("least1", "+", "re_apply_qop_least1")
  @@ Silent("?", 63) @@ Means("maybe", "?", "re_apply_qop_opt")
  @@ "qops" :> cc_or(<<"many", "least1", "maybe">>)
  @@ "quantified" :> cc_postfix("re_quantify", "exp", "qops")
  @@ "seq" :> cc_many("re_seq", "quantified")
  @@ Silent("|", 124)
  @@ "alt" :> cc_chain("re_alt", "seq", "|")
  @@ cc_eof("end")
  @@ "re_parser" :> cc_and("cc_fold_first", <<"alt", "end">>)

RegexGrammar == Symbols @@ Selections @@ Expressions
=============================================================================
