------------------------------ MODULE Parsers ------------------------------
(***************************************************************************)
(* The parser objects of cc_parser.c and cc_combinator.c.                  *)
(*                                                                         *)
(* A grammar is a graph of heap objects that point at one another; here it *)
(* is a function from parser identifiers (strings, standing for addresses) *)
(* to records.  The constructors keep the names of the C functions.  What  *)
(* a C constructor does when malloc fails, and the text of the labels it   *)
(* formats, are left out.  Characters are small numbers: one unit of the   *)
(* input per code point.                                                   *)
(***************************************************************************)
EXTENDS Naturals, Sequences, TLC

\* A NULL folding function: the combinator drops the results of its parsers.
NoFold == "NULL"

\* The names of enum parser_type, with the prefix PARSER_ dropped.
TerminalTypes ==
  {"EOF", "SOF", "ANY", "STRING", "CHAR", "CHAR_RANGE", "MATCH", "PASS", "FAIL",
   "LIFT", "LIFT_VAL", "ANYOF", "NONEOF", "ONEOF", "LOCATION"}

CombinatorTypes ==
  {"EXPECT", "APPLY", "NOT", "SEQ", "EITHER", "AND", "OR", "MANY", "MANY_UNTIL",
   "COUNT", "LEAST", "MAYBE", "CHAIN", "POSTFIX", "NORETURN", "NOERROR", "BIND"}

is_combinator(type) == type \in CombinatorTypes

(***************************************************************************)
(* struct cc_parser: fold is the folding function, inner the parsers of    *)
(* the unary, binary or variadic match union, n the repeat count of        *)
(* cc_count and cc_least, arg what else the type needs.                    *)
(***************************************************************************)
Parser(type, fold, inner, n, arg) ==
  [type |-> type, fold |-> fold, inner |-> inner, n |-> n, arg |-> arg]

Terminal(type, arg) == Parser(type, NoFold, <<>>, 0, arg)

cc_pass          == Terminal("PASS", NoFold)
cc_fail(msg)     == Terminal("FAIL", msg)
cc_location      == Terminal("LOCATION", NoFold)
cc_lift(f)       == Terminal("LIFT", f)
cc_lift_val(v)   == Terminal("LIFT_VAL", v)
cc_lookup(name)  == Parser("LOOKUP", NoFold, <<>>, 0, name)

cc_expect(p, what)      == Parser("EXPECT", NoFold, <<p>>, 0, what)
cc_apply(p, f)          == Parser("APPLY", NoFold, <<p>>, 0, f)
cc_not(p)               == Parser("NOT", NoFold, <<p>>, 0, NoFold)
cc_seq(f, a, b)         == Parser("SEQ", f, <<a, b>>, 0, NoFold)
cc_either(a, b)         == Parser("EITHER", NoFold, <<a, b>>, 0, NoFold)
cc_and(f, ps)           == Parser("AND", f, ps, 0, NoFold)
cc_or(ps)               == Parser("OR", NoFold, ps, 0, NoFold)
cc_many(f, p)           == Parser("MANY", f, <<p>>, 0, NoFold)
cc_many_until(f, p, end) == Parser("MANY_UNTIL", f, <<p, end>>, 0, NoFold)
cc_count(n, f, p)       == Parser("COUNT", f, <<p>>, n, NoFold)
cc_least(n, f, p)       == Parser("LEAST", f, <<p>>, n, NoFold)
cc_maybe(p)             == Parser("MAYBE", NoFold, <<p>>, 0, NoFold)
cc_chain(f, p, op)      == Parser("CHAIN", f, <<p, op>>, 0, NoFold)
cc_postfix(f, p, op)    == Parser("POSTFIX", f, <<p, op>>, 0, NoFold)
cc_noreturn(p)          == Parser("NORETURN", NoFold, <<p>>, 0, NoFold)
cc_noerror(p)           == Parser("NOERROR", NoFold, <<p>>, 0, NoFold)

\* cc_bind(name, a, p): name denotes a while p runs.
cc_bind(name, a, p) == Parser("BIND", NoFold, <<p>>, 0, [name |-> name, p |-> a])

(***************************************************************************)
(* The character parsers are two objects: a terminal wrapped in an EXPECT  *)
(* that carries its label.  Each of these denotes the pair.                *)
(***************************************************************************)
Expected(id, terminal, what) ==
  id :> cc_expect(id \o ".p", what) @@ (id \o ".p") :> terminal

cc_char(id, ch)        == Expected(id, Terminal("CHAR", ch), id)
cc_range(id, lo, hi)   == Expected(id, Terminal("CHAR_RANGE", <<lo, hi>>), id)
cc_string(id, str)     == Expected(id, Terminal("STRING", str), id)
cc_anyof(id, chars)    == Expected(id, Terminal("ANYOF", chars), id)
cc_oneof(id, chars)    == Expected(id, Terminal("ONEOF", chars), id)
cc_noneof(id, chars)   == Expected(id, Terminal("NONEOF", chars), id)
cc_match(id, matching) == Expected(id, Terminal("MATCH", matching), id)
cc_eof(id)             == Expected(id, Terminal("EOF", NoFold), id)
cc_sof(id)             == Expected(id, Terminal("SOF", NoFold), id)
cc_any(id)             == Expected(id, Terminal("ANY", NoFold), id)

(***************************************************************************)
(* The derived combinators.  cc_token shares one whitespace parser between *)
(* both sides; cc_matches is the wrapping cc_matches(in, p, NULL) builds   *)
(* around its argument before it parses.                                   *)
(***************************************************************************)
cc_between(id, s, a, e) ==
  id :> cc_and("cc_fold_middle", <<id \o ".s", a, id \o ".e">>)
    @@ (id \o ".s") :> cc_noreturn(s) @@ (id \o ".e") :> cc_noreturn(e)

cc_token(id, whitespace, a) ==
  id :> cc_and("cc_fold_middle", <<id \o ".ws", a, id \o ".ws">>)
    @@ (id \o ".ws") :> cc_many(NoFold, id \o ".nr")
    @@ (id \o ".nr") :> cc_noreturn(whitespace)

cc_matches(id, p) ==
  id :> cc_noerror(id \o ".nr") @@ (id \o ".nr") :> cc_noreturn(p)
=============================================================================
