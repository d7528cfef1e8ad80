---------------------------- MODULE MCEvalProofs ----------------------------
(***************************************************************************)
(* The grammars of MCEval under the assumptions of the proofs: TLC         *)
(* evaluates GrammarWellFormed, CodeVerified, CodeBalanced, TidyRestores   *)
(* and ExactCounts on every generator, and checks the invariants that the  *)
(* proofs show to be inductive.                                            *)
(***************************************************************************)
EXTENDS MCEval, ResultProofs

\* All but the parsers that leave a counter where the saved flag should be, and
\* those that lead to one.
TidyParsers ==
  Ids \ {"mute", "until0", "chain0", "leaky", "count0", "aaa", "lost", "losing"}

\* cc_many_until with a fold counts a failed attempt of its end parser.
ExactParsers == TidyParsers \ {"until", "over"}

\* Grammars that go wrong, and tidy ones with each way to save a flag, to bind a name
\* and to count results.
StackRoots == DefectRoots \cup {"loud", "lead", "pair", "except", "hides", "posts",
                                "counts", "some3", "apply"}
=============================================================================
