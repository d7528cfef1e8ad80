--------------------------- MODULE ParseContract ----------------------------
(***************************************************************************)
(* The abstract specification of cc_parse (include/ccombinator.h): given a *)
(* parser and a source, it answers once, with the verdict and the result   *)
(* it promises for them.  How it gets there is not its caller's business.  *)
(***************************************************************************)

CONSTANTS
  Roots, Inputs,
  Promises,    \* records [root, src, due]: the answer due for a parser and an input
  Undelivered  \* what is there in place of a result before the answer

VARIABLES root, src, verdict, out

contract == <<root, src, verdict, out>>

Call == /\ root \in Roots /\ src \in Inputs
        /\ verdict = "pending" /\ out = Undelivered

Answer ==
  \E promise \in Promises :
    /\ promise.root = root /\ promise.src = src
    /\ verdict = "pending"
    /\ verdict' = IF promise.due.matched THEN "matched" ELSE "failed"
    /\ out' = promise.due.out
    /\ UNCHANGED <<root, src>>

Spec == Call /\ [][Answer]_contract /\ WF_contract(Answer)
=============================================================================
