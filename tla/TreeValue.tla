----------------------------- MODULE TreeValue ------------------------------
(***************************************************************************)
(* What the evaluation of a tree of lazies promises, with no stack in it:  *)
(* the callbacks run once each, children before their parents and left to  *)
(* right, as the header's fold functions need it; each gets the values of  *)
(* its children; the first error ends it, and is the answer.               *)
(***************************************************************************)
EXTENDS Sequences, Integers

CONSTANTS Null, Callbacks, Value(_)

VARIABLES
  forest,  \* the tree, whichever the parse has built
  trace,   \* the nodes evaluated, with what their callbacks were given
  broken,  \* a callback failed
  outcome  \* what cc_parse's caller finds

valued == <<forest, trace, broken, outcome>>

\* The nodes of the tree under a pointer, in the order of their evaluation.
RECURSIVE Order(_), OrderOfAll(_)
Order(p) == IF p = Null THEN <<>> ELSE Append(OrderOfAll(forest.kids[p.node]), p.node)
OrderOfAll(ps) ==
  IF ps = <<>> THEN <<>> ELSE Order(Head(ps)) \o OrderOfAll(Tail(ps))

ValueOf(p) == IF p = Null THEN Null ELSE Value(p.node)

Due == Order(forest.roots[1])

Init == trace = <<>> /\ broken = FALSE /\ outcome = [kind |-> "pending"]

Pending == outcome.kind = "pending"

Evaluate ==
  /\ Pending /\ forest.verdict = "value" /\ ~broken
  /\ Len(trace) < Len(Due)
  /\ LET n == Due[Len(trace) + 1]
     IN /\ trace' = Append(trace,
             [node |-> n,
              args |-> [i \in DOMAIN forest.kids[n] |-> ValueOf(forest.kids[n][i])]])
        /\ broken' \in {FALSE, forest.type[n] \in Callbacks}
  /\ UNCHANGED <<forest, outcome>>

\* The value of the tree, the error of a callback, or the outcome of the parse.
Conclude ==
  /\ Pending
  /\ \/ /\ forest.verdict = "value" /\ ~broken /\ Len(trace) = Len(Due)
        /\ outcome' = [kind |-> "value", out |-> ValueOf(forest.roots[1])]
     \/ forest.verdict = "value" /\ broken /\ outcome' = [kind |-> "error"]
     \/ forest.verdict # "value" /\ outcome' = [kind |-> forest.verdict]
  /\ UNCHANGED <<forest, trace, broken>>

\* An allocation failed: nothing is promised of the value.
Exhaust ==
  /\ Pending
  /\ outcome' = [kind |-> "exhausted"] /\ trace' = <<>> /\ broken' = FALSE
  /\ UNCHANGED forest

Next == Evaluate \/ Conclude \/ Exhaust
Spec == Init /\ [][Next]_valued /\ WF_valued(Evaluate \/ Conclude)
=============================================================================
