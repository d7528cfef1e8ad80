---------------------------- MODULE BindingStack ----------------------------
(***************************************************************************)
(* What the users of the hash table of cc_common.c rely on.  The evaluator *)
(* keeps its bindings in one: a binding is pushed when a cc_bind starts,   *)
(* the newest is popped when it ends, and a lookup finds the newest        *)
(* binding of a name (cc_eval.c:82-92).  The BNF front end keeps the rules *)
(* of a grammar in another, each name set once (cc_bnf.c:55).              *)
(***************************************************************************)
EXTENDS Integers, Sequences

CONSTANTS Keys, Values, NoValue

VARIABLES
  bindings,  \* the live bindings [key, value], the newest first
  result     \* what the last operation returned

stack == <<bindings, result>>

Named(k) == {i \in DOMAIN bindings : bindings[i].key = k}
Newest(k) == IF Named(k) = {} THEN NoValue
             ELSE bindings[CHOOSE i \in Named(k) : \A j \in Named(k) : i <= j].value

Init == bindings = <<>> /\ result = NoValue

Push(k, v) == /\ bindings' = <<[key |-> k, value |-> v]>> \o bindings
              /\ result' = NoValue

Pop == /\ bindings # <<>>
       /\ result' = Head(bindings).value
       /\ bindings' = Tail(bindings)

Get(k) == result' = Newest(k) /\ UNCHANGED bindings

\* A second rule of the same name is refused.
Refuse(k) == Named(k) # {} /\ result' = NoValue /\ UNCHANGED bindings

Next == \/ \E k \in Keys, v \in Values : Push(k, v)
        \/ Pop
        \/ \E k \in Keys : Get(k) \/ Refuse(k)

Spec == Init /\ [][Next]_stack
=============================================================================
