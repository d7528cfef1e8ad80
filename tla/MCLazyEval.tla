----------------------------- MODULE MCLazyEval -----------------------------
(***************************************************************************)
(* LazyEval on every tree of a few nodes, and on what a resource error in  *)
(* the middle of a parse leaves.                                           *)
(***************************************************************************)
EXTENDS LazyFreed

CONSTANTS N, LeafTypes

NodeSet == 1 .. N

\* The members of a set of numbers as lazies, in ascending order.
Sorted(set) ==
  [i \in 1 .. Cardinality(set) |->
     Lazy(CHOOSE n \in set : Cardinality({m \in set : m < n}) = i - 1)]

\* A parent for each node, 0 for a root; children stand in the order of their
\* numbers, after a null pointer in the nodes of `padded`.
KidsOf(parent, padded) ==
  [n \in NodeSet |->
    (IF n \in padded THEN <<Null>> ELSE <<>>)
      \o Sorted({m \in NodeSet : parent[m] = n})]

Parents == {p \in [NodeSet -> 0 .. N - 1] : \A n \in NodeSet : p[n] < n}
OneRoot == {p \in Parents : \A n \in NodeSet \ {1} : p[n] > 0}

Paddings == {{}} \cup {{n} : n \in NodeSet}

TypesFor(kids) ==
  {t \in [NodeSet -> LeafTypes \cup {"FOLD", "APPLY"}] :
     \A n \in NodeSet :
       t[n] \in CASE Len(kids[n]) = 0 -> LeafTypes
                  [] Len(kids[n]) = 1 -> {"FOLD", "APPLY"}
                  [] OTHER -> {"FOLD"}}

RootsOf(kids) ==
  Sorted({n \in NodeSet : \A m \in NodeSet : \A i \in DOMAIN kids[m] : kids[m][i] # Lazy(n)})

Forested(verdict, parents) ==
  UNION {{[verdict |-> verdict, roots |-> RootsOf(kids), type |-> t, kids |-> kids] :
            t \in TypesFor(kids)}
         : kids \in {KidsOf(p, padded) : p \in parents, padded \in Paddings}}

\* With nothing built: no node is used.
Bare(verdict, roots) ==
  [verdict |-> verdict, roots |-> roots, type |-> [n \in NodeSet |-> "FOLD"],
   kids |-> [n \in NodeSet |-> <<>>]]

AllForests ==
  Forested("value", OneRoot) \cup Forested("resource", Parents \ OneRoot)
    \cup {Bare("value", <<Null>>), Bare("quiet", <<>>), Bare("nomatch", <<>>)}

Promise == INSTANCE TreeValue WITH
  trace   <- IF oom THEN <<>> ELSE handed,
  broken  <- ~oom /\ err = "callback",
  outcome <- CASE oom -> [kind |-> "exhausted"]
               [] pc # "done" -> [kind |-> "pending"]
               [] forest.verdict # "value" -> [kind |-> forest.verdict]
               [] err = "callback" -> [kind |-> "error"]
               [] OTHER -> [kind |-> "value", out |-> out]

\* Evaluated with its two stacks, its tree patched as it goes, a tree gives what
\* TreeValue says: each callback once, in order and with the values of its
\* children, up to the first error, and then an answer (cc_eval.c:469-594).
ImplementsTreeValue == Promise!Spec
=============================================================================
