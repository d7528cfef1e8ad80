------------------------------ MODULE LazyEval ------------------------------
(***************************************************************************)
(* The end of cc_parse.  The parse has left trees of lazies on the result  *)
(* stack; if it succeeded, lazy_eval computes the value of the one tree    *)
(* there is, with the data stack saying how far each fold and apply on the *)
(* way down has come.  A value replaces the child it was computed from in  *)
(* its parent's values, so that array holds pointers of two kinds.         *)
(*                                                                         *)
(* One step is one turn of lazy_eval's loop, one of lazy_free's, or the    *)
(* code between them.  lazy_free uses the result stack above `base`.       *)
(***************************************************************************)
EXTENDS Integers, Sequences, FiniteSets

CONSTANTS
  Nodes,      \* the lazies
  Null,       \* the null pointer
  Forests,    \* what the parse may leave: [verdict, roots, type, kids]
  ResultCap,  \* slots of the result stack when the parse ends (a multiple of 256)
  DataCap     \* slots of the data stack

Callbacks == {"LIFT", "FOLD", "APPLY"}
LazyTypes == {"VALUE", "INLINE", "CHAR", "TERMINAL"} \cup Callbacks

\* The outcomes of the parse: a match with a value, one that makes none, no
\* match, or a resource error in the middle.
Verdicts == {"value", "quiet", "nomatch", "resource"}

\* Two kinds of pointers: to a lazy, and to what was computed from one.
Lazy(n)  == [points |-> "lazy", node |-> n]
Value(n) == [points |-> "value", node |-> n]
Lazies   == {Lazy(n) : n \in Nodes}
Values   == {Value(n) : n \in Nodes}
Pointers == {Null} \cup Lazies \cup Values

Forest ==
  [verdict : Verdicts, roots : Seq({Null} \cup Lazies), type : [Nodes -> LazyTypes],
   kids : [Nodes -> Seq({Null} \cup Lazies)]]

ASSUME LazyAssumption ==
  /\ Null \notin Lazies \cup Values
  /\ ResultCap \in Nat \ {0} /\ DataCap \in Nat \ {0}
  /\ Forests \subseteq Forest
  /\ \A f \in Forests :
       /\ f.verdict = "value" => Len(f.roots) = 1
       /\ \A n \in Nodes :
            /\ f.type[n] = "APPLY" => Len(f.kids[n]) = 1
            /\ f.type[n] \notin {"FOLD", "APPLY"} => f.kids[n] = <<>>

\* The parse has built trees: nothing refers to a lazy twice.
ASSUME TreesAssumption ==
  \A f \in Forests : \A n \in Nodes :
    /\ \A i, j \in DOMAIN f.roots : f.roots[i] = Lazy(n) /\ f.roots[j] = Lazy(n) => i = j
    /\ \A m \in Nodes : \A i \in DOMAIN f.roots : \A j \in DOMAIN f.kids[m] :
         f.roots[i] = Lazy(n) => f.kids[m][j] # Lazy(n)
    /\ \A l, m \in Nodes : \A i \in DOMAIN f.kids[l] : \A j \in DOMAIN f.kids[m] :
         f.kids[l][i] = Lazy(n) /\ f.kids[m][j] = Lazy(n) => l = m /\ i = j

\* A lazy is built after its children, and nothing else refers to children: those are
\* trees that the result stack holds.
ASSUME DepthAssumption ==
  /\ IsFiniteSet(Nodes)
  /\ \A f \in Forests : \E depth \in [Nodes -> 1 .. Cardinality(Nodes)] :
       \A m, n \in Nodes : \A i \in DOMAIN f.kids[m] : f.kids[m][i] = Lazy(n) =>
         /\ depth[m] < depth[n]
         /\ \/ \E j \in DOMAIN f.roots : f.roots[j] = Lazy(m)
            \/ \E l \in Nodes : \E j \in DOMAIN f.kids[l] : f.kids[l][j] = Lazy(m)

VARIABLES
  forest,   \* what the parse left; does not change
  slots,    \* cc_lazy_fold.values and cc_lazy_apply.value of each lazy
  results,  \* result_stack
  words,    \* data_stack
  out, err, \* r->out, and what r->err points to
  pc,       \* where the code stands
  base,     \* lazy_free's stack_before
  rc,       \* what ir_eval will return: running, ok or a negative errno
  freed,    \* lazies that were freed
  handed,   \* history: the lazies evaluated, each with what its callback was given
  oom       \* history: an allocation failed

vars == <<forest, slots, results, words, out, err, pc, base, rc, freed,
          handed, oom>>

Pop(s) == SubSeq(s, 1, Len(s) - 1)
Final(s) == s[Len(s)]
Top == Final(results)
Recursive(p) == \E n \in Nodes : p = Lazy(n) /\ forest.type[n] \in {"FOLD", "APPLY"}

\* A push reallocates when the stack is full; the capacity doubles.
Full(height, cap) == \E k \in 0 .. height : height = cap * 2 ^ k

Init ==
  /\ forest \in Forests
  /\ slots = forest.kids /\ results = forest.roots
  /\ words = <<>> /\ out = Null /\ err = "report"
  /\ pc = "start" /\ base = 0
  /\ rc = IF forest.verdict = "resource" THEN "errno" ELSE "ok"
  /\ freed = {} /\ handed = <<>> /\ oom = FALSE

\* ir_eval frees the report, lazy_eval forgets it.  The data stack has room:
\* the outcome of the parse was popped from it.
Start ==
  /\ pc = "start"
  /\ IF forest.verdict = "value"
     THEN /\ err' = "none" /\ pc' = "turn" /\ rc' = "running"
          /\ words' = IF Recursive(Top) THEN <<0>> ELSE <<>>
     ELSE pc' = "cleanup" /\ UNCHANGED <<err, rc, words>>
  /\ UNCHANGED <<forest, slots, results, out, base, freed, handed, oom>>

\* goto cleanup with an error of the allocator, which lazy_eval returns.
OutOfMemory == pc' = "cleanup" /\ rc' = "errno" /\ oom' = TRUE

At(n, types) ==
  /\ pc = "turn" /\ results # <<>>
  /\ Top = Lazy(n) /\ forest.type[n] \in types

\* Mutant: the stack is measured after the lazy was popped, twice.
Done_lower(n, args) ==
  /\ handed' = Append(handed, [node |-> n, args |-> args])
  /\ pc' = "free" /\ base' = Len(results) - 2

\* The lazy on top has its value; it is freed next.
Done(n, args) ==
  /\ handed' = Append(handed, [node |-> n, args |-> args])
  /\ pc' = "free" /\ base' = Len(results) - 1

\* A callback returns a value or an error.
Return(n, args) ==
  /\ \/ out' = Value(n) /\ err' = err
     \/ out' = Null /\ err' = "callback"
  /\ Done(n, args)
  /\ UNCHANGED <<forest, results, rc, freed, oom>>

EvalNull ==
  /\ pc = "turn" /\ results # <<>> /\ Top = Null
  /\ out' = Null /\ results' = Pop(results)
  /\ UNCHANGED <<forest, slots, words, err, pc, base, rc, freed, handed, oom>>

\* char_result and string_result allocate; that they failed goes unnoticed.
EvalLeaf(n) ==
  /\ \/ At(n, {"VALUE", "CHAR", "TERMINAL"}) /\ out' = Value(n) /\ oom' = oom
     \/ At(n, {"CHAR", "TERMINAL"}) /\ out' = Null /\ oom' = TRUE
  /\ Done(n, <<>>)
  /\ UNCHANGED <<forest, slots, results, words, err, rc, freed>>

\* How many bytes are allocated and copied is left open, as lazy_inline leaves
\* `size`.  The errno that says they could not be is positive, unlike those of the
\* cleanup, and ends in ir_eval's result all the same.
EvalInline(n) ==
  /\ At(n, {"INLINE"})
  /\ \/ out' = Value(n) /\ Done(n, <<>>) /\ UNCHANGED <<rc, oom>>
     \/ OutOfMemory /\ out' = Null /\ UNCHANGED <<handed, base>>
  /\ UNCHANGED <<forest, slots, results, words, err, freed>>

EvalLift(n) == At(n, {"LIFT"}) /\ Return(n, <<>>) /\ UNCHANGED <<slots, words>>

\* Stays at the node and goes down to a child, which leaves its slot only when
\* both pushes have succeeded.
Descend(child, word, before, after) ==
  LET back == Append(Pop(words), word) IN
  /\ \/ /\ results' = Append(results, child)
        /\ words' = IF Recursive(child) THEN Append(back, 0) ELSE back
        /\ slots' = after /\ UNCHANGED <<pc, rc, oom>>
     \/ /\ Full(Len(results), ResultCap) /\ OutOfMemory
        /\ words' = back /\ slots' = before /\ results' = results
     \/ /\ Recursive(child) /\ Full(Len(back), DataCap) /\ OutOfMemory
        /\ words' = back /\ slots' = before /\ results' = Append(results, child)
  /\ UNCHANGED <<forest, out, err, base, freed, handed>>

\* The value of the child that was evaluated last takes its place.
Patched(n) ==
  IF Final(words) > 0 THEN [slots EXCEPT ![n][Final(words)] = out] ELSE slots

\* Mutant: the callback runs before the value of the last child is stored.
FoldCall_unpatched(n) ==
  /\ At(n, {"FOLD"}) /\ Final(words) >= Len(slots[n])
  /\ words' = Pop(words)
  /\ slots' = [slots EXCEPT ![n] = [i \in 1 .. Len(slots[n]) |-> Null]]
  /\ Return(n, slots[n])

FoldNext(n) ==
  /\ At(n, {"FOLD"}) /\ Final(words) < Len(slots[n])
  /\ LET next == Final(words) + 1
     IN Descend(Patched(n)[n][next], next, Patched(n), [Patched(n) EXCEPT ![n][next] = Null])

FoldCall(n) ==
  /\ At(n, {"FOLD"}) /\ Final(words) >= Len(slots[n])
  /\ words' = Pop(words)
  /\ slots' = [slots EXCEPT ![n] = [i \in 1 .. Len(slots[n]) |-> Null]]
  /\ Return(n, Patched(n)[n])

ApplyNext(n) ==
  /\ At(n, {"APPLY"}) /\ Final(words) = 0
  /\ Descend(slots[n][1], 1, slots, [slots EXCEPT ![n][1] = Null])

ApplyCall(n) ==
  /\ At(n, {"APPLY"}) /\ Final(words) = 1
  /\ words' = Pop(words) /\ slots' = slots
  /\ Return(n, <<out>>)

\* The loop of lazy_eval is over.
EvalEnd ==
  /\ pc = "turn" /\ results = <<>>
  /\ pc' = "cleanup" /\ rc' = "ok"
  /\ UNCHANGED <<forest, slots, results, words, out, err, base, freed, handed, oom>>

-----------------------------------------------------------------------------
\* lazy_free: one turn of its loop.
FreeNull ==
  /\ pc = "free" /\ Len(results) > base /\ Top = Null
  /\ results' = Pop(results)
  /\ UNCHANGED <<forest, slots, words, out, err, pc, base, rc, freed, handed, oom>>

\* Mutant: the children are left where they are.
FreeLazy_shallow(n) ==
  /\ pc = "free" /\ Len(results) > base /\ Top = Lazy(n) /\ n \notin freed
  /\ results' = Pop(results) /\ freed' = freed \cup {n}
  /\ UNCHANGED <<forest, slots, words, out, err, pc, base, rc, handed, oom>>

\* The children are pushed, then the lazy is freed.
FreeLazy(n) ==
  /\ pc = "free" /\ Len(results) > base /\ Top = Lazy(n) /\ n \notin freed
  /\ results' = Pop(results) \o slots[n] /\ freed' = freed \cup {n}
  /\ UNCHANGED <<forest, slots, words, out, err, pc, base, rc, handed, oom>>

\* A push fails: a fold is not freed, an apply is; what the stack held of the
\* tree is lost.  lazy_eval returns the error, the cleanup of ir_eval stops.
FreeFails(n) ==
  /\ pc = "free" /\ Len(results) > base /\ Top = Lazy(n) /\ n \notin freed
  /\ \E i \in DOMAIN slots[n] : Full(Len(results) + i - 2, ResultCap)
  /\ results' = SubSeq(results, 1, base) /\ oom' = TRUE
  /\ freed' = IF forest.type[n] = "APPLY" THEN freed \cup {n} ELSE freed
  /\ IF rc = "running" THEN pc' = "cleanup" /\ rc' = "errno"
                       ELSE pc' = "return" /\ rc' = rc
  /\ UNCHANGED <<forest, slots, words, out, err, base, handed>>

\* Reading the type of what is not a lazy, or no longer one.
FreeUndefined ==
  /\ pc = "free" /\ Len(results) > base
  /\ Top \in Values \cup {Lazy(n) : n \in freed}
  /\ pc' = "undefined"
  /\ UNCHANGED <<forest, slots, results, words, out, err, base, rc, freed, handed, oom>>

\* remove_patched_values: what is on the result stack leads down to the lazy
\* that failed; each fold and apply among it has a word, the last one the top.
WordOf(i) ==
  words[Len(words) - Cardinality({k \in i + 1 .. Len(results) : Recursive(results[k])})]

\* Mutant: one value too few is forgotten.
Unpatched_short(n) ==
  IF \E i \in DOMAIN results : results[i] = Lazy(n)
  THEN LET i == CHOOSE i \in DOMAIN results : results[i] = Lazy(n)
       IN [k \in DOMAIN slots[n] |->
             IF forest.type[n] = "APPLY" \/ k < WordOf(i) - 1 THEN Null ELSE slots[n][k]]
  ELSE slots[n]

\* A fold whose word is w has values in the slots before w - 1.
Unpatched(n) ==
  IF \E i \in DOMAIN results : results[i] = Lazy(n)
  THEN LET i == CHOOSE i \in DOMAIN results : results[i] = Lazy(n)
       IN [k \in DOMAIN slots[n] |->
             IF forest.type[n] = "APPLY" \/ k <= WordOf(i) - 1 THEN Null ELSE slots[n][k]]
  ELSE slots[n]

\* Mutant: nothing is forgotten before the tree is freed.
FreeEnd_direct ==
  /\ pc = "free" /\ Len(results) = base
  /\ IF rc = "running" /\ err = "callback"
     THEN pc' = "cleanup" /\ rc' = "ok"
     ELSE pc' = (IF rc = "running" THEN "turn" ELSE "cleanup") /\ UNCHANGED rc
  /\ UNCHANGED <<forest, slots, results, words, out, err, base, freed, handed, oom>>

\* Mutant: the evaluation goes on after an error.
FreeEnd_continuing ==
  /\ pc = "free" /\ Len(results) = base
  /\ pc' = IF rc = "running" THEN "turn" ELSE "cleanup"
  /\ UNCHANGED <<forest, slots, results, words, out, err, base, rc, freed,
                 handed, oom>>

\* lazy_free returns, to lazy_eval or to the cleanup of ir_eval.
FreeEnd ==
  /\ pc = "free" /\ Len(results) = base
  /\ IF rc = "running" /\ err = "callback"
     THEN slots' = [n \in Nodes |-> Unpatched(n)] /\ pc' = "cleanup" /\ rc' = "ok"
     ELSE /\ pc' = IF rc = "running" THEN "turn" ELSE "cleanup"
          /\ UNCHANGED <<slots, rc>>
  /\ UNCHANGED <<forest, results, words, out, err, base, freed, handed, oom>>

-----------------------------------------------------------------------------
\* The cleanup of ir_eval frees what is on the result stack.
Cleanup ==
  /\ pc = "cleanup"
  /\ IF results = <<>> THEN pc' = "return" /\ base' = base
                       ELSE pc' = "free" /\ base' = Len(results) - 1
  /\ UNCHANGED <<forest, slots, results, words, out, err, rc, freed, handed, oom>>

\* cc_parse frees the report unless it is its answer; cc_err_free reads it.
Answer ==
  /\ pc = "return"
  /\ IF rc = "errno"
     THEN IF err = "none" THEN pc' = "undefined" /\ err' = err
                          ELSE pc' = "done" /\ err' = "freed"
     ELSE /\ pc' = "done"
          /\ err' = IF forest.verdict = "quiet" THEN "none" ELSE err
  /\ UNCHANGED <<forest, slots, results, words, out, base, rc, freed, handed, oom>>

Ended == pc \in {"done", "undefined"} /\ UNCHANGED vars

Turn ==
  \/ EvalNull \/ EvalEnd
  \/ \E n \in Nodes : \/ EvalLeaf(n) \/ EvalInline(n) \/ EvalLift(n)
                      \/ FoldNext(n) \/ FoldCall(n) \/ ApplyNext(n) \/ ApplyCall(n)

Free ==
  \/ FreeNull \/ FreeUndefined \/ FreeEnd
  \/ \E n \in Nodes : FreeLazy(n) \/ FreeFails(n)

Next == Start \/ Turn \/ Free \/ Cleanup \/ Answer \/ Ended

Spec == Init /\ [][Next]_vars
\* One thread, which takes its next step as long as there is one.
FairSpec == Spec /\ WF_vars(Next)

-----------------------------------------------------------------------------
TypeOK ==
  /\ forest \in Forest
  /\ slots \in [Nodes -> Seq(Pointers)]
  /\ \A n \in Nodes : Len(slots[n]) = Len(forest.kids[n])
  /\ results \in Seq(Pointers) /\ words \in Seq(Nat)
  /\ out \in {Null} \cup Values
  /\ err \in {"report", "none", "callback", "freed"}
  /\ pc \in {"start", "turn", "free", "cleanup", "return", "done", "undefined"}
  /\ rc \in {"running", "ok", "errno"}
  /\ base \in Nat /\ freed \subseteq Nodes
  /\ oom \in BOOLEAN
  /\ handed \in Seq([node : Nodes, args : Seq(Pointers)])

\* No assert fails: data_pop finds a word, an apply has state 0 or 1, no callback
\* runs while an error is pending, and no word is left (cc_eval.c:380-384, 490,
\* 563-566, 591).
AssertsHold ==
  pc = "turn" =>
    /\ err = "none"
    /\ results = <<>> => words = <<>>
    /\ (results # <<>> /\ Recursive(Top)) =>
         /\ words # <<>>
         /\ \A n \in Nodes : At(n, {"APPLY"}) => Final(words) \in {0, 1}

\* Nothing that is not a lazy is freed as one, no lazy is freed twice or read
\* after it was freed, whichever callback fails and wherever in the tree: unless
\* an allocation fails (cc_eval.c:449-467, 581-588, 911-916, cc_lazy.c:133-183).
NothingUndefined == pc = "undefined" => oom

\* The lazies the parse has built.
Built ==
  {n \in Nodes : \/ \E i \in DOMAIN forest.roots : forest.roots[i] = Lazy(n)
                 \/ \E m \in Nodes : \E i \in DOMAIN forest.kids[m] :
                      forest.kids[m][i] = Lazy(n)}

\* Every lazy of the parse has been freed when cc_parse returns, those below a
\* callback that failed and those never reached included (cc_eval.c:911-916).
EveryLazyFreed == pc = "done" /\ ~oom => freed = Built
=============================================================================
