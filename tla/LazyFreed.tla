------------------------------ MODULE LazyFreed ------------------------------
(***************************************************************************)
(* Proof that no lazy leaks: unless an allocation fails, all that the      *)
(* parse has built is freed when cc_parse returns, for every forest of     *)
(* lazies and whichever callback fails.                                    *)
(***************************************************************************)
EXTENDS LazyProofs, LeastElement

Referred(n, stack, values, gone) ==
  \/ \E i \in DOMAIN stack : stack[i] = Lazy(n)
  \/ \E m \in Built \ gone : \E k \in DOMAIN values[m] : values[m][k] = Lazy(n)

\* A lazy that was not freed is referred to from the result stack or by another.
HeldInv == ~oom => \A n \in Built \ freed : Referred(n, results, slots, freed)

\* The evaluation comes across lazies of the parse only, and nowhere else than where
\* the parse has put them.
TakenInv ==
  /\ freed \subseteq Built
  /\ \A n \in Nodes : \A i \in DOMAIN results : results[i] = Lazy(n) => n \in Built
  /\ \A m, n \in Nodes : \A k \in DOMAIN slots[m] :
       slots[m][k] = Lazy(n) => forest.kids[m][k] = Lazy(n)

\* The children up to the one a word counts are no longer in their slots; those of
\* which one is being evaluated have a word that counts it.
VisitedInv ==
  rc = "running" =>
    \A i \in DOMAIN words : \A n \in Nodes : results[i] = Lazy(n) =>
      /\ \A k \in DOMAIN slots[n] : k <= words[i] => slots[n][k] \notin Lazies
      /\ i < Len(results) \/ pc = "free" => words[i] >= 1

EndInv == pc \in {"return", "done"} /\ ~oom => results = <<>>

\* No lazy is lost on the way: not when its value takes its place, not when the slots
\* of its parent are forgotten after an error (cc_eval.c:449-467, cc_lazy.c:133-183).
HInv == HeldInv /\ TakenInv /\ VisitedInv /\ EndInv
-----------------------------------------------------------------------------
(* Facts about what is built and referred to. *)

LEMMA KidIsBuilt ==
  ASSUME LInv, NEW m \in Nodes, NEW n \in Nodes, NEW k \in DOMAIN slots[m],
         TakenInv, slots[m][k] = Lazy(n)
  PROVE  n \in Built
  <1>1. forest.kids[m][k] = Lazy(n)
    BY DEF TakenInv
  <1>2. k \in DOMAIN forest.kids[m]
    <2>1. slots[m] \in Seq(Pointers) /\ forest.kids[m] \in Seq(Pointers)
      BY ForestFacts DEF LInv, TypeOK
    <2>2. Len(slots[m]) = Len(forest.kids[m])
      BY DEF LInv, TypeOK
    <2> QED
      BY <2>1, <2>2, LenProperties
  <1> QED
    BY <1>1, <1>2 DEF Built

\* Slots in which no lazy is new.
Fewer(fewer, values) ==
  \A m \in Nodes : \A k \in DOMAIN fewer[m] :
    fewer[m][k] \in Lazies => k \in DOMAIN values[m] /\ fewer[m][k] = values[m][k]

LEMMA TakenFewer ==
  ASSUME LInv, TakenInv, Fewer(slots', slots), UNCHANGED forest,
         freed' \subseteq Built,
         \A n \in Nodes : \A i \in DOMAIN results' : results'[i] = Lazy(n) => n \in Built
  PROVE  TakenInv'
  <1>1. Built' = Built
    BY DEF Built
  <1>2. ASSUME NEW m \in Nodes, NEW n \in Nodes, NEW k \in DOMAIN slots'[m], slots'[m][k] = Lazy(n)
        PROVE  forest'.kids[m][k] = Lazy(n)
    <2>1. slots'[m][k] \in Lazies
      BY <1>2, PointerFacts
    <2>2. k \in DOMAIN slots[m] /\ slots[m][k] = Lazy(n)
      BY <1>2, <2>1 DEF Fewer
    <2> QED
      BY <2>2 DEF TakenInv
  <1> QED
    BY <1>1, <1>2 DEF TakenInv

\* All that was referred to still is.
LEMMA HeldStays ==
  ASSUME HeldInv, UNCHANGED forest, oom => oom', freed \subseteq freed',
         \A n \in Nodes \ freed' : \A i \in DOMAIN results :
           ~oom' /\ results[i] = Lazy(n) => \E j \in DOMAIN results' : results'[j] = Lazy(n),
         \A n \in Nodes \ freed' : \A m \in Nodes \ freed : \A k \in DOMAIN slots[m] :
           ~oom' /\ slots[m][k] = Lazy(n) =>
             \/ \E j \in DOMAIN results' : results'[j] = Lazy(n)
             \/ m \notin freed' /\ k \in DOMAIN slots'[m] /\ slots'[m][k] = Lazy(n)
  PROVE  HeldInv'
  <1>1. Built' = Built /\ Built \subseteq Nodes
    BY DEF Built
  <1> SUFFICES ASSUME ~oom', NEW n \in Built \ freed'
               PROVE  Referred(n, results, slots, freed)'
    BY <1>1 DEF HeldInv
  <1>2. Referred(n, results, slots, freed)
    BY DEF HeldInv
  <1>3. \/ \E i \in DOMAIN results' : results'[i] = Lazy(n)
        \/ \E m \in Built \ freed' : \E k \in DOMAIN slots'[m] : slots'[m][k] = Lazy(n)
    <2>1. CASE \E i \in DOMAIN results : results[i] = Lazy(n)
      BY <1>1, <2>1
    <2>2. CASE \E m \in Built \ freed : \E k \in DOMAIN slots[m] : slots[m][k] = Lazy(n)
      BY <1>1, <2>2
    <2> QED
      BY <1>2, <2>1, <2>2 DEF Referred
  <1> QED
    BY <1>1, <1>3 DEF Referred

\* The word of each lazy on the way down, but for the one on top.
LEMMA WordsBelow ==
  ASSUME LInv, rc = "running"
  PROVE  /\ words \in Seq(Nat) /\ Len(words) \in Nat /\ DOMAIN words = 1 .. Len(words)
         /\ results \in Seq(Pointers) /\ Len(results) \in Nat /\ DOMAIN results = 1 .. Len(results)
         /\ Len(words) = Level /\ Level <= Len(results)
         /\ \A n \in Nodes : DOMAIN slots[n] \subseteq Nat \ {0}
  <1>1. /\ words \in Seq(Nat) /\ results \in Seq(Pointers) /\ Len(words) = Level
        /\ slots \in [Nodes -> Seq(Pointers)] /\ base \in Nat
    BY DEF LInv, TypeOK, PathInv
  <1>2. /\ Len(words) \in Nat /\ DOMAIN words = 1 .. Len(words)
        /\ Len(results) \in Nat /\ DOMAIN results = 1 .. Len(results)
    BY <1>1, LenProperties
  <1>3. \A n \in Nodes : DOMAIN slots[n] \subseteq Nat \ {0}
    BY <1>1, LenProperties
  <1>4. Level <= Len(results)
    <2>1. CASE pc = "free"
      BY <2>1 DEF LInv, ControlInv, Level
    <2>2. CASE pc # "free"
      BY <1>2, <2>2 DEF Level
    <2> QED
      BY <2>1, <2>2
  <1> QED
    BY <1>1, <1>2, <1>3, <1>4

LEMMA InitHeld == Init => HInv
  <1> SUFFICES ASSUME Init PROVE HInv
    OBVIOUS
  <1> USE DEF Init
  <1>1. Built \subseteq Nodes /\ forest \in Forests
    BY DEF Built
  <1>2. PICK depth \in [Nodes -> 1 .. Cardinality(Nodes)] :
          \A m, n \in Nodes : \A i \in DOMAIN forest.kids[m] : forest.kids[m][i] = Lazy(n) =>
            /\ depth[m] < depth[n]
            /\ \/ \E j \in DOMAIN forest.roots : forest.roots[j] = Lazy(m)
               \/ \E l \in Nodes : \E j \in DOMAIN forest.kids[l] : forest.kids[l][j] = Lazy(m)
    BY <1>1, DepthAssumption
  <1>3. \A m, n \in Nodes : \A i \in DOMAIN forest.kids[m] :
          forest.kids[m][i] = Lazy(n) => m \in Built
    BY <1>2 DEF Built
  <1>4. HeldInv
    <2> SUFFICES ASSUME NEW n \in Built PROVE Referred(n, results, slots, freed)
      BY DEF HeldInv
    <2>1. CASE \E i \in DOMAIN forest.roots : forest.roots[i] = Lazy(n)
      BY <2>1 DEF Referred
    <2>2. CASE \E m \in Nodes : \E i \in DOMAIN forest.kids[m] : forest.kids[m][i] = Lazy(n)
      <3>1. PICK m \in Nodes : \E i \in DOMAIN forest.kids[m] : forest.kids[m][i] = Lazy(n)
        BY <2>2
      <3>2. m \in Built \ freed
        BY <1>1, <1>3, <3>1
      <3> QED
        BY <3>1, <3>2 DEF Referred
    <2> QED
      BY <2>1, <2>2 DEF Built
  <1>5. TakenInv
    <2>1. \A n \in Nodes : \A i \in DOMAIN results : results[i] = Lazy(n) => n \in Built
      BY DEF Built
    <2> QED
      BY <2>1 DEF TakenInv
  <1>6. VisitedInv /\ EndInv
    BY DEF VisitedInv, EndInv
  <1> QED
    BY <1>4, <1>5, <1>6 DEF HInv

\* The same lazies, and no word that is new.
LEMMA SameHeld ==
  ASSUME LInv, HInv, UNCHANGED <<forest, slots, results, words, freed>>, oom => oom',
         pc' \in {"return", "done"} /\ ~oom' => results = <<>>,
         rc' = "running" =>
           rc = "running" /\ (pc' = "free" => pc = "free" \/ Len(words) < Len(results))
  PROVE  HInv'
  <1>1. HeldInv'
    <2>1. HeldInv
      BY DEF HInv
    <2> QED
      BY <2>1, HeldStays
  <1>2. TakenInv'
    BY DEF HInv, TakenInv, Built
  <1>3. VisitedInv'
    <2> SUFFICES ASSUME rc' = "running" PROVE VisitedInv'
      BY DEF VisitedInv
    <2>1. pc' = "free" /\ pc # "free" => \A i \in DOMAIN words : i < Len(results)
      BY WordsBelow
    <2> QED
      BY <2>1 DEF HInv, VisitedInv
  <1>4. EndInv'
    BY DEF HInv, EndInv
  <1> QED
    BY <1>1, <1>2, <1>3, <1>4 DEF HInv

LEMMA StartHeld == ASSUME LInv, HInv, Start PROVE HInv'
  <1>1. UNCHANGED <<forest, slots, results, freed, oom>> /\ pc = "start"
    BY DEF Start
  <1>2. CASE forest.verdict = "value"
    <2>1. pc' = "turn" /\ words' \in {<<0>>, <<>>}
      BY <1>2 DEF Start
    <2>2. Len(results) = 1
      BY <1>1, <1>2, LazyAssumption DEF LInv, ControlInv
    <2>3. HeldInv' /\ TakenInv' /\ EndInv'
      <3>1. HeldInv'
        BY <1>1, HeldStays DEF HInv
      <3> QED
        BY <1>1, <2>1, <3>1 DEF HInv, TakenInv, Built, EndInv
    <2>4. VisitedInv'
      <3> SUFFICES ASSUME NEW i \in DOMAIN words', NEW n \in Nodes
                   PROVE  /\ \A k \in DOMAIN slots[n] : k <= words'[i] => slots[n][k] \notin Lazies
                          /\ ~(i < Len(results))
        BY <1>1, <2>1 DEF VisitedInv
      <3>1. words' = <<0>> /\ i = 1
        BY <2>1
      <3>2. DOMAIN slots[n] \subseteq Nat \ {0}
        BY LenProperties DEF LInv, TypeOK
      <3> QED
        BY <2>2, <3>1, <3>2
    <2> QED
      BY <2>3, <2>4 DEF HInv
  <1>3. CASE forest.verdict # "value"
    <2>1. pc' = "cleanup" /\ UNCHANGED <<rc, words>> /\ rc # "running"
      BY <1>1, <1>3 DEF Start, LInv, ControlInv
    <2> QED
      BY <1>1, <2>1, SameHeld
  <1> QED
    BY <1>2, <1>3

\* The null pointer on top goes.
LEMMA NullHeld ==
  ASSUME LInv, HInv, results # <<>>, Top = Null, results' = Pop(results),
         UNCHANGED <<forest, slots, words, freed, oom, pc, rc>>,
         pc \in {"turn", "free"}, rc = "running" => Len(words) < Len(results)
  PROVE  HInv'
  <1>1. /\ results \in Seq(Pointers) /\ Len(results) \in Nat \ {0}
        /\ DOMAIN results = 1 .. Len(results) /\ results[Len(results)] = Null
    BY EmptySeq, LenProperties DEF LInv, TypeOK, Top, Final
  <1>2. /\ DOMAIN results' = 1 .. Len(results) - 1
        /\ \A i \in 1 .. Len(results) - 1 : results'[i] = results[i]
        /\ Len(results') = Len(results) - 1
    BY <1>1, PopFacts, LenProperties
  <1>3. \A n \in Nodes : \A i \in DOMAIN results : results[i] = Lazy(n) =>
          i \in DOMAIN results' /\ results'[i] = Lazy(n)
    BY <1>1, <1>2, PointerFacts
  <1>4. HeldInv'
    BY <1>3, HeldStays DEF HInv
  <1>5. TakenInv' /\ EndInv'
    BY <1>1, <1>2 DEF HInv, TakenInv, EndInv, Built
  <1>6. VisitedInv'
    <2> SUFFICES ASSUME rc = "running", NEW i \in DOMAIN words, NEW n \in Nodes, results'[i] = Lazy(n)
                 PROVE  /\ \A k \in DOMAIN slots[n] : k <= words[i] => slots[n][k] \notin Lazies
                        /\ words[i] >= 1
      BY DEF VisitedInv
    <2>1. i \in 1 .. Len(results) - 1 /\ i < Len(results)
      BY <1>1, WordsBelow
    <2> QED
      BY <1>2, <2>1 DEF HInv, VisitedInv
  <1> QED
    BY <1>4, <1>5, <1>6 DEF HInv
LEMMA EvalNullHeld == ASSUME LInv, HInv, EvalNull PROVE HInv'
  <1>1. /\ pc = "turn" /\ results # <<>> /\ Top = Null /\ results' = Pop(results)
        /\ UNCHANGED <<forest, slots, words, freed, oom, pc, rc>>
    BY DEF EvalNull
  <1>2. Level = Len(results) - 1
    BY <1>1, PointerFacts DEF Level, Recursive
  <1>3. rc = "running" => Len(words) < Len(results)
    BY <1>2, WordsBelow
  <1> QED
    BY <1>1, <1>3, NullHeld

LEMMA FreeNullHeld == ASSUME LInv, HInv, FreeNull PROVE HInv'
  <1>1. /\ pc = "free" /\ Len(results) > base /\ Top = Null /\ results' = Pop(results)
        /\ UNCHANGED <<forest, slots, words, freed, oom, pc, rc>>
    BY DEF FreeNull
  <1>2. results # <<>> /\ Level = base /\ base \in Nat
    BY <1>1, FreeFacts
  <1>3. rc = "running" => Len(words) < Len(results)
    BY <1>1, <1>2, WordsBelow
  <1> QED
    BY <1>1, <1>2, <1>3, NullHeld

\* A lazy without children has no word.
LEMMA LeavesHeld ==
  ASSUME LInv, HInv, NEW n \in Nodes, EvalLeaf(n) \/ EvalInline(n) \/ EvalLift(n)
  PROVE  HInv'
  <1>1. /\ pc = "turn" /\ rc = "running" /\ results # <<>> /\ Top = Lazy(n)
        /\ forest.type[n] \notin {"FOLD", "APPLY"}
    BY DEF EvalLeaf, EvalInline, EvalLift, At, LInv, ControlInv
  <1>2. Level = Len(results) - 1
    BY <1>1, PointerFacts DEF Level, Recursive
  <1>3. Len(words) < Len(results)
    BY <1>1, <1>2, WordsBelow
  <1>4. /\ UNCHANGED <<forest, slots, results, words, freed>> /\ (oom => oom')
        /\ pc' \in {"free", "cleanup"}
    BY DEF EvalLeaf, EvalInline, EvalLift, Return, Done, OutOfMemory
  <1> QED
    BY <1>1, <1>3, <1>4, SameHeld

LEMMA EvalEndHeld == ASSUME LInv, HInv, EvalEnd PROVE HInv'
  <1>1. UNCHANGED <<forest, slots, results, words, freed, oom>> /\ results = <<>> /\ rc' = "ok"
    BY DEF EvalEnd
  <1> QED
    BY <1>1, SameHeld

LEMMA FreeUndefinedHeld == ASSUME LInv, HInv, FreeUndefined PROVE HInv'
  <1>1. UNCHANGED <<forest, slots, results, words, freed, rc, oom>> /\ pc' = "undefined"
    BY DEF FreeUndefined
  <1> QED
    BY <1>1, SameHeld

LEMMA CleanupHeld == ASSUME LInv, HInv, Cleanup PROVE HInv'
  <1>1. /\ UNCHANGED <<forest, slots, results, words, freed, rc, oom>>
        /\ results = <<>> \/ pc' = "free"
    BY DEF Cleanup
  <1>2. rc # "running"
    BY DEF Cleanup, LInv, ControlInv
  <1> QED
    BY <1>1, <1>2, SameHeld

LEMMA AnswerHeld == ASSUME LInv, HInv, Answer PROVE HInv'
  <1>1. /\ UNCHANGED <<forest, slots, results, words, freed, rc, oom>>
        /\ pc = "return" /\ rc # "running"
    BY DEF Answer, LInv, ControlInv
  <1>2. ~oom => results = <<>>
    BY <1>1 DEF HInv, EndInv
  <1> QED
    BY <1>1, <1>2, SameHeld

LEMMA StutterHeld == ASSUME LInv, HInv, UNCHANGED vars PROVE HInv'
  <1>1. UNCHANGED <<forest, slots, results, words, freed, rc, oom, pc>>
    BY DEF vars
  <1>2. pc \in {"return", "done"} /\ ~oom => results = <<>>
    BY DEF HInv, EndInv
  <1> QED
    BY <1>1, <1>2, SameHeld

\* A callback ran: all its lazy had for it was looked at.
LEMMA CallHeld ==
  ASSUME LInv, HInv, NEW n \in Nodes, FoldCall(n) \/ ApplyCall(n)
  PROVE  HInv'
  <1>1. /\ At(n, {"FOLD", "APPLY"}) /\ words' = Pop(words) /\ pc' = "free"
        /\ UNCHANGED <<forest, results, freed, rc, oom>>
        /\ slots' = slots \/ slots' = [slots EXCEPT ![n] = [i \in 1 .. Len(slots[n]) |-> Null]]
    BY DEF FoldCall, ApplyCall, Return, Done, At
  <1>2. /\ results # <<>> /\ Top = Lazy(n) /\ rc = "running" /\ Len(words) = Len(results)
        /\ words \in Seq(Nat) /\ words # <<>>
        /\ slots[n] \in Seq(Pointers) /\ Len(slots[n]) \in Nat
        /\ forest.type[n] = "APPLY" => Len(slots[n]) = 1
    BY <1>1, TopFacts
  <1>3. Final(words) >= Len(slots[n])
    <2>1. CASE FoldCall(n)
      BY <2>1 DEF FoldCall
    <2>2. CASE ApplyCall(n)
      <3>1. Final(words) = 1 /\ forest.type[n] = "APPLY"
        BY <2>2 DEF ApplyCall, At
      <3>2. Len(slots[n]) = 1 /\ 1 >= 1
        BY <1>2, <3>1
      <3> QED
        BY <3>1, <3>2
    <2> QED
      BY <2>1, <2>2
  <1>4. /\ DOMAIN words' = 1 .. Len(results) - 1 /\ Len(results) \in Nat \ {0}
        /\ DOMAIN words = 1 .. Len(results)
        /\ \A i \in 1 .. Len(results) - 1 : words'[i] = words[i]
    <2>1. /\ words' \in Seq(Nat) /\ Len(words') = Len(words) - 1 /\ Len(words) \in Nat \ {0}
          /\ \A i \in 1 .. Len(words) - 1 : words'[i] = words[i]
      BY <1>1, <1>2, PopFacts
    <2> QED
      BY <1>2, <2>1, LenProperties
  <1>5. \A k \in DOMAIN slots[n] : slots[n][k] \notin Lazies
    <2>1. \A k \in DOMAIN slots[n] : k <= Final(words)
      <3>1. DOMAIN slots[n] = 1 .. Len(slots[n]) /\ Final(words) \in Nat
        BY <1>2, LenProperties, PopFacts
      <3> QED
        BY <1>2, <1>3, <3>1
    <2>2. Len(results) \in DOMAIN words /\ results[Len(results)] = Lazy(n)
      BY <1>2, <1>4 DEF Top, Final
    <2>3. Final(words) = words[Len(results)]
      BY <1>2 DEF Final
    <2> QED
      BY <1>2, <2>1, <2>2, <2>3 DEF HInv, VisitedInv
  <1>6. /\ \A m \in Nodes \ {n} : slots'[m] = slots[m]
        /\ \A k \in DOMAIN slots'[n] : slots'[n][k] \notin Lazies
    <2>1. CASE slots' = slots
      BY <1>5, <2>1
    <2>2. CASE slots' = [slots EXCEPT ![n] = [i \in 1 .. Len(slots[n]) |-> Null]]
      <3>1. slots \in [Nodes -> Seq(Pointers)]
        BY DEF LInv, TypeOK
      <3> QED
        BY <2>2, <3>1, PointerFacts
    <2> QED
      BY <1>1, <2>1, <2>2
  <1>7. HeldInv'
    <2>1. \A l \in Nodes : \A m \in Nodes : \A k \in DOMAIN slots[m] :
            slots[m][k] = Lazy(l) => k \in DOMAIN slots'[m] /\ slots'[m][k] = Lazy(l)
      BY <1>5, <1>6, PointerFacts
    <2>2. HeldInv
      BY DEF HInv
    <2> QED
      BY <1>1, <2>1, <2>2, HeldStays
  <1>8. TakenInv'
    <2>1. Fewer(slots', slots)
      <3>1. \A m \in Nodes : \A k \in DOMAIN slots'[m] : slots'[m][k] \in Lazies =>
              k \in DOMAIN slots[m] /\ slots'[m][k] = slots[m][k]
        BY <1>6
      <3>2. DOMAIN slots = Nodes /\ DOMAIN slots' = Nodes
        BY <1>1 DEF LInv, TypeOK
      <3> QED
        BY <3>1 DEF Fewer
    <2> QED
      BY <1>1, <2>1, TakenFewer DEF HInv, TakenInv
  <1>9. VisitedInv'
    <2> SUFFICES ASSUME NEW i \in DOMAIN words', NEW m \in Nodes, results[i] = Lazy(m)
                 PROVE  /\ \A k \in DOMAIN slots'[m] : k <= words'[i] => slots'[m][k] \notin Lazies
                        /\ words'[i] >= 1
      BY <1>1 DEF VisitedInv
    <2>1. i \in DOMAIN words /\ words'[i] = words[i] /\ i < Len(results)
      BY <1>4
    <2>2. /\ \A k \in DOMAIN slots[m] : k <= words[i] => slots[m][k] \notin Lazies
          /\ words[i] >= 1
      BY <1>2, <2>1 DEF HInv, VisitedInv
    <2> QED
      BY <1>6, <2>1, <2>2
  <1>10. EndInv'
    BY <1>1 DEF EndInv
  <1> QED
    BY <1>7, <1>8, <1>9, <1>10 DEF HInv
\* What a freed lazy refers to takes its place.
LEMMA FreeLazyHeld ==
  ASSUME LInv, HInv, NEW n \in Nodes, FreeLazy(n)
  PROVE  HInv'
  <1>1. /\ pc = "free" /\ Len(results) > base /\ Top = Lazy(n)
        /\ results' = Pop(results) \o slots[n] /\ freed' = freed \cup {n}
        /\ UNCHANGED <<forest, slots, words, pc, rc, oom>>
    BY DEF FreeLazy
  <1>2. /\ results \in Seq(Pointers) /\ results # <<>> /\ Len(results) \in Nat \ {0}
        /\ base \in 0 .. Len(results) - 1 /\ Level = base /\ results[Len(results)] = Lazy(n)
    BY <1>1, FreeFacts
  <1> DEFINE low == Len(results) - 1
  <1>3. /\ low \in Nat /\ base \in 0 .. low /\ Len(results) \notin 1 .. low
        /\ DOMAIN results = (1 .. low) \cup {Len(results)}
    <2>1. DOMAIN results = 1 .. Len(results)
      BY <1>2, LenProperties
    <2> QED
      BY <1>2, <2>1
  <1>4. /\ Pop(results) \in Seq(Pointers) /\ Len(Pop(results)) = low
        /\ \A i \in 1 .. low : Pop(results)[i] = results[i]
    BY <1>2, PopFacts
  <1>5. slots[n] \in Seq(Pointers) /\ Len(slots[n]) \in Nat /\ DOMAIN slots[n] = 1 .. Len(slots[n])
    BY LenProperties DEF LInv, TypeOK
  <1> HIDE DEF low
  <1>6. /\ results' \in Seq(Pointers) /\ Len(results') = low + Len(slots[n])
        /\ \A i \in 1 .. low : results'[i] = results[i]
        /\ \A i \in 1 .. low + Len(slots[n]) : i > low => results'[i] = slots[n][i - low]
    <2>1. /\ results' \in Seq(Pointers) /\ Len(results') = low + Len(slots[n])
          /\ \A i \in 1 .. low : results'[i] = Pop(results)[i]
          /\ \A i \in 1 .. low + Len(slots[n]) : i > low => results'[i] = slots[n][i - low]
      BY <1>1, <1>4, <1>5, ConcatFacts
    <2> QED
      BY <1>4, <2>1
  <1>7. DOMAIN results' = 1 .. low + Len(slots[n])
    BY <1>6, LenProperties
  <1>8. HeldInv'
    <2>1. ASSUME NEW m \in Nodes \ freed', NEW i \in DOMAIN results, results[i] = Lazy(m)
          PROVE  i \in DOMAIN results' /\ results'[i] = Lazy(m)
      <3>1. i \in 1 .. low
        BY <1>1, <1>2, <1>3, <2>1, PointerFacts
      <3>2. low \in Nat /\ Len(slots[n]) \in Nat
        BY <1>3, <1>5
      <3>3. i \in 1 .. low + Len(slots[n])
        BY <3>1, <3>2
      <3> QED
        BY <1>6, <1>7, <2>1, <3>1, <3>3
    <2>2. ASSUME NEW m \in Nodes, NEW k \in DOMAIN slots[n], slots[n][k] = Lazy(m)
          PROVE  low + k \in DOMAIN results' /\ results'[low + k] = Lazy(m)
      <3>1. /\ low + k \in 1 .. low + Len(slots[n]) /\ low + k > low /\ (low + k) - low = k
        BY <1>3, <1>5
      <3> QED
        BY <1>6, <1>7, <2>2, <3>1
    <2>3. HeldInv
      BY DEF HInv
    <2>4. \A m \in Nodes \ freed' : \A l \in Nodes \ freed : \A k \in DOMAIN slots[l] :
            slots[l][k] = Lazy(m) =>
              \/ \E j \in DOMAIN results' : results'[j] = Lazy(m)
              \/ l \notin freed' /\ k \in DOMAIN slots'[l] /\ slots'[l][k] = Lazy(m)
      BY <1>1, <2>2
    <2> QED
      BY <1>1, <2>1, <2>3, <2>4, HeldStays
  <1>9. TakenInv'
    <2>1. n \in Built
      BY <1>2, <1>3 DEF HInv, TakenInv
    <2>2. ASSUME NEW m \in Nodes, NEW i \in DOMAIN results', results'[i] = Lazy(m)
          PROVE  m \in Built
      <3>1. CASE i \in 1 .. low
        BY <1>3, <1>6, <2>2, <3>1 DEF HInv, TakenInv
      <3>2. CASE i \notin 1 .. low
        <4>1. i > low /\ i \in 1 .. low + Len(slots[n]) /\ i - low \in DOMAIN slots[n]
          BY <1>3, <1>5, <1>7, <3>2
        <4>2. slots[n][i - low] = Lazy(m)
          BY <1>6, <2>2, <4>1
        <4> QED
          BY <4>1, <4>2, KidIsBuilt DEF HInv
      <3> QED
        BY <3>1, <3>2
    <2>3. Fewer(slots', slots)
      BY <1>1 DEF Fewer
    <2>4. freed' \subseteq Built
      BY <1>1, <2>1 DEF HInv, TakenInv
    <2> QED
      BY <1>1, <2>2, <2>3, <2>4, TakenFewer DEF HInv
  <1>10. VisitedInv'
    <2> SUFFICES ASSUME rc = "running", NEW i \in DOMAIN words, NEW m \in Nodes,
                        results'[i] = Lazy(m)
                 PROVE  /\ \A k \in DOMAIN slots[m] : k <= words[i] => slots[m][k] \notin Lazies
                        /\ words[i] >= 1
      BY <1>1 DEF VisitedInv
    <2>1. i \in 1 .. low
      <3>1. i \in 1 .. base
        BY <1>2, WordsBelow
      <3> QED
        BY <1>3, <3>1
    <2>2. results[i] = Lazy(m)
      BY <1>6, <2>1
    <2> QED
      BY <1>1, <2>2 DEF HInv, VisitedInv
  <1>11. EndInv'
    BY <1>1 DEF EndInv
  <1> QED
    BY <1>8, <1>9, <1>10, <1>11 DEF HInv

\* After a failure of the allocator, what is on the stacks was built by the parse.
LEMMA LostHeld ==
  ASSUME LInv, HInv, oom' = TRUE, rc' # "running", TakenInv'
  PROVE  HInv'
  BY DEF HInv, HeldInv, VisitedInv, EndInv

LEMMA FreeFailsHeld ==
  ASSUME LInv, HInv, NEW n \in Nodes, FreeFails(n)
  PROVE  HInv'
  <1>1. /\ pc = "free" /\ Len(results) > base /\ Top = Lazy(n)
        /\ results' = SubSeq(results, 1, base) /\ freed' \in {freed, freed \cup {n}}
        /\ oom' = TRUE /\ rc' # "running" /\ UNCHANGED <<forest, slots>>
    BY DEF FreeFails
  <1>2. /\ results \in Seq(Pointers) /\ Len(results) \in Nat \ {0} /\ base \in Nat
        /\ base \in 0 .. Len(results) - 1 /\ results[Len(results)] = Lazy(n)
    BY <1>1, FreeFacts
  <1>3. DOMAIN results' = 1 .. base /\ \A i \in 1 .. base : results'[i] = results[i]
    <2>1. base \in 0 .. Len(results)
      BY <1>2
    <2>2. /\ results' \in Seq(Pointers) /\ Len(results') = base
          /\ \A i \in 1 .. base : results'[i] = results[i]
      BY <1>1, <1>2, <2>1, PrefixFacts
    <2> QED
      BY <2>2, LenProperties
  <1>4. /\ DOMAIN results = 1 .. Len(results) /\ Len(results) \in 1 .. Len(results)
        /\ 1 .. base \subseteq 1 .. Len(results)
    BY <1>2, LenProperties
  <1>5. TakenInv'
    <2>1. freed' \subseteq Built
      BY <1>1, <1>2, <1>4 DEF HInv, TakenInv
    <2>2. \A m \in Nodes : \A i \in DOMAIN results' : results'[i] = Lazy(m) => m \in Built
      BY <1>3, <1>4 DEF HInv, TakenInv
    <2>3. Fewer(slots', slots)
      BY <1>1 DEF Fewer
    <2> QED
      BY <1>1, <2>1, <2>2, <2>3, TakenFewer DEF HInv
  <1> QED
    BY <1>1, <1>5, LostHeld

\* remove_patched_values forgets no lazy: it clears what the words count, and those
\* children have been taken.
LEMMA UnpatchedHeld ==
  ASSUME LInv, HInv, pc = "free", rc = "running", Len(results) = base,
         NEW n \in Nodes, NEW k \in DOMAIN slots[n], slots[n][k] \in Lazies
  PROVE  k \in DOMAIN Unpatched(n) /\ Unpatched(n)[k] = slots[n][k]
  <1>1. CASE \E i \in DOMAIN results : results[i] = Lazy(n)
    <2> DEFINE i == CHOOSE i \in DOMAIN results : results[i] = Lazy(n)
    <2>1. /\ i \in DOMAIN results /\ results[i] = Lazy(n)
          /\ Unpatched(n) = [h \in DOMAIN slots[n] |->
               IF forest.type[n] = "APPLY" \/ h <= WordOf(i) - 1 THEN Null ELSE slots[n][h]]
      BY <1>1 DEF Unpatched
    <2> HIDE DEF i
    <2>2. i \in 1 .. base /\ i \in DOMAIN words /\ words[i] \in Nat
      <3>1. Level = base
        BY DEF Level
      <3> QED
        BY <2>1, <3>1, WordsBelow, ElementOfSeq
    <2>3. WordOf(i) = words[i]
      BY <2>2, WordFacts
    <2>4. k \in Nat \ {0} /\ ~(k <= words[i]) /\ words[i] >= 1
      BY <2>1, <2>2, WordsBelow DEF HInv, VisitedInv
    <2>5. forest.type[n] # "APPLY"
      <3>1. forest.type[n] = "APPLY" => Len(slots[n]) = 1
        BY LazyAssumption DEF LInv, TypeOK
      <3>2. DOMAIN slots[n] = 1 .. Len(slots[n])
        BY LenProperties DEF LInv, TypeOK
      <3> QED
        BY <2>2, <2>4, <3>1, <3>2
    <2>6. ~(k <= WordOf(i) - 1)
      BY <2>2, <2>3, <2>4
    <2> QED
      BY <2>1, <2>5, <2>6
  <1>2. CASE ~ \E i \in DOMAIN results : results[i] = Lazy(n)
    BY <1>2 DEF Unpatched
  <1> QED
    BY <1>1, <1>2

LEMMA FreeEndHeld == ASSUME LInv, HInv, FreeEnd PROVE HInv'
  <1>1. /\ pc = "free" /\ Len(results) = base
        /\ UNCHANGED <<forest, results, words, freed, oom>>
    BY DEF FreeEnd
  <1>2. CASE rc = "running" /\ err = "callback"
    <2>1. slots' = [n \in Nodes |-> Unpatched(n)] /\ pc' = "cleanup" /\ rc' = "ok"
      BY <1>2 DEF FreeEnd
    <2>2. \A n \in Nodes : \A k \in DOMAIN slots[n] : slots[n][k] \in Lazies =>
            k \in DOMAIN slots'[n] /\ slots'[n][k] = slots[n][k]
      BY <1>1, <1>2, <2>1, UnpatchedHeld
    <2>3. HeldInv'
      <3>1. \A n \in Nodes : \A m \in Nodes : \A k \in DOMAIN slots[m] :
              slots[m][k] = Lazy(n) => k \in DOMAIN slots'[m] /\ slots'[m][k] = Lazy(n)
        BY <2>2, PointerFacts
      <3>2. HeldInv
        BY DEF HInv
      <3> QED
        BY <1>1, <3>1, <3>2, HeldStays
    <2>4. TakenInv'
      <3>1. Fewer(slots', slots)
        BY <1>1, <1>2, <2>1, UnpatchedFacts DEF Fewer
      <3> QED
        BY <1>1, <3>1, TakenFewer DEF HInv, TakenInv
    <2> QED
      BY <2>1, <2>3, <2>4 DEF HInv, VisitedInv, EndInv
  <1>3. CASE ~(rc = "running" /\ err = "callback")
    <2>1. UNCHANGED <<slots, rc>> /\ pc' \in {"turn", "cleanup"}
      BY <1>3 DEF FreeEnd
    <2> QED
      BY <1>1, <2>1, SameHeld
  <1> QED
    BY <1>2, <1>3
\* The child that is evaluated next goes from its slot to the result stack, and the word
\* of its parent counts it.
LEMMA DescendHeld ==
  ASSUME LInv, HInv, NEW n \in Nodes, At(n, {"FOLD", "APPLY"}),
         NEW before \in [Nodes -> Seq(Pointers)], NEW next \in DOMAIN slots[n],
         \A m \in Nodes : Len(before[m]) = Len(slots[m]),
         \A m \in Nodes \ {n} : before[m] = slots[m],
         \A k \in DOMAIN slots[n] :
           before[n][k] = IF k = Final(words) THEN out ELSE slots[n][k],
         next = Final(words) + 1,
         Descend(before[n][next], next, before, [before EXCEPT ![n][next] = Null])
  PROVE  HInv'
  <1> DEFINE child == before[n][next]
             after == [before EXCEPT ![n][next] = Null]
             back == Append(Pop(words), next)
             height == Len(results)
  <1>1. /\ results \in Seq(Pointers) /\ height \in Nat \ {0} /\ results[height] = Lazy(n)
        /\ DOMAIN results = 1 .. height /\ rc = "running" /\ pc = "turn"
        /\ Len(words) = height /\ DOMAIN words = 1 .. height /\ words \in Seq(Nat)
        /\ Final(words) = words[height] /\ Final(words) \in Nat /\ next \in Nat \ {0}
        /\ height = Len(results) /\ height \in 1 .. height
    <2>1. /\ results \in Seq(Pointers) /\ results # <<>> /\ Top = Lazy(n) /\ rc = "running"
          /\ Len(words) = height /\ words \in Seq(Nat) /\ Final(words) \in Nat /\ pc = "turn"
      BY TopFacts DEF At
    <2> QED
      BY <2>1, EmptySeq, LenProperties DEF Top, Final
  <1> HIDE DEF height
  <1>2. child = slots[n][next] /\ child \in Pointers
    <2>1. child = slots[n][next]
      BY <1>1
    <2> QED
      BY <2>1, ElementOfSeq, LenProperties DEF LInv, TypeOK
  <1>3. /\ back \in Seq(Nat) /\ Len(back) = height /\ back[height] = next
        /\ \A i \in 1 .. height - 1 : back[i] = words[i]
    <2>1. words # <<>>
      BY <1>1, EmptySeq
    <2>2. /\ Pop(words) \in Seq(Nat) /\ Len(Pop(words)) = height - 1
          /\ \A i \in 1 .. height - 1 : Pop(words)[i] = words[i]
      BY <1>1, <2>1, PopFacts
    <2>3. /\ back \in Seq(Nat) /\ Len(back) = Len(Pop(words)) + 1
          /\ \A i \in 1 .. Len(Pop(words)) : back[i] = Pop(words)[i]
          /\ back[Len(Pop(words)) + 1] = next
      <3>1. \A s \in Seq(Nat), x \in Nat :
              /\ Append(s, x) \in Seq(Nat) /\ Len(Append(s, x)) = Len(s) + 1
              /\ \A i \in 1 .. Len(s) : Append(s, x)[i] = s[i]
              /\ Append(s, x)[Len(s) + 1] = x
        BY AppendFacts
      <3> QED
        BY <1>1, <2>2, <3>1
    <2> HIDE DEF back
    <2> QED
      BY <1>1, <2>2, <2>3
  <1>4. out \notin Lazies
    BY PointerFacts DEF LInv, TypeOK
  \* All lazies but the child stay in their slots.
  <1>5. /\ \A m \in Nodes : DOMAIN before[m] = DOMAIN slots[m] /\ DOMAIN after[m] = DOMAIN slots[m]
        /\ \A m \in Nodes \ {n} : after[m] = slots[m] /\ before[m] = slots[m]
        /\ \A k \in DOMAIN slots[n] : after[n][k] =
             IF k = next THEN Null ELSE IF k = Final(words) THEN out ELSE slots[n][k]
    <2>1. \A m \in Nodes : DOMAIN before[m] = DOMAIN slots[m]
      BY LenProperties DEF LInv, TypeOK
    <2> QED
      BY <2>1
  <1>6. \A i \in DOMAIN words : \A m \in Nodes : results[i] = Lazy(m) =>
          /\ \A k \in DOMAIN slots[m] : k <= words[i] => slots[m][k] \notin Lazies
          /\ i < height => words[i] >= 1
    BY <1>1 DEF HInv, VisitedInv
  <1>7. \A k \in DOMAIN slots[n] : k <= Final(words) => slots[n][k] \notin Lazies
    <2>1. height \in DOMAIN words /\ results[height] = Lazy(n) /\ Final(words) = words[height]
      BY <1>1
    <2>2. \A k \in DOMAIN slots[n] : k <= words[height] => slots[n][k] \notin Lazies
      BY <1>6, <2>1
    <2> QED
      BY <2>1, <2>2
  <1>8. \A m \in Nodes : DOMAIN slots[m] \subseteq Nat \ {0}
    BY <1>1, WordsBelow
  <1>9. UNCHANGED <<forest, freed>>
    BY DEF Descend
  <1>10. TakenInv'
    <2>1. ASSUME NEW m \in Nodes, NEW k \in DOMAIN slots[m]
          PROVE  /\ before[m][k] \in Lazies => before[m][k] = slots[m][k]
                 /\ after[m][k] \in Lazies => after[m][k] = slots[m][k]
      <3> HIDE DEF after
      <3>1. CASE m = n
        BY <1>4, <1>5, <3>1, PointerFacts
      <3>2. CASE m # n
        BY <1>5, <3>2
      <3> QED
        BY <3>1, <3>2
    <2>2. Fewer(before, slots) /\ Fewer(after, slots)
      BY <1>5, <2>1 DEF Fewer
    <2>3. slots' \in {before, after} /\ results' \in {results, Append(results, child)}
      BY DEF Descend
    <2> HIDE DEF after, child, back
    <2>4. /\ DOMAIN Append(results, child) = 1 .. height + 1
          /\ \A i \in 1 .. height : Append(results, child)[i] = results[i]
          /\ Append(results, child)[height + 1] = child
      BY <1>1, <1>2, AppendFacts, LenProperties
    <2>5. \A m \in Nodes : child = Lazy(m) => m \in Built
      BY <1>2, KidIsBuilt DEF HInv
    <2>6. ASSUME NEW m \in Nodes, NEW i \in DOMAIN results', results'[i] = Lazy(m)
          PROVE  m \in Built
      <3>1. CASE i \in 1 .. height
        <4>1. results[i] = Lazy(m) /\ i \in DOMAIN results
          BY <1>1, <2>3, <2>4, <2>6, <3>1
        <4> QED
          BY <4>1 DEF HInv, TakenInv
      <3>2. CASE i \notin 1 .. height
        <4>1. results' = Append(results, child) /\ i = height + 1
          BY <1>1, <2>3, <2>4, <3>2
        <4> QED
          BY <2>4, <2>5, <2>6, <4>1
      <3> QED
        BY <3>1, <3>2
    <2>7. Fewer(slots', slots)
      BY <2>3, <2>2
    <2> QED
      BY <1>9, <2>6, <2>7, TakenFewer DEF HInv, TakenInv
  <1>11. CASE /\ results' = Append(results, child)
              /\ words' = IF Recursive(child) THEN Append(back, 0) ELSE back
              /\ slots' = after /\ UNCHANGED <<pc, rc, oom>>
    <2> HIDE DEF child, after, back
    <2>1. /\ Len(results') = height + 1 /\ DOMAIN results' = 1 .. height + 1
          /\ \A i \in 1 .. height : results'[i] = results[i]
          /\ results'[height + 1] = child
      BY <1>1, <1>2, <1>11, AppendFacts, LenProperties
    <2>2. HeldInv'
      <3>1. \A m \in Nodes : \A i \in DOMAIN results : results[i] = Lazy(m) =>
              i \in DOMAIN results' /\ results'[i] = Lazy(m)
        BY <1>1, <2>1
      <3>2. ASSUME NEW m \in Nodes, NEW l \in Nodes \ freed, NEW k \in DOMAIN slots[l],
                   slots[l][k] = Lazy(m)
            PROVE  \/ \E j \in DOMAIN results' : results'[j] = Lazy(m)
                   \/ l \notin freed' /\ k \in DOMAIN slots'[l] /\ slots'[l][k] = Lazy(m)
        <4>1. CASE l = n /\ k = next
          <5>1. child = Lazy(m) /\ height + 1 \in DOMAIN results'
            BY <1>1, <1>2, <2>1, <3>2, <4>1
          <5> QED
            BY <2>1, <5>1
        <4>2. CASE ~(l = n /\ k = next)
          <5>1. ~(l = n /\ k = Final(words))
            BY <1>1, <1>7, <3>2, PointerFacts
          <5> QED
            BY <1>5, <1>9, <1>11, <3>2, <4>2, <5>1
        <4> QED
          BY <4>1, <4>2
      <3>3. HeldInv
        BY DEF HInv
      <3> QED
        BY <1>9, <1>11, <3>1, <3>2, <3>3, HeldStays
    <2>3. /\ DOMAIN words' \subseteq 1 .. height + 1
          /\ \A i \in 1 .. height : words'[i] = back[i]
          /\ height + 1 \in DOMAIN words' => words'[height + 1] = 0
      <3>1. /\ words' \in Seq(Nat) /\ Len(words') \in {height, height + 1}
            /\ \A i \in 1 .. height : words'[i] = back[i]
            /\ Len(words') = height + 1 => words'[height + 1] = 0
        <4>1. CASE Recursive(child)
          <5>1. /\ Append(back, 0) \in Seq(Nat) /\ Len(Append(back, 0)) = height + 1
                /\ \A i \in 1 .. height : Append(back, 0)[i] = back[i]
                /\ Append(back, 0)[height + 1] = 0
            BY <1>1, <1>3, AppendFacts
          <5> QED
            BY <1>11, <4>1, <5>1
        <4>2. CASE ~Recursive(child)
          BY <1>1, <1>3, <1>11, <4>2
        <4> QED
          BY <4>1, <4>2
      <3>2. DOMAIN words' = 1 .. Len(words')
        BY <3>1, LenProperties
      <3>3. height + 1 \notin 1 .. height /\ 1 .. height \subseteq 1 .. height + 1
        BY <1>1
      <3>4. CASE Len(words') = height
        BY <3>3, <3>1, <3>2, <3>4
      <3>5. CASE Len(words') = height + 1
        BY <1>1, <3>1, <3>2, <3>5
      <3> QED
        BY <3>1, <3>4, <3>5
    <2>4. VisitedInv'
      <3> SUFFICES ASSUME NEW i \in DOMAIN words', NEW m \in Nodes, results'[i] = Lazy(m)
                   PROVE  /\ \A k \in DOMAIN slots'[m] :
                               k <= words'[i] => slots'[m][k] \notin Lazies
                          /\ i < height + 1 => words'[i] >= 1
        BY <1>1, <1>11, <2>1 DEF VisitedInv
      <3>1. CASE i \in 1 .. height - 1
        <4>1. i \in 1 .. height /\ i < height
          BY <1>1, <3>1
        <4>2. words'[i] = words[i] /\ results[i] = Lazy(m) /\ words[i] >= 1
          BY <1>1, <1>3, <1>6, <2>1, <2>3, <3>1, <4>1
        <4>3. \A k \in DOMAIN slots[m] : k <= words[i] => slots[m][k] \notin Lazies
          BY <1>1, <1>6, <4>1, <4>2
        <4>4. \A k \in DOMAIN slots[m] : slots'[m][k] \in Lazies => slots'[m][k] = slots[m][k]
          BY <1>4, <1>5, <1>11, PointerFacts
        <4> QED
          BY <1>5, <1>11, <4>2, <4>3, <4>4
      <3>2. CASE i = height
        <4>1. m = n /\ words'[i] = next /\ next >= 1
          BY <1>1, <1>3, <2>1, <2>3, <3>2, PointerFacts
        <4>2. \A k \in DOMAIN slots[n] : k <= next => k = next \/ k <= Final(words)
          BY <1>1, <1>8
        <4>3. \A k \in DOMAIN slots[n] : k <= next => slots'[n][k] \notin Lazies
          BY <1>4, <1>5, <1>7, <1>11, <4>2, PointerFacts
        <4> QED
          BY <1>5, <1>11, <4>1, <4>3
      <3>3. CASE i = height + 1
        <4>1. words'[i] = 0 /\ ~(i < height + 1)
          BY <1>1, <2>3, <3>3
        <4>2. \A k \in DOMAIN slots'[m] : ~(k <= 0)
          BY <1>5, <1>8, <1>11
        <4> QED
          BY <4>1, <4>2
      <3> QED
        BY <1>1, <2>3, <3>1, <3>2, <3>3
    <2>5. EndInv'
      BY <1>1, <1>11 DEF EndInv
    <2> QED
      BY <1>10, <2>2, <2>4, <2>5 DEF HInv
  <1>12. CASE OutOfMemory
    BY <1>10, <1>12, LostHeld DEF OutOfMemory
  <1> QED
    BY <1>11, <1>12 DEF Descend

LEMMA NextChildHeld ==
  ASSUME LInv, HInv, NEW n \in Nodes, FoldNext(n) \/ ApplyNext(n)
  PROVE  HInv'
  <1>1. At(n, {"FOLD", "APPLY"})
    BY DEF FoldNext, ApplyNext, At
  <1>2. /\ Final(words) \in 0 .. Len(slots[n]) /\ slots[n] \in Seq(Pointers)
        /\ Len(slots[n]) \in Nat /\ DOMAIN slots[n] = 1 .. Len(slots[n])
        /\ forest.type[n] = "APPLY" => Len(slots[n]) = 1
    BY <1>1, TopFacts, LenProperties
  <1>3. CASE FoldNext(n)
    <2> DEFINE next == Final(words) + 1
    <2>1. Final(words) < Len(slots[n])
      BY <1>3 DEF FoldNext
    <2>2. next \in DOMAIN slots[n] /\ next = Final(words) + 1
      BY <1>2, <2>1
    <2>3. Descend(Patched(n)[n][next], next, Patched(n), [Patched(n) EXCEPT ![n][next] = Null])
      BY <1>3 DEF FoldNext
    <2> HIDE DEF next
    <2> QED
      BY <1>1, <2>2, <2>3, PatchFacts, DescendHeld
  <1>4. CASE ApplyNext(n)
    <2>1. Final(words) = 0 /\ forest.type[n] = "APPLY"
      BY <1>4 DEF ApplyNext, At
    <2>2. 1 \in DOMAIN slots[n] /\ 1 = Final(words) + 1
      BY <1>2, <2>1
    <2>3. Descend(slots[n][1], 1, slots, [slots EXCEPT ![n][1] = Null])
      BY <1>4 DEF ApplyNext
    <2>4. slots \in [Nodes -> Seq(Pointers)]
      BY DEF LInv, TypeOK
    <2>5. \A k \in DOMAIN slots[n] :
            slots[n][k] = IF k = Final(words) THEN out ELSE slots[n][k]
      BY <1>2, <2>1
    <2> QED
      BY <1>1, <2>2, <2>3, <2>4, <2>5, DescendHeld
  <1> QED
    BY <1>3, <1>4
-----------------------------------------------------------------------------
LEMMA HInvInductive == LInv /\ HInv /\ [Next]_vars => HInv'
  <1> SUFFICES ASSUME LInv, HInv, [Next]_vars PROVE HInv'
    OBVIOUS
  <1>1. CASE Start
    BY <1>1, StartHeld
  <1>2. CASE Turn
    BY <1>2, EvalNullHeld, EvalEndHeld, LeavesHeld, NextChildHeld, CallHeld DEF Turn
  <1>3. CASE Free
    BY <1>3, FreeNullHeld, FreeUndefinedHeld, FreeEndHeld, FreeLazyHeld, FreeFailsHeld DEF Free
  <1>4. CASE Cleanup \/ Answer
    BY <1>4, CleanupHeld, AnswerHeld
  <1>5. CASE Ended \/ UNCHANGED vars
    BY <1>5, StutterHeld DEF Ended
  <1> QED
    BY <1>1, <1>2, <1>3, <1>4, <1>5 DEF Next

\* Whatever the parse has built stays in reach of the result stack until it is freed,
\* at every step of lazy_eval, lazy_free and the cleanup (cc_eval.c:469-594, 911-916,
\* cc_lazy.c:107-183).
THEOREM HeldInvariance == Spec => []HInv
  <1>1. Init => HInv
    BY InitHeld
  <1> QED
    BY <1>1, HInvInductive, LazyInvariance, PTL DEF Spec

\* When the stack is empty nothing is left: among the lazies that were not freed, the one
\* nearest to a root would need a holder nearer still.
LEMMA NothingLeft ==
  ASSUME LInv, HeldInv, TakenInv, ~oom, results = <<>>
  PROVE  freed = Built
  <1>1. freed \subseteq Built /\ Built \subseteq Nodes
    BY DEF TakenInv, Built
  <1>2. PICK depth \in [Nodes -> 1 .. Cardinality(Nodes)] :
          \A m, n \in Nodes : \A i \in DOMAIN forest.kids[m] :
            forest.kids[m][i] = Lazy(n) => depth[m] < depth[n]
    BY DepthAssumption DEF LInv
  <1>3. \A n \in Nodes : depth[n] \in Nat
    <2>1. Cardinality(Nodes) \in Nat
      BY DepthAssumption, FS_CardinalityType
    <2> QED
      BY <2>1
  <1>4. \A n \in Built \ freed : \E m \in Built \ freed : depth[m] < depth[n]
    <2> SUFFICES ASSUME NEW n \in Built \ freed PROVE \E m \in Built \ freed : depth[m] < depth[n]
      OBVIOUS
    <2>1. Referred(n, results, slots, freed)
      BY DEF HeldInv
    <2>2. PICK m \in Built \ freed : \E k \in DOMAIN slots[m] : slots[m][k] = Lazy(n)
      BY <2>1 DEF Referred
    <2>3. PICK k \in DOMAIN slots[m] : slots[m][k] = Lazy(n)
      BY <2>2
    <2>4. forest.kids[m][k] = Lazy(n) /\ k \in DOMAIN forest.kids[m]
      <3>1. DOMAIN slots[m] = DOMAIN forest.kids[m]
        BY <1>1, ForestFacts, LenProperties DEF LInv, TypeOK
      <3> QED
        BY <1>1, <2>3, <3>1 DEF TakenInv
    <2> QED
      BY <1>1, <1>2, <2>4
  <1>5. CASE Built \ freed # {}
    <2> DEFINE depths == {depth[n] : n \in Built \ freed}
    <2>1. depths \subseteq Nat /\ depths # {}
      BY <1>1, <1>3, <1>5
    <2>2. PICK d \in depths : \A e \in depths : d <= e
      BY <2>1, LeastNat
    <2>3. PICK n \in Built \ freed : d = depth[n]
      BY <2>2
    <2>4. PICK m \in Built \ freed : depth[m] < depth[n]
      BY <1>4
    <2>5. depth[m] \in depths /\ depth[m] \in Nat /\ depth[n] \in Nat
      BY <1>1, <1>3
    <2> HIDE DEF depths
    <2>6. d <= depth[m]
      BY <2>2, <2>5
    <2> QED
      BY <2>3, <2>4, <2>5, <2>6
  <1> QED
    BY <1>1, <1>5

\* Unless an allocation fails, all the lazies of the parse have been freed when cc_parse
\* returns, for every forest of lazies and whichever callback fails: those below the
\* failed one and those never reached included (cc_eval.c:911-916).
THEOREM AllLaziesFreed == Spec => []EveryLazyFreed
  <1>1. LInv /\ HInv => EveryLazyFreed
    BY NothingLeft DEF HInv, EndInv, EveryLazyFreed
  <1> QED
    BY <1>1, LazyInvariance, HeldInvariance, PTL
=============================================================================
