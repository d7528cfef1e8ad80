----------------------------- MODULE LazyProofs -----------------------------
(***************************************************************************)
(* Proofs about LazyEval, for every forest of lazies and every capacity of *)
(* the stacks.                                                             *)
(***************************************************************************)
EXTENDS LazyEval, SequenceTheorems, FiniteSetTheorems, TLAPS

\* The lazies on the way down to what is being evaluated, each with its word.
Level ==
  IF pc = "free" THEN base
  ELSE IF results # <<>> /\ ~ Recursive(Top) THEN Len(results) - 1 ELSE Len(results)

\* Where the code stands, and what the report is.
ControlInv ==
  /\ pc = "start" => /\ rc # "running" /\ oom = FALSE /\ freed = {} /\ err = "report"
                     /\ slots = forest.kids /\ results = forest.roots
  /\ pc = "turn" => rc = "running" /\ err = "none"
  /\ pc = "free" => base <= Len(results)
  /\ rc = "running" => pc \in {"turn", "free"} /\ err \in {"none", "callback"}
  /\ pc = "undefined" => oom
  /\ (rc = "errno" /\ pc # "done") => oom \/ err = "report"

\* The data stack says how far each lazy on the way down has come.
PathInv ==
  rc = "running" =>
    /\ Len(words) = Level
    /\ \A i \in 1 .. Level : Recursive(results[i])
    /\ \A i \in 1 .. Level : \A n \in Nodes :
         results[i] = Lazy(n) => words[i] <= Len(slots[n])

\* Until an allocation fails outside of a leaf.
Sound == rc = "running" \/ ~ oom

\* A value stands only in a lazy on the way down, before the child that is
\* being evaluated.
ValuesInv ==
  Sound =>
    \A n \in Nodes \ freed : \A k \in DOMAIN slots[n] :
      slots[n][k] \in Values =>
        /\ rc = "running"
        /\ \E i \in 1 .. Level : results[i] = Lazy(n) /\ k < words[i]

\* A lazy that was not freed is referred to once at most, by the result stack or
\* by another that was not freed; one that was is not referred to.
Owned(stack, values, gone) ==
  /\ \A i \in DOMAIN stack : stack[i] \in {Null} \cup Lazies
  /\ \A n \in Nodes : \A i, j \in DOMAIN stack :
       stack[i] = Lazy(n) /\ stack[j] = Lazy(n) => i = j
  /\ \A n \in Nodes : \A i \in DOMAIN stack :
       stack[i] = Lazy(n) =>
         /\ n \notin gone
         /\ \A m \in Nodes \ gone : \A k \in DOMAIN values[m] : values[m][k] # Lazy(n)
  /\ \A n \in Nodes : \A m \in Nodes \ gone : \A k \in DOMAIN values[m] :
       values[m][k] = Lazy(n) => n \notin gone
  /\ \A n \in Nodes : \A l, m \in Nodes \ gone :
       \A i \in DOMAIN values[l] : \A j \in DOMAIN values[m] :
         values[l][i] = Lazy(n) /\ values[m][j] = Lazy(n) => l = m /\ i = j

OwnInv == Sound => Owned(results, slots, freed)

\* What keeps the cleanup right: the data stack tells which values of the tree are
\* no lazies, and every other pointer belongs to one holder (cc_eval.c:449-467).
TreeInv == PathInv /\ ValuesInv /\ OwnInv

LInv == forest \in Forests /\ TypeOK /\ ControlInv /\ PathInv /\ ValuesInv /\ OwnInv

-----------------------------------------------------------------------------
\* Facts about sequences and pointers.

LEMMA PrefixFacts ==
  ASSUME NEW S, NEW s \in Seq(S), NEW n \in 0 .. Len(s)
  PROVE  /\ SubSeq(s, 1, n) \in Seq(S) /\ Len(SubSeq(s, 1, n)) = n
         /\ \A i \in 1 .. n : SubSeq(s, 1, n)[i] = s[i]
<1>1. Len(s) \in Nat /\ \A i \in 1 .. n : s[i] \in S
  BY LenProperties, ElementOfSeq
<1> QED
  BY <1>1, SubSeqProperties

LEMMA PopFacts ==
  ASSUME NEW S, NEW s \in Seq(S), s # <<>>
  PROVE  /\ Pop(s) \in Seq(S) /\ Len(s) \in Nat \ {0} /\ Len(Pop(s)) = Len(s) - 1
         /\ \A i \in 1 .. Len(s) - 1 : Pop(s)[i] = s[i]
         /\ Final(s) \in S
<1>1. Len(s) \in Nat \ {0}
  BY EmptySeq
<1>2. Len(s) - 1 \in 0 .. Len(s)
  BY <1>1
<1>3. /\ Pop(s) \in Seq(S) /\ Len(Pop(s)) = Len(s) - 1
      /\ \A i \in 1 .. Len(s) - 1 : Pop(s)[i] = s[i]
  BY <1>2, PrefixFacts DEF Pop
<1> QED
  BY <1>1, <1>3, ElementOfSeq DEF Final

LEMMA AppendFacts ==
  ASSUME NEW S, NEW s \in Seq(S), NEW x \in S
  PROVE  /\ Append(s, x) \in Seq(S) /\ Len(Append(s, x)) = Len(s) + 1
         /\ \A i \in 1 .. Len(s) : Append(s, x)[i] = s[i]
         /\ Append(s, x)[Len(s) + 1] = x
         /\ Append(s, x) # <<>>
  OBVIOUS

LEMMA ConcatFacts ==
  ASSUME NEW S, NEW s \in Seq(S), NEW t \in Seq(S)
  PROVE  /\ s \o t \in Seq(S) /\ Len(s \o t) = Len(s) + Len(t)
         /\ \A i \in 1 .. Len(s) : (s \o t)[i] = s[i]
         /\ \A i \in 1 .. Len(s) + Len(t) : i > Len(s) => (s \o t)[i] = t[i - Len(s)]
  OBVIOUS

LEMMA PointerFacts ==
  /\ \A m, n : Lazy(m) = Lazy(n) => m = n
  /\ \A p \in Lazies : p \in Pointers /\ p \notin Values /\ p # Null
  /\ \A p \in Values : p \in Pointers /\ p \notin Lazies /\ p # Null
  /\ Null \in Pointers /\ Null \notin Lazies /\ Null \notin Values
  /\ \A n \in Nodes : Lazy(n) \in Lazies /\ Value(n) \in Values
  /\ \A p \in Lazies : \E n \in Nodes : p = Lazy(n)
<1>1. \A m, n : Lazy(m) = Lazy(n) => m = n
  BY DEF Lazy
<1>2. \A m, n : Lazy(m) # Value(n)
  BY DEF Lazy, Value
<1> QED
  BY <1>1, <1>2, LazyAssumption DEF Lazies, Values, Pointers

LEMMA ForestFacts ==
  ASSUME forest \in Forests
  PROVE  /\ forest.kids \in [Nodes -> Seq(Pointers)] /\ forest.roots \in Seq(Pointers)
         /\ forest \in Forest
         /\ \A i \in DOMAIN forest.roots : forest.roots[i] \in {Null} \cup Lazies
         /\ \A n \in Nodes : \A k \in DOMAIN forest.kids[n] :
              forest.kids[n][k] \in {Null} \cup Lazies
<1>1. forest \in Forest
  BY LazyAssumption
<1>2. forest.roots \in Seq({Null} \cup Lazies) /\ forest.kids \in [Nodes -> Seq({Null} \cup Lazies)]
  BY <1>1 DEF Forest
<1>3. \A s \in Seq({Null} \cup Lazies) : s \in Seq(Pointers)
  BY DEF Pointers
<1> QED
  BY <1>1, <1>2, <1>3

\* What the lazy on top being a fold or an apply says of its word.
LEMMA TopFacts ==
  ASSUME LInv, NEW n \in Nodes, At(n, {"FOLD", "APPLY"})
  PROVE  /\ results \in Seq(Pointers) /\ results # <<>> /\ Top = Lazy(n) /\ Recursive(Top)
         /\ rc = "running" /\ Level = Len(results) /\ Len(words) = Len(results)
         /\ words \in Seq(Nat) /\ words # <<>> /\ Final(words) \in 0 .. Len(slots[n])
         /\ slots[n] \in Seq(Pointers) /\ Len(slots[n]) \in Nat
         /\ forest.type[n] = "APPLY" => Len(slots[n]) = 1
<1>1. results # <<>> /\ Top = Lazy(n) /\ forest.type[n] \in {"FOLD", "APPLY"} /\ pc = "turn"
  BY DEF At
<1>2. Recursive(Top) /\ Level = Len(results) /\ rc = "running"
  BY <1>1 DEF Recursive, Level, LInv, ControlInv
<1>3. results \in Seq(Pointers) /\ words \in Seq(Nat) /\ slots[n] \in Seq(Pointers)
  BY DEF LInv, TypeOK
<1>4. Len(words) = Len(results)
  BY <1>2 DEF LInv, PathInv
<1>5. Len(results) \in Nat \ {0} /\ Top = results[Len(results)]
  BY <1>1, <1>3 DEF Top, Final
<1>6. words # <<>> /\ Final(words) = words[Len(results)] /\ words[Len(results)] \in Nat
  BY <1>3, <1>4, <1>5 DEF Final
<1>7. words[Len(results)] <= Len(slots[n])
  <2>1. Len(results) \in 1 .. Level /\ results[Len(results)] = Lazy(n)
    BY <1>1, <1>2, <1>5
  <2> QED
    BY <1>2, <2>1 DEF LInv, PathInv
<1>8. forest.type[n] = "APPLY" => Len(slots[n]) = 1
  BY LazyAssumption DEF LInv, TypeOK
<1> QED
  BY <1>1, <1>2, <1>3, <1>4, <1>6, <1>7, <1>8

\* Patching keeps the shape of the values.
LEMMA PatchFacts ==
  ASSUME LInv, NEW n \in Nodes, At(n, {"FOLD", "APPLY"})
  PROVE  /\ Patched(n) \in [Nodes -> Seq(Pointers)]
         /\ \A m \in Nodes : Len(Patched(n)[m]) = Len(slots[m])
         /\ \A m \in Nodes \ {n} : Patched(n)[m] = slots[m]
         /\ \A k \in DOMAIN slots[n] :
              Patched(n)[n][k] = IF k = Final(words) THEN out ELSE slots[n][k]
<1>1. out \in Pointers /\ slots \in [Nodes -> Seq(Pointers)]
  BY PointerFacts DEF LInv, TypeOK
<1>2. Final(words) \in Nat
  BY TopFacts
<1>3. CASE Final(words) > 0
  <2>1. Patched(n) = [slots EXCEPT ![n] = [slots[n] EXCEPT ![Final(words)] = out]]
    BY <1>3 DEF Patched
  <2>2. Final(words) \in 1 .. Len(slots[n]) /\ slots[n] \in Seq(Pointers)
    BY <1>3, TopFacts
  <2>3. /\ [slots[n] EXCEPT ![Final(words)] = out] \in Seq(Pointers)
        /\ Len([slots[n] EXCEPT ![Final(words)] = out]) = Len(slots[n])
        /\ \A k \in 1 .. Len(slots[n]) : [slots[n] EXCEPT ![Final(words)] = out][k] =
              IF k = Final(words) THEN out ELSE slots[n][k]
    BY <1>1, <2>2, ExceptSeq
  <2> QED
    BY <1>1, <2>1, <2>2, <2>3
<1>4. CASE Final(words) = 0
  <2>1. Patched(n) = slots
    BY <1>4 DEF Patched
  <2>2. \A k \in DOMAIN slots[n] : k # 0
    BY <1>1
  <2> QED
    BY <1>1, <1>4, <2>1, <2>2
<1> QED
  BY <1>2, <1>3, <1>4

-----------------------------------------------------------------------------
\* Who refers to a lazy, as the stack and the values change.

\* A shorter stack.
LEMMA OwnedPop ==
  ASSUME NEW stack \in Seq(Pointers), NEW values, NEW gone,
         stack # <<>>, Owned(stack, values, gone)
  PROVE  Owned(Pop(stack), values, gone)
<1>1. /\ DOMAIN Pop(stack) \subseteq DOMAIN stack
      /\ \A i \in DOMAIN Pop(stack) : Pop(stack)[i] = stack[i]
  <2>1. DOMAIN stack = 1 .. Len(stack) /\ DOMAIN Pop(stack) = 1 .. Len(Pop(stack))
    BY PopFacts, LenProperties
  <2> QED
    BY <2>1, PopFacts
<1> QED
  BY <1>1 DEF Owned

\* Values in which no lazy is new.
LEMMA OwnedLess ==
  ASSUME NEW stack, NEW values, NEW gone, NEW fewer, Owned(stack, values, gone),
         \A m \in Nodes \ gone : \A k \in DOMAIN fewer[m] :
           fewer[m][k] \in Lazies => k \in DOMAIN values[m] /\ fewer[m][k] = values[m][k]
  PROVE  Owned(stack, fewer, gone)
<1>1. \A n \in Nodes : \A m \in Nodes \ gone : \A k \in DOMAIN fewer[m] :
        fewer[m][k] = Lazy(n) => k \in DOMAIN values[m] /\ values[m][k] = Lazy(n)
  BY PointerFacts
<1> QED
  BY <1>1 DEF Owned

\* A pointer moves from a slot of a lazy to the stack.
LEMMA OwnedDescend ==
  ASSUME NEW stack \in Seq(Pointers), NEW values, NEW gone, NEW m \in Nodes \ gone,
         NEW fewer, NEW k \in DOMAIN values[m], Owned(stack, values, gone),
         values[m][k] \in {Null} \cup Lazies,
         \A l \in Nodes \ gone : \A i \in DOMAIN fewer[l] :
           fewer[l][i] \in Lazies =>
             i \in DOMAIN values[l] /\ fewer[l][i] = values[l][i] /\ ~(l = m /\ i = k)
  PROVE  Owned(Append(stack, values[m][k]), fewer, gone)
<1> DEFINE grown == Append(stack, values[m][k])
<1>1. \A n \in Nodes : \A l \in Nodes \ gone : \A i \in DOMAIN fewer[l] :
        fewer[l][i] = Lazy(n) =>
          i \in DOMAIN values[l] /\ values[l][i] = Lazy(n) /\ ~(l = m /\ i = k)
  BY PointerFacts
<1>2. /\ DOMAIN grown = DOMAIN stack \cup {Len(stack) + 1}
      /\ Len(stack) + 1 \notin DOMAIN stack
      /\ \A i \in DOMAIN stack : grown[i] = stack[i]
      /\ grown[Len(stack) + 1] = values[m][k]
  BY PointerFacts, AppendFacts
<1> HIDE DEF grown
<1>3. \A n \in Nodes : \A i, j \in DOMAIN grown :
        grown[i] = Lazy(n) /\ grown[j] = Lazy(n) => i = j
  BY <1>2 DEF Owned
<1>4. \A n \in Nodes : \A i \in DOMAIN grown :
        grown[i] = Lazy(n) =>
          /\ n \notin gone
          /\ \A l \in Nodes \ gone : \A j \in DOMAIN fewer[l] : fewer[l][j] # Lazy(n)
  BY <1>1, <1>2 DEF Owned
<1>5. \A i \in DOMAIN grown : grown[i] \in {Null} \cup Lazies
  BY <1>2 DEF Owned
<1>6. \A n \in Nodes : \A l \in Nodes \ gone : \A i \in DOMAIN fewer[l] :
        fewer[l][i] = Lazy(n) => n \notin gone
  BY <1>1 DEF Owned
<1>7. \A n \in Nodes : \A l, h \in Nodes \ gone :
        \A i \in DOMAIN fewer[l] : \A j \in DOMAIN fewer[h] :
          fewer[l][i] = Lazy(n) /\ fewer[h][j] = Lazy(n) => l = h /\ i = j
  BY <1>1 DEF Owned
<1>8. Owned(grown, fewer, gone)
  BY <1>3, <1>4, <1>5, <1>6, <1>7 DEF Owned
<1> QED
  BY <1>8 DEF grown

\* The lazy on top is freed and what it refers to takes its place.
LEMMA OwnedFree ==
  ASSUME NEW stack \in Seq(Pointers), NEW values \in [Nodes -> Seq(Pointers)], NEW gone,
         stack # <<>>, NEW n \in Nodes, Final(stack) = Lazy(n), Owned(stack, values, gone),
         \A k \in DOMAIN values[n] : values[n][k] \in {Null} \cup Lazies
  PROVE  Owned(Pop(stack) \o values[n], values, gone \cup {n})
<1> DEFINE next == Pop(stack) \o values[n]
           low == Len(stack) - 1
<1>1. /\ Len(stack) \in Nat \ {0} /\ stack[Len(stack)] = Lazy(n)
      /\ Pop(stack) \in Seq(Pointers) /\ Len(Pop(stack)) = low
      /\ \A i \in 1 .. low : Pop(stack)[i] = stack[i]
  BY PopFacts DEF Final
<1>2. values[n] \in Seq(Pointers) /\ DOMAIN stack = 1 .. Len(stack)
  BY LenProperties
<1>3. /\ DOMAIN next = 1 .. low + Len(values[n])
      /\ \A i \in 1 .. low : next[i] = stack[i]
      /\ \A i \in DOMAIN next : i > low => next[i] = values[n][i - low]
      /\ \A i \in DOMAIN next : i > low => i - low \in DOMAIN values[n]
  <2>1. low \in Nat /\ Len(values[n]) \in Nat /\ DOMAIN values[n] = 1 .. Len(values[n])
    BY <1>1, <1>2, LenProperties
  <2>2. /\ next \in Seq(Pointers) /\ Len(next) = low + Len(values[n])
        /\ \A i \in 1 .. low : next[i] = Pop(stack)[i]
        /\ \A i \in 1 .. low + Len(values[n]) : i > low => next[i] = values[n][i - low]
    <3>1. \A p, v \in Seq(Pointers) :
            /\ p \o v \in Seq(Pointers) /\ Len(p \o v) = Len(p) + Len(v)
            /\ \A i \in 1 .. Len(p) : (p \o v)[i] = p[i]
            /\ \A i \in 1 .. Len(p) + Len(v) : i > Len(p) => (p \o v)[i] = v[i - Len(p)]
      BY ConcatFacts
    <3> HIDE DEF low
    <3> QED
      BY <1>1, <1>2, <3>1
  <2>3. DOMAIN next = 1 .. low + Len(values[n])
    BY <2>2, LenProperties
  <2> HIDE DEF next, low
  <2> QED
    BY <1>1, <2>1, <2>2, <2>3
<1>4. /\ n \notin gone /\ Len(stack) \in DOMAIN stack /\ 1 .. low \subseteq DOMAIN stack
      /\ \A i \in 1 .. low : i # Len(stack) /\ i \in Int
      /\ \A i \in DOMAIN next : i \in Int /\ (i > low \/ i \in 1 .. low)
      /\ \A i, j \in DOMAIN next : i - low = j - low => i = j
  <2>1. low \in Nat /\ Len(values[n]) \in Nat
    BY <1>1, <1>2, LenProperties
  <2>2. n \notin gone
    BY <1>1, <1>2 DEF Owned
  <2> QED
    BY <1>1, <1>2, <1>3, <2>1, <2>2
<1> HIDE DEF next, low
<1>5. \A i \in DOMAIN next : next[i] \in {Null} \cup Lazies
  BY <1>3, <1>4 DEF Owned
<1>6. \A m \in Nodes : \A i, j \in DOMAIN next :
        next[i] = Lazy(m) /\ next[j] = Lazy(m) => i = j
  <2> SUFFICES ASSUME NEW m \in Nodes, NEW i \in DOMAIN next, NEW j \in DOMAIN next,
                      next[i] = Lazy(m), next[j] = Lazy(m)
               PROVE  i = j
    OBVIOUS
  <2>1. CASE i > low /\ j > low
    <3>1. i - low = j - low
      BY <1>3, <1>4, <2>1 DEF Owned
    <3> QED
      BY <1>4, <3>1
  <2>2. CASE i \in 1 .. low /\ j \in 1 .. low
    BY <1>3, <1>4, <2>2 DEF Owned
  <2>3. CASE i > low /\ j \in 1 .. low
    BY <1>3, <1>4, <2>3 DEF Owned
  <2>4. CASE i \in 1 .. low /\ j > low
    BY <1>3, <1>4, <2>4 DEF Owned
  <2> QED
    BY <1>4, <2>1, <2>2, <2>3, <2>4
<1>7. \A m \in Nodes : \A i \in DOMAIN next :
        next[i] = Lazy(m) =>
          /\ m \notin gone \cup {n}
          /\ \A l \in Nodes \ (gone \cup {n}) : \A k \in DOMAIN values[l] :
               values[l][k] # Lazy(m)
  <2> SUFFICES ASSUME NEW m \in Nodes, NEW i \in DOMAIN next, next[i] = Lazy(m)
               PROVE  /\ m \notin gone \cup {n}
                      /\ \A l \in Nodes \ (gone \cup {n}) : \A k \in DOMAIN values[l] :
                           values[l][k] # Lazy(m)
    OBVIOUS
  <2>1. CASE i \in 1 .. low
    <3>1. stack[i] = Lazy(m) /\ i \in DOMAIN stack /\ i # Len(stack)
      BY <1>3, <1>4, <2>1
    <3>2. m # n
      BY <1>1, <1>4, <3>1 DEF Owned
    <3> QED
      BY <3>1, <3>2 DEF Owned
  <2>2. CASE i > low
    <3>1. values[n][i - low] = Lazy(m) /\ i - low \in DOMAIN values[n]
      BY <1>3, <2>2
    <3>2. m # n /\ m \notin gone
      BY <1>1, <1>4, <3>1 DEF Owned
    <3> QED
      BY <1>4, <3>1, <3>2 DEF Owned
  <2> QED
    BY <1>4, <2>1, <2>2
<1>8. \A m \in Nodes : \A l \in Nodes \ (gone \cup {n}) : \A k \in DOMAIN values[l] :
        values[l][k] = Lazy(m) => m \notin gone \cup {n}
  BY <1>1, <1>4 DEF Owned
<1>9. Owned(next, values, gone \cup {n})
  BY <1>5, <1>6, <1>7, <1>8 DEF Owned
<1> QED
  BY <1>9 DEF next

-----------------------------------------------------------------------------
\* One lemma for each kind of step.

LEMMA InitStep == Init => LInv
<1> SUFFICES ASSUME Init PROVE LInv
  OBVIOUS
<1> USE DEF Init
<1>1. forest \in Forests /\ forest \in Forest
  BY LazyAssumption
<1>2. TypeOK
  <2>1. slots \in [Nodes -> Seq(Pointers)] /\ results \in Seq(Pointers)
    BY <1>1, ForestFacts
  <2>2. handed \in Seq([node : Nodes, args : Seq(Pointers)]) /\ words \in Seq(Nat)
    BY EmptySeq
  <2>3. rc \in {"running", "ok", "errno"}
    OBVIOUS
  <2> QED
    BY <1>1, <2>1, <2>2, <2>3 DEF TypeOK
<1>3. ControlInv /\ PathInv
  BY DEF ControlInv, PathInv
<1>4. ValuesInv
  BY <1>1, ForestFacts, PointerFacts DEF ValuesInv
<1>5. OwnInv
  <2>1. \A n \in Nodes :
          /\ \A i, j \in DOMAIN results : results[i] = Lazy(n) /\ results[j] = Lazy(n) => i = j
          /\ \A m \in Nodes : \A i \in DOMAIN results : \A j \in DOMAIN slots[m] :
               results[i] = Lazy(n) => slots[m][j] # Lazy(n)
          /\ \A l, m \in Nodes : \A i \in DOMAIN slots[l] : \A j \in DOMAIN slots[m] :
               slots[l][i] = Lazy(n) /\ slots[m][j] = Lazy(n) => l = m /\ i = j
    BY <1>1, TreesAssumption
  <2>2. \A i \in DOMAIN results : results[i] \in {Null} \cup Lazies
    BY <1>1, ForestFacts
  <2>3. Owned(results, slots, freed)
    BY <2>1, <2>2 DEF Owned
  <2> QED
    BY <2>3 DEF OwnInv
<1> QED
  BY <1>1, <1>2, <1>3, <1>4, <1>5 DEF LInv

\* The invariant speaks of its variables only.
LEMMA StutterStep == ASSUME LInv, UNCHANGED vars PROVE LInv'
  BY DEF LInv, vars, TypeOK, ControlInv, PathInv, ValuesInv, OwnInv, Owned, Sound, Level,
         Recursive, Top, Final

LEMMA StartStep == ASSUME LInv, Start PROVE LInv'
<1> USE DEF Start
<1>1. forest' \in Forests /\ forest \in Forests /\ forest' = forest
  BY DEF LInv
<1>2. /\ rc # "running" /\ oom = FALSE /\ freed = {} /\ err = "report"
      /\ slots = forest.kids /\ results = forest.roots
  BY DEF LInv, ControlInv
<1>3. TypeOK'
  <2>1. words' \in Seq(Nat)
    <3>1. words' \in {<<0>>, <<>>, words}
      OBVIOUS
    <3> HIDE DEF Start
    <3>2. <<0>> \in Seq(Nat) /\ <<>> \in Seq(Nat) /\ words \in Seq(Nat)
      BY EmptySeq DEF LInv, TypeOK
    <3> QED
      BY <3>1, <3>2
  <2>2. /\ err' \in {"report", "none", "callback", "freed"}
        /\ pc' \in {"start", "turn", "free", "cleanup", "return", "done", "undefined"}
        /\ rc' \in {"running", "ok", "errno"}
    BY DEF LInv, TypeOK
  <2>3. UNCHANGED <<forest, slots, results, out, base, freed, handed, oom>>
    OBVIOUS
  <2> HIDE DEF Start
  <2> QED
    BY <2>1, <2>2, <2>3 DEF LInv, TypeOK
<1>4. ControlInv'
  BY <1>2 DEF LInv, ControlInv
<1>5. Owned(results, slots, freed) /\ Sound
  BY <1>2 DEF LInv, OwnInv, Sound
<1>6. OwnInv'
  BY <1>5 DEF OwnInv, Owned
<1>7. ValuesInv'
  BY <1>1, <1>2, ForestFacts, PointerFacts DEF ValuesInv
<1>8. PathInv'
  <2>1. CASE forest.verdict = "value"
    <3>1. Len(results) = 1 /\ results \in Seq(Pointers)
      BY <1>1, <1>2, <2>1, LazyAssumption DEF LInv, TypeOK
    <3>2. results # <<>> /\ Top = results[1]
      <4> HIDE DEF Start
      <4>1. results # <<>>
        BY <3>1, EmptySeq
      <4> QED
        BY <3>1, <4>1 DEF Top, Final
    <3>3. pc' = "turn" /\ rc' = "running" /\ results' = results /\ slots' = slots
      BY <2>1
    <3>4. /\ Level' = IF Recursive(Top) THEN 1 ELSE 0
          /\ words' = IF Recursive(Top) THEN <<0>> ELSE <<>>
      BY <2>1, <3>1, <3>2, <3>3 DEF Level, Recursive, Top, Final
    <3>5. Len(words') = Level'
      BY <3>4
    <3>6. \A i \in 1 .. Level' : Recursive(results[i])' /\ words'[i] = 0
      BY <3>2, <3>3, <3>4 DEF Recursive
    <3>7. \A n \in Nodes : Len(slots'[n]) \in Nat
      BY <1>3 DEF TypeOK
    <3> QED
      BY <3>3, <3>5, <3>6, <3>7 DEF PathInv
  <2>2. CASE forest.verdict # "value"
    BY <1>2, <2>2 DEF PathInv
  <2> QED
    BY <2>1, <2>2
<1> QED
  BY <1>1, <1>3, <1>4, <1>6, <1>7, <1>8 DEF LInv

\* A lazy that is no fold and no apply has its value.
LEMMA LeafStep ==
  ASSUME LInv, NEW n \in Nodes, At(n, LazyTypes \ {"FOLD", "APPLY"}), Done(n, <<>>),
         UNCHANGED <<forest, slots, results, words, rc, freed>>,
         out' \in {Null} \cup Values, err' \in {"none", "callback"},
         oom' \in BOOLEAN
  PROVE  LInv'
<1>1. /\ pc = "turn" /\ results # <<>> /\ Top = Lazy(n) /\ rc = "running" /\ rc' = "running"
      /\ ~ Recursive(Top) /\ pc' = "free" /\ base' = Len(results) - 1
  BY PointerFacts DEF At, Done, LInv, ControlInv, Recursive
<1>2. Len(results) \in Nat \ {0} /\ results \in Seq(Pointers)
  BY <1>1, EmptySeq, LenProperties DEF LInv, TypeOK
<1>3. TypeOK'
  <2>1. handed' \in Seq([node : Nodes, args : Seq(Pointers)])
    BY DEF Done, LInv, TypeOK
  <2> QED
    BY <1>1, <1>2, <2>1 DEF LInv, TypeOK
<1>4. ControlInv'
  BY <1>1, <1>2 DEF LInv, ControlInv
<1>5. Level = Len(results) - 1 /\ Level' = Level
  BY <1>1 DEF Level
<1>6. PathInv'
  BY <1>1, <1>5 DEF LInv, PathInv, Recursive
<1>7. ValuesInv'
  BY <1>1, <1>5 DEF LInv, ValuesInv, Sound
<1>8. OwnInv'
  BY <1>1 DEF LInv, OwnInv, Owned, Sound
<1> QED
  BY <1>3, <1>4, <1>6, <1>7, <1>8 DEF LInv

\* A callback ran: its fold or apply has no word and no value any more.
LEMMA CallStep ==
  ASSUME LInv, NEW n \in Nodes, At(n, {"FOLD", "APPLY"}),
         NEW args \in Seq(Pointers), Return(n, args), words' = Pop(words),
         slots' \in [Nodes -> Seq(Pointers)],
         \A m \in Nodes : Len(slots'[m]) = Len(slots[m]),
         \A m \in Nodes \ {n} : slots'[m] = slots[m],
         \A k \in DOMAIN slots'[n] :
           /\ slots'[n][k] \notin Values
           /\ slots'[n][k] \in Lazies => slots'[n][k] = slots[n][k]
  PROVE  LInv'
<1>1. /\ results \in Seq(Pointers) /\ results # <<>> /\ Top = Lazy(n) /\ Recursive(Top)
      /\ rc = "running" /\ Level = Len(results) /\ Len(words) = Len(results)
      /\ words \in Seq(Nat) /\ words # <<>> /\ pc = "turn"
  BY TopFacts DEF At
<1>2. /\ pc' = "free" /\ base' = Len(results) - 1 /\ rc' = rc /\ results' = results
      /\ freed' = freed /\ forest' = forest /\ oom' = oom
      /\ out' \in {Null} \cup Values /\ err' \in {err, "callback"}
      /\ handed' = Append(handed, [node |-> n, args |-> args])
  BY PointerFacts DEF Return, Done
<1>3. Len(results) \in Nat \ {0} /\ results[Len(results)] = Lazy(n)
  BY <1>1, EmptySeq, LenProperties DEF Top, Final
<1>4. /\ words' \in Seq(Nat) /\ Len(words') = Len(words) - 1
      /\ \A i \in 1 .. Len(words) - 1 : words'[i] = words[i]
  BY <1>1, PopFacts
<1>5. Level' = Len(results) - 1
  BY <1>2 DEF Level
<1>6. TypeOK'
  <2>1. handed' \in Seq([node : Nodes, args : Seq(Pointers)])
    BY <1>2 DEF LInv, TypeOK
  <2>2. base' \in Nat
    BY <1>2, <1>3
  <2> QED
    BY <1>2, <1>4, <2>1, <2>2 DEF LInv, TypeOK
<1>7. ControlInv'
  BY <1>1, <1>2, <1>3 DEF LInv, ControlInv
<1>8. PathInv'
  <2>1. \A i \in 1 .. Len(results) - 1 :
          /\ Recursive(results[i])
          /\ \A m \in Nodes : results[i] = Lazy(m) => words[i] <= Len(slots[m])
    BY <1>1, <1>3 DEF LInv, PathInv
  <2>2. \A i \in 1 .. Level' : Recursive(results[i])'
    BY <1>2, <1>5, <2>1 DEF Recursive
  <2>3. \A i \in 1 .. Level' : \A m \in Nodes :
          results'[i] = Lazy(m) => words'[i] <= Len(slots'[m])
    BY <1>1, <1>2, <1>4, <1>5, <2>1
  <2> QED
    BY <1>1, <1>4, <1>5, <2>2, <2>3 DEF PathInv
<1>9. ValuesInv'
  <2> SUFFICES ASSUME NEW m \in Nodes \ freed, NEW k \in DOMAIN slots'[m],
                      slots'[m][k] \in Values
               PROVE  \E i \in 1 .. Level' : results'[i] = Lazy(m) /\ k < words'[i]
    BY <1>1, <1>2 DEF ValuesInv
  <2>1. m # n /\ slots'[m] = slots[m]
    OBVIOUS
  <2>2. PICK i \in 1 .. Level : results[i] = Lazy(m) /\ k < words[i]
    BY <1>1, <2>1 DEF LInv, ValuesInv, Sound
  <2>3. i # Len(results)
    BY <1>3, <2>1, <2>2, PointerFacts
  <2>4. i \in 1 .. Len(results) - 1
    BY <1>1, <1>3, <2>2, <2>3
  <2> QED
    BY <1>1, <1>2, <1>4, <1>5, <2>2, <2>4
<1>10. OwnInv'
  <2>1. Owned(results, slots, freed)
    BY <1>1 DEF LInv, OwnInv, Sound
  <2>2. \A m \in Nodes \ freed : \A k \in DOMAIN slots'[m] :
          slots'[m][k] \in Lazies => k \in DOMAIN slots[m] /\ slots'[m][k] = slots[m][k]
    <3>1. \A m \in Nodes : DOMAIN slots'[m] = DOMAIN slots[m]
      BY LenProperties DEF LInv, TypeOK
    <3> QED
      BY <3>1
  <2>3. Owned(results, slots', freed)
    BY <2>1, <2>2, OwnedLess
  <2> QED
    BY <1>2, <2>3 DEF OwnInv
<1> QED
  BY <1>2, <1>6, <1>7, <1>8, <1>9, <1>10 DEF LInv

\* Going down to a child, or failing to.
LEMMA DescendStep ==
  ASSUME LInv, NEW n \in Nodes, At(n, {"FOLD", "APPLY"}),
         NEW before \in [Nodes -> Seq(Pointers)], NEW next \in DOMAIN slots[n],
         next > Final(words),
         \A m \in Nodes : Len(before[m]) = Len(slots[m]),
         \A m \in Nodes \ {n} : before[m] = slots[m],
         \A k \in DOMAIN slots[n] :
           before[n][k] = IF k = Final(words) THEN out ELSE slots[n][k],
         next = Final(words) + 1,
         Descend(before[n][next], next, before, [before EXCEPT ![n][next] = Null])
  PROVE  LInv'
<1> DEFINE child == before[n][next]
           after == [before EXCEPT ![n][next] = Null]
           back == Append(Pop(words), next)
<1>1. /\ results \in Seq(Pointers) /\ results # <<>> /\ Top = Lazy(n) /\ Recursive(Top)
      /\ rc = "running" /\ Level = Len(results) /\ Len(words) = Len(results)
      /\ words \in Seq(Nat) /\ words # <<>> /\ pc = "turn" /\ Final(words) \in Nat
      /\ slots[n] \in Seq(Pointers) /\ next \in Nat \ {0}
  BY TopFacts DEF At
<1>2. Len(results) \in Nat \ {0} /\ results[Len(results)] = Lazy(n)
  BY <1>1, EmptySeq, LenProperties DEF Top, Final
<1>3. /\ back \in Seq(Nat) /\ Len(back) = Len(results) /\ back[Len(results)] = next
      /\ \A i \in 1 .. Len(results) - 1 : back[i] = words[i]
  <2>1. /\ Pop(words) \in Seq(Nat) /\ Len(Pop(words)) = Len(results) - 1
        /\ \A i \in 1 .. Len(results) - 1 : Pop(words)[i] = words[i]
    BY <1>1, PopFacts
  <2> QED
    BY <1>1, <1>2, <2>1, AppendFacts
<1>4. n \notin freed /\ Owned(results, slots, freed)
  BY <1>1, <1>2, LenProperties DEF LInv, OwnInv, Sound, Owned
<1>5. child = slots[n][next] /\ child \in Pointers /\ child \notin Values
  <2>1. child = slots[n][next] /\ child \in Pointers
    BY <1>1, ElementOfSeq, LenProperties
  <2>2. SUFFICES ASSUME child \in Values PROVE FALSE
    BY <2>1
  <2>3. PICK i \in 1 .. Level : results[i] = Lazy(n) /\ next < words[i]
    BY <1>1, <1>4, <2>1, <2>2 DEF LInv, ValuesInv, Sound
  <2>4. i = Len(results)
    BY <1>1, <1>2, <1>4, <2>3, LenProperties DEF Owned
  <2> QED
    BY <1>1, <2>3, <2>4 DEF Final
<1>6. child \in {Null} \cup Lazies
  BY <1>5 DEF Pointers
<1>7. /\ after \in [Nodes -> Seq(Pointers)]
      /\ \A m \in Nodes : Len(after[m]) = Len(slots[m])
      /\ \A m \in Nodes \ {n} : after[m] = slots[m]
      /\ \A k \in DOMAIN slots[n] : after[n][k] =
           IF k = next THEN Null ELSE IF k = Final(words) THEN out ELSE slots[n][k]
  <2>1. before[n] \in Seq(Pointers) /\ next \in 1 .. Len(before[n])
    BY <1>1, LenProperties
  <2>2. /\ [before[n] EXCEPT ![next] = Null] \in Seq(Pointers)
        /\ Len([before[n] EXCEPT ![next] = Null]) = Len(before[n])
        /\ \A k \in 1 .. Len(before[n]) : [before[n] EXCEPT ![next] = Null][k] =
             IF k = next THEN Null ELSE before[n][k]
    BY <2>1, PointerFacts, ExceptSeq
  <2>3. after = [before EXCEPT ![n] = [before[n] EXCEPT ![next] = Null]]
    OBVIOUS
  <2>4. DOMAIN slots[n] = 1 .. Len(before[n])
    BY <1>1, LenProperties
  <2> HIDE DEF after
  <2> QED
    BY <2>2, <2>3, <2>4
<1>8. /\ forest' = forest /\ out' = out /\ err' = err /\ base' = base /\ freed' = freed
      /\ handed' = handed
  BY DEF Descend
<1>9. out \notin Lazies
  BY PointerFacts DEF LInv, TypeOK
<1>10. CASE /\ results' = Append(results, child)
            /\ words' = IF Recursive(child) THEN Append(back, 0) ELSE back
            /\ slots' = after /\ UNCHANGED <<pc, rc, oom>>
  <2> HIDE DEF child, after, back
  <2>1. /\ results' \in Seq(Pointers) /\ results' # <<>> /\ Len(results') = Len(results) + 1
        /\ \A i \in 1 .. Len(results) : results'[i] = results[i]
        /\ results'[Len(results) + 1] = child
    BY <1>1, <1>5, <1>10, AppendFacts
  <2>2. /\ words' \in Seq(Nat) /\ \A i \in 1 .. Len(results) : words'[i] = back[i]
        /\ Recursive(child) => Len(words') = Len(results) + 1 /\ words'[Len(results) + 1] = 0
        /\ ~Recursive(child) => Len(words') = Len(results)
    BY <1>1, <1>2, <1>3, <1>10, AppendFacts
  <2>3. Level' = IF Recursive(child) THEN Len(results) + 1 ELSE Len(results)
    BY <1>1, <1>2, <1>8, <1>10, <2>1 DEF Level, Recursive, Top, Final
  <2>4. TypeOK'
    BY <1>7, <1>8, <1>10, <2>1, <2>2 DEF LInv, TypeOK
  <2>5. ControlInv'
    BY <1>1, <1>8, <1>10 DEF LInv, ControlInv
  <2>6. PathInv'
    <3>1. Len(words') = Level'
      BY <2>2, <2>3
    <3>0. \A i \in 1 .. Len(results) :
            /\ Recursive(results[i])
            /\ \A m \in Nodes : results[i] = Lazy(m) => words[i] <= Len(slots[m])
      BY <1>1 DEF LInv, PathInv
    <3>2. \A i \in 1 .. Level' : Recursive(results[i])'
      <4>1. \A i \in 1 .. Level' : Recursive(results'[i])
        BY <1>2, <2>1, <2>3, <3>0
      <4> QED
        BY <1>8, <4>1 DEF Recursive
    <3>3. ASSUME NEW i \in 1 .. Level', NEW m \in Nodes, results'[i] = Lazy(m)
          PROVE  words'[i] <= Len(slots'[m])
      <4>1. Len(slots'[m]) = Len(slots[m]) /\ Len(slots[m]) \in Nat
        BY <1>7, <1>10, LenProperties DEF LInv, TypeOK
      <4>2. CASE i \in 1 .. Len(results) - 1
        <5>1. i \in 1 .. Len(results)
          BY <1>2, <4>2
        <5>2. results[i] = Lazy(m)
          BY <2>1, <3>3, <5>1
        <5>3. words'[i] = words[i]
          BY <1>3, <2>2, <4>2, <5>1
        <5> QED
          BY <3>0, <4>1, <5>1, <5>2, <5>3
      <4>3. CASE i = Len(results)
        <5>1. m = n
          BY <1>2, <2>1, <3>3, <4>3, PointerFacts
        <5> QED
          BY <1>1, <1>2, <1>3, <2>2, <4>1, <4>3, <5>1, LenProperties
      <4>4. CASE i = Len(results) + 1
        BY <1>2, <2>2, <2>3, <4>1, <4>4
      <4> QED
        BY <1>2, <2>3, <4>2, <4>3, <4>4
    <3> QED
      BY <3>1, <3>2, <3>3 DEF PathInv
  <2>7. ValuesInv'
    <3> SUFFICES ASSUME NEW m \in Nodes \ freed, NEW k \in DOMAIN slots'[m],
                        slots'[m][k] \in Values
                 PROVE  \E i \in 1 .. Level' : results'[i] = Lazy(m) /\ k < words'[i]
      BY <1>1, <1>8, <1>10 DEF ValuesInv
    <3>1. k \in DOMAIN slots[m]
      BY <1>7, <1>10, LenProperties DEF LInv, TypeOK
    <3>2. CASE m = n /\ k = Final(words)
      <4>1. Len(results) \in 1 .. Level'
        BY <1>2, <2>3
      <4>2. results'[Len(results)] = Lazy(n) /\ words'[Len(results)] = Final(words) + 1
        BY <1>2, <1>3, <2>1, <2>2
      <4> QED
        BY <1>1, <3>2, <4>1, <4>2
    <3>3. CASE ~(m = n /\ k = Final(words))
      <4>1. slots[m][k] \in Values
        BY <1>7, <1>10, <3>1, <3>3, PointerFacts
      <4>2. PICK i \in 1 .. Level : results[i] = Lazy(m) /\ k < words[i]
        BY <1>1, <3>1, <4>1 DEF LInv, ValuesInv, Sound
      <4>3. i \in 1 .. Level' /\ results'[i] = Lazy(m)
        BY <1>1, <1>2, <2>1, <2>3, <4>2
      <4>4. k < words'[i]
        <5>1. CASE i = Len(results)
          <6>1. words[i] = Final(words) /\ words'[i] = Final(words) + 1
            BY <1>1, <1>2, <1>3, <2>2, <5>1 DEF Final
          <6>2. k \in Nat
            BY <3>1, LenProperties DEF LInv, TypeOK
          <6> QED
            BY <1>1, <4>2, <6>1, <6>2
        <5>2. CASE i # Len(results)
          <6>1. i \in 1 .. Len(results) - 1
            BY <1>1, <1>2, <4>2, <5>2
          <6>2. words'[i] = words[i]
            BY <1>2, <1>3, <2>2, <6>1
          <6> QED
            BY <4>2, <6>2
        <5> QED
          BY <5>1, <5>2
      <4> QED
        BY <4>3, <4>4
    <3> QED
      BY <3>2, <3>3
  <2>8. OwnInv'
    <3>1. \A l \in Nodes \ freed : \A i \in DOMAIN after[l] :
            after[l][i] \in Lazies =>
              i \in DOMAIN slots[l] /\ after[l][i] = slots[l][i] /\ ~(l = n /\ i = next)
      <4>1. \A l \in Nodes : DOMAIN after[l] = DOMAIN slots[l]
        BY <1>7, LenProperties DEF LInv, TypeOK
      <4> QED
        BY <1>7, <1>9, <4>1, PointerFacts
    <3>2. Owned(Append(results, slots[n][next]), after, freed)
      BY <1>1, <1>4, <1>5, <1>6, <3>1, OwnedDescend
    <3> QED
      BY <1>5, <1>8, <1>10, <3>2 DEF OwnInv
  <2> QED
    BY <1>8, <2>4, <2>5, <2>6, <2>7, <2>8 DEF LInv
<1>11. CASE /\ OutOfMemory /\ words' = back /\ slots' = before
            /\ results' \in {results, Append(results, child)}
  <2> HIDE DEF child, after, back
  <2>1. results' \in Seq(Pointers)
    <3>1. Append(results, child) \in Seq(Pointers)
      BY <1>1, <1>5, AppendFacts
    <3> QED
      BY <1>1, <1>11, <3>1
  <2>2. TypeOK'
    BY <1>3, <1>8, <1>11, <2>1 DEF LInv, TypeOK, OutOfMemory
  <2>3. ControlInv' /\ rc' = "errno" /\ oom' = TRUE
    BY <1>1, <1>8, <1>11 DEF LInv, ControlInv, OutOfMemory
  <2> QED
    BY <1>8, <2>2, <2>3 DEF LInv, PathInv, ValuesInv, OwnInv, Sound
<1> QED
  BY <1>10, <1>11 DEF Descend

-----------------------------------------------------------------------------
\* The steps of lazy_eval.

\* An allocation fails, and nothing that matters after it has changed.
LEMMA FailStep ==
  ASSUME LInv, pc' = "cleanup", rc' \in {"ok", "errno"}, oom' = TRUE, TypeOK',
         UNCHANGED <<forest, err>>
  PROVE  LInv'
<1>1. ControlInv'
  BY DEF ControlInv
<1> QED
  BY <1>1 DEF LInv, PathInv, ValuesInv, OwnInv, Sound

LEMMA EvalNullStep == LInv /\ EvalNull => LInv'
<1> SUFFICES ASSUME LInv, EvalNull PROVE LInv'
  OBVIOUS
<1>1. /\ pc = "turn" /\ results # <<>> /\ Top = Null /\ rc = "running" /\ err = "none"
      /\ results' = Pop(results) /\ out' = Null
      /\ UNCHANGED <<forest, slots, words, err, pc, base, rc, freed, handed, oom>>
  BY DEF EvalNull, LInv, ControlInv
<1>2. /\ results \in Seq(Pointers) /\ Len(results) \in Nat \ {0}
      /\ results' \in Seq(Pointers) /\ Len(results') = Len(results) - 1
      /\ \A i \in 1 .. Len(results) - 1 : results'[i] = results[i]
  BY <1>1, PopFacts DEF LInv, TypeOK
<1>3. Level = Len(results) - 1
  BY <1>1, PointerFacts DEF Level, Recursive
<1>4. \A i \in 1 .. Len(results) - 1 :
        /\ Recursive(results[i])
        /\ \A m \in Nodes : results[i] = Lazy(m) => words[i] <= Len(slots[m])
  BY <1>1, <1>3 DEF LInv, PathInv
<1>5. Level' = Len(results) - 1
  <2>1. CASE results' = <<>>
    BY <1>1, <1>2, <2>1 DEF Level
  <2>2. CASE results' # <<>>
    <3>1. Len(results) - 1 \in 1 .. Len(results) - 1
      BY <1>2, <2>2, EmptySeq
    <3>2. Top' = results[Len(results) - 1]
      BY <1>2, <3>1 DEF Top, Final
    <3>3. Recursive(Top)'
      BY <1>1, <1>4, <3>1, <3>2 DEF Recursive
    <3> QED
      BY <1>1, <1>2, <2>2, <3>3 DEF Level
  <2> QED
    BY <2>1, <2>2
<1>6. TypeOK'
  BY <1>1, <1>2 DEF LInv, TypeOK
<1>7. ControlInv'
  BY <1>1 DEF LInv, ControlInv
<1>8. PathInv'
  <2>1. \A i \in 1 .. Level' : Recursive(results[i])'
    BY <1>1, <1>2, <1>4, <1>5 DEF Recursive
  <2> QED
    BY <1>1, <1>2, <1>3, <1>4, <1>5, <2>1 DEF LInv, PathInv
<1>9. ValuesInv'
  <2>1. \A i \in 1 .. Level : results'[i] = results[i]
    BY <1>2, <1>3
  <2> QED
    BY <1>1, <1>3, <1>5, <2>1 DEF LInv, ValuesInv, Sound
<1>10. OwnInv'
  <2>1. Owned(Pop(results), slots, freed)
    BY <1>1, <1>2, OwnedPop DEF LInv, OwnInv, Sound
  <2> QED
    BY <1>1, <2>1 DEF OwnInv
<1> QED
  BY <1>1, <1>6, <1>7, <1>8, <1>9, <1>10 DEF LInv

LEMMA LeavesStep ==
  ASSUME LInv, NEW n \in Nodes, EvalLeaf(n) \/ EvalInline(n) \/ EvalLift(n)
  PROVE  LInv'
<1>1. err = "none" /\ rc = "running" /\ oom \in BOOLEAN
  BY DEF EvalLeaf, EvalInline, EvalLift, At, LInv, ControlInv, TypeOK
<1>2. ASSUME NEW types, types \subseteq LazyTypes \ {"FOLD", "APPLY"}, At(n, types)
      PROVE  At(n, LazyTypes \ {"FOLD", "APPLY"})
  BY <1>2 DEF At
<1>3. Value(n) \in {Null} \cup Values
  BY PointerFacts
<1>4. CASE EvalLeaf(n)
  <2>1. At(n, LazyTypes \ {"FOLD", "APPLY"})
    BY <1>4 DEF EvalLeaf, At, LazyTypes, Callbacks
  <2>2. /\ Done(n, <<>>) /\ UNCHANGED <<forest, slots, results, words, err, rc, freed>>
        /\ out' \in {Null} \cup Values /\ oom' \in BOOLEAN
    BY <1>1, <1>3, <1>4 DEF EvalLeaf
  <2> QED
    BY <1>1, <2>1, <2>2, LeafStep
<1>5. CASE EvalLift(n)
  <2>1. At(n, LazyTypes \ {"FOLD", "APPLY"})
    BY <1>5 DEF EvalLift, At, LazyTypes, Callbacks
  <2>2. /\ Done(n, <<>>) /\ UNCHANGED <<forest, slots, results, words, rc, freed, oom>>
        /\ out' \in {Null} \cup Values /\ err' \in {"none", "callback"}
    BY <1>1, <1>3, <1>5 DEF EvalLift, Return
  <2> QED
    BY <1>1, <2>1, <2>2, LeafStep
<1>6. CASE EvalInline(n)
  <2>1. At(n, LazyTypes \ {"FOLD", "APPLY"})
    BY <1>6 DEF EvalInline, At, LazyTypes, Callbacks
  <2>2. UNCHANGED <<forest, slots, results, words, err, freed>>
    BY <1>6 DEF EvalInline
  <2>3. CASE out' = Value(n) /\ Done(n, <<>>) /\ UNCHANGED <<rc, oom>>
    BY <1>1, <1>3, <2>1, <2>2, <2>3, LeafStep
  <2>4. CASE /\ pc' = "cleanup" /\ rc' = "errno" /\ oom' = TRUE
             /\ out' = Null /\ UNCHANGED <<handed, base>>
    <3>1. TypeOK'
      BY <2>2, <2>4 DEF LInv, TypeOK
    <3> QED
      BY <2>2, <2>4, <3>1, FailStep
  <2> QED
    BY <1>6, <2>3, <2>4 DEF EvalInline, OutOfMemory
<1> QED
  BY <1>4, <1>5, <1>6

LEMMA NextChildStep ==
  ASSUME LInv, NEW n \in Nodes, FoldNext(n) \/ ApplyNext(n)
  PROVE  LInv'
<1>1. At(n, {"FOLD", "APPLY"})
  BY DEF FoldNext, ApplyNext, At
<1>2. /\ Final(words) \in 0 .. Len(slots[n]) /\ slots[n] \in Seq(Pointers)
      /\ Len(slots[n]) \in Nat /\ DOMAIN slots[n] = 1 .. Len(slots[n])
      /\ forest.type[n] = "APPLY" => Len(slots[n]) = 1
  BY <1>1, TopFacts, LenProperties
<1>3. CASE FoldNext(n)
  <2> DEFINE next == Final(words) + 1
  <2>1. Final(words) < Len(slots[n])
    BY <1>3 DEF FoldNext
  <2>2. next \in DOMAIN slots[n] /\ next > Final(words)
    BY <1>2, <2>1
  <2>3. Descend(Patched(n)[n][next], next, Patched(n), [Patched(n) EXCEPT ![n][next] = Null])
    BY <1>3 DEF FoldNext
  <2>4. next = Final(words) + 1
    OBVIOUS
  <2> HIDE DEF next
  <2> QED
    BY <1>1, <2>2, <2>3, <2>4, PatchFacts, DescendStep
<1>4. CASE ApplyNext(n)
  <2>1. Final(words) = 0 /\ forest.type[n] = "APPLY"
    BY <1>4 DEF ApplyNext, At
  <2>2. 1 \in DOMAIN slots[n] /\ 1 > Final(words) /\ 1 = Final(words) + 1
    BY <1>2, <2>1
  <2>3. Descend(slots[n][1], 1, slots, [slots EXCEPT ![n][1] = Null])
    BY <1>4 DEF ApplyNext
  <2>4. slots \in [Nodes -> Seq(Pointers)]
    BY DEF LInv, TypeOK
  <2>5. \A k \in DOMAIN slots[n] :
          slots[n][k] = IF k = Final(words) THEN out ELSE slots[n][k]
    BY <1>2, <2>1
  <2> QED
    BY <1>1, <2>2, <2>3, <2>4, <2>5, DescendStep
<1> QED
  BY <1>3, <1>4

LEMMA FoldCallStep ==
  ASSUME LInv, NEW n \in Nodes, FoldCall(n)
  PROVE  LInv'
<1>1. At(n, {"FOLD", "APPLY"})
  BY DEF FoldCall, At
<1>2. /\ words' = Pop(words) /\ Return(n, Patched(n)[n])
      /\ slots' = [slots EXCEPT ![n] = [i \in 1 .. Len(slots[n]) |-> Null]]
  BY DEF FoldCall
<1>3. slots \in [Nodes -> Seq(Pointers)] /\ Len(slots[n]) \in Nat
  BY <1>1, TopFacts DEF LInv, TypeOK
<1>4. Patched(n)[n] \in Seq(Pointers)
  BY <1>1, PatchFacts
<1> DEFINE cleared == [i \in 1 .. Len(slots[n]) |-> Null]
<1>5. /\ cleared \in Seq(Pointers) /\ Len(cleared) = Len(slots[n])
      /\ DOMAIN cleared = 1 .. Len(slots[n]) /\ \A i \in DOMAIN cleared : cleared[i] = Null
  BY <1>3, PointerFacts
<1>6. slots' = [slots EXCEPT ![n] = cleared]
  BY <1>2
<1> HIDE DEF cleared
<1>7. /\ slots' \in [Nodes -> Seq(Pointers)]
      /\ \A m \in Nodes : Len(slots'[m]) = Len(slots[m])
      /\ \A m \in Nodes \ {n} : slots'[m] = slots[m]
      /\ \A k \in DOMAIN slots'[n] :
           /\ slots'[n][k] \notin Values
           /\ slots'[n][k] \in Lazies => slots'[n][k] = slots[n][k]
  BY <1>3, <1>5, <1>6, PointerFacts
<1> QED
  BY <1>1, <1>2, <1>4, <1>7, CallStep

LEMMA ApplyCallStep ==
  ASSUME LInv, NEW n \in Nodes, ApplyCall(n)
  PROVE  LInv'
<1>1. At(n, {"FOLD", "APPLY"}) /\ forest.type[n] = "APPLY"
  BY DEF ApplyCall, At
<1>2. words' = Pop(words) /\ Return(n, <<out>>) /\ slots' = slots /\ Final(words) = 1
  BY DEF ApplyCall
<1>3. /\ results \in Seq(Pointers) /\ results # <<>> /\ Top = Lazy(n) /\ rc = "running"
      /\ Level = Len(results) /\ Len(words) = Len(results)
      /\ slots[n] \in Seq(Pointers) /\ Len(slots[n]) = 1
  BY <1>1, TopFacts
<1>4. <<out>> \in Seq(Pointers)
  BY PointerFacts DEF LInv, TypeOK
<1>5. \A k \in DOMAIN slots[n] : slots[n][k] \notin Values
  <2> SUFFICES ASSUME NEW k \in DOMAIN slots[n], slots[n][k] \in Values PROVE FALSE
    OBVIOUS
  <2>1. Len(results) \in DOMAIN results /\ results[Len(results)] = Lazy(n)
    BY <1>3, EmptySeq, LenProperties DEF Top, Final
  <2>2. Owned(results, slots, freed)
    BY <1>3 DEF LInv, OwnInv, Sound
  <2>3. n \in Nodes \ freed
    BY <2>1, <2>2 DEF Owned
  <2>4. PICK i \in 1 .. Level : results[i] = Lazy(n) /\ k < words[i]
    BY <1>3, <2>3 DEF LInv, ValuesInv, Sound
  <2>5. i = Len(results)
    BY <1>3, <2>1, <2>2, <2>4, LenProperties DEF Owned
  <2>6. k = 1
    BY <1>3, LenProperties
  <2> QED
    BY <1>2, <1>3, <2>4, <2>5, <2>6 DEF Final
<1>6. slots \in [Nodes -> Seq(Pointers)]
  BY DEF LInv, TypeOK
<1> QED
  BY <1>1, <1>2, <1>4, <1>5, <1>6, CallStep

LEMMA EvalEndStep == LInv /\ EvalEnd => LInv'
<1> SUFFICES ASSUME LInv, EvalEnd PROVE LInv'
  OBVIOUS
<1>1. /\ pc = "turn" /\ results = <<>> /\ rc = "running" /\ err = "none"
      /\ pc' = "cleanup" /\ rc' = "ok"
      /\ UNCHANGED <<forest, slots, results, words, out, err, base, freed, handed, oom>>
  BY DEF EvalEnd, LInv, ControlInv
<1>2. TypeOK'
  BY <1>1 DEF LInv, TypeOK
<1>3. ControlInv' /\ PathInv'
  BY <1>1 DEF LInv, ControlInv, PathInv
<1>4. Level = 0
  BY <1>1, EmptySeq DEF Level
<1>5. \A m \in Nodes \ freed : \A k \in DOMAIN slots[m] : slots[m][k] \notin Values
  BY <1>1, <1>4 DEF LInv, ValuesInv, Sound
<1>6. ValuesInv' /\ OwnInv'
  <2>1. Owned(results, slots, freed)
    BY <1>1 DEF LInv, OwnInv, Sound
  <2> QED
    BY <1>1, <1>5, <2>1 DEF ValuesInv, OwnInv, Owned
<1> QED
  BY <1>1, <1>2, <1>3, <1>6 DEF LInv

-----------------------------------------------------------------------------
\* The steps of lazy_free and of the cleanup.

\* While lazy_free runs, what it frees holds no value.
LEMMA FreeFacts ==
  ASSUME LInv, pc = "free", Len(results) > base
  PROVE  /\ results \in Seq(Pointers) /\ results # <<>> /\ Len(results) \in Nat \ {0}
         /\ base \in Nat /\ base \in 0 .. Len(results) - 1 /\ Level = base
         /\ Top = results[Len(results)] /\ Top \in Pointers
         /\ Sound => /\ Top \in {Null} \cup Lazies
                     /\ \A n \in Nodes : Top = Lazy(n) =>
                          /\ n \notin freed
                          /\ \A k \in DOMAIN slots[n] : slots[n][k] \in {Null} \cup Lazies
<1>1. /\ results \in Seq(Pointers) /\ base \in Nat /\ Level = base
      /\ slots \in [Nodes -> Seq(Pointers)]
  BY DEF LInv, TypeOK, Level
<1>2. Len(results) \in Nat
  BY <1>1, LenProperties
<1>3. Len(results) # 0
  BY <1>1, <1>2
<1>4. results # <<>> /\ Len(results) \in Nat \ {0}
  BY <1>1, <1>2, <1>3, EmptySeq
<1>5. Top = results[Len(results)] /\ Len(results) \in DOMAIN results
  BY <1>1, <1>4, LenProperties DEF Top, Final
<1>6. Top \in Pointers
  BY <1>1, <1>4, PopFacts DEF Top
<1>7. ASSUME Sound PROVE Top \in {Null} \cup Lazies
  BY <1>5, <1>7 DEF LInv, OwnInv, Owned
<1>8. ASSUME Sound, NEW n \in Nodes, Top = Lazy(n),
             n \in freed \/ \E k \in DOMAIN slots[n] : slots[n][k] \notin {Null} \cup Lazies
      PROVE  FALSE
  <2>1. Owned(results, slots, freed)
    BY <1>8 DEF LInv, OwnInv
  <2>2. n \notin freed
    BY <1>5, <1>8, <2>1 DEF Owned
  <2>3. PICK k \in DOMAIN slots[n] : slots[n][k] \notin {Null} \cup Lazies
    BY <1>8, <2>2
  <2>4. slots[n][k] \in Values
    BY <1>1, <2>3, ElementOfSeq, LenProperties DEF Pointers
  <2>5. PICK i \in 1 .. Level : results[i] = Lazy(n)
    BY <1>8, <2>2, <2>4 DEF LInv, ValuesInv
  <2>6. i \in DOMAIN results /\ i # Len(results)
    BY <1>1, <1>2, <2>5, LenProperties
  <2> QED
    BY <1>5, <1>8, <2>1, <2>5, <2>6 DEF Owned
<1> QED
  BY <1>1, <1>2, <1>4, <1>5, <1>6, <1>7, <1>8

\* Whatever lazy_free does above `base`, the lazies on the way down stay.
LEMMA FreeStep ==
  ASSUME LInv, pc = "free", results' \in Seq(Pointers), Len(results') >= base,
         \A i \in 1 .. base : results'[i] = results[i],
         freed \subseteq freed', freed' \subseteq Nodes,
         Sound => Owned(results', slots, freed'),
         UNCHANGED <<forest, slots, words, out, err, pc, base, rc, handed, oom>>
  PROVE  LInv'
<1>1. Level = base /\ Level' = base
  BY DEF Level
<1>2. TypeOK'
  BY DEF LInv, TypeOK
<1>3. ControlInv'
  BY DEF LInv, ControlInv
<1>4. PathInv'
  <2>1. \A i \in 1 .. base : rc = "running" => Recursive(results[i])'
    BY <1>1 DEF LInv, PathInv, Recursive
  <2> QED
    BY <1>1, <2>1 DEF LInv, PathInv
<1>5. ValuesInv'
  BY <1>1 DEF LInv, ValuesInv, Sound
<1>6. OwnInv'
  BY DEF OwnInv, Sound, Owned
<1> QED
  BY <1>2, <1>3, <1>4, <1>5, <1>6 DEF LInv

LEMMA FreeNullStep == LInv /\ FreeNull => LInv'
<1> SUFFICES ASSUME LInv, FreeNull PROVE LInv'
  OBVIOUS
<1>1. /\ pc = "free" /\ Len(results) > base /\ results' = Pop(results)
      /\ UNCHANGED <<forest, slots, words, out, err, pc, base, rc, freed, handed, oom>>
  BY DEF FreeNull
<1>2. /\ results \in Seq(Pointers) /\ results # <<>> /\ Len(results) \in Nat \ {0}
      /\ base \in 0 .. Len(results) - 1
  BY <1>1, FreeFacts
<1>3. /\ results' \in Seq(Pointers) /\ Len(results') = Len(results) - 1
      /\ \A i \in 1 .. Len(results) - 1 : results'[i] = results[i]
  BY <1>1, <1>2, PopFacts
<1>4. Len(results') >= base /\ \A i \in 1 .. base : results'[i] = results[i]
  BY <1>2, <1>3
<1>5. Sound => Owned(results', slots, freed')
  BY <1>1, <1>2, OwnedPop DEF LInv, OwnInv
<1>6. freed \subseteq freed' /\ freed' \subseteq Nodes
  BY <1>1 DEF LInv, TypeOK
<1> QED
  BY <1>1, <1>3, <1>4, <1>5, <1>6, FreeStep

LEMMA FreeLazyStep ==
  ASSUME LInv, NEW n \in Nodes, FreeLazy(n)
  PROVE  LInv'
<1>1. /\ pc = "free" /\ Len(results) > base /\ Top = Lazy(n)
      /\ results' = Pop(results) \o slots[n] /\ freed' = freed \cup {n}
      /\ UNCHANGED <<forest, slots, words, out, err, pc, base, rc, handed, oom>>
  BY DEF FreeLazy
<1>2. /\ results \in Seq(Pointers) /\ results # <<>> /\ Len(results) \in Nat \ {0}
      /\ base \in Nat /\ base \in 0 .. Len(results) - 1
      /\ Sound => \A k \in DOMAIN slots[n] : slots[n][k] \in {Null} \cup Lazies
  BY <1>1, FreeFacts
<1>3. /\ Pop(results) \in Seq(Pointers) /\ Len(Pop(results)) = Len(results) - 1
      /\ \A i \in 1 .. Len(results) - 1 : Pop(results)[i] = results[i]
  BY <1>2, PopFacts
<1>4. slots \in [Nodes -> Seq(Pointers)] /\ slots[n] \in Seq(Pointers) /\ Len(slots[n]) \in Nat
  BY LenProperties DEF LInv, TypeOK
<1>5. /\ results' \in Seq(Pointers) /\ Len(results') = Len(Pop(results)) + Len(slots[n])
      /\ \A i \in 1 .. Len(Pop(results)) : results'[i] = Pop(results)[i]
  BY <1>1, <1>3, <1>4, ConcatFacts
<1>6. Len(results') >= base /\ \A i \in 1 .. base : results'[i] = results[i]
  BY <1>2, <1>3, <1>4, <1>5
<1>7. Sound => Owned(results', slots, freed')
  <2> SUFFICES ASSUME Sound PROVE Owned(Pop(results) \o slots[n], slots, freed \cup {n})
    BY <1>1
  <2>1. Owned(results, slots, freed)
    BY DEF LInv, OwnInv
  <2> QED
    BY <1>1, <1>2, <1>4, <2>1, OwnedFree DEF Top
<1>8. freed \subseteq freed' /\ freed' \subseteq Nodes
  BY <1>1 DEF LInv, TypeOK
<1> QED
  BY <1>1, <1>5, <1>6, <1>7, <1>8, FreeStep

LEMMA FreeFailsStep ==
  ASSUME LInv, NEW n \in Nodes, FreeFails(n)
  PROVE  LInv'
<1>1. /\ pc = "free" /\ Len(results) > base /\ results' = SubSeq(results, 1, base)
      /\ oom' = TRUE /\ freed' \in {freed, freed \cup {n}}
      /\ UNCHANGED <<forest, slots, words, out, err, base, handed>>
      /\ rc' # "running" /\ pc' \in {"cleanup", "return"} /\ rc' \in {rc, "errno"}
  BY DEF FreeFails
<1>2. results' \in Seq(Pointers)
  <2>1. results \in Seq(Pointers) /\ base \in 0 .. Len(results)
    BY <1>1, FreeFacts
  <2> QED
    BY <1>1, <2>1, PrefixFacts
<1>3. TypeOK'
  BY <1>1, <1>2 DEF LInv, TypeOK
<1>4. ControlInv'
  BY <1>1 DEF ControlInv
<1> QED
  BY <1>1, <1>3, <1>4 DEF LInv, PathInv, ValuesInv, OwnInv, Sound

LEMMA FreeUndefinedStep == LInv /\ FreeUndefined => LInv'
<1> SUFFICES ASSUME LInv, FreeUndefined PROVE LInv'
  OBVIOUS
<1>1. /\ pc = "free" /\ Len(results) > base
      /\ Top \in Values \cup {Lazy(n) : n \in freed}
      /\ pc' = "undefined"
      /\ UNCHANGED <<forest, slots, results, words, out, err, base, rc, freed, handed, oom>>
  BY DEF FreeUndefined
<1>2. ~ Sound
  <2> SUFFICES ASSUME Sound PROVE FALSE
    OBVIOUS
  <2>1. Top \in {Null} \cup Lazies /\ \A n \in Nodes : Top = Lazy(n) => n \notin freed
    BY <1>1, FreeFacts
  <2>2. freed \subseteq Nodes
    BY DEF LInv, TypeOK
  <2> QED
    BY <1>1, <2>1, <2>2, PointerFacts
<1>3. rc # "running" /\ oom
  BY <1>2 DEF Sound
<1>4. TypeOK'
  BY <1>1 DEF LInv, TypeOK
<1>5. ControlInv'
  BY <1>1, <1>3 DEF LInv, ControlInv
<1> QED
  BY <1>1, <1>3, <1>4, <1>5 DEF LInv, PathInv, ValuesInv, OwnInv, Sound

\* The word of a lazy on the way down.
LEMMA WordFacts ==
  ASSUME LInv, pc = "free", rc = "running", Len(results) = base, NEW i \in 1 .. base
  PROVE  WordOf(i) = words[i]
<1>1. base \in Nat /\ Len(words) = base /\ \A k \in 1 .. base : Recursive(results[k])
  BY DEF LInv, TypeOK, PathInv, Level
<1>2. {k \in i + 1 .. Len(results) : Recursive(results[k])} = i + 1 .. base
  BY <1>1
<1>3. Cardinality(i + 1 .. base) = base - i
  <2>1. i + 1 \in Int /\ base \in Int
    BY <1>1
  <2> QED
    BY <1>1, <2>1, FS_Interval
<1>4. base - (base - i) = i
  BY <1>1
<1> QED
  BY <1>1, <1>2, <1>3, <1>4 DEF WordOf

\* remove_patched_values leaves the shape of the values and every lazy, and takes
\* every value: it forgets no less and no more than what was patched.
LEMMA UnpatchedFacts ==
  ASSUME LInv, pc = "free", rc = "running", Len(results) = base,
         NEW forgotten, forgotten = [n \in Nodes |-> Unpatched(n)]
  PROVE  /\ forgotten \in [Nodes -> Seq(Pointers)]
         /\ \A n \in Nodes : Len(forgotten[n]) = Len(slots[n])
         /\ \A n \in Nodes : \A k \in DOMAIN forgotten[n] :
              forgotten[n][k] \in Lazies =>
                k \in DOMAIN slots[n] /\ forgotten[n][k] = slots[n][k]
         /\ \A n \in Nodes \ freed : \A k \in DOMAIN forgotten[n] :
              forgotten[n][k] \notin Values
<1>1. /\ base \in Nat /\ Level = base /\ results \in Seq(Pointers) /\ DOMAIN results = 1 .. base
      /\ words \in Seq(Nat) /\ Len(words) = base /\ slots \in [Nodes -> Seq(Pointers)]
      /\ Sound /\ Owned(results, slots, freed)
  BY LenProperties DEF LInv, TypeOK, Level, PathInv, Sound, OwnInv
<1> SUFFICES ASSUME NEW n \in Nodes
             PROVE  /\ Unpatched(n) \in Seq(Pointers) /\ Len(Unpatched(n)) = Len(slots[n])
                    /\ \A k \in DOMAIN Unpatched(n) :
                         /\ Unpatched(n)[k] \in Lazies =>
                              k \in DOMAIN slots[n] /\ Unpatched(n)[k] = slots[n][k]
                         /\ n \notin freed => Unpatched(n)[k] \notin Values
  OBVIOUS
<1>2. slots[n] \in Seq(Pointers) /\ Len(slots[n]) \in Nat /\ DOMAIN slots[n] = 1 .. Len(slots[n])
  BY <1>1, LenProperties
<1>3. ASSUME NEW k \in DOMAIN slots[n], slots[n][k] \in Values, n \notin freed
      PROVE  \E i \in 1 .. base : results[i] = Lazy(n) /\ k < words[i]
  BY <1>1, <1>3 DEF LInv, ValuesInv
<1>4. CASE \E i \in DOMAIN results : results[i] = Lazy(n)
  <2> DEFINE i == CHOOSE i \in DOMAIN results : results[i] = Lazy(n)
  <2>1. i \in 1 .. base /\ results[i] = Lazy(n)
    BY <1>1, <1>4
  <2>2. Unpatched(n) = [k \in DOMAIN slots[n] |->
           IF forest.type[n] = "APPLY" \/ k <= WordOf(i) - 1 THEN Null ELSE slots[n][k]]
    BY <1>4 DEF Unpatched
  <2> HIDE DEF i
  <2>3. WordOf(i) = words[i] /\ words[i] \in Nat
    BY <1>1, <2>1, WordFacts
  <2>4. \A k \in 1 .. Len(slots[n]) : slots[n][k] \in Pointers
    BY <1>2, ElementOfSeq
  <2> DEFINE cut == [k \in 1 .. Len(slots[n]) |->
           IF forest.type[n] = "APPLY" \/ k <= words[i] - 1 THEN Null ELSE slots[n][k]]
  <2>5. Unpatched(n) = cut
    BY <1>2, <2>2, <2>3
  <2>6. /\ cut \in Seq(Pointers) /\ Len(cut) = Len(slots[n]) /\ DOMAIN cut = 1 .. Len(slots[n])
        /\ \A k \in 1 .. Len(slots[n]) : cut[k] =
             IF forest.type[n] = "APPLY" \/ k <= words[i] - 1 THEN Null ELSE slots[n][k]
    BY <1>2, <2>4, PointerFacts
  <2> HIDE DEF cut
  <2>7. ASSUME NEW k \in 1 .. Len(slots[n]), n \notin freed PROVE cut[k] \notin Values
    <3>1. CASE slots[n][k] \in Values
      <4>1. PICK j \in 1 .. base : results[j] = Lazy(n) /\ k < words[j]
        BY <1>2, <1>3, <2>7, <3>1
      <4>2. j = i
        BY <1>1, <2>1, <4>1 DEF Owned
      <4>3. k <= words[i] - 1
        BY <2>3, <4>1, <4>2
      <4> QED
        BY <2>6, <4>3, PointerFacts
    <3>2. CASE slots[n][k] \notin Values
      BY <2>6, <3>2, PointerFacts
    <3> QED
      BY <3>1, <3>2
  <2> QED
    BY <1>2, <2>5, <2>6, <2>7, PointerFacts
<1>5. CASE ~ \E i \in DOMAIN results : results[i] = Lazy(n)
  <2>1. Unpatched(n) = slots[n]
    BY <1>5 DEF Unpatched
  <2> QED
    BY <1>1, <1>2, <1>3, <1>5, <2>1
<1> QED
  BY <1>4, <1>5

LEMMA FreeEndStep == LInv /\ FreeEnd => LInv'
<1> SUFFICES ASSUME LInv, FreeEnd PROVE LInv'
  OBVIOUS
<1>1. /\ pc = "free" /\ Len(results) = base
      /\ UNCHANGED <<forest, results, words, out, err, base, freed, handed, oom>>
  BY DEF FreeEnd
<1>2. results \in Seq(Pointers) /\ base \in Nat /\ Level = base
  BY <1>1 DEF LInv, TypeOK, Level
<1>3. CASE rc = "running" /\ err = "callback"
  <2>1. /\ slots' = [n \in Nodes |-> Unpatched(n)] /\ pc' = "cleanup" /\ rc' = "ok"
    BY <1>3 DEF FreeEnd
  <2>2. /\ slots' \in [Nodes -> Seq(Pointers)]
        /\ \A n \in Nodes : Len(slots'[n]) = Len(slots[n])
        /\ \A n \in Nodes : \A k \in DOMAIN slots'[n] :
             slots'[n][k] \in Lazies => k \in DOMAIN slots[n] /\ slots'[n][k] = slots[n][k]
        /\ \A n \in Nodes \ freed : \A k \in DOMAIN slots'[n] : slots'[n][k] \notin Values
    BY <1>1, <1>3, <2>1, UnpatchedFacts
  <2>3. TypeOK'
    BY <1>1, <2>1, <2>2 DEF LInv, TypeOK
  <2>4. ControlInv' /\ PathInv'
    BY <1>1, <2>1 DEF LInv, ControlInv, PathInv
  <2>5. ValuesInv'
    BY <1>1, <2>2 DEF ValuesInv
  <2>6. OwnInv'
    <3>1. Owned(results, slots, freed)
      BY <1>3 DEF LInv, OwnInv, Sound
    <3>2. Owned(results, slots', freed)
      BY <2>2, <3>1, OwnedLess
    <3> QED
      BY <1>1, <3>2 DEF OwnInv
  <2> QED
    BY <1>1, <2>3, <2>4, <2>5, <2>6 DEF LInv
<1>4. CASE ~(rc = "running" /\ err = "callback")
  <2>1. UNCHANGED <<slots, rc>> /\ pc' = IF rc = "running" THEN "turn" ELSE "cleanup"
    BY <1>4 DEF FreeEnd
  <2>2. TypeOK'
    BY <1>1, <2>1 DEF LInv, TypeOK
  <2>3. ControlInv'
    BY <1>1, <1>4, <2>1 DEF LInv, ControlInv
  <2>4. rc = "running" => Level' = base
    <3> SUFFICES ASSUME rc = "running" PROVE Level' = base
      OBVIOUS
    <3>1. CASE results = <<>>
      BY <1>1, <2>1, <3>1 DEF Level
    <3>2. CASE results # <<>>
      <4>1. Len(results) \in 1 .. Level
        BY <1>1, <1>2, <3>2, EmptySeq
      <4>2. Recursive(Top)'
        BY <1>1, <4>1 DEF LInv, PathInv, Recursive, Top, Final
      <4> QED
        BY <1>1, <2>1, <3>2, <4>2 DEF Level
    <3> QED
      BY <3>1, <3>2
  <2>5. PathInv'
    <3>1. \A i \in 1 .. base : rc = "running" => Recursive(results[i])'
      BY <1>1, <1>2 DEF LInv, PathInv, Recursive
    <3> QED
      BY <1>1, <1>2, <2>1, <2>4, <3>1 DEF LInv, PathInv
  <2>6. ValuesInv'
    BY <1>1, <1>2, <2>1, <2>4 DEF LInv, ValuesInv, Sound
  <2>7. OwnInv'
    BY <1>1, <2>1 DEF LInv, OwnInv, Sound, Owned
  <2> QED
    BY <1>1, <2>2, <2>3, <2>5, <2>6, <2>7 DEF LInv
<1> QED
  BY <1>3, <1>4

LEMMA CleanupStep == LInv /\ Cleanup => LInv'
<1> SUFFICES ASSUME LInv, Cleanup PROVE LInv'
  OBVIOUS
<1>1. /\ pc = "cleanup" /\ rc # "running" /\ results \in Seq(Pointers)
      /\ UNCHANGED <<forest, slots, results, words, out, err, rc, freed, handed, oom>>
      /\ IF results = <<>> THEN pc' = "return" /\ base' = base
                           ELSE pc' = "free" /\ base' = Len(results) - 1
  BY DEF Cleanup, LInv, ControlInv, TypeOK
<1>2. base' \in Nat /\ (pc' = "free" => base' <= Len(results)) /\ pc' \in {"return", "free"}
  <2>1. Len(results) \in Nat /\ (results # <<>> => Len(results) # 0) /\ base \in Nat
    BY <1>1, EmptySeq, LenProperties DEF LInv, TypeOK
  <2> QED
    BY <1>1, <2>1
<1>3. TypeOK'
  BY <1>1, <1>2 DEF LInv, TypeOK
<1>4. ControlInv' /\ PathInv' /\ ValuesInv'
  BY <1>1, <1>2 DEF LInv, ControlInv, PathInv, ValuesInv, Sound
<1>5. OwnInv'
  BY <1>1 DEF LInv, OwnInv, Sound, Owned
<1> QED
  BY <1>1, <1>3, <1>4, <1>5 DEF LInv

LEMMA AnswerStep == LInv /\ Answer => LInv'
<1> SUFFICES ASSUME LInv, Answer PROVE LInv'
  OBVIOUS
<1>1. /\ pc = "return" /\ rc # "running"
      /\ UNCHANGED <<forest, slots, results, words, out, base, rc, freed, handed, oom>>
      /\ err' \in {err, "freed", "none"} /\ pc' \in {"undefined", "done"}
      /\ pc' = "undefined" => rc = "errno" /\ err = "none"
  BY DEF Answer, LInv, ControlInv
<1>2. pc' = "undefined" => oom
  BY <1>1 DEF LInv, ControlInv
<1>3. TypeOK'
  BY <1>1 DEF LInv, TypeOK
<1>4. ControlInv' /\ PathInv' /\ ValuesInv'
  BY <1>1, <1>2 DEF LInv, ControlInv, PathInv, ValuesInv, Sound
<1>5. OwnInv'
  BY <1>1 DEF LInv, OwnInv, Sound, Owned
<1> QED
  BY <1>1, <1>3, <1>4, <1>5 DEF LInv

-----------------------------------------------------------------------------
LEMMA LInvInductive == LInv /\ [Next]_vars => LInv'
<1> SUFFICES ASSUME LInv, [Next]_vars PROVE LInv'
  OBVIOUS
<1>1. CASE Start
  BY <1>1, StartStep
<1>2. CASE Turn
  BY <1>2, EvalNullStep, EvalEndStep, LeavesStep, NextChildStep, FoldCallStep, ApplyCallStep
     DEF Turn
<1>3. CASE Free
  BY <1>3, FreeNullStep, FreeUndefinedStep, FreeEndStep, FreeLazyStep, FreeFailsStep DEF Free
<1>4. CASE Cleanup \/ Answer
  BY <1>4, CleanupStep, AnswerStep
<1>5. CASE Ended \/ UNCHANGED vars
  BY <1>5, StutterStep DEF Ended
<1> QED
  BY <1>1, <1>2, <1>3, <1>4, <1>5 DEF Next

\* The data stack, the values and the ownership of the lazies, at every step of
\* lazy_eval and lazy_free (cc_eval.c:469-594, cc_lazy.c:107-183).
THEOREM LazyInvariance == Spec => []LInv
<1>1. Init => LInv
  BY InitStep
<1> QED
  BY <1>1, LInvInductive, PTL DEF Spec

\* The words of the data stack and the values in the tree agree at every step, and
\* each lazy has one holder until it is freed.
THEOREM TreeKept == Spec => []TreeInv
<1>1. LInv => TreeInv
  BY DEF LInv, TreeInv
<1> QED
  BY <1>1, LazyInvariance, PTL

\* Every variable keeps its type.
THEOREM LazyTypeCorrect == Spec => []TypeOK
<1>1. LInv => TypeOK
  BY DEF LInv
<1> QED
  BY <1>1, LazyInvariance, PTL

\* No assert of lazy_eval fails, for every forest of lazies: there is a word for
\* every fold and apply, the word of an apply is 0 or 1, none is left at the end,
\* and no callback runs while an error is pending (cc_eval.c:380-384, 487, 560, 590).
THEOREM AssertsNeverFail == Spec => []AssertsHold
<1>1. ASSUME LInv PROVE AssertsHold
  <2> SUFFICES ASSUME pc = "turn" PROVE AssertsHold
    BY DEF AssertsHold
  <2>1. rc = "running" /\ err = "none" /\ results \in Seq(Pointers) /\ words \in Seq(Nat)
    BY <1>1 DEF LInv, ControlInv, TypeOK
  <2>2. results = <<>> => words = <<>>
    <3> SUFFICES ASSUME results = <<>> PROVE words = <<>>
      OBVIOUS
    <3>1. Level = 0
      BY EmptySeq DEF Level
    <3> QED
      BY <1>1, <2>1, <3>1, EmptySeq DEF LInv, PathInv
  <2>3. ASSUME results # <<>>, Recursive(Top) PROVE words # <<>>
    <3>1. PICK n \in Nodes : At(n, {"FOLD", "APPLY"})
      BY <2>3 DEF Recursive, At
    <3> QED
      BY <1>1, <3>1, TopFacts
  <2>4. ASSUME NEW n \in Nodes, At(n, {"APPLY"}) PROVE Final(words) \in {0, 1}
    <3>1. At(n, {"FOLD", "APPLY"}) /\ forest.type[n] = "APPLY"
      BY <2>4 DEF At
    <3>2. Final(words) \in 0 .. 1
      BY <1>1, <3>1, TopFacts
    <3> QED
      BY <3>2
  <2> QED
    BY <2>1, <2>2, <2>3, <2>4 DEF AssertsHold
<1> QED
  BY <1>1, LazyInvariance, PTL

\* Whichever callback fails and wherever in the tree, nothing that is not a lazy
\* is freed as one, and no lazy is freed twice: unless an allocation fails
\* (cc_eval.c:449-467, 582-584, 923-927, cc_lazy.c:133-183).
THEOREM FreesOnlyLazies == Spec => []NothingUndefined
<1>1. LInv => NothingUndefined
  BY DEF LInv, ControlInv, NothingUndefined
<1> QED
  BY <1>1, LazyInvariance, PTL
=============================================================================
