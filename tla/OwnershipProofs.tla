-------------------------- MODULE OwnershipProofs --------------------------
(***************************************************************************)
(* Proofs about Ownership, for any number of parsers and of references a   *)
(* client may hold.                                                        *)
(***************************************************************************)
EXTENDS Ownership, SequenceTheorems, FiniteSetTheorems, TLAPS

\* A cc_bind that is returned to cc_fix loses its binding (cc_combinator.c:355).
ASSUME FixAssumption == "bind" \notin FixKinds

Releases(p) == [op |-> "release", p |-> p]
Frees(p)    == [op |-> "free", p |-> p]

\* The parsers on whose children parser_free is at work, and those that still hold theirs.
Dying == {p \in Objects : \E i \in DOMAIN todo : todo[i] = Frees(p)}
Open  == live \ Dying

\* The places from which p is referred to: children, those of them for which a
\* reference was consumed, and what is to be released.
Slots(p) ==
  {s \in Objects \X {1, 2} :
     s[1] \in Open /\ s[2] \in DOMAIN shape[s[1]].kids /\ shape[s[1]].kids[s[2]] = p}
Owned(p) == {s \in Slots(p) : s[2] \notin shape[s[1]].borrowed}
Jobs(p)  == {i \in DOMAIN todo : todo[i] = Releases(p)}

\* How often the count of a dying parser went below zero.
Spent(p) == IF rc[p] = 0 THEN 0 ELSE CountBound - rc[p]

Shapes == [kind : DOMAIN Arity, kids : Seq(Objects), data : Objects \cup {Null},
           borrowed : SUBSET Nat]
TodoJobs == [op : {"release", "free"}, p : Objects \cup {Null}]

TypeInv ==
  /\ made \in 0 .. Cardinality(Objects) /\ live \subseteq 1 .. made /\ blocks \subseteq 1 .. made
  /\ shape \in [Objects -> Shapes] /\ rc \in [Objects -> 0 .. CountBound - 1]
  /\ handles \in [Objects -> 0 .. MaxHandles]
  /\ fixing \in Seq(Objects) /\ todo \in Seq(TodoJobs)
  /\ spoiled \in BOOLEAN /\ undefined \in BOOLEAN
  /\ \A p \in Objects : DOMAIN shape[p].kids \subseteq {1, 2} /\ Kids(p) \subseteq 1 .. made
  /\ \A p \in Objects : p > made => shape[p] = NoShape /\ handles[p] = 0
  /\ Selves \subseteq 1 .. made

\* However it came about: a parser that is being freed is released less often than
\* would take its count to zero again.
BoundInv ==
  /\ \A p \in Objects : Cardinality(Slots(p)) + Cardinality(Jobs(p))
       + (IF p \in Dying THEN Spent(p) ELSE 0) <= 2 * Cardinality(Objects) + 2
  /\ FreedOnce

\* What is referred to was not freed.
LiveInv ==
  /\ Selves \subseteq Open /\ Dying \subseteq live
  /\ \A p \in Objects : handles[p] > 0 => p \in Open
  /\ \A q \in Open : Kids(q) \subseteq live
  /\ \A i \in DOMAIN todo : todo[i].p \in live \cup {Null}

\* A placeholder is filled when its function has returned; its own references to
\* itself are borrowed.
FixingInv ==
  /\ \A i, j \in DOMAIN fixing : fixing[i] = fixing[j] => i = j
  /\ \A p \in Selves : shape[p] = NoShape /\ handles[p] = 0 /\ Owned(p) = {}
  /\ \A q \in Objects : \A i \in DOMAIN todo : todo[i].p = q => Reach(q) \cap Selves = {}

\* A count is the number of references it stands for.
CountInv ==
  \A p \in Open :
    /\ rc[p] = handles[p] + (IF p \in Selves THEN 1 ELSE 0)
                 + Cardinality(Owned(p)) + Cardinality(Jobs(p))
    /\ rc[p] > 0

\* While no failure has spoilt it and no freed memory was used, the count of a parser
\* is the number of references that were consumed or are held to it and were not yet given back, in the middle of
\* a cascade of releases too (cc_parser.c:9-124); those a recursive parser has to
\* itself are not among them.
CountsAreExact == ~spoiled /\ ~undefined => CountInv

\* A parser dies when the last of these is gone; what comes back to it is on the way.
DyingInv ==
  \A p \in Dying :
    /\ Owned(p) = {}
    /\ \A i, j \in DOMAIN todo : todo[i] = Releases(p) /\ todo[j] = Frees(p) => i > j

\* Consumed references never form a circle.
AcyclicInv ==
  \A S \in SUBSET Objects : S # {} => \E p \in S : \A s \in Owned(p) : s[1] \notin S

\* Parsers U to which only p leads and from which p is borrowed, if at all.
Inside(U, p) ==
  /\ p \notin U /\ \A s \in Slots(p) \ Owned(p) : s[1] \in U \cup {p}
  /\ \A u \in U : /\ handles[u] = 0 /\ u \notin Selves /\ Jobs(u) = {}
                  /\ \A s \in Owned(u) : s[1] \in U \cup {p}

\* A recursive parser is the only way to those that lead back to it.
EnclosedInv == \A p \in Open \ Selves : \E U \in SUBSET Open : Inside(U, p)

\* Those that lead back to a dying parser go before it does.
Before(U, j, p) ==
  /\ \A s \in Slots(p) : s[1] \in U
  /\ \A u \in U : /\ handles[u] = 0 /\ u \notin Selves /\ \A i \in Jobs(u) : i > j
                  /\ \A s \in Owned(u) : s[1] \in U

DoomedInv ==
  \A j \in DOMAIN todo : \A p \in Objects :
    todo[j] = Frees(p) => \E U \in SUBSET Open : Before(U, j, p)

\* The array or binding of a parser is its own.
DataInv ==
  /\ \A p \in live : shape[p].data \in blocks \cup {Null}
  /\ \A p, q \in live : shape[p].data = shape[q].data /\ shape[p].data # Null => p = q
  /\ \A b \in blocks : \E p \in live : shape[p].data = b

SoundInv ==
  /\ ~undefined
  /\ LiveInv /\ FixingInv /\ CountInv /\ DyingInv /\ AcyclicInv
  /\ EnclosedInv /\ DoomedInv /\ DataInv

CompiledType ==
  /\ ir \in [Objects -> Objects \cup {Null}] /\ programs \subseteq 1 .. made /\ stale \in BOOLEAN

\* A program has its owner, which is filled and alive; whatever names a program owns
\* it, until a function of cc_fix has returned one that has a program.
ProgramInv ==
  /\ \A g \in programs : g \in live /\ ir[g] = g
  /\ \A q \in Objects : ir[q] # Null => q \in live \ Selves
  /\ ~stale => \A q \in Objects : ir[q] = Null \/ (ir[q] = q /\ q \in programs)

\* What keeps the counts right, recursive parsers included (cc_parser.c:17-124,
\* cc_combinator.c:340-361).
OInv ==
  /\ TypeInv /\ CompiledType /\ BoundInv
  /\ ~spoiled /\ ~undefined => SoundInv /\ ProgramInv
  /\ NothingUndefined
-----------------------------------------------------------------------------
(* What a call gives back, and the counts of what is given.                *)

LEMMA Total == Cardinality(Objects) \in Nat /\ CountBound \in Nat /\ MaxHandles \in Nat \ {0}
  BY OwnershipAssumption, FS_CardinalityType

\* As many numbers are left when each is counted from the other end.
LEMMA Mirrored ==
  ASSUME NEW n \in Nat, NEW m \in Nat, NEW D \in SUBSET (1 .. n)
  PROVE  /\ IsFiniteSet(D) /\ IsFiniteSet({i \in m + 1 .. m + n : m + n + 1 - i \in D})
         /\ Cardinality({i \in m + 1 .. m + n : m + n + 1 - i \in D}) = Cardinality(D)
  <1> DEFINE E == {i \in m + 1 .. m + n : m + n + 1 - i \in D}
             f == [d \in D |-> m + n + 1 - d]
  <1>1. IsFiniteSet(D)
    <2>1. IsFiniteSet(1 .. n)
      BY FS_Interval
    <2> QED
      BY <2>1, FS_Subset
  <1>2. \A d \in D : d \in Int /\ f[d] = m + n + 1 - d /\ f[d] \in E
    <2>1. \A d \in D : d \in Int /\ d >= 1 /\ d <= n
      OBVIOUS
    <2>2. \A d \in D : m + n + 1 - (m + n + 1 - d) = d
      BY <2>1
    <2>3. \A d \in D : m + n + 1 - d \in m + 1 .. m + n
      BY <2>1
    <2> QED
      BY <2>1, <2>2, <2>3
  <1>3. f \in [D -> E]
    BY <1>2
  <1>4. \A i \in E : \E d \in D : f[d] = i
    <2> TAKE i \in E
    <2>1. i \in Int /\ m + n + 1 - i \in D
      OBVIOUS
    <2>2. m + n + 1 - (m + n + 1 - i) = i
      BY <2>1
    <2> QED
      BY <2>1, <2>2
  <1>5. \A c, d \in D : f[c] = f[d] => c = d
    BY <1>2
  <1> HIDE DEF f
  <1>6. f \in Bijection(D, E)
    BY <1>3, <1>4, <1>5 DEF Bijection, Injection, Surjection, IsInjective
  <1>7. ExistsBijection(D, E)
    BY <1>6 DEF ExistsBijection
  <1> QED
    BY <1>1, <1>7, FS_Bijection

LEMMA GivenBackIs ==
  ASSUME NEW n \in Nat, NEW args, DOMAIN args = 1 .. n
  PROVE  /\ GivenBack(args) = [i \in 1 .. n |-> Releases(args[n + 1 - i])]
         /\ DOMAIN GivenBack(args) = 1 .. n
  <1> DEFINE s == [i \in 1 .. n |-> Releases(args[i])]
  <1>1. s = [i \in DOMAIN args |-> [op |-> "release", p |-> args[i]]]
    BY DEF Releases
  <1>2. DOMAIN s = 1 .. n
    OBVIOUS
  <1>3. s \in Seq({s[i] : i \in 1 .. n})
    OBVIOUS
  <1>4. Len(s) = n
    BY <1>2, <1>3
  <1>5. GivenBack(args) = [i \in 1 .. n |-> s[n - i + 1]]
    BY <1>1, <1>4 DEF GivenBack, Reverse
  <1>6. \A i \in 1 .. n : s[n - i + 1] = Releases(args[n + 1 - i])
    <2> TAKE i \in 1 .. n
    <2>1. n - i + 1 = n + 1 - i /\ n - i + 1 \in 1 .. n
      OBVIOUS
    <2> QED
      BY <2>1
  <1> QED
    BY <1>5, <1>6

-----------------------------------------------------------------------------
(* What can be reached.                                                    *)

LEMMA ReachLeast ==
  ASSUME NEW p \in Objects, NEW S \in SUBSET Objects, p \in S, \A r \in S : Kids(r) \subseteq S
  PROVE  Reach(p) \subseteq S
  BY DEF Reach

LEMMA ReachSelf ==
  ASSUME NEW p \in Objects
  PROVE  p \in Reach(p)
  BY DEF Reach

LEMMA ReachKids ==
  ASSUME NEW p \in Objects, NEW q \in Reach(p), NEW k \in Kids(q), k \in Objects
  PROVE  k \in Reach(p)
  BY DEF Reach

LEMMA ReachFrom ==
  ASSUME NEW p \in Objects, NEW k \in Kids(p), k \in Objects,
         \A r \in Objects : Kids(r) \subseteq Objects
  PROVE  Reach(k) \subseteq Reach(p)
  <1>1. k \in Reach(p)
    BY ReachSelf, ReachKids
  <1>2. \A r \in Reach(p) : Kids(r) \subseteq Reach(p)
    <2> TAKE r \in Reach(p)
    <2>1. r \in Objects
      BY DEF Reach
    <2> QED
      BY <2>1, ReachKids
  <1>3. Reach(p) \in SUBSET Objects
    BY DEF Reach
  <1> QED
    BY <1>1, <1>2, <1>3, ReachLeast
\* The releases of what a parser was given stand in the places m + 1 .. m + n.
BackJobs(args, q, m, n) == {i \in m + 1 .. m + n : GivenBack(args)[i - m] = Releases(q)}

LEMMA GivenBackCount ==
  ASSUME NEW n \in Nat, NEW m \in Nat, NEW args, DOMAIN args = 1 .. n, NEW q
  PROVE  IsFiniteSet(BackJobs(args, q, m, n)) /\ Cardinality(BackJobs(args, q, m, n)) = Uses(args, q)
  <1> DEFINE J == BackJobs(args, q, m, n)
             D == {i \in 1 .. n : args[i] = q}
             E == {i \in m + 1 .. m + n : m + n + 1 - i \in D}
  <1>1. \A i \in m + 1 .. m + n : GivenBack(args)[i - m] = Releases(q) <=> m + n + 1 - i \in D
    <2> TAKE i \in m + 1 .. m + n
    <2>1. i - m \in 1 .. n /\ n + 1 - (i - m) = m + n + 1 - i /\ m + n + 1 - i \in 1 .. n
      OBVIOUS
    <2>2. GivenBack(args)[i - m] = Releases(args[m + n + 1 - i])
      BY <2>1, GivenBackIs
    <2>3. Releases(args[m + n + 1 - i]) = Releases(q) <=> args[m + n + 1 - i] = q
      BY DEF Releases
    <2> QED
      BY <2>1, <2>2, <2>3
  <1>2. J = E
    BY <1>1 DEF BackJobs
  <1>3. D \in SUBSET (1 .. n)
    OBVIOUS
  <1> HIDE DEF D
  <1>4. IsFiniteSet(E) /\ Cardinality(E) = Cardinality(D)
    BY <1>3, Mirrored
  <1>5. {i \in DOMAIN args : args[i] = q} = D
    BY DEF D
  <1> QED
    BY <1>2, <1>4, <1>5 DEF Uses

LEMMA GivenBackType ==
  ASSUME NEW n \in Nat, NEW args \in [1 .. n -> Objects \cup {Null}]
  PROVE  GivenBack(args) \in Seq(TodoJobs) /\ Len(GivenBack(args)) = n
  <1>1. \A i \in 1 .. n : Releases(args[n + 1 - i]) \in TodoJobs
    <2> TAKE i \in 1 .. n
    <2>1. n + 1 - i \in 1 .. n
      OBVIOUS
    <2>2. args[n + 1 - i] \in Objects \cup {Null}
      BY <2>1
    <2> QED
      BY <2>2 DEF Releases, TodoJobs
  <1>2. [i \in 1 .. n |-> Releases(args[n + 1 - i])] \in Seq(TodoJobs)
    BY <1>1
  <1> QED
    BY <1>2, GivenBackIs

LEMMA Arities == \A kind \in Kinds : Arity[kind] \in {0, 1, 2} /\ Arity[kind] \in Nat
  BY OwnershipAssumption DEF Arity

LEMMA ModRange ==
  ASSUME NEW c \in Int
  PROVE  c % CountBound \in 0 .. CountBound - 1
  <1>1. CountBound \in Nat /\ CountBound > 0
    BY Total, CountAssumption
  <1> QED
    BY <1>1

LEMMA UsesType ==
  ASSUME NEW n \in Nat, NEW args, DOMAIN args = 1 .. n, NEW q
  PROVE  Uses(args, q) \in Nat /\ Uses(args, q) <= n
  <1>1. IsFiniteSet(1 .. n) /\ Cardinality(1 .. n) = n
    BY FS_Interval
  <1>2. {i \in DOMAIN args : args[i] = q} \in SUBSET (1 .. n)
    OBVIOUS
  <1> QED
    BY <1>1, <1>2, FS_Subset, FS_CardinalityType DEF Uses

LEMMA ConsumedType ==
  ASSUME TypeInv, NEW n \in Nat, NEW args, DOMAIN args = 1 .. n, Given(args)
  PROVE  /\ Consumed(args) \in [Objects -> 0 .. MaxHandles]
         /\ \A q \in Objects : Consumed(args)[q] <= handles[q]
  <1> SUFFICES ASSUME NEW q \in Objects
               PROVE  Consumed(args)[q] \in 0 .. MaxHandles /\ Consumed(args)[q] <= handles[q]
    BY DEF Consumed
  <1>1. handles[q] \in 0 .. MaxHandles /\ MaxHandles \in Nat
    BY Total DEF TypeInv
  <1>2. Uses(args, q) \in Nat
    BY UsesType
  <1>3. q \notin Selves => Uses(args, q) <= handles[q]
    BY DEF Given
  <1>4. Consumed(args)[q] = IF q \in Selves THEN 0 ELSE handles[q] - Uses(args, q)
    BY DEF Consumed
  <1> QED
    BY <1>1, <1>2, <1>3, <1>4

-----------------------------------------------------------------------------
(* Types.                                                                  *)

LEMMA TypeInit == Init => TypeInv
  <1> SUFFICES ASSUME Init PROVE TypeInv
    OBVIOUS
  <1>1. NoShape \in Shapes /\ DOMAIN NoShape.kids = {} /\ NoShape.kids = <<>>
    BY DEF NoShape, Shapes, Arity
  <1>2. CountBound \in Nat /\ CountBound > 0 /\ MaxHandles \in Nat /\ Cardinality(Objects) \in Nat
    BY Total, CountAssumption
  <1>3. made \in 0 .. Cardinality(Objects) /\ live \subseteq 1 .. made /\ blocks \subseteq 1 .. made
    BY <1>2 DEF Init
  <1>4. shape \in [Objects -> Shapes] /\ rc \in [Objects -> 0 .. CountBound - 1]
          /\ handles \in [Objects -> 0 .. MaxHandles]
    BY <1>1, <1>2 DEF Init
  <1>5. fixing \in Seq(Objects) /\ todo \in Seq(TodoJobs) /\ Selves = {}
    BY DEF Init, Selves
  <1>6. \A p \in Objects : DOMAIN shape[p].kids \subseteq {1, 2} /\ Kids(p) \subseteq 1 .. made
    BY <1>1 DEF Init, Kids
  <1>7. \A p \in Objects : p > made => shape[p] = NoShape /\ handles[p] = 0
    BY DEF Init
  <1> QED
    BY <1>3, <1>4, <1>5, <1>6, <1>7 DEF Init, TypeInv

LEMMA ObjectsAre == Objects = 1 .. Cardinality(Objects) /\ Null \notin Objects
                      /\ Objects \subseteq Nat
  BY OwnershipAssumption, Total

\* The places of what is between two sequences of jobs.
LEMMA FrontIs ==
  ASSUME NEW s \in Seq(TodoJobs), s # <<>>
  PROVE  /\ Front(s) \in Seq(TodoJobs) /\ Len(s) \in Nat \ {0}
         /\ Len(Front(s)) = Len(s) - 1 /\ DOMAIN Front(s) = 1 .. Len(s) - 1
         /\ DOMAIN s = 1 .. Len(s)
         /\ \A i \in 1 .. Len(s) - 1 : Front(s)[i] = s[i]
  <1>1. Len(s) \in Nat \ {0} /\ DOMAIN s = 1 .. Len(s)
    OBVIOUS
  <1>2. Front(s) = [i \in 1 .. Len(s) - 1 |-> s[i]]
    BY <1>1 DEF Front
  <1>3. Len(s) - 1 \in Nat
    BY <1>1
  <1>4. \A i \in 1 .. Len(s) - 1 : s[i] \in TodoJobs
    BY <1>1
  <1> HIDE DEF Front
  <1>5. Front(s) \in Seq(TodoJobs) /\ Len(Front(s)) = Len(s) - 1
    BY <1>2, <1>3, <1>4
  <1> QED
    BY <1>1, <1>2, <1>5
\* The step of one action changes these at most: the other conjuncts of TypeInv are about
\* what it leaves alone.
LEMMA TypeOfShapes ==
  ASSUME TypeInv, made' \in made .. Cardinality(Objects), NEW p \in Objects, p <= made', NEW sh \in Shapes,
         DOMAIN sh.kids \subseteq {1, 2}, \A i \in DOMAIN sh.kids : sh.kids[i] \in 1 .. made',
         shape' = [shape EXCEPT ![p] = sh]
  PROVE  /\ shape' \in [Objects -> Shapes]
         /\ \A q \in Objects :
              /\ DOMAIN shape'[q].kids \subseteq {1, 2}
              /\ {shape'[q].kids[i] : i \in DOMAIN shape'[q].kids} \subseteq 1 .. made'
              /\ q > made' => shape'[q] = NoShape
  <1>1. shape \in [Objects -> Shapes] /\ made \in Nat /\ made' \in Nat /\ made <= made'
    BY Total DEF TypeInv
  <1>2. shape' \in [Objects -> Shapes]
    BY <1>1
  <1> SUFFICES ASSUME NEW q \in Objects
               PROVE  /\ DOMAIN shape'[q].kids \subseteq {1, 2}
                      /\ {shape'[q].kids[i] : i \in DOMAIN shape'[q].kids} \subseteq 1 .. made'
                      /\ q > made' => shape'[q] = NoShape
    BY <1>2
  <1>3. CASE q = p
    <2>1. shape'[q] = sh /\ q \in Nat
      BY <1>1, <1>3, ObjectsAre
    <2> QED
      BY <1>1, <1>3, <2>1
  <1>4. CASE q # p
    <2>1. shape'[q] = shape[q] /\ q \in Nat
      BY <1>1, <1>4, ObjectsAre
    <2>2. DOMAIN shape[q].kids \subseteq {1, 2} /\ Kids(q) \subseteq 1 .. made
      BY DEF TypeInv
    <2>3. q > made => shape[q] = NoShape
      BY DEF TypeInv
    <2> QED
      BY <1>1, <2>1, <2>2, <2>3 DEF Kids
  <1> QED
    BY <1>3, <1>4

LEMMA AllocatedType ==
  ASSUME TypeInv, NEW p \in Objects, Allocated(p)
  PROVE  /\ made' \in made .. Cardinality(Objects) /\ made' \in 0 .. Cardinality(Objects)
         /\ p = made' /\ p \in 1 .. made' /\ p > made /\ p \notin live /\ made' = made + 1
         /\ live' \subseteq 1 .. made'
         /\ rc' \in [Objects -> 0 .. CountBound - 1]
  <1>1. made \in 0 .. Cardinality(Objects) /\ live \subseteq 1 .. made /\ Cardinality(Objects) \in Nat
          /\ rc \in [Objects -> 0 .. CountBound - 1]
    BY Total DEF TypeInv
  <1>2. p \in 1 .. Cardinality(Objects) /\ p = made + 1 /\ made' = p
    BY ObjectsAre DEF Allocated
  <1>3. 1 \in 0 .. CountBound - 1
    BY Total, CountAssumption
  <1>4. rc' \in [Objects -> 0 .. CountBound - 1]
    BY <1>1, <1>3 DEF Allocated
  <1>5. live' = live \cup {p}
    BY DEF Allocated
  <1>6. p \notin live
    BY <1>1, <1>2
  <1>7. live' \subseteq 1 .. made'
    BY <1>1, <1>2, <1>5
  <1>8. made' \in made .. Cardinality(Objects) /\ made' \in 0 .. Cardinality(Objects) /\ p \in 1 .. made'
          /\ p > made
    BY <1>1, <1>2
  <1> QED
    BY <1>2, <1>4, <1>6, <1>7, <1>8

\* What a client can give to a call was allocated.
LEMMA UsableType ==
  ASSUME TypeInv
  PROVE  \A q \in Usable : q = Null \/ (q \in Objects /\ q \in 1 .. made)
  <1>1. \A q \in Objects : handles[q] > 0 => q \in 1 .. made
    <2> TAKE q \in Objects
    <2>1. q \in Nat /\ q >= 1 /\ made \in Nat
      BY ObjectsAre, Total DEF TypeInv
    <2>2. q > made => handles[q] = 0
      BY DEF TypeInv
    <2> QED
      BY <2>1, <2>2
  <1>2. Selves \subseteq 1 .. made /\ Selves \subseteq Objects
    <2>1. \A i \in DOMAIN fixing : fixing[i] \in Objects
      BY DEF TypeInv
    <2> QED
      BY <2>1 DEF TypeInv, Selves
  <1> QED
    BY <1>1, <1>2 DEF Usable

LEMMA ConstructType ==
  ASSUME TypeInv, NEW kind \in Kinds, NEW args \in [1 .. Arity[kind] -> Usable], Construct(kind, args)
  PROVE  TypeInv'
  <1> PICK p \in Objects :
        /\ Allocated(p)
        /\ shape' = [shape EXCEPT ![p] =
             [kind |-> kind, kids |-> args, data |-> IF HasData(kind) THEN p ELSE Null,
              borrowed |-> {i \in DOMAIN args : args[i] \in Selves}]]
        /\ blocks' = IF HasData(kind) THEN blocks \cup {p} ELSE blocks
        /\ handles' = [Consumed(args) EXCEPT ![p] = 1]
    BY DEF Construct
  <1> DEFINE sh == [kind |-> kind, kids |-> args, data |-> IF HasData(kind) THEN p ELSE Null,
                    borrowed |-> {i \in DOMAIN args : args[i] \in Selves}]
  <1>1. /\ made' \in made .. Cardinality(Objects) /\ made' \in 0 .. Cardinality(Objects)
        /\ p = made' /\ p \in 1 .. made' /\ p > made /\ made' = made + 1 /\ live' \subseteq 1 .. made'
        /\ rc' \in [Objects -> 0 .. CountBound - 1]
    BY AllocatedType
  <1>2. made \in Nat /\ made' \in Nat /\ made <= made'
    BY <1>1, Total DEF TypeInv
  <1>3. \A i \in DOMAIN args : args[i] \in Objects /\ args[i] \in 1 .. made'
    <2> TAKE i \in DOMAIN args
    <2>1. args[i] \in Usable /\ args[i] # Null
      BY DEF Construct, Range
    <2>2. args[i] \in Objects /\ args[i] \in 1 .. made
      BY <2>1, UsableType
    <2> QED
      BY <1>2, <2>2
  <1>4. DOMAIN args \subseteq {1, 2} /\ DOMAIN args = 1 .. Arity[kind] /\ Arity[kind] \in Nat
    BY Arities
  <1>5. args \in Seq(Objects)
    BY <1>3, <1>4
  <1>6. sh \in Shapes
    <2>1. kind \in DOMAIN Arity
      BY OwnershipAssumption
    <2>2. {i \in DOMAIN args : args[i] \in Selves} \in SUBSET Nat
      BY <1>4
    <2> QED
      BY <1>5, <2>1, <2>2 DEF Shapes
  <1>7. sh.kids = args
    OBVIOUS
  <1>8. shape' = [shape EXCEPT ![p] = sh]
    OBVIOUS
  <1> HIDE DEF sh
  <1>9. p <= made' /\ DOMAIN sh.kids \subseteq {1, 2} /\ \A i \in DOMAIN sh.kids : sh.kids[i] \in 1 .. made'
    BY <1>1, <1>2, <1>3, <1>4, <1>7
  <1>10. /\ shape' \in [Objects -> Shapes]
         /\ \A q \in Objects :
              /\ DOMAIN shape'[q].kids \subseteq {1, 2}
              /\ {shape'[q].kids[i] : i \in DOMAIN shape'[q].kids} \subseteq 1 .. made'
              /\ q > made' => shape'[q] = NoShape
    BY <1>1, <1>6, <1>8, <1>9, TypeOfShapes
  <1>11. Consumed(args) \in [Objects -> 0 .. MaxHandles]
         /\ \A q \in Objects : Consumed(args)[q] <= handles[q]
    BY <1>4, ConsumedType DEF Construct
  <1>12. handles' \in [Objects -> 0 .. MaxHandles]
    <2>1. 1 \in 0 .. MaxHandles
      BY Total
    <2> QED
      BY <1>11, <2>1
  <1>13. \A q \in Objects : q > made' => handles'[q] = 0
    <2> SUFFICES ASSUME NEW q \in Objects, q > made'
                 PROVE  handles'[q] = 0
      OBVIOUS
    <2>1. q \in Nat /\ q # p /\ q > made
      BY <1>1, <1>2, ObjectsAre
    <2>2. handles[q] = 0
      BY <2>1 DEF TypeInv
    <2>3. handles'[q] = Consumed(args)[q] /\ Consumed(args)[q] \in 0 .. MaxHandles
      BY <1>11, <2>1
    <2>4. Consumed(args)[q] <= handles[q]
      BY <1>11
    <2> QED
      BY <2>2, <2>3, <2>4, Total
  <1>14. blocks' \subseteq 1 .. made'
    BY <1>1, <1>2 DEF TypeInv
  <1>15. fixing' \in Seq(Objects) /\ todo' \in Seq(TodoJobs) /\ spoiled' \in BOOLEAN /\ undefined' \in BOOLEAN
         /\ Selves' \subseteq 1 .. made'
    BY <1>2 DEF Construct, TypeInv, Selves
  <1> QED
    BY <1>1, <1>10, <1>12, <1>13, <1>14, <1>15 DEF TypeInv, Kids
LEMMA ConstructFailsType ==
  ASSUME TypeInv, NEW kind \in Kinds, NEW args \in [1 .. Arity[kind] -> Usable],
         ConstructFails(kind, args)
  PROVE  TypeInv'
  <1>1. DOMAIN args = 1 .. Arity[kind] /\ Arity[kind] \in Nat
    BY Arities
  <1>2. Consumed(args) \in [Objects -> 0 .. MaxHandles]
         /\ \A q \in Objects : Consumed(args)[q] <= handles[q]
    BY <1>1, ConsumedType DEF ConstructFails
  <1>3. handles' = Consumed(args) /\ todo' = GivenBack(args)
    BY DEF ConstructFails
  <1>4. \A q \in Objects : q > made => handles'[q] = 0
    <2> SUFFICES ASSUME NEW q \in Objects, q > made
                 PROVE  handles'[q] = 0
      OBVIOUS
    <2>1. handles[q] = 0
      BY DEF TypeInv
    <2>2. handles'[q] \in 0 .. MaxHandles /\ handles'[q] <= 0
      BY <1>2, <1>3, <2>1
    <2> QED
      BY <2>2, Total
  <1>5. args \in [1 .. Arity[kind] -> Objects \cup {Null}]
    BY UsableType
  <1>6. todo' \in Seq(TodoJobs)
    BY <1>1, <1>3, <1>5, GivenBackType
  <1>7. spoiled' \in BOOLEAN
    BY DEF ConstructFails
  <1> QED
    BY <1>2, <1>3, <1>4, <1>6, <1>7 DEF ConstructFails, TypeInv, Kids, Selves

LEMMA GiveType ==
  ASSUME TypeInv, NEW p \in Objects, handles[p] > 0, Give(p), undefined' \in BOOLEAN
  PROVE  TypeInv'
  <1>1. handles' = [handles EXCEPT ![p] = @ - 1]
    BY DEF Give
  <1>2. handles[p] - 1 \in 0 .. MaxHandles
    BY Total DEF TypeInv
  <1>3. handles' \in [Objects -> 0 .. MaxHandles]
    BY <1>1, <1>2 DEF TypeInv
  <1>4. \A q \in Objects : q > made => handles'[q] = 0
    <2> SUFFICES ASSUME NEW q \in Objects, q > made
                 PROVE  handles'[q] = 0
      OBVIOUS
    <2>1. handles[q] = 0
      BY DEF TypeInv
    <2>2. q # p
      BY <2>1
    <2> QED
      BY <1>1, <2>1, <2>2 DEF TypeInv
  <1>5. todo' \in Seq(TodoJobs)
    <2>1. [op |-> "release", p |-> p] \in TodoJobs
      BY DEF TodoJobs
    <2> QED
      BY <2>1 DEF Give
  <1>6. /\ made' = made /\ live' = live /\ blocks' = blocks /\ shape' = shape /\ rc' = rc
        /\ fixing' = fixing /\ spoiled' = spoiled
    BY DEF Give
  <1>7. Selves' = Selves /\ \A q : Kids(q)' = Kids(q)
    BY <1>6 DEF Selves, Kids
  <1> QED
    BY <1>3, <1>4, <1>5, <1>6, <1>7 DEF TypeInv

LEMMA RetainType ==
  ASSUME TypeInv, NEW p \in Objects, cc_retain(p)
  PROVE  TypeInv'
  <1>1. handles' = [handles EXCEPT ![p] = @ + 1] /\ handles[p] \in 1 .. MaxHandles - 1
    BY DEF cc_retain
  <1>2. handles[p] + 1 \in 0 .. MaxHandles
    BY <1>1, Total
  <1>3. handles' \in [Objects -> 0 .. MaxHandles]
    BY <1>1, <1>2 DEF TypeInv
  <1>4. \A q \in Objects : q > made => handles'[q] = 0
    <2> SUFFICES ASSUME NEW q \in Objects, q > made
                 PROVE  handles'[q] = 0
      OBVIOUS
    <2>1. handles[q] = 0
      BY DEF TypeInv
    <2>2. q # p
      BY <1>1, <2>1
    <2> QED
      BY <1>1, <2>1, <2>2 DEF TypeInv
  <1>5. rc' \in [Objects -> 0 .. CountBound - 1]
    <2>1. rc[p] + 1 \in Int
      BY Total DEF TypeInv
    <2>2. (rc[p] + 1) % CountBound \in 0 .. CountBound - 1
      BY <2>1, ModRange
    <2> QED
      BY <2>2 DEF cc_retain, TypeInv
  <1> QED
    BY <1>3, <1>4, <1>5 DEF cc_retain, TypeInv, Kids, Selves

LEMMA FixBeginType ==
  ASSUME TypeInv, FixBegin
  PROVE  TypeInv'
  <1> PICK p \in Objects : Allocated(p) /\ fixing' = Append(fixing, p)
    BY DEF FixBegin
  <1>1. /\ made' \in made .. Cardinality(Objects) /\ made' \in 0 .. Cardinality(Objects)
        /\ p = made' /\ p \in 1 .. made' /\ made' = made + 1 /\ live' \subseteq 1 .. made'
        /\ rc' \in [Objects -> 0 .. CountBound - 1]
    BY AllocatedType
  <1>2. made \in Nat /\ made' \in Nat /\ made <= made'
    BY <1>1, Total DEF TypeInv
  <1>3. fixing' \in Seq(Objects) /\ Selves' = Selves \cup {p}
    <2>1. fixing \in Seq(Objects)
      BY DEF TypeInv
    <2>2. DOMAIN fixing' = 1 .. Len(fixing) + 1 /\ DOMAIN fixing = 1 .. Len(fixing) /\ Len(fixing) \in Nat
          /\ fixing' \in Seq(Objects)
      BY <2>1
    <2>3. \A i \in 1 .. Len(fixing) + 1 : fixing'[i] = IF i = Len(fixing) + 1 THEN p ELSE fixing[i]
      BY <2>1
    <2>4. \A i \in DOMAIN fixing : i \in DOMAIN fixing' /\ fixing'[i] = fixing[i]
      BY <2>2, <2>3
    <2>5. Len(fixing) + 1 \in DOMAIN fixing' /\ fixing'[Len(fixing) + 1] = p
      BY <2>2, <2>3
    <2>6. \A i \in DOMAIN fixing' : fixing'[i] = p \/ (i \in DOMAIN fixing /\ fixing'[i] = fixing[i])
      BY <2>2, <2>3
    <2> QED
      BY <2>2, <2>4, <2>5, <2>6 DEF Selves
  <1>4. Selves' \subseteq 1 .. made' /\ blocks' \subseteq 1 .. made'
    <2>1. 1 .. made \subseteq 1 .. made'
      BY <1>2
    <2>2. Selves \subseteq 1 .. made /\ blocks \subseteq 1 .. made /\ blocks' = blocks
      BY DEF FixBegin, TypeInv
    <2> QED
      BY <1>1, <1>3, <2>1, <2>2
  <1>5. \A q \in Objects : q > made' => q > made
    BY <1>2, ObjectsAre
  <1>6. \A q \in Objects : Kids(q)' = Kids(q)
    BY DEF FixBegin, Kids
  <1>7. \A q \in Objects : DOMAIN shape'[q].kids \subseteq {1, 2} /\ Kids(q)' \subseteq 1 .. made'
    BY <1>2, <1>6 DEF FixBegin, TypeInv
  <1>8. \A q \in Objects : q > made' => shape'[q] = NoShape /\ handles'[q] = 0
    BY <1>5 DEF FixBegin, TypeInv
  <1>9. /\ shape' \in [Objects -> Shapes] /\ handles' \in [Objects -> 0 .. MaxHandles]
        /\ todo' \in Seq(TodoJobs) /\ spoiled' \in BOOLEAN /\ undefined' \in BOOLEAN
    BY DEF FixBegin, TypeInv
  <1> QED
    BY <1>1, <1>3, <1>4, <1>7, <1>8, <1>9 DEF TypeInv

\* The innermost placeholder, and those that stay when its cc_fix returns.
LEMMA FrontFixing ==
  ASSUME TypeInv, fixing # <<>>
  PROVE  /\ Placeholder \in Selves /\ Placeholder \in Objects /\ Len(fixing) \in Nat \ {0}
         /\ Front(fixing) \in Seq(Objects) /\ DOMAIN Front(fixing) = 1 .. Len(fixing) - 1
         /\ DOMAIN fixing = 1 .. Len(fixing)
         /\ \A i \in DOMAIN Front(fixing) : Front(fixing)[i] = fixing[i] /\ i \in DOMAIN fixing
  <1>1. fixing \in Seq(Objects)
    BY DEF TypeInv
  <1>2. Len(fixing) \in Nat \ {0} /\ DOMAIN fixing = 1 .. Len(fixing)
    BY <1>1
  <1>3. Front(fixing) = [i \in 1 .. Len(fixing) - 1 |-> fixing[i]]
    BY <1>1, <1>2 DEF Front
  <1>4. Len(fixing) - 1 \in Nat /\ \A i \in 1 .. Len(fixing) - 1 : fixing[i] \in Objects /\ i \in DOMAIN fixing
    BY <1>1, <1>2
  <1>5. Front(fixing) \in Seq(Objects)
    <2> HIDE DEF Front
    <2> QED
      BY <1>3, <1>4
  <1>6. Placeholder \in Selves /\ Placeholder \in Objects
    BY <1>1, <1>2 DEF Placeholder, Selves
  <1> HIDE DEF Front
  <1> QED
    BY <1>2, <1>3, <1>4, <1>5, <1>6

LEMMA FixFailsType ==
  ASSUME TypeInv, FixFails
  PROVE  TypeInv'
  <1>1. fixing # <<>> /\ fixing' = Front(fixing)
    BY DEF FixFails
  <1>2. fixing' \in Seq(Objects) /\ \A i \in DOMAIN fixing' : fixing'[i] = fixing[i] /\ i \in DOMAIN fixing
    BY <1>1, FrontFixing
  <1>3. Selves' \subseteq Selves
    BY <1>2 DEF Selves
  <1>4. \A q \in Objects : Kids(q)' = Kids(q)
    BY DEF FixFails, Kids
  <1>5. Selves' \subseteq 1 .. made' /\ \A q \in Objects : Kids(q)' \subseteq 1 .. made'
    BY <1>3, <1>4 DEF FixFails, TypeInv
  <1> QED
    BY <1>2, <1>5 DEF FixFails, TypeInv

LEMMA FixEndType ==
  ASSUME TypeInv, NEW p \in Objects, FixEnd(p)
  PROVE  TypeInv'
  <1> DEFINE h == Placeholder
  <1>1. fixing # <<>> /\ fixing' = Front(fixing)
    BY DEF FixEnd
  <1>2. fixing' \in Seq(Objects) /\ \A i \in DOMAIN fixing' : fixing'[i] = fixing[i] /\ i \in DOMAIN fixing
    BY <1>1, FrontFixing
  <1>3. Selves' \subseteq Selves
    BY <1>2 DEF Selves
  <1>4. h \in Objects /\ h \in 1 .. made
    BY <1>1, FrontFixing DEF TypeInv
  <1>5. NoShape \in Shapes /\ DOMAIN NoShape.kids = {} /\ NoShape.kids = <<>>
    BY DEF NoShape, Shapes, Arity
  <1>6. shape' = [shape EXCEPT ![h] = shape[p], ![p] = NoShape]
    BY DEF FixEnd
  <1>7. shape \in [Objects -> Shapes] /\ made' = made
    BY DEF FixEnd, TypeInv
  <1> HIDE DEF h
  <1>8. shape' \in [Objects -> Shapes]
        /\ \A q \in Objects : shape'[q] = IF q = p THEN NoShape ELSE IF q = h THEN shape[p] ELSE shape[q]
    BY <1>4, <1>5, <1>6, <1>7
  <1>9. \A q \in Objects : DOMAIN shape[q].kids \subseteq {1, 2} /\ Kids(q) \subseteq 1 .. made
    BY DEF TypeInv
  <1>10. \A q \in Objects : DOMAIN shape'[q].kids \subseteq {1, 2} /\ Kids(q)' \subseteq 1 .. made'
    <2> TAKE q \in Objects
    <2>1. CASE q = p
      <3>1. shape'[q].kids = <<>> /\ DOMAIN shape'[q].kids = {}
        BY <1>5, <1>8, <2>1
      <3> QED
        BY <3>1 DEF Kids
    <2>2. CASE q # p /\ q = h
      <3>1. shape'[q] = shape[p]
        BY <1>8, <2>2
      <3> QED
        BY <1>7, <1>9, <3>1 DEF Kids
    <2>3. CASE q # p /\ q # h
      <3>1. shape'[q] = shape[q]
        BY <1>8, <2>3
      <3> QED
        BY <1>7, <1>9, <3>1 DEF Kids
    <2> QED
      BY <2>1, <2>2, <2>3
  <1>11. handles' = [handles EXCEPT ![p] = 0, ![h] = 1]
    BY DEF FixEnd, h
  <1>12. handles' \in [Objects -> 0 .. MaxHandles]
    <2>1. 0 \in 0 .. MaxHandles /\ 1 \in 0 .. MaxHandles
      BY Total
    <2> QED
      BY <1>4, <1>11, <2>1 DEF TypeInv
  <1>13. \A q \in Objects : q > made' => shape'[q] = NoShape /\ handles'[q] = 0
    <2> SUFFICES ASSUME NEW q \in Objects, q > made'
                 PROVE  shape'[q] = NoShape /\ handles'[q] = 0
      OBVIOUS
    <2>1. q # h
      BY <1>4, <1>7, Total DEF TypeInv
    <2>2. shape[q] = NoShape /\ handles[q] = 0
      BY <1>7 DEF TypeInv
    <2>3. handles'[q] = 0
      BY <1>4, <1>11, <2>1, <2>2 DEF TypeInv
    <2> QED
      BY <1>8, <2>1, <2>2, <2>3
  <1>14. rc' \in [Objects -> 0 .. CountBound - 1]
    <2>1. 0 \in 0 .. CountBound - 1
      BY Total, CountAssumption
    <2> QED
      BY <2>1 DEF FixEnd, TypeInv
  <1>15. Selves' \subseteq 1 .. made' /\ live' \subseteq 1 .. made' /\ blocks' \subseteq 1 .. made'
    BY <1>3, <1>7 DEF FixEnd, TypeInv
  <1>16. todo' \in Seq(TodoJobs) /\ spoiled' \in BOOLEAN /\ undefined' \in BOOLEAN
         /\ made' \in 0 .. Cardinality(Objects)
    BY <1>7 DEF FixEnd, TypeInv
  <1> QED
    BY <1>2, <1>8, <1>10, <1>12, <1>13, <1>14, <1>15, <1>16 DEF TypeInv
\* The job that is done is one of the releases or the last part of a parser_free.
LEMMA JobType ==
  ASSUME TypeInv, todo # <<>>
  PROVE  /\ Len(todo) \in Nat \ {0} /\ DOMAIN todo = 1 .. Len(todo)
         /\ Job = todo[Len(todo)] /\ Job \in TodoJobs
         /\ Front(todo) \in Seq(TodoJobs) /\ Len(Front(todo)) = Len(todo) - 1
         /\ DOMAIN Front(todo) = 1 .. Len(todo) - 1
         /\ \A i \in 1 .. Len(todo) - 1 : Front(todo)[i] = todo[i]
  <1>1. todo \in Seq(TodoJobs)
    BY DEF TypeInv
  <1>2. Len(todo) \in Nat \ {0} /\ todo[Len(todo)] \in TodoJobs
    BY <1>1
  <1> QED
    BY <1>1, <1>2, FrontIs DEF Job

LEMMA Concatenated ==
  ASSUME NEW n \in Nat \ {0}, NEW k \in Nat, NEW F \in Seq(TodoJobs), NEW H \in Seq(TodoJobs),
         Len(F) = n - 1, Len(H) = k + 1
  PROVE  /\ F \o H \in Seq(TodoJobs) /\ Len(F \o H) = n + k
         /\ \A i \in 1 .. n - 1 : (F \o H)[i] = F[i]
         /\ \A i \in n .. n + k : (F \o H)[i] = H[i - (n - 1)]
  <1>1. F \o H \in Seq(TodoJobs) /\ Len(F \o H) = n + k
    OBVIOUS
  <1>2. \A i \in 1 .. n + k : (F \o H)[i] = IF i <= n - 1 THEN F[i] ELSE H[i - (n - 1)]
    OBVIOUS
  <1>3. \A i \in 1 .. n - 1 : i \in 1 .. n + k /\ i <= n - 1
    OBVIOUS
  <1>4. \A i \in n .. n + k : i \in 1 .. n + k /\ ~(i <= n - 1)
    OBVIOUS
  <1> QED
    BY <1>1, <1>2, <1>3, <1>4

\* What is to do after the count of p went to zero.
Freeing(p) == <<[op |-> "free", p |-> p]>> \o GivenBack(shape[p].kids)

LEMMA FreeingIs ==
  ASSUME TypeInv, todo # <<>>, NEW p \in Objects
  PROVE  LET n == Len(todo)
             k == Len(shape[p].kids)
             s == Front(todo) \o Freeing(p)
         IN  /\ s \in Seq(TodoJobs) /\ k \in Nat /\ DOMAIN shape[p].kids = 1 .. k
             /\ DOMAIN s = 1 .. n + k
             /\ \A i \in 1 .. n - 1 : s[i] = todo[i]
             /\ s[n] = Frees(p)
             /\ \A i \in n + 1 .. n + k : s[i] = GivenBack(shape[p].kids)[i - n]
  <1> DEFINE n == Len(todo)
             k == Len(shape[p].kids)
             F == Front(todo)
             G == GivenBack(shape[p].kids)
  <1>1. /\ n \in Nat \ {0} /\ F \in Seq(TodoJobs) /\ Len(F) = n - 1
        /\ \A i \in 1 .. n - 1 : F[i] = todo[i]
    BY JobType
  <1>2. shape[p].kids \in Seq(Objects)
    <2>1. shape[p] \in Shapes
      BY DEF TypeInv
    <2> QED
      BY <2>1 DEF Shapes
  <1>3. k \in Nat /\ DOMAIN shape[p].kids = 1 .. k /\ shape[p].kids \in [1 .. k -> Objects \cup {Null}]
    BY <1>2
  <1>4. G \in Seq(TodoJobs) /\ Len(G) = k
    BY <1>3, GivenBackType
  <1>5. Freeing(p) = <<Frees(p)>> \o G /\ Frees(p) \in TodoJobs
    BY DEF Freeing, Frees, TodoJobs
  <1> HIDE DEF n, k, F, G
  <1>6. Freeing(p) \in Seq(TodoJobs) /\ Len(Freeing(p)) = k + 1 /\ Freeing(p)[1] = Frees(p)
        /\ \A i \in 2 .. k + 1 : Freeing(p)[i] = G[i - 1]
    BY <1>3, <1>4, <1>5
  <1>7. LET s == F \o Freeing(p)
        IN  /\ s \in Seq(TodoJobs) /\ Len(s) = n + k
            /\ \A i \in 1 .. n - 1 : s[i] = F[i]
            /\ \A i \in n .. n + k : s[i] = Freeing(p)[i - (n - 1)]
    BY <1>1, <1>3, <1>6, Concatenated
  <1>8. Freeing(p)[n - (n - 1)] = Frees(p)
    BY <1>1, <1>6
  <1>9. \A i \in n + 1 .. n + k : Freeing(p)[i - (n - 1)] = G[i - n]
    <2> TAKE i \in n + 1 .. n + k
    <2>1. i - (n - 1) \in 2 .. k + 1 /\ i - (n - 1) - 1 = i - n
      BY <1>1, <1>3
    <2> QED
      BY <1>6, <2>1
  <1>10. n \in n .. n + k /\ \A i \in n + 1 .. n + k : i \in n .. n + k
    BY <1>1, <1>3
  <1>11. DOMAIN (F \o Freeing(p)) = 1 .. n + k
    BY <1>7
  <1> QED
    BY <1>1, <1>3, <1>7, <1>8, <1>9, <1>10, <1>11 DEF n, k, F, G

\* What a release does, by cases.
LEMMA ReleaseIs ==
  ASSUME TypeInv, NEW p \in Objects, Release(p)
  PROVE  LET c == (rc[p] - 1) % CountBound
         IN  /\ todo # <<>> /\ Job = Releases(p) /\ p \in live
             /\ rc' = [rc EXCEPT ![p] = c] /\ rc'[p] = c /\ c \in 0 .. CountBound - 1
             /\ c = 0 => todo' = Front(todo) \o Freeing(p)
             /\ c # 0 => todo' = Front(todo)
             /\ todo' \in Seq(TodoJobs)
             /\ \A q \in Objects : q # p => rc'[q] = rc[q]
  <1> DEFINE c == (rc[p] - 1) % CountBound
  <1>1. rc \in [Objects -> 0 .. CountBound - 1] /\ todo # <<>> /\ Job = Releases(p) /\ p \in live
    BY DEF Release, Busy, TypeInv, Releases
  <1>2. rc[p] - 1 \in Int
    BY <1>1, Total
  <1>3. c \in 0 .. CountBound - 1
    BY <1>2, ModRange
  <1>4. rc' = [rc EXCEPT ![p] = c]
    BY DEF Release
  <1> HIDE DEF c
  <1>5. rc'[p] = c /\ \A q \in Objects : q # p => rc'[q] = rc[q]
    BY <1>1, <1>4
  <1>6. todo' = Front(todo) \o (IF c = 0 THEN Freeing(p) ELSE <<>>)
    BY <1>5 DEF Release, Freeing
  <1>7. Front(todo) \in Seq(TodoJobs)
    BY <1>1, JobType
  <1>8. c # 0 => todo' = Front(todo)
    <2> HIDE DEF Front
    <2> QED
      BY <1>6, <1>7
  <1>9. c = 0 => todo' = Front(todo) \o Freeing(p)
    BY <1>6
  <1>10. todo' \in Seq(TodoJobs)
    <2>1. Front(todo) \o Freeing(p) \in Seq(TodoJobs)
      BY <1>1, FreeingIs
    <2> QED
      BY <1>7, <1>8, <1>9, <2>1
  <1> QED
    BY <1>1, <1>3, <1>4, <1>5, <1>8, <1>9, <1>10 DEF c

LEMMA WorkType ==
  ASSUME TypeInv, Work
  PROVE  TypeInv'
  <1>1. CASE ReleaseNull
    <2>1. todo' \in Seq(TodoJobs)
      BY <1>1, JobType DEF ReleaseNull, Busy
    <2> QED
      BY <1>1, <2>1 DEF ReleaseNull, TypeInv, Kids, Selves
  <1>2. CASE Dangling
    BY <1>2 DEF Dangling, Undefined, TypeInv, Kids, Selves
  <1>3. ASSUME NEW p \in Objects, Release(p) PROVE TypeInv'
    <2>1. rc' \in [Objects -> 0 .. CountBound - 1] /\ todo' \in Seq(TodoJobs)
      <3>1. rc' = [rc EXCEPT ![p] = (rc[p] - 1) % CountBound] /\ (rc[p] - 1) % CountBound \in 0 .. CountBound - 1
            /\ todo' \in Seq(TodoJobs)
        BY <1>3, ReleaseIs
      <3> QED
        BY <3>1 DEF TypeInv
    <2>2. undefined' \in BOOLEAN
      BY <1>3 DEF Release
    <2> QED
      BY <1>3, <2>1, <2>2 DEF Release, TypeInv, Kids, Selves
  <1>4. ASSUME NEW p \in Objects, Free(p) PROVE TypeInv'
    <2>1. todo' \in Seq(TodoJobs)
      BY <1>4, JobType DEF Free, Busy
    <2>2. NoShape \in Shapes /\ DOMAIN NoShape.kids = {} /\ NoShape.kids = <<>>
      BY DEF NoShape, Shapes, Arity
    <2>3. shape' = [shape EXCEPT ![p] = NoShape] /\ made' = made /\ shape \in [Objects -> Shapes]
      BY <1>4 DEF Free, TypeInv
    <2>4. shape' \in [Objects -> Shapes]
      BY <2>2, <2>3
    <2>5. \A q \in Objects : /\ DOMAIN shape'[q].kids \subseteq {1, 2} /\ Kids(q)' \subseteq 1 .. made'
                             /\ q > made' => shape'[q] = NoShape /\ handles'[q] = 0
      <3> TAKE q \in Objects
      <3>1. q > made => shape[q] = NoShape /\ handles[q] = 0
        BY DEF TypeInv
      <3>2. handles' = handles
        BY <1>4 DEF Free
      <3>3. CASE q = p
        <4>1. shape'[q] = NoShape
          BY <2>3, <3>3
        <4> QED
          BY <2>2, <2>3, <3>1, <3>2, <4>1 DEF Kids
      <3>4. CASE q # p
        <4>1. shape'[q] = shape[q]
          BY <2>3, <3>4
        <4>2. DOMAIN shape[q].kids \subseteq {1, 2} /\ Kids(q) \subseteq 1 .. made
          BY DEF TypeInv
        <4> QED
          BY <2>3, <3>1, <3>2, <4>1, <4>2 DEF Kids
      <3> QED
        BY <3>3, <3>4
    <2>6. rc' \in [Objects -> 0 .. CountBound - 1]
      <3>1. 0 \in 0 .. CountBound - 1
        BY Total, CountAssumption
      <3> QED
        BY <1>4, <3>1 DEF Free, TypeInv
    <2>7. live' \subseteq 1 .. made' /\ blocks' \subseteq 1 .. made' /\ Selves' \subseteq 1 .. made'
      BY <1>4 DEF Free, TypeInv, Selves
    <2> QED
      BY <1>4, <2>1, <2>4, <2>5, <2>6, <2>7 DEF Free, TypeInv
  <1> QED
    BY <1>1, <1>2, <1>3, <1>4 DEF Work

LEMMA TypeStep == TypeInv /\ [Next]_vars => TypeInv'
  <1> SUFFICES ASSUME TypeInv, [Next]_vars PROVE TypeInv'
    OBVIOUS
  <1>1. CASE UNCHANGED vars
    BY <1>1 DEF vars, TypeInv, Kids, Selves
  <1>2. CASE Work
    BY <1>2, WorkType
  <1>3. CASE Calls
    <2>1. CASE FixBegin
      BY <2>1, FixBeginType
    <2>2. CASE FixFails
      BY <2>2, FixFailsType
    <2>3. CASE VariadicFails
      BY <2>3 DEF VariadicFails, TypeInv, Kids, Selves
    <2>4. ASSUME NEW p \in Objects, cc_retain(p) PROVE TypeInv'
      BY <2>4, RetainType
    <2>5. ASSUME NEW p \in Objects, cc_release(p) PROVE TypeInv'
      <3>1. Give(p) /\ undefined' \in BOOLEAN /\ handles[p] > 0
        BY <2>5 DEF cc_release, TypeInv
      <3> QED
        BY <3>1, GiveType
    <2>6. ASSUME NEW p \in Objects, cc_parse(p) PROVE TypeInv'
      <3>1. Give(p) /\ undefined' \in BOOLEAN /\ handles[p] > 0
        BY <2>6 DEF cc_parse
      <3> QED
        BY <3>1, GiveType
    <2>7. ASSUME NEW p \in Objects, FixEnd(p) PROVE TypeInv'
      BY <2>7, FixEndType
    <2>8. ASSUME NEW kind \in Kinds, NEW args \in [1 .. Arity[kind] -> Usable], Construct(kind, args)
          PROVE  TypeInv'
      BY <2>8, ConstructType
    <2>9. ASSUME NEW kind \in Kinds, NEW args \in [1 .. Arity[kind] -> Usable], ConstructFails(kind, args)
          PROVE  TypeInv'
      BY <2>9, ConstructFailsType
    <2> QED
      BY <1>3, <2>1, <2>2, <2>3, <2>4, <2>5, <2>6, <2>7, <2>8, <2>9 DEF Calls
  <1> QED
    BY <1>1, <1>2, <1>3 DEF Next
-----------------------------------------------------------------------------
(* Counting references.                                                    *)

LEMMA Interval == \A n \in Nat : IsFiniteSet(1 .. n) /\ Cardinality(1 .. n) = n
  <1> TAKE n \in Nat
  <1>1. IsFiniteSet(1 .. n) /\ Cardinality(1 .. n) = IF 1 > n THEN 0 ELSE n - 1 + 1
    BY FS_Interval
  <1> QED
    BY <1>1

LEMMA Pairs ==
  ASSUME NEW p, NEW D \in SUBSET {1, 2}
  PROVE  IsFiniteSet(D) /\ IsFiniteSet({p} \X D) /\ Cardinality({p} \X D) = Cardinality(D)
  <1>1. IsFiniteSet({1, 2})
    <2>1. IsFiniteSet({1} \cup {2})
      BY FS_Singleton, FS_Union
    <2>2. {1, 2} = {1} \cup {2}
      OBVIOUS
    <2> QED
      BY <2>1, <2>2
  <1>2. IsFiniteSet(D) /\ Cardinality(D) \in Nat
    BY <1>1, FS_Subset, FS_CardinalityType
  <1>3. IsFiniteSet({p}) /\ Cardinality({p}) = 1
    BY FS_Singleton
  <1>4. IsFiniteSet({p} \X D) /\ Cardinality({p} \X D) = Cardinality({p}) * Cardinality(D)
    BY <1>2, <1>3, FS_Product
  <1> QED
    BY <1>2, <1>3, <1>4

Countable ==
  \A q \in Objects :
    /\ IsFiniteSet(Slots(q)) /\ IsFiniteSet(Owned(q)) /\ IsFiniteSet(Jobs(q))
    /\ Cardinality(Slots(q)) \in Nat /\ Cardinality(Owned(q)) \in Nat /\ Cardinality(Jobs(q)) \in Nat
    /\ Cardinality(Slots(q)) <= 2 * Cardinality(Objects)
    /\ Cardinality(Owned(q)) <= 2 * Cardinality(Objects)
    /\ Cardinality(Jobs(q)) <= Len(todo)

LEMMA Counted == TypeInv => Countable
  <1> SUFFICES ASSUME TypeInv, NEW q \in Objects
               PROVE  /\ IsFiniteSet(Slots(q)) /\ IsFiniteSet(Owned(q)) /\ IsFiniteSet(Jobs(q))
                      /\ Cardinality(Slots(q)) \in Nat /\ Cardinality(Owned(q)) \in Nat
                      /\ Cardinality(Jobs(q)) \in Nat
                      /\ Cardinality(Slots(q)) <= 2 * Cardinality(Objects)
                      /\ Cardinality(Owned(q)) <= 2 * Cardinality(Objects)
                      /\ Cardinality(Jobs(q)) <= Len(todo)
    BY DEF Countable
  <1>1. IsFiniteSet({1, 2}) /\ Cardinality({1, 2}) = 2
    <2>1. IsFiniteSet(1 .. 2) /\ Cardinality(1 .. 2) = 2
      BY Interval
    <2>2. 1 .. 2 = {1, 2}
      OBVIOUS
    <2> QED
      BY <2>1, <2>2
  <1>2. IsFiniteSet(Objects) /\ Cardinality(Objects) \in Nat
    BY Total, OwnershipAssumption
  <1>3. IsFiniteSet(Objects \X {1, 2}) /\ Cardinality(Objects \X {1, 2}) = Cardinality(Objects) * 2
    BY <1>1, <1>2, FS_Product
  <1>4. Slots(q) \in SUBSET (Objects \X {1, 2})
    BY DEF Slots
  <1>5. Owned(q) \in SUBSET (Objects \X {1, 2})
    BY DEF Owned, Slots
  <1>6. IsFiniteSet(Slots(q)) /\ Cardinality(Slots(q)) <= Cardinality(Objects) * 2
    BY <1>3, <1>4, FS_Subset
  <1>7. IsFiniteSet(Owned(q)) /\ Cardinality(Owned(q)) <= Cardinality(Objects) * 2
    BY <1>3, <1>5, FS_Subset
  <1>8. todo \in Seq(TodoJobs)
    BY DEF TypeInv
  <1>9. Len(todo) \in Nat /\ DOMAIN todo = 1 .. Len(todo)
    BY <1>8
  <1>10. IsFiniteSet(DOMAIN todo) /\ Cardinality(DOMAIN todo) = Len(todo)
    BY <1>9, Interval
  <1>11. Jobs(q) \in SUBSET DOMAIN todo
    BY DEF Jobs
  <1>12. IsFiniteSet(Jobs(q)) /\ Cardinality(Jobs(q)) <= Len(todo)
    BY <1>10, <1>11, FS_Subset
  <1> QED
    BY <1>2, <1>6, <1>7, <1>12, FS_CardinalityType

LEMMA CountedNext == TypeInv' => Countable'
  BY Counted, PTL

LEMMA Distinguished ==
  \A p, q : /\ Releases(p) # Frees(q) /\ Releases(p).op = "release" /\ Frees(p).op = "free"
            /\ (Releases(p) = Releases(q) <=> p = q) /\ (Frees(p) = Frees(q) <=> p = q)
            /\ Releases(p).p = p /\ Frees(p).p = p
  BY DEF Releases, Frees

\* Between two calls.
LEMMA AtRest ==
  TypeInv /\ (\A i \in DOMAIN todo : todo[i].op = "release") => Dying = {} /\ Open = live
  BY Distinguished DEF Dying, Open

LEMMA CallBound ==
  TypeInv /\ Len(todo) <= 2 /\ (\A i \in DOMAIN todo : todo[i].op = "release") => BoundInv
  <1> SUFFICES ASSUME TypeInv, Len(todo) <= 2, \A i \in DOMAIN todo : todo[i].op = "release"
               PROVE  BoundInv
    OBVIOUS
  <1>1. todo \in Seq(TodoJobs) /\ Len(todo) \in Nat
    <2>1. todo \in Seq(TodoJobs)
      BY DEF TypeInv
    <2> QED
      BY <2>1
  <1>2. Dying = {}
    BY AtRest
  <1>3. FreedOnce
    BY DEF FreedOnce
  <1>4. ASSUME NEW p \in Objects
        PROVE  Cardinality(Slots(p)) + Cardinality(Jobs(p)) + (IF p \in Dying THEN Spent(p) ELSE 0)
                 <= 2 * Cardinality(Objects) + 2
    <2>1. /\ Cardinality(Slots(p)) \in Nat /\ Cardinality(Jobs(p)) \in Nat
          /\ Cardinality(Slots(p)) <= 2 * Cardinality(Objects) /\ Cardinality(Jobs(p)) <= Len(todo)
      BY Counted DEF Countable
    <2> QED
      BY <1>1, <1>2, <2>1, Total
  <1> QED
    BY <1>3, <1>4 DEF BoundInv

\* What a call leaves to release.
LEMMA CallsLeave ==
  ASSUME TypeInv, TypeInv', Calls
  PROVE  todo = <<>> /\ ~spoiled /\ ~undefined /\ Len(todo') <= 2
         /\ \A i \in DOMAIN todo' : todo'[i].op = "release"
  <1>1. todo = <<>> /\ ~spoiled /\ ~undefined
    BY DEF Calls, FixBegin, FixFails, VariadicFails, cc_retain, cc_release, cc_parse, FixEnd, Construct,
           ConstructFails, Idle
  <1>2. CASE todo' = todo
    BY <1>1, <1>2
  <1>3. ASSUME NEW p \in Objects, Give(p)
        PROVE  Len(todo') <= 2 /\ \A i \in DOMAIN todo' : todo'[i].op = "release"
    BY <1>3 DEF Give
  <1>4. ASSUME NEW kind \in Kinds, NEW args \in [1 .. Arity[kind] -> Usable], ConstructFails(kind, args)
        PROVE  Len(todo') <= 2 /\ \A i \in DOMAIN todo' : todo'[i].op = "release"
    <2>1. todo' = GivenBack(args)
      BY <1>4 DEF ConstructFails
    <2>2. Arity[kind] \in Nat /\ Arity[kind] <= 2 /\ DOMAIN args = 1 .. Arity[kind]
      BY Arities
    <2>3. args \in [1 .. Arity[kind] -> Objects \cup {Null}]
      BY UsableType
    <2>4. Len(GivenBack(args)) = Arity[kind]
      BY <2>2, <2>3, GivenBackType
    <2>5. \A i \in DOMAIN GivenBack(args) : GivenBack(args)[i].op = "release"
      <3> TAKE i \in DOMAIN GivenBack(args)
      <3> DEFINE n == Arity[kind]
      <3>1. n \in Nat /\ DOMAIN args = 1 .. n
        BY <2>2
      <3> HIDE DEF n
      <3>2. /\ GivenBack(args) = [j \in 1 .. n |-> Releases(args[n + 1 - j])]
            /\ DOMAIN GivenBack(args) = 1 .. n
        BY <3>1, GivenBackIs
      <3>3. GivenBack(args)[i] = Releases(args[n + 1 - i])
        BY <3>2
      <3> QED
        BY <3>3, Distinguished
    <2> QED
      BY <2>1, <2>2, <2>4, <2>5
  <1> QED
    BY <1>1, <1>2, <1>3, <1>4 DEF Calls, FixBegin, FixFails, VariadicFails, cc_retain, cc_release, cc_parse,
       FixEnd, Construct

\* What there is to do after the next job is taken away.
LEMMA Popped ==
  ASSUME TypeInv, todo # <<>>, todo' = Front(todo)
  PROVE  /\ DOMAIN todo' = DOMAIN todo \ {Len(todo)} /\ Len(todo) \in DOMAIN todo
         /\ \A i \in DOMAIN todo' : todo'[i] = todo[i] /\ i < Len(todo) /\ i \in Nat
         /\ \A q : Jobs(q)' = Jobs(q) \ {Len(todo)}
         /\ Job.op = "release" => Dying' = Dying
         /\ \A p \in Objects : Job = Frees(p) => Dying \ {p} \subseteq Dying' /\ Dying' \subseteq Dying
  <1>1. /\ Len(todo) \in Nat \ {0} /\ DOMAIN todo = 1 .. Len(todo) /\ Job = todo[Len(todo)]
        /\ DOMAIN todo' = 1 .. Len(todo) - 1 /\ \A i \in 1 .. Len(todo) - 1 : todo'[i] = todo[i]
    BY JobType
  <1>2. DOMAIN todo' = DOMAIN todo \ {Len(todo)} /\ Len(todo) \in DOMAIN todo
        /\ \A i \in DOMAIN todo' : todo'[i] = todo[i] /\ i < Len(todo) /\ i \in Nat
    BY <1>1
  <1>3. \A q : Jobs(q)' = Jobs(q) \ {Len(todo)}
    BY <1>2 DEF Jobs
  <1>4. Dying' \subseteq Dying
    BY <1>2 DEF Dying
  <1>5. \A q \in Dying : Job # Frees(q) => q \in Dying'
    <2> SUFFICES ASSUME NEW q \in Dying, Job # Frees(q)
                 PROVE  q \in Dying'
      OBVIOUS
    <2>1. q \in Objects /\ \E i \in DOMAIN todo : todo[i] = Frees(q)
      BY DEF Dying
    <2>2. PICK i \in DOMAIN todo : todo[i] = Frees(q)
      BY <2>1
    <2>3. i \in DOMAIN todo'
      BY <1>1, <1>2, <2>2
    <2> QED
      BY <1>2, <2>1, <2>2, <2>3 DEF Dying
  <1>6. Job.op = "release" => Dying' = Dying
    <2>1. Job.op = "release" => \A q : Job # Frees(q)
      BY Distinguished
    <2> QED
      BY <1>4, <1>5, <2>1
  <1>7. \A p \in Objects : Job = Frees(p) => Dying \ {p} \subseteq Dying'
    <2>1. \A p, q : p # q => Frees(p) # Frees(q)
      BY Distinguished
    <2> QED
      BY <1>5, <2>1
  <1> QED
    BY <1>2, <1>3, <1>4, <1>6, <1>7
LEMMA Decrement ==
  ASSUME NEW c \in 0 .. CountBound - 1
  PROVE  /\ c > 0 => (c - 1) % CountBound = c - 1
         /\ c = 0 => (c - 1) % CountBound = CountBound - 1
         /\ c < CountBound - 1 => (c + 1) % CountBound = c + 1
  <1>1. CountBound \in Nat /\ CountBound > 2
    BY Total, CountAssumption
  <1>2. \A d \in 0 .. CountBound - 1 : d % CountBound = d
    BY <1>1
  <1>3. (0 - 1) % CountBound = CountBound - 1
    BY <1>1
  <1> QED
    BY <1>1, <1>2, <1>3

\* When the last reference to p goes, what it refers to is released after it.
LEMMA Emptied ==
  ASSUME TypeInv, NEW p \in Objects, Release(p), p \notin Dying, (rc[p] - 1) % CountBound = 0
  PROVE  LET n == Len(todo)
         IN  /\ n \in Nat \ {0} /\ n \in DOMAIN todo /\ todo[n] = Releases(p) /\ n \in Jobs(p)
             /\ rc[p] = 1 /\ rc'[p] = 0 /\ p \in Open
             /\ n \in DOMAIN todo' /\ todo'[n] = Frees(p) /\ DOMAIN todo' \subseteq Nat
             /\ \A i \in DOMAIN todo : i \in Nat /\ i <= n
             /\ \A i \in DOMAIN todo : i < n => i \in DOMAIN todo'
             /\ \A i \in DOMAIN todo' : i < n => i \in DOMAIN todo /\ todo'[i] = todo[i]
             /\ \A i \in DOMAIN todo' : i > n => \E k \in Kids(p) : todo'[i] = Releases(k)
  <1> DEFINE n == Len(todo)
             k == Len(shape[p].kids)
             args == shape[p].kids
  <1>1. /\ todo # <<>> /\ Job = Releases(p) /\ p \in live
        /\ rc'[p] = (rc[p] - 1) % CountBound
        /\ todo' = Front(todo) \o Freeing(p)
    BY ReleaseIs
  <1>2. n \in Nat \ {0} /\ DOMAIN todo = 1 .. n /\ Job = todo[n]
    BY <1>1, JobType
  <1>3. /\ k \in Nat /\ DOMAIN args = 1 .. k
        /\ DOMAIN todo' = 1 .. n + k
        /\ \A i \in 1 .. n - 1 : todo'[i] = todo[i]
        /\ todo'[n] = Frees(p)
        /\ \A i \in n + 1 .. n + k : todo'[i] = GivenBack(args)[i - n]
    BY <1>1, FreeingIs
  <1>4. \A i \in 1 .. k : args[i] \in Kids(p)
    BY <1>3 DEF Kids
  <1> HIDE DEF n, k, args
  <1>5. \A i \in n + 1 .. n + k : \E q \in Kids(p) : todo'[i] = Releases(q)
    <2> TAKE i \in n + 1 .. n + k
    <2>1. i - n \in 1 .. k /\ k + 1 - (i - n) \in 1 .. k
      BY <1>2, <1>3
    <2>2. GivenBack(args) = [j \in 1 .. k |-> Releases(args[k + 1 - j])]
      BY <1>3, GivenBackIs
    <2>3. todo'[i] = Releases(args[k + 1 - (i - n)])
      BY <1>3, <2>1, <2>2
    <2> QED
      BY <1>4, <2>1, <2>3
  <1>6. rc[p] = 1
    <2>1. rc[p] \in 0 .. CountBound - 1 /\ CountBound \in Nat /\ CountBound > 2
      BY Total, CountAssumption DEF TypeInv
    <2> QED
      BY <2>1, Decrement
  <1>7. n \in Jobs(p)
    BY <1>1, <1>2 DEF Jobs
  <1>8. p \in Open
    BY <1>1 DEF Open
  <1>9. \A i \in DOMAIN todo' : /\ i < n => i \in 1 .. n - 1 /\ i \in DOMAIN todo
                                /\ i > n => i \in n + 1 .. n + k
    BY <1>2, <1>3
  <1>10. n \in DOMAIN todo /\ n \in DOMAIN todo' /\ DOMAIN todo' \subseteq Nat
         /\ (\A i \in DOMAIN todo : i \in Nat /\ i <= n) /\ \A i \in DOMAIN todo : i < n => i \in DOMAIN todo'
    BY <1>2, <1>3
  <1> QED
    BY <1>1, <1>2, <1>3, <1>5, <1>6, <1>7, <1>8, <1>9, <1>10 DEF n

\* Then it is dying, and each place it refers from becomes a job.
LEMMA EmptiedSets ==
  ASSUME TypeInv, NEW p \in Objects, Release(p), p \notin Dying, (rc[p] - 1) % CountBound = 0
  PROVE  /\ Dying' = Dying \cup {p} /\ Open' = Open \ {p} /\ Selves' = Selves
         /\ \A q : Slots(q)' = {s \in Slots(q) : s[1] # p}
         /\ \A q : Owned(q)' = {s \in Owned(q) : s[1] # p}
         /\ \A q : Jobs(q) \ {Len(todo)} = {i \in Jobs(q)' : i < Len(todo)}
         /\ \A q : Jobs(q)' = (Jobs(q) \ {Len(todo)}) \cup {i \in Jobs(q)' : i > Len(todo)}
  <1> DEFINE n == Len(todo)
  <1>1. /\ n \in Nat \ {0} /\ n \in DOMAIN todo /\ todo[n] = Releases(p)
        /\ n \in DOMAIN todo' /\ todo'[n] = Frees(p) /\ DOMAIN todo' \subseteq Nat
        /\ \A i \in DOMAIN todo : i \in Nat /\ i <= n
        /\ \A i \in DOMAIN todo : i < n => i \in DOMAIN todo'
        /\ \A i \in DOMAIN todo' : i < n => i \in DOMAIN todo /\ todo'[i] = todo[i]
        /\ \A i \in DOMAIN todo' : i > n => \E k \in Kids(p) : todo'[i] = Releases(k)
    BY Emptied
  <1> HIDE DEF n
  <1>2. Dying' = Dying \cup {p}
    <2>1. \A q \in Dying' : q \in Dying \/ q = p
      <3> SUFFICES ASSUME NEW q \in Objects, NEW i \in DOMAIN todo', todo'[i] = Frees(q)
                   PROVE  q \in Dying \/ q = p
        BY DEF Dying
      <3>1. CASE i < n
        BY <1>1, <3>1 DEF Dying
      <3>2. CASE i = n
        BY <1>1, <3>2, Distinguished
      <3>3. CASE i > n
        BY <1>1, <3>3, Distinguished
      <3> QED
        BY <1>1, <3>1, <3>2, <3>3
    <2>2. \A q \in Dying : q \in Dying'
      <3> SUFFICES ASSUME NEW q \in Objects, NEW i \in DOMAIN todo, todo[i] = Frees(q)
                   PROVE  q \in Dying'
        BY DEF Dying
      <3>1. i # n
        BY <1>1, Distinguished
      <3>2. i < n
        BY <1>1, <3>1
      <3> QED
        BY <1>1, <3>2 DEF Dying
    <2>3. p \in Dying'
      BY <1>1 DEF Dying
    <2> QED
      BY <2>1, <2>2, <2>3
  <1>3. live' = live /\ shape' = shape /\ fixing' = fixing
    BY DEF Release
  <1>4. Open' = Open \ {p}
    BY <1>2, <1>3 DEF Open
  <1>5. \A q : Slots(q)' = {s \in Slots(q) : s[1] # p}
    BY <1>3, <1>4 DEF Slots
  <1>6. \A q : Owned(q)' = {s \in Owned(q) : s[1] # p}
    BY <1>3, <1>5 DEF Owned
  <1>7. \A q : Jobs(q) \ {n} = {i \in Jobs(q)' : i < n}
    <2> TAKE q
    <2>1. \A i \in Jobs(q) \ {n} : i \in Jobs(q)' /\ i < n
      BY <1>1 DEF Jobs
    <2>2. \A i \in Jobs(q)' : i < n => i \in Jobs(q) /\ i # n
      BY <1>1 DEF Jobs
    <2> QED
      BY <2>1, <2>2
  <1>8. \A q : \A i \in Jobs(q)' : i < n \/ i > n
    <2> TAKE q
    <2> TAKE i \in Jobs(q)'
    <2>1. i \in Nat /\ todo'[i] = Releases(q)
      BY <1>1 DEF Jobs
    <2>2. i # n
      BY <1>1, <2>1, Distinguished
    <2> QED
      BY <1>1, <2>1, <2>2
  <1> QED
    BY <1>2, <1>3, <1>4, <1>5, <1>6, <1>7, <1>8 DEF n, Selves
LEMMA Disjoint ==
  ASSUME NEW S, NEW T, IsFiniteSet(S), IsFiniteSet(T), S \cap T = {}
  PROVE  /\ IsFiniteSet(S \cup T) /\ Cardinality(S \cup T) = Cardinality(S) + Cardinality(T)
         /\ Cardinality(S) \in Nat /\ Cardinality(T) \in Nat
  BY FS_Union, FS_EmptySet, FS_CardinalityType

LEMMA EmptiedCounts ==
  ASSUME TypeInv, NEW p \in Objects, Release(p), p \notin Dying, (rc[p] - 1) % CountBound = 0,
         NEW q \in Objects
  PROVE  LET R == {s \in Slots(q) : s[1] = p}
         IN  /\ IsFiniteSet(R) /\ Cardinality(R) \in Nat
             /\ Cardinality(Slots(q)) = Cardinality(Slots(q)') + Cardinality(R)
             /\ Cardinality(Jobs(q)') = Cardinality(Jobs(q) \ {Len(todo)}) + Cardinality(R)
  <1> DEFINE n == Len(todo)
             k == Len(shape[p].kids)
             args == shape[p].kids
             D == {i \in 1 .. k : args[i] = q}
             R == {s \in Slots(q) : s[1] = p}
             J == {i \in Jobs(q)' : i > n}
  <1>1. /\ todo # <<>> /\ todo' = Front(todo) \o Freeing(p)
    BY ReleaseIs
  <1>2. /\ n \in Nat \ {0} /\ p \in Open /\ \A i \in DOMAIN todo : i <= n
    BY Emptied
  <1>3. /\ k \in Nat /\ DOMAIN args = 1 .. k
        /\ DOMAIN todo' = 1 .. n + k
        /\ \A i \in n + 1 .. n + k : todo'[i] = GivenBack(args)[i - n]
    BY <1>1, FreeingIs
  <1>4. DOMAIN args \subseteq {1, 2}
    BY DEF TypeInv
  <1>5. D \in SUBSET {1, 2} /\ R = {p} \X D
    <2>1. D \subseteq {1, 2}
      BY <1>3, <1>4
    <2>2. \A s \in R : s \in {p} \X D
      BY <1>3 DEF Slots
    <2>3. \A s \in {p} \X D : s \in Objects \X {1, 2} /\ s[1] = p /\ s[2] \in D
      BY <2>1
    <2>4. \A s \in {p} \X D : s \in R
      BY <1>2, <1>3, <2>3 DEF Slots
    <2> QED
      BY <2>1, <2>2, <2>4
  <1> HIDE DEF R
  <1>6. IsFiniteSet(R) /\ Cardinality(R) = Cardinality(D)
    <2> HIDE DEF D
    <2> QED
      BY <1>5, Pairs
  <1>7. J = {i \in n + 1 .. n + k : GivenBack(args)[i - n] = Releases(q)}
    <2>1. J = {i \in 1 .. n + k : i > n /\ todo'[i] = Releases(q)}
      BY <1>3 DEF Jobs
    <2>2. \A i : i \in n + 1 .. n + k <=> i \in 1 .. n + k /\ i > n
      BY <1>2, <1>3
    <2> HIDE DEF J, n, k, args
    <2> QED
      BY <1>3, <2>1, <2>2
  <1> HIDE DEF J
  <1>8. IsFiniteSet(J) /\ Cardinality(J) = Cardinality(D)
    <2>1. n \in Nat
      BY <1>2
    <2>2. k \in Nat /\ DOMAIN args = 1 .. k
      BY <1>3
    <2> HIDE DEF n, k, args
    <2>3. IsFiniteSet(BackJobs(args, q, n, k)) /\ Cardinality(BackJobs(args, q, n, k)) = Uses(args, q)
      BY <2>1, <2>2, GivenBackCount
    <2>4. {i \in DOMAIN args : args[i] = q} = D
      BY <2>2
    <2> QED
      BY <1>7, <2>3, <2>4 DEF Uses, BackJobs
  <1>9. IsFiniteSet(Slots(q)) /\ IsFiniteSet(Jobs(q))
    BY Counted DEF Countable
  <1>10. Slots(q)' = {s \in Slots(q) : s[1] # p} /\ Jobs(q)' = (Jobs(q) \ {n}) \cup J
    BY EmptiedSets DEF J
  <1>11. Slots(q) = Slots(q)' \cup R /\ Slots(q)' \cap R = {} /\ Slots(q)' \in SUBSET Slots(q)
    BY <1>10 DEF R
  <1>12. Cardinality(Slots(q)) = Cardinality(Slots(q)') + Cardinality(R)
    BY <1>6, <1>9, <1>11, Disjoint, FS_Subset
  <1>13. (Jobs(q) \ {n}) \cap J = {}
    <2>1. \A i \in Jobs(q) : i <= n /\ i \in Nat
      BY Emptied DEF Jobs
    <2>2. \A i \in J : i > n
      BY DEF J
    <2> QED
      BY <1>2, <2>1, <2>2
  <1>14. IsFiniteSet(Jobs(q) \ {n})
    BY <1>9, FS_RemoveElement
  <1>15. Cardinality(Jobs(q)') = Cardinality(Jobs(q) \ {n}) + Cardinality(J)
    BY <1>8, <1>10, <1>13, <1>14, Disjoint
  <1> QED
    BY <1>6, <1>8, <1>12, <1>15, FS_CardinalityType DEF R

-----------------------------------------------------------------------------
(* No parser is freed while it is being freed.                             *)

LEMMA KeptSlots ==
  ASSUME shape' = shape, live' = live, Dying' = Dying
  PROVE  \A q : Slots(q)' = Slots(q) /\ Owned(q)' = Owned(q)
  BY DEF Slots, Owned, Open

LEMMA KeptFreed ==
  ASSUME FreedOnce, \A i \in DOMAIN todo' : i \in DOMAIN todo /\ todo'[i] = todo[i]
  PROVE  FreedOnce'
  BY DEF FreedOnce

LEMMA ReleaseBound ==
  ASSUME TypeInv, TypeInv', BoundInv, NEW p \in Objects, Release(p)
  PROVE  BoundInv'
  <1> DEFINE n == Len(todo)
             c == (rc[p] - 1) % CountBound
             Sum(q) == Cardinality(Slots(q)) + Cardinality(Jobs(q)) + (IF q \in Dying THEN Spent(q) ELSE 0)
  <1>1. /\ todo # <<>> /\ Job = Releases(p) /\ p \in live /\ rc'[p] = c /\ c \in 0 .. CountBound - 1
        /\ c = 0 => todo' = Front(todo) \o Freeing(p)
        /\ c # 0 => todo' = Front(todo)
        /\ \A q \in Objects : q # p => rc'[q] = rc[q]
    BY ReleaseIs
  <1>2. n \in Nat \ {0} /\ n \in Jobs(p)
    BY <1>1, JobType DEF Jobs
  <1>3. CountBound \in Nat /\ CountBound > 2 * Cardinality(Objects) + 3 /\ Cardinality(Objects) \in Nat
    BY Total, CountAssumption
  <1>4. rc[p] \in 0 .. CountBound - 1
    BY DEF TypeInv
  <1>5. /\ rc[p] > 0 => c = rc[p] - 1
        /\ rc[p] = 0 => c = CountBound - 1
    BY <1>4, Decrement
  <1>6. \A q \in Objects : /\ IsFiniteSet(Jobs(q)) /\ Cardinality(Slots(q)) \in Nat /\ Cardinality(Jobs(q)) \in Nat
                           /\ Sum(q) <= 2 * Cardinality(Objects) + 2
    BY Counted DEF BoundInv, Countable
  <1>7. Cardinality(Jobs(p) \ {n}) = Cardinality(Jobs(p)) - 1 /\ Cardinality(Jobs(p)) >= 1
    <2>1. IsFiniteSet(Jobs(p) \ {n}) /\ Cardinality(Jobs(p) \ {n}) = Cardinality(Jobs(p)) - 1
      BY <1>2, <1>6, FS_RemoveElement
    <2> HIDE DEF n
    <2>2. Cardinality(Jobs(p) \ {n}) \in Nat
      BY <2>1, FS_CardinalityType
    <2> QED
      BY <1>6, <2>1, <2>2
  <1>8. \A q \in Objects : q # p => Jobs(q) \ {n} = Jobs(q)
    <2> SUFFICES ASSUME NEW q \in Objects, q # p
                 PROVE  n \notin Jobs(q)
      OBVIOUS
    <2>1. todo[n] = Releases(p)
      BY <1>2 DEF Jobs
    <2> QED
      BY <2>1, Distinguished DEF Jobs
  <1>9. p \in Dying => c # 0
    <2> SUFFICES ASSUME p \in Dying, c = 0
                 PROVE  FALSE
      OBVIOUS
    <2>1. rc[p] = 1
      BY <1>3, <1>4, <1>5
    <2>2. Spent(p) = CountBound - 1
      BY <2>1 DEF Spent
    <2>3. Sum(p) <= 2 * Cardinality(Objects) + 2 /\ Sum(p) = Cardinality(Slots(p)) + Cardinality(Jobs(p)) + Spent(p)
      BY <1>6
    <2> HIDE DEF Sum
    <2> QED
      BY <1>3, <1>6, <1>7, <2>2, <2>3
  <1> HIDE DEF c
  <1>10. CASE c # 0
    <2>1. todo' = Front(todo)
      BY <1>1, <1>10
    <2>2. /\ \A q : Jobs(q)' = Jobs(q) \ {n}
          /\ Dying' = Dying
          /\ \A i \in DOMAIN todo' : i \in DOMAIN todo /\ todo'[i] = todo[i]
      BY <1>1, <2>1, Popped, Distinguished
    <2>3. \A q : Slots(q)' = Slots(q)
      BY <2>2, KeptSlots DEF Release
    <2>4. FreedOnce'
      BY <2>2, KeptFreed DEF BoundInv
    <2>5. ASSUME NEW q \in Objects, q # p
          PROVE  Sum(q)' <= 2 * Cardinality(Objects) + 2
      <3>1. Spent(q)' = Spent(q)
        BY <1>1, <2>5 DEF Spent
      <3>2. Sum(q)' = Sum(q)
        BY <1>8, <2>2, <2>3, <2>5, <3>1
      <3> QED
        BY <1>6, <3>2
    <2>6. Sum(p)' <= 2 * Cardinality(Objects) + 2
      <3>1. Cardinality(Jobs(p)') = Cardinality(Jobs(p)) - 1 /\ Slots(p)' = Slots(p) /\ Dying' = Dying
        BY <1>7, <2>2, <2>3
      <3>2. Spent(p)' = IF c = 0 THEN 0 ELSE CountBound - c
        BY <1>1 DEF Spent
      <3>3. Spent(p)' = Spent(p) + 1
        BY <1>3, <1>4, <1>5, <1>10, <3>2 DEF Spent
      <3>4. Sum(p) <= 2 * Cardinality(Objects) + 2 /\ Cardinality(Slots(p)) \in Nat /\ Cardinality(Jobs(p)) \in Nat
        BY <1>6
      <3>5. Spent(p) \in Int
        BY <1>3, <1>4 DEF Spent
      <3>6. CASE p \in Dying
        BY <1>3, <3>1, <3>3, <3>4, <3>5, <3>6
      <3>7. CASE p \notin Dying
        BY <1>3, <3>1, <3>4, <3>7
      <3> QED
        BY <3>6, <3>7
    <2> QED
      BY <2>4, <2>5, <2>6 DEF BoundInv
  <1>11. CASE c = 0
    <2>0. p \notin Dying /\ (rc[p] - 1) % CountBound = 0
      BY <1>9, <1>11 DEF c
    <2>1. Dying' = Dying \cup {p}
      BY <2>0, EmptiedSets
    <2>2. \A q \in Objects : Cardinality(Slots(q)') + Cardinality(Jobs(q)')
            = Cardinality(Slots(q)) + Cardinality(Jobs(q) \ {n})
      <3> TAKE q \in Objects
      <3> DEFINE R == {s \in Slots(q) : s[1] = p}
      <3>1. /\ Cardinality(R) \in Nat
            /\ Cardinality(Slots(q)) = Cardinality(Slots(q)') + Cardinality(R)
            /\ Cardinality(Jobs(q)') = Cardinality(Jobs(q) \ {n}) + Cardinality(R)
        BY <2>0, EmptiedCounts
      <3>2. Cardinality(Slots(q)') \in Nat /\ Cardinality(Jobs(q) \ {n}) \in Nat
        <4>1. Cardinality(Slots(q)') \in Nat
          BY CountedNext DEF Countable
        <4>2. IsFiniteSet(Jobs(q) \ {n})
          BY <1>6, FS_RemoveElement
        <4> QED
          BY <4>1, <4>2, FS_CardinalityType
      <3> HIDE DEF R, n
      <3> QED
        BY <3>1, <3>2
    <2>3. FreedOnce'
      <3>1. /\ todo[n] = Releases(p) /\ todo'[n] = Frees(p) /\ n \in DOMAIN todo' /\ DOMAIN todo' \subseteq Nat
            /\ \A i \in DOMAIN todo' : i < n => i \in DOMAIN todo /\ todo'[i] = todo[i]
            /\ \A i \in DOMAIN todo' : i > n => \E q \in Kids(p) : todo'[i] = Releases(q)
        BY <2>0, Emptied
      <3> SUFFICES ASSUME NEW i \in DOMAIN todo', NEW j \in DOMAIN todo', i < j, todo'[i].op = "free",
                          todo'[i] = todo'[j]
                   PROVE  FALSE
        BY DEF FreedOnce
      <3> HIDE DEF n
      <3>2. CASE j > n
        BY <3>1, <3>2, Distinguished
      <3>3. CASE j = n
        <4>1. i < n /\ i \in DOMAIN todo /\ todo[i] = Frees(p)
          BY <3>1, <3>3
        <4> QED
          BY <2>0, <4>1 DEF Dying
      <3>4. CASE j < n
        <4>1. i < n /\ i \in Nat /\ n \in Nat
          BY <1>2, <3>1, <3>4
        <4>2. i \in DOMAIN todo /\ j \in DOMAIN todo /\ todo'[i] = todo[i] /\ todo'[j] = todo[j]
          BY <3>1, <3>4, <4>1
        <4> QED
          BY <4>2 DEF BoundInv, FreedOnce
      <3> QED
        BY <1>2, <3>1, <3>2, <3>3, <3>4
    <2>4. ASSUME NEW q \in Objects, q # p
          PROVE  Sum(q)' <= 2 * Cardinality(Objects) + 2
      <3>1. Spent(q)' = Spent(q) /\ (q \in Dying' <=> q \in Dying)
        BY <1>1, <2>1, <2>4 DEF Spent
      <3>2. Cardinality(Slots(q)') + Cardinality(Jobs(q)') = Cardinality(Slots(q)) + Cardinality(Jobs(q))
        BY <1>8, <2>2, <2>4
      <3>3. Sum(q)' = Sum(q)
        BY <3>1, <3>2
      <3> QED
        BY <1>6, <3>3
    <2>5. Sum(p)' <= 2 * Cardinality(Objects) + 2
      <3>1. Spent(p)' = 0
        BY <1>1, <1>11 DEF Spent
      <3>2. Cardinality(Slots(p)') + Cardinality(Jobs(p)') = Cardinality(Slots(p)) + Cardinality(Jobs(p)) - 1
        BY <1>6, <1>7, <2>2
      <3>3. Cardinality(Slots(p)) + Cardinality(Jobs(p)) <= 2 * Cardinality(Objects) + 2
        BY <1>6, <2>0
      <3>4. Cardinality(Slots(p)) \in Nat /\ Cardinality(Jobs(p)) \in Nat
        BY <1>6
      <3>5. Cardinality(Slots(p)') + Cardinality(Jobs(p)') \in Int
        BY <3>2, <3>4
      <3>6. Sum(p)' = Cardinality(Slots(p)') + Cardinality(Jobs(p)') + 0
        BY <3>1
      <3> HIDE DEF Sum
      <3> QED
        BY <1>3, <3>2, <3>3, <3>4, <3>6
    <2> QED
      BY <2>3, <2>4, <2>5 DEF BoundInv
  <1> QED
    BY <1>10, <1>11
\* When p is freed its count and its shape go, and it was not a place to refer from.
LEMMA FreedSets ==
  ASSUME TypeInv, BoundInv, NEW p \in Objects, Free(p)
  PROVE  LET n == Len(todo)
         IN  /\ n \in Nat \ {0} /\ n \in DOMAIN todo /\ todo[n] = Frees(p) /\ p \in Dying
             /\ DOMAIN todo' = DOMAIN todo \ {n}
             /\ \A i \in DOMAIN todo' : todo'[i] = todo[i] /\ i < n /\ i \in Nat /\ todo'[i] # Frees(p)
             /\ Dying' = Dying \ {p} /\ Open' = Open /\ p \notin Open
             /\ \A q : Jobs(q)' = Jobs(q) /\ Slots(q)' = Slots(q) /\ Owned(q)' = Owned(q)
             /\ \A q \in Objects : q # p => rc'[q] = rc[q] /\ shape'[q] = shape[q]
             /\ shape'[p] = NoShape
  <1> DEFINE n == Len(todo)
  <1>1. todo # <<>> /\ Job = Frees(p) /\ todo' = Front(todo)
    BY DEF Free, Busy, Frees
  <1>2. n \in Nat \ {0} /\ todo[n] = Frees(p) /\ DOMAIN todo = 1 .. n
    BY <1>1, JobType
  <1>3. /\ DOMAIN todo' = DOMAIN todo \ {n} /\ n \in DOMAIN todo
        /\ \A i \in DOMAIN todo' : todo'[i] = todo[i] /\ i < n /\ i \in Nat
        /\ \A q : Jobs(q)' = Jobs(q) \ {n}
        /\ Dying \ {p} \subseteq Dying' /\ Dying' \subseteq Dying
    BY <1>1, Popped
  <1>4. \A i \in DOMAIN todo' : todo'[i] # Frees(p)
    <2> SUFFICES ASSUME NEW i \in DOMAIN todo', todo'[i] = Frees(p)
                 PROVE  FALSE
      OBVIOUS
    <2>1. i \in DOMAIN todo /\ n \in DOMAIN todo /\ i < n /\ todo[i] = Frees(p) /\ todo[n] = Frees(p)
      BY <1>2, <1>3
    <2>2. Frees(p).op = "free"
      BY Distinguished
    <2> HIDE DEF n
    <2> QED
      BY <2>1, <2>2 DEF BoundInv, FreedOnce
  <1>5. p \in Dying /\ p \notin Dying'
    BY <1>2, <1>3, <1>4 DEF Dying
  <1>6. Dying' = Dying \ {p}
    BY <1>3, <1>5
  <1>7. live' = live \ {p} /\ shape' = [shape EXCEPT ![p] = NoShape] /\ rc' = [rc EXCEPT ![p] = 0]
    BY DEF Free
  <1>8. /\ \A q \in Objects : q # p => rc'[q] = rc[q] /\ shape'[q] = shape[q]
        /\ shape'[p] = NoShape
    BY <1>7 DEF TypeInv
  <1>9. Open' = Open /\ p \notin Open
    BY <1>5, <1>6, <1>7 DEF Open
  <1>10. \A q : Slots(q)' = Slots(q)
    <2> TAKE q
    <2>1. \A s \in Objects \X {1, 2} : s[1] \in Open => shape'[s[1]] = shape[s[1]]
      BY <1>8, <1>9
    <2> QED
      BY <1>9, <2>1 DEF Slots
  <1>11. \A q : Owned(q)' = Owned(q)
    <2> TAKE q
    <2>1. \A s \in Slots(q) : shape'[s[1]] = shape[s[1]]
      BY <1>8, <1>9 DEF Slots
    <2> QED
      BY <1>10, <2>1 DEF Owned
  <1>12. \A q : Jobs(q)' = Jobs(q)
    <2> TAKE q
    <2>1. n \notin Jobs(q)
      BY <1>2, Distinguished DEF Jobs
    <2> QED
      BY <1>3, <2>1
  <1> QED
    BY <1>2, <1>3, <1>4, <1>5, <1>6, <1>8, <1>9, <1>10, <1>11, <1>12

LEMMA FreeBound ==
  ASSUME TypeInv, BoundInv, NEW p \in Objects, Free(p)
  PROVE  BoundInv'
  <1>1. /\ Dying' = Dying \ {p}
        /\ \A q : Jobs(q)' = Jobs(q) /\ Slots(q)' = Slots(q)
        /\ \A q \in Objects : q # p => rc'[q] = rc[q]
        /\ DOMAIN todo' \subseteq DOMAIN todo
        /\ \A i \in DOMAIN todo' : todo'[i] = todo[i]
    BY FreedSets
  <1>2. FreedOnce'
    BY <1>1, KeptFreed DEF BoundInv
  <1>3. ASSUME NEW q \in Objects
        PROVE  Cardinality(Slots(q)') + Cardinality(Jobs(q)') + (IF q \in Dying' THEN Spent(q)' ELSE 0)
                 <= 2 * Cardinality(Objects) + 2
    <2>1. /\ Cardinality(Slots(q)) \in Nat /\ Cardinality(Jobs(q)) \in Nat
          /\ Cardinality(Slots(q)) + Cardinality(Jobs(q)) + (IF q \in Dying THEN Spent(q) ELSE 0)
               <= 2 * Cardinality(Objects) + 2
      BY Counted DEF BoundInv, Countable
    <2>2. CASE q \in Dying'
      <3>1. Spent(q)' = Spent(q) /\ q \in Dying
        BY <1>1, <2>2 DEF Spent
      <3> QED
        BY <1>1, <2>1, <2>2, <3>1
    <2>3. CASE q \notin Dying'
      <3>1. Spent(q) \in Nat
        BY Total DEF Spent, TypeInv
      <3> QED
        BY <1>1, <2>1, <2>3, <3>1, Total
    <2> QED
      BY <2>2, <2>3
  <1> QED
    BY <1>2, <1>3 DEF BoundInv

LEMMA BoundInit == Init => BoundInv
  <1> SUFFICES ASSUME Init PROVE BoundInv
    OBVIOUS
  <1>1. TypeInv
    BY TypeInit
  <1>2. Len(todo) <= 2 /\ \A i \in DOMAIN todo : todo[i].op = "release"
    BY DEF Init
  <1> QED
    BY <1>1, <1>2, CallBound

LEMMA BoundStep == TypeInv /\ TypeInv' /\ BoundInv /\ [Next]_vars => BoundInv'
  <1> SUFFICES ASSUME TypeInv, TypeInv', BoundInv, [Next]_vars PROVE BoundInv'
    OBVIOUS
  <1>1. CASE UNCHANGED vars
    BY <1>1 DEF vars, BoundInv, FreedOnce, Slots, Jobs, Spent, Dying, Open
  <1>2. CASE Calls
    <2>1. Len(todo') <= 2 /\ \A i \in DOMAIN todo' : todo'[i].op = "release"
      BY <1>2, CallsLeave
    <2>2. TypeInv' /\ (Len(todo) <= 2)' /\ (\A i \in DOMAIN todo : todo[i].op = "release")' => BoundInv'
      BY CallBound, PTL
    <2> QED
      BY <2>1, <2>2
  <1>3. CASE ReleaseNull
    <2>1. todo # <<>> /\ todo' = Front(todo) /\ Job.op = "release" /\ Job = Releases(Null)
      BY <1>3 DEF ReleaseNull, Busy, Releases
    <2>2. /\ \A q : Jobs(q)' = Jobs(q) \ {Len(todo)}
          /\ Dying' = Dying
          /\ \A i \in DOMAIN todo' : i \in DOMAIN todo /\ todo'[i] = todo[i]
      BY <2>1, Popped
    <2>3. \A q \in Objects : Jobs(q)' = Jobs(q)
      <3> TAKE q \in Objects
      <3>1. todo[Len(todo)] = Releases(Null) /\ q # Null
        BY <2>1, ObjectsAre DEF Job
      <3>2. Len(todo) \notin Jobs(q)
        BY <3>1, Distinguished DEF Jobs
      <3> QED
        BY <2>2, <3>2
    <2>4. \A q : Slots(q)' = Slots(q)
      BY <1>3, <2>2, KeptSlots DEF ReleaseNull
    <2>5. FreedOnce'
      BY <2>2, KeptFreed DEF BoundInv
    <2>6. \A q : Spent(q)' = Spent(q)
      BY <1>3 DEF ReleaseNull, Spent
    <2> QED
      BY <2>2, <2>3, <2>4, <2>5, <2>6 DEF BoundInv
  <1>4. CASE Dangling
    BY <1>4 DEF Dangling, Undefined, BoundInv, FreedOnce, Slots, Jobs, Spent, Dying, Open
  <1>5. ASSUME NEW p \in Objects, Release(p) PROVE BoundInv'
    BY <1>5, ReleaseBound
  <1>6. ASSUME NEW p \in Objects, Free(p) PROVE BoundInv'
    BY <1>6, FreeBound
  <1> QED
    BY <1>1, <1>2, <1>3, <1>4, <1>5, <1>6 DEF Next, Work

\* A program of any size: no parser is freed again while it is being freed.
THEOREM NeverFreedTwice == Spec => []FreedOnce
  <1>1. Init => TypeInv /\ BoundInv
    BY TypeInit, BoundInit
  <1>2. TypeInv /\ BoundInv /\ [Next]_vars => (TypeInv /\ BoundInv)'
    BY TypeStep, BoundStep
  <1>3. TypeInv /\ BoundInv => FreedOnce
    BY DEF BoundInv
  <1> QED
    BY <1>1, <1>2, <1>3, PTL DEF Spec
-----------------------------------------------------------------------------
(* The counts: calls that neither make nor fill a parser.                  *)

\* All that the state speaks of are objects.
AllObjects ==
  /\ live \subseteq Objects /\ Selves \subseteq Objects
  /\ \A q \in Objects : Kids(q) \subseteq Objects
  /\ \A i \in DOMAIN todo : todo[i].p \in Objects \cup {Null} /\ todo[i] \in TodoJobs

LEMMA Allocations == TypeInv => AllObjects
  <1> SUFFICES ASSUME TypeInv PROVE AllObjects
    OBVIOUS
  <1>1. 1 .. made \subseteq Objects
    BY ObjectsAre, Total DEF TypeInv
  <1>2. live \subseteq Objects /\ Selves \subseteq Objects /\ \A q \in Objects : Kids(q) \subseteq Objects
    BY <1>1 DEF TypeInv
  <1>3. \A i \in DOMAIN todo : todo[i] \in TodoJobs
    BY DEF TypeInv
  <1> QED
    BY <1>2, <1>3 DEF AllObjects, TodoJobs

LEMMA AllocationsNext == TypeInv' => AllObjects'
  BY Allocations, PTL

LEMMA SameReach ==
  ASSUME shape' = shape
  PROVE  \A p \in Objects : Reach(p)' = Reach(p) /\ Kids(p)' = Kids(p)
  <1>1. \A p \in Objects : Kids(p)' = Kids(p)
    BY DEF Kids
  <1>2. \A p \in Objects : Reach(p)' = Reach(p)
    <2> TAKE p \in Objects
    <2>1. \A q \in Objects :
            (\A S \in SUBSET Objects : (p \in S /\ \A r \in S : Kids(r)' \subseteq S) => q \in S)
            <=> (\A S \in SUBSET Objects : (p \in S /\ \A r \in S : Kids(r) \subseteq S) => q \in S)
      <3>1. \A S \in SUBSET Objects : \A r \in S : Kids(r)' = Kids(r)
        BY <1>1
      <3> QED
        BY <3>1
    <2> QED
      BY <2>1 DEF Reach
  <1> QED
    BY <1>1, <1>2

\* References move between the client and what is to be released, and none is lost.
LEMMA MovedSound ==
  ASSUME TypeInv, TypeInv', SoundInv, todo = <<>>, undefined' = FALSE,
         shape' = shape, live' = live, blocks' = blocks, fixing' = fixing,
         \A i \in DOMAIN todo' :
           /\ todo'[i].op = "release"
           /\ \A q \in Objects : todo'[i].p = q => handles[q] > 0 /\ Reach(q) \cap Selves = {},
         \A q \in Objects : handles'[q] > 0 => handles[q] > 0,
         \A q \in Open : rc'[q] > 0 /\ rc'[q] = rc[q] - handles[q] + handles'[q] + Cardinality(Jobs(q)')
  PROVE  SoundInv'
  <1>1. Dying = {} /\ Open = live /\ \A q : Jobs(q) = {}
    BY AtRest DEF Jobs
  <1>2. Dying' = {} /\ Open' = live
    <2>1. TypeInv' /\ (\A i \in DOMAIN todo : todo[i].op = "release")' => (Dying = {} /\ Open = live)'
      BY AtRest, PTL
    <2> QED
      BY <2>1
  <1>3. Selves' = Selves /\ \A q : Slots(q)' = Slots(q) /\ Owned(q)' = Owned(q)
    BY <1>1, <1>2, KeptSlots DEF Selves
  <1>4. \A q \in Objects : Reach(q)' = Reach(q) /\ Kids(q)' = Kids(q)
    BY SameReach
  <1>5. live \subseteq Objects
    BY Allocations DEF AllObjects
  <1>6. \A i \in DOMAIN todo' : todo'[i].p \in Objects \cup {Null}
    BY AllocationsNext DEF AllObjects
  <1>7. LiveInv'
    <2>1. Selves \subseteq live /\ (\A q \in live : Kids(q) \subseteq live)
          /\ \A q \in Objects : handles[q] > 0 => q \in live
      BY <1>1 DEF SoundInv, LiveInv
    <2>2. \A q \in live : Kids(q)' \subseteq live
      BY <1>4, <1>5, <2>1
    <2>3. \A i \in DOMAIN todo' : todo'[i].p \in live \cup {Null}
      BY <1>6, <2>1
    <2> QED
      BY <1>2, <1>3, <2>1, <2>2, <2>3 DEF LiveInv
  <1>8. FixingInv'
    <2>1. \A q \in Selves : shape'[q] = NoShape /\ handles'[q] = 0 /\ Owned(q)' = {}
      <3> TAKE q \in Selves
      <3>1. shape[q] = NoShape /\ handles[q] = 0 /\ Owned(q) = {}
        BY DEF SoundInv, FixingInv
      <3>2. q \in Objects
        BY <1>1, <1>5 DEF SoundInv, LiveInv
      <3>3. handles'[q] \in 0 .. MaxHandles /\ ~(handles'[q] > 0)
        BY <3>1, <3>2 DEF TypeInv
      <3> QED
        BY <1>3, <3>1, <3>3, Total
    <2>2. \A q \in Objects : \A i \in DOMAIN todo' : todo'[i].p = q => Reach(q)' \cap Selves' = {}
      BY <1>3, <1>4
    <2>3. \A i, j \in DOMAIN fixing : fixing[i] = fixing[j] => i = j
      BY DEF SoundInv, FixingInv
    <2> QED
      BY <1>3, <2>1, <2>2, <2>3 DEF FixingInv
  <1>9. CountInv'
    <2> SUFFICES ASSUME NEW q \in live
                 PROVE  /\ rc'[q] = handles'[q] + (IF q \in Selves THEN 1 ELSE 0)
                                      + Cardinality(Owned(q)) + Cardinality(Jobs(q)')
                        /\ rc'[q] > 0
      BY <1>2, <1>3 DEF CountInv
    <2>1. q \in Objects /\ q \in Open
      BY <1>1, <1>5
    <2>2. rc[q] = handles[q] + (IF q \in Selves THEN 1 ELSE 0) + Cardinality(Owned(q)) + 0
      BY <1>1, <2>1, FS_EmptySet DEF SoundInv, CountInv
    <2>3. Cardinality(Owned(q)) \in Nat /\ Cardinality(Jobs(q)') \in Nat
      BY <2>1, Counted, CountedNext DEF Countable
    <2>4. handles[q] \in Nat /\ handles'[q] \in Nat
      BY <2>1, Total DEF TypeInv
    <2>5. rc'[q] > 0 /\ rc'[q] = rc[q] - handles[q] + handles'[q] + Cardinality(Jobs(q)')
      BY <2>1
    <2> QED
      BY <2>2, <2>3, <2>4, <2>5
  <1>10. DyingInv' /\ DoomedInv'
    <2>1. \A i \in DOMAIN todo' : \A q : todo'[i] # Frees(q)
      BY Distinguished
    <2> QED
      BY <1>2, <2>1 DEF DyingInv, DoomedInv
  <1>11. AcyclicInv'
    BY <1>3 DEF SoundInv, AcyclicInv
  <1>12. EnclosedInv'
    <2> SUFFICES ASSUME NEW p \in live \ Selves
                 PROVE  \E U \in SUBSET live : Inside(U, p)'
      BY <1>2, <1>3 DEF EnclosedInv
    <2>1. PICK U \in SUBSET live : Inside(U, p)
      BY <1>1 DEF SoundInv, EnclosedInv
    <2>2. \A u \in U : handles'[u] = 0 /\ Jobs(u)' = {}
      <3> TAKE u \in U
      <3>1. u \in Objects /\ handles[u] = 0
        BY <1>5, <2>1 DEF Inside
      <3>2. handles'[u] \in 0 .. MaxHandles /\ ~(handles'[u] > 0)
        BY <3>1 DEF TypeInv
      <3>3. \A i \in DOMAIN todo' : todo'[i] # Releases(u)
        BY <3>1, Distinguished
      <3> QED
        BY <3>2, <3>3, Total DEF Jobs
    <2>3. Inside(U, p)'
      BY <1>3, <2>1, <2>2 DEF Inside
    <2> QED
      BY <2>3
  <1>13. DataInv'
    BY DEF SoundInv, DataInv
  <1> QED
    BY <1>7, <1>8, <1>9, <1>10, <1>11, <1>12, <1>13 DEF SoundInv
\* Between two calls only what lives can be reached from what lives.
LEMMA ReachLive ==
  ASSUME TypeInv, SoundInv, todo = <<>>, NEW p \in live
  PROVE  Reach(p) \subseteq live
  <1>1. Open = live
    BY AtRest
  <1>2. \A q \in live : Kids(q) \subseteq live
    BY <1>1 DEF SoundInv, LiveInv
  <1>3. live \in SUBSET Objects
    BY Allocations DEF AllObjects
  <1> QED
    BY <1>2, <1>3, ReachLeast

LEMMA RetainSound ==
  ASSUME TypeInv, TypeInv', SoundInv, NEW p \in Objects, cc_retain(p)
  PROVE  SoundInv'
  <1>1. /\ todo = <<>> /\ todo' = todo /\ undefined' = FALSE
        /\ shape' = shape /\ live' = live /\ blocks' = blocks /\ fixing' = fixing
        /\ handles[p] \in 1 .. MaxHandles - 1 /\ handles' = [handles EXCEPT ![p] = @ + 1]
        /\ rc' = [rc EXCEPT ![p] = (@ + 1) % CountBound]
    BY DEF cc_retain, Idle, SoundInv
  <1>2. Open = live /\ p \in Open /\ live \subseteq Objects
    <2>1. Open = live /\ live \subseteq Objects
      BY <1>1, AtRest, Allocations DEF AllObjects
    <2>2. handles[p] > 0
      BY <1>1, Total
    <2> QED
      BY <2>1, <2>2 DEF SoundInv, LiveInv
  <1>3. /\ \A q \in Objects : handles'[q] = IF q = p THEN handles[p] + 1 ELSE handles[q]
        /\ \A q \in Objects : rc'[q] = IF q = p THEN (rc[p] + 1) % CountBound ELSE rc[q]
        /\ \A q \in Objects : handles[q] \in Nat /\ rc[q] \in 0 .. CountBound - 1
    BY <1>1, Total DEF TypeInv
  <1>4. (rc[p] + 1) % CountBound = rc[p] + 1
    <2>1. rc[p] = handles[p] + (IF p \in Selves THEN 1 ELSE 0) + Cardinality(Owned(p)) + Cardinality(Jobs(p))
      BY <1>2 DEF SoundInv, CountInv
    <2>2. /\ Cardinality(Owned(p)) \in Nat /\ Cardinality(Owned(p)) <= 2 * Cardinality(Objects)
          /\ Cardinality(Jobs(p)) \in Nat /\ Cardinality(Jobs(p)) <= 0
      BY <1>1, Counted DEF Countable
    <2>3. rc[p] < CountBound - 1
      BY <1>1, <2>1, <2>2, Total, CountAssumption
    <2> QED
      BY <1>3, <2>3, Decrement
  <1>5. \A q \in Objects : handles'[q] > 0 => handles[q] > 0
    BY <1>1, <1>3, Total
  <1>6. \A q : Jobs(q)' = {}
    BY <1>1 DEF Jobs
  <1>7. \A q \in Open : rc'[q] > 0 /\ rc'[q] = rc[q] - handles[q] + handles'[q] + Cardinality(Jobs(q)')
    <2> TAKE q \in Open
    <2>1. rc[q] > 0 /\ q \in Objects
      BY <1>2 DEF SoundInv, CountInv
    <2>2. Cardinality(Jobs(q)') = 0
      BY <1>6, FS_EmptySet
    <2>3. CASE q = p
      BY <1>3, <1>4, <2>1, <2>2, <2>3, Total
    <2>4. CASE q # p
      BY <1>3, <2>1, <2>2, <2>4, Total
    <2> QED
      BY <2>3, <2>4
  <1>8. \A i \in DOMAIN todo' :
          /\ todo'[i].op = "release"
          /\ \A q \in Objects : todo'[i].p = q => handles[q] > 0 /\ Reach(q) \cap Selves = {}
    BY <1>1
  <1> QED
    BY <1>1, <1>5, <1>7, <1>8, MovedSound

LEMMA GiveSound ==
  ASSUME TypeInv, TypeInv', SoundInv, Idle, NEW p \in Objects, Give(p), undefined' = FALSE,
         handles[p] > 0, Reach(p) \cap Selves = {}
  PROVE  SoundInv'
  <1>1. /\ todo = <<>> /\ todo' = <<Releases(p)>> /\ rc' = rc
        /\ shape' = shape /\ live' = live /\ blocks' = blocks /\ fixing' = fixing
        /\ handles' = [handles EXCEPT ![p] = @ - 1]
    BY DEF Give, Idle, Releases
  <1>2. \A q \in Objects : /\ handles'[q] = IF q = p THEN handles[p] - 1 ELSE handles[q]
                           /\ handles[q] \in Nat /\ rc[q] \in Nat
    BY <1>1, Total DEF TypeInv
  <1>3. DOMAIN todo' = {1} /\ todo'[1] = Releases(p)
    BY <1>1
  <1>4. \A q : Jobs(q)' = IF q = p THEN {1} ELSE {}
    BY <1>3, Distinguished DEF Jobs
  <1>5. Open \subseteq Objects
    BY Allocations DEF AllObjects, Open
  <1>6. \A q \in Open : rc'[q] > 0 /\ rc'[q] = rc[q] - handles[q] + handles'[q] + Cardinality(Jobs(q)')
    <2> TAKE q \in Open
    <2>1. rc[q] > 0 /\ q \in Objects
      BY <1>5 DEF SoundInv, CountInv
    <2>2. Cardinality(Jobs(q)') = IF q = p THEN 1 ELSE 0
      BY <1>4, FS_EmptySet, FS_Singleton
    <2> QED
      BY <1>1, <1>2, <2>1, <2>2
  <1>7. \A i \in DOMAIN todo' :
          /\ todo'[i].op = "release"
          /\ \A q \in Objects : todo'[i].p = q => handles[q] > 0 /\ Reach(q) \cap Selves = {}
    BY <1>3, Distinguished
  <1>8. \A q \in Objects : handles'[q] > 0 => handles[q] > 0
    BY <1>2
  <1> QED
    BY <1>1, <1>6, <1>7, <1>8, MovedSound

LEMMA ReleaseSound ==
  ASSUME TypeInv, TypeInv', SoundInv, NEW p \in Objects, cc_release(p)
  PROVE  SoundInv'
  <1>1. Idle /\ Give(p) /\ undefined' = FALSE /\ handles[p] > 0 /\ Reach(p) \cap Selves = {}
    BY DEF cc_release, SoundInv
  <1> QED
    BY <1>1, GiveSound

LEMMA ParseSound ==
  ASSUME TypeInv, TypeInv', SoundInv, NEW p \in Objects, cc_parse(p), undefined' = FALSE
  PROVE  SoundInv'
  <1>1. Idle /\ Give(p) /\ handles[p] > 0 /\ Reach(p) \cap Selves = {}
    BY DEF cc_parse
  <1> QED
    BY <1>1, GiveSound

LEMMA ConstructFailsSound ==
  ASSUME TypeInv, TypeInv', SoundInv, ~spoiled', NEW kind \in Kinds,
         NEW args \in [1 .. Arity[kind] -> Usable], ConstructFails(kind, args)
  PROVE  SoundInv'
  <1> DEFINE n == Arity[kind]
  <1>1. /\ todo = <<>> /\ todo' = GivenBack(args) /\ rc' = rc /\ undefined' = FALSE
        /\ shape' = shape /\ live' = live /\ blocks' = blocks /\ fixing' = fixing
        /\ handles' = Consumed(args) /\ Given(args)
        /\ \A q \in Range(args) \ {Null} : Reach(q) \cap Selves = {}
    BY DEF ConstructFails, Idle, SoundInv
  <1>2. n \in Nat /\ DOMAIN args = 1 .. n
    BY Arities
  <1>3. args \in [1 .. n -> Objects \cup {Null}]
    BY UsableType
  <1> HIDE DEF n
  <1>4. \A q \in Objects : q \in Selves => \A i \in DOMAIN args : args[i] # q
    <2> SUFFICES ASSUME NEW q \in Objects, q \in Selves, NEW i \in DOMAIN args, args[i] = q
                 PROVE  FALSE
      OBVIOUS
    <2>1. q \in Range(args) \ {Null}
      BY ObjectsAre DEF Range
    <2> QED
      BY <1>1, <2>1, ReachSelf
  <1>5. /\ GivenBack(args) = [i \in 1 .. n |-> Releases(args[n + 1 - i])]
        /\ DOMAIN GivenBack(args) = 1 .. n
    BY <1>2, GivenBackIs
  <1>6. \A i \in DOMAIN todo' : \E j \in DOMAIN args : todo'[i] = Releases(args[j])
    <2> TAKE i \in DOMAIN todo'
    <2>1. i \in 1 .. n /\ n + 1 - i \in 1 .. n
      BY <1>1, <1>2, <1>5
    <2>2. todo'[i] = Releases(args[n + 1 - i])
      BY <1>1, <1>5, <2>1
    <2> QED
      BY <1>2, <2>1, <2>2
  <1>7. \A i \in DOMAIN args : args[i] \in Objects => handles[args[i]] > 0
    <2> SUFFICES ASSUME NEW i \in DOMAIN args, args[i] \in Objects
                 PROVE  handles[args[i]] > 0
      OBVIOUS
    <2>1. args[i] \in Usable /\ args[i] # Null /\ args[i] \notin Selves
      BY <1>4, ObjectsAre
    <2> QED
      BY <2>1 DEF Usable
  <1>8. \A i \in DOMAIN todo' :
          /\ todo'[i].op = "release"
          /\ \A q \in Objects : todo'[i].p = q => handles[q] > 0 /\ Reach(q) \cap Selves = {}
    <2> TAKE i \in DOMAIN todo'
    <2>1. PICK j \in DOMAIN args : todo'[i] = Releases(args[j])
      BY <1>6
    <2>2. todo'[i].op = "release" /\ todo'[i].p = args[j]
      BY <2>1, Distinguished
    <2>3. ASSUME NEW q \in Objects, args[j] = q
          PROVE  handles[q] > 0 /\ Reach(q) \cap Selves = {}
      <3>1. q \in Range(args) \ {Null}
        BY <2>3, ObjectsAre DEF Range
      <3> QED
        BY <1>1, <1>7, <2>3, <3>1
    <2> QED
      BY <2>2, <2>3
  <1>9. \A q \in Objects : /\ handles'[q] <= handles[q] /\ handles'[q] \in Nat /\ handles[q] \in Nat
                           /\ rc[q] \in Nat
    <2>1. \A q \in Objects : Consumed(args)[q] <= handles[q]
      BY <1>1, <1>2, ConsumedType
    <2> QED
      BY <1>1, <2>1, Total DEF TypeInv
  <1>10. \A q \in Objects : Uses(args, q) \in Nat /\ handles'[q] = handles[q] - Uses(args, q)
    <2> TAKE q \in Objects
    <2>1. Uses(args, q) \in Nat
      BY <1>2, UsesType
    <2>2. handles'[q] = IF q \in Selves THEN 0 ELSE handles[q] - Uses(args, q)
      BY <1>1 DEF Consumed
    <2>3. CASE q \in Selves
      <3>1. {i \in DOMAIN args : args[i] = q} = {}
        BY <1>4, <2>3
      <3>2. Uses(args, q) = 0
        BY <3>1, FS_EmptySet DEF Uses
      <3>3. handles[q] = 0
        BY <2>3 DEF SoundInv, FixingInv
      <3> QED
        BY <2>2, <2>3, <3>2, <3>3
    <2> QED
      BY <2>1, <2>2, <2>3
  <1>11. \A q : Jobs(q)' = BackJobs(args, q, 0, n)
    <2> TAKE q
    <2>1. \A i \in 1 .. n : i \in 0 + 1 .. 0 + n /\ i - 0 = i
      BY <1>2
    <2>2. \A i \in 0 + 1 .. 0 + n : i \in 1 .. n
      BY <1>2
    <2> QED
      BY <1>1, <1>5, <2>1, <2>2 DEF Jobs, BackJobs
  <1>12. \A q : Cardinality(Jobs(q)') = Uses(args, q)
    BY <1>2, <1>11, GivenBackCount
  <1>13. \A q \in Open : rc'[q] > 0 /\ rc'[q] = rc[q] - handles[q] + handles'[q] + Cardinality(Jobs(q)')
    <2> TAKE q \in Open
    <2>1. rc[q] > 0 /\ q \in Objects
      BY Allocations DEF SoundInv, CountInv, AllObjects, Open
    <2> QED
      BY <1>1, <1>9, <1>10, <1>12, <2>1
  <1>14. \A q \in Objects : handles'[q] > 0 => handles[q] > 0
    BY <1>9
  <1> QED
    BY <1>1, <1>8, <1>13, <1>14, MovedSound
-----------------------------------------------------------------------------
(* The counts: calls that make a parser.                                   *)

\* The children of p that are q and for which a reference was consumed.
From(p, q) == {i \in DOMAIN shape[p].kids : shape[p].kids[i] = q /\ i \notin shape[p].borrowed}

LEMMA MadeSound ==
  ASSUME TypeInv, TypeInv', SoundInv, todo = <<>>, todo' = todo, undefined' = FALSE,
         NEW p \in Objects, Allocated(p),
         \A q \in Objects : q # p => shape'[q] = shape[q],
         shape'[p].data \in {p, Null}, blocks' = blocks \cup ({shape'[p].data} \ {Null}),
         Kids(p)' \subseteq live,
         shape'[p].borrowed = {i \in DOMAIN shape'[p].kids : shape'[p].kids[i] \in Selves},
         Selves \subseteq Selves', Selves' \subseteq Selves \cup {p},
         \A i, j \in DOMAIN fixing' : fixing'[i] = fixing'[j] => i = j,
         p \in Selves' => shape'[p] = NoShape /\ handles'[p] = 0,
         p \notin Selves' => handles'[p] = 1,
         \A q \in Objects : q # p => handles'[q] + Cardinality(From(p, q)') = handles[q]
  PROVE  SoundInv'
  <1>1. Dying = {} /\ Open = live /\ \A q : Jobs(q) = {}
    BY AtRest DEF Jobs
  <1>2. live' = live \cup {p} /\ p \notin live /\ p > made /\ p = made' /\ made' = made + 1
        /\ \A q \in Objects : rc'[q] = IF q = p THEN 1 ELSE rc[q]
    BY AllocatedType DEF Allocated, TypeInv
  <1>3. Dying' = {} /\ Open' = live \cup {p} /\ \A q : Jobs(q)' = {}
    <2>1. TypeInv' /\ (\A i \in DOMAIN todo : todo[i].op = "release")' => (Dying = {} /\ Open = live)'
      BY AtRest, PTL
    <2> QED
      BY <1>2, <2>1 DEF Jobs
  <1>4. live \subseteq Objects /\ Selves \subseteq live /\ \A q \in live : Kids(q) \subseteq live
    BY <1>1, Allocations DEF AllObjects, SoundInv, LiveInv
  <1>5. \A q \in live : Kids(q)' = Kids(q)
    BY <1>2, <1>4 DEF Kids
  <1>6. p \notin Selves /\ handles[p] = 0
    BY <1>2, <1>4 DEF TypeInv
  <1>7. \A q \in Objects : \A s \in Slots(q)' : s \in Slots(q) \/ (s[1] = p /\ q \in live /\ s[2] \in DOMAIN shape'[p].kids
                                                            /\ shape'[p].kids[s[2]] = q)
    <2> TAKE q \in Objects
    <2> TAKE s \in Slots(q)'
    <2>1. s \in Objects \X {1, 2} /\ s[1] \in live \cup {p} /\ s[2] \in DOMAIN shape'[s[1]].kids
          /\ shape'[s[1]].kids[s[2]] = q
      BY <1>3 DEF Slots
    <2>2. CASE s[1] = p
      <3>1. q \in Kids(p)'
        BY <2>1, <2>2 DEF Kids
      <3> QED
        BY <2>1, <2>2, <3>1
    <2>3. CASE s[1] # p
      <3>1. shape'[s[1]] = shape[s[1]] /\ s[1] \in live
        BY <2>1, <2>3
      <3> QED
        BY <1>1, <2>1, <3>1 DEF Slots
    <2> QED
      BY <2>2, <2>3
  <1>8. \A q \in Objects : \A s \in Slots(q) : s \in Slots(q)' /\ s[1] # p /\ s[1] \in live
                                               /\ shape'[s[1]] = shape[s[1]]
    <2> TAKE q \in Objects
    <2> TAKE s \in Slots(q)
    <2>1. s \in Objects \X {1, 2} /\ s[1] \in live /\ s[2] \in DOMAIN shape[s[1]].kids
          /\ shape[s[1]].kids[s[2]] = q
      BY <1>1 DEF Slots
    <2>2. s[1] # p /\ s[1] \in Objects
      BY <1>2, <2>1
    <2>3. shape'[s[1]] = shape[s[1]]
      BY <2>2
    <2> QED
      BY <1>3, <2>1, <2>2, <2>3 DEF Slots
  <1>9. \A q \in Objects : Owned(q)' = Owned(q) \cup ({p} \X From(p, q)')
    <2> TAKE q \in Objects
    <2>1. \A s \in Owned(q)' : s \in Owned(q) \/ s \in {p} \X From(p, q)'
      <3> SUFFICES ASSUME NEW s \in Slots(q)', s[2] \notin shape'[s[1]].borrowed
                   PROVE  s \in Owned(q) \/ s \in {p} \X From(p, q)'
        BY DEF Owned
      <3>1. s \in Objects \X {1, 2}
        BY DEF Slots
      <3>2. CASE s \in Slots(q)
        BY <1>8, <3>2 DEF Owned
      <3>3. CASE s[1] = p /\ s[2] \in DOMAIN shape'[p].kids /\ shape'[p].kids[s[2]] = q
        BY <3>1, <3>3 DEF From
      <3> QED
        BY <1>7, <3>2, <3>3
    <2>2. \A s \in Owned(q) : s \in Owned(q)'
      BY <1>8 DEF Owned
    <2>3. \A i \in From(p, q)' : <<p, i>> \in Owned(q)'
      <3> TAKE i \in From(p, q)'
      <3>1. i \in DOMAIN shape'[p].kids /\ shape'[p].kids[i] = q /\ i \notin shape'[p].borrowed
        BY DEF From
      <3>2. i \in {1, 2}
        BY <3>1 DEF TypeInv
      <3> QED
        BY <1>3, <3>1, <3>2 DEF Owned, Slots
    <2> QED
      BY <2>1, <2>2, <2>3
  <1>10. Slots(p)' = {} /\ Owned(p)' = {}
    <2>1. \A s \in Slots(p) : FALSE
      <3> TAKE s \in Slots(p)
      <3>1. s[1] \in live /\ p \in Kids(s[1])
        BY <1>1 DEF Slots, Kids
      <3> QED
        BY <1>2, <1>4, <3>1
    <2>2. Slots(p)' = {}
      BY <1>2, <1>7, <2>1
    <2> QED
      BY <2>2 DEF Owned
  <1>11. \A q \in Selves : From(p, q)' = {} /\ q # p /\ q \in Objects
    BY <1>4, <1>6 DEF From
  <1>12. \A q \in Objects : q # p =>
           /\ Cardinality(Owned(q)') = Cardinality(Owned(q)) + Cardinality(From(p, q)')
           /\ Cardinality(From(p, q)') \in Nat /\ handles'[q] \in Nat /\ handles[q] \in Nat
    <2> SUFFICES ASSUME NEW q \in Objects, q # p
                 PROVE  /\ Cardinality(Owned(q)') = Cardinality(Owned(q)) + Cardinality(From(p, q)')
                        /\ Cardinality(From(p, q)') \in Nat /\ handles'[q] \in Nat /\ handles[q] \in Nat
      OBVIOUS
    <2> DEFINE D == From(p, q)'
    <2>1. D \in SUBSET {1, 2}
      BY DEF TypeInv, From
    <2> HIDE DEF D
    <2>2. IsFiniteSet({p} \X D) /\ Cardinality({p} \X D) = Cardinality(D)
      BY <2>1, Pairs
    <2>3. Owned(q) \cap ({p} \X D) = {}
      BY <1>8 DEF Owned
    <2>4. IsFiniteSet(Owned(q))
      BY Counted DEF Countable
    <2>5. Cardinality(Owned(q) \cup ({p} \X D)) = Cardinality(Owned(q)) + Cardinality({p} \X D)
          /\ Cardinality({p} \X D) \in Nat
      BY <2>2, <2>3, <2>4, Disjoint
    <2>6. Owned(q)' = Owned(q) \cup ({p} \X D)
      BY <1>9 DEF D
    <2>7. handles'[q] \in Nat /\ handles[q] \in Nat
      BY Total DEF TypeInv
    <2> QED
      BY <2>2, <2>5, <2>6, <2>7 DEF D
  <1>13. \A q \in Objects : handles[q] = 0 /\ q # p => handles'[q] = 0 /\ Owned(q)' = Owned(q)
    <2> SUFFICES ASSUME NEW q \in Objects, handles[q] = 0, q # p
                 PROVE  handles'[q] = 0 /\ Owned(q)' = Owned(q)
      OBVIOUS
    <2>1. handles'[q] = 0 /\ Cardinality(From(p, q)') = 0
      <3>1. handles'[q] + Cardinality(From(p, q)') = handles[q]
        OBVIOUS
      <3>2. Cardinality(From(p, q)') \in Nat /\ handles'[q] \in Nat
        BY <1>12
      <3> QED
        BY <3>1, <3>2
    <2>2. From(p, q)' \in SUBSET {1, 2}
      BY DEF TypeInv, From
    <2>3. IsFiniteSet(From(p, q)')
      BY <2>2, Pairs
    <2>4. From(p, q)' = {}
      BY <2>1, <2>3, FS_EmptySet
    <2> QED
      BY <1>9, <2>1, <2>4
  <1>14. LiveInv'
    <2>1. \A q \in Objects : handles'[q] > 0 => q \in live \cup {p}
      <3> SUFFICES ASSUME NEW q \in Objects, handles'[q] > 0, q # p
                   PROVE  q \in live
        OBVIOUS
      <3>1. handles[q] # 0 /\ handles[q] \in Nat
        BY <1>12, <1>13
      <3> QED
        BY <1>1, <3>1 DEF SoundInv, LiveInv
    <2>2. \A q \in live \cup {p} : Kids(q)' \subseteq live'
      <3>1. \A q \in live : Kids(q)' \subseteq live
        BY <1>4, <1>5
      <3>2. Kids(p)' \subseteq live
        OBVIOUS
      <3> QED
        BY <1>2, <3>1, <3>2
    <2>3. Selves' \subseteq live \cup {p}
      BY <1>4
    <2> QED
      BY <1>3, <2>1, <2>2, <2>3 DEF LiveInv
  <1>15. FixingInv'
    <2>1. \A q \in Selves' : shape'[q] = NoShape /\ handles'[q] = 0 /\ Owned(q)' = {}
      <3> TAKE q \in Selves'
      <3>1. CASE q = p
        BY <1>10, <3>1
      <3>2. CASE q # p
        <4>1. q \in Selves /\ q \in Objects
          BY <1>4, <3>2
        <4>2. shape[q] = NoShape /\ handles[q] = 0 /\ Owned(q) = {}
          BY <4>1 DEF SoundInv, FixingInv
        <4> QED
          BY <1>13, <3>2, <4>1, <4>2
      <3> QED
        BY <3>1, <3>2
    <2> QED
      BY <2>1 DEF FixingInv
  <1>16. CountInv'
    <2> SUFFICES ASSUME NEW q \in live \cup {p}
                 PROVE  /\ rc'[q] = handles'[q] + (IF q \in Selves' THEN 1 ELSE 0)
                                      + Cardinality(Owned(q)') + Cardinality(Jobs(q)')
                        /\ rc'[q] > 0
      BY <1>3 DEF CountInv
    <2>1. Cardinality(Jobs(q)') = 0 /\ Cardinality(Jobs(q)) = 0
      BY <1>1, <1>3, FS_EmptySet
    <2>2. CASE q = p
      <3>1. rc'[q] = 1 /\ Cardinality(Owned(q)') = 0
        BY <1>2, <1>10, <2>2, FS_EmptySet
      <3> QED
        BY <2>1, <2>2, <3>1
    <2>3. CASE q # p
      <3>1. q \in live /\ q \in Objects /\ (q \in Selves' <=> q \in Selves) /\ rc'[q] = rc[q]
        BY <1>2, <1>4, <2>3
      <3>2. rc[q] = handles[q] + (IF q \in Selves THEN 1 ELSE 0) + Cardinality(Owned(q)) + Cardinality(Jobs(q))
            /\ rc[q] > 0
        BY <1>1, <3>1 DEF SoundInv, CountInv
      <3>3. /\ Cardinality(Owned(q)') = Cardinality(Owned(q)) + Cardinality(From(p, q)')
            /\ Cardinality(From(p, q)') \in Nat /\ handles'[q] \in Nat /\ handles[q] \in Nat
        BY <1>12, <2>3, <3>1
      <3>4. handles'[q] + Cardinality(From(p, q)') = handles[q]
        BY <2>3, <3>1
      <3>5. Cardinality(Owned(q)) \in Nat
        BY <3>1, Counted DEF Countable
      <3> QED
        BY <2>1, <3>1, <3>2, <3>3, <3>4, <3>5
    <2> QED
      BY <2>2, <2>3
  <1>17. DyingInv' /\ DoomedInv'
    BY <1>3 DEF DyingInv, DoomedInv
  <1>18. AcyclicInv'
    <2> SUFFICES ASSUME NEW S \in SUBSET Objects, S # {}
                 PROVE  \E q \in S : \A s \in Owned(q)' : s[1] \notin S
      BY DEF AcyclicInv
    <2>1. CASE p \in S
      BY <1>10, <2>1
    <2>2. CASE p \notin S
      <3>1. PICK q \in S : \A s \in Owned(q) : s[1] \notin S
        BY DEF SoundInv, AcyclicInv
      <3>2. \A s \in Owned(q)' : s \in Owned(q) \/ s[1] = p
        BY <1>9
      <3> QED
        BY <2>2, <3>1, <3>2
    <2> QED
      BY <2>1, <2>2
  <1>19. EnclosedInv'
    <2> SUFFICES ASSUME NEW q \in live \cup {p}, q \notin Selves'
                 PROVE  \E U \in SUBSET (live \cup {p}) : Inside(U, q)'
      BY <1>3 DEF EnclosedInv
    <2>1. CASE q = p
      <3>1. Inside({}, p)'
        BY <1>10 DEF Inside
      <3> QED
        BY <2>1, <3>1
    <2>2. CASE q # p
      <3>1. PICK U \in SUBSET live : Inside(U, q)
        BY <1>1, <2>2 DEF SoundInv, EnclosedInv
      <3>2. \A s \in Slots(q)' \ Owned(q)' : s[1] \in U \cup {q}
        <4> TAKE s \in Slots(q)' \ Owned(q)'
        <4>1. q \in Objects /\ q \notin Selves
          BY <1>4, <2>2
        <4>2. CASE s \in Slots(q)
          <5>1. s \notin Owned(q)
            BY <1>9, <4>1
          <5> QED
            BY <3>1, <4>2, <5>1 DEF Inside
        <4>3. CASE s[1] = p /\ s[2] \in DOMAIN shape'[p].kids /\ shape'[p].kids[s[2]] = q
          <5>1. s[2] \notin shape'[p].borrowed
            BY <4>1, <4>3
          <5>2. s \in Owned(q)'
            BY <4>3, <5>1 DEF Owned
          <5> QED
            BY <5>2
        <4> QED
          BY <1>7, <4>1, <4>2, <4>3
      <3>3. \A u \in U : /\ handles'[u] = 0 /\ u \notin Selves' /\ Jobs(u)' = {}
                         /\ \A s \in Owned(u)' : s[1] \in U \cup {q}
        <4> TAKE u \in U
        <4>1. handles[u] = 0 /\ u \notin Selves /\ u \in Objects /\ u # p
              /\ \A s \in Owned(u) : s[1] \in U \cup {q}
          BY <1>2, <1>4, <3>1 DEF Inside
        <4>2. handles'[u] = 0 /\ Owned(u)' = Owned(u)
          BY <1>13, <4>1
        <4> QED
          BY <1>3, <4>1, <4>2
      <3>4. q \notin U
        BY <3>1 DEF Inside
      <3>5. Inside(U, q)'
        BY <3>2, <3>3, <3>4 DEF Inside
      <3> QED
        BY <3>1, <3>5
    <2> QED
      BY <2>1, <2>2
  <1>20. DataInv'
    <2>1. p \notin blocks
      BY <1>2, Total DEF TypeInv
    <2>2. \A q \in live : shape'[q] = shape[q] /\ q # p
      BY <1>2, <1>4
    <2>3. /\ \A q \in live : shape[q].data \in blocks \cup {Null}
          /\ \A q, r \in live : shape[q].data = shape[r].data /\ shape[q].data # Null => q = r
          /\ \A b \in blocks : \E q \in live : shape[q].data = b
      BY DEF SoundInv, DataInv
    <2>4. \A q \in live' : shape'[q].data \in blocks' \cup {Null}
      BY <1>2, <2>2, <2>3
    <2>5. \A b \in blocks' : \E q \in live' : shape'[q].data = b
      BY <1>2, <2>2, <2>3
    <2>6. \A q, r \in live' : shape'[q].data = shape'[r].data /\ shape'[q].data # Null => q = r
      <3> SUFFICES ASSUME NEW q \in live', NEW r \in live', shape'[q].data = shape'[r].data, shape'[q].data # Null
                   PROVE  q = r
        OBVIOUS
      <3>1. CASE q \in live /\ r \in live
        BY <2>2, <2>3, <3>1
      <3>2. CASE q = p /\ r \in live
        BY <2>1, <2>2, <2>3, <3>2
      <3>3. CASE q \in live /\ r = p
        BY <2>1, <2>2, <2>3, <3>3
      <3> QED
        BY <1>2, <3>1, <3>2, <3>3
    <2> QED
      BY <2>4, <2>5, <2>6 DEF DataInv
  <1> QED
    BY <1>14, <1>15, <1>16, <1>17, <1>18, <1>19, <1>20 DEF SoundInv
LEMMA ConstructSound ==
  ASSUME TypeInv, TypeInv', SoundInv, NEW kind \in Kinds,
         NEW args \in [1 .. Arity[kind] -> Usable], Construct(kind, args)
  PROVE  SoundInv'
  <1> PICK p \in Objects :
        /\ Allocated(p)
        /\ shape' = [shape EXCEPT ![p] =
             [kind |-> kind, kids |-> args, data |-> IF HasData(kind) THEN p ELSE Null,
              borrowed |-> {i \in DOMAIN args : args[i] \in Selves}]]
        /\ blocks' = IF HasData(kind) THEN blocks \cup {p} ELSE blocks
        /\ handles' = [Consumed(args) EXCEPT ![p] = 1]
    BY DEF Construct
  <1>1. /\ todo = <<>> /\ todo' = todo /\ undefined' = FALSE /\ fixing' = fixing /\ Given(args)
        /\ \A i \in DOMAIN args : args[i] # Null
    BY DEF Construct, Idle, SoundInv, Range
  <1>2. Open = live /\ live \subseteq Objects /\ Selves \subseteq live /\ p \notin live
    BY <1>1, AtRest, Allocations, AllocatedType DEF AllObjects, SoundInv, LiveInv
  <1>3. /\ shape'[p].kids = args /\ shape'[p].data = (IF HasData(kind) THEN p ELSE Null)
        /\ shape'[p].borrowed = {i \in DOMAIN args : args[i] \in Selves}
        /\ \A q \in Objects : q # p => shape'[q] = shape[q]
    BY DEF TypeInv
  <1>4. shape'[p].data \in {p, Null} /\ blocks' = blocks \cup ({shape'[p].data} \ {Null})
    BY <1>3, ObjectsAre
  <1>5. \A i \in DOMAIN args : args[i] \in live
    <2> TAKE i \in DOMAIN args
    <2>1. args[i] \in Usable /\ args[i] # Null
      BY <1>1
    <2> QED
      BY <1>2, <2>1 DEF Usable, SoundInv, LiveInv
  <1>6. Kids(p)' \subseteq live
    <2>1. Kids(p)' = {args[i] : i \in DOMAIN args}
      BY <1>3 DEF Kids
    <2> QED
      BY <1>5, <2>1
  <1>7. Selves' = Selves /\ p \notin Selves' /\ handles'[p] = 1
    <2>1. Selves' = Selves
      BY <1>1 DEF Selves
    <2> QED
      BY <1>2, <2>1 DEF Consumed
  <1>8. \A q \in Objects : q # p => handles'[q] + Cardinality(From(p, q)') = handles[q]
    <2> SUFFICES ASSUME NEW q \in Objects, q # p
                 PROVE  handles'[q] + Cardinality(From(p, q)') = handles[q]
      OBVIOUS
    <2>1. handles'[q] = IF q \in Selves THEN 0 ELSE handles[q] - Uses(args, q)
      BY DEF Consumed
    <2>2. From(p, q)' = {i \in DOMAIN args : args[i] = q /\ i \notin shape'[p].borrowed}
      BY <1>3 DEF From
    <2>3. CASE q \in Selves
      <3>1. From(p, q)' = {}
        BY <1>3, <2>2, <2>3
      <3>2. handles[q] = 0
        BY <2>3 DEF SoundInv, FixingInv
      <3> QED
        BY <2>1, <2>3, <3>1, <3>2, FS_EmptySet
    <2>4. CASE q \notin Selves
      <3>1. From(p, q)' = {i \in DOMAIN args : args[i] = q}
        BY <1>3, <2>2, <2>4
      <3>2. Cardinality(From(p, q)') = Uses(args, q)
        BY <3>1 DEF Uses
      <3>3. Uses(args, q) \in Nat
        BY Arities, UsesType
      <3>4. handles[q] \in Nat
        BY Total DEF TypeInv
      <3> QED
        BY <2>1, <2>4, <3>2, <3>3, <3>4
    <2> QED
      BY <2>3, <2>4
  <1>9. \A i, j \in DOMAIN fixing' : fixing'[i] = fixing'[j] => i = j
    BY <1>1 DEF SoundInv, FixingInv
  <1> QED
    BY <1>1, <1>3, <1>4, <1>6, <1>7, <1>8, <1>9, MadeSound

LEMMA FixBeginSound ==
  ASSUME TypeInv, TypeInv', SoundInv, FixBegin
  PROVE  SoundInv'
  <1> PICK p \in Objects : Allocated(p) /\ fixing' = Append(fixing, p)
    BY DEF FixBegin
  <1>1. /\ todo = <<>> /\ todo' = todo /\ undefined' = FALSE /\ shape' = shape /\ blocks' = blocks
        /\ handles' = handles
    BY DEF FixBegin, Idle, SoundInv
  <1>2. Selves \subseteq live /\ p \notin live /\ p > made
    BY AllocatedType DEF SoundInv, LiveInv, Open
  <1>3. shape'[p] = NoShape /\ handles'[p] = 0
    BY <1>1, <1>2 DEF TypeInv
  <1>4. NoShape.kids = <<>> /\ DOMAIN NoShape.kids = {} /\ NoShape.data = Null /\ NoShape.borrowed = {}
    BY DEF NoShape
  <1>5. /\ fixing \in Seq(Objects) /\ Len(fixing) \in Nat /\ DOMAIN fixing = 1 .. Len(fixing)
        /\ DOMAIN fixing' = 1 .. Len(fixing) + 1
        /\ \A i \in 1 .. Len(fixing) + 1 : fixing'[i] = IF i = Len(fixing) + 1 THEN p ELSE fixing[i]
    <2>1. fixing \in Seq(Objects)
      BY DEF TypeInv
    <2> QED
      BY <2>1
  <1>6. \A i \in DOMAIN fixing' : (fixing'[i] = p /\ i = Len(fixing) + 1)
          \/ (i \in DOMAIN fixing /\ fixing'[i] = fixing[i] /\ fixing[i] \in Selves)
    BY <1>5 DEF Selves
  <1>7. \A i \in DOMAIN fixing : i \in DOMAIN fixing' /\ fixing'[i] = fixing[i]
    BY <1>5
  <1>8. Selves \subseteq Selves' /\ Selves' \subseteq Selves \cup {p}
    BY <1>6, <1>7 DEF Selves
  <1>9. p \in Selves'
    <2>1. Len(fixing) + 1 \in DOMAIN fixing' /\ fixing'[Len(fixing) + 1] = p
      BY <1>5
    <2> QED
      BY <2>1 DEF Selves
  <1>10. \A i, j \in DOMAIN fixing' : fixing'[i] = fixing'[j] => i = j
    <2>1. \A i, j \in DOMAIN fixing : fixing[i] = fixing[j] => i = j
      BY DEF SoundInv, FixingInv
    <2>2. p \notin Selves
      BY <1>2
    <2> QED
      BY <1>6, <2>1, <2>2
  <1>11. \A q \in Objects : q # p => handles'[q] + Cardinality(From(p, q)') = handles[q]
    <2> SUFFICES ASSUME NEW q \in Objects
                 PROVE  handles'[q] + Cardinality(From(p, q)') = handles[q]
      OBVIOUS
    <2>1. From(p, q)' = {}
      BY <1>3, <1>4 DEF From
    <2>2. handles[q] \in Nat
      BY Total DEF TypeInv
    <2> QED
      BY <1>1, <2>1, <2>2, FS_EmptySet
  <1>12. /\ Kids(p)' \subseteq live
         /\ shape'[p].data \in {p, Null} /\ blocks' = blocks \cup ({shape'[p].data} \ {Null})
         /\ shape'[p].borrowed = {i \in DOMAIN shape'[p].kids : shape'[p].kids[i] \in Selves}
    BY <1>1, <1>3, <1>4 DEF Kids
  <1>13. \A q \in Objects : q # p => shape'[q] = shape[q]
    BY <1>1
  <1> QED
    BY <1>1, <1>3, <1>8, <1>9, <1>10, <1>11, <1>12, <1>13, MadeSound
-----------------------------------------------------------------------------
(* The counts: the placeholder takes the place of what was built around it. *)

\* Nothing refers to what the function returns: those that could are enclosed by it,
\* and could be reached from its children, which do not lead to it.
LEMMA NothingRefers ==
  ASSUME TypeInv, SoundInv, todo = <<>>, NEW p \in Objects, handles[p] = 1, rc[p] = 1,
         \A k \in Kids(p) : p \notin Reach(k)
  PROVE  Slots(p) = {} /\ p \notin Selves /\ p \in live
  <1>1. Dying = {} /\ Open = live /\ \A q : Jobs(q) = {}
    BY AtRest DEF Jobs
  <1>2. live \subseteq Objects /\ (\A q \in Objects : Kids(q) \subseteq Objects) /\ p \in live
    BY <1>1, Allocations DEF AllObjects, SoundInv, LiveInv
  <1>3. Owned(p) = {} /\ p \notin Selves
    <2>1. rc[p] = handles[p] + (IF p \in Selves THEN 1 ELSE 0) + Cardinality(Owned(p)) + Cardinality(Jobs(p))
      BY <1>1, <1>2 DEF SoundInv, CountInv
    <2>2. Cardinality(Owned(p)) \in Nat /\ IsFiniteSet(Owned(p)) /\ Cardinality(Jobs(p)) = 0
      BY <1>1, Counted, FS_EmptySet DEF Countable
    <2>3. Cardinality(Owned(p)) = 0 /\ p \notin Selves
      BY <2>1, <2>2
    <2> QED
      BY <2>2, <2>3, FS_EmptySet
  <1>4. PICK U \in SUBSET live : Inside(U, p)
    BY <1>1, <1>2, <1>3 DEF SoundInv, EnclosedInv
  <1> DEFINE W == {u \in U : \A k \in Kids(p) : u \notin Reach(k)}
  <1>5. W = {}
    <2> SUFFICES ASSUME W # {}
                 PROVE  FALSE
      OBVIOUS
    <2>1. W \in SUBSET Objects
      BY <1>2
    <2> HIDE DEF W
    <2>2. PICK w \in W : \A s \in Owned(w) : s[1] \notin W
      BY <2>1 DEF SoundInv, AcyclicInv
    <2>3. w \in U /\ w \in live /\ w \in Objects /\ \A k \in Kids(p) : w \notin Reach(k)
      BY <1>2, <1>4 DEF W
    <2>4. Owned(w) # {}
      <3>1. handles[w] = 0 /\ w \notin Selves
        BY <1>4, <2>3 DEF Inside
      <3>2. rc[w] = handles[w] + (IF w \in Selves THEN 1 ELSE 0) + Cardinality(Owned(w)) + Cardinality(Jobs(w))
            /\ rc[w] > 0
        BY <1>1, <2>3 DEF SoundInv, CountInv
      <3>3. Cardinality(Jobs(w)) = 0 /\ Cardinality(Owned(w)) \in Nat
        BY <1>1, <2>3, Counted, FS_EmptySet DEF Countable
      <3>4. Cardinality(Owned(w)) # 0
        BY <3>1, <3>2, <3>3
      <3> QED
        BY <3>4, FS_EmptySet
    <2>5. PICK s \in Owned(w) : TRUE
      BY <2>4
    <2>6. s[1] \in live /\ w \in Kids(s[1])
      BY <1>1 DEF Owned, Slots, Kids
    <2>7. s[1] \in U \cup {p} /\ s[1] \notin W
      BY <1>4, <2>2, <2>3 DEF Inside
    <2>8. CASE s[1] = p
      BY <2>3, <2>6, <2>8, ReachSelf
    <2>9. CASE s[1] \in U
      <3>1. PICK k \in Kids(p) : s[1] \in Reach(k)
        BY <2>7, <2>9 DEF W
      <3>2. k \in Objects
        BY <1>2
      <3>3. w \in Reach(k)
        BY <2>3, <2>6, <3>1, <3>2, ReachKids
      <3> QED
        BY <2>3, <3>3
    <2> QED
      BY <2>7, <2>8, <2>9
  <1>6. \A s \in Slots(p) : FALSE
    <2> SUFFICES ASSUME NEW s \in Slots(p)
                 PROVE  FALSE
      OBVIOUS
    <2>1. s[1] \in live /\ p \in Kids(s[1])
      BY <1>1 DEF Slots, Kids
    <2>2. s[1] \in U \cup {p}
      BY <1>3, <1>4 DEF Inside
    <2>3. CASE s[1] = p
      BY <2>1, <2>3, ReachSelf
    <2>4. CASE s[1] \in U
      <3>1. PICK k \in Kids(p) : s[1] \in Reach(k)
        BY <1>5, <2>4
      <3>2. k \in Objects
        BY <1>2
      <3>3. p \in Reach(k)
        BY <2>1, <3>1, <3>2, ReachKids
      <3> QED
        BY <3>3
    <2> QED
      BY <2>2, <2>3, <2>4
  <1> QED
    BY <1>2, <1>3, <1>6

\* A set whose first elements are p, with another first element instead.
Renamed(S, p, h) == {s \in S : s[1] # p} \cup ({h} \X {i \in {1, 2} : <<p, i>> \in S})

LEMMA RenamedCount ==
  ASSUME NEW S \in SUBSET (Objects \X {1, 2}), IsFiniteSet(S), NEW p \in Objects, NEW h \in Objects, h # p,
         \A s \in S : s[1] # h
  PROVE  IsFiniteSet(Renamed(S, p, h)) /\ Cardinality(Renamed(S, p, h)) = Cardinality(S)
  <1> DEFINE D == {i \in {1, 2} : <<p, i>> \in S}
             A == {s \in S : s[1] # p}
  <1>1. S = A \cup ({p} \X D) /\ A \cap ({p} \X D) = {} /\ A \cap ({h} \X D) = {}
    <2>1. \A s \in S : s[1] = p => s \in {p} \X D
      OBVIOUS
    <2>2. \A s \in {p} \X D : s \in S /\ s[1] = p
      OBVIOUS
    <2>3. \A s \in {h} \X D : s[1] = h
      OBVIOUS
    <2> HIDE DEF D
    <2> QED
      BY <2>1, <2>2, <2>3
  <1>2. D \in SUBSET {1, 2}
    OBVIOUS
  <1>3. IsFiniteSet(A)
    <2>1. A \in SUBSET S
      OBVIOUS
    <2> HIDE DEF A
    <2> QED
      BY <2>1, FS_Subset
  <1>4. Renamed(S, p, h) = A \cup ({h} \X D)
    BY DEF Renamed
  <1> HIDE DEF A, D
  <1>5. /\ IsFiniteSet({p} \X D) /\ Cardinality({p} \X D) = Cardinality(D)
        /\ IsFiniteSet({h} \X D) /\ Cardinality({h} \X D) = Cardinality(D)
    BY <1>2, Pairs
  <1>6. Cardinality(S) = Cardinality(A) + Cardinality({p} \X D)
    BY <1>1, <1>3, <1>5, Disjoint
  <1>7. IsFiniteSet(A \cup ({h} \X D)) /\ Cardinality(A \cup ({h} \X D)) = Cardinality(A) + Cardinality({h} \X D)
    BY <1>1, <1>3, <1>5, Disjoint
  <1> QED
    BY <1>4, <1>5, <1>6, <1>7
\* What cc_fix returned with: p is gone, and its placeholder h has its shape.
LEMMA FixEndIs ==
  ASSUME TypeInv, TypeInv', SoundInv, NEW p \in Objects, FixEnd(p), undefined' = FALSE
  PROVE  LET h == Placeholder
         IN  /\ todo = <<>> /\ todo' = <<>> /\ h \in Objects /\ h \in live /\ h \in Selves /\ h # p
             /\ p \in live /\ p \notin Selves /\ Slots(p) = {}
             /\ Open = live /\ Open' = live \ {p} /\ live' = live \ {p} /\ Dying' = {}
             /\ Selves' = Selves \ {h}
             /\ \A i \in DOMAIN fixing' : fixing'[i] = fixing[i] /\ i \in DOMAIN fixing
             /\ \A q \in Objects : shape'[q] = IF q = p THEN NoShape ELSE IF q = h THEN shape[p] ELSE shape[q]
             /\ \A q \in Objects : handles'[q] = IF q = p THEN 0 ELSE IF q = h THEN 1 ELSE handles[q]
             /\ \A q \in Objects : q # p => rc'[q] = rc[q]
             /\ blocks' = blocks /\ undefined' = FALSE
             /\ \A q \in Objects \ {p} : handles[q] > 0 => h \notin Reach(q)
             /\ shape[h] = NoShape /\ handles[h] = 0 /\ Owned(h) = {} /\ handles[p] = 1
  <1> DEFINE h == Placeholder
  <1>1. /\ todo = <<>> /\ todo' = todo /\ fixing # <<>> /\ fixing' = Front(fixing)
        /\ shape' = [shape EXCEPT ![h] = shape[p], ![p] = NoShape]
        /\ live' = live \ {p} /\ rc' = [rc EXCEPT ![p] = 0]
        /\ handles' = [handles EXCEPT ![p] = 0, ![h] = 1]
    BY DEF FixEnd, Idle
  <1>2. handles[p] = 1 /\ rc[p] = 1 /\ (\A k \in Kids(p) : p \notin Reach(k))
        /\ \A q \in Objects \ {p} : handles[q] > 0 => h \notin Reach(q)
    BY DEF FixEnd, Returnable
  <1>3. blocks' = blocks
    <2>1. shape[p].kind # "bind"
      BY FixAssumption DEF FixEnd, Returnable
    <2> QED
      BY <2>1 DEF FixEnd
  <1>4. /\ h \in Selves /\ h \in Objects /\ Len(fixing) \in Nat \ {0}
        /\ DOMAIN fixing' = 1 .. Len(fixing) - 1 /\ DOMAIN fixing = 1 .. Len(fixing)
        /\ \A i \in DOMAIN fixing' : fixing'[i] = fixing[i] /\ i \in DOMAIN fixing
        /\ h = fixing[Len(fixing)]
    BY <1>1, FrontFixing DEF Placeholder
  <1> HIDE DEF h
  <1>5. shape[h] = NoShape /\ handles[h] = 0 /\ Owned(h) = {} /\ h # p
    BY <1>2, <1>4 DEF SoundInv, FixingInv
  <1>6. Slots(p) = {} /\ p \notin Selves /\ p \in live
    BY <1>1, <1>2, NothingRefers
  <1>7. Open = live /\ h \in live
    BY <1>1, <1>4, AtRest DEF SoundInv, LiveInv, Open
  <1>8. Dying' = {} /\ Open' = live \ {p}
    <2>1. TypeInv' /\ (\A i \in DOMAIN todo : todo[i].op = "release")' => (Dying = {} /\ Open = live)'
      BY AtRest, PTL
    <2> QED
      BY <1>1, <2>1
  <1>9. Selves' = Selves \ {h}
    <2>1. \A i, j \in DOMAIN fixing : fixing[i] = fixing[j] => i = j
      BY DEF SoundInv, FixingInv
    <2>2. \A i \in DOMAIN fixing : i \in DOMAIN fixing' \/ i = Len(fixing)
      BY <1>4
    <2>3. Len(fixing) \notin DOMAIN fixing' /\ Len(fixing) \in DOMAIN fixing
      BY <1>4
    <2>4. \A i \in DOMAIN fixing' : fixing'[i] = fixing[i] /\ fixing[i] # h /\ i \in DOMAIN fixing
      BY <1>4, <2>1, <2>3
    <2> QED
      BY <1>4, <2>2, <2>4 DEF Selves
  <1>10. \A q \in Objects : shape'[q] = IF q = p THEN NoShape ELSE IF q = h THEN shape[p] ELSE shape[q]
    BY <1>1, <1>4 DEF TypeInv
  <1>11. \A q \in Objects : handles'[q] = IF q = p THEN 0 ELSE IF q = h THEN 1 ELSE handles[q]
    BY <1>1, <1>4, <1>5 DEF TypeInv
  <1>12. \A q \in Objects : q # p => rc'[q] = rc[q]
    BY <1>1 DEF TypeInv
  <1> QED
    BY <1>1, <1>2, <1>3, <1>4, <1>5, <1>6, <1>7, <1>8, <1>9, <1>10, <1>11, <1>12 DEF h

LEMMA FixEndSlots ==
  ASSUME TypeInv, TypeInv', SoundInv, NEW p \in Objects, FixEnd(p), undefined' = FALSE
  PROVE  LET h == Placeholder
         IN  \A q \in Objects :
               /\ Slots(q)' = Renamed(Slots(q), p, h) /\ Owned(q)' = Renamed(Owned(q), p, h)
               /\ \A s \in Slots(q) : s[1] # h
               /\ \A s \in Slots(q)' \ Owned(q)' :
                    s \in Slots(q) \ Owned(q) \/ (s[1] = h /\ <<p, s[2]>> \in Slots(q) \ Owned(q))
               /\ \A s \in Owned(q)' : (s \in Owned(q) /\ s[1] # p) \/ (s[1] = h /\ <<p, s[2]>> \in Owned(q))
  <1> DEFINE h == Placeholder
  <1>1. /\ h \in Objects /\ h \in live /\ h # p /\ p \in live
        /\ Open = live /\ Open' = live \ {p}
        /\ \A q \in Objects : shape'[q] = IF q = p THEN NoShape ELSE IF q = h THEN shape[p] ELSE shape[q]
        /\ shape[h] = NoShape
    BY FixEndIs
  <1> HIDE DEF h
  <1> SUFFICES ASSUME NEW q \in Objects
               PROVE  /\ Slots(q)' = Renamed(Slots(q), p, h) /\ Owned(q)' = Renamed(Owned(q), p, h)
                      /\ \A s \in Slots(q) : s[1] # h
                      /\ \A s \in Slots(q)' \ Owned(q)' :
                           s \in Slots(q) \ Owned(q) \/ (s[1] = h /\ <<p, s[2]>> \in Slots(q) \ Owned(q))
                      /\ \A s \in Owned(q)' : (s \in Owned(q) /\ s[1] # p) \/ (s[1] = h /\ <<p, s[2]>> \in Owned(q))
    BY DEF h
  <1>2. \A s \in Slots(q) : s[1] # h
    <2>1. DOMAIN shape[h].kids = {}
      BY <1>1 DEF NoShape
    <2> QED
      BY <2>1 DEF Slots
  <1>3. \A s \in Objects \X {1, 2} : s[1] # h /\ s[1] # p =>
          /\ s \in Slots(q)' <=> s \in Slots(q)
          /\ s \in Owned(q)' <=> s \in Owned(q)
    <2> SUFFICES ASSUME NEW s \in Objects \X {1, 2}, s[1] # h, s[1] # p
                 PROVE  (s \in Slots(q)' <=> s \in Slots(q)) /\ (s \in Owned(q)' <=> s \in Owned(q))
      OBVIOUS
    <2>1. shape'[s[1]] = shape[s[1]] /\ (s[1] \in Open' <=> s[1] \in Open)
      BY <1>1
    <2>2. s \in Slots(q)' <=> s \in Slots(q)
      BY <2>1 DEF Slots
    <2> QED
      BY <2>1, <2>2 DEF Owned
  <1>4. \A i \in {1, 2} : /\ <<h, i>> \in Slots(q)' <=> <<p, i>> \in Slots(q)
                          /\ <<h, i>> \in Owned(q)' <=> <<p, i>> \in Owned(q)
    <2> TAKE i \in {1, 2}
    <2>1. shape'[h] = shape[p] /\ h \in Open' /\ p \in Open
      BY <1>1
    <2>2. <<h, i>> \in Slots(q)' <=> <<p, i>> \in Slots(q)
      BY <1>1, <2>1 DEF Slots
    <2> QED
      BY <2>1, <2>2 DEF Owned
  <1>5. \A s \in Slots(q)' : s[1] # p
    BY <1>1 DEF Slots
  <1>6. /\ Slots(q) \subseteq Objects \X {1, 2} /\ Slots(q)' \subseteq Objects \X {1, 2}
        /\ Owned(q) \subseteq Slots(q) /\ Owned(q)' \subseteq Slots(q)'
    BY DEF Slots, Owned
  <1>7. \A s \in Objects \X {1, 2} : s[1] = h => s = <<h, s[2]>> /\ s[2] \in {1, 2}
    OBVIOUS
  <1>8. Slots(q)' = Renamed(Slots(q), p, h)
    <2>1. \A s \in Slots(q)' : s \in Renamed(Slots(q), p, h)
      <3> TAKE s \in Slots(q)'
      <3>1. CASE s[1] = h
        BY <1>4, <1>6, <1>7, <3>1 DEF Renamed
      <3>2. CASE s[1] # h
        BY <1>3, <1>5, <1>6, <3>2 DEF Renamed
      <3> QED
        BY <3>1, <3>2
    <2>2. \A s \in Renamed(Slots(q), p, h) : s \in Slots(q)'
      <3>1. \A s \in Slots(q) : s[1] # p => s \in Slots(q)'
        BY <1>2, <1>3, <1>6
      <3>2. \A i \in {1, 2} : <<p, i>> \in Slots(q) => <<h, i>> \in Slots(q)'
        BY <1>4
      <3> QED
        BY <3>1, <3>2 DEF Renamed
    <2> QED
      BY <2>1, <2>2
  <1>9. Owned(q)' = Renamed(Owned(q), p, h)
    <2>1. \A s \in Owned(q)' : s \in Renamed(Owned(q), p, h)
      <3> TAKE s \in Owned(q)'
      <3>1. CASE s[1] = h
        BY <1>4, <1>6, <1>7, <3>1 DEF Renamed
      <3>2. CASE s[1] # h
        BY <1>3, <1>5, <1>6, <3>2 DEF Renamed
      <3> QED
        BY <3>1, <3>2
    <2>2. \A s \in Renamed(Owned(q), p, h) : s \in Owned(q)'
      <3>1. \A s \in Owned(q) : s[1] # p => s \in Owned(q)'
        BY <1>2, <1>3, <1>6
      <3>2. \A i \in {1, 2} : <<p, i>> \in Owned(q) => <<h, i>> \in Owned(q)'
        BY <1>4
      <3> QED
        BY <3>1, <3>2 DEF Renamed
    <2> QED
      BY <2>1, <2>2
  <1>10. \A s \in Slots(q)' \ Owned(q)' :
           s \in Slots(q) \ Owned(q) \/ (s[1] = h /\ <<p, s[2]>> \in Slots(q) \ Owned(q))
    <2> TAKE s \in Slots(q)' \ Owned(q)'
    <2>1. s \in Objects \X {1, 2} /\ s[1] # p
      BY <1>5, <1>6
    <2>2. CASE s[1] = h
      BY <1>4, <1>7, <2>1, <2>2
    <2>3. CASE s[1] # h
      BY <1>3, <2>1, <2>3
    <2> QED
      BY <2>2, <2>3
  <1>11. \A s \in Owned(q)' : (s \in Owned(q) /\ s[1] # p) \/ (s[1] = h /\ <<p, s[2]>> \in Owned(q))
    <2> TAKE s \in Owned(q)'
    <2>1. s \in Objects \X {1, 2} /\ s[1] # p
      BY <1>5, <1>6
    <2>2. CASE s[1] = h
      BY <1>4, <1>7, <2>1, <2>2
    <2>3. CASE s[1] # h
      BY <1>3, <2>1, <2>3
    <2> QED
      BY <2>2, <2>3
  <1> QED
    BY <1>2, <1>8, <1>9, <1>10, <1>11
LEMMA FixEndSound ==
  ASSUME TypeInv, TypeInv', SoundInv, NEW p \in Objects, FixEnd(p), undefined' = FALSE
  PROVE  SoundInv'
  <1> PICK h \in Objects : h = Placeholder
    BY FixEndIs
  <1>1. /\ todo = <<>> /\ todo' = <<>> /\ h \in Objects /\ h \in live /\ h \in Selves /\ h # p
        /\ p \in live /\ p \notin Selves /\ Slots(p) = {}
        /\ Open = live /\ Open' = live \ {p} /\ live' = live \ {p} /\ Dying' = {}
        /\ Selves' = Selves \ {h}
        /\ \A i \in DOMAIN fixing' : fixing'[i] = fixing[i] /\ i \in DOMAIN fixing
        /\ \A q \in Objects : shape'[q] = IF q = p THEN NoShape ELSE IF q = h THEN shape[p] ELSE shape[q]
        /\ \A q \in Objects : handles'[q] = IF q = p THEN 0 ELSE IF q = h THEN 1 ELSE handles[q]
        /\ \A q \in Objects : q # p => rc'[q] = rc[q]
        /\ blocks' = blocks /\ undefined' = FALSE
        /\ \A q \in Objects \ {p} : handles[q] > 0 => h \notin Reach(q)
        /\ shape[h] = NoShape /\ handles[h] = 0 /\ Owned(h) = {} /\ handles[p] = 1
    BY FixEndIs
  <1>2. \A q \in Objects :
          /\ Slots(q)' = Renamed(Slots(q), p, h) /\ Owned(q)' = Renamed(Owned(q), p, h)
          /\ \A s \in Slots(q) : s[1] # h
          /\ \A s \in Slots(q)' \ Owned(q)' :
               s \in Slots(q) \ Owned(q) \/ (s[1] = h /\ <<p, s[2]>> \in Slots(q) \ Owned(q))
          /\ \A s \in Owned(q)' : (s \in Owned(q) /\ s[1] # p) \/ (s[1] = h /\ <<p, s[2]>> \in Owned(q))
    BY FixEndSlots
  <1>3. live \subseteq Objects /\ Selves \subseteq live /\ \A q \in live : Kids(q) \subseteq live
    BY <1>1, Allocations DEF AllObjects, SoundInv, LiveInv
  <1>4. \A q : Jobs(q)' = {} /\ Jobs(q) = {}
    BY <1>1 DEF Jobs
  <1>5. \A q \in live : p \notin Kids(q)
    <2> SUFFICES ASSUME NEW q \in live, p \in Kids(q)
                 PROVE  FALSE
      OBVIOUS
    <2>1. PICK i \in DOMAIN shape[q].kids : shape[q].kids[i] = p
      BY DEF Kids
    <2>2. i \in {1, 2} /\ q \in Objects
      BY <1>3 DEF TypeInv
    <2>3. <<q, i>> \in Slots(p)
      BY <1>1, <2>1, <2>2 DEF Slots
    <2> QED
      BY <1>1, <2>3
  <1>6. LiveInv'
    <2>1. \A q \in live \ {p} : Kids(q)' \subseteq live \ {p}
      <3> TAKE q \in live \ {p}
      <3>1. CASE q = h
        <4>1. shape'[q] = shape[p]
          BY <1>1, <3>1
        <4>2. Kids(q)' = Kids(p)
          BY <4>1 DEF Kids
        <4> QED
          BY <1>1, <1>3, <1>5, <4>2
      <3>2. CASE q # h
        <4>1. shape'[q] = shape[q]
          BY <1>1, <1>3, <3>2
        <4>2. Kids(q)' = Kids(q)
          BY <4>1 DEF Kids
        <4> QED
          BY <1>3, <1>5, <4>2
      <3> QED
        BY <3>1, <3>2
    <2>2. \A q \in Objects : handles'[q] > 0 => q \in live \ {p}
      BY <1>1 DEF SoundInv, LiveInv
    <2>3. Selves' \subseteq live \ {p}
      BY <1>1, <1>3
    <2> QED
      BY <1>1, <2>1, <2>2, <2>3 DEF LiveInv
  <1>7. FixingInv'
    <2>1. \A i, j \in DOMAIN fixing' : fixing'[i] = fixing'[j] => i = j
      BY <1>1 DEF SoundInv, FixingInv
    <2>2. \A q \in Selves' : shape'[q] = NoShape /\ handles'[q] = 0 /\ Owned(q)' = {}
      <3> TAKE q \in Selves'
      <3>1. q \in Selves /\ q # h /\ q # p /\ q \in Objects
        BY <1>1, <1>3
      <3>2. shape[q] = NoShape /\ handles[q] = 0 /\ Owned(q) = {}
        BY <3>1 DEF SoundInv, FixingInv
      <3>3. Owned(q)' = {}
        BY <1>2, <3>1, <3>2
      <3> QED
        BY <1>1, <3>1, <3>2, <3>3
    <2> QED
      BY <1>1, <2>1, <2>2 DEF FixingInv
  <1>8. CountInv'
    <2> SUFFICES ASSUME NEW q \in live \ {p}
                 PROVE  /\ rc'[q] = handles'[q] + (IF q \in Selves' THEN 1 ELSE 0)
                                      + Cardinality(Owned(q)') + Cardinality(Jobs(q)')
                        /\ rc'[q] > 0
      BY <1>1 DEF CountInv
    <2>1. q \in Objects /\ q # p /\ rc'[q] = rc[q]
      BY <1>1, <1>3
    <2>2. rc[q] = handles[q] + (IF q \in Selves THEN 1 ELSE 0) + Cardinality(Owned(q)) + Cardinality(Jobs(q))
          /\ rc[q] > 0
      BY <1>1 DEF SoundInv, CountInv
    <2>3. Cardinality(Owned(q)') = Cardinality(Owned(q)) /\ Cardinality(Owned(q)) \in Nat
      <3>1. Owned(q) \in SUBSET (Objects \X {1, 2}) /\ \A s \in Owned(q) : s[1] # h
        BY <1>2, <2>1 DEF Owned, Slots
      <3>2. IsFiniteSet(Owned(q)) /\ Cardinality(Owned(q)) \in Nat
        BY <2>1, Counted DEF Countable
      <3>3. Cardinality(Renamed(Owned(q), p, h)) = Cardinality(Owned(q))
        BY <1>1, <3>1, <3>2, RenamedCount
      <3> QED
        BY <1>2, <2>1, <3>2, <3>3
    <2>4. Jobs(q)' = Jobs(q)
      BY <1>4
    <2>5. handles'[q] + (IF q \in Selves' THEN 1 ELSE 0) = handles[q] + (IF q \in Selves THEN 1 ELSE 0)
      <3>1. CASE q = h
        BY <1>1, <2>1, <3>1
      <3>2. CASE q # h
        BY <1>1, <2>1, <3>2
      <3> QED
        BY <3>1, <3>2
    <2>6. handles[q] \in Nat /\ handles'[q] \in Nat
      BY <2>1, Total DEF TypeInv
    <2> QED
      BY <2>1, <2>2, <2>3, <2>4, <2>5, <2>6
  <1>9. DyingInv' /\ DoomedInv'
    BY <1>1 DEF DyingInv, DoomedInv
  <1>10. AcyclicInv'
    <2> SUFFICES ASSUME NEW S \in SUBSET Objects, S # {}
                 PROVE  \E q \in S : \A s \in Owned(q)' : s[1] \notin S
      BY DEF AcyclicInv
    <2>1. CASE p \in S
      <3>1. Owned(p) = {}
        BY <1>1 DEF Owned
      <3>2. Owned(p)' = {}
        BY <1>2, <3>1
      <3> QED
        BY <2>1, <3>2
    <2>2. CASE h \in S
      <3>1. Owned(h)' = {}
        BY <1>1, <1>2
      <3> QED
        BY <2>2, <3>1
    <2>3. CASE p \notin S /\ h \notin S
      <3>1. PICK q \in S : \A s \in Owned(q) : s[1] \notin S
        BY DEF SoundInv, AcyclicInv
      <3>2. \A s \in Owned(q)' : s \in Owned(q) \/ s[1] = h
        BY <1>2
      <3> QED
        BY <2>3, <3>1, <3>2
    <2> QED
      BY <2>1, <2>2, <2>3
  <1>11. EnclosedInv'
    <2> SUFFICES ASSUME NEW q \in live \ {p}, q \notin Selves'
                 PROVE  \E U \in SUBSET (live \ {p}) : Inside(U, q)'
      BY <1>1 DEF EnclosedInv
    <2>1. q \in Objects
      BY <1>3
    <2>2. CASE q = h
      <3> PICK U \in SUBSET (live \ {p, h}) : U = {r \in live \ {p, h} : h \in Reach(r)}
        OBVIOUS
      <3>1. \A r \in live \ {p, h} : h \notin Reach(r) => h \notin Kids(r)
        BY <1>1, <1>3, ReachSelf, ReachKids
      <3>2. \A s \in Slots(h)' : s[1] \in U \cup {h}
        <4> TAKE s \in Slots(h)'
        <4>1. s[1] \in live \ {p} /\ h \in Kids(s[1])'
          BY <1>1 DEF Slots, Kids
        <4>2. CASE s[1] # h
          <5>1. shape'[s[1]] = shape[s[1]]
            BY <1>1, <1>3, <4>1, <4>2
          <5>2. h \in Kids(s[1])
            BY <4>1, <5>1 DEF Kids
          <5> QED
            BY <3>1, <4>1, <4>2, <5>2
        <4> QED
          BY <4>2
      <3>3. ASSUME NEW u \in U
            PROVE  /\ handles'[u] = 0 /\ u \notin Selves' /\ Jobs(u)' = {}
                   /\ \A s \in Owned(u)' : s[1] \in U \cup {h}
        <4>1. u \in live /\ u \in Objects /\ u # p /\ u # h /\ h \in Reach(u)
          BY <1>3, <3>3
        <4>2. handles'[u] = 0
          <5>1. handles[u] \in Nat /\ ~(handles[u] > 0)
            BY <1>1, <4>1, Total DEF TypeInv
          <5> QED
            BY <1>1, <4>1, <5>1
        <4>3. u \notin Selves
          <5> SUFFICES ASSUME u \in Selves
                       PROVE  FALSE
            OBVIOUS
          <5>1. shape[u] = NoShape
            BY DEF SoundInv, FixingInv
          <5>2. Kids(u) = {}
            BY <5>1 DEF Kids, NoShape
          <5>3. {u} \in SUBSET Objects /\ \A r \in {u} : Kids(r) \subseteq {u}
            BY <4>1, <5>2
          <5>4. Reach(u) \subseteq {u}
            BY <4>1, <5>3, ReachLeast
          <5> QED
            BY <4>1, <5>4
        <4>4. \A s \in Owned(u)' : s[1] \in U \cup {h}
          <5> SUFFICES ASSUME NEW s \in Owned(u), s[1] # p, s[1] # h
                       PROVE  s[1] \in U
            BY <1>2, <4>1
          <5>1. s[1] \in live /\ s[1] \in Objects /\ u \in Kids(s[1])
            BY <1>1 DEF Owned, Slots, Kids
          <5>2. Reach(u) \subseteq Reach(s[1])
            BY <4>1, <5>1, ReachFrom, Allocations DEF AllObjects
          <5> QED
            BY <4>1, <5>1, <5>2
        <4> QED
          BY <1>1, <1>4, <4>2, <4>3, <4>4
      <3>4. h \notin U /\ U \in SUBSET (live \ {p})
        OBVIOUS
      <3>5. Inside(U, h)'
        BY <3>2, <3>3, <3>4 DEF Inside
      <3> QED
        BY <2>2, <3>4, <3>5
    <2>3. CASE q # h
      <3>1. PICK U \in SUBSET live : Inside(U, q)
        BY <1>1, <2>3 DEF SoundInv, EnclosedInv
      <3>2. p \notin U /\ h \notin U /\ q \notin U /\ q # p
        BY <1>1, <3>1 DEF Inside
      <3>3. \A s \in Slots(q)' \ Owned(q)' : s[1] \in U \cup {q}
        <4>1. \A i : <<p, i>> \notin Slots(q) \ Owned(q)
          <5> SUFFICES ASSUME NEW i, <<p, i>> \in Slots(q) \ Owned(q)
                       PROVE  FALSE
            OBVIOUS
          <5>1. <<p, i>>[1] \in U \cup {q}
            BY <3>1 DEF Inside
          <5> QED
            BY <3>2, <5>1
        <4> QED
          BY <1>2, <2>1, <3>1, <4>1 DEF Inside
      <3>4. ASSUME NEW u \in U
            PROVE  /\ handles'[u] = 0 /\ u \notin Selves' /\ Jobs(u)' = {}
                   /\ \A s \in Owned(u)' : s[1] \in U \cup {q}
        <4>1. u \in Objects /\ u # p /\ u # h /\ handles[u] = 0 /\ u \notin Selves
              /\ \A s \in Owned(u) : s[1] \in U \cup {q}
          BY <1>3, <3>1, <3>2 DEF Inside
        <4>2. \A i : <<p, i>> \notin Owned(u)
          <5> SUFFICES ASSUME NEW i, <<p, i>> \in Owned(u)
                       PROVE  FALSE
            OBVIOUS
          <5>1. <<p, i>>[1] \in U \cup {q}
            BY <4>1
          <5> QED
            BY <3>2, <5>1
        <4> QED
          BY <1>1, <1>2, <1>4, <4>1, <4>2
      <3>5. Inside(U, q)'
        BY <3>2, <3>3, <3>4 DEF Inside
      <3>6. U \in SUBSET (live \ {p})
        BY <3>2
      <3> QED
        BY <3>5, <3>6
    <2> QED
      BY <2>2, <2>3
  <1>12. DataInv'
    <2>1. /\ \A q \in live : shape[q].data \in blocks \cup {Null}
          /\ \A q, r \in live : shape[q].data = shape[r].data /\ shape[q].data # Null => q = r
          /\ \A b \in blocks : \E q \in live : shape[q].data = b
      BY DEF SoundInv, DataInv
    <2>2. shape[h].data = Null
      BY <1>1 DEF NoShape
    <2>3. \A q \in live' : shape'[q] = (IF q = h THEN shape[p] ELSE shape[q]) /\ q \in live /\ q # p
      BY <1>1, <1>3
    <2>4. \A q \in live' : shape'[q].data \in blocks' \cup {Null}
      BY <1>1, <2>1, <2>3
    <2>5. \A q, r \in live' : shape'[q].data = shape'[r].data /\ shape'[q].data # Null => q = r
      <3> SUFFICES ASSUME NEW q \in live', NEW r \in live', shape'[q].data = shape'[r].data, shape'[q].data # Null
                   PROVE  q = r
        OBVIOUS
      <3>1. CASE q = h /\ r # h
        BY <1>1, <2>1, <2>3, <3>1
      <3>2. CASE q # h /\ r = h
        BY <1>1, <2>1, <2>3, <3>2
      <3>3. CASE q # h /\ r # h
        BY <2>1, <2>3, <3>3
      <3> QED
        BY <3>1, <3>2, <3>3
    <2>6. \A b \in blocks' : \E q \in live' : shape'[q].data = b
      <3> TAKE b \in blocks'
      <3>1. b \in blocks /\ b # Null
        BY <1>1, ObjectsAre, Total DEF TypeInv
      <3>2. PICK q \in live : shape[q].data = b
        BY <2>1, <3>1
      <3>3. CASE q = p
        <4>1. h \in live' /\ shape'[h] = shape[p]
          BY <1>1
        <4> QED
          BY <3>2, <3>3, <4>1
      <3>4. CASE q # p
        <4>1. q # h
          BY <2>2, <3>1, <3>2
        <4>2. q \in live' /\ shape'[q] = shape[q]
          BY <1>1, <1>3, <3>4, <4>1
        <4> QED
          BY <3>2, <4>2
      <3> QED
        BY <3>3, <3>4
    <2> QED
      BY <2>4, <2>5, <2>6 DEF DataInv
  <1> QED
    BY <1>1, <1>6, <1>7, <1>8, <1>9, <1>10, <1>11, <1>12 DEF SoundInv
-----------------------------------------------------------------------------
(* The counts: what is released.                                           *)

\* A job is done and nothing is left to do for it.
LEMMA DoneSound ==
  ASSUME TypeInv, TypeInv', SoundInv, todo # <<>>, Job.op = "release", todo' = Front(todo),
         shape' = shape, live' = live, blocks' = blocks, handles' = handles, fixing' = fixing,
         undefined' = FALSE, CountInv'
  PROVE  SoundInv'
  <1>1. /\ DOMAIN todo' \subseteq DOMAIN todo
        /\ \A i \in DOMAIN todo' : todo'[i] = todo[i]
        /\ \A q : Jobs(q)' \subseteq Jobs(q)
        /\ Dying' = Dying
    BY Popped
  <1>2. Open' = Open /\ Selves' = Selves
    BY <1>1 DEF Open, Selves
  <1>3. \A q : Slots(q)' = Slots(q) /\ Owned(q)' = Owned(q)
    BY <1>1, KeptSlots
  <1>4. \A q \in Objects : Reach(q)' = Reach(q) /\ Kids(q)' = Kids(q)
    BY SameReach
  <1>5. live \subseteq Objects /\ Open \subseteq Objects
    BY Allocations DEF AllObjects, Open
  <1>6. LiveInv'
    <2>1. \A q \in Open : Kids(q)' = Kids(q)
      BY <1>4, <1>5
    <2> QED
      BY <1>1, <1>2, <2>1 DEF SoundInv, LiveInv
  <1>7. FixingInv'
    <2>1. \A q \in Objects : \A i \in DOMAIN todo' : todo'[i].p = q => Reach(q)' \cap Selves' = {}
      BY <1>1, <1>2, <1>4 DEF SoundInv, FixingInv
    <2> QED
      BY <1>2, <1>3, <2>1 DEF SoundInv, FixingInv
  <1>8. DyingInv'
    BY <1>1, <1>3 DEF SoundInv, DyingInv
  <1>9. AcyclicInv'
    BY <1>3 DEF SoundInv, AcyclicInv
  <1>10. EnclosedInv'
    <2> SUFFICES ASSUME NEW q \in Open \ Selves
                 PROVE  \E U \in SUBSET Open : Inside(U, q)'
      BY <1>2 DEF EnclosedInv
    <2>1. PICK U \in SUBSET Open : Inside(U, q)
      BY DEF SoundInv, EnclosedInv
    <2>2. Inside(U, q)'
      BY <1>1, <1>2, <1>3, <2>1 DEF Inside
    <2> QED
      BY <2>2
  <1>11. DoomedInv'
    <2> SUFFICES ASSUME NEW j \in DOMAIN todo', NEW q \in Objects, todo'[j] = Frees(q)
                 PROVE  \E U \in SUBSET Open : Before(U, j, q)'
      BY <1>2 DEF DoomedInv
    <2>1. j \in DOMAIN todo /\ todo[j] = Frees(q)
      BY <1>1
    <2>2. PICK U \in SUBSET Open : Before(U, j, q)
      BY <2>1 DEF SoundInv, DoomedInv
    <2>3. Before(U, j, q)'
      BY <1>1, <1>2, <1>3, <2>2 DEF Before
    <2> QED
      BY <2>3
  <1>12. DataInv'
    BY DEF SoundInv, DataInv
  <1> QED
    BY <1>6, <1>7, <1>8, <1>9, <1>10, <1>11, <1>12 DEF SoundInv

LEMMA ReleaseNullSound ==
  ASSUME TypeInv, TypeInv', SoundInv, ReleaseNull
  PROVE  SoundInv'
  <1>1. /\ todo # <<>> /\ todo' = Front(todo) /\ Job = Releases(Null) /\ Job.op = "release" /\ rc' = rc
        /\ shape' = shape /\ live' = live /\ blocks' = blocks /\ handles' = handles /\ fixing' = fixing
        /\ undefined' = FALSE
    BY DEF ReleaseNull, Busy, Releases, SoundInv
  <1>2. /\ \A q : Jobs(q)' = Jobs(q) \ {Len(todo)}
        /\ Dying' = Dying
    BY <1>1, Popped
  <1>3. \A q \in Objects : Jobs(q)' = Jobs(q)
    <2> TAKE q \in Objects
    <2>1. todo[Len(todo)] = Releases(Null) /\ q # Null
      BY <1>1, ObjectsAre DEF Job
    <2>2. Len(todo) \notin Jobs(q)
      BY <2>1, Distinguished DEF Jobs
    <2> QED
      BY <1>2, <2>2
  <1>4. \A q : Owned(q)' = Owned(q)
    BY <1>1, <1>2, KeptSlots
  <1>5. CountInv'
    <2>1. Open' = Open /\ Selves' = Selves /\ Open \subseteq Objects
      BY <1>1, <1>2, Allocations DEF Open, Selves, AllObjects
    <2> QED
      BY <1>1, <1>3, <1>4, <2>1 DEF SoundInv, CountInv
  <1> QED
    BY <1>1, <1>5, DoneSound

\* A reference goes and others stay, or what it led to is being freed.
LEMMA ReleasedSound ==
  ASSUME TypeInv, TypeInv', SoundInv, NEW p \in Objects, Release(p), (rc[p] - 1) % CountBound # 0
  PROVE  SoundInv'
  <1>1. /\ todo # <<>> /\ todo' = Front(todo) /\ Job = Releases(p) /\ Job.op = "release" /\ p \in live
        /\ rc'[p] = (rc[p] - 1) % CountBound /\ rc'[p] # 0
        /\ \A q \in Objects : q # p => rc'[q] = rc[q]
    BY ReleaseIs, Distinguished
  <1>2. /\ shape' = shape /\ live' = live /\ blocks' = blocks /\ handles' = handles /\ fixing' = fixing
        /\ undefined' = FALSE
    BY <1>1 DEF Release
  <1>3. /\ \A q : Jobs(q)' = Jobs(q) \ {Len(todo)}
        /\ Dying' = Dying /\ Len(todo) \in DOMAIN todo
    BY <1>1, Popped
  <1>4. \A q : Owned(q)' = Owned(q)
    BY <1>2, <1>3, KeptSlots
  <1>5. todo[Len(todo)] = Releases(p)
    BY <1>1 DEF Job
  <1>6. Open' = Open /\ Selves' = Selves /\ Open \subseteq Objects
    BY <1>2, <1>3, Allocations DEF Open, Selves, AllObjects
  <1>7. CountInv'
    <2> SUFFICES ASSUME NEW q \in Open
                 PROVE  /\ rc'[q] = handles[q] + (IF q \in Selves THEN 1 ELSE 0)
                                      + Cardinality(Owned(q)) + Cardinality(Jobs(q)')
                        /\ rc'[q] > 0
      BY <1>2, <1>4, <1>6 DEF CountInv
    <2>1. /\ rc[q] = handles[q] + (IF q \in Selves THEN 1 ELSE 0) + Cardinality(Owned(q)) + Cardinality(Jobs(q))
          /\ rc[q] > 0 /\ q \in Objects
      BY <1>6 DEF SoundInv, CountInv
    <2>2. CASE q # p
      <3>1. Len(todo) \notin Jobs(q)
        BY <1>5, <2>2, Distinguished DEF Jobs
      <3>2. Jobs(q)' = Jobs(q)
        BY <1>3, <3>1
      <3> QED
        BY <1>1, <2>1, <2>2, <3>2
    <2>3. CASE q = p
      <3>1. rc[q] \in 0 .. CountBound - 1 /\ CountBound \in Nat
        BY <2>1, Total DEF TypeInv
      <3>2. rc'[q] = rc[q] - 1
        BY <1>1, <2>1, <2>3, <3>1, Decrement
      <3>3. Len(todo) \in Jobs(q)
        BY <1>3, <1>5, <2>3 DEF Jobs
      <3>4. IsFiniteSet(Jobs(q)) /\ Cardinality(Jobs(q)) \in Nat /\ Cardinality(Owned(q)) \in Nat
        BY <2>1, Counted DEF Countable
      <3>5. Cardinality(Jobs(q)') = Cardinality(Jobs(q)) - 1
        <4>1. Cardinality(Jobs(q) \ {Len(todo)}) = Cardinality(Jobs(q)) - 1
          BY <3>3, <3>4, FS_RemoveElement
        <4> QED
          BY <1>3, <4>1
      <3>6. handles[q] \in Nat
        BY <2>1, Total DEF TypeInv
      <3>7. rc'[q] > 0
        BY <1>1, <2>1, <2>3, <3>1, <3>2
      <3>8. rc'[q] = handles[q] + (IF q \in Selves THEN 1 ELSE 0) + Cardinality(Owned(q)) + Cardinality(Jobs(q)')
        BY <2>1, <3>2, <3>4, <3>5, <3>6
      <3> QED
        BY <3>7, <3>8
    <2> QED
      BY <2>2, <2>3
  <1> QED
    BY <1>1, <1>2, <1>7, DoneSound
\* The last reference to p goes: who refers to it is enclosed by it, and what it refers
\* to is its own or is being freed.
LEMMA LastReference ==
  ASSUME TypeInv, SoundInv, NEW p \in Open, rc[p] = 1, todo # <<>>, todo[Len(todo)] = Releases(p),
         Len(todo) \in Jobs(p)
  PROVE  /\ handles[p] = 0 /\ p \notin Selves /\ Owned(p) = {} /\ Jobs(p) = {Len(todo)}
         /\ \A q \in Kids(p) : q \notin Selves
         /\ \A q \in Open : q # p => \A s \in Slots(q) : s[1] = p => s \in Owned(q)
  <1>1. p \in Objects /\ Open \subseteq Objects /\ \A q \in Objects : Kids(q) \subseteq Objects
    BY Allocations DEF AllObjects, Open
  <1>2. Reach(p) \cap Selves = {}
    <2>1. todo[Len(todo)].p = p /\ Len(todo) \in DOMAIN todo
      BY Distinguished DEF Jobs
    <2> QED
      BY <1>1, <2>1 DEF SoundInv, FixingInv
  <1>3. p \notin Selves /\ \A q \in Kids(p) : q \notin Selves
    BY <1>1, <1>2, ReachSelf, ReachKids
  <1>4. handles[p] = 0 /\ Owned(p) = {} /\ Jobs(p) = {Len(todo)}
    <2>1. rc[p] = handles[p] + (IF p \in Selves THEN 1 ELSE 0) + Cardinality(Owned(p)) + Cardinality(Jobs(p))
      BY DEF SoundInv, CountInv
    <2>2. /\ Cardinality(Owned(p)) \in Nat /\ IsFiniteSet(Owned(p))
          /\ Cardinality(Jobs(p)) \in Nat /\ IsFiniteSet(Jobs(p))
      BY <1>1, Counted DEF Countable
    <2>3. handles[p] \in Nat
      BY <1>1, Total DEF TypeInv
    <2>4. Cardinality(Jobs(p)) # 0
      BY <2>2, FS_EmptySet
    <2>5. handles[p] = 0 /\ Cardinality(Owned(p)) = 0 /\ Cardinality(Jobs(p)) = 1
      BY <1>3, <2>1, <2>2, <2>3, <2>4
    <2>6. Owned(p) = {}
      BY <2>2, <2>5, FS_EmptySet
    <2>7. PICK x : Jobs(p) = {x}
      BY <2>2, <2>5, FS_Singleton
    <2> QED
      BY <2>5, <2>6, <2>7
  <1>5. ASSUME NEW q \in Open, q # p, NEW s \in Slots(q), s[1] = p
        PROVE  s \in Owned(q)
    <2> SUFFICES ASSUME s \notin Owned(q)
                 PROVE  FALSE
      OBVIOUS
    <2>1. q \in Kids(p)
      BY <1>5 DEF Slots, Kids
    <2>2. q \notin Selves
      BY <1>3, <2>1
    <2>3. PICK U \in SUBSET Open : Inside(U, q)
      BY <2>2 DEF SoundInv, EnclosedInv
    <2>4. p \in U
      BY <1>5, <2>3 DEF Inside
    <2>5. Jobs(p) = {}
      BY <2>3, <2>4 DEF Inside
    <2> QED
      BY <2>5
  <1> QED
    BY <1>3, <1>4, <1>5

LEMMA EmptiedSound ==
  ASSUME TypeInv, TypeInv', SoundInv, NEW p \in Objects, Release(p), p \notin Dying,
         (rc[p] - 1) % CountBound = 0
  PROVE  SoundInv'
  <1> PICK n \in Nat \ {0} : n = Len(todo)
    BY Emptied
  <1>1. /\ n \in DOMAIN todo /\ todo[n] = Releases(p) /\ n \in Jobs(p)
        /\ rc[p] = 1 /\ rc'[p] = 0 /\ p \in Open
        /\ n \in DOMAIN todo' /\ todo'[n] = Frees(p) /\ DOMAIN todo' \subseteq Nat
        /\ \A i \in DOMAIN todo : i \in Nat /\ i <= n
        /\ \A i \in DOMAIN todo : i < n => i \in DOMAIN todo'
        /\ \A i \in DOMAIN todo' : i < n => i \in DOMAIN todo /\ todo'[i] = todo[i]
        /\ \A i \in DOMAIN todo' : i > n => \E k \in Kids(p) : todo'[i] = Releases(k)
    BY Emptied
  <1>2. /\ Dying' = Dying \cup {p} /\ Open' = Open \ {p} /\ Selves' = Selves
        /\ \A q : Slots(q)' = {s \in Slots(q) : s[1] # p}
        /\ \A q : Owned(q)' = {s \in Owned(q) : s[1] # p}
        /\ \A q : Jobs(q) \ {n} = {i \in Jobs(q)' : i < n}
        /\ \A q : Jobs(q)' = (Jobs(q) \ {n}) \cup {i \in Jobs(q)' : i > n}
    BY EmptiedSets
  <1>3. /\ todo # <<>> /\ \A q \in Objects : q # p => rc'[q] = rc[q]
    BY ReleaseIs
  <1>4. /\ shape' = shape /\ live' = live /\ blocks' = blocks /\ handles' = handles /\ fixing' = fixing
    BY DEF Release
  <1>5. /\ handles[p] = 0 /\ p \notin Selves /\ Owned(p) = {} /\ Jobs(p) = {n}
        /\ \A q \in Kids(p) : q \notin Selves
        /\ \A q \in Open : q # p => \A s \in Slots(q) : s[1] = p => s \in Owned(q)
    BY <1>1, <1>3, LastReference
  <1>6. undefined' = FALSE
    <2>1. shape[p].data \in blocks \cup {Null}
      BY <1>1 DEF SoundInv, DataInv, Open
    <2> QED
      BY <2>1 DEF Release
  <1>7. \A q \in Objects : Reach(q)' = Reach(q) /\ Kids(q)' = Kids(q)
    BY <1>4, SameReach
  <1>8. live \subseteq Objects /\ Open \subseteq Objects /\ (\A q \in Objects : Kids(q) \subseteq Objects)
        /\ Kids(p) \subseteq live /\ Open \subseteq live
    BY <1>1, Allocations DEF AllObjects, Open, SoundInv, LiveInv
  <1>9. \A i \in DOMAIN todo' : i < n \/ i = n \/ i > n
    BY <1>1
  <1>10. LiveInv'
    <2>1. \A i \in DOMAIN todo' : todo'[i].p \in live \cup {Null}
      <3> TAKE i \in DOMAIN todo'
      <3>1. CASE i < n
        BY <1>1, <3>1 DEF SoundInv, LiveInv
      <3>2. CASE i = n
        BY <1>1, <1>8, <3>2, Distinguished
      <3>3. CASE i > n
        BY <1>1, <1>8, <3>3, Distinguished
      <3> QED
        BY <1>9, <3>1, <3>2, <3>3
    <2>2. \A q \in Open : Kids(q)' = Kids(q)
      BY <1>7, <1>8
    <2>3. Selves' \subseteq Open' /\ Dying' \subseteq live'
      BY <1>1, <1>2, <1>4, <1>5, <1>8 DEF SoundInv, LiveInv
    <2>4. \A q \in Objects : handles'[q] > 0 => q \in Open'
      <3> SUFFICES ASSUME NEW q \in Objects, handles[q] > 0
                   PROVE  q \in Open \ {p}
        BY <1>2, <1>4
      <3>1. q # p
        BY <1>5
      <3> QED
        BY <3>1 DEF SoundInv, LiveInv
    <2>5. \A q \in Open' : Kids(q)' \subseteq live'
      BY <1>2, <1>4, <2>2 DEF SoundInv, LiveInv
    <2> QED
      BY <1>4, <2>1, <2>3, <2>4, <2>5 DEF LiveInv
  <1>11. FixingInv'
    <2>1. \A q \in Objects : \A i \in DOMAIN todo' : todo'[i].p = q => Reach(q)' \cap Selves' = {}
      <3> SUFFICES ASSUME NEW q \in Objects, NEW i \in DOMAIN todo', todo'[i].p = q
                   PROVE  Reach(q) \cap Selves = {}
        BY <1>2, <1>7
      <3>1. \A r \in Objects : \A j \in DOMAIN todo : todo[j].p = r => Reach(r) \cap Selves = {}
        BY DEF SoundInv, FixingInv
      <3>2. Reach(p) \cap Selves = {}
        <4>1. todo[n].p = p
          BY <1>1, Distinguished
        <4> QED
          BY <1>1, <3>1, <4>1
      <3>3. CASE i < n
        BY <1>1, <3>1, <3>3
      <3>4. CASE i = n
        BY <1>1, <3>2, <3>4, Distinguished
      <3>5. CASE i > n
        <4>1. PICK k \in Kids(p) : todo'[i] = Releases(k)
          BY <1>1, <3>5
        <4>2. q = k /\ q \in Kids(p)
          BY <4>1, Distinguished
        <4>3. Reach(q) \subseteq Reach(p)
          BY <1>8, <4>2, ReachFrom
        <4> QED
          BY <3>2, <4>3
      <3> QED
        BY <1>9, <3>3, <3>4, <3>5
    <2>2. \A q \in Selves' : shape'[q] = NoShape /\ handles'[q] = 0 /\ Owned(q)' = {}
      BY <1>2, <1>4 DEF SoundInv, FixingInv
    <2>3. \A i, j \in DOMAIN fixing' : fixing'[i] = fixing'[j] => i = j
      BY <1>4 DEF SoundInv, FixingInv
    <2> QED
      BY <2>1, <2>2, <2>3 DEF FixingInv
  <1>12. CountInv'
    <2> SUFFICES ASSUME NEW q \in Open, q # p
                 PROVE  /\ rc'[q] = handles[q] + (IF q \in Selves THEN 1 ELSE 0)
                                      + Cardinality(Owned(q)') + Cardinality(Jobs(q)')
                        /\ rc'[q] > 0
      BY <1>2, <1>4 DEF CountInv
    <2> DEFINE R == {s \in Slots(q) : s[1] = p}
    <2>1. /\ rc[q] = handles[q] + (IF q \in Selves THEN 1 ELSE 0) + Cardinality(Owned(q)) + Cardinality(Jobs(q))
          /\ rc[q] > 0 /\ q \in Objects /\ rc'[q] = rc[q]
      BY <1>3, <1>8 DEF SoundInv, CountInv
    <2>2. /\ IsFiniteSet(R) /\ Cardinality(R) \in Nat
          /\ Cardinality(Jobs(q)') = Cardinality(Jobs(q) \ {n}) + Cardinality(R)
      BY <2>1, EmptiedCounts
    <2>3. Jobs(q) \ {n} = Jobs(q)
      <3>1. n \notin Jobs(q)
        BY <1>1, Distinguished DEF Jobs
      <3> QED
        BY <3>1
    <2>4. R \subseteq Owned(q) /\ Owned(q) = Owned(q)' \cup R /\ Owned(q)' \cap R = {}
      <3>1. R \subseteq Owned(q)
        BY <1>5
      <3>2. \A s \in Owned(q) : s \in Owned(q)' \/ s \in R
        BY <1>2 DEF Owned
      <3>3. Owned(q)' \subseteq Owned(q) /\ Owned(q)' \cap R = {}
        BY <1>2
      <3> QED
        BY <3>1, <3>2, <3>3
    <2>5. /\ IsFiniteSet(Owned(q)') /\ Cardinality(Owned(q)') \in Nat /\ Cardinality(Jobs(q)) \in Nat
      BY <2>1, Counted, CountedNext DEF Countable
    <2> HIDE DEF R
    <2>6. Cardinality(Owned(q)) = Cardinality(Owned(q)') + Cardinality(R)
      BY <2>2, <2>4, <2>5, Disjoint
    <2>7. handles[q] \in Nat
      BY <2>1, Total DEF TypeInv
    <2>8. Cardinality(Jobs(q)') = Cardinality(Jobs(q)) + Cardinality(R)
      BY <2>2, <2>3
    <2>9. rc[q] = handles[q] + (IF q \in Selves THEN 1 ELSE 0) + Cardinality(Owned(q)') + Cardinality(Jobs(q)')
      BY <2>1, <2>2, <2>5, <2>6, <2>7, <2>8
    <2> QED
      BY <2>1, <2>9
  <1>13. DyingInv'
    <2> SUFFICES ASSUME NEW q \in Dying'
                 PROVE  /\ Owned(q)' = {}
                        /\ \A i, j \in DOMAIN todo' : todo'[i] = Releases(q) /\ todo'[j] = Frees(q) => i > j
      BY DEF DyingInv
    <2>1. Owned(q)' = {}
      BY <1>2, <1>5 DEF SoundInv, DyingInv
    <2>2. ASSUME NEW i \in DOMAIN todo', NEW j \in DOMAIN todo', todo'[i] = Releases(q), todo'[j] = Frees(q)
          PROVE  i > j
      <3>0. i \in Nat /\ j \in Nat
        BY <1>1
      <3>1. i # n
        BY <1>1, <2>2, Distinguished
      <3>2. ~(j > n)
        BY <1>1, <2>2, Distinguished
      <3>3. CASE i > n
        BY <3>0, <3>2, <3>3
      <3>4. CASE i < n /\ j = n
        <4>0. Frees(q) = Frees(p)
          BY <1>1, <2>2, <3>4
        <4>1. q = p /\ i \in DOMAIN todo /\ todo[i] = Releases(p)
          BY <1>1, <2>2, <3>4, <4>0, Distinguished
        <4>2. i \in Jobs(p)
          BY <4>1 DEF Jobs
        <4> QED
          BY <1>5, <3>1, <4>2
      <3>5. CASE i < n /\ j < n
        <4>1. i \in DOMAIN todo /\ j \in DOMAIN todo /\ todo[i] = Releases(q) /\ todo[j] = Frees(q)
          BY <1>1, <2>2, <3>5
        <4>2. q \in Dying
          <5>1. q \in Objects
            BY DEF Dying
          <5> QED
            BY <4>1, <5>1 DEF Dying
        <4> QED
          BY <4>1, <4>2 DEF SoundInv, DyingInv
      <3> QED
        BY <3>0, <3>1, <3>2, <3>3, <3>4, <3>5
    <2> QED
      BY <2>1, <2>2
  <1>14. AcyclicInv'
    <2> SUFFICES ASSUME NEW S \in SUBSET Objects, S # {}
                 PROVE  \E q \in S : \A s \in Owned(q)' : s[1] \notin S
      BY DEF AcyclicInv
    <2>1. PICK q \in S : \A s \in Owned(q) : s[1] \notin S
      BY DEF SoundInv, AcyclicInv
    <2> QED
      BY <1>2, <2>1
  <1>15. \A q \in Open : q # p => \A U \in SUBSET Open : Inside(U, q) => p \notin U /\ \A u \in U : Jobs(u)' = {}
    <2> SUFFICES ASSUME NEW q \in Open, q # p, NEW U \in SUBSET Open, Inside(U, q)
                 PROVE  p \notin U /\ \A u \in U : Jobs(u)' = {}
      OBVIOUS
    <2>1. p \notin U
      BY <1>5 DEF Inside
    <2>2. ASSUME NEW u \in U, NEW i \in Jobs(u)'
          PROVE  FALSE
      <3>1. u \in Open /\ u # p /\ Jobs(u) = {} /\ \A s \in Owned(u) : s[1] \in U \cup {q}
        BY <2>1 DEF Inside
      <3>2. i \in DOMAIN todo' /\ todo'[i] = Releases(u) /\ i > n
        BY <1>2, <2>2, <3>1 DEF Jobs
      <3>3. u \in Kids(p)
        BY <1>1, <3>2, Distinguished
      <3>4. PICK k \in DOMAIN shape[p].kids : shape[p].kids[k] = u
        BY <3>3 DEF Kids
      <3>5. <<p, k>> \in Slots(u)
        <4>1. k \in {1, 2}
          BY DEF TypeInv
        <4> QED
          BY <1>1, <3>4, <4>1 DEF Slots
      <3>6. <<p, k>> \in Owned(u) /\ <<p, k>>[1] = p
        BY <1>5, <3>1, <3>5
      <3> QED
        BY <2>1, <3>1, <3>6
    <2> QED
      BY <2>1, <2>2
  <1>16. EnclosedInv'
    <2> SUFFICES ASSUME NEW q \in Open, q # p, q \notin Selves
                 PROVE  \E U \in SUBSET (Open \ {p}) : Inside(U, q)'
      BY <1>2 DEF EnclosedInv
    <2>1. PICK U \in SUBSET Open : Inside(U, q)
      BY DEF SoundInv, EnclosedInv
    <2>2. p \notin U /\ \A u \in U : Jobs(u)' = {}
      BY <1>15, <2>1
    <2>3. \A s \in Slots(q)' \ Owned(q)' : s[1] \in U \cup {q}
      BY <1>2, <2>1 DEF Inside
    <2>4. Inside(U, q)'
      BY <1>2, <1>4, <2>1, <2>2, <2>3 DEF Inside
    <2>5. U \in SUBSET (Open \ {p})
      BY <2>2
    <2> QED
      BY <2>4, <2>5
  <1>17. DoomedInv'
    <2> SUFFICES ASSUME NEW j \in DOMAIN todo', NEW q \in Objects, todo'[j] = Frees(q)
                 PROVE  \E U \in SUBSET (Open \ {p}) : Before(U, j, q)'
      BY <1>2 DEF DoomedInv
    <2>1. ~(j > n) /\ j \in Nat
      BY <1>1, Distinguished
    <2>2. CASE j < n
      <3>1. j \in DOMAIN todo /\ todo[j] = Frees(q)
        BY <1>1, <2>2
      <3>2. PICK U \in SUBSET Open : Before(U, j, q)
        BY <3>1 DEF SoundInv, DoomedInv
      <3>3. PICK V \in SUBSET (Open \ {p}) : V = U \ {p}
        OBVIOUS
      <3>4. \A s \in Slots(q)' : s[1] \in V
        BY <1>2, <3>2, <3>3 DEF Before
      <3>5. ASSUME NEW u \in V
            PROVE  /\ handles'[u] = 0 /\ u \notin Selves' /\ (\A i \in Jobs(u)' : i > j)
                   /\ \A s \in Owned(u)' : s[1] \in V
        <4>1. handles[u] = 0 /\ u \notin Selves /\ (\A i \in Jobs(u) : i > j)
              /\ \A s \in Owned(u) : s[1] \in U
          BY <3>2, <3>3 DEF Before
        <4>2. \A i \in Jobs(u)' : i > j
          <5> TAKE i \in Jobs(u)'
          <5>1. i \in Jobs(u) \/ (i > n /\ i \in Nat)
            BY <1>1, <1>2 DEF Jobs
          <5> QED
            BY <2>1, <2>2, <4>1, <5>1
        <4> QED
          BY <1>2, <1>4, <3>3, <4>1, <4>2
      <3>6. Before(V, j, q)'
        BY <3>4, <3>5 DEF Before
      <3> QED
        BY <3>6
    <2>3. CASE j = n
      <3>0. Frees(q) = Frees(p)
        BY <1>1, <2>3
      <3>1. q = p
        BY <3>0, Distinguished
      <3>2. PICK U \in SUBSET Open : Inside(U, p)
        BY <1>1, <1>5 DEF SoundInv, EnclosedInv
      <3>3. p \notin U
        BY <3>2 DEF Inside
      <3>4. \A s \in Slots(p)' : s[1] \in U
        BY <1>2, <1>5, <3>2 DEF Inside
      <3>5. ASSUME NEW u \in U
            PROVE  /\ handles'[u] = 0 /\ u \notin Selves' /\ (\A i \in Jobs(u)' : i > j)
                   /\ \A s \in Owned(u)' : s[1] \in U
        <4>1. handles[u] = 0 /\ u \notin Selves /\ Jobs(u) = {} /\ \A s \in Owned(u) : s[1] \in U \cup {p}
          BY <3>2 DEF Inside
        <4>2. \A i \in Jobs(u)' : i > j
          BY <1>2, <2>3, <4>1
        <4> QED
          BY <1>2, <1>4, <4>1, <4>2
      <3>6. Before(U, j, p)'
        BY <3>4, <3>5 DEF Before
      <3> QED
        BY <3>1, <3>3, <3>6
    <2> QED
      BY <2>1, <2>2, <2>3
  <1>18. DataInv'
    BY <1>4 DEF SoundInv, DataInv
  <1> QED
    BY <1>6, <1>10, <1>11, <1>12, <1>13, <1>14, <1>16, <1>17, <1>18 DEF SoundInv
\* What leads to a parser has gone when its turn comes.
LEMMA NothingLeft ==
  ASSUME TypeInv, SoundInv, NEW n \in DOMAIN todo, \A i \in DOMAIN todo : i \in Nat /\ i <= n,
         NEW p \in Objects, todo[n] = Frees(p)
  PROVE  Slots(p) = {} /\ Jobs(p) = {}
  <1>1. PICK U \in SUBSET Open : Before(U, n, p)
    BY DEF SoundInv, DoomedInv
  <1>2. U = {}
    <2> SUFFICES ASSUME U # {}
                 PROVE  FALSE
      OBVIOUS
    <2>1. U \in SUBSET Objects
      BY Allocations DEF AllObjects, Open
    <2>2. PICK u \in U : \A s \in Owned(u) : s[1] \notin U
      BY <2>1 DEF SoundInv, AcyclicInv
    <2>3. handles[u] = 0 /\ u \notin Selves /\ (\A i \in Jobs(u) : i > n) /\ Owned(u) = {}
      BY <1>1, <2>2 DEF Before
    <2>4. Jobs(u) = {}
      <3>1. \A i \in Jobs(u) : i \in Nat /\ i <= n
        BY DEF Jobs
      <3>2. n \in Nat
        OBVIOUS
      <3> QED
        BY <2>3, <3>1, <3>2
    <2>5. u \in Open /\ rc[u] = 0 + 0 + Cardinality(Owned(u)) + Cardinality(Jobs(u)) /\ rc[u] > 0
      BY <2>3 DEF SoundInv, CountInv
    <2> QED
      BY <2>3, <2>4, <2>5, FS_EmptySet
  <1>3. Slots(p) = {}
    BY <1>1, <1>2 DEF Before
  <1>4. Jobs(p) = {}
    <2> SUFFICES ASSUME NEW i \in DOMAIN todo, todo[i] = Releases(p)
                 PROVE  FALSE
      BY DEF Jobs
    <2>1. p \in Dying
      BY DEF Dying
    <2>2. i > n
      BY <2>1 DEF SoundInv, DyingInv
    <2>3. i \in Nat /\ n \in Nat /\ i <= n
      OBVIOUS
    <2> QED
      BY <2>2, <2>3
  <1> QED
    BY <1>3, <1>4

LEMMA FewerReached ==
  ASSUME \A q \in Objects : Kids(q)' \subseteq Kids(q)
  PROVE  \A q \in Objects : Reach(q)' \subseteq Reach(q)
  <1> SUFFICES ASSUME NEW q \in Objects, NEW x \in Reach(q)', NEW S \in SUBSET Objects,
                      q \in S, \A r \in S : Kids(r) \subseteq S
               PROVE  x \in S
    BY DEF Reach
  <1>1. \A r \in S : Kids(r)' \subseteq S
    OBVIOUS
  <1> QED
    BY <1>1 DEF Reach

LEMMA FreeSound ==
  ASSUME TypeInv, TypeInv', BoundInv, SoundInv, NEW p \in Objects, Free(p), undefined' = FALSE
  PROVE  SoundInv'
  <1> PICK n \in Nat \ {0} : n = Len(todo)
    BY FreedSets
  <1>1. /\ n \in DOMAIN todo /\ todo[n] = Frees(p) /\ p \in Dying
        /\ DOMAIN todo' = DOMAIN todo \ {n}
        /\ \A i \in DOMAIN todo' : todo'[i] = todo[i] /\ i < n /\ i \in Nat /\ todo'[i] # Frees(p)
        /\ Dying' = Dying \ {p} /\ Open' = Open /\ p \notin Open
        /\ \A q : Jobs(q)' = Jobs(q) /\ Slots(q)' = Slots(q) /\ Owned(q)' = Owned(q)
        /\ \A q \in Objects : q # p => rc'[q] = rc[q] /\ shape'[q] = shape[q]
        /\ shape'[p] = NoShape
    BY FreedSets
  <1>2. /\ live' = live \ {p} /\ blocks' = blocks \ {shape[p].data} /\ p \in live
        /\ handles' = handles /\ fixing' = fixing /\ Selves' = Selves
    BY DEF Free, Selves
  <1>3. Slots(p) = {} /\ Jobs(p) = {}
    <2>1. \A i \in DOMAIN todo : i \in Nat /\ i <= n
      BY <1>1
    <2> QED
      BY <1>1, <2>1, NothingLeft
  <1>4. live \subseteq Objects /\ Open \subseteq Objects /\ Open \subseteq live
        /\ Selves \subseteq Open /\ \A i \in DOMAIN todo : todo[i] \in TodoJobs
    BY Allocations DEF AllObjects, Open, SoundInv, LiveInv
  <1>5. undefined' = FALSE
    OBVIOUS
  <1>6. (\A q \in Objects : q # p => Kids(q)' = Kids(q)) /\ Kids(p)' = {}
    BY <1>1 DEF Kids, NoShape
  <1>7. LiveInv'
    <2>1. \A q \in Open : Kids(q)' \subseteq live'
      <3> SUFFICES ASSUME NEW q \in Open, NEW k \in Kids(q)
                   PROVE  k \in live \ {p}
        BY <1>1, <1>2, <1>4, <1>6
      <3>1. k \in live
        BY DEF SoundInv, LiveInv
      <3>2. k # p
        <4> SUFFICES ASSUME k = p
                     PROVE  FALSE
          OBVIOUS
        <4>1. PICK i \in DOMAIN shape[q].kids : shape[q].kids[i] = p
          BY DEF Kids
        <4>2. i \in {1, 2} /\ q \in Objects
          BY <1>4 DEF TypeInv
        <4>3. <<q, i>> \in Slots(p)
          BY <4>1, <4>2 DEF Slots
        <4> QED
          BY <1>3, <4>3
      <3> QED
        BY <3>1, <3>2
    <2>2. \A i \in DOMAIN todo' : todo'[i].p \in live' \cup {Null}
      <3> SUFFICES ASSUME NEW i \in DOMAIN todo', todo[i].p = p
                   PROVE  FALSE
        BY <1>1, <1>2 DEF SoundInv, LiveInv
      <3>1. i \in DOMAIN todo /\ todo[i] \in TodoJobs /\ todo[i] # Frees(p)
        BY <1>1, <1>4
      <3>2. todo[i] = Releases(p)
        BY <3>1 DEF TodoJobs, Releases, Frees
      <3>3. i \in Jobs(p)
        BY <3>1, <3>2 DEF Jobs
      <3> QED
        BY <1>3, <3>3
    <2> QED
      BY <1>1, <1>2, <2>1, <2>2 DEF SoundInv, LiveInv
  <1>8. FixingInv'
    <2>1. \A q \in Objects : Reach(q)' \subseteq Reach(q)
      <3>1. \A q \in Objects : Kids(q)' \subseteq Kids(q)
        BY <1>6
      <3> QED
        BY <3>1, FewerReached
    <2>2. \A q \in Objects : \A i \in DOMAIN todo' : todo'[i].p = q => Reach(q)' \cap Selves' = {}
      <3> SUFFICES ASSUME NEW q \in Objects, NEW i \in DOMAIN todo', todo[i].p = q
                   PROVE  Reach(q)' \cap Selves = {}
        BY <1>1, <1>2
      <3>1. Reach(q) \cap Selves = {}
        BY <1>1 DEF SoundInv, FixingInv
      <3> QED
        BY <2>1, <3>1
    <2>3. \A q \in Selves : shape'[q] = NoShape /\ handles'[q] = 0 /\ Owned(q)' = {}
      BY <1>1, <1>2, <1>4 DEF SoundInv, FixingInv
    <2> QED
      BY <1>2, <2>2, <2>3 DEF SoundInv, FixingInv
  <1>9. CountInv'
    <2>1. \A q \in Open : rc'[q] = rc[q]
      BY <1>1, <1>4
    <2> QED
      BY <1>1, <1>2, <2>1 DEF SoundInv, CountInv
  <1>10. DyingInv'
    BY <1>1 DEF SoundInv, DyingInv
  <1>11. AcyclicInv'
    BY <1>1 DEF SoundInv, AcyclicInv
  <1>12. EnclosedInv'
    <2> SUFFICES ASSUME NEW q \in Open \ Selves
                 PROVE  \E U \in SUBSET Open : Inside(U, q)'
      BY <1>1, <1>2 DEF EnclosedInv
    <2>1. PICK U \in SUBSET Open : Inside(U, q)
      BY DEF SoundInv, EnclosedInv
    <2>2. Inside(U, q)'
      BY <1>1, <1>2, <2>1 DEF Inside
    <2> QED
      BY <2>2
  <1>13. DoomedInv'
    <2> SUFFICES ASSUME NEW j \in DOMAIN todo', NEW q \in Objects, todo'[j] = Frees(q)
                 PROVE  \E U \in SUBSET Open : Before(U, j, q)'
      BY <1>1 DEF DoomedInv
    <2>1. j \in DOMAIN todo /\ todo[j] = Frees(q)
      BY <1>1
    <2>2. PICK U \in SUBSET Open : Before(U, j, q)
      BY <2>1 DEF SoundInv, DoomedInv
    <2>3. Before(U, j, q)'
      BY <1>1, <1>2, <2>2 DEF Before
    <2> QED
      BY <2>3
  <1>14. DataInv'
    <2>1. \A q \in live' : q \in live /\ q # p /\ shape'[q] = shape[q]
      BY <1>1, <1>2, <1>4
    <2>2. \A q \in live' : shape'[q].data \in blocks' \cup {Null}
      BY <1>2, <2>1 DEF SoundInv, DataInv
    <2>3. \A q, r \in live' : shape'[q].data = shape'[r].data /\ shape'[q].data # Null => q = r
      BY <2>1 DEF SoundInv, DataInv
    <2>4. \A b \in blocks' : \E q \in live' : shape'[q].data = b
      <3> TAKE b \in blocks'
      <3>1. b \in blocks /\ b # shape[p].data
        BY <1>2
      <3>2. PICK q \in live : shape[q].data = b
        BY <3>1 DEF SoundInv, DataInv
      <3>3. q # p /\ q \in live' /\ shape'[q] = shape[q]
        BY <1>1, <1>2, <1>4, <3>1, <3>2
      <3> QED
        BY <3>2, <3>3
    <2> QED
      BY <2>2, <2>3, <2>4 DEF DataInv
  <1> QED
    BY <1>5, <1>7, <1>8, <1>9, <1>10, <1>11, <1>12, <1>13, <1>14 DEF SoundInv
-----------------------------------------------------------------------------
(* Every step.                                                             *)

LEMMA SoundInit == Init => SoundInv
  <1> SUFFICES ASSUME Init PROVE SoundInv
    OBVIOUS
  <1>1. /\ live = {} /\ blocks = {} /\ fixing = <<>> /\ todo = <<>> /\ ~undefined
        /\ \A p \in Objects : handles[p] = 0
    BY DEF Init
  <1>2. Selves = {} /\ Dying = {} /\ Open = {} /\ \A q : Slots(q) = {} /\ Owned(q) = {}
    BY <1>1 DEF Selves, Dying, Open, Slots, Owned
  <1>3. LiveInv
    BY <1>1, <1>2 DEF LiveInv
  <1>4. FixingInv
    BY <1>1, <1>2 DEF FixingInv
  <1>5. CountInv /\ DyingInv /\ AcyclicInv /\ EnclosedInv
    BY <1>2 DEF CountInv, DyingInv, AcyclicInv, EnclosedInv
  <1>6. DoomedInv /\ DataInv
    BY <1>1 DEF DoomedInv, DataInv
  <1> QED
    BY <1>1, <1>3, <1>4, <1>5, <1>6 DEF SoundInv

LEMMA StutterSound ==
  ASSUME SoundInv, UNCHANGED vars
  PROVE  SoundInv'
  <1>1. /\ Open' = Open /\ Dying' = Dying /\ Selves' = Selves /\ live' = live /\ shape' = shape
        /\ \A q : Slots(q)' = Slots(q) /\ Jobs(q)' = Jobs(q) /\ Owned(q)' = Owned(q)
    BY DEF vars, Open, Dying, Selves, Slots, Jobs, Owned
  <1>2. \A q : Kids(q)' = Kids(q)
    BY <1>1 DEF Kids
  <1>3. \A q \in Objects : Reach(q)' = Reach(q)
    BY <1>1, SameReach
  <1>4. todo' = todo /\ handles' = handles /\ fixing' = fixing /\ rc' = rc /\ blocks' = blocks
        /\ undefined' = undefined
    BY DEF vars
  <1>5. LiveInv'
    BY <1>1, <1>2, <1>4 DEF SoundInv, LiveInv
  <1>6. FixingInv'
    BY <1>1, <1>3, <1>4 DEF SoundInv, FixingInv
  <1>7. CountInv' /\ DyingInv' /\ AcyclicInv' /\ DataInv'
    BY <1>1, <1>4 DEF SoundInv, CountInv, DyingInv, AcyclicInv, DataInv
  <1>8. \A U, q : Inside(U, q)' <=> Inside(U, q)
    BY <1>1, <1>4 DEF Inside
  <1>9. \A U, j, q : Before(U, j, q)' <=> Before(U, j, q)
    BY <1>1, <1>4 DEF Before
  <1>10. EnclosedInv' /\ DoomedInv'
    BY <1>1, <1>4, <1>8, <1>9 DEF SoundInv, EnclosedInv, DoomedInv
  <1> QED
    BY <1>4, <1>5, <1>6, <1>7, <1>10 DEF SoundInv

\* A parser that is being freed is not found to have a count of zero again.
LEMMA DyingNotEmptied ==
  ASSUME TypeInv, BoundInv, NEW p \in Dying
  PROVE  (rc[p] - 1) % CountBound # 0
  <1>1. /\ CountBound \in Nat /\ CountBound > 2 * Cardinality(Objects) + 3
        /\ Cardinality(Objects) \in Nat /\ p \in Objects
    BY Total, CountAssumption DEF Dying
  <1>2. rc[p] \in 0 .. CountBound - 1
    BY <1>1 DEF TypeInv
  <1>3. (rc[p] > 0 => (rc[p] - 1) % CountBound = rc[p] - 1) /\ (rc[p] = 0 => (rc[p] - 1) % CountBound = CountBound - 1)
    BY <1>2, Decrement
  <1>4. rc[p] # 1
    <2> SUFFICES ASSUME rc[p] = 1
                 PROVE  FALSE
      OBVIOUS
    <2>1. Spent(p) = CountBound - 1
      BY DEF Spent
    <2>2. Cardinality(Slots(p)) \in Nat /\ Cardinality(Jobs(p)) \in Nat
      BY <1>1, Counted DEF Countable
    <2>3. Cardinality(Slots(p)) + Cardinality(Jobs(p)) + Spent(p) <= 2 * Cardinality(Objects) + 2
      BY <1>1 DEF BoundInv
    <2> QED
      BY <1>1, <2>1, <2>2, <2>3
  <1> QED
    BY <1>1, <1>2, <1>3, <1>4

LEMMA SoundStep ==
  ASSUME TypeInv, TypeInv', BoundInv, ~spoiled /\ ~undefined => SoundInv, [Next]_vars,
         ~spoiled', ~undefined'
  PROVE  SoundInv'
  <1>0. undefined' = FALSE
    BY DEF TypeInv
  <1>1. CASE UNCHANGED vars
    <2>1. SoundInv
      BY <1>1 DEF vars
    <2> QED
      BY <1>1, <2>1, StutterSound
  <1>2. CASE Work
    <2>1. spoiled' = spoiled /\ ~undefined
      BY <1>2 DEF Work, ReleaseNull, Dangling, Undefined, Release, Free, Busy
    <2>2. SoundInv
      BY <2>1
    <2>3. CASE ReleaseNull
      BY <2>2, <2>3, ReleaseNullSound
    <2>4. CASE Dangling
      <3>1. todo # <<>> /\ Job.p \in Objects \ live
        BY <2>4 DEF Dangling, Busy
      <3>2. Len(todo) \in DOMAIN todo /\ Job = todo[Len(todo)]
        BY <3>1, JobType
      <3>3. Job.p \in live \cup {Null}
        BY <2>2, <3>2 DEF SoundInv, LiveInv
      <3> QED
        BY <3>1, <3>3, ObjectsAre
    <2>5. ASSUME NEW p \in Objects, Release(p)
          PROVE  SoundInv'
      <3>1. CASE (rc[p] - 1) % CountBound # 0
        BY <2>2, <2>5, <3>1, ReleasedSound
      <3>2. CASE (rc[p] - 1) % CountBound = 0
        <4>1. p \notin Dying
          BY <3>2, DyingNotEmptied
        <4> QED
          BY <2>2, <2>5, <3>2, <4>1, EmptiedSound
      <3> QED
        BY <3>1, <3>2
    <2>6. ASSUME NEW p \in Objects, Free(p)
          PROVE  SoundInv'
      BY <1>0, <2>2, <2>6, FreeSound
    <2> QED
      BY <1>2, <2>3, <2>4, <2>5, <2>6 DEF Work
  <1>3. CASE Calls
    <2>1. SoundInv
      BY <1>3, CallsLeave
    <2>2. CASE FixBegin
      BY <2>1, <2>2, FixBeginSound
    <2>3. CASE FixFails
      BY <2>3 DEF FixFails
    <2>4. CASE VariadicFails
      BY <2>4 DEF VariadicFails
    <2>5. ASSUME NEW p \in Objects, cc_retain(p) PROVE SoundInv'
      BY <2>1, <2>5, RetainSound
    <2>6. ASSUME NEW p \in Objects, cc_release(p) PROVE SoundInv'
      BY <2>1, <2>6, ReleaseSound
    <2>7. ASSUME NEW p \in Objects, cc_parse(p) PROVE SoundInv'
      BY <1>0, <2>1, <2>7, ParseSound
    <2>8. ASSUME NEW p \in Objects, FixEnd(p) PROVE SoundInv'
      BY <1>0, <2>1, <2>8, FixEndSound
    <2>9. ASSUME NEW kind \in Kinds, NEW args \in [1 .. Arity[kind] -> Usable], Construct(kind, args)
          PROVE  SoundInv'
      BY <2>1, <2>9, ConstructSound
    <2>10. ASSUME NEW kind \in Kinds, NEW args \in [1 .. Arity[kind] -> Usable], ConstructFails(kind, args)
           PROVE  SoundInv'
      BY <2>1, <2>10, ConstructFailsSound
    <2> QED
      BY <1>3, <2>2, <2>3, <2>4, <2>5, <2>6, <2>7, <2>8, <2>9, <2>10 DEF Calls
  <1> QED
    BY <1>1, <1>2, <1>3 DEF Next

-----------------------------------------------------------------------------
(* Compiled programs.                                                      *)

LEMMA CompiledInit == Init => CompiledType /\ ProgramInv
  <1>1. Init => Null \in Objects \cup {Null} /\ made = 0
    BY DEF Init
  <1> QED
    BY <1>1 DEF Init, CompiledType, ProgramInv

LEMMA MadeGrows ==
  ASSUME TypeInv, [Next]_vars
  PROVE  /\ 1 .. made \subseteq 1 .. made'
         /\ spoiled => spoiled' = spoiled
         /\ undefined => UNCHANGED vars
  <1>1. made \in Nat
    BY Total DEF TypeInv
  <1>2. made' = made \/ made' = made + 1
    BY DEF Next, vars, Work, Calls, FixBegin, FixFails, VariadicFails, cc_retain, cc_release,
           cc_parse, Give, FixEnd, Construct, ConstructFails, Allocated, ReleaseNull,
           Dangling, Undefined, Release, Free
  <1>3. spoiled => spoiled' = spoiled
    BY DEF Next, vars, Work, Calls, Idle, FixBegin, FixFails, VariadicFails, cc_retain,
           cc_release, cc_parse, FixEnd, Construct, ConstructFails, ReleaseNull,
           Dangling, Undefined, Release, Free
  <1>4. undefined => UNCHANGED vars
    BY DEF Next, Work, Calls, Idle, Busy, FixBegin, FixFails, VariadicFails, cc_retain,
           cc_release, cc_parse, FixEnd, Construct, ConstructFails, ReleaseNull,
           Dangling, Release, Free
  <1> QED
    BY <1>1, <1>2, <1>3, <1>4

\* All calls and steps that neither compile nor free a program.
LEMMA ProgramsStay ==
  ASSUME [Next]_vars, \A p \in Objects : ~cc_parse(p) /\ ~FixEnd(p) /\ ~Free(p)
  PROVE  ir' = ir /\ programs' = programs /\ stale' = stale
  BY DEF Next, vars, compiled, Work, Calls, FixBegin, FixFails, VariadicFails, cc_retain,
         cc_release, Give, Construct, ConstructFails, ReleaseNull, Dangling, Undefined, Release

LEMMA CompiledStep ==
  ASSUME TypeInv, CompiledType, [Next]_vars
  PROVE  CompiledType'
  <1>1. 1 .. made \subseteq 1 .. made' /\ 1 .. made \subseteq Objects
    <2>1. made \in 0 .. Cardinality(Objects)
      BY DEF TypeInv
    <2> QED
      BY <2>1, MadeGrows, ObjectsAre, Total
  <1>2. ASSUME NEW p \in Objects, cc_parse(p)
        PROVE  CompiledType'
    <2>1. PICK run \in Runs(p) :
            /\ ir' = [q \in Objects |-> IF q \in Uncompiled(run) THEN q ELSE ir[q]]
            /\ programs' = programs \cup Uncompiled(run)
      BY <1>2 DEF cc_parse
    <2>2. run \subseteq Objects
      BY DEF Runs, Reach
    <2>3. Uncompiled(run) \subseteq 1 .. made
      <3> SUFFICES ASSUME NEW q \in Uncompiled(run)
                   PROVE  q \in 1 .. made
        OBVIOUS
      <3>1. q \in Objects /\ shape[q].kind # "leaf"
        BY <2>2 DEF Uncompiled
      <3>2. ~(q > made)
        BY <3>1 DEF TypeInv, NoShape
      <3>3. q \in 1 .. Cardinality(Objects) /\ made \in Nat
        BY <3>1, ObjectsAre, Total DEF TypeInv
      <3> QED
        BY <3>2, <3>3, Total
    <2>4. stale' = stale
      BY <1>2 DEF cc_parse, Give
    <2> QED
      BY <1>1, <2>1, <2>3, <2>4 DEF CompiledType
  <1>3. ASSUME NEW p \in Objects, FixEnd(p)
        PROVE  CompiledType'
    BY <1>1, <1>3 DEF FixEnd, CompiledType
  <1>4. ASSUME NEW p \in Objects, Free(p)
        PROVE  CompiledType'
    BY <1>1, <1>4 DEF Free, CompiledType
  <1>5. ASSUME \A p \in Objects : ~cc_parse(p) /\ ~FixEnd(p) /\ ~Free(p)
        PROVE  CompiledType'
    BY <1>1, <1>5, ProgramsStay DEF CompiledType
  <1> QED
    BY <1>2, <1>3, <1>4, <1>5

LEMMA ProgramsAre ==
  ASSUME TypeInv, CompiledType
  PROVE  programs \subseteq Objects /\ Null \notin Objects
  <1>1. made \in 0 .. Cardinality(Objects) /\ programs \subseteq 1 .. made
    BY DEF TypeInv, CompiledType
  <1>2. 1 .. made \subseteq Objects
    BY <1>1, ObjectsAre, Total
  <1> QED
    BY <1>1, <1>2, ObjectsAre

\* All that a parse may run was not freed.
LEMMA RunLives ==
  ASSUME TypeInv, SoundInv, NEW p \in Objects, cc_parse(p), NEW run \in Runs(p), NEW q \in run
  PROVE  q \in Objects /\ q \in live /\ q \notin Selves /\ shape[q].data \in blocks \cup {Null}
  <1>1. handles[p] > 0 /\ Reach(p) \cap Selves = {} /\ todo = <<>>
    BY DEF cc_parse, Idle
  <1>2. p \in live
    BY <1>1 DEF SoundInv, LiveInv, Open
  <1>3. q \in Reach(p) /\ q \in Objects
    BY DEF Runs, Reach
  <1>4. Reach(p) \subseteq live
    BY <1>1, <1>2, ReachLive
  <1> QED
    BY <1>1, <1>3, <1>4 DEF SoundInv, DataInv

\* Where parsers are allocated and given back, those that have a program stay.
LEMMA OwnersStay ==
  ASSUME TypeInv, TypeInv', SoundInv, ProgramInv, [Next]_vars, ~spoiled',
         \A p \in Objects : ~cc_parse(p) /\ ~FixEnd(p) /\ ~Free(p)
  PROVE  ProgramInv'
  <1>1. ir' = ir /\ programs' = programs /\ stale' = stale
    BY ProgramsStay
  <1>2. live \subseteq live'
    BY DEF Next, vars, Work, Calls, FixBegin, FixFails, VariadicFails, cc_retain, cc_release,
           Give, Construct, ConstructFails, Allocated, ReleaseNull, Dangling, Undefined, Release
  <1>3. Selves' \subseteq Selves \cup (Objects \ live)
    <2>1. CASE fixing' = fixing
      BY <2>1 DEF Selves
    <2>2. CASE FixBegin
      <3>1. PICK p \in Objects : Allocated(p) /\ fixing' = Append(fixing, p)
        BY <2>2 DEF FixBegin
      <3>2. p \notin live
        BY <3>1, Total DEF Allocated, TypeInv
      <3>3. fixing \in Seq(Objects) /\ Len(fixing) \in Nat
        BY DEF TypeInv
      <3>4. \A i \in DOMAIN fixing' : fixing'[i] = p \/ (i \in DOMAIN fixing /\ fixing'[i] = fixing[i])
        BY <3>1, <3>3
      <3> QED
        BY <3>2, <3>4 DEF Selves
    <2>3. fixing' = fixing \/ FixBegin
      BY DEF Next, vars, Work, Calls, FixFails, VariadicFails, cc_retain, cc_release,
             Give, Construct, ConstructFails, ReleaseNull, Dangling, Undefined, Release
    <2> QED
      BY <2>1, <2>2, <2>3
  <1> QED
    BY <1>1, <1>2, <1>3 DEF ProgramInv

LEMMA ParsePrograms ==
  ASSUME TypeInv, CompiledType, SoundInv, ProgramInv, NEW p \in Objects, cc_parse(p)
  PROVE  /\ ProgramInv'
         /\ stale' = stale
         /\ ~stale => ~undefined'
  <1>1. PICK run \in Runs(p) :
          /\ ir' = [q \in Objects |-> IF q \in Uncompiled(run) THEN q ELSE ir[q]]
          /\ programs' = programs \cup Uncompiled(run)
          /\ undefined' = \E q \in run : \/ q \notin live \/ shape[q].data \notin blocks \cup {Null}
                                         \/ ir[q] \notin programs \cup {Null}
    BY DEF cc_parse
  <1>2. /\ stale' = stale /\ live' = live /\ fixing' = fixing /\ Selves' = Selves
    BY DEF cc_parse, Give, Selves
  <1>3. \A q \in run : q \in Objects /\ q \in live /\ q \notin Selves
                         /\ shape[q].data \in blocks \cup {Null}
    BY RunLives
  <1>4. \A q \in Uncompiled(run) : q \in run /\ q \in Objects /\ ir[q] = Null
    BY <1>3 DEF Uncompiled
  <1>5. \A q \in Objects : ir'[q] = IF q \in Uncompiled(run) THEN q ELSE ir[q]
    BY <1>1
  <1>6. programs \subseteq Objects /\ Null \notin Objects
    BY ProgramsAre
  <1>7. ASSUME NEW g \in programs' PROVE g \in live' /\ ir'[g] = g
    <2>1. CASE g \in Uncompiled(run)
      BY <1>2, <1>3, <1>4, <1>5, <2>1
    <2>2. CASE g \in programs
      <3>1. g \in live /\ ir[g] = g /\ g \in Objects
        BY <1>6, <2>2 DEF ProgramInv
      <3> QED
        BY <1>2, <1>5, <3>1
    <2> QED
      BY <1>1, <2>1, <2>2
  <1>8. ASSUME NEW q \in Objects, ir'[q] # Null PROVE q \in live' \ Selves'
    BY <1>2, <1>3, <1>4, <1>5, <1>8 DEF ProgramInv
  <1>9. ASSUME ~stale', NEW q \in Objects
        PROVE  ir'[q] = Null \/ (ir'[q] = q /\ q \in programs')
    BY <1>1, <1>2, <1>5, <1>9 DEF ProgramInv
  <1>10. ~stale => ~undefined'
    BY <1>1, <1>3 DEF ProgramInv
  <1> QED
    BY <1>2, <1>7, <1>8, <1>9, <1>10 DEF ProgramInv

LEMMA FixEndPrograms ==
  ASSUME TypeInv, TypeInv', CompiledType, SoundInv, ProgramInv, NEW p \in Objects, FixEnd(p)
  PROVE  /\ ~undefined' => ProgramInv'
         /\ ~stale' => ~undefined'
  <1> DEFINE h == Placeholder
  <1>1. /\ ir' = [ir EXCEPT ![h] = ir[p], ![p] = Null] /\ programs' = programs \ {ir[p]}
        /\ stale' = (stale \/ ir[p] # Null) /\ live' = live \ {p} /\ fixing # <<>>
        /\ undefined' = (h \notin live \/ ir[p] \notin programs \cup {Null})
    BY DEF FixEnd
  <1>2. h \in Selves /\ h \in Objects
    <2>1. fixing \in Seq(Objects)
      BY DEF TypeInv
    <2>2. Len(fixing) \in DOMAIN fixing /\ fixing[Len(fixing)] \in Objects
      BY <1>1, <2>1
    <2> QED
      BY <2>2 DEF Placeholder, Selves
  <1>3. h \in live
    BY <1>2 DEF SoundInv, LiveInv, Open
  <1>4. ir[h] = Null /\ h \notin programs
    BY <1>2, ObjectsAre DEF ProgramInv
  <1> HIDE DEF h
  <1>5. ~stale' => ~undefined'
    BY <1>1, <1>3
  <1>6. ASSUME ~undefined'
        PROVE  ProgramInv'
    <2>1. /\ h # p /\ Selves' = Selves \ {h} /\ h \notin Selves' /\ p \notin Selves'
      <3>1. undefined' = FALSE
        BY <1>6 DEF TypeInv
      <3> QED
        BY <3>1, FixEndIs DEF h
    <2>2. \A q \in Objects : ir'[q] = IF q = p THEN Null ELSE IF q = h THEN ir[p] ELSE ir[q]
      BY <1>1, <1>2, <2>1 DEF CompiledType
    <2>3. programs \subseteq Objects /\ Null \notin Objects
      BY ProgramsAre
    <2>4. ASSUME NEW g \in programs' PROVE g \in live' /\ ir'[g] = g
      <3>1. g \in programs /\ g # ir[p] /\ g \in live /\ ir[g] = g /\ g \in Objects
        BY <1>1, <2>3 DEF ProgramInv
      <3> QED
        BY <1>1, <1>4, <2>2, <3>1
    <2>5. ASSUME NEW q \in Objects, ir'[q] # Null PROVE q \in live' \ Selves'
      BY <1>1, <1>3, <2>1, <2>2, <2>5 DEF ProgramInv
    <2>6. ASSUME ~stale', NEW q \in Objects
          PROVE  ir'[q] = Null \/ (ir'[q] = q /\ q \in programs')
      BY <1>1, <2>2, <2>3, <2>6 DEF ProgramInv
    <2> QED
      BY <2>4, <2>5, <2>6 DEF ProgramInv
  <1> QED
    BY <1>5, <1>6

LEMMA FreePrograms ==
  ASSUME TypeInv, CompiledType, SoundInv, ProgramInv, NEW p \in Objects, Free(p)
  PROVE  /\ ProgramInv'
         /\ stale' = stale
         /\ ~stale => ~undefined'
  <1>1. /\ ir' = [ir EXCEPT ![p] = Null] /\ programs' = programs \ {ir[p]} /\ stale' = stale
        /\ live' = live \ {p} /\ Selves' = Selves /\ p \in live
        /\ undefined' = (shape[p].data \notin blocks \cup {Null} \/ ir[p] \notin programs \cup {Null})
    BY DEF Free, Selves
  <1>2. shape[p].data \in blocks \cup {Null}
    BY <1>1 DEF SoundInv, DataInv
  <1>3. \A q \in Objects : ir'[q] = IF q = p THEN Null ELSE ir[q]
    BY <1>1 DEF CompiledType
  <1>4. programs \subseteq Objects /\ Null \notin Objects
    BY ProgramsAre
  <1>5. ASSUME NEW g \in programs' PROVE g \in live' /\ ir'[g] = g
    <2>1. g \in programs /\ g # ir[p] /\ g \in live /\ ir[g] = g /\ g \in Objects
      BY <1>1, <1>4 DEF ProgramInv
    <2> QED
      BY <1>1, <1>3, <2>1
  <1>6. ASSUME NEW q \in Objects, ir'[q] # Null PROVE q \in live' \ Selves'
    BY <1>1, <1>3, <1>6 DEF ProgramInv
  <1>7. ASSUME ~stale', NEW q \in Objects
        PROVE  ir'[q] = Null \/ (ir'[q] = q /\ q \in programs')
    <2>1. ir[q] = Null \/ (ir[q] = q /\ q \in programs)
      BY <1>1, <1>7 DEF ProgramInv
    <2>2. ir[p] = Null \/ ir[p] = p
      BY <1>1, <1>7 DEF ProgramInv
    <2> QED
      BY <1>1, <1>3, <1>4, <2>1, <2>2
  <1>8. ~stale => ~undefined'
    BY <1>1, <1>2 DEF ProgramInv
  <1> QED
    BY <1>1, <1>5, <1>6, <1>7, <1>8 DEF ProgramInv

\* Freed memory is used after a function of cc_fix returned a parser with a program.
LEMMA UndefinedIsStale ==
  ASSUME TypeInv, TypeInv', CompiledType, BoundInv, SoundInv, ProgramInv, [Next]_vars,
         ~spoiled', ~stale'
  PROVE  ~undefined'
  <1>1. ~undefined
    BY DEF SoundInv
  <1>2. CASE \E p \in Objects : cc_parse(p) \/ FixEnd(p) \/ Free(p)
    BY <1>2, ParsePrograms, FixEndPrograms, FreePrograms
  <1>3. ASSUME NEW p \in Objects, Release(p)
        PROVE  ~undefined'
    <2>1. shape[p].data \in blocks \cup {Null}
      BY <1>3 DEF Release, SoundInv, DataInv
    <2> QED
      BY <1>3, <2>1 DEF Release
  <1>4. CASE Dangling
    <2>1. todo # <<>> /\ Job.p \in Objects \ live
      BY <1>4 DEF Dangling, Busy
    <2>2. Len(todo) \in DOMAIN todo /\ Job = todo[Len(todo)]
      BY <2>1, JobType
    <2>3. Job.p \in live \cup {Null}
      BY <2>2 DEF SoundInv, LiveInv
    <2> QED
      BY <2>1, <2>3, ObjectsAre
  <1>5. CASE UNCHANGED vars
    BY <1>1, <1>5 DEF vars
  <1>6. ASSUME NEW p \in Objects, cc_retain(p) \/ cc_release(p)
        PROVE  ~undefined'
    BY <1>1, <1>6 DEF cc_retain, cc_release
  <1>7. ASSUME NEW kind \in Kinds, NEW args \in [1 .. Arity[kind] -> Usable],
               Construct(kind, args) \/ ConstructFails(kind, args)
        PROVE  ~undefined'
    BY <1>1, <1>7 DEF Construct, ConstructFails
  <1>8. CASE FixBegin \/ FixFails \/ ReleaseNull
    BY <1>1, <1>8 DEF FixBegin, FixFails, ReleaseNull
  <1>9. CASE VariadicFails
    BY <1>9 DEF VariadicFails
  <1> QED
    BY <1>2, <1>3, <1>4, <1>5, <1>6, <1>7, <1>8, <1>9 DEF Next, Work, Calls

LEMMA ProgramStep ==
  ASSUME TypeInv, TypeInv', CompiledType, SoundInv, ProgramInv, [Next]_vars,
         ~spoiled', ~undefined'
  PROVE  ProgramInv'
  <1>1. CASE \E p \in Objects : cc_parse(p) \/ FixEnd(p) \/ Free(p)
    BY <1>1, ParsePrograms, FixEndPrograms, FreePrograms
  <1>2. CASE \A p \in Objects : ~cc_parse(p) /\ ~FixEnd(p) /\ ~Free(p)
    BY <1>2, OwnersStay
  <1> QED
    BY <1>1, <1>2

-----------------------------------------------------------------------------
(* What holds of a program of any size.                                    *)

\* The types, with counts that stay within the numbers a uint32_t holds.
THEOREM CountsAreCounts == Spec => []TypeOK
  <1>1. TypeInv /\ CompiledType => TypeOK
    <2> SUFFICES ASSUME TypeInv, CompiledType PROVE TypeOK
      OBVIOUS
    <2>1. \A p \in Objects : /\ shape[p] \in Shapes /\ rc[p] \in 0 .. CountBound - 1
                             /\ handles[p] \in 0 .. MaxHandles
      BY DEF TypeInv
    <2>2. \A p \in Objects : shape[p].kind \in DOMAIN Arity /\ shape[p].data \in Objects \cup {Null}
      BY <2>1 DEF Shapes
    <2>3. (\A p \in Objects : Kids(p) \subseteq Objects) /\ \A i \in DOMAIN todo : todo[i] \in TodoJobs
      BY Allocations DEF AllObjects
    <2>4. \A i \in DOMAIN todo : todo[i].op \in {"release", "free"} /\ todo[i].p \in Objects \cup {Null}
      BY <2>3 DEF TodoJobs
    <2>5. /\ programs \subseteq 1 .. made /\ stale \in BOOLEAN
          /\ \A p \in Objects : ir[p] \in Objects \cup {Null}
      BY DEF CompiledType
    <2> QED
      BY <2>1, <2>2, <2>3, <2>4, <2>5 DEF TypeOK, TypeInv
  <1>2. Init => CompiledType
    BY CompiledInit
  <1> QED
    BY <1>1, <1>2, TypeInit, TypeStep, CompiledStep, PTL DEF Spec

\* The counts are right after every step: at rest, while parsers are released and
\* freed, and while the functions of nested cc_fix run.
THEOREM CountsKept == Spec => []OInv
  <1>1. Init => OInv
    BY TypeInit, BoundInit, SoundInit, CompiledInit DEF OInv, NothingUndefined, Init
  <1>2. OInv /\ [Next]_vars => OInv'
    <2> SUFFICES ASSUME OInv, [Next]_vars PROVE OInv'
      OBVIOUS
    <2>1. TypeInv /\ CompiledType /\ BoundInv /\ (~spoiled /\ ~undefined => SoundInv /\ ProgramInv)
            /\ NothingUndefined
      BY DEF OInv
    <2>2. TypeInv' /\ CompiledType'
      BY <2>1, TypeStep, CompiledStep
    <2>3. BoundInv'
      BY <2>1, <2>2, BoundStep
    <2>4. ASSUME ~spoiled', ~undefined' PROVE SoundInv' /\ ProgramInv'
      <3>1. ~spoiled /\ ~undefined
        BY <2>1, <2>4, MadeGrows DEF vars
      <3> QED
        BY <2>1, <2>2, <2>4, <3>1, SoundStep, ProgramStep
    <2>5. NothingUndefined'
      <3>1. CASE undefined
        BY <2>1, <3>1, MadeGrows DEF vars, NothingUndefined
      <3>2. CASE spoiled
        BY <2>1, <3>2, MadeGrows DEF NothingUndefined
      <3>3. CASE ~undefined /\ ~spoiled
        BY <2>1, <2>2, <3>3, UndefinedIsStale DEF NothingUndefined
      <3> QED
        BY <3>1, <3>2, <3>3
    <2> QED
      BY <2>2, <2>3, <2>4, <2>5 DEF OInv
  <1> QED
    BY <1>1, <1>2, PTL DEF Spec

\* No parser, data or program is used after it was freed, or freed again, whatever
\* the client builds, shares, makes recursive, parses with and releases, until a
\* failure the code does not recover from, or until a function of cc_fix returns a
\* parser that was parsed with (cc_parser.c:17-124, cc_combinator.c:340-361): what
\* comes after that is a defect of the code, and the run fix_parsed shows it.
THEOREM NothingIsUndefined == Spec => []NothingUndefined
  <1>1. OInv => NothingUndefined
    BY DEF OInv
  <1> QED
    BY <1>1, CountsKept, PTL

LEMMA Precise == OInv => CountsArePrecise
  <1> SUFFICES ASSUME TypeInv, CompiledType, SoundInv, ProgramInv, todo = <<>>
               PROVE  LET reached == UNION {Reach(p) : p \in {q \in Objects : handles[q] > 0} \cup Selves}
                          had     == {ir[p] : p \in reached} \ {Null}
                      IN  /\ live = reached
                          /\ blocks = {shape[p].data : p \in reached} \ {Null}
                          /\ programs \subseteq had /\ (stale \/ programs = had)
    BY DEF CountsArePrecise, Idle, OInv
  <1> DEFINE roots == {q \in Objects : handles[q] > 0} \cup Selves
             reached == UNION {Reach(p) : p \in roots}
  <1>1. Open = live /\ (\A q : Jobs(q) = {}) /\ live \subseteq Objects /\ roots \subseteq live
    BY AtRest, Allocations DEF Jobs, AllObjects, SoundInv, LiveInv
  <1>2. reached \subseteq live
    <2>1. \A p \in roots : Reach(p) \subseteq live
      BY <1>1, ReachLive
    <2> HIDE DEF roots
    <2> QED
      BY <2>1
  <1>3. live \subseteq reached
    <2> SUFFICES ASSUME live \ reached # {}
                 PROVE  FALSE
      OBVIOUS
    <2>1. live \ reached \in SUBSET Objects
      BY <1>1
    <2>2. PICK u \in live \ reached : \A s \in Owned(u) : s[1] \notin live \ reached
      BY <2>1 DEF SoundInv, AcyclicInv
    <2>3. u \notin roots
      <3>1. u \in Objects /\ u \in Reach(u)
        BY <1>1, ReachSelf
      <3> QED
        BY <3>1
    <2>4. Owned(u) = {}
      <3> SUFFICES ASSUME NEW s \in Owned(u)
                   PROVE  FALSE
        OBVIOUS
      <3>1. s[1] \in live /\ s[1] \in Objects /\ u \in Kids(s[1])
        BY <1>1 DEF Owned, Slots, Kids
      <3>2. PICK p \in roots : s[1] \in Reach(p)
        BY <2>2, <3>1
      <3>3. u \in Reach(p)
        BY <1>1, <3>1, <3>2, ReachKids
      <3> QED
        BY <3>2, <3>3
    <2>5. u \in Open /\ u \in Objects /\ u \notin Selves /\ ~(handles[u] > 0)
      BY <1>1, <2>3
    <2>6. handles[u] = 0
      BY <2>5, Total DEF TypeInv
    <2>7. rc[u] = 0 + 0 + Cardinality(Owned(u)) + Cardinality(Jobs(u)) /\ rc[u] > 0
      BY <2>5, <2>6 DEF SoundInv, CountInv
    <2>8. Cardinality(Owned(u)) = 0 /\ Cardinality(Jobs(u)) = 0
      BY <1>1, <2>4, FS_EmptySet
    <2> QED
      BY <2>7, <2>8
  <1>4. live = reached
    BY <1>2, <1>3
  <1>5. blocks = {shape[p].data : p \in live} \ {Null}
    <2>1. Null \notin blocks
      <3>1. blocks \subseteq 1 .. made /\ made \in 0 .. Cardinality(Objects)
        BY DEF TypeInv
      <3>2. 1 .. made \subseteq Objects
        BY <3>1, ObjectsAre, Total
      <3> QED
        BY <3>1, <3>2, ObjectsAre
    <2>2. \A b \in blocks : \E p \in live : shape[p].data = b
      BY DEF SoundInv, DataInv
    <2>3. \A p \in live : shape[p].data \in blocks \cup {Null}
      BY DEF SoundInv, DataInv
    <2> QED
      BY <2>1, <2>2, <2>3
  <1>6. programs \subseteq {ir[p] : p \in live} \ {Null}
    <2> SUFFICES ASSUME NEW g \in programs
                 PROVE  g \in live /\ ir[g] = g /\ g # Null
      OBVIOUS
    <2>1. g \in live /\ ir[g] = g
      BY DEF ProgramInv
    <2> QED
      BY <1>1, <2>1, ObjectsAre
  <1>7. ~stale => {ir[p] : p \in live} \ {Null} \subseteq programs
    BY <1>1 DEF ProgramInv
  <1> QED
    BY <1>4, <1>5, <1>6, <1>7

\* Between two calls what is allocated is exactly what the client can still reach:
\* recursive parsers, which lead to themselves, are neither lost nor kept.
THEOREM NothingLostNothingKept == Spec => []CountsArePrecise
  <1>1. OInv => CountsArePrecise
    BY Precise
  <1> QED
    BY <1>1, CountsKept, PTL
\* Every count is exact while nothing is spoilt, in the middle of a release too: no
\* reference is counted twice, forgotten, or given back by two.
THEOREM EveryCountIsExact == Spec => []CountsAreExact
  <1>1. OInv => CountsAreExact
    BY DEF OInv, SoundInv, CountsAreExact
  <1> QED
    BY <1>1, CountsKept, PTL
=============================================================================
