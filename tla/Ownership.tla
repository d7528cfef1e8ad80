------------------------------ MODULE Ownership -----------------------------
(***************************************************************************)
(* Reference counts.  "All arguments of type struct cc_parser* consume a   *)
(* reference" (include/ccombinator.h:271), on success and on failure; the  *)
(* one exception is the argument that cc_fix gives its function, which is  *)
(* used as often as the recursion asks for and counted once.  A count that *)
(* reaches zero frees the parser and gives back what it refers to.         *)
(*                                                                         *)
(* A call of the library is one step, except that what it releases is      *)
(* taken from `todo` one parser at a time, in the order of the recursion   *)
(* of cc_release and parser_free.                                          *)
(***************************************************************************)
EXTENDS Integers, Sequences, FiniteSets, SequencesExt

CONSTANTS
  Objects,    \* the parsers that are ever allocated, in this order
  Null,
  Kinds,      \* the constructors used: leaf, unary, binary, variadic, bind
  FixKinds,   \* what the function of a cc_fix may return
  CountBound, \* 2^32: a reference count is a uint32_t
  MaxHandles  \* bound: references the client holds to one parser

Arity == [leaf |-> 0, unary |-> 1, binary |-> 2, variadic |-> 2, bind |-> 2]

ASSUME OwnershipAssumption ==
  /\ IsFiniteSet(Objects) /\ Objects = 1 .. Cardinality(Objects) /\ Null \notin Objects
  /\ Kinds \subseteq DOMAIN Arity /\ FixKinds \subseteq Kinds
  /\ MaxHandles \in Nat \ {0} /\ CountBound \in Nat

\* No count overflows, which the code does not check: a parser has two children at
\* most here, and what refers to one at any time is less than a count holds.
ASSUME CountAssumption == CountBound > 2 * Cardinality(Objects) + MaxHandles + 2

VARIABLES
  made,     \* how many parsers were allocated; addresses are not used again
  live,     \* the parsers that were not freed
  shape,    \* kind, children and data of what lives: of a placeholder once it is filled;
            \* `borrowed` is history: the children for which no reference was consumed
  blocks,   \* the data of a variadic or bind, named for the parser it was made for
  ir,       \* the compiled program of a parser, named for the one it was compiled for
  programs, \* the programs that were not freed
  rc,
  handles,  \* the references the client holds
  fixing,   \* the placeholders whose function runs, the innermost last
  todo,     \* what the call still has to release, the next at the end
  spoiled,  \* history: a failure came where the code cannot recover from it
  stale,    \* history: a function of cc_fix returned a parser that had a program
  undefined \* freed memory was used

vars ==
  <<made, live, shape, blocks, ir, programs, rc, handles, fixing, todo, spoiled, stale, undefined>>

compiled == <<ir, programs, stale>>

NoShape == [kind |-> "leaf", kids |-> <<>>, data |-> Null, borrowed |-> {}]

Init ==
  /\ made = 0 /\ live = {} /\ blocks = {}
  /\ shape = [p \in Objects |-> NoShape]
  /\ ir = [p \in Objects |-> Null] /\ programs = {}
  /\ rc = [p \in Objects |-> 0] /\ handles = [p \in Objects |-> 0]
  /\ fixing = <<>> /\ todo = <<>>
  /\ spoiled = FALSE /\ stale = FALSE /\ undefined = FALSE

Selves == {fixing[i] : i \in DOMAIN fixing}
Kids(p) == {shape[p].kids[i] : i \in DOMAIN shape[p].kids}

\* What can be reached from p.
Reach(p) ==
  {q \in Objects :
     \A S \in SUBSET Objects : (p \in S /\ \A r \in S : Kids(r) \subseteq S) => q \in S}

\* The client is between two calls; after a failure that cannot be recovered
\* from nothing is claimed, and it makes no other call.
Idle == todo = <<>> /\ ~spoiled /\ ~undefined

-----------------------------------------------------------------------------
\* The arguments of a call: references the client holds, the parser its
\* function was given, or what a failed constructor returned.
Usable == {p \in Objects : handles[p] > 0} \cup Selves \cup {Null}
Uses(args, p) == Cardinality({i \in DOMAIN args : args[i] = p})
Given(args) == \A p \in Objects \ Selves : Uses(args, p) <= handles[p]
Consumed(args) ==
  [p \in Objects |-> IF p \in Selves THEN 0 ELSE handles[p] - Uses(args, p)]

\* What is released for these arguments, the first one first.
GivenBack(args) == Reverse([i \in DOMAIN args |-> [op |-> "release", p |-> args[i]]])

\* parser_allocate.
Allocated(p) ==
  /\ p = made + 1 /\ p \in Objects
  /\ made' = p /\ live' = live \cup {p} /\ rc' = [rc EXCEPT ![p] = 1]

HasData(kind) == kind \in {"variadic", "bind"}

Construct(kind, args) ==
  /\ Idle /\ Given(args) /\ Null \notin Range(args)
  /\ \E p \in Objects :
       /\ Allocated(p)
       /\ shape' = [shape EXCEPT ![p] =
            [kind |-> kind, kids |-> args, data |-> IF HasData(kind) THEN p ELSE Null,
             borrowed |-> {i \in DOMAIN args : args[i] \in Selves}]]
       /\ blocks' = IF HasData(kind) THEN blocks \cup {p} ELSE blocks
       /\ handles' = [Consumed(args) EXCEPT ![p] = 1]
  /\ UNCHANGED <<compiled, fixing, todo, spoiled, undefined>>

\* An argument is NULL, or an allocation fails: the arguments are given back.
\* One that leads to a placeholder frees it.
ConstructFails(kind, args) ==
  /\ Idle /\ Given(args) /\ kind # "variadic"
  /\ handles' = Consumed(args)
  /\ todo' = GivenBack(args)
  /\ spoiled' = \E p \in Range(args) \ {Null} : Reach(p) \cap Selves # {}
  /\ UNCHANGED <<made, live, shape, blocks, compiled, rc, fixing, undefined>>

\* variadic_parser keeps its arguments when it has no array for them, reads more
\* than it was given when one is NULL, and assigns to NULL when it has no parser.
VariadicFails ==
  /\ Idle /\ "variadic" \in Kinds
  /\ spoiled' = TRUE /\ undefined' \in BOOLEAN
  /\ UNCHANGED <<made, live, shape, blocks, compiled, rc, handles, fixing, todo>>

cc_retain(p) ==
  /\ Idle /\ handles[p] \in 1 .. MaxHandles - 1
  /\ handles' = [handles EXCEPT ![p] = @ + 1]
  /\ rc' = [rc EXCEPT ![p] = (@ + 1) % CountBound]
  /\ UNCHANGED <<made, live, shape, blocks, compiled, fixing, todo, spoiled, undefined>>

Give(p) ==
  /\ handles' = [handles EXCEPT ![p] = @ - 1]
  /\ todo' = <<[op |-> "release", p |-> p]>>
  /\ UNCHANGED <<made, live, shape, blocks, rc, fixing, spoiled, stale>>

\* The function of a cc_fix does not release what it was given.
cc_release(p) ==
  /\ Idle /\ handles[p] > 0 /\ Reach(p) \cap Selves = {}
  /\ Give(p) /\ UNCHANGED <<ir, programs, undefined>>

\* What may run in a parse of p: not all that can be reached, since alternatives may
\* not be tried and a parse may break off.
Runs(p) ==
  {run \in SUBSET Reach(p) :
     /\ run = {} \/ p \in run
     /\ \A S \in SUBSET run : (p \in S /\ \A q \in S : Kids(q) \cap run \subseteq S) => S = run}

Uncompiled(run) == {q \in run : shape[q].kind # "leaf" /\ ir[q] = Null}

\* The evaluator compiles each combinator it meets without a program, and at last
\* gives its argument back.
cc_parse(p) ==
  /\ Idle /\ handles[p] > 0 /\ Reach(p) \cap Selves = {}
  /\ Give(p)
  /\ \E run \in Runs(p) :
       /\ ir' = [q \in Objects |-> IF q \in Uncompiled(run) THEN q ELSE ir[q]]
       /\ programs' = programs \cup Uncompiled(run)
       /\ undefined' = \E q \in run : \/ q \notin live \/ shape[q].data \notin blocks \cup {Null}
                                      \/ ir[q] \notin programs \cup {Null}

-----------------------------------------------------------------------------
\* cc_fix: the placeholder, then what the client's function does, then the rest.
FixBegin ==
  /\ Idle
  /\ \E p \in Objects : Allocated(p) /\ fixing' = Append(fixing, p)
  /\ UNCHANGED <<shape, blocks, compiled, handles, todo, spoiled, undefined>>

Placeholder == fixing[Len(fixing)]

\* What the function returns is its own, does not lead to itself (it is no result
\* of a cc_fix: what the copy leads to would be freed with the original), and is
\* the only way to the placeholder.
Returnable(p) ==
  /\ handles[p] = 1 /\ rc[p] = 1 /\ shape[p].kind \in FixKinds
  /\ \A k \in Kids(p) : p \notin Reach(k)
  /\ \A q \in Objects \ {p} : handles[q] > 0 => Placeholder \notin Reach(q)

\* Mutant: the original is released like any parser.
FixEnd_releasing(p) ==
  /\ Idle /\ fixing # <<>> /\ Returnable(p)
  /\ shape' = [shape EXCEPT ![Placeholder] = shape[p]]
  /\ handles' = [handles EXCEPT ![p] = 0, ![Placeholder] = 1]
  /\ todo' = <<[op |-> "release", p |-> p]>>
  /\ fixing' = Front(fixing)
  /\ ir' = [ir EXCEPT ![Placeholder] = ir[p]] /\ stale' = (stale \/ ir[p] # Null)
  /\ UNCHANGED <<made, live, blocks, programs, rc, spoiled, undefined>>

\* cc_parser_copy, which copies the program too, and parser_free with RETAIN_INNER and
\* without FREE_DATA: the struct goes, and whatever the flags the program and the
\* binding of a bind.
FixEnd(p) ==
  /\ Idle /\ fixing # <<>> /\ Returnable(p)
  /\ shape' = [shape EXCEPT ![Placeholder] = shape[p], ![p] = NoShape]
  /\ live' = live \ {p} /\ rc' = [rc EXCEPT ![p] = 0]
  /\ blocks' = IF shape[p].kind = "bind" THEN blocks \ {shape[p].data} ELSE blocks
  /\ handles' = [handles EXCEPT ![p] = 0, ![Placeholder] = 1]
  /\ ir' = [ir EXCEPT ![Placeholder] = ir[p], ![p] = Null]
  /\ programs' = programs \ {ir[p]}
  /\ undefined' = (Placeholder \notin live \/ ir[p] \notin programs \cup {Null})
  /\ stale' = (stale \/ ir[p] # Null)
  /\ fixing' = Front(fixing)
  /\ UNCHANGED <<made, todo, spoiled>>

\* The function returns NULL, and gave back all that leads to the placeholder,
\* which nobody frees.
FixFails ==
  /\ Idle /\ fixing # <<>>
  /\ \A q \in Objects : handles[q] > 0 => Placeholder \notin Reach(q)
  /\ fixing' = Front(fixing) /\ spoiled' = TRUE
  /\ UNCHANGED <<made, live, shape, blocks, compiled, rc, handles, todo, undefined>>

-----------------------------------------------------------------------------
Busy == todo # <<>> /\ ~undefined
Job == todo[Len(todo)]

Undefined ==
  /\ undefined' = TRUE
  /\ UNCHANGED <<made, live, shape, blocks, compiled, rc, handles, fixing, todo, spoiled>>

\* cc_release ignores NULL.
ReleaseNull ==
  /\ Busy /\ Job = [op |-> "release", p |-> Null]
  /\ todo' = Front(todo)
  /\ UNCHANGED <<made, live, shape, blocks, compiled, rc, handles, fixing, spoiled, undefined>>

\* Mutant: the count is signed.
Release_signed(p) ==
  /\ Busy /\ Job = [op |-> "release", p |-> p] /\ p \in live
  /\ rc' = [rc EXCEPT ![p] = @ - 1]
  /\ todo' = Front(todo) \o
       (IF rc'[p] <= 0
        THEN <<[op |-> "free", p |-> p]>> \o GivenBack(shape[p].kids) ELSE <<>>)
  /\ UNCHANGED <<made, live, shape, blocks, compiled, handles, fixing, spoiled, undefined>>

\* The count goes down; a release of a placeholder that is being freed, by what
\* it leads to, takes it below zero, which stops there.
Release(p) ==
  /\ Busy /\ Job = [op |-> "release", p |-> p] /\ p \in live
  /\ rc' = [rc EXCEPT ![p] = (@ - 1) % CountBound]
  /\ todo' = Front(todo) \o
       (IF rc'[p] = 0
        THEN <<[op |-> "free", p |-> p]>> \o GivenBack(shape[p].kids) ELSE <<>>)
  /\ undefined' = (rc'[p] = 0 /\ shape[p].data \notin blocks \cup {Null})
  /\ UNCHANGED <<made, live, shape, blocks, compiled, handles, fixing, spoiled>>

\* Mutant: FREE_DATA is not set on what cc_fix filled in.
Free_keeping(p) ==
  /\ Busy /\ Job = [op |-> "free", p |-> p] /\ p \in live
  /\ live' = live \ {p}
  /\ blocks' = IF shape[p].data = p THEN blocks \ {p} ELSE blocks
  /\ shape' = [shape EXCEPT ![p] = NoShape] /\ rc' = [rc EXCEPT ![p] = 0]
  /\ ir' = [ir EXCEPT ![p] = Null] /\ programs' = programs \ {ir[p]}
  /\ todo' = Front(todo)
  /\ UNCHANGED <<made, handles, fixing, spoiled, stale, undefined>>

\* The rest of parser_free, after the children: the data, the program, the struct.
Free(p) ==
  /\ Busy /\ Job = [op |-> "free", p |-> p] /\ p \in live
  /\ live' = live \ {p} /\ blocks' = blocks \ {shape[p].data}
  /\ shape' = [shape EXCEPT ![p] = NoShape] /\ rc' = [rc EXCEPT ![p] = 0]
  /\ ir' = [ir EXCEPT ![p] = Null] /\ programs' = programs \ {ir[p]}
  /\ undefined' = (shape[p].data \notin blocks \cup {Null} \/ ir[p] \notin programs \cup {Null})
  /\ todo' = Front(todo)
  /\ UNCHANGED <<made, handles, fixing, spoiled, stale>>

Dangling == Busy /\ Job.p \in Objects \ live /\ Undefined

Work == ReleaseNull \/ Dangling \/ \E p \in Objects : Release(p) \/ Free(p)

Calls ==
  \/ FixBegin \/ FixFails \/ VariadicFails
  \/ \E p \in Objects : cc_retain(p) \/ cc_release(p) \/ cc_parse(p) \/ FixEnd(p)
  \/ \E kind \in Kinds : \E args \in [1 .. Arity[kind] -> Usable] :
       Construct(kind, args) \/ ConstructFails(kind, args)

Next == Work \/ Calls

Spec == Init /\ [][Next]_vars

-----------------------------------------------------------------------------
TypeOK ==
  /\ made \in 0 .. Cardinality(Objects) /\ live \subseteq 1 .. made
  /\ blocks \subseteq 1 .. made /\ programs \subseteq 1 .. made
  /\ \A p \in Objects :
       /\ shape[p].kind \in DOMAIN Arity /\ Kids(p) \subseteq Objects
       /\ shape[p].data \in Objects \cup {Null} /\ ir[p] \in Objects \cup {Null}
       /\ rc[p] \in 0 .. CountBound - 1 /\ handles[p] \in 0 .. MaxHandles
  /\ \A i \in DOMAIN todo : todo[i].op \in {"release", "free"} /\ todo[i].p \in Objects \cup {Null}
  /\ spoiled \in BOOLEAN /\ stale \in BOOLEAN /\ undefined \in BOOLEAN

\* No parser, data or program is freed twice or used after it was freed, with sharing,
\* with recursion through cc_fix, nested too, and when constructors fail: but for
\* the failures of which the code does not recover, and for what comes after a
\* function of cc_fix returned a parser that had been parsed with, whose program is
\* freed under its copy (cc_parser.c:17-124, cc_combinator.c:340-361).
NothingUndefined == undefined => spoiled \/ stale

\* The same of every function of cc_fix: parsers are owned by those who hold a
\* reference (include/ccombinator.h:145-163), so nothing is freed that is still used.
NothingFreedIsUsed == undefined => spoiled

\* Between two calls what is allocated is what the client can still reach, the
\* placeholders of running fixes included: nothing is lost and nothing kept,
\* though recursive parsers lead to themselves.
CountsArePrecise ==
  Idle =>
    LET reached == UNION {Reach(p) : p \in {q \in Objects : handles[q] > 0} \cup Selves}
        had     == {ir[p] : p \in reached} \ {Null}
    IN  /\ live = reached
        /\ blocks = {shape[p].data : p \in reached} \ {Null}
        /\ programs \subseteq had /\ (stale \/ programs = had)

\* No parser is freed again while it is being freed, though the release of a
\* recursive parser comes back to it: that is what ends it (cc_parser.c:17-23).
FreedOnce ==
  \A i, j \in DOMAIN todo : i < j /\ todo[i].op = "free" => todo[i] # todo[j]
=============================================================================
