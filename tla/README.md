# A verification project for ccombinator

ccombinator is a library of parser combinators in C. A grammar is a graph of
parser objects; every combinator in it is compiled on first use to a small
program for a stack machine, and `cc_parse` runs that machine over the input.
This directory holds TLA+ modules of the core of the library, the TLC runs that
check them on small instances, and proofs checked by TLAPS.

Line numbers below are those of `src/`; `PROJECT.json` maps every definition to
the lines it models.

## 1. Inventory

Everything runs in one thread and keeps its state in memory. What is hard here
is not interleaving but *long sequences of legal steps*: programs generated
separately share three stacks, three flags and one error report, every one of
which has to be put back on each of the many ways out of a combinator.

| Component | State it keeps | Operations | Modelled in |
|---|---|---|---|
| Parser objects (`cc_parser.c`, `cc_combinator.c`) | graph of `struct cc_parser` | the `cc_*` constructors | `Parsers`, `Ownership` |
| Reference counts, `cc_fix` | counts, flags, placeholders, compiled programs | retain, release, fix, free | `Ownership` |
| Compiler (`cc_compiler.c`) | instruction buffer, jump patches | `cc_compile`, `generate_*`, `apply_patches` | `Compiler` |
| Evaluator (`cc_eval.c`) | call, data and result stacks, location, flags EOF / NOERROR / NORETURN, scope, error report | `cc_parse`, `ir_eval`, `call_terminal`, `match_*` | `Eval`, `Evaluation` |
| Lazy values (`cc_lazy.c`, `lazy_eval`) | result and data stacks, the tree's slots | evaluate, patch, free after a failing callback | `LazyEval`, `TreeValue` |
| Scope and rule table (`cc_common.c` 515-701) | slots with tombstones, stacks per slot, a list of all entries | push, pop, set, get, resize | `HashTable`, `BindingStack` |
| Error report (`cc_common.c`) | labels, a message, a location | `new_error`, `cc_add_expected` | `Eval` |
| Contract (`include/ccombinator.h`) | none | what each combinator promises | `Peg`, `ParseContract` |
| Regular expressions (`cc_regex.c`) | none between calls but its own parser | `cc_regex`, the `re_*` callbacks | `Patterns`, `Regex`, `FrontEnds` |
| BNF (`cc_bnf.c`, `cc_rule`) | table of rules, table of actions | `cc_bnf`, the `bnf_*` callbacks, `cc_rule` | `Ebnf`, `Bnf`, `FrontEnds` |
| Fold functions, character classes (`cc_common.c`) | none | `cc_fold_*`, `cc_is_*` | `Callbacks` |
| Calculator example | none | one recursive grammar | `MCEval` |
| Sources | file, mapping | open, close | no |
| UTF-8 | none | encode, decode | no |
| Debug dump, build files | none | printing | no |

**How they interact.** The constructors build the objects. `ir_eval` calls
`cc_compile` when it first meets a combinator without a program; the compiler
reads the object and nothing else. `CALL` pushes a frame that names an object;
`LOOKUP` asks the scope table for one and takes its place in the same frame. A
returning callee leaves its outcome as one word on the data stack of its caller.
Values are not computed while parsing: `FOLD` and `APPLY` build a tree on the
result stack, which `lazy_eval` evaluates once the parse has succeeded. The
regex and BNF front ends are clients of the whole, twice: a parser reads the
pattern or the grammar, the callbacks in its result tree build other parsers, and
`cc_parse` or `cc_matches` runs those.

**What makes each component correct, and what is hard about it.**

- *Compiler and data stack.* Each program must find the words it pops, on every
  path, calls that fail included, and must never reach those of its caller. The
  epilogue of a combinator is shared by the ways that succeed and those that
  fail; they arrive with different words on the stack.
- *Result stack.* One result per successful parser while values are made, none
  otherwise, so that `FOLD n` takes exactly those of its combinator. `n` is a
  constant, or a counter incremented before the attempt it counts.
- *Location.* There is one saved location per frame, overwritten by each
  `SAVE_LOCATION`; a `RESTORE_LOCATION` has to match.
- *Flags.* NORETURN and NOERROR are saved in data-stack words and restored by the
  program. EOF is set by peeking and is a property of the location, but is not
  restored with it.
- *Call stack.* A dynamic array into which `ir_eval` holds a pointer.
- *Scope.* A binding is in force while the parser of its `cc_bind` runs, and the
  innermost hides the others. The table behind it must be a stack of bindings
  although its entries are hashed, moved by resizes and replaced by tombstones.
- *Reports.* A parser under NOERROR leaves the report alone; a parse that fails
  says something.
- *cc_parse* answers once, with what the header promises for grammar and input.
- *Lazy values.* The arrays of the tree hold pointers of two kinds, to lazies and
  to values, and nothing in them tells which; the data stack does. After a
  callback fails, what is left of the tree must be freed, and no value with it.
- *Reference counts.* Whoever is given a parser owns the reference, also when the
  call fails. Recursive parsers refer to themselves without counting. A parser owns
  the program it was compiled to, which `cc_fix` copies with the rest of the struct.
- *Front ends.* A callback takes its operands by position, among separators that
  have a value or none, and a NULL among them means an error in one place and an
  empty text in another. What is built must mean what was written.

The hazards, each at its line and with the properties that cover it, are listed
in `PROJECT.json`.

## 2. The modules

```
Parsers <- Compiler <- StackMap <- Eval <- CallProperties <- EvalProperties <- MCEval
   ^                      ^         ^  ^          ^                              ^
   |                      |         |  |          |                              |
   |                   FrameMap <---|--|---- CallProofs <-- ResultProofs <-- MCEvalProofs
   |                      ^         |  |          |              |
   |                      '- ResultMap <----------|--------------'
   |                                |  |          |
   |                                |  '---- EvalProofs
  Peg ...(INSTANCE, twice)... EvalProperties
   |                                        BindingStack ...(INSTANCE)... HashTable
ParseContract ..(INSTANCE).. MCEval                           <- MCHashTable
Parsers <- Evaluation ..(INSTANCE).. EvalProperties
   |          '<----.                       LazyEval <- LazyProofs <- LazyFreed <- MCLazyEval
   '<- Callbacks <- Regex <-- FrontEnds       TreeValue ...(INSTANCE)......'
          ^-------- Bnf   <---'  <- MCFrontEnds
  Patterns <- Regex,  Ebnf <- Bnf            Ownership <- OwnershipProofs <- MCOwnership
```

**Parsers.** A grammar is a function from identifiers to records, one per C
object, built by operators that carry the names of the C constructors. Recursion
through `cc_fix` is an identifier that occurs in its own definition. The
character parsers build two objects, a terminal and the EXPECT around it, and so
does the model.

**Compiler.** One operator per `generate_*` function. Where the C code emits a
jump to `UINT32_MAX` and patches it, the model names a label and `Assemble`
resolves it; a label that stands nowhere remains `Unpatched`. Positions count
instructions, not bytes.

**StackMap.** What each opcode asserts of the data stack and does to its height,
and from that a verifier: `HeightOf` computes lower bounds in one forward pass,
`Verified` says that a program respects them.

**FrameMap** goes on from there: it tells the words apart. `FactsOf` follows the
saved values of NORETURN and NOERROR through data-stack words and flags, whether the
frame's location was saved by this call, and whether its binding is in scope;
`Balanced` and `Restores` say what a program must do with them.

**ResultMap** counts results: a state of it says how many a program has made since it
was called, as a number or as a number and a word that counts the rest, and which
values the words may have. `Moves` is what an instruction makes of a state, one way or
two, `Fits` what FOLD and APPLY ask of it; `StatesOf` finds the states of each
instruction, with a guess at the head of each loop, and `Counts` says that they are
all there are, and that a program which succeeds leaves one result.

**Eval.** The state of `ir_eval` as variables; one action per opcode (the three
conditional jumps are one), and actions for resolving a lookup, calling a
terminal, reaching the end of a program, the end of the parse, and a failing
assert (`Abort`, after which there is no process). One step is one turn of the
loop, or of its prologue where the frame is a terminal or a lookup. `DoReturn`
is the code at `do_return`. Frames carry, besides the fields of the C struct,
what the flags, location, scope and report were when they were pushed
(`entry`): history that properties refer to and no action reads. `missed` is
history, too. The one nondeterministic choice is in `Call`: when the call stack
is full, `realloc` may or may not move it, and if it does, the caller's
instruction pointer is advanced in freed memory only (`lost`).

**CallProperties** says what a call leaves its caller, **EvalProperties** what a whole
parse comes to; the first can be reasoned about, the second speaks of the recursive
`Peg` and `Evaluation`.

**Peg.** The promise of the header as a recursive parser, with no machine in it.
Two points on which the header is silent are named in the module; they follow the
code. On one point the code contradicts the header: an operand of `cc_chain` or
`cc_postfix` that no operator follows is to be "returned directly", and is folded. `Peg`
follows the header (`FoldsLone` FALSE, the instance `Header`); the instance `Folding`
is the same with this one point as the code has it.
`ParseContract` is the abstract state machine of one `cc_parse`: pending, then
answered with what is due. `Due` in `MCEval` says what that is.

**Evaluation** is what the programs of the compiler come to: for each combinator
a recursive definition of outcome, location, result tree and the three flags. Unlike
`Peg` it keeps the EOF flag of the code, so it gives the answer of `Eval` where the
header's is lost, too (`AnswerIsComputed`); `~missed` is the condition under which
the two agree. The front ends run on it instead of on the machine.

**HashTable** is the table with its probes, tombstones and resizes, for an
arbitrary hash function; **BindingStack** is the stack of bindings its users
take it for. `lost` is history: a resize met the entries of one key in two slots. The model of the evaluator uses the latter view (`scope` is a
sequence); `HashTable` says when that is justified. **LeastElement** holds the one lemma all
inductions of the proofs go by.

**LazyEval** takes over where `Eval` ends, with a forest of lazies on the result
stack: one tree after a parse that matched, any forest after a resource error. One
step is one turn of the loop of `lazy_eval` or of `lazy_free`, or what stands between
them (`pc`). A pointer is to a lazy, to a value, or null; `slots` are the arrays in
the lazies. Every callback may fail, and so may every allocation at the heights at
which the stacks grow (`Full`). **TreeValue** is the promise: callbacks in
post-order, each once, with the values of its children, until one fails.
`MCLazyEval` gives the refinement mapping.

**Ownership** is a client that calls constructors, `cc_retain`, `cc_release`,
`cc_parse` and `cc_fix` as the header's rule of ownership allows ("All arguments of
type struct cc_parser* consume a reference"). A call is one step except for what it
releases: `todo` is the recursion of `cc_release` and `parser_free` as a stack. In
the function of a `cc_fix` the client has the placeholder to use as often as it
likes. Counts are modulo `CountBound`, since the release of a placeholder that is
being freed takes its count below zero. `borrowed` is history: the children of a parser
for which no reference was consumed, since they were the placeholder. `programs` are
the compiled programs that were not freed, and `ir` is the pointer each parser has to
one: `cc_parse` compiles the combinators it meets, any part of what can be reached, as
long as each is met through others (`Runs`); `cc_fix` copies the pointer with the struct
(`FixEnd`) and `parser_free` frees what it points to. `stale` is history: a function of
`cc_fix` returned a parser that had a program. Three failures from which the code does not
recover set `spoiled`, after which nothing is claimed; section 5 names them.

**Callbacks, Regex, Bnf** are the fold and apply functions, one operator each with
its C name, from values (null, a text, a parser, a name, a number, rules, an error)
to values, and the two grammars as `Parsers` records. A parser as a value is a tree;
`Flat` makes a grammar of it that `Evaluation` runs. **Patterns** and **Ebnf** are
the other side: patterns and rules as trees, how each is written (the syntax of the
grammars in the code) and what it takes from an input, with ordered choice and
greedy repetition, defined without parsers. **FrontEnds** composes them: `cc_regex`
and `cc_bnf` read the text of a tree, the result tree of that parse is evaluated by
the callbacks, and the parser or table of rules that comes of it is run by
`cc_parse`, `cc_matches` or through `cc_rule`.

## 3. The runs

Passing runs:

| Run | Question | Size |
|---|---|---|
| `eval_sound` | 28 grammars, using each combinator and terminal, nested and repeated, and that of `examples/calculator.c`, on all inputs of up to 3 characters over 3 and of 4 over 2 and on 11 expressions of up to 12: do the asserts hold, are answers those of `Peg` and `Evaluation`, are flags, scope, locations and reports kept, does each parse end, does `Eval` implement `ParseContract`, liveness included? | 107 000 states |
| `eval_stack` | the assumptions `CodeVerified`, `CodeBalanced`, `TidyRestores`, `ExactCounts` and the inductive invariants `StackInv`, `CallInv`, `ResultInv` of the proofs, on the grammars that show defects elsewhere, on tidy ones, and with a call stack that is reallocated after 6 frames | 61 000 |
| `lazy` | every tree of 4 lazies, every forest a parse may leave, null children, every callback and allocation failing: is the value that of `TreeValue`, is each lazy freed once and no value, does it end? | 103 000 |
| `ownership` | every sequence of calls with up to 4 parsers, nested `cc_fix`, sharing, parses, failures: are the allocated parsers, data and programs those the client can reach, is every count exact, and is none used or freed after its end? | 1 226 000 |
| `front_ends` | 500 patterns and 250 grammars from text to parser to what it makes of up to 19 inputs: accepted if and only if well formed, right verdict, right text? | 29 000 |
| `hash_table` | pushes, pops, sets and lookups of three keys, every hash function into four slots, resizes from two slots to sixteen: does the table implement `BindingStack` (until it is `lost`), are rules found and kept, is there always an empty slot, and does the invariant `TableInv` of the proofs hold? | 1 129 000 |

Runs that find the code at odds with what the repository says of it:

| Run | What happens |
|---|---|
| `prefix` | `cc_or(2, seq(a,b), a)` fails on `a`. The first alternative runs into the end of the input and sets EOF; going back restores the location and not the flag, and everything after it fails. |
| `leak` | `cc_chain(NULL, a, b)` that fails after an operator returns with NORETURN set: the epilogue takes the iteration counter for the saved flag. `cc_count` and `cc_least` leave their counter in the same place. |
| `deep` | A call that moves the call stack loses its caller's instruction pointer; 129 nested calls do it. The parse then fails with "undefined opcode". |
| `hash_unbound` | Looking up an unbound name next to an ended binding compares the key of a tombstone, a pointer of value `UINTPTR_MAX`. |
| `fix_parsed` | The function of a `cc_fix` builds a parser, retains it, parses with it and returns it. The parse has compiled it; `cc_fix` copies the pointer to the program into the placeholder and frees the program with the original. The next parse runs freed memory, or the release frees it again. |
| `regex_pair` | The regular expression `ab` matches `b`: a sequence of exactly two items is built with `cc_either`. |

Seen while modelling, and without a run of their own:

- `cc_many_until` whose end parser succeeds at its second try, after the repeated
  parser moved on and failed, folds one result too many and fails an assert
  (`cc_compiler.c:173`); a BNF grammar without its last `;` does it.
- `cc_not` of a parser that fails after consuming leaves the input there
  (`cc_compiler.c:530`): the BNF exception `ab - ac` does not match `ab`.
- `cc_chain` and `cc_postfix` fold a lone operand (`cc_compiler.c:396`), where the
  header and the repository's README say they return it (`ccombinator.h:324`, `:330`,
  `README.md:389`, `:394`). The callbacks of the front ends and of the calculator rely
  on what the code does. `AnswerIsPromised` and `Due` exempt this, see below.
- A malformed pattern such as `[^a` is accepted as the empty one, through the stale
  EOF flag; `[(]` leaves a string where a parser belongs (`cc_regex.c:314`);
  `[:cntrl:]` is index 0 and taken for an error (`cc_regex.c:279`).
- `lazy_inline` does not store its size (`cc_lazy.c:20`), and after a failing
  allocation in `lazy_eval` `cc_parse` frees a null report (`cc_eval.c:949`).
- A scope can lose its newest binding. A resize may swap two keys that probe into
  each other's slots; when the one in front is popped, the next push of the other takes
  the marked slot, so its key has entries in two slots, and the next resize keeps those
  it meets last, perhaps the older ones (`cc_common.c:584-591`, `lost` in `HashTable`). It
  takes resizes of a small table, which go on since `size` counts pushes down too
  rarely (`cc_common.c:601`, `:671`); the code starts with 32 slots.
- `@f: x` with one `x` that is a concatenation or an exception replaces the fold of
  `x` instead of folding its value (`cc_bnf.c:303`).

`eval_sound` exempts from the comparison with `Peg`, and `front_ends` from all
verdicts, those runs in which a terminal ran with a stale EOF flag (`missed`). It also
exempts the lone operand of `cc_chain` and `cc_postfix`, and nothing else about them: the
verdict is compared with `Header`, the tree with `Folding`, which differ in that point
only. `AnswerIsAlwaysPromised`, checked by `prefix`, has no exemption: it is the header
as it is written. `ownership` claims nothing about freed memory once a failure is not
recovered from (`spoiled`) or `cc_fix` was given a parser with a program (`stale`);
`NothingFreedIsUsed`, checked by `fix_parsed`, does without the second. The grammars of
`eval_sound` are those on which none of the other defects shows; the grammars on
which they do are `Defects` in `MCEval`. The patterns and grammars of `front_ends`
leave out the same: no sequence of exactly two items is judged (`HasPair`), an
exception excludes one character, a grammar ends with `;` and has a space before `-`,
nothing that matches the empty text is repeated, no rule begins with itself.

**Bounds, and why they are enough.** The alphabet has three characters, since a
grammar distinguishes "matches", "does not match" and "matches something else";
inputs of three and four are long enough to enter, repeat, abandon and leave two nested
combinators. The calculator has seven characters; its expressions nest, chain and negate,
or break off in each of these places, and the other grammars get them as well. `UnrollThreshold` is 3 (8 in the code) so that counts on both sides
of it occur, `MaxExpected` is 2 (16) so that the list of labels overflows,
`WordSize` is 16 (2^32): no counter of a checked run wraps, and the model wraps
where the code does. `CallStackCap` is the code's 128, out of reach, where the
question is another one, and 6 where reallocation is. `MaxCapacity` and
`MaxEntries` bound the hash table; `InitCap` is 1 and 4 instead of 16, so that
resizes happen with few keys, and the hash functions map to four values, so that
any two keys may collide or run into each other's slots.

`lazy` has trees of four lazies: a callback that fails under a node whose parent and
sibling are already, or not yet, evaluated. `ResultCap` 2 and `DataCap` 1 (256 in the
code) put a growing stack, which may fail, at nearly every push. `ownership` has four
parsers: a recursive parser within another with a child both share. Its constructors
are a leaf and the two combinators that have data and two children, `variadic`, whose
array goes with the parser, and `bind`, whose failure gives back its arguments; one with a
single child does nothing that a `variadic` with the same child twice does not. Its
`CountBound` is 13 (2^32), the least that `CountAssumption` allows for four parsers,
`MaxHandles` 2.
`front_ends` has every kind of symbol and selection alone and under each quantifier,
all triples of seven items, alternatives and groups of several; of a BNF grammar
each kind of expression alone, under a fold, and in all pairs. Texts have up to three
letters, the length of the longest sequences, and one that nests twice.

**Fairness and deadlock.** `FairSpec` adds weak fairness of the whole
next-state relation: `ir_eval` is one loop of one thread that takes its next turn
as long as there is one. No action is promised more. `Terminated` stutters once
`cc_parse` has returned or an assert has ended the process, so deadlock checking
is meaningful for the evaluator, and in the same way for `LazyEval` (`Ended`).
`LazyEval` states the same fairness: `ImplementsTreeValue` includes that every
evaluation comes to a conclusion. Three modules have no liveness and may stop:
`HashTable` after a crash, `Ownership` when the client has used all its parsers, and
`FrontEnds` after its one parse. Termination is checked
for grammars without left recursion, without a repetition of a parser that
accepts the empty input and without a name bound to itself: with one of these the
code does run forever, and nothing promises otherwise.

## 4. The proofs

### The evaluator

`EvalProofs` proves, for every grammar, every input, every word size and every
size of the stacks:

- `TypeCorrect`: `Spec => []TypeOK`; in particular no location leaves the source.
- `FramesOwnTheirWords`: `Spec => []StackInv`.
- `DataStackIsSafe`: `Spec => []DataStackSafe`; no assert about the data stack
  fails.
- `Invariance`: `Spec => []IInv`, the invariant they rest on.

`DataStackSafe` is not inductive: that `POP` finds a word depends on where the
instruction pointer is, and, when a callee returns, on what the caller had when
it called. The strengthening is a bytecode verifier's. `StackMap` gives for each
instruction a lower bound on the words its frame owns. `StackInv` says that each
frame stands at an instruction of its program (`FramesStand`), that the top frame
owns what its bound says (`TopOwns`), and that what a suspended caller owns lies
below its callee's stack pointer up to the one word the return will push
(`CallersOwn`). `IInv == TypeOK /\ StackInv`. A `CALL` is the interesting step:
the caller moves past it as if the outcome were already there, and `CallersOwn` is
exactly that debt; a return pays it, whatever the callee left behind, since
`do_return` cuts the stack to the callee's `sp`. A caller that lost its
instruction pointer stays on the `CALL`, whose bound is one word lower, so the
invariant survives even the defect of run `deep`.

The bounds are *lower* bounds: some programs leave a varying number of words
(that is what run `leak` is about), so there is no exact height to prove.

Assumptions: `EvalAssumption` (ranges of constants), `GrammarWellFormed` (what
the constructors establish: known types, bindings to parsers that exist) and
`CodeVerified` (the programs of the grammar pass the verifier). The last is a
statement about the compiler that is assumed of the grammar at hand, not proved
of every grammar; TLC evaluates all three in `eval_stack`, whose `Grammar`
contains each generator with both branches of each of its conditions. Proving
`Verified` for each generator is planned.

### What a call leaves its caller

`CallProofs` proves, for every grammar, every input and every size of the stacks:

- `LocationsNeverRewind`: `Spec => []NeverRewindsPastCall`, without a condition;
- `ScopeIsRestored`: a call returns with the bindings it was called with, while the
  call stack is not reallocated (`[]NeverGrown`);
- `FlagsAreRestored`, `SilenceIsKept`, `NoNullFoldRuns`: NORETURN and NOERROR are
  restored, nothing is reported under NOERROR or by a silent parser, and no FOLD makes
  a lazy of a NULL function, under a root in `Tidy` and while the call stack is not
  reallocated;
- `CallInvariance`: `Spec => []CallInv`, on which they rest.

"A call returns what it was given" is a statement about two moments and all that
happens between them, so the invariant has to carry the first to the second. Frames
have `entry`, what there was at the call. `CallInv` says, of every frame on the call
stack and relative to its `entry`, what `FrameMap` knows at its instruction:

- `LocationsInv`: the location, and every saved one that may yet be restored, lies
  behind the entry of the frame and of every frame below it;
- `ScopeInv`: the scope a callee found is its caller's, with the caller's own binding
  where the program stands between PUSH_BINDING and POP_BINDING;
- `CallersKnow`, `TopKnows`: what is known of a flag or word (set, what NORETURN was,
  what NOERROR was) is so; of a suspended caller, with the flags its callee found and
  the words below the callee's stack pointer;
- `SilenceInv`: silence is handed down the call stack, and the report is that of the
  entry of whoever must not report;
- `OnlyTidy`, `StacksOrdered`: what runs or is bound is in `Tidy`; stack pointers
  rise, which is why a callee's writes miss its caller's words.

A return is the step on which everything turns: the top frame stands at the end of its
program, where the flags are known to be those of its entry; those are what the caller
was known to have had, so what the caller knows is true again.

The conditions are the defects. A frame that lost its instruction pointer
(`deep`) breaks off its program without its epilogue, so all but the locations is
claimed only up to the first reallocation. A program outside `Tidy` puts a counter
where the saved flag should be (`leak`): `cc_count`, `cc_least`, `cc_many_until` and
`cc_chain`, without a fold function, and what leads to them.

Assumptions beyond those above: `CodeBalanced` (every program is `Balanced`) and
`TidyRestores` (`Tidy` is closed under calls and bindings and its programs are
`Restores`). `Balanced` asks of each instruction that its successors claim no more
than it leaves. TLC evaluates both in `eval_stack`, for every generator, with `Tidy`
all parsers of `Grammar` except eight.

### What a parser leaves its caller on the result stack

`ResultProofs` proves, for every grammar, every input and every size of the stacks:

- `NoAssertEverFails`: no assert of `ir_eval`, `do_return` or `lazy_eval` fails, under
  a root in `Exact`, while the call stack is not reallocated (`[]NeverGrown`) and a
  word can count the results (`[]NoWrap`);
- `ResultsAreAccounted`: `Spec /\ []NoWrap => []ResultInv`, on which it rests.

The assert of a FOLD compares a word of the data stack with the height of the result
stack. The word was counted up once for each result, in another turn of the loop,
perhaps before an attempt that failed; the results were made by calls, each of which
was free to make and drop any number of its own. So the invariant has an account of
every frame (`Accounts`): of the running one, one of the states of `ResultMap` is true
of its words and of the number of results above its `rp` (`TopAccounts`); of a waiting
one, the same as it was before the call, for the results between its `rp` and its
callee's (`CallersAccount`). A frame whose caller wants no results has made none. A
return closes one account and moves the other (`CallerAccounts`): `do_return` cuts the
results to those the callee found and at most one more, which is what `Moves` says of a
CALL, and one word tells the caller which. Each instruction is a lemma about `Moves`
(`EachMoves`): what it says follows from what the instruction does, and a state that
follows another (`Follows`) is true where that is. The words that count need
arithmetic (`CountedDescribes`): one step up or down of a word that counts changes
the number that the state adds to it by as much the other way.

With the accounts, `NoneFails` goes through the asserts one by one: jumps and the types
of operands by `CodeVerified`, the words by `StackInv`, the binding that is popped by
`ScopeInv`, FOLD, APPLY, the return and the end of the parse by the accounts.

Assumption: `ExactCounts`. `Exact` is a part of `Tidy`, closed under calls and bindings,
whose programs `Counts`. TLC evaluates it in `eval_stack`, with `Exact` all parsers of
`Tidy` but the two `cc_many_until` with a fold; for these `Counts` fails, and it should:
the path through the second try of the end parser counts a result that is not there
(section 3), and with a call that may return anything that path is open. `NoWrap` is
what the comments `TODO: range check` leave open (`cc_eval.c:706`, `:711`): with 2^32
results the counter of a loop is zero again.

### The evaluation of lazies

`LazyProofs` and `LazyFreed` prove, for every forest of lazies and every capacity of the
stacks:

- `TreeKept`: `Spec => []TreeInv`;
- `FreesOnlyLazies`: `Spec => []NothingUndefined`; unless an allocation fails, no
  value is freed as a lazy and no lazy twice, whichever callback fails;
- `AssertsNeverFail`: `Spec => []AssertsHold`;
- `LazyTypeCorrect`: `Spec => []TypeOK`;
- `AllLaziesFreed`: `Spec => []EveryLazyFreed`; unless an allocation fails, none leaks;
- `LazyInvariance`: `Spec => []LInv`, on which they rest, and `HeldInvariance`:
  `Spec => []HInv`, on which the last one rests too.

That `remove_patched_values` forgets the right slots is a fact about the whole way
down from the root. `PathInv` says that each stack entry below the top is a fold or
apply and that the data stack has one word for each, in the same order. `ValuesInv`
says that a value stands only in a lazy on that way, before the child its word
counts. `OwnInv` says that every other pointer in a slot or on the result stack is to
a lazy that was not freed, and the only one to it. With these, the cleanup frees
lazies only: what it forgets is every value there is. `TreeInv` is their
conjunction; `LInv` adds the types and what each `pc` implies (`ControlInv`).

`HInv` is the other half: nothing is lost on the way. `HeldInv` says that a lazy that
was not freed is referred to, by the result stack or by another that was not freed;
`TakenInv` that a lazy never stands in a slot where the parse did not put it;
`VisitedInv` that the slots a word counts have given up their lazies, so that
`remove_patched_values` forgets none. When the stack is empty at the end, a lazy that
was not freed would have a holder nearer to a root, which has one as well, and so on:
there is none (`NothingLeft`).

Assumptions: `LazyAssumption` (ranges, and that an apply has one child and a leaf
none), `TreesAssumption` (the parse has built trees: nothing refers to a lazy twice)
and `DepthAssumption` (a lazy is built after its children, and what has children is
referred to). TLC evaluates them in `lazy`.

### The hash table

`HashProofs` proves, for every hash function, every number of keys, values and
entries and every initial size:

- `StackImplemented`: `Spec => ImplementsStack`, the refinement of `BindingStack`;
- `RulesAreFound`, `RulesStay`: `[]ProbesFindTheirEntries` and `FirstRuleStays`;
- `ProbesEnd`: `[]EmptySlotLeft`;
- `TypeCorrect`: `[]TypeOK`;
- `TableInvariance`: `Spec => []TableInv`, on which they rest.

`TableInv` says four things:

- `SizesInv`: the types, and `2 * size <= capacity` with at most `size` slots taken.
  `size` is neither the number of entries nor that of slots; what holds is that it
  never falls below the number of slots, and growing at half is then enough for a
  probe to end.
- `Sound`, always: the entries of a slot have one key (`OneKey`), each is on the list
  (`Live`), and none is in two places (`Apart`).
- `Whole`, until the table is `lost`: every entry of the list is in a slot (`Held`);
  on its way to a slot of its key a probe meets no slot that was never taken
  (`Reached`); in a slot the newer entry is above the older (`Sorted`), and of two
  slots of one key the one a probe meets first has the newer entries (`Newer`).
- `RulesInv`: a table of rules has no marks and no key twice.

A key may have its entries in two slots, which is why `Newer` is needed: a push takes
the first slot that a pop has emptied, before the one where older entries of the key
are. From `Newer` and `Reached` follows what a probe finds (`FirstIsNewest`), and from
that each step of the refinement. A resize is proved by induction over the slots
it has moved (`MovesAll`): what is in the new table came from one of those slots, no
two from one, and every slot is the first of its probe sequence that could have
taken it. If no key was in two slots, nothing is overwritten.

The only assumption is `HashTableAssumption` (ranges of constants; a hash function is a
function from keys to numbers). `StackImplemented` says nothing of two things the code
gets wrong: a crash answers nothing (run `hash_unbound`), and once a resize has met a
key in two slots the table is `lost`.

### The reference counts

`OwnershipProofs` proves, for any number of parsers and of references the client may
hold to one:

- `NothingIsUndefined`: `Spec => []NothingUndefined`; no parser, data or program is used
  or freed after it was freed, until a failure is not recovered from (`spoiled`) or
  a function of `cc_fix` returns a parser that has a program (`stale`);
- `NothingLostNothingKept`: `Spec => []CountsArePrecise`; between two calls the
  allocated parsers and data are those the client can reach, and so are the programs,
  of which `stale` may have freed one too many but never leaks one;
- `EveryCountIsExact`: `Spec => []CountsAreExact`; a count is the number of references
  it stands for, after each step of a release too, until freed memory is used;
- `NeverFreedTwice`: `Spec => []FreedOnce`, even after a failure that is not recovered;
- `CountsAreCounts`: `Spec => []TypeOK`;
- `CountsKept`: `Spec => []OInv`, on which they rest.

A reference is a place: a child of a parser that still holds its children (`Slots`), or
a job (`Jobs`) on the list of what is to be released. `Owned` are the places for which a reference was
consumed; the others are the borrowed ones through which a recursive parser
leads back to itself. When the last reference to a parser goes, its places become jobs
one by one (`EmptiedCounts`), so no count but its own changes. `OInv` says:

- `BoundInv`, always: a parser that is being freed has fewer references left than
  would take its wrapped count to zero again. That is why freeing ends.
- `SoundInv`, until a failure spoils it or freed memory is used: what is referred to lives (`LiveInv`), a
  placeholder is empty while its function runs and no job leads to one (`FixingInv`), a
  count is what it stands for (`CountInv`), a dying parser has borrowed references only
  and its jobs come before its end (`DyingInv`), data has one owner (`DataInv`), and
  three statements about the shape of the graph.
- `AcyclicInv`: every set of parsers has one that no other of the set owns. With exact
  counts, a set nobody can reach would then have a member with a count of zero.
- `EnclosedInv`: every parser p has a set of others to which only p leads and which
  hold all the borrowed references to it. This is what `cc_fix` must establish
  (`Returnable` in the model: no other handle leads to the placeholder) and what every
  other call must keep.
- `DoomedInv`: of a parser that is being freed those others are all released before
  its turn comes. From this follows that nothing leads to it when `free` is called
  (`NothingLeft`): the last of them would need a job of its own after the end of the
  list.

- `ProgramInv`, as long as `SoundInv`: a program belongs to the parser it was compiled
  for, which lives and is no placeholder; and, until `stale`, a parser that points to a
  program points to its own. `cc_fix` breaks exactly the last part, and only if what it
  was given had a program (`FixEndPrograms`).
- `NothingUndefined` itself: `UndefinedIsStale` shows that freed memory is used by no
  step from a state with `SoundInv` and `ProgramInv` that is not `stale`.

`EnclosedInv` becomes `DoomedInv` at the step at which the last reference to p goes, the
one step where a mistake in the order of `parser_free` would show.

Assumptions: `OwnershipAssumption` (ranges of constants), `CountAssumption`
(`CountBound > 2 * Cardinality(Objects) + MaxHandles + 2`, with at most two children to
a parser: no count overflows, which the code does not check), and `FixAssumption` (the
function of a `cc_fix` does not return a `cc_bind`, section 5). TLC evaluates them in
`ownership`. The run checks the five properties; `OInv` itself, whose subsets of parsers
take TLC longer than a run should, was checked with three parsers, of one child too
(`N = 3`, `CountBound = 12`, `unary` added to `Kinds` and `FixKinds`: 40 446 states).

### What is only model-checked

- The comparison with `Peg` and `Evaluation`, the refinement of `TreeValue` (whose order
  of evaluation is recursive) and the front ends (`Evaluation`, `Patterns`, `Callbacks`,
  `Regex`, `Ebnf` and `Bnf`): recursive, so out of the prover's reach.
- Termination and the liveness part of `ParseContract`: so is fairness.
- `NoAssertFails` of a root outside `Exact`, such as a `cc_many_until` with a fold: it
  holds where the second try of the end parser fails like the first, which depends on
  what the parsers are and not only on what they return.
- That a failing parse reports something (`FailureIsReported`).

## 5. What is not modelled, and the plan

Modelled up to a point, with what lies beyond it:

- *Failures without a recovery.* After three failures `Ownership` claims nothing:
  `variadic_parser` without memory or with a NULL among its arguments
  (`cc_combinator.c:137-162`), a constructor that fails with an argument which leads to
  a placeholder (whose references are not counted), and a function of `cc_fix` that
  returns NULL, which loses the placeholder. Nor may that function return a `cc_bind`
  (whose binding is freed with the original), a result of `cc_fix`, or a parser that
  is used elsewhere. `cc_token` and `char_arr_parser` build several objects and have
  error paths of their own, which are hazards without a property.
- *Failing allocations* of the parse itself: `ir_eval` takes the negative outcome of
  `call_terminal` for one of the program's (`cc_eval.c:641`). What a parse that was
  broken off leaves is an initial state of `LazyEval`.
- *Malformed patterns and grammars*, except for duplicate rules and wrong actions: what
  the grammars make of them depends on the stale EOF flag.
- *Texts.* A character is one unit of input, below 128 in the front ends.

To be added:

1. `Utf8`: decoding and encoding against reference definitions, the labels of
   one-character sets; octal digits exclude 7.
2. `Source`: open and close on each error path; `cc_matches` and its early return.

Theorems to add: `Verified`, `Balanced` and `Counts` of each generator for every operand.

Left out for good: the wording of labels and messages, printing, `cc_debug.c`, the
byte encoding of instructions (except that an address begins with a byte that is
no opcode) and `errno`. `IR_RETURN` and `IR_POP_RESULT` are emitted by no generator.

## 6. Reproducing

`tlc -config <cfg> <module>` for a run of `PROJECT.json`; the runs listed as
violations end in a counterexample. `tlapm EvalProofs.tla`,
`tlapm CallProofs.tla`, `tlapm ResultProofs.tla`, `tlapm LazyProofs.tla`, `tlapm LazyFreed.tla`,
`tlapm HashProofs.tla`, `tlapm LeastElement.tla` and `tlapm OwnershipProofs.tla` check
the proofs.
