-------------------------------- MODULE Eval --------------------------------
(***************************************************************************)
(* The evaluator of cc_eval.c: cc_parse, ir_eval and call_terminal.        *)
(*                                                                         *)
(* ir_eval runs the compiled programs on three stacks (calls, data, lazy   *)
(* results) with a current input location, three flags, the bindings in    *)
(* scope and one error report.  A step of this specification is one turn   *)
(* of its loop.  A run parses one input with one parser, chosen in Init.   *)
(*                                                                         *)
(* Lazy results are trees: what lazy_fold, lazy_apply and the terminals    *)
(* allocate, before lazy_eval calls the user's functions.  The answer of a *)
(* run holds the tree that is handed to lazy_eval.  Failing allocations    *)
(* are left out: every one of them jumps to the cleanup at the end.        *)
(***************************************************************************)
EXTENDS StackMap

CONSTANTS
  Parsers,      \* the grammar: the parser objects by identifier
  Roots,        \* the parsers a run may start from
  Inputs,       \* the sources a run may read, sequences of characters
  WordSize,     \* the values of a data-stack word, 2^32 in the code
  MaxExpected,  \* CC_ERR_MAX_EXPECTED
  CallStackCap  \* CALL_STACK_INIT_CAP: the frames that fit before the first realloc

Ids   == DOMAIN Parsers
Words == 0 .. WordSize - 1

ASSUME EvalAssumption ==
  /\ UnrollThreshold \in Nat \ {0}
  /\ WordSize \in Nat /\ WordSize > 1
  /\ MaxExpected \in Nat
  /\ CallStackCap \in Nat \ {0}
  /\ Roots \subseteq Ids
  /\ Inputs # {}

\* p->ir of every combinator; cc_compile is a function of the parser alone.
Code == [p \in {q \in Ids : is_combinator(Parsers[q].type)} |-> cc_compile(Parsers[p])]

Null == <<"null">>
NoFailure == "none"
Undefined == "undefined parser"
BadOpcode == "undefined opcode"
NoError == [expected |-> <<>>, failure |-> NoFailure, loc |-> 0]

VARIABLES
  root, src,   \* the arguments of cc_parse
  calls,       \* call_stack: frames
  room,        \* call_stack.capacity
  data,        \* data_stack: words
  results,     \* result_stack: lazy results
  loc,         \* s->loc.byte_off
  flags,       \* s->flags
  scope,       \* s->scope: the bindings, the innermost last
  err,         \* r->err
  status,      \* "run", "done", or "aborted" by a failing assert
  answer,      \* what cc_parse returns
  missed       \* history: a terminal ran with the EOF flag set before the end

vars == <<root, src, calls, room, data, results, loc, flags, scope, err, status, answer, missed>>

-----------------------------------------------------------------------------
\* The flags of a call, kept in the frame to state what a return restores.
Entry == [noerror |-> flags.noerror, noreturn |-> flags.noreturn, loc |-> loc,
          scope |-> scope, err |-> err]

\* Mutant: the new frame takes the caller's topmost word for its own.
Frame_overlapping(p, sp, rp, entry) ==
  [parser |-> p, ip |-> 1, sp |-> IF sp > 0 THEN sp - 1 ELSE 0, rp |-> rp, loc |-> 0,
   lost |-> FALSE, entry |-> entry]

Frame(p, sp, rp, entry) ==
  [parser |-> p, ip |-> 1, sp |-> sp, rp |-> rp, loc |-> 0, lost |-> FALSE, entry |-> entry]

Running == status = "run" /\ calls # <<>>
Depth   == Len(calls)
Top     == calls[Depth]
Object  == Parsers[Top.parser]
Program == Code[Top.parser]

AtLookup   == Running /\ Object.type = "LOOKUP"
AtTerminal == Running /\ Object.type \in TerminalTypes
AtEnd      == Running /\ is_combinator(Object.type) /\ Top.ip > Len(Program)
AtInstr    == Running /\ is_combinator(Object.type) /\ Top.ip <= Len(Program) /\ ~Top.lost
AtOperand  == Running /\ is_combinator(Object.type) /\ Top.ip <= Len(Program) /\ Top.lost
Op         == Program[Top.ip].op
Arg        == Program[Top.ip].arg

Word         == data[Len(data)]
Pop(stack)   == SubSeq(stack, 1, Len(stack) - 1)
SetTop(v)    == [data EXCEPT ![Len(data)] = v]
Goto(ip)     == calls' = [calls EXCEPT ![Depth].ip = ip]
Advance      == Goto(Top.ip + 1)
Bit(b)       == IF b THEN 1 ELSE 0

-----------------------------------------------------------------------------
(* Terminals. *)

\* The EOF flag after peek_at, which sets it at the end and never clears it.
Peeked == flags.eof \/ loc >= Len(src)

OneCharTypes ==
  {"ANY", "CHAR", "CHAR_RANGE", "MATCH", "ONEOF", "ANYOF", "NONEOF"}

Accepts(p, ch) ==
  CASE p.type = "ANY"        -> TRUE
    [] p.type = "CHAR"       -> ch = p.arg
    [] p.type = "CHAR_RANGE" -> p.arg[1] <= ch /\ ch <= p.arg[2]
    [] p.type = "MATCH"      -> ch \in p.arg
    [] p.type = "ONEOF"      -> \E i \in DOMAIN p.arg :
                                  p.arg[i] = ch /\ \A j \in DOMAIN p.arg : p.arg[j] = ch => j = i
    [] p.type = "ANYOF"      -> \E i \in DOMAIN p.arg : p.arg[i] = ch
    [] p.type = "NONEOF"     -> \A i \in DOMAIN p.arg : p.arg[i] # ch

Outcome(ok, to, eof, value) == [ok |-> ok, loc |-> to, eof |-> eof, value |-> value]

match_one(p) ==
  IF ~Peeked /\ Accepts(p, src[loc + 1])
  THEN Outcome(TRUE, loc + 1, flags.eof, <<"char", src[loc + 1]>>)
  ELSE Outcome(FALSE, loc, Peeked, Null)

\* Mutant: matching the end of the input consumes it.
match_eof_advancing == Outcome(Peeked, IF Peeked THEN loc + 1 ELSE loc, Peeked, Null)

match_eof == Outcome(Peeked, loc, Peeked, Null)

\* A failing match_string restores the whole state, the EOF flag included.
match_string(str) ==
  IF str = <<>> \/ (~flags.eof /\ loc + Len(str) <= Len(src)
                      /\ SubSeq(src, loc + 1, loc + Len(str)) = str)
  THEN Outcome(TRUE, loc + Len(str), flags.eof, <<"string", str>>)
  ELSE Outcome(FALSE, loc, flags.eof, Null)

call_terminal(p) ==
  CASE p.type \in OneCharTypes -> match_one(p)
    [] p.type = "STRING"   -> match_string(p.arg)
    [] p.type = "EOF"      -> match_eof
    [] p.type = "SOF"      -> Outcome(loc = 0, loc, flags.eof, Null)
    [] p.type = "PASS"     -> Outcome(TRUE, loc, flags.eof, Null)
    [] p.type = "LOCATION" -> Outcome(TRUE, loc, flags.eof, <<"location", loc>>)
    [] p.type = "LIFT"     -> Outcome(TRUE, loc, flags.eof, <<"lift", p.arg>>)
    [] p.type = "LIFT_VAL" -> Outcome(TRUE, loc, flags.eof, <<"value", p.arg>>)
    [] p.type = "FAIL"     -> Outcome(FALSE, loc,
                                      IF flags.noerror THEN flags.eof ELSE Peeked, Null)

-----------------------------------------------------------------------------
(* The error report. *)

\* new_error: a failure message replaces whatever was reported before.
new_error(msg) ==
  IF flags.noerror THEN err ELSE [expected |-> <<>>, failure |-> msg, loc |-> loc]

\* cc_add_expected, which silently drops a label once the list is full.
cc_add_expected(e, what) ==
  IF Len(e.expected) >= MaxExpected \/ \E i \in DOMAIN e.expected : e.expected[i] = what
  THEN e ELSE [e EXCEPT !.expected = Append(@, what)]

-----------------------------------------------------------------------------
(* The bindings, as the hash table is meant to keep them: the innermost    *)
(* binding of a name hides the others.                                     *)

IsBound(name) == \E i \in DOMAIN scope : scope[i].name = name

scope_lookup(name) ==
  LET i == CHOOSE j \in DOMAIN scope :
             /\ scope[j].name = name
             /\ \A k \in DOMAIN scope : scope[k].name = name => k <= j
  IN  scope[i].p

-----------------------------------------------------------------------------
(* Returning: the code at do_return, entered with the outcome of the call  *)
(* and the two stacks as they are by then.                                 *)

ReturnAssertFails(success, ds, rs) ==
  \/ Len(ds) < Top.sp
  \/ IF flags.noreturn \/ success = PARSE_FAILURE
     THEN Len(rs) < Top.rp ELSE Len(rs) # Top.rp + 1

\* Mutant: what a failing parser has made stays on the result stack.
DoReturn_littering(success, ds, rs) ==
  /\ ~ReturnAssertFails(success, ds, rs)
  /\ results' = rs
  /\ data' = Append(SubSeq(ds, 1, Top.sp), success)
  /\ calls' = Pop(calls)

DoReturn(success, ds, rs) ==
  /\ ~ReturnAssertFails(success, ds, rs)
  /\ results' = IF flags.noreturn \/ success = PARSE_FAILURE
                THEN SubSeq(rs, 1, Top.rp) ELSE rs
  /\ data' = Append(SubSeq(ds, 1, Top.sp), success)
  /\ calls' = Pop(calls)

(***************************************************************************)
(* The asserts of the loop's body.  DataAssertFails are those about the    *)
(* data stack; the operand asserts of a jump fail on an unpatched target.  *)
(***************************************************************************)
JumpTaken ==
  CASE Op = "JUMP"            -> TRUE
    [] Op = "JUMP_IF_NONZERO" -> Word # 0
    [] Op = "JUMP_IF_SUCCESS" -> Word # PARSE_FAILURE
    [] Op = "JUMP_IF_FAILURE" -> Word = PARSE_FAILURE

DataAssertFails ==
  \/ AtInstr /\ Len(data) < Needs(Op)
  \/ AtEnd /\ (Len(data) < 1 \/ Len(data) - 1 < Top.sp)
  \/ (AtTerminal \/ AtOperand \/ (AtLookup /\ ~IsBound(Object.arg))) /\ Len(data) < Top.sp
  \/ status = "run" /\ calls = <<>> /\ Len(data) < 1

JumpAssertFails   == JumpTaken /\ Arg = Unpatched
FoldAssertFails   == ~flags.noreturn /\ Len(results) < Word
ApplyAssertFails  == Object.type # "APPLY" \/ (~flags.noreturn /\ results = <<>>)
ExpectAssertFails == Object.type # "EXPECT"
PushBindingAssertFails == Object.type # "BIND"
PopBindingAssertFails  ==
  Object.type # "BIND" \/ scope = <<>> \/ scope[Len(scope)].p # Object.arg.p

OpAssertFails ==
  \/ Op \in Jumps         /\ JumpAssertFails
  \/ Op = "FOLD"          /\ FoldAssertFails
  \/ Op = "APPLY"         /\ ApplyAssertFails
  \/ Op = "EXPECT"        /\ ExpectAssertFails
  \/ Op = "PUSH_BINDING"  /\ PushBindingAssertFails
  \/ Op = "POP_BINDING"   /\ PopBindingAssertFails

\* lazy_eval: "no result left on stack".
FinishAssertFails == Word = PARSE_SUCCESS /\ ~flags.noreturn /\ Len(results) # 1

\* The results once a terminal is through, before its frame returns.
TerminalResults(o) ==
  IF o.ok /\ ~flags.noreturn THEN Append(results, o.value) ELSE results

AssertFails ==
  \/ DataAssertFails
  \/ /\ ~DataAssertFails
     /\ \/ AtInstr /\ OpAssertFails
        \/ AtEnd /\ ReturnAssertFails(Word, Pop(data), results)
        \/ AtTerminal /\ LET o == call_terminal(Object)
                         IN  ReturnAssertFails(Bit(o.ok), data, TerminalResults(o))
        \/ AtLookup /\ ~IsBound(Object.arg) /\ ReturnAssertFails(PARSE_FAILURE, data, results)
        \/ AtOperand /\ ReturnAssertFails(PARSE_FAILURE, data, results)
        \/ calls = <<>> /\ FinishAssertFails

-----------------------------------------------------------------------------
Init ==
  /\ root \in Roots /\ src \in Inputs
  /\ loc = 0
  /\ flags = [eof |-> FALSE, noerror |-> FALSE, noreturn |-> FALSE]
  /\ scope = <<>> /\ err = NoError
  /\ calls = <<Frame(root, 0, 0, Entry)>> /\ room = CallStackCap
  /\ data = <<>> /\ results = <<>>
  /\ status = "run"
  /\ answer = [matched |-> FALSE, out |-> Null, err |-> NoError]
  /\ missed = FALSE

\* A lookup is replaced by the parser its name is bound to, in the same frame.
ResolveLookup ==
  /\ AtLookup /\ IsBound(Object.arg)
  /\ calls' = [calls EXCEPT ![Depth].parser = scope_lookup(Object.arg)]
  /\ UNCHANGED <<root, src, room, data, results, loc, flags, scope, err, status, answer, missed>>

FailLookup ==
  /\ AtLookup /\ ~IsBound(Object.arg)
  /\ DoReturn(PARSE_FAILURE, data, results)
  /\ err' = new_error(Undefined)
  /\ flags' = [flags EXCEPT !.eof = IF flags.noerror THEN @ ELSE Peeked]
  /\ UNCHANGED <<root, src, room, loc, scope, status, answer, missed>>

CallTerminal ==
  LET o == call_terminal(Object) IN
  /\ AtTerminal
  /\ DoReturn(Bit(o.ok), data, TerminalResults(o))
  /\ loc' = o.loc
  /\ flags' = [flags EXCEPT !.eof = o.eof]
  /\ err' = IF Object.type = "FAIL" THEN new_error(Object.arg) ELSE err
  /\ missed' = (missed \/ (flags.eof /\ loc < Len(src)))
  /\ UNCHANGED <<root, src, room, scope, status, answer>>

\* The end of a program returns the word on top of the stack.
ReturnFromProgram ==
  /\ AtEnd /\ Len(data) >= 1
  /\ DoReturn(Word, Pop(data), results)
  /\ UNCHANGED <<root, src, room, loc, flags, scope, err, status, answer, missed>>

-----------------------------------------------------------------------------
(* The instructions. *)

\* The data stack holds the words that op asserts to be there.
Does(op) == AtInstr /\ Op = op /\ Len(data) >= Needs(op)

OnlyData == UNCHANGED <<root, src, room, results, loc, flags, scope, err, status, answer, missed>>

Push    == Does("PUSH")      /\ data' = Append(data, Arg) /\ Advance /\ OnlyData
PopWord == Does("POP")       /\ data' = Pop(data)         /\ Advance /\ OnlyData
Dup     == Does("DUP")       /\ data' = Append(data, Word) /\ Advance /\ OnlyData
Negate  == Does("NEGATE")    /\ data' = SetTop(Bit(Word = 0)) /\ Advance /\ OnlyData
Increment == Does("INCREMENT") /\ data' = SetTop((Word + 1) % WordSize) /\ Advance /\ OnlyData
Decrement == Does("DECREMENT") /\ data' = SetTop((Word + WordSize - 1) % WordSize)
                               /\ Advance /\ OnlyData
Swap ==
  /\ Does("SWAP")
  /\ data' = [data EXCEPT ![Len(data)] = data[Len(data) - 1], ![Len(data) - 1] = Word]
  /\ Advance /\ OnlyData

SaveLocation ==
  /\ Does("SAVE_LOCATION")
  /\ calls' = [calls EXCEPT ![Depth] = [Top EXCEPT !.loc = loc, !.ip = Top.ip + 1]]
  /\ UNCHANGED data /\ OnlyData

\* Only the location goes back: the EOF flag stays as the failed attempt left it.
RestoreLocation ==
  /\ Does("RESTORE_LOCATION")
  /\ loc' = Top.loc
  /\ Advance
  /\ UNCHANGED <<root, src, room, data, results, flags, scope, err, status, answer, missed>>

SetNoreturnFlag ==
  /\ Does("SET_NORETURN")
  /\ flags' = [flags EXCEPT !.noreturn = Word # 0]
  /\ data' = SetTop(Bit(flags.noreturn))
  /\ Advance
  /\ UNCHANGED <<root, src, room, results, loc, scope, err, status, answer, missed>>

\* Mutant: the flag is set and what it was is not kept.
SetNoerrorFlag_forgetting ==
  /\ Does("SET_NOERROR")
  /\ flags' = [flags EXCEPT !.noerror = Word # 0]
  /\ Advance
  /\ UNCHANGED <<root, src, room, data, results, loc, scope, err, status, answer, missed>>

SetNoerrorFlag ==
  /\ Does("SET_NOERROR")
  /\ flags' = [flags EXCEPT !.noerror = Word # 0]
  /\ data' = SetTop(Bit(flags.noerror))
  /\ Advance
  /\ UNCHANGED <<root, src, room, results, loc, scope, err, status, answer, missed>>

(***************************************************************************)
(* frame_push reallocates a full call stack, and ir_eval then moves the ip *)
(* of the caller past the operand through a pointer into the old block.    *)
(* Where the block did not grow in place the caller's ip is lost: it stays *)
(* on the operand, the address of the called parser.                       *)
(***************************************************************************)
Call ==
  /\ Does("CALL")
  /\ room' = IF Depth = room THEN 2 * room ELSE room
  /\ \E moved \in IF Depth = room THEN BOOLEAN ELSE {FALSE} :
       calls' = Append([calls EXCEPT ![Depth] = IF moved THEN [Top EXCEPT !.lost = TRUE]
                                                ELSE [Top EXCEPT !.ip = Top.ip + 1]],
                       Frame(Arg, Len(data), Len(results), Entry))
  /\ UNCHANGED <<root, src, data, results, loc, flags, scope, err, status, answer, missed>>

\* The first byte of an address is taken for an opcode: the highest byte, as
\* ir_push_ptr writes it, which is 0 in user space and no opcode.
UndefinedOpcode ==
  /\ AtOperand
  /\ DoReturn(PARSE_FAILURE, data, results)
  /\ err' = new_error(BadOpcode)
  /\ flags' = [flags EXCEPT !.eof = IF flags.noerror THEN @ ELSE Peeked]
  /\ UNCHANGED <<root, src, room, loc, scope, status, answer, missed>>

Fold ==
  /\ Does("FOLD") /\ ~FoldAssertFails
  /\ data' = Pop(data)
  /\ results' = IF flags.noreturn THEN results
                ELSE Append(SubSeq(results, 1, Len(results) - Word),
                            <<"fold", Object.fold,
                              SubSeq(results, Len(results) - Word + 1, Len(results))>>)
  /\ Advance
  /\ UNCHANGED <<root, src, room, loc, flags, scope, err, status, answer, missed>>

Apply ==
  /\ Does("APPLY") /\ ~ApplyAssertFails
  /\ results' = IF flags.noreturn THEN results
                ELSE [results EXCEPT ![Len(results)] = <<"apply", Object.arg, @>>]
  /\ Advance
  /\ UNCHANGED <<root, src, room, data, loc, flags, scope, err, status, answer, missed>>

Expect ==
  /\ Does("EXPECT") /\ ~ExpectAssertFails
  /\ IF flags.noerror THEN UNCHANGED <<err, flags>>
     ELSE LET fresh == err.expected = <<>> IN
          /\ err' = cc_add_expected(IF fresh THEN [err EXCEPT !.loc = loc] ELSE err, Object.arg)
          /\ flags' = [flags EXCEPT !.eof = IF fresh THEN Peeked ELSE @]
  /\ Advance
  /\ UNCHANGED <<root, src, room, data, results, loc, scope, status, answer, missed>>

PushBinding ==
  /\ Does("PUSH_BINDING") /\ ~PushBindingAssertFails
  /\ scope' = Append(scope, Object.arg)
  /\ Advance
  /\ UNCHANGED <<root, src, room, data, results, loc, flags, err, status, answer, missed>>

PopBinding ==
  /\ Does("POP_BINDING") /\ ~PopBindingAssertFails
  /\ scope' = Pop(scope)
  /\ Advance
  /\ UNCHANGED <<root, src, room, data, results, loc, flags, err, status, answer, missed>>

NullResult ==
  /\ Does("NULL_RESULT")
  /\ results' = IF flags.noreturn THEN results ELSE Append(results, Null)
  /\ Advance
  /\ UNCHANGED <<root, src, room, data, loc, flags, scope, err, status, answer, missed>>

Jump ==
  /\ Does("JUMP") /\ ~JumpAssertFails
  /\ Goto(Arg)
  /\ UNCHANGED data /\ OnlyData

CondJump ==
  /\ \E op \in Jumps \ {"JUMP"} : Does(op)
  /\ ~JumpAssertFails
  /\ Goto(IF JumpTaken THEN Arg ELSE Top.ip + 1)
  /\ data' = Pop(data)
  /\ OnlyData

-----------------------------------------------------------------------------
(* The end of ir_eval and cc_parse: a success hands the one result left to *)
(* lazy_eval and drops the error report; everything else reports it.       *)

Finish ==
  /\ status = "run" /\ calls = <<>> /\ Len(data) >= 1 /\ ~FinishAssertFails
  /\ status' = "done"
  /\ answer' = [matched |-> Word = PARSE_SUCCESS,
                out     |-> IF Word = PARSE_SUCCESS /\ ~flags.noreturn THEN results[1] ELSE Null,
                err     |-> IF Word = PARSE_SUCCESS THEN NoError ELSE err]
  /\ data' = Pop(data) /\ results' = <<>> /\ scope' = <<>>
  /\ UNCHANGED <<root, src, calls, room, loc, flags, err, missed>>

Abort ==
  /\ status = "run" /\ AssertFails
  /\ status' = "aborted"
  /\ UNCHANGED <<root, src, calls, room, data, results, loc, flags, scope, err, answer, missed>>

\* cc_parse has returned, or the process is gone.
Terminated == status # "run" /\ UNCHANGED vars

Next ==
  \/ ResolveLookup \/ FailLookup \/ CallTerminal \/ ReturnFromProgram
  \/ Push \/ PopWord \/ Dup \/ Negate \/ Increment \/ Decrement \/ Swap
  \/ SaveLocation \/ RestoreLocation \/ SetNoreturnFlag \/ SetNoerrorFlag
  \/ Call \/ UndefinedOpcode \/ Fold \/ Apply \/ Expect \/ PushBinding \/ PopBinding \/ NullResult
  \/ Jump \/ CondJump \/ Finish \/ Abort \/ Terminated

Spec == Init /\ [][Next]_vars

\* ir_eval is one loop of one thread: it takes its next turn whenever it can.
FairSpec == Spec /\ WF_vars(Next)

-----------------------------------------------------------------------------
Bindings == {Parsers[p].arg : p \in {q \in Ids : Parsers[q].type = "BIND"}}
Labels   == {Parsers[p].arg : p \in {q \in Ids : Parsers[q].type = "EXPECT"}}
Failures == {NoFailure, Undefined, BadOpcode} \cup
            {Parsers[p].arg : p \in {q \in Ids : Parsers[q].type = "FAIL"}}
Reports  == [expected : Seq(Labels), failure : Failures, loc : 0 .. Len(src)]
Entries  == [noerror : BOOLEAN, noreturn : BOOLEAN, loc : 0 .. Len(src),
             scope : Seq(Bindings), err : Reports]
Frames   == [parser : Ids, ip : Nat, sp : Nat, rp : Nat, loc : 0 .. Len(src),
             lost : BOOLEAN, entry : Entries]

\* The shape of the state: the stacks of ir_eval hold what their C types say,
\* and no location lies behind the end of the source.
TypeOK ==
  /\ root \in Roots /\ src \in Inputs
  /\ calls \in Seq(Frames) /\ room \in Nat
  /\ data \in Seq(Words)
  /\ results \in Seq(Range(results))
  /\ loc \in 0 .. Len(src)
  /\ flags \in [eof : BOOLEAN, noerror : BOOLEAN, noreturn : BOOLEAN]
  /\ scope \in Seq(Bindings)
  /\ err \in Reports
  /\ status \in {"run", "done", "aborted"}
  /\ answer.matched \in BOOLEAN /\ answer.err \in Reports
  /\ missed \in BOOLEAN

\* No assert of ir_eval, data_pop or do_return about the data stack can fail
\* (cc_eval.c:381, 685-732, 751, 900): every program finds the words it pops,
\* and never reaches below the stack pointer of its frame.
DataStackSafe == ~DataAssertFails
=============================================================================
