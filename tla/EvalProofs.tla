----------------------------- MODULE EvalProofs -----------------------------
(***************************************************************************)
(* Proofs about the evaluator, for every grammar and every input: the type *)
(* invariant, and the safety of the data stack.                            *)
(*                                                                         *)
(* The argument is that of a bytecode verifier.  StackMap bounds from      *)
(* below what a program has on the data stack at each of its instructions; *)
(* CodeVerified says that the programs of the grammar pass that check.     *)
(* The invariant carries the bounds through calls and returns: the words   *)
(* of a frame lie below the stack pointer of the frame it called, all but  *)
(* one, which the call leaves behind when it returns.                      *)
(***************************************************************************)
EXTENDS Eval, LeastElement, SequenceTheorems, TLAPS

Height == [p \in DOMAIN Code |-> HeightOf(Code[p])]

\* What the constructors of Parsers establish of the objects they build.
ASSUME GrammarWellFormed ==
  /\ \A p \in Ids : /\ Parsers[p].type \in CombinatorTypes \cup TerminalTypes \cup {"LOOKUP"}
                    /\ Parsers[p].type = "BIND" => Parsers[p].arg.p \in Ids
                    /\ Parsers[p].type = "STRING" => Len(Parsers[p].arg) \in Nat
  /\ \A s \in Inputs : Len(s) \in Nat

\* The programs of the grammar use the data stack as StackMap asks.
ASSUME CodeVerified ==
  \A p \in DOMAIN Code : Verified(Parsers[p].type, Code[p], Height[p], Ids, Words)

\* The words a frame may count on, and where it may stand.
Owned(f) ==
  IF is_combinator(Parsers[f.parser].type) THEN Height[f.parser][f.ip] ELSE 0

Standing(f) ==
  IF is_combinator(Parsers[f.parser].type) THEN f.ip \in Points(Code[f.parser]) ELSE f.ip = 1

FramesStand == \A i \in 1 .. Len(calls) : Standing(calls[i])

CallersOwn ==
  \A i \in 1 .. Len(calls) - 1 :
    /\ is_combinator(Parsers[calls[i].parser].type)
    /\ calls[i].sp + Owned(calls[i]) <= calls[i + 1].sp + 1

TopOwns ==
  IF calls = <<>> THEN Len(data) >= 1 ELSE Top.sp + Owned(Top) <= Len(data)

\* While a parse runs, every frame stands at an instruction of its program and
\* owns at least the words StackMap counts there; what a caller owns lies below
\* the stack pointer of the frame it called, but for the one word that do_return
\* will push (cc_eval.c:750-769).  No path through a program, calls and failing
\* calls included, can break another program's words.
StackInv == status = "run" => FramesStand /\ CallersOwn /\ TopOwns

IInv == TypeOK /\ StackInv

-----------------------------------------------------------------------------
(* Sequences. *)

LEMMA SelfTyped ==
  ASSUME NEW S, NEW s \in Seq(S)
  PROVE  s \in Seq(Range(s))
  <1>1. s \in [1 .. Len(s) -> Range(s)]
    BY LenProperties DEF Range
  <1> QED
    BY <1>1, LenProperties, SeqDef

\* The first n elements of a sequence.
LEMMA PrefixIs ==
  ASSUME NEW S, NEW s \in Seq(S), NEW n \in 0 .. Len(s)
  PROVE  /\ SubSeq(s, 1, n) \in Seq(S)
         /\ Len(SubSeq(s, 1, n)) = n
         /\ \A i \in 1 .. n : SubSeq(s, 1, n)[i] = s[i]
  <1>1. Len(s) \in Nat /\ \A i \in 1 .. n : s[i] \in S
    BY LenProperties, ElementOfSeq
  <1> QED
    BY <1>1, SubSeqProperties

LEMMA PopIs ==
  ASSUME NEW S, NEW s \in Seq(S)
  PROVE  /\ Pop(s) \in Seq(S)
         /\ s # <<>> => /\ Len(s) >= 1
                        /\ Len(Pop(s)) = Len(s) - 1
                        /\ \A i \in 1 .. Len(s) - 1 : Pop(s)[i] = s[i]
  <1>1. CASE s = <<>>
    <2>1. Pop(s) = <<>>
      BY <1>1, SubSeqEmpty, EmptySeq DEF Pop
    <2> QED
      BY <1>1, <2>1, EmptySeq
  <1>2. CASE s # <<>>
    <2>1. Len(s) \in Nat \ {0}
      BY <1>2, EmptySeq
    <2>2. Len(s) - 1 \in 0 .. Len(s)
      BY <2>1
    <2>3. /\ Pop(s) \in Seq(S)
          /\ Len(Pop(s)) = Len(s) - 1
          /\ \A i \in 1 .. Len(s) - 1 : Pop(s)[i] = s[i]
      BY <2>2, PrefixIs DEF Pop
    <2> QED
      BY <2>1, <2>3
  <1> QED
    BY <1>1, <1>2

-----------------------------------------------------------------------------
(* What the invariant says of the running frame. *)

LEMMA LenIsNat ==
  ASSUME NEW S, NEW s \in Seq(S)
  PROVE  Len(s) \in Nat
  BY LenProperties

LEMMA TopIs ==
  ASSUME IInv, Running
  PROVE  /\ Depth \in Nat \ {0} /\ Depth \in 1 .. Len(calls)
         /\ Top \in Frames
         /\ Top.parser \in Ids /\ Top.ip \in Nat /\ Top.sp \in Nat /\ Top.rp \in Nat
         /\ Top.loc \in 0 .. Len(src)
         /\ FramesStand /\ CallersOwn
         /\ Standing(Top)
         /\ Top.sp + Owned(Top) <= Len(data)
  <1>1. calls \in Seq(Frames) /\ calls # <<>> /\ status = "run"
    BY DEF IInv, TypeOK, Running
  <1>2. Depth \in Nat \ {0} /\ Depth \in 1 .. Len(calls)
    BY <1>1, EmptySeq DEF Depth
  <1>3. Top \in Frames
    BY <1>1, <1>2, ElementOfSeq DEF Top
  <1>4. /\ Top.parser \in Ids /\ Top.ip \in Nat /\ Top.sp \in Nat /\ Top.rp \in Nat
        /\ Top.loc \in 0 .. Len(src)
    BY <1>3 DEF Frames
  <1>5. FramesStand /\ CallersOwn /\ TopOwns
    BY <1>1 DEF IInv, StackInv
  <1>6. Standing(Top)
    BY <1>2, <1>5 DEF FramesStand, Top
  <1>7. Top.sp + Owned(Top) <= Len(data)
    BY <1>1, <1>5 DEF TopOwns
  <1> QED
    BY <1>2, <1>3, <1>4, <1>5, <1>6, <1>7

\* The verifier's view of the instruction that is about to run.
LEMMA InstrIs ==
  ASSUME IInv, AtInstr
  PROVE  /\ Top.parser \in DOMAIN Code
         /\ Len(Program) \in Nat /\ DOMAIN Program = 1 .. Len(Program)
         /\ Top.ip \in DOMAIN Program
         /\ OperandFits(Object.type, Program[Top.ip], Ids, Words, Points(Program))
         /\ Height[Top.parser] \in [Points(Program) -> Nat]
         /\ Needs(Op) <= Owned(Top) /\ Owned(Top) \in Nat
         /\ \A k \in Succ(Program, Top.ip) :
              Height[Top.parser][k] <= Owned(Top) + Delta(Op)
  <1>0. Running /\ is_combinator(Object.type) /\ Top.ip <= Len(Program)
    BY DEF AtInstr
  <1>1. Top.parser \in Ids /\ Top.ip \in Nat /\ Standing(Top)
    BY <1>0, TopIs
  <1>2. Top.parser \in DOMAIN Code
    BY <1>0, <1>1 DEF Code, Object
  <1>3. Verified(Object.type, Program, Height[Top.parser], Ids, Words)
    BY <1>2, CodeVerified DEF Object, Program
  <1>4. Owned(Top) = Height[Top.parser][Top.ip] /\ Top.ip \in Points(Program)
    BY <1>0, <1>1 DEF Owned, Standing, Object, Program
  <1>5. /\ Len(Program) \in Nat /\ DOMAIN Program = 1 .. Len(Program)
        /\ Height[Top.parser] \in [Points(Program) -> Nat]
    BY <1>3 DEF Verified
  <1>6. Top.ip \in DOMAIN Program
    BY <1>0, <1>4, <1>5 DEF Points
  <1>7. OperandFits(Object.type, Program[Top.ip], Ids, Words, Points(Program))
    BY <1>3, <1>6 DEF Verified
  <1>8. /\ Needs(Program[Top.ip].op) <= Height[Top.parser][Top.ip]
        /\ \A k \in Succ(Program, Top.ip) :
             Height[Top.parser][k] <= Height[Top.parser][Top.ip] + Delta(Program[Top.ip].op)
    BY <1>3, <1>6 DEF Verified
  <1>9. Owned(Top) \in Nat
    BY <1>4, <1>5
  <1> QED
    BY <1>2, <1>4, <1>5, <1>6, <1>7, <1>8, <1>9 DEF Op

\* An instruction has the words it needs.
LEMMA WordsAreThere ==
  ASSUME IInv, AtInstr
  PROVE  /\ Len(data) \in Nat /\ Needs(Op) <= Len(data)
         /\ Needs(Op) >= 1 => Word \in Words /\ Len(data) \in 1 .. Len(data)
  <1>0. Running
    BY DEF AtInstr
  <1>1. Top.sp \in Nat /\ Top.sp + Owned(Top) <= Len(data)
    BY <1>0, TopIs
  <1>2. Needs(Op) <= Owned(Top) /\ Owned(Top) \in Nat
    BY InstrIs
  <1>3. data \in Seq(Words) /\ Len(data) \in Nat
    BY LenIsNat DEF IInv, TypeOK
  <1>4. Needs(Op) \in Nat
    BY DEF Needs
  <1>5. Needs(Op) <= Len(data)
    BY <1>1, <1>2, <1>3, <1>4
  <1>6. Needs(Op) >= 1 => Len(data) \in 1 .. Len(data)
    BY <1>3, <1>4, <1>5
  <1>7. Needs(Op) >= 1 => Word \in Words
    BY <1>3, <1>6, ElementOfSeq DEF Word
  <1> QED
    BY <1>3, <1>5, <1>6, <1>7

-----------------------------------------------------------------------------
(* Every action keeps the types. *)

LEMMA WordArithmetic ==
  /\ \A b : Bit(b) \in Words
  /\ PARSE_FAILURE \in Words /\ PARSE_SUCCESS \in Words
  /\ \A w \in Words : /\ (w + 1) % WordSize \in Words
                      /\ (w + WordSize - 1) % WordSize \in Words
  <1>1. WordSize \in Nat /\ WordSize > 1
    BY EvalAssumption
  <1>2. /\ \A b : Bit(b) \in Words
        /\ PARSE_FAILURE \in Words /\ PARSE_SUCCESS \in Words
    BY <1>1 DEF Bit, Words, PARSE_FAILURE, PARSE_SUCCESS
  <1>3. \A n \in Nat : n % WordSize \in Words
    BY <1>1 DEF Words
  <1>4. \A w \in Words : w + 1 \in Nat /\ w + WordSize - 1 \in Nat
    BY <1>1 DEF Words
  <1> QED
    BY <1>2, <1>3, <1>4

LEMMA GotoTyped ==
  ASSUME IInv, Running, NEW n \in Nat
  PROVE  /\ [calls EXCEPT ![Depth].ip = n] \in Seq(Frames)
         /\ [calls EXCEPT ![Depth].ip = n] = [calls EXCEPT ![Depth] = [Top EXCEPT !.ip = n]]
  <1>1. Depth \in 1 .. Len(calls) /\ Top \in Frames /\ calls \in Seq(Frames)
    BY TopIs DEF IInv, TypeOK
  <1>2. [Top EXCEPT !.ip = n] \in Frames
    BY <1>1 DEF Frames
  <1>3. [calls EXCEPT ![Depth].ip = n] = [calls EXCEPT ![Depth] = [Top EXCEPT !.ip = n]]
    BY <1>1 DEF Top
  <1> QED
    BY <1>1, <1>2, <1>3, ExceptSeq

LEMMA SetTopTyped ==
  ASSUME IInv, AtInstr, Needs(Op) >= 1, NEW w \in Words
  PROVE  SetTop(w) \in Seq(Words) /\ Len(SetTop(w)) = Len(data)
  <1>1. data \in Seq(Words) /\ Len(data) \in 1 .. Len(data)
    BY WordsAreThere DEF IInv, TypeOK
  <1> QED
    BY <1>1, ExceptSeq DEF SetTop

\* The types of what a state keeps that its successor keeps as well.
SameSource == root' = root /\ src' = src

LEMMA SameTypes ==
  ASSUME SameSource
  PROVE  Reports' = Reports /\ Entries' = Entries /\ Frames' = Frames
  BY DEF SameSource, Reports, Entries, Frames

\* No terminal goes back.
Typed(o) == o.ok \in BOOLEAN /\ o.loc \in loc .. Len(src) /\ o.eof \in BOOLEAN

LEMMA TerminalTyped ==
  ASSUME IInv, AtTerminal
  PROVE  Typed(call_terminal(Object))
  <1> DEFINE o == call_terminal(Object)
  <1>1. /\ Object = Parsers[Top.parser] /\ Top.parser \in Ids
        /\ Object.type \in TerminalTypes
        /\ loc \in 0 .. Len(src) /\ flags.eof \in BOOLEAN
    BY TopIs DEF AtTerminal, Object, IInv, TypeOK
  <1>2. Len(src) \in Nat /\ Peeked \in BOOLEAN /\ loc \in loc .. Len(src)
    BY <1>1, GrammarWellFormed DEF IInv, TypeOK, Peeked
  <1>3. \A ok, eof \in BOOLEAN : \A to \in loc .. Len(src) : \A v : Typed(Outcome(ok, to, eof, v))
    BY DEF Outcome, Typed
  <1>4. CASE Object.type \in OneCharTypes
    <2>1. Object.type \notin {"STRING", "EOF", "SOF", "PASS", "LOCATION", "LIFT", "LIFT_VAL", "FAIL"}
      BY <1>4 DEF OneCharTypes
    <2>2. o = match_one(Object)
      BY <1>4, <2>1 DEF call_terminal
    <2>3. CASE ~Peeked /\ Accepts(Object, src[loc + 1])
      <3>1. loc + 1 \in loc .. Len(src)
        BY <1>1, <1>2, <2>3 DEF Peeked
      <3>2. o = Outcome(TRUE, loc + 1, flags.eof, <<"char", src[loc + 1]>>)
        BY <2>2, <2>3 DEF match_one
      <3> QED
        BY <1>1, <1>3, <3>1, <3>2
    <2>4. CASE ~(~Peeked /\ Accepts(Object, src[loc + 1]))
      <3>1. o = Outcome(FALSE, loc, Peeked, Null)
        BY <2>2, <2>4 DEF match_one
      <3> QED
        BY <1>1, <1>2, <1>3, <3>1
    <2> QED
      BY <2>3, <2>4
  <1>5. CASE Object.type = "STRING"
    <2> DEFINE str == Object.arg
    <2>1. o = match_string(str)
      BY <1>5 DEF call_terminal, OneCharTypes
    <2>2. Len(str) \in Nat /\ (str = <<>> => Len(str) = 0)
      BY <1>1, <1>5, GrammarWellFormed, EmptySeq
    <2>3. \/ o = Outcome(FALSE, loc, flags.eof, Null)
          \/ /\ str = <<>> \/ loc + Len(str) <= Len(src)
             /\ o = Outcome(TRUE, loc + Len(str), flags.eof, <<"string", str>>)
      BY <2>1 DEF match_string
    <2>4. str = <<>> \/ loc + Len(str) <= Len(src) => loc + Len(str) \in loc .. Len(src)
      BY <1>1, <1>2, <2>2
    <2> QED
      BY <1>1, <1>2, <1>3, <2>3, <2>4
  <1>6. CASE Object.type = "EOF"
    <2>1. o = Outcome(Peeked, loc, Peeked, Null)
      BY <1>6 DEF call_terminal, OneCharTypes, match_eof
    <2> QED
      BY <1>1, <1>2, <1>3, <2>1
  <1>7. CASE Object.type = "SOF"
    <2>1. \E ok \in BOOLEAN : o = Outcome(ok, loc, flags.eof, Null)
      BY <1>7 DEF call_terminal, OneCharTypes
    <2> QED
      BY <1>1, <1>2, <1>3, <2>1
  <1>8. CASE Object.type \in {"PASS", "LOCATION", "LIFT", "LIFT_VAL"}
    <2>1. \E v : o = Outcome(TRUE, loc, flags.eof, v)
      BY <1>8 DEF call_terminal, OneCharTypes
    <2> QED
      BY <1>1, <1>2, <1>3, <2>1
  <1>9. CASE Object.type = "FAIL"
    <2>1. o = Outcome(FALSE, loc, IF flags.noerror THEN flags.eof ELSE Peeked, Null)
      BY <1>9 DEF call_terminal, OneCharTypes
    <2>2. (IF flags.noerror THEN flags.eof ELSE Peeked) \in BOOLEAN
      BY <1>1, <1>2
    <2> QED
      BY <1>1, <1>2, <1>3, <2>1, <2>2
  <1> QED
    BY <1>1, <1>4, <1>5, <1>6, <1>7, <1>8, <1>9 DEF TerminalTypes, OneCharTypes

LEMMA ReportTyped ==
  ASSUME TypeOK
  PROVE  /\ NoError \in Reports
         /\ \A msg \in Failures : new_error(msg) \in Reports
         /\ \A what \in Labels : \A e \in Reports : cc_add_expected(e, what) \in Reports
         /\ Entry \in Entries
  <1>1. /\ loc \in 0 .. Len(src) /\ err \in Reports /\ scope \in Seq(Bindings)
        /\ flags \in [eof : BOOLEAN, noerror : BOOLEAN, noreturn : BOOLEAN]
        /\ 0 \in 0 .. Len(src)
    BY GrammarWellFormed DEF TypeOK
  <1> <<>> \in Seq(Labels)
    BY EmptySeq
  <1> NoFailure \in Failures
    BY DEF Failures
  <1>2. NoError \in Reports
    BY <1>1 DEF NoError, Reports
  <1>3. ASSUME NEW msg \in Failures PROVE new_error(msg) \in Reports
    BY <1>1 DEF new_error, Reports
  <1>4. ASSUME NEW what \in Labels, NEW e \in Reports
        PROVE  cc_add_expected(e, what) \in Reports
    <2>1. Append(e.expected, what) \in Seq(Labels)
      BY AppendProperties DEF Reports
    <2>2. [e EXCEPT !.expected = Append(@, what)] \in Reports
      BY <2>1 DEF Reports
    <2> QED
      BY <2>2 DEF cc_add_expected
  <1>5. Entry \in Entries
    BY <1>1 DEF Entry, Entries
  <1> QED
    BY <1>2, <1>3, <1>4, <1>5

\* The innermost binding of a bound name exists.
LEMMA LookupIsBinding ==
  ASSUME TypeOK, NEW name, IsBound(name)
  PROVE  \E i \in 1 .. Len(scope) : scope_lookup(name) = scope[i].p
  <1> DEFINE Names(j) == scope[j].name = name
             Innermost(j)  == Names(j) /\ \A k \in DOMAIN scope : Names(k) => k <= j
             T == {Len(scope) - j : j \in {k \in DOMAIN scope : Names(k)}}
  <1>1. scope \in Seq(Bindings) /\ Len(scope) \in Nat /\ DOMAIN scope = 1 .. Len(scope)
    BY LenProperties DEF TypeOK
  <1>2. T \subseteq Nat /\ T # {}
    BY <1>1 DEF IsBound
  <1>3. PICK x \in T : \A y \in T : x <= y
    BY <1>2, LeastNat
  <1>4. PICK j \in DOMAIN scope : Names(j) /\ x = Len(scope) - j
    BY <1>3
  <1>5. ASSUME NEW k \in DOMAIN scope, Names(k)
        PROVE  k <= j
    <2>1. Len(scope) - k \in T
      BY <1>5
    <2>2. x <= Len(scope) - k
      BY <1>3, <2>1
    <2> QED
      BY <1>1, <1>4, <2>2
  <1> DEFINE i == CHOOSE k \in DOMAIN scope : Innermost(k)
  <1>6. i \in DOMAIN scope
    BY <1>4, <1>5
  <1> QED
    BY <1>1, <1>6 DEF scope_lookup

LEMMA LookupTyped ==
  ASSUME TypeOK, NEW name, IsBound(name)
  PROVE  scope_lookup(name) \in Ids
  <1>1. PICK i \in 1 .. Len(scope) : scope_lookup(name) = scope[i].p
    BY LookupIsBinding
  <1>2. scope[i] \in Bindings
    BY ElementOfSeq DEF TypeOK
  <1> QED
    BY <1>1, <1>2, GrammarWellFormed DEF Bindings

-----------------------------------------------------------------------------
(* Returning from a call. *)

LEMMA AppendTyped ==
  ASSUME NEW S, NEW s \in Seq(S), NEW v
  PROVE  Append(s, v) \in Seq(Range(Append(s, v)))
  <1>1. s \in Seq(S \cup {v})
    BY SeqMonotonic
  <1>2. Append(s, v) \in Seq(S \cup {v})
    BY <1>1, AppendProperties
  <1> QED
    BY <1>2, SelfTyped

\* The caller goes on with its own words and the outcome on top of them.
LEMMA ReturnIs ==
  ASSUME IInv, Running, SameSource, status' = status,
         NEW success \in Words, NEW ds \in Seq(Words), NEW rs, rs \in Seq(Range(rs)),
         DoReturn(success, ds, rs)
  PROVE  /\ calls' \in Seq(Frames') /\ data' \in Seq(Words)
         /\ results' \in Seq(Range(results'))
         /\ StackInv'
  <1>1. /\ Depth \in Nat \ {0} /\ Top \in Frames /\ Top.sp \in Nat /\ Top.rp \in Nat
        /\ FramesStand /\ CallersOwn
    BY TopIs
  <1>2. calls \in Seq(Frames) /\ calls # <<>>
    BY DEF IInv, TypeOK, Running
  <1>3. Frames' = Frames
    BY SameTypes
  <1>4. /\ calls' \in Seq(Frames) /\ Len(calls') = Depth - 1
        /\ \A i \in 1 .. Depth - 1 : calls'[i] = calls[i]
    BY <1>2, PopIs DEF DoReturn, Depth
  <1>5. Len(ds) \in Nat /\ Top.sp \in 0 .. Len(ds)
    <2>1. Len(ds) \in Nat /\ ~(Len(ds) < Top.sp)
      BY LenIsNat DEF DoReturn, ReturnAssertFails
    <2> QED
      BY <1>1, <2>1
  <1>6. data' \in Seq(Words) /\ Len(data') = Top.sp + 1
    <2>1. SubSeq(ds, 1, Top.sp) \in Seq(Words) /\ Len(SubSeq(ds, 1, Top.sp)) = Top.sp
      BY <1>5, PrefixIs
    <2> QED
      BY <2>1, AppendProperties DEF DoReturn
  <1>7. results' \in Seq(Range(results'))
    <2>1. CASE results' = rs
      BY <2>1
    <2>2. CASE flags.noreturn \/ success = PARSE_FAILURE
      <3>1. results' = SubSeq(rs, 1, Top.rp) /\ ~(Len(rs) < Top.rp)
        BY <2>2 DEF DoReturn, ReturnAssertFails
      <3>2. Top.rp \in 0 .. Len(rs)
        BY <1>1, <3>1, LenIsNat
      <3>3. results' \in Seq(Range(rs))
        BY <3>1, <3>2, PrefixIs
      <3> QED
        BY <3>3, SelfTyped
    <2> QED
      BY <2>1, <2>2 DEF DoReturn
  <1>8. StackInv'
    <2>1. FramesStand'
      BY <1>1, <1>4 DEF FramesStand, Depth
    <2>2. CallersOwn'
      BY <1>1, <1>4 DEF CallersOwn, Depth
    <2>3. CASE calls' = <<>>
      BY <1>1, <1>6, <2>1, <2>2, <2>3 DEF StackInv, TopOwns
    <2>4. CASE calls' # <<>>
      <3>1. Depth - 1 \in 1 .. Depth - 1 /\ Depth' = Depth - 1 /\ Top' = calls[Depth - 1]
        BY <1>1, <1>4, <2>4, EmptySeq DEF Depth, Top
      <3>2. Top'.sp + Owned(Top') <= Top.sp + 1
        BY <1>1, <3>1 DEF CallersOwn, Depth, Top
      <3>3. TopOwns'
        BY <1>6, <2>4, <3>2 DEF TopOwns
      <3> QED
        BY <2>1, <2>2, <3>3 DEF StackInv
    <2> QED
      BY <2>3, <2>4
  <1> QED
    BY <1>3, <1>4, <1>6, <1>7, <1>8

\* A frame at the start of a parser owns nothing yet.
LEMMA FreshFrame ==
  ASSUME NEW f, f.parser \in Ids, f.ip = 1
  PROVE  Standing(f) /\ Owned(f) = 0
  <1>1. CASE is_combinator(Parsers[f.parser].type)
    <2>1. f.parser \in DOMAIN Code
      BY <1>1 DEF Code
    <2>2. /\ Len(Code[f.parser]) \in Nat
          /\ Height[f.parser][1] = 0
      BY <2>1, CodeVerified DEF Verified
    <2> QED
      BY <1>1, <2>2 DEF Standing, Owned, Points
  <1>2. CASE ~is_combinator(Parsers[f.parser].type)
    BY <1>2 DEF Standing, Owned
  <1> QED
    BY <1>1, <1>2

-----------------------------------------------------------------------------
(* Taking an instruction. *)

LEMMA SuccessorsArePoints ==
  ASSUME IInv, AtInstr, NEW n \in Succ(Program, Top.ip)
  PROVE  n \in Points(Program) /\ n \in Nat
  <1>1. /\ Top.ip \in 1 .. Len(Program) /\ Len(Program) \in Nat
        /\ OperandFits(Object.type, Program[Top.ip], Ids, Words, Points(Program))
    BY InstrIs
  <1>2. Top.ip + 1 \in Points(Program)
    BY <1>1 DEF Points
  <1>3. Program[Top.ip].op \in Jumps => Program[Top.ip].arg \in Points(Program)
    BY <1>1 DEF OperandFits
  <1>4. n \in Points(Program)
    BY <1>2, <1>3 DEF Succ
  <1> QED
    BY <1>1, <1>4 DEF Points

\* A frame that moves on inside its program, with the words StackMap counts.
LEMMA StepKeepsStack ==
  ASSUME IInv, AtInstr, status' = status, NEW n \in Succ(Program, Top.ip),
         NEW f \in Frames, f.parser = Top.parser, f.sp = Top.sp, f.ip = n,
         calls' = [calls EXCEPT ![Depth] = f],
         data' \in Seq(Words), Len(data') = Len(data) + Delta(Op)
  PROVE  StackInv'
  <1>0. Running /\ is_combinator(Object.type)
    BY DEF AtInstr
  <1>1. /\ Depth \in Nat \ {0} /\ Depth \in 1 .. Len(calls) /\ Top \in Frames
        /\ FramesStand /\ CallersOwn /\ Top.sp + Owned(Top) <= Len(data)
        /\ Top.sp \in Nat /\ calls \in Seq(Frames)
    BY <1>0, TopIs DEF IInv, TypeOK
  <1>2. n \in Points(Program) /\ n \in Nat
    BY SuccessorsArePoints
  <1>4. /\ Len(calls') = Depth /\ Depth' = Depth /\ Top' = f
        /\ \A i \in 1 .. Depth - 1 : calls'[i] = calls[i]
        /\ calls'[Depth] = f
    <2> DEFINE updated == [calls EXCEPT ![Depth] = f]
    <2>1. /\ Len(updated) = Len(calls)
          /\ \A i \in 1 .. Len(calls) : updated[i] = IF i = Depth THEN f ELSE calls[i]
      BY <1>1, ExceptSeq
    <2> HIDE DEF updated
    <2>2. calls' = updated
      BY DEF updated
    <2>3. /\ Len(calls') = Depth
          /\ \A i \in 1 .. Depth : calls'[i] = IF i = Depth THEN f ELSE calls[i]
      BY <2>1, <2>2 DEF Depth
    <2>4. Depth' = Depth /\ Top' = calls'[Depth]
      BY <2>3 DEF Depth, Top
    <2> QED
      BY <1>1, <2>3, <2>4
  <1>5. Standing(f) /\ Owned(f) = Height[Top.parser][n]
    <2>1. /\ f.parser = Top.parser /\ f.ip = n
          /\ is_combinator(Parsers[f.parser].type) /\ f.ip \in Points(Code[f.parser])
      BY <1>0, <1>2 DEF Object, Program
    <2> QED
      BY <2>1 DEF Standing, Owned
  <1>6. FramesStand'
    <2>1. ASSUME NEW i \in 1 .. Depth PROVE Standing(calls'[i])
      <3>1. CASE i = Depth
        BY <1>4, <1>5, <3>1
      <3>2. CASE i # Depth
        <4>1. i \in 1 .. Depth - 1 /\ i \in 1 .. Len(calls)
          BY <1>1, <3>2 DEF Depth
        <4>2. calls'[i] = calls[i]
          BY <1>4, <4>1
        <4>3. Standing(calls[i])
          BY <1>1, <4>1 DEF FramesStand
        <4> QED
          BY <4>2, <4>3
      <3> QED
        BY <3>1, <3>2
    <2> QED
      BY <1>4, <2>1 DEF FramesStand
  <1>7. CallersOwn'
    <2>1. ASSUME NEW i \in 1 .. Depth - 1
          PROVE  /\ is_combinator(Parsers[calls'[i].parser].type)
                 /\ calls'[i].sp + Owned(calls'[i]) <= calls'[i + 1].sp + 1
      <3>1. /\ is_combinator(Parsers[calls[i].parser].type)
            /\ calls[i].sp + Owned(calls[i]) <= calls[i + 1].sp + 1
        BY <1>1 DEF CallersOwn, Depth
      <3>2. calls'[i] = calls[i] /\ calls'[i + 1].sp = calls[i + 1].sp
        BY <1>1, <1>4 DEF Top
      <3> QED
        BY <3>1, <3>2
    <2> QED
      BY <1>4, <2>1 DEF CallersOwn
  <1>8. TopOwns'
    <2>1. Owned(f) <= Owned(Top) + Delta(Op) /\ Owned(Top) \in Nat /\ Owned(f) \in Nat
      BY <1>2, <1>5, InstrIs
    <2>2. Delta(Op) \in Int
      BY DEF Delta
    <2>3. Len(data) \in Nat
      BY LenIsNat DEF IInv, TypeOK
    <2>4. f.sp + Owned(f) <= Len(data')
      BY <1>1, <2>1, <2>2, <2>3
    <2>5. calls' # <<>>
      BY <1>1, <1>4, EmptySeq
    <2> QED
      BY <1>4, <2>4, <2>5 DEF TopOwns
  <1> QED
    BY <1>6, <1>7, <1>8 DEF StackInv

LEMMA GotoKeepsStack ==
  ASSUME IInv, AtInstr, SameSource, status' = status, NEW n \in Succ(Program, Top.ip), Goto(n),
         data' \in Seq(Words), Len(data') = Len(data) + Delta(Op)
  PROVE  calls' \in Seq(Frames') /\ StackInv'
  <1> DEFINE f == [Top EXCEPT !.ip = n]
  <1>1. Running /\ Top \in Frames /\ n \in Nat
    BY TopIs, SuccessorsArePoints DEF AtInstr
  <1>2. calls' = [calls EXCEPT ![Depth] = f] /\ calls' \in Seq(Frames)
    BY <1>1, GotoTyped DEF Goto
  <1>3. f \in Frames /\ f.parser = Top.parser /\ f.sp = Top.sp /\ f.ip = n
    BY <1>1 DEF Frames
  <1>4. StackInv'
    <2> HIDE DEF f
    <2> QED
      BY <1>2, <1>3, StepKeepsStack
  <1> QED
    BY <1>2, <1>4, SameTypes

\* What every instruction but a jump does to the frame.
LEMMA AdvanceIs ==
  ASSUME IInv, AtInstr, SameSource, status' = status, Op # "JUMP", Advance,
         data' \in Seq(Words), Len(data') = Len(data) + Delta(Op)
  PROVE  calls' \in Seq(Frames') /\ StackInv'
  <1>1. Top.ip + 1 \in Succ(Program, Top.ip)
    BY DEF Succ, Op
  <1> QED
    BY <1>1, GotoKeepsStack DEF Advance

\* An instruction that leaves everything but the two stacks alone.
LEMMA OnlyDataKeeps ==
  ASSUME IInv, OnlyData, calls' \in Seq(Frames'), data' \in Seq(Words)
  PROVE  TypeOK'
  <1>1. SameSource
    BY DEF OnlyData, SameSource
  <1>2. Reports' = Reports
    BY <1>1, SameTypes
  <1> QED
    BY <1>1, <1>2 DEF IInv, TypeOK, OnlyData, SameSource

-----------------------------------------------------------------------------
(* The invariant is inductive. *)

LEMMA InitInv == Init => IInv
  <1> SUFFICES ASSUME Init PROVE IInv
    OBVIOUS
  <1>1. /\ root \in Ids /\ root \in Roots /\ src \in Inputs /\ Len(src) \in Nat
        /\ loc = 0 /\ loc \in 0 .. Len(src)
        /\ flags \in [eof : BOOLEAN, noerror : BOOLEAN, noreturn : BOOLEAN]
    BY EvalAssumption, GrammarWellFormed DEF Init
  <1>2. /\ data = <<>> /\ results = <<>> /\ scope = <<>>
        /\ data \in Seq(Words) /\ results \in Seq(Range(results)) /\ scope \in Seq(Bindings)
    BY EmptySeq DEF Init
  <1>3. NoError \in Reports
    <2>1. <<>> \in Seq(Labels) /\ NoFailure \in Failures
      BY EmptySeq DEF Failures
    <2> QED
      BY <1>1, <2>1 DEF NoError, Reports
  <1>4. err \in Reports
    BY <1>3 DEF Init
  <1> DEFINE f == Frame(root, 0, 0, Entry)
  <1>5. Entry \in Entries
    BY <1>1, <1>2, <1>4 DEF Entry, Entries
  <1>6. f \in Frames /\ f.parser = root /\ f.ip = 1 /\ f.sp = 0
    BY <1>1, <1>5 DEF Frame, Frames
  <1>7. calls = <<f>> /\ calls \in Seq(Frames) /\ Len(calls) = 1 /\ calls[1] = f
    BY <1>6 DEF Init
  <1>8. TypeOK
    BY <1>1, <1>2, <1>3, <1>4, <1>7, EvalAssumption DEF TypeOK, Init
  <1>9. Standing(f) /\ Owned(f) = 0
    BY <1>1, <1>6, FreshFrame
  <1>10. StackInv
    BY <1>2, <1>6, <1>7, <1>9, EmptySeq DEF StackInv, FramesStand, CallersOwn, TopOwns, Top, Depth
  <1> QED
    BY <1>8, <1>10 DEF IInv

\* An instruction that advances with the words StackMap counts, and touches
\* nothing else.
LEMMA DataStep ==
  ASSUME IInv, AtInstr, Op # "JUMP", Advance, OnlyData,
         data' \in Seq(Words), Len(data') = Len(data) + Delta(Op)
  PROVE  IInv'
  <1>1. SameSource /\ status' = status
    BY DEF OnlyData, SameSource
  <1>2. calls' \in Seq(Frames') /\ StackInv'
    BY <1>1, AdvanceIs
  <1>3. TypeOK'
    BY <1>2, OnlyDataKeeps
  <1> QED
    BY <1>2, <1>3 DEF IInv

LEMMA PushKeeps == IInv /\ Push => IInv'
  <1> SUFFICES ASSUME IInv, Push PROVE IInv'
    OBVIOUS
  <1>1. AtInstr /\ Op = "PUSH" /\ Advance /\ OnlyData /\ data' = Append(data, Arg)
    BY DEF Push, Does
  <1>2. Arg \in Words
    BY <1>1, InstrIs DEF OperandFits, Op, Arg
  <1>3. data' \in Seq(Words) /\ Len(data') = Len(data) + 1
    BY <1>1, <1>2, AppendProperties DEF IInv, TypeOK
  <1>4. Delta(Op) = 1
    BY <1>1 DEF Delta
  <1> QED
    BY <1>1, <1>3, <1>4, DataStep

LEMMA PopWordKeeps == IInv /\ PopWord => IInv'
  <1> SUFFICES ASSUME IInv, PopWord PROVE IInv'
    OBVIOUS
  <1>1. AtInstr /\ Op = "POP" /\ Advance /\ OnlyData /\ data' = Pop(data)
    BY DEF PopWord, Does
  <1>2. Delta(Op) = -1 /\ Needs(Op) = 1
    BY <1>1 DEF Delta, Needs
  <1>3. data \in Seq(Words) /\ Len(data) >= 1 /\ data # <<>> /\ Len(data) \in Nat
    BY <1>1, <1>2, WordsAreThere, EmptySeq DEF IInv, TypeOK
  <1>4. data' \in Seq(Words) /\ Len(data') = Len(data) + Delta(Op)
    BY <1>1, <1>2, <1>3, PopIs
  <1> QED
    BY <1>1, <1>4, DataStep

LEMMA DupKeeps == IInv /\ Dup => IInv'
  <1> SUFFICES ASSUME IInv, Dup PROVE IInv'
    OBVIOUS
  <1>1. AtInstr /\ Op = "DUP" /\ Advance /\ OnlyData /\ data' = Append(data, Word)
    BY DEF Dup, Does
  <1>2. Delta(Op) = 1 /\ Needs(Op) = 1
    BY <1>1 DEF Delta, Needs
  <1>3. data \in Seq(Words) /\ Word \in Words
    BY <1>1, <1>2, WordsAreThere DEF IInv, TypeOK
  <1>4. data' \in Seq(Words) /\ Len(data') = Len(data) + Delta(Op)
    BY <1>1, <1>2, <1>3, AppendProperties
  <1> QED
    BY <1>1, <1>4, DataStep

\* Negate, Increment and Decrement.
LEMMA ReplaceWordKeeps ==
  ASSUME IInv, AtInstr, Op \in {"NEGATE", "INCREMENT", "DECREMENT"}, Advance, OnlyData,
         NEW w \in Words, data' = SetTop(w)
  PROVE  IInv'
  <1>1. Delta(Op) = 0 /\ Needs(Op) = 1 /\ Op # "JUMP"
    BY DEF Delta, Needs
  <1>2. data' \in Seq(Words) /\ Len(data') = Len(data) /\ Len(data) \in Nat
    BY <1>1, SetTopTyped, LenIsNat DEF IInv, TypeOK
  <1> QED
    BY <1>1, <1>2, DataStep

LEMMA ArithmeticKeeps == IInv /\ (Negate \/ Increment \/ Decrement) => IInv'
  <1>1. ASSUME IInv, Negate PROVE IInv'
    <2>1. /\ AtInstr /\ Op = "NEGATE" /\ Advance /\ OnlyData
          /\ data' = SetTop(Bit(Word = 0))
      BY <1>1 DEF Negate, Does
    <2>2. Bit(Word = 0) \in Words
      BY WordArithmetic
    <2> QED
      BY <1>1, <2>1, <2>2, ReplaceWordKeeps
  <1>2. ASSUME IInv, Increment PROVE IInv'
    <2>1. /\ AtInstr /\ Op = "INCREMENT" /\ Advance /\ OnlyData
          /\ data' = SetTop((Word + 1) % WordSize)
      BY <1>2 DEF Increment, Does
    <2>2. Needs(Op) = 1
      BY <2>1 DEF Needs
    <2>3. (Word + 1) % WordSize \in Words
      BY <1>2, <2>1, <2>2, WordsAreThere, WordArithmetic
    <2> QED
      BY <1>2, <2>1, <2>3, ReplaceWordKeeps
  <1>3. ASSUME IInv, Decrement PROVE IInv'
    <2>1. /\ AtInstr /\ Op = "DECREMENT" /\ Advance /\ OnlyData
          /\ data' = SetTop((Word + WordSize - 1) % WordSize)
      BY <1>3 DEF Decrement, Does
    <2>2. Needs(Op) = 1
      BY <2>1 DEF Needs
    <2>3. (Word + WordSize - 1) % WordSize \in Words
      BY <1>3, <2>1, <2>2, WordsAreThere, WordArithmetic
    <2> QED
      BY <1>3, <2>1, <2>3, ReplaceWordKeeps
  <1> QED
    BY <1>1, <1>2, <1>3

LEMMA SwapKeeps == IInv /\ Swap => IInv'
  <1> SUFFICES ASSUME IInv, Swap PROVE IInv'
    OBVIOUS
  <1> DEFINE n == Len(data)
             once == [data EXCEPT ![n] = data[n - 1]]
  <1>1. /\ AtInstr /\ Op = "SWAP" /\ Advance /\ OnlyData
        /\ data' = [data EXCEPT ![n] = data[n - 1], ![n - 1] = Word]
    BY DEF Swap, Does
  <1>2. Delta(Op) = 0 /\ Needs(Op) = 2
    BY <1>1 DEF Delta, Needs
  <1>3. data \in Seq(Words) /\ n \in Nat /\ n >= 2 /\ Word \in Words
    BY <1>1, <1>2, WordsAreThere DEF IInv, TypeOK
  <1>4. n \in 1 .. n /\ n - 1 \in 1 .. n /\ data[n - 1] \in Words
    BY <1>3, ElementOfSeq
  <1>5. once \in Seq(Words) /\ Len(once) = n
    BY <1>3, <1>4, ExceptSeq
  <1>6. data' = [once EXCEPT ![n - 1] = Word]
    BY <1>1
  <1>7. data' \in Seq(Words) /\ Len(data') = n
    BY <1>3, <1>4, <1>5, <1>6, ExceptSeq
  <1> QED
    BY <1>1, <1>2, <1>3, <1>7, DataStep

LEMMA JumpKeeps == IInv /\ Jump => IInv'
  <1> SUFFICES ASSUME IInv, Jump PROVE IInv'
    OBVIOUS
  <1>1. AtInstr /\ Op = "JUMP" /\ Goto(Arg) /\ UNCHANGED data /\ OnlyData
    BY DEF Jump, Does
  <1>2. SameSource /\ status' = status
    BY <1>1 DEF OnlyData, SameSource
  <1>3. Arg \in Succ(Program, Top.ip)
    BY <1>1 DEF Succ, Jumps, Op, Arg
  <1>4. data' \in Seq(Words) /\ Len(data') = Len(data) + Delta(Op)
    <2>1. Delta(Op) = 0
      BY <1>1 DEF Delta
    <2> QED
      BY <1>1, <2>1, LenIsNat DEF IInv, TypeOK
  <1>5. calls' \in Seq(Frames') /\ StackInv'
    BY <1>1, <1>2, <1>3, <1>4, GotoKeepsStack
  <1>6. TypeOK'
    BY <1>1, <1>4, <1>5, OnlyDataKeeps
  <1> QED
    BY <1>5, <1>6 DEF IInv

LEMMA CondJumpKeeps == IInv /\ CondJump => IInv'
  <1> SUFFICES ASSUME IInv, CondJump PROVE IInv'
    OBVIOUS
  <1> DEFINE n == IF JumpTaken THEN Arg ELSE Top.ip + 1
  <1>1. AtInstr /\ Op \in Jumps \ {"JUMP"} /\ Goto(n) /\ data' = Pop(data) /\ OnlyData
    BY DEF CondJump, Does
  <1>2. SameSource /\ status' = status
    BY <1>1 DEF OnlyData, SameSource
  <1>3. n \in Succ(Program, Top.ip)
    BY <1>1 DEF Succ, Jumps, Op, Arg
  <1>4. data' \in Seq(Words) /\ Len(data') = Len(data) + Delta(Op)
    <2>1. Delta(Op) = -1 /\ Needs(Op) = 1
      BY <1>1 DEF Delta, Needs, Jumps
    <2>2. data \in Seq(Words) /\ Len(data) >= 1 /\ data # <<>> /\ Len(data) \in Nat
      BY <1>1, <2>1, WordsAreThere, EmptySeq DEF IInv, TypeOK
    <2> QED
      BY <1>1, <2>1, <2>2, PopIs
  <1>5. calls' \in Seq(Frames') /\ StackInv'
    <2> HIDE DEF n
    <2> QED
      BY <1>1, <1>2, <1>3, <1>4, GotoKeepsStack
  <1>6. TypeOK'
    BY <1>1, <1>4, <1>5, OnlyDataKeeps
  <1> QED
    BY <1>5, <1>6 DEF IInv

\* An instruction that advances and leaves the rest of the state well typed.
LEMMA AdvanceKeeps ==
  ASSUME IInv, AtInstr, SameSource, UNCHANGED <<room, status, answer, missed>>,
         Op # "JUMP", Advance,
         data' \in Seq(Words), Len(data') = Len(data) + Delta(Op),
         results' \in Seq(Range(results')), loc' \in 0 .. Len(src),
         flags' \in [eof : BOOLEAN, noerror : BOOLEAN, noreturn : BOOLEAN],
         scope' \in Seq(Bindings), err' \in Reports
  PROVE  IInv'
  <1>1. calls' \in Seq(Frames') /\ StackInv'
    BY AdvanceIs
  <1>2. TypeOK'
    BY <1>1, SameTypes DEF IInv, TypeOK, SameSource
  <1> QED
    BY <1>1, <1>2 DEF IInv

\* What AdvanceKeeps asks of a part of the state that stays as it is.
LEMMA Kept ==
  ASSUME IInv
  PROVE  /\ data \in Seq(Words) /\ Len(data) \in Nat
         /\ results \in Seq(Range(results)) /\ Len(results) \in Nat
         /\ loc \in 0 .. Len(src) /\ Len(src) \in Nat
         /\ flags \in [eof : BOOLEAN, noerror : BOOLEAN, noreturn : BOOLEAN]
         /\ scope \in Seq(Bindings) /\ err \in Reports
  BY LenIsNat, GrammarWellFormed DEF IInv, TypeOK

LEMMA SaveLocationKeeps == IInv /\ SaveLocation => IInv'
  <1> SUFFICES ASSUME IInv, SaveLocation PROVE IInv'
    OBVIOUS
  <1> DEFINE n == Top.ip + 1
             f == [Top EXCEPT !.loc = loc, !.ip = n]
  <1>1. AtInstr /\ Op = "SAVE_LOCATION" /\ UNCHANGED data /\ OnlyData
    BY DEF SaveLocation, Does
  <1>2. SameSource /\ status' = status
    BY <1>1 DEF OnlyData, SameSource
  <1>3. /\ Depth \in 1 .. Len(calls) /\ Top \in Frames /\ Top.ip \in Nat
        /\ calls \in Seq(Frames)
    BY <1>1, TopIs DEF AtInstr, IInv, TypeOK
  <1>4. calls' = [calls EXCEPT ![Depth] = f]
    BY DEF SaveLocation
  <1>5. f \in Frames /\ f.parser = Top.parser /\ f.sp = Top.sp /\ f.ip = n
    <2> DEFINE g == [Top EXCEPT !.loc = loc]
    <2>1. g \in Frames /\ g.parser = Top.parser /\ g.sp = Top.sp
      BY <1>3, Kept DEF Frames
    <2>2. f = [g EXCEPT !.ip = n]
      OBVIOUS
    <2>3. n \in Nat
      BY <1>3
    <2> HIDE DEF g, n, f
    <2> QED
      BY <2>1, <2>2, <2>3 DEF Frames
  <1>6. data' \in Seq(Words) /\ Len(data') = Len(data) + Delta(Op)
    <2>1. Delta(Op) = 0
      BY <1>1 DEF Delta
    <2> QED
      BY <1>1, <2>1, Kept
  <1>7. n \in Succ(Program, Top.ip)
    BY <1>1 DEF Succ, Op
  <1>8. calls' \in Seq(Frames') /\ StackInv'
    <2> HIDE DEF f, n
    <2>1. calls' \in Seq(Frames)
      BY <1>3, <1>4, <1>5, ExceptSeq
    <2>2. StackInv'
      BY <1>1, <1>2, <1>4, <1>5, <1>6, <1>7, StepKeepsStack
    <2> QED
      BY <1>2, <2>1, <2>2, SameTypes
  <1>9. TypeOK'
    BY <1>1, <1>6, <1>8, OnlyDataKeeps
  <1> QED
    BY <1>8, <1>9 DEF IInv

LEMMA RestoreLocationKeeps == IInv /\ RestoreLocation => IInv'
  <1> SUFFICES ASSUME IInv, RestoreLocation PROVE IInv'
    OBVIOUS
  <1>1. /\ AtInstr /\ Op = "RESTORE_LOCATION" /\ loc' = Top.loc /\ Advance
        /\ UNCHANGED <<root, src, room, data, results, flags, scope, err, status, answer, missed>>
    BY DEF RestoreLocation, Does
  <1>2. Delta(Op) = 0 /\ Op # "JUMP"
    BY <1>1 DEF Delta
  <1>3. loc' \in 0 .. Len(src)
    BY <1>1, TopIs DEF AtInstr
  <1>4. SameSource
    BY <1>1 DEF SameSource
  <1>5. /\ data' \in Seq(Words) /\ Len(data') = Len(data) + Delta(Op)
        /\ results' \in Seq(Range(results'))
        /\ flags' \in [eof : BOOLEAN, noerror : BOOLEAN, noreturn : BOOLEAN]
        /\ scope' \in Seq(Bindings) /\ err' \in Reports
    BY <1>1, <1>2, Kept
  <1> QED
    BY <1>1, <1>2, <1>3, <1>4, <1>5, AdvanceKeeps

\* SetNoreturnFlag and SetNoerrorFlag: the old flag goes to the stack.
LEMMA SetFlagKeeps == IInv /\ (SetNoreturnFlag \/ SetNoerrorFlag) => IInv'
  <1> SUFFICES ASSUME IInv, SetNoreturnFlag \/ SetNoerrorFlag PROVE IInv'
    OBVIOUS
  <1> DEFINE w == Bit(IF Op = "SET_NORETURN" THEN flags.noreturn ELSE flags.noerror)
  <1>1. /\ AtInstr /\ Op \in {"SET_NORETURN", "SET_NOERROR"} /\ Advance
        /\ UNCHANGED <<root, src, room, results, loc, scope, err, status, answer, missed>>
    BY DEF SetNoreturnFlag, SetNoerrorFlag, Does
  <1>2. data' = SetTop(w)
    BY DEF SetNoreturnFlag, SetNoerrorFlag, Does
  <1>3. flags' \in [eof : BOOLEAN, noerror : BOOLEAN, noreturn : BOOLEAN]
    <2>1. \/ flags' = [flags EXCEPT !.noreturn = Word # 0]
          \/ flags' = [flags EXCEPT !.noerror = Word # 0]
      BY DEF SetNoreturnFlag, SetNoerrorFlag
    <2> QED
      BY <2>1, Kept
  <1>4. Delta(Op) = 0 /\ Needs(Op) = 1 /\ Op # "JUMP"
    BY <1>1 DEF Delta, Needs
  <1>5. data' \in Seq(Words) /\ Len(data') = Len(data) + Delta(Op)
    <2>1. w \in Words
      BY WordArithmetic
    <2> HIDE DEF w
    <2>2. SetTop(w) \in Seq(Words) /\ Len(SetTop(w)) = Len(data)
      BY <1>1, <1>4, <2>1, SetTopTyped
    <2> QED
      BY <1>2, <1>4, <2>2, Kept
  <1>6. SameSource
    BY <1>1 DEF SameSource
  <1>7. /\ results' \in Seq(Range(results')) /\ loc' \in 0 .. Len(src)
        /\ scope' \in Seq(Bindings) /\ err' \in Reports
    BY <1>1, Kept
  <1> QED
    BY <1>1, <1>3, <1>4, <1>5, <1>6, <1>7, AdvanceKeeps

\* Apply and NullResult: results that are none of the stack's business.
LEMMA ResultKeeps ==
  ASSUME IInv, AtInstr, Op \in {"APPLY", "NULL_RESULT"}, Advance,
         UNCHANGED <<root, src, room, data, loc, flags, scope, err, status, answer, missed>>,
         results' \in Seq(Range(results'))
  PROVE  IInv'
  <1>1. Delta(Op) = 0 /\ Op # "JUMP"
    BY DEF Delta
  <1>2. SameSource
    BY DEF SameSource
  <1>3. /\ data' \in Seq(Words) /\ Len(data') = Len(data) + Delta(Op)
        /\ loc' \in 0 .. Len(src)
        /\ flags' \in [eof : BOOLEAN, noerror : BOOLEAN, noreturn : BOOLEAN]
        /\ scope' \in Seq(Bindings) /\ err' \in Reports
    BY <1>1, Kept
  <1> QED
    BY <1>1, <1>2, <1>3, AdvanceKeeps

LEMMA ApplyKeeps == IInv /\ Apply => IInv'
  <1> SUFFICES ASSUME IInv, Apply PROVE IInv'
    OBVIOUS
  <1> DEFINE n == Len(results)
             tree == <<"apply", Object.arg, results[n]>>
             S == Range(results) \cup {tree}
  <1>1. /\ AtInstr /\ Op = "APPLY" /\ Advance /\ ~ApplyAssertFails
        /\ UNCHANGED <<root, src, room, data, loc, flags, scope, err, status, answer, missed>>
        /\ results' = IF flags.noreturn THEN results ELSE [results EXCEPT ![n] = tree]
    BY DEF Apply, Does
  <1>2. results' \in Seq(Range(results'))
    <2>1. CASE flags.noreturn
      BY <1>1, <2>1, Kept
    <2>2. CASE ~flags.noreturn
      <3>1. results # <<>>
        BY <1>1, <2>2 DEF ApplyAssertFails
      <3>2. n \in 1 .. n /\ results \in Seq(S) /\ tree \in S
        BY <3>1, Kept, EmptySeq, SeqMonotonic
      <3>3. [results EXCEPT ![n] = tree] \in Seq(S)
        <4> HIDE DEF S, tree
        <4> QED
          BY <3>2, ExceptSeq
      <3>4. results' \in Seq(S)
        BY <1>1, <2>2, <3>3
      <3> QED
        BY <3>4, SelfTyped
    <2> QED
      BY <2>1, <2>2
  <1> QED
    BY <1>1, <1>2, ResultKeeps

LEMMA NullResultKeeps == IInv /\ NullResult => IInv'
  <1> SUFFICES ASSUME IInv, NullResult PROVE IInv'
    OBVIOUS
  <1>1. /\ AtInstr /\ Op = "NULL_RESULT" /\ Advance
        /\ UNCHANGED <<root, src, room, data, loc, flags, scope, err, status, answer, missed>>
        /\ results' = IF flags.noreturn THEN results ELSE Append(results, Null)
    BY DEF NullResult, Does
  <1>2. results' \in Seq(Range(results'))
    BY <1>1, Kept, AppendTyped
  <1> QED
    BY <1>1, <1>2, ResultKeeps

LEMMA FoldKeeps == IInv /\ Fold => IInv'
  <1> SUFFICES ASSUME IInv, Fold PROVE IInv'
    OBVIOUS
  <1> DEFINE n == Len(results) - Word
             kept == SubSeq(results, 1, n)
             tree == <<"fold", Object.fold, SubSeq(results, n + 1, Len(results))>>
  <1>1. /\ AtInstr /\ Op = "FOLD" /\ Advance /\ ~FoldAssertFails /\ data' = Pop(data)
        /\ UNCHANGED <<root, src, room, loc, flags, scope, err, status, answer, missed>>
        /\ results' = IF flags.noreturn THEN results ELSE Append(kept, tree)
    BY DEF Fold, Does
  <1>2. Delta(Op) = -1 /\ Needs(Op) = 1 /\ Op # "JUMP"
    BY <1>1 DEF Delta, Needs
  <1>3. data # <<>> /\ Word \in Nat
    BY <1>1, <1>2, WordsAreThere, EmptySeq DEF Words
  <1>4. data' \in Seq(Words) /\ Len(data') = Len(data) + Delta(Op)
    BY <1>1, <1>2, <1>3, Kept, PopIs
  <1>5. results' \in Seq(Range(results'))
    <2>1. CASE flags.noreturn
      BY <1>1, <2>1, Kept
    <2>2. CASE ~flags.noreturn
      <3>1. ~(Len(results) < Word)
        BY <1>1, <2>2 DEF FoldAssertFails
      <3>2. n \in 0 .. Len(results)
        BY <1>3, <3>1, Kept
      <3>3. kept \in Seq(Range(results))
        BY <3>2, Kept, PrefixIs
      <3>4. Append(kept, tree) \in Seq(Range(Append(kept, tree)))
        <4> HIDE DEF kept, tree
        <4> QED
          BY <3>3, AppendTyped
      <3> QED
        BY <1>1, <2>2, <3>4
    <2> QED
      BY <2>1, <2>2
  <1>6. SameSource
    BY <1>1 DEF SameSource
  <1>7. /\ loc' \in 0 .. Len(src)
        /\ flags' \in [eof : BOOLEAN, noerror : BOOLEAN, noreturn : BOOLEAN]
        /\ scope' \in Seq(Bindings) /\ err' \in Reports
    BY <1>1, Kept
  <1> QED
    BY <1>1, <1>2, <1>4, <1>5, <1>6, <1>7, AdvanceKeeps

LEMMA ExpectKeeps == IInv /\ Expect => IInv'
  <1> SUFFICES ASSUME IInv, Expect PROVE IInv'
    OBVIOUS
  <1> DEFINE fresh == err.expected = <<>>
             e == IF fresh THEN [err EXCEPT !.loc = loc] ELSE err
  <1>1. /\ AtInstr /\ Op = "EXPECT" /\ Advance /\ ~ExpectAssertFails
        /\ UNCHANGED <<root, src, room, data, results, loc, scope, status, answer, missed>>
    BY DEF Expect, Does
  <1>2. \/ UNCHANGED <<err, flags>>
        \/ /\ err' = cc_add_expected(e, Object.arg)
           /\ flags' = [flags EXCEPT !.eof = IF fresh THEN Peeked ELSE flags.eof]
    BY DEF Expect
  <1>3. Object.arg \in Labels
    <2>1. Object.type = "EXPECT"
      BY <1>1 DEF ExpectAssertFails
    <2>2. Top.parser \in Ids
      BY <1>1, TopIs DEF AtInstr
    <2> QED
      BY <2>1, <2>2 DEF Labels, Object
  <1>4. err' \in Reports
    <2>1. e \in Reports
      BY Kept DEF Reports
    <2> HIDE DEF e
    <2>2. cc_add_expected(e, Object.arg) \in Reports
      BY <1>3, <2>1, ReportTyped DEF IInv
    <2> QED
      BY <1>2, <2>2, Kept
  <1>5. flags' \in [eof : BOOLEAN, noerror : BOOLEAN, noreturn : BOOLEAN]
    <2>1. (IF fresh THEN Peeked ELSE flags.eof) \in BOOLEAN
      BY Kept DEF Peeked
    <2> HIDE DEF fresh
    <2> QED
      BY <1>2, <2>1, Kept
  <1>6. SameSource
    BY <1>1 DEF SameSource
  <1>7. Delta(Op) = 0 /\ Op # "JUMP"
    BY <1>1 DEF Delta
  <1>8. /\ data' \in Seq(Words) /\ Len(data') = Len(data) + Delta(Op)
        /\ results' \in Seq(Range(results')) /\ loc' \in 0 .. Len(src)
        /\ scope' \in Seq(Bindings)
    BY <1>1, <1>7, Kept
  <1> QED
    BY <1>1, <1>4, <1>5, <1>6, <1>7, <1>8, AdvanceKeeps

LEMMA BindingKeeps == IInv /\ (PushBinding \/ PopBinding) => IInv'
  <1> SUFFICES ASSUME IInv, PushBinding \/ PopBinding PROVE IInv'
    OBVIOUS
  <1>1. /\ AtInstr /\ Op \in {"PUSH_BINDING", "POP_BINDING"} /\ Advance /\ Object.type = "BIND"
        /\ UNCHANGED <<root, src, room, data, results, loc, flags, err, status, answer, missed>>
        /\ scope' = Append(scope, Object.arg) \/ scope' = Pop(scope)
    BY DEF PushBinding, PopBinding, Does, PushBindingAssertFails, PopBindingAssertFails
  <1>2. Object.arg \in Bindings
    <2>1. Top.parser \in Ids
      BY <1>1, TopIs DEF AtInstr
    <2> QED
      BY <1>1, <2>1 DEF Bindings, Object
  <1>3. scope' \in Seq(Bindings)
    <2>1. Append(scope, Object.arg) \in Seq(Bindings)
      BY <1>2, Kept, AppendProperties
    <2>2. Pop(scope) \in Seq(Bindings)
      BY Kept, PopIs
    <2> QED
      BY <1>1, <2>1, <2>2
  <1>4. Delta(Op) = 0 /\ Op # "JUMP"
    BY <1>1 DEF Delta
  <1>5. /\ data' \in Seq(Words) /\ Len(data') = Len(data) + Delta(Op)
        /\ results' \in Seq(Range(results')) /\ loc' \in 0 .. Len(src)
        /\ flags' \in [eof : BOOLEAN, noerror : BOOLEAN, noreturn : BOOLEAN]
        /\ err' \in Reports
    BY <1>1, <1>4, Kept
  <1>6. SameSource
    BY <1>1 DEF SameSource
  <1> QED
    BY <1>1, <1>3, <1>4, <1>5, <1>6, AdvanceKeeps

\* The words of the caller lie below the stack pointer of the new frame, all
\* but the one the call will leave.
LEMMA CallKeeps == IInv /\ Call => IInv'
  <1> SUFFICES ASSUME IInv, Call PROVE IInv'
    OBVIOUS
  <1> DEFINE g == Frame(Arg, Len(data), Len(results), Entry)
             onward == [Top EXCEPT !.ip = Top.ip + 1]
             stranded == [Top EXCEPT !.lost = TRUE]
  <1>1. /\ AtInstr /\ Op = "CALL"
        /\ UNCHANGED <<root, src, data, results, loc, flags, scope, err, status, answer, missed>>
        /\ room' = IF Depth = room THEN 2 * room ELSE room
    BY DEF Call, Does
  <1>2. SameSource /\ status' = status
    BY <1>1 DEF SameSource
  <1>3. /\ Running /\ is_combinator(Object.type)
        /\ Depth \in Nat \ {0} /\ Depth \in 1 .. Len(calls) /\ Top \in Frames
        /\ FramesStand /\ CallersOwn /\ Top.sp + Owned(Top) <= Len(data)
        /\ Top.sp \in Nat /\ Top.ip \in Nat /\ calls \in Seq(Frames)
    BY <1>1, TopIs DEF AtInstr, IInv, TypeOK
  <1>4. PICK f \in {onward, stranded} : calls' = Append([calls EXCEPT ![Depth] = f], g)
    BY DEF Call
  <1>5. f \in Frames /\ f.parser = Top.parser /\ f.sp = Top.sp /\ f.ip \in {Top.ip, Top.ip + 1}
    <2>1. /\ onward \in Frames /\ onward.parser = Top.parser /\ onward.sp = Top.sp
          /\ onward.ip = Top.ip + 1
      <3> DEFINE n == Top.ip + 1
      <3>1. n \in Nat
        BY <1>3
      <3> HIDE DEF n
      <3>2. LET moved == [Top EXCEPT !.ip = n]
            IN  /\ moved \in Frames /\ moved.parser = Top.parser /\ moved.sp = Top.sp
                /\ moved.ip = n
        BY <1>3, <3>1 DEF Frames
      <3> QED
        BY <3>2 DEF n
    <2>2. /\ stranded \in Frames /\ stranded.parser = Top.parser /\ stranded.sp = Top.sp
          /\ stranded.ip = Top.ip
      BY <1>3 DEF Frames
    <2> HIDE DEF onward, stranded
    <2> QED
      BY <1>4, <2>1, <2>2
  <1> HIDE DEF onward, stranded
  <1>6. g \in Frames /\ g.parser \in Ids /\ g.ip = 1 /\ g.sp = Len(data)
    <2>1. Arg \in Ids
      BY <1>1, InstrIs DEF OperandFits, Op, Arg
    <2>2. Entry \in Entries
      BY ReportTyped DEF IInv
    <2> QED
      BY <2>1, <2>2, Kept DEF Frame, Frames
  <1> DEFINE mid == [calls EXCEPT ![Depth] = f]
  <1>7. calls' = Append(mid, g)
    BY <1>4
  <1> HIDE DEF g
  <1>8. /\ mid \in Seq(Frames) /\ Len(mid) = Depth
        /\ \A i \in 1 .. Depth : mid[i] = IF i = Depth THEN f ELSE calls[i]
    BY <1>3, <1>5, ExceptSeq DEF Depth
  <1> HIDE DEF mid
  <1>9. /\ calls' \in Seq(Frames) /\ calls' # <<>> /\ Len(calls') = Depth + 1
        /\ \A i \in 1 .. Depth : calls'[i] = IF i = Depth THEN f ELSE calls[i]
        /\ calls'[Depth + 1] = g
    BY <1>6, <1>7, <1>8, AppendProperties
  \* A caller that keeps its ip stays where it owned a word less.
  <1>10. /\ Standing(f) /\ is_combinator(Parsers[f.parser].type)
         /\ Owned(f) \in Nat /\ Owned(f) <= Owned(Top) + 1
    <2>1. /\ Len(Program) \in Nat /\ Top.ip \in 1 .. Len(Program)
          /\ Height[Top.parser] \in [Points(Program) -> Nat]
      BY <1>1, InstrIs
    <2>2. f.ip \in Points(Program)
      BY <1>5, <2>1 DEF Points
    <2>3. is_combinator(Parsers[f.parser].type) /\ Standing(f)
      BY <1>3, <1>5, <2>2 DEF Standing, Object, Program
    <2>4. Owned(f) = Height[Top.parser][f.ip] /\ Owned(f) \in Nat
      BY <1>5, <2>1, <2>2, <2>3 DEF Owned
    <2>5. CASE f.ip = Top.ip
      <3>1. Owned(Top) = Height[Top.parser][Top.ip]
        BY <1>3 DEF Owned, Object
      <3> QED
        BY <2>3, <2>4, <2>5, <3>1
    <2>6. CASE f.ip = Top.ip + 1
      <3>1. Top.ip + 1 \in Succ(Program, Top.ip) /\ Delta(Op) = 1
        BY <1>1 DEF Succ, Op, Delta
      <3>2. Height[Top.parser][Top.ip + 1] <= Owned(Top) + Delta(Op)
        BY <1>1, <3>1, InstrIs
      <3> QED
        BY <2>3, <2>4, <2>6, <3>1, <3>2
    <2> QED
      BY <1>5, <2>5, <2>6
  <1>11. Standing(g) /\ Owned(g) = 0
    BY <1>6, FreshFrame
  <1>12. FramesStand'
    <2>1. ASSUME NEW i \in 1 .. Depth + 1 PROVE Standing(calls'[i])
      <3>1. CASE i = Depth + 1
        BY <1>9, <1>11, <3>1
      <3>2. CASE i = Depth
        BY <1>3, <1>9, <1>10, <3>2
      <3>3. CASE i \in 1 .. Depth - 1
        <4>1. calls'[i] = calls[i]
          BY <1>3, <1>9, <3>3
        <4>2. Standing(calls[i])
          BY <1>3, <3>3 DEF FramesStand, Depth
        <4> QED
          BY <4>1, <4>2
      <3> QED
        BY <1>3, <3>1, <3>2, <3>3
    <2> QED
      BY <1>9, <2>1 DEF FramesStand
  <1>13. CallersOwn'
    <2>1. ASSUME NEW i \in 1 .. Depth
          PROVE  /\ is_combinator(Parsers[calls'[i].parser].type)
                 /\ calls'[i].sp + Owned(calls'[i]) <= calls'[i + 1].sp + 1
      <3>1. CASE i = Depth
        <4>1. calls'[i] = f /\ calls'[i + 1] = g
          BY <1>3, <1>9, <3>1
        <4>2. Owned(Top) \in Nat
          BY <1>1, InstrIs
        <4>3. f.sp + Owned(f) <= g.sp + 1
          BY <1>3, <1>5, <1>6, <1>10, <4>2, Kept
        <4> QED
          BY <1>10, <4>1, <4>3
      <3>2. CASE i \in 1 .. Depth - 1
        <4>1. calls'[i] = calls[i] /\ calls'[i + 1].sp = calls[i + 1].sp
          BY <1>3, <1>5, <1>9, <3>2 DEF Top
        <4>2. /\ is_combinator(Parsers[calls[i].parser].type)
              /\ calls[i].sp + Owned(calls[i]) <= calls[i + 1].sp + 1
          BY <1>3, <3>2 DEF CallersOwn, Depth
        <4> QED
          BY <4>1, <4>2
      <3> QED
        BY <1>3, <3>1, <3>2
    <2>2. Len(calls') - 1 = Depth
      BY <1>3, <1>9
    <2> QED
      BY <2>1, <2>2 DEF CallersOwn
  <1>14. TopOwns'
    <2>1. Top' = g
      BY <1>9 DEF Top, Depth
    <2>2. g.sp + Owned(g) <= Len(data')
      BY <1>1, <1>6, <1>11, Kept
    <2> QED
      BY <1>9, <2>1, <2>2 DEF TopOwns
  <1>15. TypeOK'
    <2>1. calls' \in Seq(Frames')
      BY <1>2, <1>9, SameTypes
    <2>2. room' \in Nat
      BY <1>1 DEF IInv, TypeOK
    <2> QED
      BY <1>1, <1>2, <2>1, <2>2, SameTypes DEF IInv, TypeOK
  <1> QED
    BY <1>12, <1>13, <1>14, <1>15 DEF IInv, StackInv

LEMMA ResolveLookupKeeps == IInv /\ ResolveLookup => IInv'
  <1> SUFFICES ASSUME IInv, ResolveLookup PROVE IInv'
    OBVIOUS
  <1> DEFINE q == scope_lookup(Object.arg)
             f == [Top EXCEPT !.parser = q]
  <1>1. /\ Running /\ Object.type = "LOOKUP" /\ IsBound(Object.arg)
        /\ UNCHANGED <<root, src, room, data, results, loc, flags, scope, err, status, answer, missed>>
    BY DEF ResolveLookup, AtLookup
  <1>2. SameSource
    BY <1>1 DEF SameSource
  <1>3. /\ Depth \in Nat \ {0} /\ Depth \in 1 .. Len(calls) /\ Top \in Frames
        /\ FramesStand /\ CallersOwn /\ Standing(Top) /\ Top.sp + Owned(Top) <= Len(data)
        /\ Top.sp \in Nat /\ calls \in Seq(Frames)
    BY <1>1, TopIs DEF IInv, TypeOK
  <1>4. q \in Ids
    BY <1>1, LookupTyped DEF IInv
  <1>5. Top.ip = 1 /\ Owned(Top) = 0
    <2>1. ~is_combinator(Object.type)
      BY <1>1 DEF is_combinator, CombinatorTypes
    <2> QED
      BY <1>3, <2>1 DEF Standing, Owned, Object
  <1> HIDE DEF q
  <1>6. f \in Frames /\ f.parser = q /\ f.sp = Top.sp /\ f.ip = 1
    BY <1>3, <1>4, <1>5 DEF Frames
  <1>7. calls' = [calls EXCEPT ![Depth] = f]
    BY <1>3 DEF ResolveLookup, Top, q
  <1> HIDE DEF f
  <1>8. /\ calls' \in Seq(Frames) /\ Len(calls') = Depth
        /\ \A i \in 1 .. Depth : calls'[i] = IF i = Depth THEN f ELSE calls[i]
    BY <1>3, <1>6, <1>7, ExceptSeq DEF Depth
  <1>9. Standing(f) /\ Owned(f) = 0
    BY <1>4, <1>6, FreshFrame
  <1>10. FramesStand'
    <2>1. ASSUME NEW i \in 1 .. Depth PROVE Standing(calls'[i])
      <3>1. CASE i = Depth
        BY <1>8, <1>9, <3>1
      <3>2. CASE i # Depth
        <4>1. calls'[i] = calls[i] /\ Standing(calls[i])
          BY <1>3, <1>8, <3>2 DEF FramesStand, Depth
        <4> QED
          BY <4>1
      <3> QED
        BY <3>1, <3>2
    <2> QED
      BY <1>8, <2>1 DEF FramesStand
  <1>11. CallersOwn'
    <2>1. ASSUME NEW i \in 1 .. Depth - 1
          PROVE  /\ is_combinator(Parsers[calls'[i].parser].type)
                 /\ calls'[i].sp + Owned(calls'[i]) <= calls'[i + 1].sp + 1
      <3>1. calls'[i] = calls[i] /\ calls'[i + 1].sp = calls[i + 1].sp
        BY <1>3, <1>6, <1>8 DEF Top
      <3>2. /\ is_combinator(Parsers[calls[i].parser].type)
            /\ calls[i].sp + Owned(calls[i]) <= calls[i + 1].sp + 1
        BY <1>3 DEF CallersOwn, Depth
      <3> QED
        BY <3>1, <3>2
    <2> QED
      BY <1>8, <2>1 DEF CallersOwn
  <1>12. TopOwns'
    <2>1. Top' = f /\ calls' # <<>>
      BY <1>3, <1>8, EmptySeq DEF Top, Depth
    <2>2. f.sp + Owned(f) <= Len(data')
      BY <1>1, <1>3, <1>5, <1>6, <1>9, Kept
    <2> QED
      BY <2>1, <2>2 DEF TopOwns
  <1>13. TypeOK'
    <2>1. calls' \in Seq(Frames')
      BY <1>2, <1>8, SameTypes
    <2> QED
      BY <1>1, <1>2, <2>1, SameTypes DEF IInv, TypeOK
  <1> QED
    BY <1>10, <1>11, <1>12, <1>13 DEF IInv, StackInv

\* A frame that returns a failure and reports a message.
LEMMA FailureKeeps ==
  ASSUME IInv, Running, SameSource, DoReturn(PARSE_FAILURE, data, results),
         NEW msg \in Failures, err' = new_error(msg),
         flags' = [flags EXCEPT !.eof = IF flags.noerror THEN flags.eof ELSE Peeked],
         UNCHANGED <<room, loc, scope, status, answer, missed>>
  PROVE  IInv'
  <1>1. /\ calls' \in Seq(Frames') /\ data' \in Seq(Words)
        /\ results' \in Seq(Range(results')) /\ StackInv'
    BY Kept, WordArithmetic, ReturnIs
  <1>2. err' \in Reports
    BY ReportTyped DEF IInv
  <1>3. flags' \in [eof : BOOLEAN, noerror : BOOLEAN, noreturn : BOOLEAN]
    <2>1. (IF flags.noerror THEN flags.eof ELSE Peeked) \in BOOLEAN
      BY Kept DEF Peeked
    <2> QED
      BY <2>1, Kept
  <1>4. TypeOK'
    BY <1>1, <1>2, <1>3, SameTypes DEF IInv, TypeOK, SameSource
  <1> QED
    BY <1>1, <1>4 DEF IInv

LEMMA FailLookupKeeps == IInv /\ FailLookup => IInv'
  <1> SUFFICES ASSUME IInv, FailLookup PROVE IInv'
    OBVIOUS
  <1>1. /\ Running /\ DoReturn(PARSE_FAILURE, data, results)
        /\ err' = new_error(Undefined)
        /\ flags' = [flags EXCEPT !.eof = IF flags.noerror THEN flags.eof ELSE Peeked]
        /\ UNCHANGED <<root, src, room, loc, scope, status, answer, missed>>
    BY DEF FailLookup, AtLookup
  <1>2. SameSource
    BY <1>1 DEF SameSource
  <1>3. Undefined \in Failures
    BY DEF Failures
  <1> QED
    BY <1>1, <1>2, <1>3, FailureKeeps

LEMMA UndefinedOpcodeKeeps == IInv /\ UndefinedOpcode => IInv'
  <1> SUFFICES ASSUME IInv, UndefinedOpcode PROVE IInv'
    OBVIOUS
  <1>1. /\ Running /\ DoReturn(PARSE_FAILURE, data, results)
        /\ err' = new_error(BadOpcode)
        /\ flags' = [flags EXCEPT !.eof = IF flags.noerror THEN flags.eof ELSE Peeked]
        /\ UNCHANGED <<root, src, room, loc, scope, status, answer, missed>>
    BY DEF UndefinedOpcode, AtOperand
  <1>2. SameSource
    BY <1>1 DEF SameSource
  <1>3. BadOpcode \in Failures
    BY DEF Failures
  <1> QED
    BY <1>1, <1>2, <1>3, FailureKeeps

LEMMA CallTerminalKeeps == IInv /\ CallTerminal => IInv'
  <1> SUFFICES ASSUME IInv, CallTerminal PROVE IInv'
    OBVIOUS
  <1> DEFINE o == call_terminal(Object)
  <1>1. /\ AtTerminal /\ Running
        /\ DoReturn(Bit(o.ok), data, TerminalResults(o))
        /\ loc' = o.loc /\ flags' = [flags EXCEPT !.eof = o.eof]
        /\ err' = IF Object.type = "FAIL" THEN new_error(Object.arg) ELSE err
        /\ missed' \in BOOLEAN
        /\ UNCHANGED <<root, src, room, scope, status, answer>>
    BY Kept DEF CallTerminal, AtTerminal, IInv, TypeOK
  <1>2. SameSource
    BY <1>1 DEF SameSource
  <1>3. o.ok \in BOOLEAN /\ o.loc \in 0 .. Len(src) /\ o.eof \in BOOLEAN
    BY <1>1, TerminalTyped, Kept DEF Typed
  <1> HIDE DEF o
  <1>4. TerminalResults(o) \in Seq(Range(TerminalResults(o)))
    BY Kept, AppendTyped DEF TerminalResults
  <1>5. Bit(o.ok) \in Words
    BY WordArithmetic
  <1>6. /\ calls' \in Seq(Frames') /\ data' \in Seq(Words)
        /\ results' \in Seq(Range(results')) /\ StackInv'
    BY <1>1, <1>2, <1>4, <1>5, Kept, ReturnIs
  <1>7. err' \in Reports
    <2>1. CASE Object.type = "FAIL"
      <3>1. Object.arg \in Failures
        BY <1>1, <2>1, TopIs DEF Failures, Object
      <3> QED
        BY <1>1, <2>1, <3>1, ReportTyped DEF IInv
    <2>2. CASE Object.type # "FAIL"
      BY <1>1, <2>2, Kept
    <2> QED
      BY <2>1, <2>2
  <1>8. flags' \in [eof : BOOLEAN, noerror : BOOLEAN, noreturn : BOOLEAN]
    BY <1>1, <1>3, Kept
  <1>9. TypeOK'
    BY <1>1, <1>2, <1>3, <1>6, <1>7, <1>8, SameTypes DEF IInv, TypeOK
  <1> QED
    BY <1>6, <1>9 DEF IInv

LEMMA ReturnFromProgramKeeps == IInv /\ ReturnFromProgram => IInv'
  <1> SUFFICES ASSUME IInv, ReturnFromProgram PROVE IInv'
    OBVIOUS
  <1>1. /\ Running /\ Len(data) >= 1 /\ DoReturn(Word, Pop(data), results)
        /\ UNCHANGED <<root, src, room, loc, flags, scope, err, status, answer, missed>>
    BY DEF ReturnFromProgram, AtEnd
  <1>2. SameSource
    BY <1>1 DEF SameSource
  <1>3. Word \in Words /\ Pop(data) \in Seq(Words)
    BY <1>1, Kept, ElementOfSeq, PopIs DEF Word
  <1>4. /\ calls' \in Seq(Frames') /\ data' \in Seq(Words)
        /\ results' \in Seq(Range(results')) /\ StackInv'
    BY <1>1, <1>2, <1>3, Kept, ReturnIs
  <1>5. TypeOK'
    BY <1>1, <1>2, <1>4, SameTypes DEF IInv, TypeOK
  <1> QED
    BY <1>4, <1>5 DEF IInv

LEMMA FinishKeeps == IInv /\ Finish => IInv'
  <1> SUFFICES ASSUME IInv, Finish PROVE IInv'
    OBVIOUS
  <1>1. /\ status' = "done" /\ data' = Pop(data) /\ results' = <<>> /\ scope' = <<>>
        /\ answer'.matched = (Word = PARSE_SUCCESS)
        /\ answer'.err = IF Word = PARSE_SUCCESS THEN NoError ELSE err
        /\ UNCHANGED <<root, src, calls, room, loc, flags, err, missed>>
    BY DEF Finish
  <1>2. SameSource
    BY <1>1 DEF SameSource
  <1>3. data' \in Seq(Words)
    BY <1>1, Kept, PopIs
  <1>4. results' \in Seq(Range(results')) /\ scope' \in Seq(Bindings)
    BY <1>1, EmptySeq
  <1>5. answer'.matched \in BOOLEAN /\ answer'.err \in Reports
    BY <1>1, Kept, ReportTyped DEF IInv
  <1>6. TypeOK'
    BY <1>1, <1>2, <1>3, <1>4, <1>5, SameTypes DEF IInv, TypeOK
  <1>7. StackInv'
    BY <1>1 DEF StackInv
  <1> QED
    BY <1>6, <1>7 DEF IInv

LEMMA AbortKeeps == IInv /\ Abort => IInv'
  <1> SUFFICES ASSUME IInv, Abort PROVE IInv'
    OBVIOUS
  <1>1. /\ status' = "aborted" /\ SameSource
        /\ UNCHANGED <<calls, room, data, results, loc, flags, scope, err, answer, missed>>
    BY DEF Abort, SameSource
  <1>2. TypeOK'
    BY <1>1, SameTypes DEF IInv, TypeOK, SameSource
  <1>3. StackInv'
    BY <1>1 DEF StackInv
  <1> QED
    BY <1>2, <1>3 DEF IInv

LEMMA StutterKeeps == IInv /\ UNCHANGED vars => IInv'
  <1> SUFFICES ASSUME IInv, UNCHANGED vars PROVE IInv'
    OBVIOUS
  <1>1. SameSource
    BY DEF vars, SameSource
  <1>2. TypeOK'
    BY <1>1, SameTypes DEF IInv, TypeOK, vars
  <1>3. StackInv'
    BY DEF IInv, StackInv, FramesStand, CallersOwn, TopOwns, Top, Depth, vars
  <1> QED
    BY <1>2, <1>3 DEF IInv

LEMMA NextKeeps == IInv /\ [Next]_vars => IInv'
  <1> SUFFICES ASSUME IInv, [Next]_vars PROVE IInv'
    OBVIOUS
  <1>1. CASE ResolveLookup
    BY <1>1, ResolveLookupKeeps
  <1>2. CASE FailLookup
    BY <1>2, FailLookupKeeps
  <1>3. CASE CallTerminal
    BY <1>3, CallTerminalKeeps
  <1>4. CASE ReturnFromProgram
    BY <1>4, ReturnFromProgramKeeps
  <1>5. CASE Push
    BY <1>5, PushKeeps
  <1>6. CASE PopWord
    BY <1>6, PopWordKeeps
  <1>7. CASE Dup
    BY <1>7, DupKeeps
  <1>8. CASE Negate \/ Increment \/ Decrement
    BY <1>8, ArithmeticKeeps
  <1>9. CASE Swap
    BY <1>9, SwapKeeps
  <1>10. CASE SaveLocation
    BY <1>10, SaveLocationKeeps
  <1>11. CASE RestoreLocation
    BY <1>11, RestoreLocationKeeps
  <1>12. CASE SetNoreturnFlag \/ SetNoerrorFlag
    BY <1>12, SetFlagKeeps
  <1>13. CASE Call
    BY <1>13, CallKeeps
  <1>14. CASE Fold
    BY <1>14, FoldKeeps
  <1>15. CASE Apply
    BY <1>15, ApplyKeeps
  <1>16. CASE Expect
    BY <1>16, ExpectKeeps
  <1>17. CASE PushBinding \/ PopBinding
    BY <1>17, BindingKeeps
  <1>18. CASE NullResult
    BY <1>18, NullResultKeeps
  <1>19. CASE Jump
    BY <1>19, JumpKeeps
  <1>20. CASE CondJump
    BY <1>20, CondJumpKeeps
  <1>21. CASE Finish
    BY <1>21, FinishKeeps
  <1>22. CASE Abort
    BY <1>22, AbortKeeps
  <1>23. CASE UNCHANGED vars
    BY <1>23, StutterKeeps
  <1>24. CASE Terminated
    BY <1>24, StutterKeeps DEF Terminated
  <1>25. CASE UndefinedOpcode
    BY <1>25, UndefinedOpcodeKeeps
  <1> QED
    BY <1>1, <1>2, <1>3, <1>4, <1>5, <1>6, <1>7, <1>8, <1>9, <1>10, <1>11, <1>12, <1>13,
       <1>14, <1>15, <1>16, <1>17, <1>18, <1>19, <1>20, <1>21, <1>22, <1>23, <1>24, <1>25
       DEF Next

LEMMA InvIsSafe == IInv => DataStackSafe
  <1> SUFFICES ASSUME IInv PROVE ~DataAssertFails
    BY DEF DataStackSafe
  <1>1. ~(AtInstr /\ Len(data) < Needs(Op))
    <2>1. Needs(Op) \in Nat
      BY DEF Needs
    <2> QED
      BY <2>1, WordsAreThere
  <1>2. ASSUME AtEnd
        PROVE  ~(Len(data) < 1 \/ Len(data) - 1 < Top.sp)
    <2>1. Running /\ is_combinator(Object.type) /\ Top.ip > Len(Program)
      BY <1>2 DEF AtEnd
    <2>2. Top.parser \in Ids /\ Top.sp \in Nat /\ Standing(Top) /\ Top.sp + Owned(Top) <= Len(data)
      BY <2>1, TopIs
    <2>3. Verified(Object.type, Program, Height[Top.parser], Ids, Words)
      BY <2>1, <2>2, CodeVerified DEF Code, Object, Program
    <2>4. /\ Len(Program) \in Nat /\ Height[Top.parser] \in [Points(Program) -> Nat]
          /\ Height[Top.parser][Len(Program) + 1] >= 1
      BY <2>3 DEF Verified
    <2>5. Top.ip \in Points(Program) /\ Owned(Top) = Height[Top.parser][Top.ip]
      BY <2>1, <2>2 DEF Standing, Owned, Object, Program
    <2>6. Top.ip = Len(Program) + 1
      BY <2>1, <2>4, <2>5 DEF Points
    <2>7. Owned(Top) \in Nat /\ Owned(Top) >= 1
      BY <2>4, <2>5, <2>6
    <2> QED
      BY <2>2, <2>7, Kept
  <1>3. ASSUME AtTerminal \/ AtLookup
        PROVE  ~(Len(data) < Top.sp)
    <2>1. Running /\ ~is_combinator(Object.type)
      BY <1>3 DEF AtTerminal, AtLookup, is_combinator, CombinatorTypes, TerminalTypes
    <2>2. Owned(Top) = 0
      BY <2>1 DEF Owned, Object
    <2> QED
      BY <2>1, <2>2, TopIs, Kept
  <1>4. ASSUME AtOperand
        PROVE  ~(Len(data) < Top.sp)
    <2>1. /\ Running /\ is_combinator(Object.type)
          /\ Top.parser \in Ids /\ Top.sp \in Nat /\ Standing(Top)
          /\ Top.sp + Owned(Top) <= Len(data)
      BY <1>4, TopIs DEF AtOperand
    <2>2. Verified(Object.type, Program, Height[Top.parser], Ids, Words)
      BY <2>1, CodeVerified DEF Code, Object, Program
    <2>3. Owned(Top) \in Nat
      BY <2>1, <2>2 DEF Verified, Standing, Owned, Object, Program
    <2> QED
      BY <2>1, <2>3, Kept
  <1>5. ~(status = "run" /\ calls = <<>> /\ Len(data) < 1)
    BY Kept DEF IInv, StackInv, TopOwns
  <1> QED
    BY <1>1, <1>2, <1>3, <1>4, <1>5 DEF DataAssertFails

-----------------------------------------------------------------------------
\* The invariant holds throughout every parse.
THEOREM Invariance == Spec => []IInv
  BY InitInv, NextKeeps, PTL DEF Spec

\* The state of ir_eval keeps its types whatever grammar is run on whatever
\* input (cc_eval.c:596-964): in particular no location leaves the source and
\* no word leaves its range.
THEOREM TypeCorrect == Spec => []TypeOK
  <1>1. IInv => TypeOK
    BY DEF IInv
  <1> QED
    BY <1>1, Invariance, PTL

\* No assert about the data stack fails (cc_eval.c:381, 685-732, 751, 900), for
\* every grammar whose programs pass StackMap's check, every input, every
\* nesting of calls and every outcome of them.
THEOREM DataStackIsSafe == Spec => []DataStackSafe
  BY InvIsSafe, Invariance, PTL
\* Frames stand inside their programs and own the words StackMap counts, a caller
\* as if its callee had returned, at any depth (cc_eval.c:596-640, 889-918).
THEOREM FramesOwnTheirWords == Spec => []StackInv
  <1>1. IInv => StackInv
    BY DEF IInv
  <1> QED
    BY <1>1, Invariance, PTL
=============================================================================
