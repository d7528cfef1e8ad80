----------------------------- MODULE CallProofs -----------------------------
(***************************************************************************)
(* Proofs that a call leaves its caller what it found, for every grammar   *)
(* and every input: the location behind it, the bindings in scope, the two *)
(* flags, and the error report where it promises silence.                  *)
(*                                                                         *)
(* EvalProofs counts the words of a frame.  Here the invariant says what   *)
(* they are, as far as FrameMap knows, relative to what the caller had     *)
(* when it called; a call that restores everything is a call that leaves   *)
(* true what its caller knows.                                             *)
(***************************************************************************)
EXTENDS CallProperties, EvalProofs, FrameMap

CONSTANT Tidy  \* parsers that restore the flags and call only such parsers

Facts == [p \in DOMAIN Code |-> FactsOf(Code[p])]

\* Every program of the grammar balances its locations and its binding.
ASSUME CodeBalanced == \A p \in DOMAIN Code : Balanced(Code[p], Facts[p])

\* The programs of Tidy restore the flags, and lead to parsers of Tidy only.
ASSUME TidyRestores ==
  /\ Tidy \subseteq Ids
  /\ \A p \in Tidy : Parsers[p].type = "BIND" => Parsers[p].arg.p \in Tidy
  /\ \A p \in Tidy \cap DOMAIN Code :
       /\ Restores(Parsers[p], Code[p], Facts[p], Height[p])
       /\ \A k \in DOMAIN Code[p] : Code[p][k].op = "CALL" => Code[p][k].arg \in Tidy

-----------------------------------------------------------------------------
\* What is known where a frame stands.
Known(f) ==
  IF is_combinator(Parsers[f.parser].type) THEN Facts[f.parser][f.ip] ELSE AtCall

Means(tag, set, entry) ==
  /\ tag = "set" => set
  /\ tag = "noreturn" => set = entry.noreturn
  /\ tag = "noerror" => set = entry.noerror

\* Locations never go back behind a call that is still running: neither the
\* current one nor any that a frame may yet restore.
LocationsInv ==
  /\ \A i \in 1 .. Len(calls) :
       /\ Known(calls[i]).reached
       /\ calls[i].entry.loc <= loc
       /\ Known(calls[i]).saved => calls[i].entry.loc <= calls[i].loc
  /\ \A j \in 1 .. Len(calls) : \A i \in 1 .. j : calls[i].entry.loc <= calls[j].entry.loc

\* The scope is what the caller had, and a frame's own binding where it is bound.
InScope(f) ==
  IF Known(f).bound THEN Append(f.entry.scope, Parsers[f.parser].arg) ELSE f.entry.scope

ScopeInv ==
  /\ \A i \in 1 .. Len(calls) - 1 : calls[i + 1].entry.scope = InScope(calls[i])
  /\ calls # <<>> => scope = InScope(Top)

\* What is known of a frame's flags and words is so.  The topmost word of a frame
\* that waits is the outcome it waits for.
FlagsAre(f, noreturn, noerror) ==
  /\ Means(Known(f).noreturn, noreturn, f.entry)
  /\ Means(Known(f).noerror, noerror, f.entry)

Holds(tag, word, entry) == Means(tag, word # 0, entry)

WordsAre(f, words, top, first) ==
  \A j \in Tracked : j >= first => Holds(Known(f).words[j], words[top - j + 1], f.entry)

OnlyTidy == /\ \A i \in 1 .. Len(calls) : calls[i].parser \in Tidy
            /\ \A i \in 1 .. Len(scope) : scope[i].p \in Tidy

StacksOrdered ==
  \A j \in 1 .. Len(calls) : \A i \in 1 .. j : calls[i].sp <= calls[j].sp

CallersKnow ==
  \A i \in 1 .. Len(calls) - 1 :
    LET callee == calls[i + 1] IN
    /\ Known(calls[i]).words[1] = "unknown"
    /\ FlagsAre(calls[i], callee.entry.noreturn, callee.entry.noerror)
    /\ WordsAre(calls[i], data, callee.sp + 1, 2)

TopKnows ==
  calls # <<>> => FlagsAre(Top, flags.noreturn, flags.noerror) /\ WordsAre(Top, data, Len(data), 1)

\* Silence is handed down: whoever is called under NOERROR, or by a silent parser,
\* finds NOERROR set; and nothing was reported since such a call began.
Silent(f) == Parsers[f.parser].type \in SilentTypes

SilenceInv ==
  /\ \A j \in 1 .. Len(calls) : \A i \in 1 .. j - 1 :
       calls[i].entry.noerror \/ Silent(calls[i]) => calls[j].entry.noerror
  /\ \A i \in 1 .. Len(calls) :
       calls[i].entry.noerror \/ Silent(calls[i]) => err = calls[i].entry.err
  /\ calls # <<>> /\ ~is_combinator(Parsers[Top.parser].type) => err = Top.entry.err

FlagsInv == OnlyTidy /\ StacksOrdered /\ CallersKnow /\ TopKnows /\ SilenceInv

\* While no frame lost its instruction pointer to a call stack that moved.
NoneLost == \A i \in 1 .. Len(calls) : ~calls[i].lost

\* Every location a frame can go back to lies behind its call.  As long as the call
\* stack has room, the scope of every frame is that of its caller and its own
\* binding; and if the root is a tidy parser, the words that FrameMap takes for saved
\* flags hold them, and nothing is reported under NOERROR (cc_eval.c:705-835).
CallInv ==
  /\ LocationsInv
  /\ room = CallStackCap => ScopeInv /\ (root \in Tidy => FlagsInv)

-----------------------------------------------------------------------------
(* How the frames change in a step. *)

LEMMA FramesTyped ==
  ASSUME IInv
  PROVE  /\ calls \in Seq(Frames) /\ Len(calls) \in Nat
         /\ \A i \in 1 .. Len(calls) : calls[i] \in Frames
         /\ Len(src) \in Nat
  BY LenIsNat, ElementOfSeq, GrammarWellFormed DEF IInv, TypeOK

LEMMA FrameFields ==
  ASSUME NEW f \in Frames
  PROVE  /\ f.parser \in Ids /\ f.ip \in Nat /\ f.sp \in Nat /\ f.loc \in 0 .. Len(src)
         /\ f.entry \in Entries /\ f.entry.loc \in 0 .. Len(src)
         /\ f.entry.noerror \in BOOLEAN /\ f.entry.noreturn \in BOOLEAN
         /\ f.entry.scope \in Seq(Bindings)
  BY DEF Frames, Entries

\* The running frame is replaced.
LEMMA MovedIs ==
  ASSUME IInv, Running, NEW f \in Frames, calls' = [calls EXCEPT ![Depth] = f]
  PROVE  /\ Len(calls') = Len(calls) /\ Depth' = Depth /\ Top' = f /\ calls' # <<>>
         /\ \A i \in 1 .. Len(calls) : calls'[i] = IF i = Depth THEN f ELSE calls[i]
  <1>1. Depth \in 1 .. Len(calls) /\ calls \in Seq(Frames) /\ Depth \in Nat \ {0}
    BY TopIs DEF IInv, TypeOK
  <1> DEFINE updated == [calls EXCEPT ![Depth] = f]
  <1>2. /\ updated \in Seq(Frames) /\ Len(updated) = Len(calls)
        /\ \A i \in 1 .. Len(calls) : updated[i] = IF i = Depth THEN f ELSE calls[i]
    BY <1>1, ExceptSeq
  <1> HIDE DEF updated
  <1>3. calls' = updated
    BY DEF updated
  <1>4. /\ Len(calls') = Len(calls)
        /\ \A i \in 1 .. Len(calls) : calls'[i] = IF i = Depth THEN f ELSE calls[i]
    BY <1>2, <1>3
  <1>5. Depth' = Depth /\ Top' = f
    BY <1>1, <1>4 DEF Depth, Top
  <1>6. calls' # <<>>
    BY <1>1, <1>2, <1>3, EmptySeq DEF Depth
  <1> QED
    BY <1>4, <1>5, <1>6

\* The running frame is gone.
LEMMA PoppedIs ==
  ASSUME IInv, Running, calls' = Pop(calls)
  PROVE  /\ Len(calls') = Len(calls) - 1
         /\ \A i \in 1 .. Len(calls) - 1 : calls'[i] = calls[i]
         /\ calls' # <<>> => Len(calls) - 1 \in 1 .. Len(calls) /\ Top' = calls[Len(calls) - 1]
  <1>1. Depth \in Nat \ {0} /\ Depth = Len(calls) /\ calls \in Seq(Frames) /\ calls # <<>>
    BY TopIs DEF IInv, TypeOK, Running, Depth
  <1>2. /\ calls' \in Seq(Frames) /\ Len(calls') = Len(calls) - 1
        /\ \A i \in 1 .. Len(calls) - 1 : calls'[i] = calls[i]
    BY <1>1, PopIs
  <1>3. ASSUME calls' # <<>>
        PROVE  Len(calls) - 1 \in 1 .. Len(calls) /\ Top' = calls[Len(calls) - 1]
    <2>1. Len(calls') \in Nat \ {0}
      BY <1>2, <1>3, EmptySeq
    <2> QED
      BY <1>1, <1>2, <2>1 DEF Top, Depth
  <1> QED
    BY <1>2, <1>3

\* A frame is pushed on a caller that has moved past its CALL, or has lost its ip.
LEMMA CalledIs ==
  ASSUME IInv, Call
  PROVE  \E f \in Frames :
           LET g == Frame(Arg, Len(data), Len(results), Entry) IN
           /\ f.parser = Top.parser /\ f.sp = Top.sp /\ f.entry = Top.entry /\ f.loc = Top.loc
           /\ f.rp = Top.rp
           /\ \/ f.lost = Top.lost /\ f.ip = Top.ip + 1
              \/ f.lost /\ f.ip = Top.ip /\ Depth = room
           /\ g \in Frames
           /\ Len(calls') = Len(calls) + 1 /\ Top' = g /\ calls' # <<>>
           /\ calls'[Len(calls) + 1] = g
           /\ \A i \in 1 .. Len(calls) : calls'[i] = IF i = Depth THEN f ELSE calls[i]
  <1> DEFINE g == Frame(Arg, Len(data), Len(results), Entry)
             n == Top.ip + 1
             onward == [Top EXCEPT !.ip = n]
             stranded == [Top EXCEPT !.lost = TRUE]
  <1>1. /\ AtInstr /\ Running /\ Op = "CALL"
        /\ Depth \in Nat \ {0} /\ Depth \in 1 .. Len(calls) /\ Depth = Len(calls)
        /\ Top \in Frames /\ Top.ip \in Nat /\ calls \in Seq(Frames)
    BY TopIs DEF Call, Does, AtInstr, IInv, TypeOK, Depth
  <1>2. \E f : /\ f = onward \/ (f = stranded /\ Depth = room)
               /\ calls' = Append([calls EXCEPT ![Depth] = f], g)
    BY DEF Call
  <1>3. /\ onward \in Frames /\ onward.parser = Top.parser /\ onward.sp = Top.sp
        /\ onward.entry = Top.entry /\ onward.loc = Top.loc /\ onward.lost = Top.lost
        /\ onward.ip = Top.ip + 1 /\ onward.rp = Top.rp
    <2>1. n \in Nat
      BY <1>1
    <2> HIDE DEF n
    <2>2. /\ onward \in Frames /\ onward.parser = Top.parser /\ onward.sp = Top.sp
          /\ onward.entry = Top.entry /\ onward.loc = Top.loc /\ onward.lost = Top.lost
          /\ onward.ip = n /\ onward.rp = Top.rp
      BY <1>1, <2>1 DEF Frames
    <2> QED
      BY <2>2 DEF n
  <1>4. /\ stranded \in Frames /\ stranded.parser = Top.parser /\ stranded.sp = Top.sp
        /\ stranded.entry = Top.entry /\ stranded.loc = Top.loc /\ stranded.lost
        /\ stranded.ip = Top.ip /\ stranded.rp = Top.rp
    BY <1>1 DEF Frames
  <1>5. g \in Frames
    <2>1. Arg \in Ids
      BY <1>1, InstrIs DEF OperandFits, Op, Arg
    <2>2. Entry \in Entries
      BY ReportTyped DEF IInv
    <2> QED
      BY <2>1, <2>2, Kept DEF Frame, Frames
  <1> HIDE DEF onward, stranded, g
  <1>6. PICK f \in Frames :
          /\ f.parser = Top.parser /\ f.sp = Top.sp /\ f.entry = Top.entry /\ f.loc = Top.loc
          /\ f.rp = Top.rp
          /\ \/ f.lost = Top.lost /\ f.ip = Top.ip + 1
             \/ f.lost /\ f.ip = Top.ip /\ Depth = room
          /\ calls' = Append([calls EXCEPT ![Depth] = f], g)
    BY <1>2, <1>3, <1>4
  <1> DEFINE mid == [calls EXCEPT ![Depth] = f]
  <1>7. /\ mid \in Seq(Frames) /\ Len(mid) = Len(calls)
        /\ \A i \in 1 .. Len(calls) : mid[i] = IF i = Depth THEN f ELSE calls[i]
    BY <1>1, <1>6, ExceptSeq
  <1>8. calls' = Append(mid, g)
    BY <1>6
  <1> HIDE DEF mid
  <1>9. /\ calls' \in Seq(Frames) /\ Len(calls') = Len(calls) + 1 /\ calls' # <<>>
        /\ \A i \in 1 .. Len(calls) : calls'[i] = mid[i]
        /\ calls'[Len(calls) + 1] = g
    BY <1>1, <1>5, <1>7, <1>8, AppendProperties
  <1>10. Top' = g
    BY <1>9 DEF Top, Depth
  <1> QED
    BY <1>5, <1>6, <1>7, <1>9, <1>10 DEF g
-----------------------------------------------------------------------------
(* The kinds of steps there are.  An instruction other than CALL ... *)

DataTurn ==
  \/ Op = "PUSH" /\ data' = Append(data, Arg)
  \/ Op = "DUP" /\ data' = Append(data, Word)
  \/ Op \in {"POP", "FOLD"} \cup (Jumps \ {"JUMP"}) /\ data' = Pop(data)
  \/ /\ Op = "SWAP"
     /\ data' = [data EXCEPT ![Len(data)] = data[Len(data) - 1], ![Len(data) - 1] = Word]
  \/ Op \in {"NEGATE", "INCREMENT", "DECREMENT"} /\ \E w \in Words : data' = SetTop(w)
  \/ Op = "SET_NORETURN" /\ data' = SetTop(Bit(flags.noreturn))
  \/ Op = "SET_NOERROR" /\ data' = SetTop(Bit(flags.noerror))
  \/ /\ Op \in {"JUMP", "SAVE_LOCATION", "RESTORE_LOCATION", "APPLY", "EXPECT",
                "PUSH_BINDING", "POP_BINDING", "NULL_RESULT"}
     /\ data' = data

TurnTo(f) ==
  /\ calls' = [calls EXCEPT ![Depth] = f]
  /\ f.parser = Top.parser /\ f.sp = Top.sp /\ f.entry = Top.entry /\ f.lost = Top.lost
  /\ f.ip \in Succ(Program, Top.ip)
  /\ f.loc = IF Op = "SAVE_LOCATION" THEN loc ELSE Top.loc

Turn ==
  /\ AtInstr /\ Op # "CALL"
  /\ \E f \in Frames : TurnTo(f)
  /\ DataTurn
  /\ loc' = IF Op = "RESTORE_LOCATION" THEN Top.loc ELSE loc
  /\ scope' = CASE Op = "PUSH_BINDING" -> Append(scope, Object.arg)
                [] Op = "POP_BINDING" -> Pop(scope)
                [] OTHER -> scope
  /\ flags'.noreturn = IF Op = "SET_NORETURN" THEN Word # 0 ELSE flags.noreturn
  /\ flags'.noerror = IF Op = "SET_NOERROR" THEN Word # 0 ELSE flags.noerror
  /\ err' = err \/ (Object.type = "EXPECT" /\ ~flags.noerror)
  /\ UNCHANGED <<root, room>>

(* ... a return, with a failure reported or without ... *)

Leave ==
  /\ AtEnd \/ AtTerminal \/ AtLookup \/ AtOperand
  /\ calls' = Pop(calls)
  /\ Len(data') = Top.sp + 1
  /\ \A x \in 1 .. Top.sp : data'[x] = data[x]
  /\ loc' \in Nat /\ loc <= loc'
  /\ flags'.noreturn = flags.noreturn /\ flags'.noerror = flags.noerror
  /\ err' = err \/ (~AtEnd /\ ~flags.noerror)
  /\ UNCHANGED <<root, room, scope>>

(* ... and the end. *)

Still ==
  /\ calls' = calls /\ loc' = loc /\ room' = room /\ root' = root
  /\ calls = <<>> \/ UNCHANGED <<data, flags, scope, err>>
  /\ scope' \in {scope, <<>>}

LEMMA GoesOn ==
  ASSUME IInv, AtInstr, Op # "SAVE_LOCATION", NEW n \in Succ(Program, Top.ip), Goto(n)
  PROVE  \E f \in Frames : TurnTo(f)
  <1> DEFINE f == [Top EXCEPT !.ip = n]
  <1>1. Running /\ Top \in Frames /\ n \in Nat
    BY TopIs, SuccessorsArePoints DEF AtInstr
  <1>2. calls' = [calls EXCEPT ![Depth] = f]
    BY <1>1, GotoTyped DEF Goto
  <1>3. /\ f \in Frames /\ f.parser = Top.parser /\ f.sp = Top.sp /\ f.entry = Top.entry
        /\ f.lost = Top.lost /\ f.ip = n /\ f.loc = Top.loc
    BY <1>1 DEF Frames
  <1> HIDE DEF f
  <1> QED
    BY <1>2, <1>3 DEF TurnTo

\* Advance is a special case of it, but for a jump.
LEMMA Advances ==
  ASSUME IInv, AtInstr, Op \notin {"SAVE_LOCATION", "JUMP"}, Advance
  PROVE  \E f \in Frames : TurnTo(f)
  <1>1. Top.ip + 1 \in Succ(Program, Top.ip)
    BY DEF Succ, Op
  <1> QED
    BY <1>1, GoesOn DEF Advance

LEMMA DataTurns ==
  ASSUME IInv, \/ Push \/ PopWord \/ Dup \/ Negate \/ Increment \/ Decrement \/ Swap
               \/ Jump \/ CondJump
  PROVE  Turn
  <1>1. AtInstr
    BY DEF Push, PopWord, Dup, Negate, Increment, Decrement, Swap, Jump, CondJump, Does
  <1>2. OnlyData /\ Op \in {"PUSH", "POP", "DUP", "NEGATE", "INCREMENT", "DECREMENT", "SWAP"} \cup Jumps
    BY DEF Push, PopWord, Dup, Negate, Increment, Decrement, Swap, Jump, CondJump, Does, Jumps
  <1>3. DataTurn
    <2>1. CASE Negate \/ Increment \/ Decrement
      <3>1. \/ Op = "NEGATE" /\ data' = SetTop(Bit(Word = 0))
            \/ Op = "INCREMENT" /\ data' = SetTop((Word + 1) % WordSize)
            \/ Op = "DECREMENT" /\ data' = SetTop((Word + WordSize - 1) % WordSize)
        BY <2>1 DEF Negate, Increment, Decrement, Does
      <3>2. Op \in {"NEGATE", "INCREMENT", "DECREMENT"} => Word \in Words
        BY <1>1, WordsAreThere DEF Needs
      <3>3. \E w \in Words : data' = SetTop(w)
        BY <3>1, <3>2, WordArithmetic
      <3> QED
        BY <3>1, <3>3 DEF DataTurn
    <2>2. CASE Push \/ PopWord \/ Dup \/ Swap \/ Jump
      BY <2>2 DEF DataTurn, Push, PopWord, Dup, Swap, Jump, Does
    <2>3. CASE CondJump
      BY <2>3 DEF DataTurn, CondJump, Does
    <2> QED
      BY <2>1, <2>2, <2>3
  <1>4. \E f \in Frames : TurnTo(f)
    <2>1. CASE Jump
      <3>1. Arg \in Succ(Program, Top.ip) /\ Goto(Arg) /\ Op = "JUMP"
        BY <2>1 DEF Succ, Jumps, Op, Arg, Jump, Does
      <3> QED
        BY <1>1, <3>1, GoesOn
    <2>2. CASE CondJump
      <3> DEFINE n == IF JumpTaken THEN Arg ELSE Top.ip + 1
      <3>1. n \in Succ(Program, Top.ip) /\ Goto(n) /\ Op # "SAVE_LOCATION"
        BY <2>2 DEF Succ, Jumps, Op, Arg, CondJump, Does
      <3> HIDE DEF n
      <3> QED
        BY <1>1, <3>1, GoesOn
    <2>3. CASE Push \/ PopWord \/ Dup \/ Negate \/ Increment \/ Decrement \/ Swap
      <3>1. Advance /\ Op \notin {"SAVE_LOCATION", "JUMP"}
        BY <2>3 DEF Push, PopWord, Dup, Negate, Increment, Decrement, Swap, Does
      <3> QED
        BY <1>1, <3>1, Advances
    <2> QED
      BY <2>1, <2>2, <2>3
  <1> QED
    BY <1>1, <1>2, <1>3, <1>4 DEF Turn, OnlyData, Jumps

LEMMA SaveTurns ==
  ASSUME IInv, SaveLocation
  PROVE  Turn
  <1> DEFINE n == Top.ip + 1
             g == [Top EXCEPT !.loc = loc]
             f == [g EXCEPT !.ip = n]
  <1>1. /\ AtInstr /\ Running /\ Op = "SAVE_LOCATION" /\ UNCHANGED data /\ OnlyData
        /\ calls' = [calls EXCEPT ![Depth] = [Top EXCEPT !.loc = loc, !.ip = Top.ip + 1]]
    BY DEF SaveLocation, Does, AtInstr
  <1>2. Top \in Frames /\ n \in Nat
    BY <1>1, TopIs
  <1>3. calls' = [calls EXCEPT ![Depth] = f]
    BY <1>1
  <1>4. /\ g \in Frames /\ g.parser = Top.parser /\ g.sp = Top.sp /\ g.entry = Top.entry
        /\ g.lost = Top.lost /\ g.loc = loc
    BY <1>2, Kept DEF Frames
  <1>5. n \in Succ(Program, Top.ip)
    BY <1>1 DEF Succ, Op
  <1> HIDE DEF g, n
  <1>6. /\ f \in Frames /\ f.parser = Top.parser /\ f.sp = Top.sp /\ f.entry = Top.entry
        /\ f.lost = Top.lost /\ f.loc = loc /\ f.ip = n
    BY <1>2, <1>4 DEF Frames
  <1> HIDE DEF f
  <1>7. \E x \in Frames : TurnTo(x)
    BY <1>1, <1>3, <1>5, <1>6 DEF TurnTo
  <1>8. DataTurn
    BY <1>1 DEF DataTurn
  <1> QED
    BY <1>1, <1>7, <1>8 DEF Turn, OnlyData

LEMMA OtherTurns ==
  ASSUME IInv, \/ RestoreLocation \/ SetNoreturnFlag \/ SetNoerrorFlag \/ Fold \/ Apply \/ Expect
               \/ PushBinding \/ PopBinding \/ NullResult
  PROVE  Turn
  <1>1. /\ AtInstr /\ Advance
        /\ Op \in {"RESTORE_LOCATION", "SET_NORETURN", "SET_NOERROR", "FOLD", "APPLY", "EXPECT",
                   "PUSH_BINDING", "POP_BINDING", "NULL_RESULT"}
        /\ UNCHANGED <<root, room>>
    BY DEF RestoreLocation, SetNoreturnFlag, SetNoerrorFlag, Fold, Apply, Expect,
           PushBinding, PopBinding, NullResult, Does
  <1>2. \E f \in Frames : TurnTo(f)
    BY <1>1, Advances
  <1>3. DataTurn
    BY DEF DataTurn, RestoreLocation, SetNoreturnFlag, SetNoerrorFlag, Fold, Apply, Expect,
           PushBinding, PopBinding, NullResult, Does
  <1>4. /\ loc' = IF Op = "RESTORE_LOCATION" THEN Top.loc ELSE loc
        /\ scope' = CASE Op = "PUSH_BINDING" -> Append(scope, Object.arg)
                      [] Op = "POP_BINDING" -> Pop(scope)
                      [] OTHER -> scope
    BY DEF RestoreLocation, SetNoreturnFlag, SetNoerrorFlag, Fold, Apply, Expect,
           PushBinding, PopBinding, NullResult, Does
  <1>5. /\ flags'.noreturn = IF Op = "SET_NORETURN" THEN Word # 0 ELSE flags.noreturn
        /\ flags'.noerror = IF Op = "SET_NOERROR" THEN Word # 0 ELSE flags.noerror
    <2>1. flags \in [eof : BOOLEAN, noerror : BOOLEAN, noreturn : BOOLEAN]
      BY Kept
    <2>2. CASE Expect
      <3>1. \/ flags' = flags
            \/ \E b : flags' = [flags EXCEPT !.eof = b]
        BY <2>2 DEF Expect
      <3>2. Op = "EXPECT"
        BY <2>2 DEF Expect, Does
      <3> QED
        BY <2>1, <3>1, <3>2
    <2>3. CASE SetNoreturnFlag
      BY <2>1, <2>3 DEF SetNoreturnFlag, Does
    <2>4. CASE SetNoerrorFlag
      BY <2>1, <2>4 DEF SetNoerrorFlag, Does
    <2>5. CASE \/ RestoreLocation \/ Fold \/ Apply \/ PushBinding \/ PopBinding \/ NullResult
      BY <2>5 DEF RestoreLocation, Fold, Apply, PushBinding, PopBinding, NullResult, Does
    <2> QED
      BY <2>2, <2>3, <2>4, <2>5
  <1>6. err' = err \/ (Object.type = "EXPECT" /\ ~flags.noerror)
    BY DEF RestoreLocation, SetNoreturnFlag, SetNoerrorFlag, Fold, Apply, Expect,
           PushBinding, PopBinding, NullResult, Does, ExpectAssertFails
  <1> QED
    BY <1>1, <1>2, <1>3, <1>4, <1>5, <1>6 DEF Turn
\* Where the running frame stands decides the kind of the step.
LEMMA Parts ==
  ASSUME IInv
  PROVE  /\ AtEnd => is_combinator(Object.type) /\ ~AtInstr /\ ~AtOperand /\ ~AtTerminal /\ ~AtLookup
         /\ AtTerminal => ~is_combinator(Object.type) /\ Object.type # "LOOKUP"
         /\ AtLookup => ~is_combinator(Object.type)
         /\ AtOperand => Top.lost
         /\ AtInstr => is_combinator(Object.type)
  <1>1. /\ Object.type = "LOOKUP" => ~is_combinator(Object.type) /\ Object.type \notin TerminalTypes
        /\ Object.type \in TerminalTypes => ~is_combinator(Object.type)
    BY DEF is_combinator, CombinatorTypes, TerminalTypes
  <1>2. ASSUME AtEnd
        PROVE  ~AtInstr /\ ~AtOperand
    <2>1. Running /\ is_combinator(Object.type) /\ Top.ip > Len(Program)
      BY <1>2 DEF AtEnd
    <2>2. Top.parser \in Ids /\ Top.ip \in Nat
      BY <2>1, TopIs
    <2>3. Len(Program) \in Nat
      BY <2>1, <2>2, CodeVerified DEF Code, Object, Program, Verified
    <2>4. ~(Top.ip <= Len(Program))
      BY <2>1, <2>2, <2>3
    <2> QED
      BY <2>4 DEF AtInstr, AtOperand
  <1> QED
    BY <1>1, <1>2 DEF AtEnd, AtTerminal, AtLookup, AtOperand, AtInstr

\* do_return leaves the caller its words and the outcome.
LEMMA ReturnsData ==
  ASSUME IInv, Running, NEW success, NEW ds \in Seq(Words), NEW rs, DoReturn(success, ds, rs),
         ds = data \/ (ds = Pop(data) /\ Len(data) >= 1)
  PROVE  /\ calls' = Pop(calls) /\ Len(data') = Top.sp + 1
         /\ \A x \in 1 .. Top.sp : data'[x] = data[x]
  <1>1. Top.sp \in Nat /\ data \in Seq(Words) /\ Len(data) \in Nat /\ Len(ds) \in Nat
    BY TopIs, Kept, LenIsNat
  <1>2. Top.sp \in 0 .. Len(ds)
    BY <1>1 DEF DoReturn, ReturnAssertFails
  <1>3. Len(ds) <= Len(data) /\ \A x \in 1 .. Len(ds) : ds[x] = data[x]
    <2>1. CASE ds = data
      BY <1>1, <2>1
    <2>2. CASE ds = Pop(data) /\ Len(data) >= 1
      <3>1. data # <<>>
        BY <2>2, EmptySeq
      <3> QED
        BY <1>1, <2>2, <3>1, PopIs
    <2> QED
      BY <2>1, <2>2
  <1> DEFINE kept == SubSeq(ds, 1, Top.sp)
  <1>4. kept \in Seq(Words) /\ Len(kept) = Top.sp /\ \A x \in 1 .. Top.sp : kept[x] = ds[x]
    BY <1>2, PrefixIs
  <1>5. data' = Append(kept, success) /\ calls' = Pop(calls)
    BY DEF DoReturn
  <1> HIDE DEF kept
  <1>6. kept \in Seq(Words \cup {success})
    BY <1>4, SeqMonotonic
  <1>7. Len(data') = Top.sp + 1 /\ \A x \in 1 .. Top.sp : data'[x] = kept[x]
    BY <1>1, <1>4, <1>5, <1>6, AppendProperties
  <1> QED
    BY <1>1, <1>2, <1>3, <1>4, <1>5, <1>7

LEMMA Leaves ==
  ASSUME IInv, FailLookup \/ CallTerminal \/ ReturnFromProgram \/ UndefinedOpcode
  PROVE  Leave
  <1>1. /\ AtEnd \/ AtTerminal \/ AtLookup \/ AtOperand
        /\ Running
        /\ UNCHANGED <<root, room, scope>>
    BY DEF FailLookup, CallTerminal, ReturnFromProgram, UndefinedOpcode,
           AtEnd, AtTerminal, AtLookup, AtOperand
  <1>2. \E success, rs : \E ds \in Seq(Words) :
          /\ DoReturn(success, ds, rs)
          /\ ds = data \/ (ds = Pop(data) /\ Len(data) >= 1)
    <2>1. data \in Seq(Words) /\ Pop(data) \in Seq(Words)
      BY Kept, PopIs
    <2>2. CASE FailLookup \/ UndefinedOpcode
      BY <2>1, <2>2 DEF FailLookup, UndefinedOpcode
    <2>3. CASE CallTerminal
      BY <2>1, <2>3 DEF CallTerminal
    <2>4. CASE ReturnFromProgram
      BY <2>1, <2>4 DEF ReturnFromProgram
    <2> QED
      BY <2>2, <2>3, <2>4
  <1>3. /\ calls' = Pop(calls) /\ Len(data') = Top.sp + 1
        /\ \A x \in 1 .. Top.sp : data'[x] = data[x]
    BY <1>1, <1>2, ReturnsData
  <1>4. loc' \in Nat /\ loc <= loc'
    <2>1. CASE CallTerminal
      <3>1. AtTerminal /\ loc' = call_terminal(Object).loc
        BY <2>1 DEF CallTerminal
      <3>2. call_terminal(Object).loc \in loc .. Len(src)
        BY <3>1, TerminalTyped DEF Typed
      <3> QED
        BY <3>1, <3>2, Kept
    <2>2. CASE FailLookup \/ ReturnFromProgram \/ UndefinedOpcode
      BY <2>2, Kept DEF FailLookup, ReturnFromProgram, UndefinedOpcode
    <2> QED
      BY <2>1, <2>2
  <1>5. flags'.noreturn = flags.noreturn /\ flags'.noerror = flags.noerror
    <2>1. flags' = flags \/ \E b : flags' = [flags EXCEPT !.eof = b]
      BY DEF FailLookup, CallTerminal, ReturnFromProgram, UndefinedOpcode
    <2> QED
      BY <2>1, Kept
  <1>6. err' = err \/ (~AtEnd /\ ~flags.noerror)
    <2>1. CASE AtEnd
      <3>1. ~AtTerminal /\ ~AtLookup /\ ~AtOperand
        BY <2>1, Parts
      <3> QED
        BY <3>1 DEF FailLookup, CallTerminal, ReturnFromProgram, UndefinedOpcode
    <2>2. CASE ~AtEnd
      BY <2>2 DEF FailLookup, CallTerminal, ReturnFromProgram, UndefinedOpcode, new_error
    <2> QED
      BY <2>1, <2>2
  <1> QED
    BY <1>1, <1>3, <1>4, <1>5, <1>6 DEF Leave

LEMMA StepIs ==
  ASSUME IInv, [Next]_vars
  PROVE  Turn \/ Call \/ ResolveLookup \/ Leave \/ Still
  <1>1. CASE \/ Push \/ PopWord \/ Dup \/ Negate \/ Increment \/ Decrement \/ Swap
             \/ Jump \/ CondJump
    BY <1>1, DataTurns
  <1>2. CASE SaveLocation
    BY <1>2, SaveTurns
  <1>3. CASE \/ RestoreLocation \/ SetNoreturnFlag \/ SetNoerrorFlag \/ Fold \/ Apply \/ Expect
             \/ PushBinding \/ PopBinding \/ NullResult
    BY <1>3, OtherTurns
  <1>4. CASE FailLookup \/ CallTerminal \/ ReturnFromProgram \/ UndefinedOpcode
    BY <1>4, Leaves
  <1>5. CASE Finish
    BY <1>5 DEF Finish, Still
  <1>6. CASE Abort
    BY <1>6 DEF Abort, Still
  <1>7. CASE UNCHANGED vars
    BY <1>7 DEF vars, Still
  <1>8. CASE Terminated
    BY <1>8 DEF Terminated, vars, Still
  <1> QED
    BY <1>1, <1>2, <1>3, <1>4, <1>5, <1>6, <1>7, <1>8 DEF Next
-----------------------------------------------------------------------------
(* What FrameMap knows of the running frame, before and after a step. *)

LEMMA AtCallTyped == AtCall \in FactSet /\ AtCall.reached /\ ~AtCall.saved /\ ~AtCall.bound
  <1>1. Nothing \in [Tracked -> Tags]
    BY DEF Nothing, Tags
  <1> QED
    BY <1>1 DEF AtCall, FactSet, Tags

LEMMA FactsTyped ==
  ASSUME NEW p \in DOMAIN Code
  PROVE  /\ Len(Code[p]) \in Nat /\ DOMAIN Code[p] = 1 .. Len(Code[p])
         /\ Facts[p] \in [Points(Code[p]) -> FactSet] /\ Facts[p][1] = AtCall
  <1>1. Len(Code[p]) \in Nat /\ DOMAIN Code[p] = 1 .. Len(Code[p])
    BY CodeVerified DEF Verified
  <1>2. Facts[p] \in [Points(Code[p]) -> FactSet] /\ Facts[p][1] = AtCall
    BY CodeBalanced DEF Balanced
  <1> QED
    BY <1>1, <1>2

LEMMA KnownTyped ==
  ASSUME NEW f, f.parser \in Ids, Standing(f)
  PROVE  Known(f) \in FactSet
  <1>1. CASE is_combinator(Parsers[f.parser].type)
    <2>1. f.parser \in DOMAIN Code /\ f.ip \in Points(Code[f.parser])
      BY <1>1 DEF Standing, Code
    <2>2. Facts[f.parser][f.ip] \in FactSet
      BY <2>1, FactsTyped
    <2> QED
      BY <1>1, <2>2 DEF Known
  <1>2. CASE ~is_combinator(Parsers[f.parser].type)
    BY <1>2, AtCallTyped DEF Known
  <1> QED
    BY <1>1, <1>2

LEMMA KnownAtStart ==
  ASSUME NEW f, f.parser \in Ids, f.ip = 1
  PROVE  Known(f) = AtCall
  <1>1. CASE is_combinator(Parsers[f.parser].type)
    <2>1. f.parser \in DOMAIN Code
      BY <1>1 DEF Code
    <2> QED
      BY <1>1, <2>1, FactsTyped DEF Known
  <1>2. CASE ~is_combinator(Parsers[f.parser].type)
    BY <1>2 DEF Known
  <1> QED
    BY <1>1, <1>2

LEMMA KnownTop ==
  ASSUME IInv, Running
  PROVE  /\ Known(Top) \in FactSet
         /\ ~is_combinator(Object.type) => Known(Top) = AtCall /\ Top.ip = 1
  <1>1. Top.parser \in Ids /\ Standing(Top)
    BY TopIs
  <1>2. ~is_combinator(Object.type) => Known(Top) = AtCall /\ Top.ip = 1
    BY <1>1 DEF Known, Standing, Object
  <1> QED
    BY <1>1, <1>2, KnownTyped

\* The facts along an instruction.
LEMMA KnownNext ==
  ASSUME IInv, AtInstr, Known(Top).reached
  PROVE  /\ Op = "RESTORE_LOCATION" => Known(Top).saved
         /\ Op = "PUSH_BINDING" => ~Known(Top).bound
         /\ Op = "POP_BINDING" => Known(Top).bound
         /\ \A f : f.parser = Top.parser /\ f.ip \in Succ(Program, Top.ip) =>
              /\ Known(f) \in FactSet
              /\ Claims(Known(f), After(Program, Top.ip, Known(Top)))
  <1>1. /\ Running /\ is_combinator(Object.type) /\ Top.parser \in Ids
        /\ Top.parser \in DOMAIN Code /\ Top.ip \in DOMAIN Program
    BY InstrIs, TopIs DEF AtInstr
  <1>2. Known(Top) = Facts[Top.parser][Top.ip]
    BY <1>1 DEF Known, Object
  <1>3. Balanced(Program, Facts[Top.parser])
    BY <1>1, CodeBalanced DEF Program
  <1>4. /\ \A n \in Succ(Program, Top.ip) :
             Claims(Facts[Top.parser][n], After(Program, Top.ip, Known(Top)))
        /\ Op = "RESTORE_LOCATION" => Known(Top).saved
        /\ Op = "PUSH_BINDING" => ~Known(Top).bound
        /\ Op = "POP_BINDING" => Known(Top).bound
    BY <1>1, <1>2, <1>3 DEF Balanced, Op
  <1>5. ASSUME NEW f, f.parser = Top.parser, f.ip \in Succ(Program, Top.ip)
        PROVE  Known(f) = Facts[Top.parser][f.ip] /\ Known(f) \in FactSet
    <2>1. Known(f) = Facts[Top.parser][f.ip]
      BY <1>1, <1>5 DEF Known, Object
    <2>2. f.ip \in Points(Program)
      BY <1>5, SuccessorsArePoints
    <2> QED
      BY <1>1, <2>1, <2>2, FactsTyped DEF Program
  <1> QED
    BY <1>4, <1>5

\* The end of a program.
LEMMA KnownAtEnd ==
  ASSUME IInv, AtEnd, Known(Top).reached
  PROVE  /\ ~Known(Top).bound
         /\ Top.parser \in Tidy => /\ Known(Top).noreturn = "noreturn"
                                   /\ Known(Top).noerror = "noerror"
  <1>1. /\ Running /\ is_combinator(Object.type) /\ Top.ip > Len(Program)
        /\ Top.parser \in Ids /\ Top.ip \in Nat /\ Standing(Top)
    BY TopIs DEF AtEnd
  <1>2. Top.parser \in DOMAIN Code
    BY <1>1 DEF Code, Object
  <1>3. Len(Program) \in Nat
    BY <1>2, FactsTyped DEF Program
  <1>4. Top.ip = Len(Program) + 1
    BY <1>1, <1>3 DEF Standing, Points, Object, Program
  <1>5. Known(Top) = Facts[Top.parser][Len(Program) + 1]
    BY <1>1, <1>4 DEF Known, Object
  <1>6. ~Known(Top).bound
    BY <1>2, <1>5, CodeBalanced DEF Balanced, Program
  <1>7. ASSUME Top.parser \in Tidy
        PROVE  Known(Top).noreturn = "noreturn" /\ Known(Top).noerror = "noerror"
    <2>1. Restores(Object, Program, Facts[Top.parser], Height[Top.parser])
      BY <1>2, <1>7, TidyRestores DEF Object, Program
    <2> QED
      BY <1>5, <2>1 DEF Restores
  <1> QED
    BY <1>6, <1>7

-----------------------------------------------------------------------------
(* Locations. *)

LEMMA LocationsOfTop ==
  ASSUME IInv, Running, LocationsInv
  PROVE  /\ Known(Top).reached /\ Top.entry.loc <= loc
         /\ Known(Top).saved => Top.entry.loc <= Top.loc
         /\ \A i \in 1 .. Len(calls) : calls[i].entry.loc <= Top.entry.loc
  <1>1. Depth \in 1 .. Len(calls) /\ Depth = Len(calls)
    BY TopIs DEF Depth
  <1> QED
    BY <1>1 DEF LocationsInv, Top

LEMMA LocationsTurn == IInv /\ LocationsInv /\ Turn => LocationsInv'
  <1> SUFFICES ASSUME IInv, LocationsInv, Turn PROVE LocationsInv'
    OBVIOUS
  <1>1. /\ AtInstr /\ Running /\ Top \in Frames /\ Depth \in 1 .. Len(calls) /\ Depth = Len(calls)
        /\ loc' = IF Op = "RESTORE_LOCATION" THEN Top.loc ELSE loc
    BY TopIs DEF Turn, AtInstr, Depth
  <1>2. PICK f \in Frames : TurnTo(f)
    BY DEF Turn
  <1>3. /\ Known(Top).reached /\ Top.entry.loc <= loc
        /\ Known(Top).saved => Top.entry.loc <= Top.loc
        /\ \A i \in 1 .. Len(calls) : calls[i].entry.loc <= Top.entry.loc
    BY <1>1, LocationsOfTop
  <1>4. /\ Op = "RESTORE_LOCATION" => Known(Top).saved
        /\ Claims(Known(f), After(Program, Top.ip, Known(Top)))
    BY <1>1, <1>2, <1>3, KnownNext DEF TurnTo
  <1>5. /\ Known(f).reached
        /\ Known(f).saved => Known(Top).saved \/ Op = "SAVE_LOCATION"
    BY <1>4 DEF Claims, After, Op
  <1>6. /\ Len(calls') = Len(calls)
        /\ \A i \in 1 .. Len(calls) : calls'[i] = IF i = Depth THEN f ELSE calls[i]
    BY <1>1, <1>2, MovedIs DEF TurnTo
  <1>7. /\ Top.entry.loc <= loc'
        /\ f.entry = Top.entry
        /\ Known(f).saved => f.entry.loc <= f.loc
    BY <1>1, <1>2, <1>3, <1>4, <1>5 DEF TurnTo
  <1>8. /\ \A i \in 1 .. Len(calls) : calls[i].entry.loc \in Nat /\ calls'[i].entry = calls[i].entry
        /\ loc' \in Nat /\ Top.entry.loc \in Nat
    <2>1. \A i \in 1 .. Len(calls) : calls[i].entry.loc \in Nat
      BY FramesTyped, FrameFields
    <2>2. loc' \in Nat /\ Top.entry.loc \in Nat
      BY <1>1, Kept, FrameFields
    <2>3. \A i \in 1 .. Len(calls) : calls'[i].entry = calls[i].entry
      BY <1>1, <1>6, <1>7 DEF Top
    <2> QED
      BY <2>1, <2>2, <2>3
  <1>9. ASSUME NEW i \in 1 .. Len(calls)
        PROVE  /\ Known(calls'[i]).reached
               /\ calls'[i].entry.loc <= loc'
               /\ Known(calls'[i]).saved => calls'[i].entry.loc <= calls'[i].loc
    <2>1. calls'[i].entry.loc <= loc'
      BY <1>3, <1>7, <1>8
    <2>2. CASE i = Depth
      BY <1>5, <1>6, <1>7, <2>1, <2>2
    <2>3. CASE i # Depth
      BY <1>6, <2>1, <2>3 DEF LocationsInv
    <2> QED
      BY <2>2, <2>3
  <1>10. \A j \in 1 .. Len(calls) : \A i \in 1 .. j : calls'[i].entry.loc <= calls'[j].entry.loc
    BY <1>8, FramesTyped DEF LocationsInv
  <1> QED
    BY <1>6, <1>9, <1>10 DEF LocationsInv

LEMMA LocationsCall == IInv /\ LocationsInv /\ Call => LocationsInv'
  <1> SUFFICES ASSUME IInv, LocationsInv, Call PROVE LocationsInv'
    OBVIOUS
  <1> DEFINE g == Frame(Arg, Len(data), Len(results), Entry)
             n == Len(calls)
  <1>1. /\ AtInstr /\ Running /\ Op = "CALL" /\ Top \in Frames /\ loc' = loc
        /\ Depth = n /\ n \in Nat \ {0}
    BY TopIs DEF Call, Does, AtInstr, Depth
  <1>2. PICK f \in Frames :
          /\ f.parser = Top.parser /\ f.entry = Top.entry /\ f.loc = Top.loc
          /\ f.ip \in {Top.ip, Top.ip + 1}
          /\ g \in Frames
          /\ Len(calls') = n + 1 /\ calls'[n + 1] = g
          /\ \A i \in 1 .. n : calls'[i] = IF i = Depth THEN f ELSE calls[i]
    BY CalledIs
  <1>3. /\ Known(Top).reached /\ Top.entry.loc <= loc
        /\ Known(Top).saved => Top.entry.loc <= Top.loc
    BY <1>1, LocationsOfTop
  <1>4. Known(f).reached /\ (Known(f).saved => Known(Top).saved)
    <2>1. CASE f.ip = Top.ip
      BY <1>2, <1>3, <2>1 DEF Known
    <2>2. CASE f.ip = Top.ip + 1
      <3>1. f.ip \in Succ(Program, Top.ip)
        BY <1>1, <2>2 DEF Succ, Op
      <3>2. Claims(Known(f), After(Program, Top.ip, Known(Top)))
        BY <1>1, <1>2, <1>3, <3>1, KnownNext
      <3> QED
        BY <1>1, <3>2 DEF Claims, After, Op
    <2> QED
      BY <1>2, <2>1, <2>2
  <1>5. g.parser \in Ids /\ g.ip = 1 /\ g.entry.loc = loc
    BY <1>2, FrameFields DEF Frame, Entry
  <1>6. Known(g).reached /\ ~Known(g).saved
    BY <1>5, KnownAtStart, AtCallTyped
  <1> HIDE DEF g
  <1>7. \A i \in 1 .. n : calls'[i].entry = calls[i].entry /\ calls[i].entry.loc \in Nat
    <2>1. \A i \in 1 .. n : calls[i].entry.loc \in Nat
      BY FramesTyped, FrameFields
    <2> QED
      BY <1>1, <1>2, <2>1 DEF Top, Depth
  <1>8. ASSUME NEW i \in 1 .. n + 1
        PROVE  /\ Known(calls'[i]).reached
               /\ calls'[i].entry.loc <= loc'
               /\ Known(calls'[i]).saved => calls'[i].entry.loc <= calls'[i].loc
    <2>1. CASE i = n + 1
      BY <1>1, <1>2, <1>5, <1>6, <2>1, Kept
    <2>2. CASE i = n
      BY <1>1, <1>2, <1>3, <1>4, <2>2
    <2>3. CASE i \in 1 .. n - 1
      BY <1>1, <1>2, <2>3 DEF LocationsInv
    <2> QED
      BY <1>1, <2>1, <2>2, <2>3
  <1>9. ASSUME NEW j \in 1 .. n + 1, NEW i \in 1 .. j
        PROVE  calls'[i].entry.loc <= calls'[j].entry.loc
    <2>1. CASE j = n + 1 /\ i = n + 1
      BY <1>2, <1>5, <2>1, Kept
    <2>2. CASE j = n + 1 /\ i \in 1 .. n
      BY <1>1, <1>2, <1>5, <1>8, <2>2
    <2>3. CASE j \in 1 .. n
      BY <1>1, <1>7, <2>3 DEF LocationsInv
    <2> QED
      BY <1>1, <2>1, <2>2, <2>3
  <1> QED
    BY <1>2, <1>8, <1>9 DEF LocationsInv

LEMMA LookedUpIs ==
  ASSUME IInv, ResolveLookup
  PROVE  LET f == [Top EXCEPT !.parser = scope_lookup(Object.arg)] IN
         /\ Running /\ ~is_combinator(Object.type) /\ IsBound(Object.arg)
         /\ UNCHANGED <<root, room, data, loc, flags, scope, err>>
         /\ f \in Frames /\ f.parser = scope_lookup(Object.arg) /\ f.ip = 1
         /\ f.sp = Top.sp /\ f.entry = Top.entry /\ f.lost = Top.lost /\ f.rp = Top.rp
         /\ calls' = [calls EXCEPT ![Depth] = f]
         /\ Known(f) = AtCall /\ Known(Top) = AtCall
  <1> DEFINE q == scope_lookup(Object.arg)
             f == [Top EXCEPT !.parser = q]
  <1>1. /\ AtLookup /\ Running /\ IsBound(Object.arg) /\ ~is_combinator(Object.type)
        /\ UNCHANGED <<root, room, data, loc, flags, scope, err>>
    BY Parts DEF ResolveLookup, AtLookup
  <1>2. Top \in Frames /\ Known(Top) = AtCall /\ Top.ip = 1
    BY <1>1, TopIs, KnownTop
  <1>3. q \in Ids
    BY <1>1, LookupTyped DEF IInv
  <1>4. calls' = [calls EXCEPT ![Depth] = f]
    BY <1>1, TopIs DEF ResolveLookup, Top
  <1> HIDE DEF q
  <1>5. /\ f \in Frames /\ f.parser = q /\ f.ip = 1
        /\ f.sp = Top.sp /\ f.entry = Top.entry /\ f.lost = Top.lost /\ f.rp = Top.rp
    BY <1>2, <1>3 DEF Frames
  <1>6. Known(f) = AtCall
    <2> HIDE DEF f
    <2> QED
      BY <1>3, <1>5, KnownAtStart
  <1> QED
    BY <1>1, <1>2, <1>4, <1>5, <1>6 DEF q

LEMMA LocationsLookup == IInv /\ LocationsInv /\ ResolveLookup => LocationsInv'
  <1> SUFFICES ASSUME IInv, LocationsInv, ResolveLookup PROVE LocationsInv'
    OBVIOUS
  <1>1. PICK f \in Frames : /\ Running /\ loc' = loc /\ f.entry = Top.entry
                            /\ calls' = [calls EXCEPT ![Depth] = f]
                            /\ Known(f) = AtCall
    BY LookedUpIs
  <1>2. /\ Len(calls') = Len(calls)
        /\ \A i \in 1 .. Len(calls) : calls'[i] = IF i = Depth THEN f ELSE calls[i]
    BY <1>1, MovedIs
  <1>3. \A i \in 1 .. Len(calls) : calls'[i].entry = calls[i].entry
    BY <1>1, <1>2 DEF Top
  <1>4. ASSUME NEW i \in 1 .. Len(calls)
        PROVE  /\ Known(calls'[i]).reached
               /\ Known(calls'[i]).saved => calls'[i].entry.loc <= calls'[i].loc
    <2>1. CASE i = Depth
      BY <1>1, <1>2, <2>1, AtCallTyped
    <2>2. CASE i # Depth
      BY <1>2, <2>2 DEF LocationsInv
    <2> QED
      BY <2>1, <2>2
  <1> QED
    BY <1>1, <1>2, <1>3, <1>4, FramesTyped DEF LocationsInv

LEMMA LocationsLeave == IInv /\ LocationsInv /\ Leave => LocationsInv'
  <1> SUFFICES ASSUME IInv, LocationsInv, Leave PROVE LocationsInv'
    OBVIOUS
  <1>1. Running /\ calls' = Pop(calls) /\ loc' \in Nat /\ loc <= loc'
    BY DEF Leave, AtEnd, AtTerminal, AtLookup, AtOperand
  <1>2. /\ Len(calls') = Len(calls) - 1 /\ Len(calls) \in Nat
        /\ \A i \in 1 .. Len(calls) - 1 : calls'[i] = calls[i]
    BY <1>1, PoppedIs, FramesTyped
  <1>3. loc \in Nat /\ \A i \in 1 .. Len(calls) : calls[i].entry.loc \in Nat
    BY Kept, FramesTyped, FrameFields
  <1>4. ASSUME NEW i \in 1 .. Len(calls')
        PROVE  i \in 1 .. Len(calls) /\ calls'[i] = calls[i]
    BY <1>2
  <1>5. ASSUME NEW i \in 1 .. Len(calls')
        PROVE  /\ Known(calls'[i]).reached
               /\ calls'[i].entry.loc <= loc'
               /\ Known(calls'[i]).saved => calls'[i].entry.loc <= calls'[i].loc
    <2>1. calls[i].entry.loc <= loc
      BY <1>4, <1>5 DEF LocationsInv
    <2>2. calls[i].entry.loc <= loc'
      BY <1>1, <1>3, <1>4, <1>5, <2>1
    <2> QED
      BY <1>4, <1>5, <2>2 DEF LocationsInv
  <1>6. ASSUME NEW j \in 1 .. Len(calls'), NEW i \in 1 .. j
        PROVE  calls'[i].entry.loc <= calls'[j].entry.loc
    <2>1. i \in 1 .. Len(calls')
      BY <1>2
    <2> QED
      BY <1>4, <1>6, <2>1 DEF LocationsInv
  <1> QED
    BY <1>5, <1>6 DEF LocationsInv

LEMMA LocationsStill == LocationsInv /\ Still => LocationsInv'
  BY DEF Still, LocationsInv

LEMMA LocationsStart == Init => LocationsInv
  <1> SUFFICES ASSUME Init PROVE LocationsInv
    OBVIOUS
  <1> DEFINE f == Frame(root, 0, 0, Entry)
  <1>1. calls = <<f>> /\ Len(calls) = 1 /\ calls[1] = f /\ loc = 0
    BY DEF Init
  <1>2. f.parser \in Ids /\ f.ip = 1 /\ f.entry.loc = 0
    BY <1>1, EvalAssumption DEF Init, Frame, Entry
  <1>3. Known(f).reached /\ ~Known(f).saved
    BY <1>2, KnownAtStart, AtCallTyped
  <1> QED
    BY <1>1, <1>2, <1>3 DEF LocationsInv

LEMMA LocationsNext == IInv /\ LocationsInv /\ [Next]_vars => LocationsInv'
  BY StepIs, LocationsTurn, LocationsCall, LocationsLookup, LocationsLeave, LocationsStill

\* The invariant about locations holds throughout every parse, and so no parser of
\* any grammar ever moves the input back behind the place where it was called
\* (cc_eval.c:714-720, 751-769): not even one that takes an address for an opcode.
THEOREM LocationsNeverRewind == Spec => []NeverRewindsPastCall
  <1>1. Init => IInv /\ LocationsInv
    BY InitInv, LocationsStart
  <1>2. IInv /\ LocationsInv /\ [Next]_vars => (IInv /\ LocationsInv)'
    BY NextKeeps, LocationsNext
  <1>3. IInv /\ LocationsInv => NeverRewindsPastCall
    <2> SUFFICES ASSUME IInv, LocationsInv, NEW i \in DOMAIN calls
                 PROVE  calls[i].entry.loc <= loc
      BY DEF NeverRewindsPastCall
    <2>1. i \in 1 .. Len(calls)
      BY FramesTyped, LenProperties
    <2> QED
      BY <2>1 DEF LocationsInv
  <1> QED
    BY <1>1, <1>2, <1>3, PTL DEF Spec

-----------------------------------------------------------------------------
(* The room of the call stack. *)

RoomInv ==
  /\ room \in Nat /\ room >= CallStackCap
  /\ room = CallStackCap => NoneLost

LEMMA RoomStart == Init => RoomInv
  <1> SUFFICES ASSUME Init PROVE RoomInv
    OBVIOUS
  <1>1. Len(calls) = 1 /\ ~calls[1].lost
    BY DEF Init, Frame
  <1> QED
    BY <1>1, EvalAssumption DEF Init, RoomInv, NoneLost

\* A call stack that grew once stays grown.
LEMMA RoomNext ==
  IInv /\ RoomInv /\ [Next]_vars => RoomInv' /\ (room' = CallStackCap => room = CallStackCap)
  <1> SUFFICES ASSUME IInv, RoomInv, [Next]_vars
               PROVE  RoomInv' /\ (room' = CallStackCap => room = CallStackCap)
    OBVIOUS
  <1> CallStackCap \in Nat \ {0}
    BY EvalAssumption
  <1>1. CASE Call
    <2>1. Depth = Len(calls) /\ Depth \in Nat \ {0} /\ room' = IF Depth = room THEN 2 * room ELSE room
      BY <1>1, TopIs DEF Call, Does, AtInstr, Depth
    <2>2. PICK f, g \in Frames :
            /\ f.lost => Top.lost \/ Depth = room
            /\ ~g.lost /\ Len(calls') = Len(calls) + 1 /\ calls'[Len(calls) + 1] = g
            /\ \A i \in 1 .. Len(calls) : calls'[i] = IF i = Depth THEN f ELSE calls[i]
      BY <1>1, CalledIs DEF Frame
    <2>3. room' \in Nat /\ room' >= CallStackCap
          /\ (room' = CallStackCap => room = CallStackCap /\ Depth # room)
      BY <2>1 DEF RoomInv
    <2>4. ASSUME room' = CallStackCap
          PROVE  NoneLost'
      <3>1. NoneLost /\ Depth # room
        BY <2>3, <2>4 DEF RoomInv
      <3>2. ~f.lost
        BY <2>1, <2>2, <3>1 DEF NoneLost, Top
      <3> QED
        BY <2>1, <2>2, <3>1, <3>2 DEF NoneLost
    <2> QED
      BY <2>3, <2>4 DEF RoomInv
  <1>2. CASE Turn
    <2>1. Running /\ room' = room /\ Depth \in 1 .. Len(calls)
      BY <1>2, TopIs DEF Turn, AtInstr
    <2>2. PICK f \in Frames : f.lost = Top.lost /\ calls' = [calls EXCEPT ![Depth] = f]
      BY <1>2 DEF Turn, TurnTo
    <2> QED
      BY <2>1, <2>2, MovedIs DEF RoomInv, NoneLost, Top
  <1>3. CASE ResolveLookup
    <2>1. PICK f \in Frames : /\ Running /\ room' = room /\ f.lost = Top.lost
                              /\ calls' = [calls EXCEPT ![Depth] = f]
      BY <1>3, LookedUpIs
    <2>2. Depth \in 1 .. Len(calls)
      BY <2>1, TopIs
    <2> QED
      BY <2>1, <2>2, MovedIs DEF RoomInv, NoneLost, Top
  <1>4. CASE Leave
    <2>1. Running /\ room' = room /\ calls' = Pop(calls) /\ Len(calls) \in Nat
      BY <1>4, FramesTyped DEF Leave, AtEnd, AtTerminal, AtLookup, AtOperand
    <2>2. /\ Len(calls') = Len(calls) - 1
          /\ \A i \in 1 .. Len(calls) - 1 : calls'[i] = calls[i]
      BY <2>1, PoppedIs
    <2> QED
      BY <2>1, <2>2 DEF RoomInv, NoneLost
  <1>5. CASE Still
    BY <1>5 DEF Still, RoomInv, NoneLost
  <1> QED
    BY <1>1, <1>2, <1>3, <1>4, <1>5, StepIs

-----------------------------------------------------------------------------
(* The scope. *)

LEMMA PopOfAppend ==
  ASSUME NEW S, NEW s \in Seq(S), NEW b
  PROVE  Pop(Append(s, b)) = s
  <1> DEFINE B == S \cup {b}
             t == Append(s, b)
  <1>1. s \in Seq(B) /\ b \in B /\ Len(s) \in Nat
    BY SeqMonotonic, LenProperties
  <1> HIDE DEF B
  <1>2. t \in Seq(B) /\ Len(t) = Len(s) + 1 /\ \A i \in 1 .. Len(s) : t[i] = s[i]
    BY <1>1, AppendProperties
  <1> HIDE DEF t
  <1>3. t # <<>>
    BY <1>1, <1>2, EmptySeq
  <1>4. /\ Pop(t) \in Seq(B) /\ Len(Pop(t)) = Len(t) - 1
        /\ \A i \in 1 .. Len(t) - 1 : Pop(t)[i] = t[i]
    BY <1>2, <1>3, PopIs
  <1>5. Len(Pop(t)) = Len(s) /\ \A i \in 1 .. Len(s) : Pop(t)[i] = s[i]
    BY <1>1, <1>2, <1>4
  <1>6. Pop(t) = s
    BY <1>1, <1>4, <1>5, SeqEqual
  <1> QED
    BY <1>6 DEF t

LEMMA ScopeTurn == IInv /\ LocationsInv /\ ScopeInv /\ Turn => ScopeInv'
  <1> SUFFICES ASSUME IInv, LocationsInv, ScopeInv, Turn PROVE ScopeInv'
    OBVIOUS
  <1>1. /\ AtInstr /\ Running /\ Depth \in 1 .. Len(calls) /\ Depth = Len(calls) /\ calls # <<>>
        /\ scope' = CASE Op = "PUSH_BINDING" -> Append(scope, Object.arg)
                      [] Op = "POP_BINDING" -> Pop(scope)
                      [] OTHER -> scope
    BY TopIs DEF Turn, AtInstr, Running, Depth
  <1>2. PICK f \in Frames : TurnTo(f)
    BY DEF Turn
  <1>3. Known(Top).reached
    BY <1>1, LocationsOfTop
  <1>4. /\ Op = "PUSH_BINDING" => ~Known(Top).bound
        /\ Op = "POP_BINDING" => Known(Top).bound
        /\ Claims(Known(f), After(Program, Top.ip, Known(Top)))
    BY <1>1, <1>2, <1>3, KnownNext DEF TurnTo
  <1>5. Known(f).bound = (Op = "PUSH_BINDING" \/ (Known(Top).bound /\ Op # "POP_BINDING"))
    BY <1>4 DEF Claims, After, Op
  <1>6. /\ Len(calls') = Len(calls) /\ Top' = f
        /\ \A i \in 1 .. Len(calls) : calls'[i] = IF i = Depth THEN f ELSE calls[i]
    BY <1>1, <1>2, MovedIs DEF TurnTo
  <1>7. f.entry = Top.entry /\ f.parser = Top.parser
    BY <1>2 DEF TurnTo
  <1>8. scope' = InScope(f)
    <2>1. scope = InScope(Top)
      BY <1>1 DEF ScopeInv
    <2>2. CASE Op = "PUSH_BINDING"
      BY <1>1, <1>4, <1>5, <1>7, <2>1, <2>2 DEF InScope, Object
    <2>3. CASE Op = "POP_BINDING"
      <3> DEFINE s == Top.entry.scope
                 b == Object.arg
      <3>1. s \in Seq(Bindings)
        BY <1>1, TopIs, FrameFields
      <3> HIDE DEF s, b
      <3>5. Pop(Append(s, b)) = s
        BY <3>1, PopOfAppend
      <3>6. scope = Append(s, b)
        BY <1>4, <2>1, <2>3 DEF InScope, s, b, Object
      <3>7. InScope(f) = s
        BY <1>5, <1>7, <2>3 DEF InScope, s
      <3>8. scope' = Pop(scope)
        BY <1>1, <2>3
      <3> QED
        BY <3>5, <3>6, <3>7, <3>8
    <2>4. CASE Op \notin {"PUSH_BINDING", "POP_BINDING"}
      BY <1>1, <1>5, <1>7, <2>1, <2>4 DEF InScope
    <2> QED
      BY <2>2, <2>3, <2>4
  <1>9. ASSUME NEW i \in 1 .. Len(calls) - 1
        PROVE  calls'[i + 1].entry.scope = InScope(calls'[i])
    <2>1. calls'[i] = calls[i] /\ calls'[i + 1].entry = calls[i + 1].entry
      BY <1>1, <1>6, <1>7 DEF Top
    <2>2. calls[i + 1].entry.scope = InScope(calls[i])
      BY DEF ScopeInv
    <2> QED
      BY <2>1, <2>2
  <1>10. (InScope(Top))' = InScope(f)
    BY <1>6 DEF InScope, Known
  <1> QED
    BY <1>6, <1>8, <1>9, <1>10 DEF ScopeInv, InScope, Known
LEMMA ScopeCall == IInv /\ LocationsInv /\ ScopeInv /\ Call => ScopeInv'
  <1> SUFFICES ASSUME IInv, LocationsInv, ScopeInv, Call PROVE ScopeInv'
    OBVIOUS
  <1> DEFINE g == Frame(Arg, Len(data), Len(results), Entry)
             n == Len(calls)
  <1>1. /\ AtInstr /\ Running /\ Op = "CALL" /\ calls # <<>> /\ scope' = scope
        /\ Depth = n /\ n \in Nat \ {0} /\ n \in 1 .. n
    BY TopIs DEF Call, Does, AtInstr, Running, Depth
  <1>2. PICK f \in Frames :
          /\ f.parser = Top.parser /\ f.entry = Top.entry
          /\ f.ip \in {Top.ip, Top.ip + 1}
          /\ g \in Frames
          /\ Len(calls') = n + 1 /\ Top' = g /\ calls'[n + 1] = g
          /\ \A i \in 1 .. n : calls'[i] = IF i = Depth THEN f ELSE calls[i]
    BY CalledIs
  <1>3. Known(f).bound = Known(Top).bound
    <2>1. CASE f.ip = Top.ip
      BY <1>2, <2>1 DEF Known
    <2>2. CASE f.ip = Top.ip + 1
      <3>1. f.ip \in Succ(Program, Top.ip)
        BY <1>1, <2>2 DEF Succ, Op
      <3>2. Claims(Known(f), After(Program, Top.ip, Known(Top)))
        BY <1>1, <1>2, <3>1, KnownNext, LocationsOfTop
      <3>3. Known(f) \in FactSet /\ Known(Top) \in FactSet
        BY <1>1, <1>2, <3>1, KnownNext, LocationsOfTop, KnownTop
      <3> QED
        BY <1>1, <3>2, <3>3 DEF Claims, After, Op, FactSet
    <2> QED
      BY <1>2, <2>1, <2>2
  <1>4. g.entry.scope = scope /\ InScope(g) = g.entry.scope
    <2>1. g.parser \in Ids /\ g.ip = 1 /\ g.entry.scope = scope
      BY <1>2, FrameFields DEF Frame, Entry
    <2> HIDE DEF g
    <2> QED
      BY <2>1, KnownAtStart, AtCallTyped DEF InScope
  <1> HIDE DEF g
  <1>5. scope = InScope(Top) /\ InScope(f) = InScope(Top)
    BY <1>1, <1>2, <1>3 DEF ScopeInv, InScope
  <1>6. ASSUME NEW i \in 1 .. n
        PROVE  calls'[i + 1].entry.scope = InScope(calls'[i])
    <2>1. CASE i = n
      BY <1>1, <1>2, <1>4, <1>5, <2>1
    <2>2. CASE i \in 1 .. n - 1
      <3>1. calls'[i] = calls[i] /\ calls'[i + 1].entry = calls[i + 1].entry
        BY <1>1, <1>2, <2>2 DEF Top
      <3> QED
        BY <2>2, <3>1 DEF ScopeInv
    <2> QED
      BY <1>1, <2>1, <2>2
  <1>7. scope' = InScope(Top')
    BY <1>1, <1>2, <1>4
  <1> QED
    BY <1>1, <1>2, <1>6, <1>7 DEF ScopeInv

LEMMA ScopeLookup == IInv /\ ScopeInv /\ ResolveLookup => ScopeInv'
  <1> SUFFICES ASSUME IInv, ScopeInv, ResolveLookup PROVE ScopeInv'
    OBVIOUS
  <1>1. PICK f \in Frames : /\ Running /\ scope' = scope /\ f.entry = Top.entry
                            /\ calls' = [calls EXCEPT ![Depth] = f]
                            /\ Known(f) = AtCall /\ Known(Top) = AtCall
    BY LookedUpIs
  <1>2. /\ Len(calls') = Len(calls) /\ Top' = f /\ Depth \in 1 .. Len(calls)
        /\ \A i \in 1 .. Len(calls) : calls'[i] = IF i = Depth THEN f ELSE calls[i]
        /\ Depth = Len(calls) /\ calls # <<>> /\ f.entry = Top.entry
    BY <1>1, MovedIs, TopIs DEF Depth, Running
  <1>3. InScope(f) = InScope(Top) /\ scope = InScope(Top)
    BY <1>1, <1>2, AtCallTyped DEF InScope, ScopeInv
  <1>4. ASSUME NEW i \in 1 .. Len(calls) - 1
        PROVE  calls'[i + 1].entry.scope = InScope(calls'[i])
    <2>1. calls'[i] = calls[i] /\ calls'[i + 1].entry = calls[i + 1].entry
      BY <1>2 DEF Top
    <2> QED
      BY <2>1 DEF ScopeInv
  <1>5. scope' = InScope(Top')
    BY <1>1, <1>2, <1>3
  <1> QED
    BY <1>2, <1>4, <1>5 DEF ScopeInv

\* A frame returns with the scope of its call.
LEMMA ScopeAtReturn ==
  ASSUME IInv, LocationsInv, ScopeInv, NoneLost, Leave
  PROVE  scope' = Top.entry.scope
  <1>1. /\ AtEnd \/ AtTerminal \/ AtLookup \/ AtOperand
        /\ Running /\ scope' = scope /\ calls # <<>> /\ Depth \in 1 .. Len(calls)
    BY TopIs DEF Leave, AtEnd, AtTerminal, AtLookup, AtOperand, Running
  <1>2. ~Top.lost
    BY <1>1 DEF NoneLost, Top
  <1>3. ~Known(Top).bound
    <2>1. CASE AtEnd
      BY <1>1, <2>1, KnownAtEnd, LocationsOfTop
    <2>2. CASE ~AtEnd
      <3>1. ~is_combinator(Object.type)
        BY <1>1, <1>2, <2>2, Parts
      <3> QED
        BY <1>1, <3>1, KnownTop, AtCallTyped
    <2> QED
      BY <2>1, <2>2
  <1>4. scope = InScope(Top)
    BY <1>1 DEF ScopeInv
  <1> QED
    BY <1>1, <1>3, <1>4 DEF InScope

LEMMA ScopeLeave == IInv /\ LocationsInv /\ ScopeInv /\ NoneLost /\ Leave => ScopeInv'
  <1> SUFFICES ASSUME IInv, LocationsInv, ScopeInv, NoneLost, Leave PROVE ScopeInv'
    OBVIOUS
  <1>1. Running /\ calls' = Pop(calls) /\ Depth \in 1 .. Len(calls) /\ Depth = Len(calls)
    BY TopIs DEF Leave, AtEnd, AtTerminal, AtLookup, AtOperand, Depth
  <1>2. /\ Len(calls') = Len(calls) - 1
        /\ \A i \in 1 .. Len(calls) - 1 : calls'[i] = calls[i]
        /\ calls' # <<>> => Len(calls) - 1 \in 1 .. Len(calls) /\ Top' = calls[Len(calls) - 1]
    BY <1>1, PoppedIs
  <1>3. calls' # <<>> => scope' = InScope(Top')
    <2>1. scope' = Top.entry.scope
      BY ScopeAtReturn
    <2>2. ASSUME Len(calls) - 1 \in 1 .. Len(calls)
          PROVE  calls[Len(calls) - 1 + 1].entry.scope = InScope(calls[Len(calls) - 1])
      BY <1>1, <2>2 DEF ScopeInv
    <2>3. Len(calls) - 1 + 1 = Depth
      BY <1>1
    <2> QED
      BY <1>2, <2>1, <2>2, <2>3 DEF Top
  <1>4. \A i \in 1 .. Len(calls') - 1 : calls'[i + 1].entry.scope = InScope(calls'[i])
    BY <1>1, <1>2 DEF ScopeInv
  <1> QED
    BY <1>3, <1>4 DEF ScopeInv

LEMMA ScopeStill == ScopeInv /\ Still => ScopeInv'
  BY DEF Still, ScopeInv, Top, Depth

LEMMA ScopeStart == Init => ScopeInv
  <1> SUFFICES ASSUME Init PROVE ScopeInv
    OBVIOUS
  <1> DEFINE f == Frame(root, 0, 0, Entry)
  <1>1. calls = <<f>> /\ Len(calls) = 1 /\ calls[1] = f /\ Top = f
    BY DEF Init, Top, Depth
  <1>2. f.parser \in Ids /\ f.ip = 1 /\ f.entry.scope = scope
    BY <1>1, EvalAssumption DEF Init, Frame, Entry
  <1> HIDE DEF f
  <1>3. InScope(f) = f.entry.scope
    BY <1>2, KnownAtStart, AtCallTyped DEF InScope
  <1> QED
    BY <1>1, <1>2, <1>3 DEF ScopeInv

LEMMA ScopeNext == IInv /\ LocationsInv /\ ScopeInv /\ NoneLost /\ [Next]_vars => ScopeInv'
  BY StepIs, ScopeTurn, ScopeCall, ScopeLookup, ScopeLeave, ScopeStill
-----------------------------------------------------------------------------
(* The flags and the words that keep them. *)

\* A frame of a tidy parser knows of words of its own only.
LEMMA TidyFrame ==
  ASSUME NEW f, f.parser \in Tidy, Standing(f), Known(f).reached
  PROVE  /\ Owned(f) \in Nat
         /\ \A j \in Tracked : Known(f).words[j] # "unknown" => j <= Owned(f)
         /\ Known(f).noerror \in {"set", "noerror"}
  <1>1. f.parser \in Ids
    BY TidyRestores
  <1>2. CASE is_combinator(Parsers[f.parser].type)
    <2>1. f.parser \in DOMAIN Code /\ f.ip \in Points(Code[f.parser])
      BY <1>1, <1>2 DEF Code, Standing
    <2>2. Restores(Parsers[f.parser], Code[f.parser], Facts[f.parser], Height[f.parser])
      BY <2>1, TidyRestores
    <2>3. Known(f) = Facts[f.parser][f.ip] /\ Owned(f) = Height[f.parser][f.ip]
      BY <1>2 DEF Known, Owned
    <2>4. Owned(f) \in Nat
      BY <2>1, <2>3, CodeVerified DEF Verified
    <2> QED
      BY <2>1, <2>2, <2>3, <2>4 DEF Restores
  <1>3. CASE ~is_combinator(Parsers[f.parser].type)
    BY <1>3 DEF Known, Owned, AtCall, Nothing
  <1> QED
    BY <1>2, <1>3

LEMMA TidyFrames ==
  ASSUME IInv, Running, LocationsInv, OnlyTidy, NEW i \in 1 .. Len(calls)
  PROVE  /\ calls[i].parser \in Tidy /\ Known(calls[i]).reached
         /\ Owned(calls[i]) \in Nat
         /\ \A j \in Tracked : Known(calls[i]).words[j] # "unknown" => j <= Owned(calls[i])
         /\ Known(calls[i]).noerror \in {"set", "noerror"}
  <1>1. calls[i].parser \in Tidy /\ Known(calls[i]).reached
    BY DEF OnlyTidy, LocationsInv
  <1>2. Standing(calls[i])
    BY TopIs DEF FramesStand
  <1> QED
    BY <1>1, <1>2, TidyFrame

\* The instruction of a tidy parser.
LEMMA TidyInstr ==
  ASSUME IInv, AtInstr, Top.parser \in Tidy, Known(Top).reached
  PROVE  /\ Op = "CALL" => Arg \in Tidy
         /\ Op = "CALL" /\ Silent(Top) => Known(Top).noerror = "set"
         /\ Op = "FOLD" /\ Object.fold = NoFold => Known(Top).noreturn = "set"
         /\ Op = "PUSH_BINDING" => Object.arg.p \in Tidy
  <1>1. /\ Top.parser \in DOMAIN Code /\ Top.ip \in DOMAIN Program /\ is_combinator(Object.type)
        /\ OperandFits(Object.type, Program[Top.ip], Ids, Words, Points(Program))
    BY InstrIs DEF AtInstr
  <1>2. Known(Top) = Facts[Top.parser][Top.ip]
    BY <1>1 DEF Known, Object
  <1>3. /\ Restores(Object, Program, Facts[Top.parser], Height[Top.parser])
        /\ Program[Top.ip].op = "CALL" => Program[Top.ip].arg \in Tidy
    BY <1>1, TidyRestores DEF Object, Program
  <1>4. Op = "PUSH_BINDING" => Object.type = "BIND"
    BY <1>1 DEF OperandFits, Op
  <1>5. Op = "PUSH_BINDING" => Object.arg.p \in Tidy
    BY <1>4, TidyRestores DEF Object
  <1> QED
    BY <1>1, <1>2, <1>3, <1>5 DEF Restores, Op, Arg, Silent, Object

LEMMA BitIs == \A b \in BOOLEAN : Bit(b) # 0 <=> b
  BY DEF Bit

\* An instruction leaves the words below its frame alone.
LEMMA TurnKeepsBelow ==
  ASSUME IInv, Turn
  PROVE  \A x \in 1 .. Top.sp : data'[x] = data[x]
  <1>1. /\ AtInstr /\ Running /\ data \in Seq(Words) /\ Len(data) \in Nat /\ Top.sp \in Nat
        /\ Owned(Top) \in Nat /\ Top.sp + Owned(Top) <= Len(data) /\ Needs(Op) <= Owned(Top)
    BY InstrIs, TopIs, LenIsNat DEF Turn, AtInstr, IInv, TypeOK
  <1>2. CASE Op \in {"PUSH", "DUP"}
    <2>1. \E w \in Words : data' = Append(data, w)
      <3>1. Op = "PUSH" => Arg \in Words
        BY <1>1, InstrIs DEF OperandFits, Op, Arg
      <3>2. Op = "DUP" => Word \in Words
        BY <1>1, WordsAreThere DEF Needs
      <3> QED
        BY <1>2, <3>1, <3>2 DEF Turn, DataTurn, Jumps
    <2> QED
      BY <1>1, <2>1, AppendProperties
  <1>3. CASE Op \in {"POP", "FOLD"} \cup (Jumps \ {"JUMP"})
    <2>1. data' = Pop(data) /\ Needs(Op) = 1
      BY <1>3 DEF Turn, DataTurn, Jumps, Needs
    <2>2. data # <<>>
      BY <1>1, <2>1, EmptySeq
    <2> QED
      BY <1>1, <2>1, <2>2, PopIs
  <1>4. CASE Op = "SWAP"
    <2>1. Needs(Op) = 2
      BY <1>4 DEF Needs
    <2>2. data' = [data EXCEPT ![Len(data)] = data[Len(data) - 1], ![Len(data) - 1] = Word]
      BY <1>4 DEF Turn, DataTurn, Jumps
    <2>3. DOMAIN data = 1 .. Len(data)
      BY <1>1, LenProperties
    <2> QED
      BY <1>1, <2>1, <2>2, <2>3
  <1>5. CASE Op \in {"NEGATE", "INCREMENT", "DECREMENT", "SET_NORETURN", "SET_NOERROR"}
    <2>1. Needs(Op) = 1
      BY <1>5 DEF Needs
    <2>2. PICK w \in Words : data' = SetTop(w)
      BY <1>5, WordArithmetic DEF Turn, DataTurn, Jumps
    <2>3. Len(data) \in 1 .. Len(data)
      BY <1>1, <2>1
    <2>4. \A i \in 1 .. Len(data) : data'[i] = IF i = Len(data) THEN w ELSE data[i]
      BY <1>1, <2>2, <2>3, ExceptSeq DEF SetTop
    <2> QED
      BY <1>1, <2>1, <2>4
  <1>6. CASE data' = data
    BY <1>6
  <1> QED
    BY <1>2, <1>3, <1>4, <1>5, <1>6 DEF Turn, DataTurn

\* The words that are known after an instruction: each was known before it, or is a
\* constant, or the flag that the instruction put on the stack.
Same(tag, j, m) ==
  /\ tag = Known(Top).words[m]
  /\ data'[Len(data') - j + 1] = data[Len(data) - m + 1]

WordFrom(tag, j) ==
  \/ \E m \in Tracked : Same(tag, j, m)
  \/ tag = "set" /\ data'[Len(data') - j + 1] # 0
  \/ tag = Known(Top).noreturn /\ data'[Len(data') - j + 1] = Bit(flags.noreturn)
  \/ tag = Known(Top).noerror /\ data'[Len(data') - j + 1] = Bit(flags.noerror)

LEMMA TurnWords ==
  ASSUME IInv, Turn, LocationsInv, OnlyTidy, NEW j \in Tracked,
         NEW tag, tag = WordsAfter(Program, Top.ip, Known(Top))[j], tag # "unknown"
  PROVE  WordFrom(tag, j)
  <1> DEFINE w == Known(Top).words
             n == Len(data)
  <1>1. /\ AtInstr /\ Running /\ data \in Seq(Words) /\ n \in Nat /\ DOMAIN data = 1 .. n
        /\ Depth \in 1 .. Len(calls) /\ Needs(Op) <= n
    BY TopIs, LenProperties, WordsAreThere DEF Turn, AtInstr, IInv, TypeOK
  <1>2. \A m \in Tracked : w[m] # "unknown" => m <= n
    <2>1. /\ Top.sp \in Nat /\ Top.sp + Owned(Top) <= n /\ Owned(Top) \in Nat
          /\ \A m \in Tracked : w[m] # "unknown" => m <= Owned(Top)
      BY <1>1, TopIs, TidyFrames DEF Top
    <2> QED
      BY <1>1, <2>1 DEF Tracked
  <1>3. Known(Top) \in FactSet /\ w \in [Tracked -> Tags]
    BY <1>1, KnownTop DEF FactSet
  <1>4. tag = CASE Op = "PUSH"         -> Pushed(w, Constant(Program, Top.ip))[j]
                [] Op = "DUP"          -> Pushed(w, w[1])[j]
                [] Op = "CALL"         -> Pushed(w, "unknown")[j]
                [] Op \in {"POP", "FOLD"} \cup (Jumps \ {"JUMP"}) -> Dropped(w)[j]
                [] Op = "SWAP"         -> [w EXCEPT ![1] = w[2], ![2] = w[1]][j]
                [] Op \in {"NEGATE", "INCREMENT", "DECREMENT"} -> [w EXCEPT ![1] = "unknown"][j]
                [] Op = "SET_NORETURN" -> [w EXCEPT ![1] = Known(Top).noreturn][j]
                [] Op = "SET_NOERROR"  -> [w EXCEPT ![1] = Known(Top).noerror][j]
                [] OTHER               -> w[j]
    BY DEF WordsAfter, Op
  <1> HIDE DEF w
  <1>5. CASE Op \in {"PUSH", "DUP"}
    <2> DEFINE x == IF Op = "PUSH" THEN Arg ELSE Word
    <2>1. data' = Append(data, x)
      BY <1>5 DEF Turn, DataTurn, Jumps
    <2>2. x \in Words
      <3>1. Op = "PUSH" => Arg \in Words
        BY <1>1, InstrIs DEF OperandFits, Op, Arg
      <3>2. Op = "DUP" => Word \in Words
        BY <1>1, WordsAreThere DEF Needs
      <3> QED
        BY <1>5, <3>1, <3>2
    <2> HIDE DEF x
    <2>3. Len(data') = n + 1 /\ data'[n + 1] = x /\ \A i \in 1 .. n : data'[i] = data[i]
      BY <1>1, <2>1, <2>2, AppendProperties
    <2>4. CASE j = 1 /\ Op = "PUSH"
      <3>1. tag = Constant(Program, Top.ip)
        <4>1. tag = Pushed(w, Constant(Program, Top.ip))[j]
          BY <1>4, <2>4 DEF Jumps
        <4> QED
          BY <2>4, <4>1 DEF Pushed
      <3>2. tag = "set" /\ x # 0
        BY <2>4, <3>1 DEF Constant, x, Arg
      <3>3. data'[Len(data') - j + 1] = x
        BY <1>1, <2>3, <2>4
      <3> QED
        BY <3>2, <3>3 DEF WordFrom
    <2>5. CASE j = 1 /\ Op = "DUP"
      <3>1. tag = w[1] /\ 1 \in Tracked
        <4>1. tag = Pushed(w, w[1])[j]
          BY <1>4, <2>5 DEF Jumps
        <4> QED
          BY <2>5, <4>1 DEF Pushed, Tracked
      <3>2. data'[Len(data') - j + 1] = data[n - 1 + 1]
        BY <1>1, <2>3, <2>5 DEF x, Word
      <3> QED
        BY <3>1, <3>2 DEF WordFrom, Same, w
    <2>6. CASE j # 1
      <3>1. tag = w[j - 1] /\ j - 1 \in Tracked /\ j \in Int
        <4>1. \E t : tag = Pushed(w, t)[j]
          BY <1>4, <1>5 DEF Jumps
        <4> QED
          BY <2>6, <4>1 DEF Pushed, Tracked
      <3>2. j - 1 <= n /\ j - 1 >= 1
        BY <1>2, <3>1 DEF Tracked
      <3>3. data'[Len(data') - j + 1] = data[n - (j - 1) + 1]
        BY <1>1, <2>3, <3>1, <3>2
      <3> QED
        BY <3>1, <3>3 DEF WordFrom, Same, w
    <2> QED
      BY <1>5, <2>4, <2>5, <2>6
  <1>6. CASE Op \in {"POP", "FOLD"} \cup (Jumps \ {"JUMP"})
    <2>1. data' = Pop(data) /\ Needs(Op) = 1
      BY <1>6 DEF Turn, DataTurn, Jumps, Needs
    <2>2. data # <<>>
      BY <1>1, <2>1, EmptySeq
    <2>3. Len(data') = n - 1 /\ \A i \in 1 .. n - 1 : data'[i] = data[i]
      BY <1>1, <2>1, <2>2, PopIs
    <2>4. tag = w[j + 1] /\ j + 1 \in Tracked /\ j \in Int
      BY <1>4, <1>6 DEF Dropped, Tracked, Jumps
    <2>5. j + 1 <= n /\ j >= 1
      BY <1>2, <2>4 DEF Tracked
    <2>6. data'[Len(data') - j + 1] = data[n - (j + 1) + 1]
      BY <1>1, <2>3, <2>4, <2>5
    <2> QED
      BY <2>4, <2>6 DEF WordFrom, Same, w
  <1>7. CASE Op = "SWAP"
    <2>1. /\ data' = [data EXCEPT ![n] = data[n - 1], ![n - 1] = Word]
          /\ Needs(Op) = 2
      BY <1>7 DEF Turn, DataTurn, Jumps, Needs
    <2>2. /\ Len(data') = n
          /\ data'[n] = data[n - 1] /\ data'[n - 1] = data[n]
          /\ \A i \in 1 .. n - 2 : data'[i] = data[i]
      <3> DEFINE u == [data EXCEPT ![n] = data[n - 1]]
                 v == [u EXCEPT ![n - 1] = Word]
      <3>1. n \in 1 .. n /\ n - 1 \in 1 .. n /\ data[n] \in Words /\ data[n - 1] \in Words
        BY <1>1, <2>1, ElementOfSeq
      <3>2. /\ u \in Seq(Words) /\ Len(u) = n
            /\ \A i \in 1 .. n : u[i] = IF i = n THEN data[n - 1] ELSE data[i]
        BY <1>1, <3>1, ExceptSeq
      <3>3. data' = v
        BY <2>1
      <3> HIDE DEF u
      <3>4. /\ Len(v) = n
            /\ \A i \in 1 .. n : v[i] = IF i = n - 1 THEN data[n] ELSE u[i]
        BY <3>1, <3>2, ExceptSeq DEF Word
      <3> HIDE DEF v
      <3>5. /\ Len(data') = n
            /\ \A i \in 1 .. n : data'[i] = IF i = n - 1 THEN data[n] ELSE u[i]
        BY <3>3, <3>4
      <3>6. n \in Nat /\ n >= 2
        BY <1>1, <2>1
      <3>7. data'[n] = data[n - 1]
        BY <3>1, <3>2, <3>5
      <3>8. data'[n - 1] = data[n]
        BY <3>1, <3>5
      <3>9. ASSUME NEW i \in 1 .. n - 2 PROVE data'[i] = data[i]
        <4>1. i \in 1 .. n /\ i # n /\ i # n - 1
          BY <3>6
        <4> QED
          BY <3>2, <3>5, <4>1
      <3> QED
        BY <3>5, <3>7, <3>8, <3>9
    <2>3. tag = [w EXCEPT ![1] = w[2], ![2] = w[1]][j]
      BY <1>4, <1>7
    <2>4. CASE j \in {1, 2}
      <3>1. tag = w[3 - j] /\ 3 - j \in Tracked
        BY <1>3, <2>3, <2>4 DEF Tracked
      <3>2. data'[Len(data') - j + 1] = data[n - (3 - j) + 1]
        BY <1>1, <2>2, <2>4
      <3> QED
        BY <3>1, <3>2 DEF WordFrom, Same, w
    <2>5. CASE j \notin {1, 2}
      <3>1. tag = w[j] /\ j \in 3 .. 6
        BY <1>3, <2>3, <2>5 DEF Tracked
      <3>2. j <= n
        BY <1>2, <3>1
      <3>3. data'[Len(data') - j + 1] = data[n - j + 1]
        <4>1. n - j + 1 \in 1 .. n - 2 /\ Len(data') - j + 1 = n - j + 1
          BY <1>1, <2>2, <3>1, <3>2
        <4> QED
          BY <2>2, <4>1
      <3> QED
        BY <3>1, <3>3 DEF WordFrom, Same, w
    <2> QED
      BY <2>4, <2>5
  <1>8. CASE Op \in {"NEGATE", "INCREMENT", "DECREMENT", "SET_NORETURN", "SET_NOERROR"}
    <2>1. Needs(Op) = 1 /\ n \in 1 .. n
      BY <1>1, <1>8 DEF Needs
    <2>2. PICK x \in Words : /\ data' = SetTop(x)
                             /\ Op = "SET_NORETURN" => x = Bit(flags.noreturn)
                             /\ Op = "SET_NOERROR" => x = Bit(flags.noerror)
      BY <1>8, WordArithmetic DEF Turn, DataTurn, Jumps
    <2>3. Len(data') = n /\ data'[n] = x /\ \A i \in 1 .. n - 1 : data'[i] = data[i]
      <3>1. /\ Len(data') = n
            /\ \A i \in 1 .. n : data'[i] = IF i = n THEN x ELSE data[i]
        BY <1>1, <2>1, <2>2, ExceptSeq DEF SetTop
      <3>2. n \in Nat /\ n \in 1 .. n
        BY <1>1, <2>1
      <3>3. data'[n] = x
        BY <3>1, <3>2
      <3>4. ASSUME NEW i \in 1 .. n - 1 PROVE data'[i] = data[i]
        <4>1. i \in 1 .. n /\ i # n
          BY <3>2
        <4> QED
          BY <3>1, <4>1
      <3> QED
        BY <3>1, <3>3, <3>4
    <2>4. CASE j = 1
      <3>1. data'[Len(data') - j + 1] = x
        BY <1>1, <2>3, <2>4
      <3>2. \/ Op = "SET_NORETURN" /\ tag = Known(Top).noreturn
            \/ Op = "SET_NOERROR" /\ tag = Known(Top).noerror
        BY <1>3, <1>4, <1>8, <2>4 DEF Tracked, Jumps
      <3> QED
        BY <2>2, <3>1, <3>2 DEF WordFrom
    <2>5. CASE j # 1
      <3>1. tag = w[j]
        BY <1>3, <1>4, <1>8, <2>5 DEF Tracked, Jumps
      <3>2. j \in 2 .. 6 /\ j <= n
        BY <1>2, <2>5, <3>1 DEF Tracked
      <3>3. data'[Len(data') - j + 1] = data[n - j + 1]
        <4>1. n - j + 1 \in 1 .. n - 1 /\ Len(data') - j + 1 = n - j + 1
          BY <1>1, <2>3, <3>2
        <4> QED
          BY <2>3, <4>1
      <3> QED
        BY <3>1, <3>3 DEF WordFrom, Same, w
    <2> QED
      BY <2>4, <2>5
  <1>9. CASE Op \in {"JUMP", "SAVE_LOCATION", "RESTORE_LOCATION", "APPLY", "EXPECT",
                     "PUSH_BINDING", "POP_BINDING", "NULL_RESULT"}
    <2>1. data' = data /\ tag = w[j]
      BY <1>4, <1>9 DEF Turn, DataTurn, Jumps
    <2> QED
      BY <2>1 DEF WordFrom, Same, w
  <1> QED
    BY <1>5, <1>6, <1>7, <1>8, <1>9 DEF Turn, DataTurn

LEMMA BelowTop ==
  ASSUME NEW a \in Nat, NEW b \in Nat, NEW c \in Nat, NEW n \in Nat, NEW j \in Nat,
         2 <= j, j <= n, a + n <= b + 1, b <= c
  PROVE  (b + 1) - j + 1 \in 1 .. c
  OBVIOUS

\* What a caller knows of its words stays true while those below the running frame do.
LEMMA CallersStillKnow ==
  ASSUME IInv, Running, LocationsInv, FlagsInv, \A x \in 1 .. Top.sp : data'[x] = data[x],
         NEW i \in 1 .. Len(calls) - 1, NEW j \in Tracked, j >= 2
  PROVE  Holds(Known(calls[i]).words[j], data'[(calls[i + 1].sp + 1) - j + 1], calls[i].entry)
  <1> DEFINE tag == Known(calls[i]).words[j]
             x == (calls[i + 1].sp + 1) - j + 1
  <1>1. Holds(tag, data[x], calls[i].entry)
    <2>1. WordsAre(calls[i], data, calls[i + 1].sp + 1, 2)
      BY DEF FlagsInv, CallersKnow
    <2> QED
      BY <2>1 DEF WordsAre
  <1>2. CASE tag = "unknown"
    BY <1>2 DEF Means, Holds
  <1>3. CASE tag # "unknown"
    <2>1. /\ Len(calls) \in Nat /\ i \in 1 .. Len(calls) /\ i + 1 \in 1 .. Len(calls)
          /\ calls[i] \in Frames /\ calls[i + 1] \in Frames
      BY FramesTyped
    <2>2. calls[i].sp \in Nat /\ calls[i + 1].sp \in Nat
      BY <2>1, FrameFields
    <2>3. j <= Owned(calls[i]) /\ Owned(calls[i]) \in Nat
      BY <1>3, <2>1, TidyFrames DEF FlagsInv
    <2>4. calls[i].sp + Owned(calls[i]) <= calls[i + 1].sp + 1
      BY TopIs DEF CallersOwn
    <2>5. calls[i + 1].sp <= Top.sp /\ Top.sp \in Nat
      BY <2>1, TopIs DEF FlagsInv, StacksOrdered, Top, Depth
    <2>6. x \in 1 .. Top.sp
      <3>1. j \in Nat /\ 2 <= j
        BY DEF Tracked
      <3> QED
        BY <2>2, <2>3, <2>4, <2>5, <3>1, BelowTop
    <2>7. data'[x] = data[x]
      BY <2>6
    <2> QED
      BY <1>1, <2>7
  <1> QED
    BY <1>2, <1>3

\* NOERROR stays set under a call that found it set, or that promises silence.
LEMMA NoerrorHolds ==
  ASSUME IInv, Running, LocationsInv, FlagsInv, NEW i \in 1 .. Len(calls),
         calls[i].entry.noerror \/ (Silent(calls[i]) /\ i # Len(calls))
  PROVE  Top.entry.noerror /\ flags.noerror
  <1>1. Depth \in 1 .. Len(calls) /\ Depth = Len(calls) /\ Len(calls) \in Nat
    BY TopIs, FramesTyped DEF Depth
  <1>2. Top.entry.noerror
    <2>1. CASE i = Len(calls)
      BY <1>1, <2>1 DEF Top
    <2>2. CASE i # Len(calls)
      <3>1. i \in 1 .. Depth - 1
        BY <1>1, <2>2
      <3>2. calls[Depth].entry.noerror
        BY <1>1, <2>2, <3>1 DEF FlagsInv, SilenceInv
      <3> QED
        BY <3>2 DEF Top
    <2> QED
      BY <2>1, <2>2
  <1>3. Known(Top).noerror \in {"set", "noerror"}
    BY <1>1, TidyFrames DEF FlagsInv, Top
  <1>4. Means(Known(Top).noerror, flags.noerror, Top.entry)
    BY DEF FlagsInv, TopKnows, FlagsAre, Running
  <1>5. flags.noerror
    <2>1. CASE Known(Top).noerror = "set"
      BY <1>4, <2>1 DEF Means
    <2>2. CASE Known(Top).noerror = "noerror"
      BY <1>2, <1>4, <2>2 DEF Means
    <2> QED
      BY <1>3, <2>1, <2>2
  <1> QED
    BY <1>2, <1>5

-----------------------------------------------------------------------------
(* The flags of an instruction. *)

LEMMA TurnTidy ==
  ASSUME IInv, LocationsInv, FlagsInv, Turn
  PROVE  OnlyTidy'
  <1>1. AtInstr /\ Running /\ Depth \in 1 .. Len(calls)
    BY TopIs DEF Turn, AtInstr
  <1>2. PICK f \in Frames : TurnTo(f)
    BY DEF Turn
  <1>3. /\ Len(calls') = Len(calls)
        /\ \A i \in 1 .. Len(calls) : calls'[i] = IF i = Depth THEN f ELSE calls[i]
    BY <1>1, <1>2, MovedIs DEF TurnTo
  <1>4. \A i \in 1 .. Len(calls') : calls'[i].parser \in Tidy
    BY <1>1, <1>2, <1>3 DEF FlagsInv, OnlyTidy, TurnTo, Top
  <1>5. scope \in Seq(Bindings) /\ Len(scope) \in Nat /\ \A i \in 1 .. Len(scope) : scope[i].p \in Tidy
    BY Kept, LenIsNat DEF FlagsInv, OnlyTidy, IInv, TypeOK
  <1>6. \A i \in 1 .. Len(scope') : scope'[i].p \in Tidy
    <2>1. CASE Op = "PUSH_BINDING"
      <3> DEFINE b == Object.arg
      <3>1. scope' = Append(scope, b)
        BY <2>1 DEF Turn
      <3>2. b.p \in Tidy
        BY <1>1, <2>1, TidyInstr, LocationsOfTop DEF FlagsInv, OnlyTidy, Top
      <3> HIDE DEF b
      <3>3. scope \in Seq(Bindings \cup {b})
        BY <1>5, SeqMonotonic
      <3>4. /\ Len(scope') = Len(scope) + 1 /\ scope'[Len(scope) + 1] = b
            /\ \A i \in 1 .. Len(scope) : scope'[i] = scope[i]
        BY <3>1, <3>3, AppendProperties
      <3> QED
        BY <1>5, <3>2, <3>4
    <2>2. CASE Op = "POP_BINDING"
      <3>1. scope' = Pop(scope)
        BY <2>2 DEF Turn
      <3>2. CASE scope = <<>>
        <4>1. scope' = <<>>
          BY <3>1, <3>2, SubSeqEmpty, EmptySeq DEF Pop
        <4> QED
          BY <4>1, EmptySeq
      <3>3. CASE scope # <<>>
        BY <1>5, <3>1, <3>3, PopIs
      <3> QED
        BY <3>2, <3>3
    <2>3. CASE Op \notin {"PUSH_BINDING", "POP_BINDING"}
      BY <1>5, <2>3 DEF Turn
    <2> QED
      BY <2>1, <2>2, <2>3
  <1> QED
    BY <1>4, <1>6 DEF OnlyTidy

LEMMA TurnTopKnows ==
  ASSUME IInv, LocationsInv, FlagsInv, Turn
  PROVE  TopKnows'
  <1>1. /\ AtInstr /\ Running /\ Depth \in 1 .. Len(calls) /\ Known(Top).reached
        /\ data \in Seq(Words) /\ Len(data) \in Nat
    BY TopIs, LocationsOfTop, LenIsNat DEF Turn, AtInstr, IInv, TypeOK
  <1>2. PICK f \in Frames : TurnTo(f)
    BY DEF Turn
  <1>3. Top' = f /\ f.entry = Top.entry
    BY <1>1, <1>2, MovedIs DEF TurnTo
  <1> DEFINE t == After(Program, Top.ip, Known(Top))
             w == Known(Top).words
  <1>4. Claims(Known(f), t)
    BY <1>1, <1>2, KnownNext DEF TurnTo
  <1>5. /\ Means(Known(Top).noreturn, flags.noreturn, Top.entry)
        /\ Means(Known(Top).noerror, flags.noerror, Top.entry)
        /\ \A m \in Tracked : Holds(w[m], data[Len(data) - m + 1], Top.entry)
    <2>1. \A m \in Tracked : m >= 1
      BY DEF Tracked
    <2> QED
      BY <1>1, <2>1 DEF FlagsInv, TopKnows, FlagsAre, WordsAre, Running
  <1>6. Holds(w[1], Word, Top.entry)
    <2>1. 1 \in Tracked /\ Len(data) - 1 + 1 = Len(data)
      BY <1>1 DEF Tracked
    <2>2. Holds(w[1], data[Len(data) - 1 + 1], Top.entry)
      BY <1>5, <2>1
    <2> QED
      BY <2>1, <2>2 DEF Word
  <1>7. Means(t.noreturn, flags'.noreturn, Top.entry)
    <2>1. CASE Op = "SET_NORETURN"
      <3>1. t.noreturn = w[1] /\ flags'.noreturn = (Word # 0)
        BY <2>1 DEF After, Op, Turn
      <3> QED
        BY <1>6, <3>1 DEF Holds
    <2>2. CASE Op # "SET_NORETURN"
      <3>1. t.noreturn = Known(Top).noreturn /\ flags'.noreturn = flags.noreturn
        BY <2>2 DEF After, Op, Turn
      <3> QED
        BY <1>5, <3>1
    <2> QED
      BY <2>1, <2>2
  <1>8. Means(t.noerror, flags'.noerror, Top.entry)
    <2>1. CASE Op = "SET_NOERROR"
      <3>1. t.noerror = w[1] /\ flags'.noerror = (Word # 0)
        BY <2>1 DEF After, Op, Turn
      <3> QED
        BY <1>6, <3>1 DEF Holds
    <2>2. CASE Op # "SET_NOERROR"
      <3>1. t.noerror = Known(Top).noerror /\ flags'.noerror = flags.noerror
        BY <2>2 DEF After, Op, Turn
      <3> QED
        BY <1>5, <3>1
    <2> QED
      BY <2>1, <2>2
  <1>9. ASSUME NEW j \in Tracked
        PROVE  Holds(Known(f).words[j], data'[Len(data') - j + 1], Top.entry)
    <2> DEFINE tag == t.words[j]
               x == data'[Len(data') - j + 1]
    <2>1. Known(f).words[j] \in {"unknown", tag}
      BY <1>4 DEF Claims
    <2>2. CASE Known(f).words[j] = "unknown"
      BY <2>2 DEF Means, Holds
    <2>3. CASE Known(f).words[j] # "unknown"
      <3>1. Known(f).words[j] = tag /\ tag # "unknown"
        BY <2>1, <2>3
      <3>2. tag = WordsAfter(Program, Top.ip, Known(Top))[j]
        BY DEF After
      <3> HIDE DEF tag
      <3>3. WordFrom(tag, j)
        BY <3>1, <3>2, TurnWords DEF FlagsInv
      <3>4. CASE \E m \in Tracked : Same(tag, j, m)
        <4>1. PICK m \in Tracked : tag = w[m] /\ x = data[Len(data) - m + 1]
          BY <3>4 DEF Same
        <4>2. Holds(w[m], data[Len(data) - m + 1], Top.entry)
          BY <1>5
        <4> QED
          BY <3>1, <4>1, <4>2
      <3>5. CASE tag = "set" /\ x # 0
        BY <3>1, <3>5 DEF Means, Holds
      <3>6. CASE tag = Known(Top).noreturn /\ x = Bit(flags.noreturn)
        <4>1. (x # 0) = flags.noreturn
          BY <3>6, Kept, BitIs
        <4> QED
          BY <1>5, <3>1, <3>6, <4>1 DEF Holds
      <3>7. CASE tag = Known(Top).noerror /\ x = Bit(flags.noerror)
        <4>1. (x # 0) = flags.noerror
          BY <3>7, Kept, BitIs
        <4> QED
          BY <1>5, <3>1, <3>7, <4>1 DEF Holds
      <3> QED
        BY <3>3, <3>4, <3>5, <3>6, <3>7 DEF WordFrom
    <2> QED
      BY <2>2, <2>3
  <1>10. /\ Means(Known(f).noreturn, flags'.noreturn, f.entry)
         /\ Means(Known(f).noerror, flags'.noerror, f.entry)
    <2>1. Known(f).noreturn \in {"unknown", t.noreturn} /\ Known(f).noerror \in {"unknown", t.noerror}
      BY <1>4 DEF Claims
    <2>2. \A b : Means("unknown", b, f.entry)
      BY DEF Means
    <2> HIDE DEF t
    <2> QED
      BY <1>3, <1>7, <1>8, <2>1, <2>2
  <1> QED
    BY <1>3, <1>9, <1>10 DEF TopKnows, FlagsAre, WordsAre
LEMMA FlagsTurn == IInv /\ LocationsInv /\ FlagsInv /\ Turn => FlagsInv'
  <1> SUFFICES ASSUME IInv, LocationsInv, FlagsInv, Turn PROVE FlagsInv'
    OBVIOUS
  <1> DEFINE n == Len(calls)
  <1>1. /\ AtInstr /\ Running /\ Depth \in 1 .. n /\ Depth = n /\ n \in Nat
        /\ is_combinator(Object.type)
        /\ err' = err \/ (Object.type = "EXPECT" /\ ~flags.noerror)
    BY TopIs, FramesTyped DEF Turn, AtInstr, Depth
  <1>2. PICK f \in Frames : TurnTo(f)
    BY DEF Turn
  <1>3. /\ Len(calls') = n /\ Top' = f
        /\ \A i \in 1 .. n : calls'[i] = IF i = Depth THEN f ELSE calls[i]
    BY <1>1, <1>2, MovedIs DEF TurnTo
  <1>4. f.parser = Top.parser /\ f.sp = Top.sp /\ f.entry = Top.entry
    BY <1>2 DEF TurnTo
  <1>5. \A i \in 1 .. n : /\ calls'[i].parser = calls[i].parser /\ calls'[i].sp = calls[i].sp
                          /\ calls'[i].entry = calls[i].entry
    BY <1>1, <1>3, <1>4 DEF Top
  <1>6. OnlyTidy' /\ TopKnows'
    BY TurnTidy, TurnTopKnows
  <1>7. StacksOrdered'
    BY <1>1, <1>3, <1>5 DEF FlagsInv, StacksOrdered
  <1>8. CallersKnow'
    <2> SUFFICES ASSUME NEW i \in 1 .. n - 1
                 PROVE  LET callee == calls'[i + 1] IN
                        /\ Known(calls'[i]).words[1] = "unknown"
                        /\ FlagsAre(calls'[i], callee.entry.noreturn, callee.entry.noerror)
                        /\ WordsAre(calls'[i], data', callee.sp + 1, 2)
      BY <1>3 DEF CallersKnow
    <2>1. calls'[i] = calls[i] /\ i \in 1 .. n /\ i + 1 \in 1 .. n
      BY <1>1, <1>3
    <2>2. calls'[i + 1].sp = calls[i + 1].sp /\ calls'[i + 1].entry = calls[i + 1].entry
      BY <1>5, <2>1
    <2>3. /\ Known(calls[i]).words[1] = "unknown"
          /\ FlagsAre(calls[i], calls[i + 1].entry.noreturn, calls[i + 1].entry.noerror)
      BY DEF FlagsInv, CallersKnow
    <2>4. \A j \in Tracked : j >= 2 =>
            Holds(Known(calls[i]).words[j], data'[(calls[i + 1].sp + 1) - j + 1], calls[i].entry)
      BY <1>1, TurnKeepsBelow, CallersStillKnow
    <2>5. \A j \in Tracked : j >= 2 =>
            Holds(Known(calls'[i]).words[j], data'[(calls'[i + 1].sp + 1) - j + 1], calls'[i].entry)
      BY <2>1, <2>2, <2>4
    <2> QED
      BY <2>1, <2>2, <2>3, <2>5 DEF WordsAre
  <1>9. SilenceInv'
    <2>1. \A j \in 1 .. n : \A i \in 1 .. j - 1 :
            calls'[i].entry.noerror \/ Silent(calls'[i]) => calls'[j].entry.noerror
      BY <1>1, <1>5 DEF FlagsInv, SilenceInv, Silent
    <2>2. ASSUME NEW i \in 1 .. n, calls'[i].entry.noerror \/ Silent(calls'[i])
          PROVE  err' = calls'[i].entry.err
      <3>1. calls[i].entry.noerror \/ Silent(calls[i])
        BY <1>5, <2>2 DEF Silent
      <3>2. err = calls[i].entry.err
        BY <3>1 DEF FlagsInv, SilenceInv
      <3>3. ~(Object.type = "EXPECT" /\ ~flags.noerror)
        <4>1. CASE calls[i].entry.noerror \/ i # n
          BY <1>1, <3>1, <4>1, NoerrorHolds
        <4>2. CASE Silent(calls[i]) /\ i = n
          BY <1>1, <4>2 DEF Silent, SilentTypes, Object, Top
        <4> QED
          BY <3>1, <4>1, <4>2
      <3> QED
        BY <1>1, <1>5, <3>2, <3>3
    <2>3. is_combinator(Parsers[Top'.parser].type)
      BY <1>1, <1>3, <1>4 DEF Object
    <2> QED
      BY <1>3, <2>1, <2>2, <2>3 DEF SilenceInv
  <1> QED
    BY <1>6, <1>7, <1>8, <1>9 DEF FlagsInv

LEMMA FlagsLookup == IInv /\ LocationsInv /\ FlagsInv /\ ResolveLookup => FlagsInv'
  <1> SUFFICES ASSUME IInv, LocationsInv, FlagsInv, ResolveLookup PROVE FlagsInv'
    OBVIOUS
  <1> DEFINE n == Len(calls)
  <1>1. /\ Running /\ ~is_combinator(Object.type) /\ IsBound(Object.arg)
        /\ UNCHANGED <<data, flags, scope, err>>
        /\ Depth \in 1 .. n /\ Depth = n /\ n \in Nat
        /\ \A i \in 1 .. n : calls[i].sp \in Nat
    BY LookedUpIs, TopIs, FramesTyped, FrameFields DEF Depth
  <1>2. PICK f \in Frames : /\ f.parser = scope_lookup(Object.arg)
                            /\ f.sp = Top.sp /\ f.entry = Top.entry
                            /\ calls' = [calls EXCEPT ![Depth] = f]
                            /\ Known(f) = AtCall /\ Known(Top) = AtCall
    BY LookedUpIs
  <1>3. /\ Len(calls') = n /\ Top' = f
        /\ \A i \in 1 .. n : calls'[i] = IF i = Depth THEN f ELSE calls[i]
    BY <1>1, <1>2, MovedIs
  <1>4. \A i \in 1 .. n : calls'[i].sp = calls[i].sp /\ calls'[i].entry = calls[i].entry
    BY <1>1, <1>2, <1>3 DEF Top
  <1>5. OnlyTidy'
    <2>1. PICK k \in 1 .. Len(scope) : scope_lookup(Object.arg) = scope[k].p
      BY <1>1, LookupIsBinding DEF IInv
    <2>2. f.parser \in Tidy
      BY <1>2, <2>1 DEF FlagsInv, OnlyTidy
    <2> QED
      BY <1>1, <1>3, <2>2 DEF FlagsInv, OnlyTidy
  <1>6. StacksOrdered'
    BY <1>1, <1>3, <1>4 DEF FlagsInv, StacksOrdered
  <1>7. CallersKnow'
    <2> SUFFICES ASSUME NEW i \in 1 .. n - 1
                 PROVE  LET callee == calls'[i + 1] IN
                        /\ Known(calls'[i]).words[1] = "unknown"
                        /\ FlagsAre(calls'[i], callee.entry.noreturn, callee.entry.noerror)
                        /\ WordsAre(calls'[i], data', callee.sp + 1, 2)
      BY <1>3 DEF CallersKnow
    <2>1. calls'[i] = calls[i] /\ i \in 1 .. n /\ i + 1 \in 1 .. n
      BY <1>1, <1>3
    <2>2. calls'[i + 1].sp = calls[i + 1].sp /\ calls'[i + 1].entry = calls[i + 1].entry
      BY <1>4, <2>1
    <2>3. /\ Known(calls[i]).words[1] = "unknown"
          /\ FlagsAre(calls[i], calls[i + 1].entry.noreturn, calls[i + 1].entry.noerror)
          /\ WordsAre(calls[i], data, calls[i + 1].sp + 1, 2)
      BY DEF FlagsInv, CallersKnow
    <2> QED
      BY <1>1, <2>1, <2>2, <2>3 DEF WordsAre
  <1>8. TopKnows'
    <2>1. /\ Means("noreturn", flags.noreturn, Top.entry)
          /\ Means("noerror", flags.noerror, Top.entry)
      BY <1>1, <1>2 DEF FlagsInv, TopKnows, FlagsAre, Running, AtCall
    <2>2. FlagsAre(f, flags.noreturn, flags.noerror)
      BY <1>2, <2>1 DEF FlagsAre, AtCall
    <2>3. \A j \in Tracked : \A w : Holds(Known(f).words[j], w, f.entry)
      BY <1>2 DEF Means, Holds, AtCall, Nothing
    <2> QED
      BY <1>1, <1>3, <2>2, <2>3 DEF TopKnows, WordsAre
  <1>9. SilenceInv'
    <2>1. ASSUME NEW j \in 1 .. n, NEW i \in 1 .. j - 1,
                 calls'[i].entry.noerror \/ Silent(calls'[i])
          PROVE  calls'[j].entry.noerror
      <3>1. calls'[i] = calls[i] /\ i \in 1 .. n
        BY <1>1, <1>3
      <3> QED
        BY <1>4, <2>1, <3>1 DEF FlagsInv, SilenceInv
    <2>2. err = Top.entry.err
      BY <1>1 DEF FlagsInv, SilenceInv, Object, Running
    <2>3. ASSUME NEW i \in 1 .. n, calls'[i].entry.noerror \/ Silent(calls'[i])
          PROVE  err' = calls'[i].entry.err
      <3>1. CASE i = n
        BY <1>1, <1>2, <1>3, <2>2, <3>1
      <3>2. CASE i # n
        <4>1. calls'[i] = calls[i]
          BY <1>1, <1>3, <3>2
        <4> QED
          BY <1>1, <2>3, <4>1 DEF FlagsInv, SilenceInv
      <3> QED
        BY <3>1, <3>2
    <2> QED
      BY <1>1, <1>2, <1>3, <2>1, <2>2, <2>3 DEF SilenceInv
  <1> QED
    BY <1>5, <1>6, <1>7, <1>8, <1>9 DEF FlagsInv
LEMMA FlagsCall == IInv /\ LocationsInv /\ FlagsInv /\ NoneLost' /\ Call => FlagsInv'
  <1> SUFFICES ASSUME IInv, LocationsInv, FlagsInv, NoneLost', Call PROVE FlagsInv'
    OBVIOUS
  <1> DEFINE n == Len(calls)
             g == Frame(Arg, Len(data), Len(results), Entry)
  <1>1. /\ AtInstr /\ Running /\ Op = "CALL" /\ UNCHANGED <<data, flags, scope, err>>
        /\ Depth = n /\ n \in Nat \ {0} /\ n \in 1 .. n
        /\ data \in Seq(Words) /\ Len(data) \in Nat
        /\ \A i \in 1 .. n : calls[i].sp \in Nat
    BY TopIs, FramesTyped, FrameFields, LenIsNat DEF Call, Does, AtInstr, Depth, IInv, TypeOK
  <1>2. PICK f \in Frames :
          /\ f.parser = Top.parser /\ f.sp = Top.sp /\ f.entry = Top.entry
          /\ f.lost \/ f.ip = Top.ip + 1
          /\ g \in Frames
          /\ Len(calls') = n + 1 /\ Top' = g /\ calls'[n + 1] = g
          /\ \A i \in 1 .. n : calls'[i] = IF i = Depth THEN f ELSE calls[i]
    BY CalledIs
  <1>3. f.ip = Top.ip + 1 /\ f.ip \in Succ(Program, Top.ip)
    <2>1. n \in 1 .. n + 1 /\ calls'[n] = f
      BY <1>1, <1>2
    <2>2. ~f.lost
      BY <1>2, <2>1 DEF NoneLost
    <2> QED
      BY <1>1, <1>2, <2>2 DEF Succ, Op
  <1>4. /\ Top.parser \in Tidy /\ Known(Top).reached /\ Known(Top).noerror \in {"set", "noerror"}
        /\ Top.sp <= Len(data)
    <2>1. Owned(Top) \in Nat /\ Top.sp \in Nat /\ Top.sp + Owned(Top) <= Len(data)
      BY <1>1, InstrIs, TopIs
    <2> QED
      BY <1>1, <2>1, TidyFrames DEF FlagsInv, Top
  <1>5. /\ g.parser = Arg /\ Arg \in Tidy /\ g.ip = 1 /\ g.sp = Len(data)
        /\ g.entry.noerror = flags.noerror /\ g.entry.noreturn = flags.noreturn
        /\ g.entry.err = err /\ Known(g) = AtCall
    <2>1. /\ g.parser = Arg /\ g.ip = 1 /\ g.sp = Len(data)
          /\ g.entry.noerror = flags.noerror /\ g.entry.noreturn = flags.noreturn
          /\ g.entry.err = err
      BY DEF Frame, Entry
    <2>2. Arg \in Tidy
      BY <1>1, <1>4, TidyInstr
    <2> HIDE DEF g
    <2>3. Known(g) = AtCall
      BY <2>1, <2>2, KnownAtStart, TidyRestores
    <2> QED
      BY <2>1, <2>2, <2>3
  <1> HIDE DEF g
  <1>6. \A i \in 1 .. n : /\ calls'[i].parser = calls[i].parser /\ calls'[i].sp = calls[i].sp
                          /\ calls'[i].entry = calls[i].entry
    BY <1>1, <1>2 DEF Top
  <1>7. OnlyTidy'
    BY <1>1, <1>2, <1>5, <1>6 DEF FlagsInv, OnlyTidy
  <1>8. StacksOrdered'
    <2> SUFFICES ASSUME NEW j \in 1 .. n + 1, NEW i \in 1 .. j
                 PROVE  calls'[i].sp <= calls'[j].sp
      BY <1>2 DEF StacksOrdered
    <2>1. CASE j \in 1 .. n
      BY <1>1, <1>6, <2>1 DEF FlagsInv, StacksOrdered
    <2>2. CASE j = n + 1 /\ i \in 1 .. n
      <3>1. calls[i].sp <= calls[n].sp
        BY <1>1, <2>2 DEF FlagsInv, StacksOrdered
      <3> QED
        BY <1>1, <1>2, <1>4, <1>5, <1>6, <2>2, <3>1 DEF Top
    <2>3. CASE j = n + 1 /\ i = n + 1
      BY <1>1, <1>2, <1>5, <2>3
    <2> QED
      BY <1>1, <2>1, <2>2, <2>3
  <1>9. /\ Known(f).words[1] = "unknown"
        /\ FlagsAre(f, flags.noreturn, flags.noerror)
        /\ WordsAre(f, data, Len(data) + 1, 2)
    <2> DEFINE t == After(Program, Top.ip, Known(Top))
               w == Known(Top).words
    <2>1. Claims(Known(f), t)
      BY <1>1, <1>2, <1>3, <1>4, KnownNext
    <2>2. t.words = Pushed(w, "unknown") /\ t.noreturn = Known(Top).noreturn
          /\ t.noerror = Known(Top).noerror
      BY <1>1 DEF After, WordsAfter, Op, Jumps
    <2> HIDE DEF t
    <2>3. Known(f).words[1] = "unknown"
      BY <2>1, <2>2 DEF Claims, Pushed, Tracked
    <2>4. /\ FlagsAre(Top, flags.noreturn, flags.noerror)
          /\ WordsAre(Top, data, Len(data), 1)
      BY <1>1 DEF FlagsInv, TopKnows, Running
    <2>5. FlagsAre(f, flags.noreturn, flags.noerror)
      <3>1. /\ Known(f).noreturn \in {"unknown", Known(Top).noreturn}
            /\ Known(f).noerror \in {"unknown", Known(Top).noerror}
        BY <2>1, <2>2 DEF Claims
      <3>2. \A b : Means("unknown", b, f.entry)
        BY DEF Means
      <3> QED
        BY <1>2, <2>4, <3>1, <3>2 DEF FlagsAre
    <2>6. ASSUME NEW j \in Tracked, j >= 2
          PROVE  Holds(Known(f).words[j], data[(Len(data) + 1) - j + 1], f.entry)
      <3>1. j \in 2 .. 6 /\ j - 1 \in Tracked /\ j - 1 >= 1
        BY <2>6 DEF Tracked
      <3>2. Known(f).words[j] \in {"unknown", w[j - 1]}
        BY <2>1, <2>2, <3>1 DEF Claims, Pushed
      <3>3. Holds(w[j - 1], data[Len(data) - (j - 1) + 1], Top.entry)
        BY <2>4, <3>1 DEF WordsAre
      <3>4. Len(data) - (j - 1) + 1 = (Len(data) + 1) - j + 1
        BY <1>1, <3>1
      <3>5. \A x : Holds("unknown", x, f.entry)
        BY DEF Holds, Means
      <3> QED
        BY <1>2, <3>2, <3>3, <3>4, <3>5
    <2> QED
      BY <2>3, <2>5, <2>6 DEF WordsAre
  <1>10. CallersKnow'
    <2> SUFFICES ASSUME NEW i \in 1 .. n
                 PROVE  LET callee == calls'[i + 1] IN
                        /\ Known(calls'[i]).words[1] = "unknown"
                        /\ FlagsAre(calls'[i], callee.entry.noreturn, callee.entry.noerror)
                        /\ WordsAre(calls'[i], data', callee.sp + 1, 2)
      BY <1>1, <1>2 DEF CallersKnow
    <2>1. CASE i = n
      <3>1. calls'[i] = f /\ calls'[i + 1] = g /\ data' = data
        BY <1>1, <1>2, <2>1
      <3> QED
        BY <1>5, <1>9, <3>1
    <2>2. CASE i \in 1 .. n - 1
      <3>1. calls'[i] = calls[i] /\ i + 1 \in 1 .. n
        BY <1>1, <1>2, <2>2
      <3>2. calls'[i + 1].sp = calls[i + 1].sp /\ calls'[i + 1].entry = calls[i + 1].entry
        BY <1>6, <3>1
      <3>3. /\ Known(calls[i]).words[1] = "unknown"
            /\ FlagsAre(calls[i], calls[i + 1].entry.noreturn, calls[i + 1].entry.noerror)
            /\ WordsAre(calls[i], data, calls[i + 1].sp + 1, 2)
        BY <2>2 DEF FlagsInv, CallersKnow
      <3> QED
        BY <1>1, <3>1, <3>2, <3>3
    <2> QED
      BY <1>1, <2>1, <2>2
  <1>11. TopKnows'
    <2>1. FlagsAre(g, flags.noreturn, flags.noerror)
      BY <1>5 DEF FlagsAre, Means, AtCall
    <2>2. \A j \in Tracked : \A x : Holds(Known(g).words[j], x, g.entry)
      BY <1>5 DEF Holds, Means, AtCall, Nothing
    <2> QED
      BY <1>1, <1>2, <2>1, <2>2 DEF TopKnows, WordsAre
  <1>12. SilenceInv'
    <2>1. ASSUME NEW i \in 1 .. n, calls[i].entry.noerror \/ Silent(calls[i])
          PROVE  flags.noerror
      <3>1. CASE calls[i].entry.noerror \/ i # n
        BY <1>1, <2>1, <3>1, NoerrorHolds
      <3>2. CASE Silent(calls[i]) /\ i = n
        <4>1. Known(Top).noerror = "set"
          BY <1>1, <1>4, <3>2, TidyInstr DEF Top
        <4>2. Means(Known(Top).noerror, flags.noerror, Top.entry)
          BY <1>1 DEF FlagsInv, TopKnows, FlagsAre, Running
        <4> QED
          BY <4>1, <4>2 DEF Means
      <3> QED
        BY <2>1, <3>1, <3>2
    <2>2. ASSUME NEW j \in 1 .. n + 1, NEW i \in 1 .. j - 1,
                 calls'[i].entry.noerror \/ Silent(calls'[i])
          PROVE  calls'[j].entry.noerror
      <3>1. i \in 1 .. n /\ (calls[i].entry.noerror \/ Silent(calls[i]))
        BY <1>1, <1>6, <2>2 DEF Silent
      <3>2. CASE j = n + 1
        BY <1>2, <1>5, <2>1, <3>1, <3>2
      <3>3. CASE j \in 1 .. n
        BY <1>6, <3>1, <3>3 DEF FlagsInv, SilenceInv
      <3> QED
        BY <1>1, <3>2, <3>3
    <2>3. ASSUME NEW i \in 1 .. n + 1, calls'[i].entry.noerror \/ Silent(calls'[i])
          PROVE  err' = calls'[i].entry.err
      <3>1. CASE i = n + 1
        BY <1>1, <1>2, <1>5, <3>1
      <3>2. CASE i \in 1 .. n
        <4>1. calls[i].entry.noerror \/ Silent(calls[i])
          BY <1>6, <2>3, <3>2 DEF Silent
        <4> QED
          BY <1>1, <1>6, <3>2, <4>1 DEF FlagsInv, SilenceInv
      <3> QED
        BY <1>1, <3>1, <3>2
    <2> QED
      BY <1>1, <1>2, <1>5, <2>2, <2>3 DEF SilenceInv
  <1> QED
    BY <1>7, <1>8, <1>10, <1>11, <1>12 DEF FlagsInv

\* A frame returns with the flags of its call, and with a message only if it may.
LEMMA FlagsAtReturn ==
  ASSUME IInv, LocationsInv, FlagsInv, NoneLost, Leave
  PROVE  /\ flags.noreturn = Top.entry.noreturn /\ flags.noerror = Top.entry.noerror
         /\ ~AtEnd => ~is_combinator(Object.type)
  <1>1. /\ AtEnd \/ AtTerminal \/ AtLookup \/ AtOperand
        /\ Running /\ calls # <<>> /\ Depth \in 1 .. Len(calls)
    BY TopIs DEF Leave, AtEnd, AtTerminal, AtLookup, AtOperand, Running
  <1>2. ~Top.lost
    BY <1>1 DEF NoneLost, Top
  <1>3. ~AtEnd => ~is_combinator(Object.type)
    BY <1>1, <1>2, Parts
  <1>4. Known(Top).noreturn = "noreturn" /\ Known(Top).noerror = "noerror"
    <2>1. CASE AtEnd
      <3>1. Top.parser \in Tidy
        BY <1>1 DEF FlagsInv, OnlyTidy, Top
      <3> QED
        BY <1>1, <2>1, <3>1, KnownAtEnd, LocationsOfTop
    <2>2. CASE ~AtEnd
      BY <1>1, <1>3, <2>2, KnownTop DEF AtCall
    <2> QED
      BY <2>1, <2>2
  <1>5. /\ Means(Known(Top).noreturn, flags.noreturn, Top.entry)
        /\ Means(Known(Top).noerror, flags.noerror, Top.entry)
    BY <1>1 DEF FlagsInv, TopKnows, FlagsAre
  <1> QED
    BY <1>3, <1>4, <1>5 DEF Means

LEMMA FlagsLeave == IInv /\ LocationsInv /\ FlagsInv /\ NoneLost /\ Leave => FlagsInv'
  <1> SUFFICES ASSUME IInv, LocationsInv, FlagsInv, NoneLost, Leave PROVE FlagsInv'
    OBVIOUS
  <1> DEFINE n == Len(calls)
  <1>1. /\ Running /\ calls' = Pop(calls) /\ scope' = scope
        /\ Len(data') = Top.sp + 1 /\ \A x \in 1 .. Top.sp : data'[x] = data[x]
        /\ flags'.noreturn = flags.noreturn /\ flags'.noerror = flags.noerror
        /\ err' = err \/ (~AtEnd /\ ~flags.noerror)
        /\ n \in Nat /\ Depth = n /\ n \in 1 .. n
    BY TopIs, FramesTyped DEF Leave, AtEnd, AtTerminal, AtLookup, AtOperand, Depth
  <1>2. /\ Len(calls') = n - 1
        /\ \A i \in 1 .. n - 1 : calls'[i] = calls[i]
        /\ calls' # <<>> => n - 1 \in 1 .. n /\ Top' = calls[n - 1]
    BY <1>1, PoppedIs
  <1>3. flags.noreturn = Top.entry.noreturn /\ flags.noerror = Top.entry.noerror
    BY FlagsAtReturn
  <1>4. OnlyTidy'
    BY <1>1, <1>2 DEF FlagsInv, OnlyTidy
  <1>5. StacksOrdered'
    BY <1>1, <1>2 DEF FlagsInv, StacksOrdered
  <1>6. ASSUME NEW i \in 1 .. n - 1
        PROVE  /\ Known(calls[i]).words[1] = "unknown"
               /\ FlagsAre(calls[i], calls[i + 1].entry.noreturn, calls[i + 1].entry.noerror)
               /\ WordsAre(calls[i], data', calls[i + 1].sp + 1, 2)
    <2>1. /\ Known(calls[i]).words[1] = "unknown"
          /\ FlagsAre(calls[i], calls[i + 1].entry.noreturn, calls[i + 1].entry.noerror)
      BY DEF FlagsInv, CallersKnow
    <2>2. \A j \in Tracked : j >= 2 =>
            Holds(Known(calls[i]).words[j], data'[(calls[i + 1].sp + 1) - j + 1], calls[i].entry)
      BY <1>1, CallersStillKnow
    <2> QED
      BY <2>1, <2>2 DEF WordsAre
  <1>7. CallersKnow'
    <2> SUFFICES ASSUME NEW i \in 1 .. n - 1 - 1
                 PROVE  LET callee == calls'[i + 1] IN
                        /\ Known(calls'[i]).words[1] = "unknown"
                        /\ FlagsAre(calls'[i], callee.entry.noreturn, callee.entry.noerror)
                        /\ WordsAre(calls'[i], data', callee.sp + 1, 2)
      BY <1>2 DEF CallersKnow
    <2>1. i \in 1 .. n - 1 /\ calls'[i] = calls[i] /\ calls'[i + 1] = calls[i + 1]
      BY <1>1, <1>2
    <2> QED
      BY <1>6, <2>1
  <1>8. TopKnows'
    <2> SUFFICES ASSUME calls' # <<>>
                 PROVE  /\ FlagsAre(Top', flags'.noreturn, flags'.noerror)
                        /\ WordsAre(Top', data', Len(data'), 1)
      BY DEF TopKnows
    <2> DEFINE f == calls[n - 1]
    <2>1. n - 1 \in 1 .. n - 1 /\ (n - 1) + 1 = n /\ Top' = f
      BY <1>1, <1>2
    <2>2. /\ Known(f).words[1] = "unknown"
          /\ FlagsAre(f, calls[(n - 1) + 1].entry.noreturn, calls[(n - 1) + 1].entry.noerror)
          /\ WordsAre(f, data', calls[(n - 1) + 1].sp + 1, 2)
      BY <1>6, <2>1
    <2>3. Top = calls[n]
      BY <1>1 DEF Top
    <2>4. FlagsAre(f, flags'.noreturn, flags'.noerror)
      <3>1. FlagsAre(f, Top.entry.noreturn, Top.entry.noerror)
        BY <2>1, <2>2, <2>3
      <3>2. flags'.noreturn = Top.entry.noreturn /\ flags'.noerror = Top.entry.noerror
        BY <1>1, <1>3
      <3> QED
        BY <3>1, <3>2
    <2>5. WordsAre(f, data', Len(data'), 1)
      <3>1. WordsAre(f, data', Len(data'), 2)
        BY <1>1, <2>1, <2>2, <2>3
      <3>2. \A x : Holds(Known(f).words[1], x, f.entry)
        BY <2>2 DEF Holds, Means
      <3>3. \A j \in Tracked : j = 1 \/ j >= 2
        BY DEF Tracked
      <3> QED
        BY <3>1, <3>2, <3>3 DEF WordsAre
    <2> QED
      BY <2>1, <2>4, <2>5
  <1>9. SilenceInv'
    <2>1. \A j \in 1 .. n - 1 : \A i \in 1 .. j - 1 :
            calls[i].entry.noerror \/ Silent(calls[i]) => calls[j].entry.noerror
      BY <1>1 DEF FlagsInv, SilenceInv
    <2>2. ASSUME NEW i \in 1 .. n - 1, calls[i].entry.noerror \/ Silent(calls[i])
          PROVE  err' = calls[i].entry.err
      <3>1. i \in 1 .. n /\ i # n
        BY <1>1
      <3>2. err = calls[i].entry.err
        BY <2>2, <3>1 DEF FlagsInv, SilenceInv
      <3>3. flags.noerror
        BY <1>1, <2>2, <3>1, NoerrorHolds
      <3> QED
        BY <1>1, <3>2, <3>3
    <2>3. calls' # <<>> => is_combinator(Parsers[Top'.parser].type)
      <3> SUFFICES ASSUME calls' # <<>> PROVE is_combinator(Parsers[Top'.parser].type)
        OBVIOUS
      <3>1. n - 1 # 0 /\ Len(calls') = n - 1
        BY <1>1, <1>2
      <3>2. n - 1 \in 1 .. n - 1 /\ Top' = calls[n - 1]
        BY <1>1, <1>2, <3>1 DEF Top, Depth
      <3> QED
        BY <1>1, <3>2, TopIs DEF CallersOwn
    <2>4. \A j \in 1 .. n - 1 : \A i \in 1 .. j - 1 : calls'[i] = calls[i] /\ calls'[j] = calls[j]
      BY <1>1, <1>2
    <2> QED
      BY <1>1, <1>2, <2>1, <2>2, <2>3, <2>4 DEF SilenceInv
  <1> QED
    BY <1>4, <1>5, <1>7, <1>8, <1>9 DEF FlagsInv
LEMMA FlagsStill == FlagsInv /\ Still => FlagsInv'
  <1> SUFFICES ASSUME FlagsInv, Still PROVE FlagsInv'
    OBVIOUS
  <1>1. calls' = calls /\ scope' \in {scope, <<>>}
    BY DEF Still
  <1>2. OnlyTidy'
    <2>1. Len(<<>>) = 0
      BY EmptySeq
    <2> QED
      BY <1>1, <2>1 DEF FlagsInv, OnlyTidy
  <1>3. StacksOrdered'
    BY <1>1 DEF FlagsInv, StacksOrdered
  <1>4. CASE calls = <<>>
    <2>1. Len(calls) = 0
      BY <1>4, EmptySeq
    <2> QED
      BY <1>1, <1>2, <1>3, <1>4, <2>1 DEF FlagsInv, CallersKnow, TopKnows, SilenceInv
  <1>5. CASE UNCHANGED <<data, flags, scope, err>>
    BY <1>1, <1>5 DEF FlagsInv, OnlyTidy, StacksOrdered, CallersKnow, TopKnows, SilenceInv, Top, Depth
  <1> QED
    BY <1>4, <1>5 DEF Still

LEMMA FlagsStart == Init /\ root \in Tidy => FlagsInv
  <1> SUFFICES ASSUME Init, root \in Tidy PROVE FlagsInv
    OBVIOUS
  <1> DEFINE f == Frame(root, 0, 0, Entry)
  <1>1. /\ calls = <<f>> /\ Len(calls) = 1 /\ calls[1] = f /\ Top = f
        /\ scope = <<>> /\ Len(scope) = 0
    BY EmptySeq DEF Init, Top, Depth
  <1>2. /\ f.parser = root /\ f.ip = 1 /\ f.sp = 0 /\ f.entry.err = err
        /\ f.entry.noreturn = flags.noreturn /\ f.entry.noerror = flags.noerror
    BY DEF Frame, Entry
  <1> HIDE DEF f
  <1>3. Known(f) = AtCall
    BY <1>2, KnownAtStart, TidyRestores
  <1>4. TopKnows
    <2>1. FlagsAre(f, flags.noreturn, flags.noerror)
      BY <1>2, <1>3 DEF FlagsAre, Means, AtCall
    <2>2. \A j \in Tracked : \A x : Holds(Known(f).words[j], x, f.entry)
      BY <1>3 DEF Holds, Means, AtCall, Nothing
    <2> QED
      BY <1>1, <2>1, <2>2 DEF TopKnows, WordsAre
  <1>5. OnlyTidy /\ StacksOrdered /\ CallersKnow /\ SilenceInv
    BY <1>1, <1>2 DEF OnlyTidy, StacksOrdered, CallersKnow, SilenceInv
  <1> QED
    BY <1>4, <1>5 DEF FlagsInv

LEMMA FlagsNext ==
  IInv /\ LocationsInv /\ FlagsInv /\ NoneLost /\ NoneLost' /\ [Next]_vars => FlagsInv'
  BY StepIs, FlagsTurn, FlagsCall, FlagsLookup, FlagsLeave, FlagsStill

-----------------------------------------------------------------------------
(* What a call leaves as it found it. *)

FullInv == IInv /\ RoomInv /\ CallInv

LEMMA FullStart == Init => FullInv
  BY InitInv, RoomStart, LocationsStart, ScopeStart, FlagsStart DEF FullInv, CallInv

LEMMA FullNext == FullInv /\ [Next]_vars => FullInv'
  <1> SUFFICES ASSUME FullInv, [Next]_vars PROVE FullInv'
    OBVIOUS
  <1>1. IInv' /\ RoomInv' /\ LocationsInv' /\ (room' = CallStackCap => room = CallStackCap)
    BY NextKeeps, RoomNext, LocationsNext DEF FullInv, CallInv
  <1>2. root' = root
    BY StepIs, LookedUpIs DEF FullInv, Turn, Call, Leave, Still
  <1>3. ASSUME room' = CallStackCap
        PROVE  ScopeInv' /\ (root' \in Tidy => FlagsInv')
    <2>1. ScopeInv /\ NoneLost /\ NoneLost' /\ (root \in Tidy => FlagsInv)
      BY <1>1, <1>3 DEF FullInv, CallInv, RoomInv
    <2>2. ScopeInv'
      BY <2>1, ScopeNext DEF FullInv, CallInv
    <2>3. root \in Tidy => FlagsInv'
      BY <2>1, FlagsNext DEF FullInv, CallInv
    <2> QED
      BY <1>2, <2>2, <2>3
  <1> QED
    BY <1>1, <1>3 DEF FullInv, CallInv

\* Only do_return takes a frame off the call stack.
LEMMA ReturnsLeave ==
  ASSUME IInv, [Next]_vars, Returns
  PROVE  Leave
  <1>1. Len(calls) \in Nat
    BY FramesTyped
  <1>2. CASE Turn
    BY <1>1, <1>2, TopIs, MovedIs DEF Turn, TurnTo, AtInstr, Returns
  <1>3. CASE Call
    BY <1>1, <1>3, CalledIs DEF Returns
  <1>4. CASE ResolveLookup
    BY <1>1, <1>4, LookedUpIs, MovedIs DEF Returns
  <1>5. CASE Still
    BY <1>1, <1>5 DEF Still, Returns
  <1> QED
    BY <1>2, <1>3, <1>4, <1>5, StepIs

\* The invariants of locations, scope and flags hold throughout every parse.
THEOREM CallInvariance == Spec => []CallInv
  <1>1. FullInv => CallInv
    BY DEF FullInv
  <1> QED
    BY <1>1, FullStart, FullNext, PTL DEF Spec

\* The call stack has not been reallocated: cc_eval.c:733 writes the ip of the caller
\* through a pointer into the block that frame_push replaced.
NeverGrown == room = CallStackCap

\* Unless the call stack grows, every parser of every grammar leaves the scope as it
\* found it, whether it succeeds or fails (cc_eval.c:809-835).
THEOREM ScopeIsRestored == Spec /\ []NeverGrown => ReturnsRestoreScope
  <1>1. FullInv /\ NeverGrown /\ [Next]_vars => [Returns => scope' = Top.entry.scope]_vars
    <2> SUFFICES ASSUME FullInv, NeverGrown, [Next]_vars, Returns
                 PROVE  scope' = Top.entry.scope
      OBVIOUS
    <2>1. IInv /\ LocationsInv /\ ScopeInv /\ NoneLost
      BY DEF FullInv, CallInv, RoomInv, NeverGrown
    <2>2. Leave
      BY <2>1, ReturnsLeave
    <2> QED
      BY <2>1, <2>2, ScopeAtReturn
  <1> QED
    BY <1>1, FullStart, FullNext, PTL DEF Spec, ReturnsRestoreScope

\* Unless the call stack grows, a parser from which only tidy parsers are reached
\* returns with NORETURN and NOERROR as they were, wherever in the grammar it stands
\* (include/ccombinator.h:347-355; cc_eval.c:721-733).
THEOREM FlagsAreRestored == Spec /\ root \in Tidy /\ []NeverGrown => ReturnsRestoreFlags
  <1>1. FullInv /\ root \in Tidy /\ [Next]_vars => (root \in Tidy)'
    BY StepIs, LookedUpIs DEF FullInv, Turn, Call, Leave, Still
  <1>2. FullInv /\ root \in Tidy /\ NeverGrown /\ [Next]_vars
          => [Returns => /\ flags'.noreturn = Top.entry.noreturn
                         /\ flags'.noerror = Top.entry.noerror]_vars
    <2> SUFFICES ASSUME FullInv, root \in Tidy, NeverGrown, [Next]_vars, Returns
                 PROVE  /\ flags'.noreturn = Top.entry.noreturn
                        /\ flags'.noerror = Top.entry.noerror
      OBVIOUS
    <2>1. IInv /\ LocationsInv /\ FlagsInv /\ NoneLost
      BY DEF FullInv, CallInv, RoomInv, NeverGrown
    <2>2. Leave
      BY <2>1, ReturnsLeave
    <2>3. flags'.noreturn = flags.noreturn /\ flags'.noerror = flags.noerror
      BY <2>2 DEF Leave
    <2> QED
      BY <2>1, <2>2, <2>3, FlagsAtReturn
  <1> QED
    BY <1>1, <1>2, FullStart, FullNext, PTL DEF Spec, ReturnsRestoreFlags

\* Under the same conditions a repetition, a cc_maybe, a cc_not and a cc_noerror
\* leave the error report as they found it, whatever fails inside them
\* (include/ccombinator.h:288, 353; cc_compiler.c:384-533, cc_eval.c:596-625).
THEOREM SilenceIsKept ==
  Spec /\ root \in Tidy /\ []NeverGrown => SilentParsersReportNothing
  <1>1. FullInv /\ root \in Tidy /\ [Next]_vars => (root \in Tidy)'
    BY StepIs, LookedUpIs DEF FullInv, Turn, Call, Leave, Still
  <1>2. FullInv /\ root \in Tidy /\ NeverGrown /\ [Next]_vars
          => [Returns /\ Object.type \in {"NOT", "NOERROR", "MANY", "MAYBE"}
                => err' = Top.entry.err]_vars
    <2> SUFFICES ASSUME FullInv, root \in Tidy, NeverGrown, [Next]_vars, Returns,
                        Object.type \in {"NOT", "NOERROR", "MANY", "MAYBE"}
                 PROVE  err' = Top.entry.err
      OBVIOUS
    <2>1. IInv /\ LocationsInv /\ FlagsInv /\ NoneLost
      BY DEF FullInv, CallInv, RoomInv, NeverGrown
    <2>2. Leave
      BY <2>1, ReturnsLeave
    <2>3. AtEnd
      BY <2>1, <2>2, FlagsAtReturn DEF is_combinator, CombinatorTypes
    <2>4. err' = err
      BY <2>2, <2>3 DEF Leave
    <2>5. Depth \in 1 .. Len(calls)
      BY <2>1, <2>3, TopIs DEF AtEnd
    <2>6. Silent(Top)
      BY DEF Silent, SilentTypes, Object
    <2> QED
      BY <2>1, <2>4, <2>5, <2>6 DEF FlagsInv, SilenceInv, Top
  <1> QED
    BY <1>1, <1>2, FullStart, FullNext, PTL DEF Spec, SilentParsersReportNothing

\* Under the same conditions no FOLD without a function runs where a result is wanted:
\* lazy_eval never calls the NULL function (cc_eval.c:541, 781).
THEOREM NoNullFoldRuns == Spec /\ root \in Tidy /\ []NeverGrown => []NoNullFold
  <1>1. FullInv /\ root \in Tidy /\ [Next]_vars => (root \in Tidy)'
    BY StepIs, LookedUpIs DEF FullInv, Turn, Call, Leave, Still
  <1>2. FullInv /\ root \in Tidy /\ NeverGrown => NoNullFold
    <2> SUFFICES ASSUME FullInv, root \in Tidy, NeverGrown,
                        AtInstr, Op = "FOLD", ~flags.noreturn, Object.fold = NoFold
                 PROVE  FALSE
      BY DEF NoNullFold
    <2>1. IInv /\ LocationsInv /\ FlagsInv
      BY DEF FullInv, CallInv, RoomInv, NeverGrown
    <2>2. Running /\ Depth \in 1 .. Len(calls)
      BY <2>1, TopIs DEF AtInstr
    <2>3. Known(Top).noreturn = "set"
      BY <2>1, <2>2, TidyInstr, LocationsOfTop DEF FlagsInv, OnlyTidy, Top
    <2>4. Means(Known(Top).noreturn, flags.noreturn, Top.entry)
      BY <2>1, <2>2 DEF FlagsInv, TopKnows, FlagsAre, Running
    <2> QED
      BY <2>3, <2>4 DEF Means
  <1> QED
    BY <1>1, <1>2, FullStart, FullNext, PTL DEF Spec
=============================================================================
