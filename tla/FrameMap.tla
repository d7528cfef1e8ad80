------------------------------ MODULE FrameMap ------------------------------
(***************************************************************************)
(* What a program keeps for its caller: the flags it saved on the data     *)
(* stack, the location it saved in its frame, and the binding it put in    *)
(* scope.  StackMap counts the words of a program; here they are told      *)
(* apart.                                                                  *)
(*                                                                         *)
(* FactsOf(code)[k] says what is known whenever the program stands at      *)
(* instruction k, on whatever path it came there.                          *)
(***************************************************************************)
EXTENDS StackMap

(***************************************************************************)
(* A word, or a flag, is known to be set (not zero), to be what the caller *)
(* had in NORETURN or in NOERROR, or nothing is known of it.               *)
(***************************************************************************)
Tags == {"unknown", "set", "noreturn", "noerror"}

\* The words of which something may be known, counted from the top of the stack.
Tracked == 1 .. 6

Nothing == [j \in Tracked |-> "unknown"]

\* noreturn, noerror: the flags; saved: the frame's location was saved by this
\* call; bound: the binding of the combinator is in scope.
FactSet == [reached : BOOLEAN, words : [Tracked -> Tags], noreturn : Tags, noerror : Tags,
            saved : BOOLEAN, bound : BOOLEAN]

\* At the start of a program; and where nothing leads to.
AtCall == [reached |-> TRUE, words |-> Nothing, noreturn |-> "noreturn", noerror |-> "noerror",
           saved |-> FALSE, bound |-> FALSE]
Nowhere == [AtCall EXCEPT !.reached = FALSE]

-----------------------------------------------------------------------------
Pushed(words, tag) == [j \in Tracked |-> IF j = 1 THEN tag ELSE words[j - 1]]
Dropped(words)     == [j \in Tracked |-> IF j + 1 \in Tracked THEN words[j + 1] ELSE "unknown"]

\* A constant is of interest where it goes to a flag.
Constant(code, k) ==
  IF code[k].arg # 0 /\ k < Len(code) /\ code[k + 1].op \in {"SET_NORETURN", "SET_NOERROR"}
  THEN "set" ELSE "unknown"

WordsAfter(code, k, s) ==
  LET op == code[k].op
      w  == s.words
  IN  CASE op = "PUSH"         -> Pushed(w, Constant(code, k))
        [] op = "DUP"          -> Pushed(w, w[1])
        [] op = "CALL"         -> Pushed(w, "unknown")
        [] op \in {"POP", "FOLD"} \cup (Jumps \ {"JUMP"}) -> Dropped(w)
        [] op = "SWAP"         -> [w EXCEPT ![1] = w[2], ![2] = w[1]]
        [] op \in {"NEGATE", "INCREMENT", "DECREMENT"} -> [w EXCEPT ![1] = "unknown"]
        [] op = "SET_NORETURN" -> [w EXCEPT ![1] = s.noreturn]
        [] op = "SET_NOERROR"  -> [w EXCEPT ![1] = s.noerror]
        [] OTHER               -> w

\* What instruction k makes of the facts.  A call returns with the flags, the scope
\* and the words as it found them, and leaves one word.
After(code, k, s) ==
  LET op == code[k].op IN
  [reached  |-> s.reached,
   words    |-> WordsAfter(code, k, s),
   noreturn |-> IF op = "SET_NORETURN" THEN s.words[1] ELSE s.noreturn,
   noerror  |-> IF op = "SET_NOERROR" THEN s.words[1] ELSE s.noerror,
   saved    |-> s.saved \/ op = "SAVE_LOCATION",
   bound    |-> op = "PUSH_BINDING" \/ (s.bound /\ op # "POP_BINDING")]

\* What the ways to an instruction that are taken at all agree on.
Agreed(tags) == IF \E t \in tags : tags = {t} THEN CHOOSE t \in tags : TRUE ELSE "unknown"

Meet(S) ==
  LET R == {s \in S : s.reached}
  IN  IF R = {} THEN Nowhere
      ELSE [reached  |-> TRUE,
            words    |-> [j \in Tracked |-> Agreed({s.words[j] : s \in R})],
            noreturn |-> Agreed({s.noreturn : s \in R}),
            noerror  |-> Agreed({s.noerror : s \in R}),
            saved    |-> \A s \in R : s.saved,
            bound    |-> \E s \in R : s.bound]

\* One forward pass, as in StackMap; Balanced checks it against the backward jumps.
FactsOf(code) ==
  LET a[k \in Points(code)] ==
        IF k = 1 THEN AtCall
        ELSE Meet({After(code, j, a[j]) : j \in {i \in 1 .. k - 1 : k \in Succ(code, i)}})
  IN  a

-----------------------------------------------------------------------------
\* s claims no more than t does.
Claims(s, t) ==
  /\ s.reached
  /\ \A j \in Tracked : s.words[j] \in {"unknown", t.words[j]}
  /\ s.noreturn \in {"unknown", t.noreturn}
  /\ s.noerror \in {"unknown", t.noerror}
  /\ s.saved => t.saved
  /\ s.bound = t.bound

(***************************************************************************)
(* The facts a are true of the program, every RESTORE_LOCATION follows a   *)
(* SAVE_LOCATION of the same call, and the binding is in scope between the *)
(* one PUSH_BINDING and the one POP_BINDING of each path.                  *)
(***************************************************************************)
Balanced(code, a) ==
  /\ a \in [Points(code) -> FactSet]
  /\ a[1] = AtCall
  /\ \A k \in DOMAIN code : a[k].reached =>
       /\ \A n \in Succ(code, k) : Claims(a[n], After(code, k, a[k]))
       /\ code[k].op = "RESTORE_LOCATION" => a[k].saved
       /\ code[k].op = "PUSH_BINDING" => ~a[k].bound
       /\ code[k].op = "POP_BINDING" => a[k].bound
  /\ a[Len(code) + 1].reached => ~a[Len(code) + 1].bound

\* Parsers of these types leave the error report as they found it.
SilentTypes == {"NOT", "NOERROR", "MANY", "MAYBE"}

(***************************************************************************)
(* Moreover: what is known is known of words of the program's own (h are   *)
(* the heights of StackMap), NOERROR is never cleared where the caller has *)
(* set it and is set where a silent parser calls another, a FOLD without a *)
(* function finds NORETURN set, and the end finds both flags restored.     *)
(***************************************************************************)
Restores(p, code, a, h) ==
  /\ \A k \in Points(code) : a[k].reached =>
       /\ \A j \in Tracked : a[k].words[j] # "unknown" => j <= h[k]
       /\ a[k].noerror \in {"set", "noerror"}
  /\ \A k \in DOMAIN code : a[k].reached =>
       /\ code[k].op = "FOLD" /\ p.fold = NoFold => a[k].noreturn = "set"
       /\ code[k].op = "CALL" /\ p.type \in SilentTypes => a[k].noerror = "set"
  /\ a[Len(code) + 1].reached =>
       a[Len(code) + 1].noreturn = "noreturn" /\ a[Len(code) + 1].noerror = "noerror"
=============================================================================
