----------------------------- MODULE ResultMap ------------------------------
(***************************************************************************)
(* What a program has put on the result stack wherever it stands.          *)
(*                                                                         *)
(* The compiler emits FOLD with a count that it hopes to be the number of  *)
(* results the program has made by then: a constant, or a word the program *)
(* counted up or down on the data stack, once for each call that made one. *)
(* A state says how many results a program has made since it was called,   *)
(* and how its topmost words relate to that number; StatesOf(code)[k] are  *)
(* the states in which the program may stand at instruction k, if its      *)
(* caller wants results (under NORETURN there are none to count).          *)
(***************************************************************************)
EXTENDS Eval, FrameMap

\* A word that may have the values of the set may, and whether it counts results.
Tag(may) == [may |-> may, counts |-> FALSE]

AnyWord == Tag(Words)

(***************************************************************************)
(* With sign 0, made results are there.  With sign 1 or -1, there are      *)
(* made + sign * w of them, for every word w that counts.                  *)
(***************************************************************************)
States == [words : [Tracked -> [may : SUBSET Words, counts : BOOLEAN]],
           sign : {-1, 0, 1}, made : Int]

AtStart == [words |-> [j \in Tracked |-> AnyWord], sign |-> 0, made |-> 0]

Signed(sign, w) == IF sign = 1 THEN w ELSE IF sign = -1 THEN 0 - w ELSE 0

\* The state s is true of a frame that has made n results, whose words are ws[i]
\* with bottom < i <= top.
Describes(s, ws, bottom, top, n) ==
  /\ s.sign = 0 => n = s.made
  /\ \A j \in Tracked : bottom < top - j + 1 =>
       LET w == ws[top - j + 1] IN
       /\ w \in s.words[j].may
       /\ s.words[j].counts => n = s.made + Signed(s.sign, w)

\* What s says is said by t already, or follows from it.
Follows(t, s) ==
  /\ s.sign = 0 => t.sign = 0 /\ t.made = s.made
  /\ \A j \in Tracked :
       /\ t.words[j].may \subseteq s.words[j].may
       /\ s.words[j].counts =>
            \/ t.words[j].counts /\ t.sign = s.sign /\ t.made = s.made
            \/ t.sign = 0 /\ \A w \in t.words[j].may : t.made = s.made + Signed(s.sign, w)

-----------------------------------------------------------------------------
(* The instructions. *)

Put(s, tag)     == [s EXCEPT !.words = [j \in Tracked |-> IF j = 1 THEN tag ELSE s.words[j - 1]]]
Dropping(s)     == [s EXCEPT !.words = [j \in Tracked |-> IF j + 1 \in Tracked
                                                          THEN s.words[j + 1] ELSE AnyWord]]
Swapped(s)      == [s EXCEPT !.words[1] = s.words[2], !.words[2] = s.words[1]]
Replaced(s, tag) == [s EXCEPT !.words[1] = tag]
More(s, n)      == [s EXCEPT !.made = @ + n]

\* The topmost word is counted up or down: what it counts it still counts, another
\* copy of it does not.
Counted(s, may, by) ==
  [s EXCEPT !.words = [j \in Tracked |-> IF j = 1 THEN [may |-> may, counts |-> s.words[1].counts]
                                         ELSE Tag(s.words[j].may)],
            !.made = @ - Signed(s.sign, by)]

\* The topmost word turns out to be in the set S.  Every word that counts is equal to it
\* if it counts, too; and where it is zero, the results are counted without it.
Tested(s, S) ==
  LET counting == s.sign # 0 /\ s.words[1].counts IN
  [s EXCEPT !.words = [j \in Tracked |-> IF j = 1 \/ (counting /\ s.words[j].counts)
                                         THEN [s.words[j] EXCEPT !.may = @ \cap S] ELSE s.words[j]],
            !.sign = IF counting /\ S = {0} THEN 0 ELSE @]

NonZero == Words \ {0}

\* The words for which a conditional jump is taken.
Taken(op) == IF op = "JUMP_IF_FAILURE" THEN {0} ELSE NonZero

\* A program finds NORETURN set, or else as its caller had it: not set.
Silenced(f) == f.noreturn = "set"
Made(f)     == IF Silenced(f) THEN 0 ELSE 1

\* FOLD takes as many results as the word says and leaves one: of a state that knows
\* their number, or of a word that counts them.
Folded(s, f) ==
  IF Silenced(f) THEN {Dropping(s)}
  ELSE IF s.sign = 0
  THEN {Dropping([s EXCEPT !.made = @ - w + 1]) : w \in s.words[1].may}
  ELSE {Dropping([s EXCEPT !.sign = 0, !.made = @ + 1])}

\* Where instruction k leads from the state s, and to which state, if f are the facts
\* FrameMap knows there.  A call returns 0 and no result, or not 0 and a result.
Moves(code, k, f, s) ==
  LET i  == code[k]
      op == i.op
      may == s.words[1].may
      To(S) == {k + 1} \X S
  IN  CASE op = "PUSH"      -> To({Put(s, Tag({i.arg}))})
        [] op = "DUP"       -> To({Put(s, s.words[1])})
        [] op = "POP"       -> To({Dropping(s)})
        [] op = "SWAP"      -> To({Swapped(s)})
        [] op = "NEGATE"    -> To({Replaced(s, Tag({Bit(w = 0) : w \in may}))})
        [] op = "INCREMENT" -> To({Counted(s, {(w + 1) % WordSize : w \in may}, 1)})
        [] op = "DECREMENT" -> To({Counted(s, {(w + WordSize - 1) % WordSize : w \in may}, -1)})
        [] op \in {"SET_NORETURN", "SET_NOERROR"} -> To({Replaced(s, AnyWord)})
        [] op = "CALL"      -> To({Put(s, Tag({0})), Put(More(s, Made(f)), Tag(NonZero))})
        [] op = "FOLD"      -> To(Folded(s, f))
        [] op = "NULL_RESULT" -> To({More(s, Made(f))})
        [] op = "JUMP"      -> {<<i.arg, s>>}
        [] op \in Jumps \ {"JUMP"} ->
             {<<i.arg, Dropping(Tested(s, S))>> : S \in {T \in {Taken(op)} : may \cap T # {}}}
               \cup To({Dropping(Tested(s, S)) :
                          S \in {T \in {Words \ Taken(op)} : may \cap T # {}}})
        [] OTHER            -> To({s})

(***************************************************************************)
(* What an instruction asks of the state it finds: the word of a FOLD is   *)
(* not more than the results, APPLY finds one, and a word that counts does *)
(* not wrap around (it is counted up only while it is not more than the    *)
(* results made, and down only where it is not zero).                      *)
(***************************************************************************)
Fits(op, f, s) ==
  LET counting == s.sign # 0 /\ s.words[1].counts IN
  /\ op = "FOLD" /\ ~Silenced(f) =>
       IF s.sign = 0 THEN \A w \in s.words[1].may : w <= s.made
                     ELSE s.sign = 1 /\ s.words[1].counts /\ s.made >= 0
  /\ op = "APPLY" /\ ~Silenced(f) => s.sign = 0 /\ s.made >= 1
  /\ op = "INCREMENT" /\ counting => s.sign = 1 /\ s.made >= 0
  /\ op = "DECREMENT" /\ counting => 0 \notin s.words[1].may \/ (s.sign = 1 /\ s.made < 0)

-----------------------------------------------------------------------------
(* The analysis: a forward pass, as in FrameMap, with a guess at the head  *)
(* of each loop.                                                           *)

IsLoopHead(code, k) == \E j \in k .. Len(code) : code[j].op \in Jumps /\ code[j].arg = k

\* The constant pushed before a loop counts the results it makes: down, if the loop
\* begins with a DECREMENT, and else up.
Guessed(code, k, f, s) ==
  LET v == CHOOSE w \in s.words[1].may : TRUE IN
  IF s.sign # 0 \/ s.words[1].may # {v} THEN s
  ELSE IF Silenced(f) THEN Replaced(s, AnyWord)
  ELSE IF code[k].op = "DECREMENT"
  THEN [Replaced(s, [may |-> NonZero, counts |-> TRUE]) EXCEPT !.sign = -1, !.made = s.made + v]
  ELSE [Replaced(s, [may |-> Words, counts |-> TRUE]) EXCEPT !.sign = 1, !.made = s.made - v]

StatesOf(code, facts) ==
  LET c[k \in Points(code)] ==
        LET before == {j \in 1 .. k - 1 : facts[j].reached /\ k \in Succ(code, j)}
            comes  == IF k = 1 THEN {AtStart}
                      ELSE {m[2] : m \in {n \in UNION {UNION {Moves(code, j, facts[j], s) : s \in c[j]} :
                                                       j \in before} : n[1] = k}}
        IN  IF k \in DOMAIN code /\ IsLoopHead(code, k)
            THEN {Guessed(code, k, facts[k], s) : s \in comes} ELSE comes
  IN  c

(***************************************************************************)
(* The states c are those in which the program may stand, whatever its     *)
(* calls return: they are left by no instruction, each has what it asks    *)
(* for, and the program ends with the outcome 0 or with one result.        *)
(***************************************************************************)
Counts(code, facts, c) ==
  /\ \A k \in Points(code) : c[k] \subseteq States
  /\ \E s \in c[1] : Follows(AtStart, s)
  /\ \A k \in Points(code) : facts[k].reached => facts[k].noreturn \in {"set", "noreturn"}
  /\ \A k \in DOMAIN code : facts[k].reached =>
       \A s \in c[k] :
         /\ Fits(code[k].op, facts[k], s)
         /\ \A m \in Moves(code, k, facts[k], s) : \E t \in c[m[1]] : Follows(m[2], t)
  /\ facts[Len(code) + 1].reached =>
       \A s \in c[Len(code) + 1] :
         s.words[1].may = {0} \/ (s.sign = 0 /\ s.made = 1)
=============================================================================
