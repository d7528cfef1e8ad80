------------------------------ MODULE StackMap ------------------------------
(***************************************************************************)
(* How the instructions of ir_eval use the data stack, and what it takes   *)
(* for a program never to reach below the part of it that is its own.      *)
(*                                                                         *)
(* The heights are counted from the frame's sp.  HeightOf(code)[k] is a    *)
(* lower bound: the program owns at least that many words whenever it      *)
(* stands at instruction k.  k = Len(code) + 1 is the end of the program.  *)
(***************************************************************************)
EXTENDS Compiler, Integers

\* The words an instruction asserts to be there (data_pop, data_stack.count >= n).
Needs(op) ==
  CASE op \in {"POP", "DUP", "NEGATE", "INCREMENT", "DECREMENT", "SET_NOERROR",
               "SET_NORETURN", "FOLD", "JUMP_IF_NONZERO", "JUMP_IF_SUCCESS",
               "JUMP_IF_FAILURE"} -> 1
    [] op = "SWAP" -> 2
    [] OTHER -> 0

\* What it does to the height.  A call leaves its caller one word: the outcome.
Delta(op) ==
  CASE op \in {"PUSH", "DUP", "CALL"} -> 1
    [] op \in {"POP", "FOLD", "JUMP_IF_NONZERO", "JUMP_IF_SUCCESS",
               "JUMP_IF_FAILURE"} -> -1
    [] OTHER -> 0

Points(code) == 1 .. Len(code) + 1

Succ(code, k) ==
  (IF code[k].op = "JUMP" THEN {} ELSE {k + 1})
    \cup (IF code[k].op \in Jumps THEN {code[k].arg} ELSE {})

\* The bound of an instruction that nothing before it leads to.
Unreached(code) == 2 * Len(code)

MinOf(S) == CHOOSE x \in S : \A y \in S : x <= y

(***************************************************************************)
(* One forward pass: the least height any earlier instruction leaves.  A   *)
(* backward jump adds nothing to the bound, and Verified checks that it    *)
(* does not break it.                                                      *)
(***************************************************************************)
HeightOf(code) ==
  LET h[k \in Points(code)] ==
        IF k = 1 THEN 0
        ELSE MinOf({Unreached(code)} \cup
                   {h[j] + Delta(code[j].op) : j \in {i \in 1 .. k - 1 : k \in Succ(code, i)}})
  IN  h

(***************************************************************************)
(* The program of a combinator of the given type is well formed with the   *)
(* heights h: every operand fits its opcode, every instruction finds the   *)
(* words it needs, every jump stays inside the program, and the end of the *)
(* program finds the outcome it returns.                                   *)
(***************************************************************************)
OperandFits(type, i, ids, words, points) ==
  /\ i.op \in Ops
  /\ i.op = "PUSH" => i.arg \in words
  /\ i.op = "CALL" => i.arg \in ids
  /\ i.op \in Jumps => i.arg \in points
  /\ i.op = "APPLY" => type = "APPLY"
  /\ i.op = "EXPECT" => type = "EXPECT"
  /\ i.op \in {"PUSH_BINDING", "POP_BINDING"} => type = "BIND"

Verified(type, code, h, ids, words) ==
  /\ Len(code) \in Nat
  /\ DOMAIN code = 1 .. Len(code)
  /\ h \in [Points(code) -> Nat]
  /\ h[1] = 0
  /\ \A k \in DOMAIN code : OperandFits(type, code[k], ids, words, Points(code))
  /\ \A k \in DOMAIN code :
       /\ Needs(code[k].op) <= h[k]
       /\ \A s \in Succ(code, k) : h[s] <= h[k] + Delta(code[k].op)
  /\ h[Len(code) + 1] >= 1
=============================================================================
