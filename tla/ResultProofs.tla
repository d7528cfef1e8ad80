---------------------------- MODULE ResultProofs ----------------------------
(***************************************************************************)
(* Proofs that the result stack holds what the instructions count on, for  *)
(* every grammar and every input: no assert of the evaluator fails.        *)
(*                                                                         *)
(* ResultMap says how the words of a program relate to the results it has  *)
(* made.  The invariant says that they do so, in every frame at once: in   *)
(* the running one for the results above its rp, in a waiting one for      *)
(* those between its rp and the rp of the frame it called.                 *)
(***************************************************************************)
EXTENDS CallProofs, ResultMap

CONSTANT Exact  \* tidy parsers that count their results, and call only such parsers

Results == [p \in DOMAIN Code |-> StatesOf(Code[p], Facts[p])]

\* The programs of Exact count their results, and lead to parsers of Exact only.
ASSUME ExactCounts ==
  /\ Exact \subseteq Tidy
  /\ \A p \in Exact : Parsers[p].type = "BIND" => Parsers[p].arg.p \in Exact
  /\ \A p \in Exact \cap DOMAIN Code :
       /\ Counts(Code[p], Facts[p], Results[p])
       /\ \A k \in DOMAIN Code[p] : Code[p][k].op = "CALL" => Code[p][k].arg \in Exact

\* The counter of a loop can be counted up once more (cc_eval.c:705-712: the words and
\* the number of results are 32 bits wide).
NoWrap == Len(results) + 1 < WordSize

-----------------------------------------------------------------------------
StatesAt(f, k) ==
  IF is_combinator(Parsers[f.parser].type) THEN Results[f.parser][k] ELSE {AtStart}

\* The frame f stands at k, its words end at top, and it has made n results.
Accounts(f, k, words, top, n) ==
  IF f.entry.noreturn THEN n = 0
  ELSE \E s \in StatesAt(f, k) : Describes(s, words, f.sp, top, n)

OnlyExact == /\ \A i \in 1 .. Len(calls) : calls[i].parser \in Exact
             /\ \A i \in 1 .. Len(scope) : scope[i].p \in Exact

\* A frame that waits stands behind the CALL that is running.
Waits(f) ==
  /\ f.ip - 1 \in DOMAIN Code[f.parser]
  /\ Code[f.parser][f.ip - 1].op = "CALL"
  /\ Facts[f.parser][f.ip - 1].reached

CallersAccount ==
  \A i \in 1 .. Len(calls) - 1 :
    /\ Waits(calls[i])
    /\ calls[i].rp <= calls[i + 1].rp
    /\ Accounts(calls[i], calls[i].ip - 1, data, calls[i + 1].sp, calls[i + 1].rp - calls[i].rp)

TopAccounts ==
  IF calls # <<>>
  THEN /\ calls[1].rp = 0
       /\ Top.rp <= Len(results)
       /\ Accounts(Top, Top.ip, data, Len(data), Len(results) - Top.rp)
  ELSE status = "run" /\ Word # 0 /\ ~flags.noreturn => Len(results) = 1

CountsInv == status # "aborted" /\ OnlyExact /\ CallersAccount /\ TopAccounts

\* As long as the call stack has room, every frame under a root in Exact has made as
\* many results as ResultMap says, whatever its calls returned, and no assert fails
\* (cc_eval.c:741-897; cc_compiler.c:190-645).
ResultInv == root \in Exact /\ room = CallStackCap => CountsInv

-----------------------------------------------------------------------------
(* What a state of ResultMap says, and what follows from it. *)

LEMMA StateFields ==
  ASSUME NEW s \in States
  PROVE  /\ s.sign \in {-1, 0, 1} /\ s.made \in Int
         /\ s.words \in [Tracked -> [may : SUBSET Words, counts : BOOLEAN]]
         /\ \A j \in Tracked : /\ s.words[j] \in [may : SUBSET Words, counts : BOOLEAN]
                               /\ s.words[j].may \subseteq Words /\ s.words[j].counts \in BOOLEAN
  BY DEF States

LEMMA AtStartTyped ==
  /\ AtStart \in States /\ AtStart.sign = 0 /\ AtStart.made = 0
  /\ \A j \in Tracked : AtStart.words[j] = AnyWord
  BY DEF AtStart, States, AnyWord, Tag

LEMMA FollowsDescribes ==
  ASSUME NEW s, NEW t, Follows(t, s), NEW words, NEW bottom, NEW top, NEW n,
         Describes(t, words, bottom, top, n)
  PROVE  Describes(s, words, bottom, top, n)
  <1>1. s.sign = 0 => n = s.made
    BY DEF Follows, Describes
  <1>2. ASSUME NEW j \in Tracked, bottom < top - j + 1
        PROVE  LET w == words[top - j + 1] IN
               /\ w \in s.words[j].may
               /\ s.words[j].counts => n = s.made + Signed(s.sign, w)
    <2> DEFINE w == words[top - j + 1]
    <2>1. w \in t.words[j].may /\ (t.words[j].counts => n = t.made + Signed(t.sign, w))
      BY <1>2 DEF Describes
    <2>2. t.sign = 0 => n = t.made
      BY DEF Describes
    <2>3. /\ t.words[j].may \subseteq s.words[j].may
          /\ s.words[j].counts =>
               \/ t.words[j].counts /\ t.sign = s.sign /\ t.made = s.made
               \/ t.sign = 0 /\ \A v \in t.words[j].may : t.made = s.made + Signed(s.sign, v)
      BY DEF Follows
    <2> HIDE DEF w
    <2>4. s.words[j].counts => n = s.made + Signed(s.sign, w)
      BY <2>1, <2>2, <2>3
    <2> QED
      BY <2>1, <2>3, <2>4 DEF w
  <1> QED
    BY <1>1, <1>2 DEF Describes

\* Only the words of the frame matter.
LEMMA DescribesKept ==
  ASSUME NEW s, NEW ws, NEW vs, NEW bottom \in Nat, NEW top \in Nat, NEW n,
         Describes(s, ws, bottom, top, n), \A x \in 1 .. top : vs[x] = ws[x]
  PROVE  Describes(s, vs, bottom, top, n)
  <1>1. ASSUME NEW j \in Tracked, bottom < top - j + 1
        PROVE  vs[top - j + 1] = ws[top - j + 1]
    <2>1. top - j + 1 \in 1 .. top
      BY <1>1 DEF Tracked
    <2> QED
      BY <2>1
  <1> QED
    BY <1>1 DEF Describes

\* A frame that has no words and no results yet.
LEMMA StartDescribed ==
  ASSUME NEW words, NEW top \in Nat
  PROVE  Describes(AtStart, words, top, top, 0)
  BY AtStartTyped DEF Describes, Tracked

LEMMA PutDescribes ==
  ASSUME NEW s \in States, NEW ws, NEW vs, NEW bottom \in Nat, NEW top \in Nat, NEW n,
         Describes(s, ws, bottom, top, n), NEW tag,
         \A x \in 1 .. top : vs[x] = ws[x],
         vs[top + 1] \in tag.may,
         tag.counts => n = s.made + Signed(s.sign, vs[top + 1])
  PROVE  Describes(Put(s, tag), vs, bottom, top + 1, n)
  <1> DEFINE t == Put(s, tag)
  <1>1. /\ t.sign = s.sign /\ t.made = s.made
        /\ \A j \in Tracked : t.words[j] = IF j = 1 THEN tag ELSE s.words[j - 1]
    BY DEF Put, States
  <1> HIDE DEF t
  <1>2. ASSUME NEW j \in Tracked, bottom < (top + 1) - j + 1
        PROVE  LET w == vs[(top + 1) - j + 1] IN
               /\ w \in t.words[j].may
               /\ t.words[j].counts => n = t.made + Signed(t.sign, w)
    <2>1. CASE j = 1
      <3>1. (top + 1) - j + 1 = top + 1
        BY <2>1
      <3> QED
        BY <1>1, <2>1, <3>1
    <2>2. CASE j # 1
      <3>1. /\ j - 1 \in Tracked /\ (top + 1) - j + 1 = top - (j - 1) + 1
            /\ top - (j - 1) + 1 \in 1 .. top
        BY <1>2, <2>2 DEF Tracked
      <3>2. t.words[j] = s.words[j - 1]
        BY <1>1, <2>2
      <3> DEFINE i == j - 1
                 y == top - i + 1
      <3>3. i \in Tracked /\ bottom < y /\ vs[y] = ws[y] /\ (top + 1) - j + 1 = y
        BY <1>2, <3>1
      <3>4. ws[y] \in s.words[i].may /\ (s.words[i].counts => n = s.made + Signed(s.sign, ws[y]))
        BY <3>3 DEF Describes
      <3> HIDE DEF y, i
      <3> QED
        BY <1>1, <3>2, <3>3, <3>4 DEF i
    <2> QED
      BY <2>1, <2>2
  <1> QED
    BY <1>1, <1>2 DEF Describes, t

LEMMA DroppingDescribes ==
  ASSUME NEW s \in States, NEW ws, NEW vs, NEW bottom \in Nat, NEW top \in Nat \ {0}, NEW n,
         Describes(s, ws, bottom, top, n),
         \A x \in 1 .. top - 1 : vs[x] = ws[x] /\ vs[x] \in Words
  PROVE  Describes(Dropping(s), vs, bottom, top - 1, n)
  <1> DEFINE t == Dropping(s)
  <1>1. /\ t.sign = s.sign /\ t.made = s.made
        /\ \A j \in Tracked : t.words[j] = IF j + 1 \in Tracked THEN s.words[j + 1] ELSE AnyWord
    BY DEF Dropping, States
  <1> HIDE DEF t
  <1>2. ASSUME NEW j \in Tracked, bottom < (top - 1) - j + 1
        PROVE  LET w == vs[(top - 1) - j + 1] IN
               /\ w \in t.words[j].may
               /\ t.words[j].counts => n = t.made + Signed(t.sign, w)
    <2> DEFINE i == j + 1
               y == top - i + 1
    <2>1. (top - 1) - j + 1 = y /\ y \in 1 .. top - 1 /\ bottom < y
      BY <1>2 DEF Tracked
    <2>2. vs[y] = ws[y] /\ vs[y] \in Words
      BY <2>1
    <2>3. CASE i \in Tracked
      <3>1. ws[y] \in s.words[i].may /\ (s.words[i].counts => n = s.made + Signed(s.sign, ws[y]))
        BY <2>1, <2>3 DEF Describes
      <3>2. t.words[j] = s.words[i]
        BY <1>1, <2>3
      <3> HIDE DEF y, i
      <3> QED
        BY <1>1, <2>1, <2>2, <3>1, <3>2
    <2>4. CASE i \notin Tracked
      <3>1. t.words[j] = AnyWord
        BY <1>1, <2>4
      <3> HIDE DEF y, i
      <3> QED
        BY <2>1, <2>2, <3>1 DEF AnyWord, Tag
    <2> QED
      BY <2>3, <2>4
  <1> QED
    BY <1>1, <1>2 DEF Describes, t

LEMMA ReplacedDescribes ==
  ASSUME NEW s \in States, NEW ws, NEW vs, NEW bottom \in Nat, NEW top \in Nat \ {0}, NEW n,
         Describes(s, ws, bottom, top, n),
         \A x \in 1 .. top - 1 : vs[x] = ws[x], NEW may, vs[top] \in may
  PROVE  Describes(Replaced(s, Tag(may)), vs, bottom, top, n)
  <1> DEFINE t == Replaced(s, Tag(may))
  <1>1. /\ t.sign = s.sign /\ t.made = s.made
        /\ \A j \in Tracked : t.words[j] = IF j = 1 THEN Tag(may) ELSE s.words[j]
    BY DEF Replaced, States, Tracked
  <1> HIDE DEF t
  <1>2. ASSUME NEW j \in Tracked, bottom < top - j + 1
        PROVE  LET w == vs[top - j + 1] IN
               /\ w \in t.words[j].may
               /\ t.words[j].counts => n = t.made + Signed(t.sign, w)
    <2>1. CASE j = 1
      <3>1. top - j + 1 = top
        BY <2>1
      <3> QED
        BY <1>1, <2>1, <3>1 DEF Tag
    <2>2. CASE j # 1
      <3>1. top - j + 1 \in 1 .. top - 1
        BY <1>2, <2>2 DEF Tracked
      <3>2. t.words[j] = s.words[j] /\ vs[top - j + 1] = ws[top - j + 1]
        BY <1>1, <2>2, <3>1
      <3> QED
        BY <1>1, <1>2, <3>2 DEF Describes
    <2> QED
      BY <2>1, <2>2
  <1> QED
    BY <1>1, <1>2 DEF Describes, t

LEMMA SwappedDescribes ==
  ASSUME NEW s \in States, NEW ws, NEW vs, NEW bottom \in Nat, NEW top \in Nat, NEW n,
         Describes(s, ws, bottom, top, n), bottom + 2 <= top,
         \A x \in 1 .. top : vs[x] = IF x = top THEN ws[top - 1]
                                     ELSE IF x = top - 1 THEN ws[top] ELSE ws[x]
  PROVE  Describes(Swapped(s), vs, bottom, top, n)
  <1> DEFINE t == Swapped(s)
             Twin(j) == IF j = 1 THEN 2 ELSE IF j = 2 THEN 1 ELSE j
  <1>1. /\ t.sign = s.sign /\ t.made = s.made
        /\ \A j \in Tracked : t.words[j] = s.words[Twin(j)]
    BY DEF Swapped, States, Tracked
  <1> HIDE DEF t
  <1>2. ASSUME NEW j \in Tracked, bottom < top - j + 1
        PROVE  LET w == vs[top - j + 1] IN
               /\ w \in t.words[j].may
               /\ t.words[j].counts => n = t.made + Signed(t.sign, w)
    <2> DEFINE i == Twin(j)
               y == top - i + 1
               x == top - j + 1
    <2>1. i \in Tracked /\ bottom < y /\ x \in 1 .. top
      BY <1>2 DEF Tracked
    <2>2. vs[x] = ws[y]
      <3>1. vs[x] = IF x = top THEN ws[top - 1] ELSE IF x = top - 1 THEN ws[top] ELSE ws[x]
        BY <2>1
      <3>2. CASE j = 1
        <4>1. x = top /\ y = top - 1
          BY <3>2
        <4> QED
          BY <3>1, <4>1
      <3>3. CASE j = 2
        <4>1. x = top - 1 /\ y = top /\ x # top
          BY <3>3
        <4> QED
          BY <3>1, <4>1
      <3>4. CASE j \notin {1, 2}
        <4>1. x # top /\ x # top - 1 /\ y = x
          BY <3>4 DEF Tracked
        <4> QED
          BY <3>1, <4>1
      <3> QED
        BY <3>2, <3>3, <3>4
    <2>3. ws[y] \in s.words[i].may /\ (s.words[i].counts => n = s.made + Signed(s.sign, ws[y]))
      BY <2>1 DEF Describes
    <2>4. t.words[j] = s.words[i]
      BY <1>1
    <2> HIDE DEF y, x, i
    <2>5. vs[x] \in t.words[j].may /\ (t.words[j].counts => n = t.made + Signed(t.sign, vs[x]))
      BY <1>1, <2>2, <2>3, <2>4
    <2> QED
      BY <2>5 DEF x
  <1> QED
    BY <1>1, <1>2 DEF Describes, t

LEMMA SignedTyped == \A sign, v : v \in Int => Signed(sign, v) \in Int
  BY DEF Signed

LEMMA SignedSum ==
  \A sign, u, v, w : u \in Int /\ v \in Int /\ w \in Int /\ u = v + w
                      => Signed(sign, u) = Signed(sign, v) + Signed(sign, w)
  BY DEF Signed

LEMMA SignedInjective ==
  \A sign, v, w : /\ v \in Int /\ w \in Int /\ sign \in {-1, 1}
                  /\ Signed(sign, v) = Signed(sign, w)
                  => v = w
  BY DEF Signed

LEMMA MoreIs ==
  ASSUME NEW s \in States, NEW k \in Int, NEW words, NEW bottom, NEW top, NEW n \in Int,
         Describes(s, words, bottom, top, n),
         \A i \in Tracked : bottom < top - i + 1 => words[top - i + 1] \in Int
  PROVE  /\ More(s, k) \in States
         /\ Describes(More(s, k), words, bottom, top, n + k)
  <1> DEFINE t == More(s, k)
  <1>1. t \in States /\ t.sign = s.sign /\ t.made = s.made + k /\ t.words = s.words
    BY StateFields DEF More, States
  <1> HIDE DEF t
  <1>2. s.made \in Int /\ s.sign \in {-1, 0, 1}
    BY StateFields
  <1>3. ASSUME NEW j \in Tracked, bottom < top - j + 1
        PROVE  LET w == words[top - j + 1] IN
               /\ w \in t.words[j].may
               /\ t.words[j].counts => n + k = t.made + Signed(t.sign, w)
    <2> DEFINE w == words[top - j + 1]
    <2>1. w \in s.words[j].may /\ (s.words[j].counts => n = s.made + Signed(s.sign, w))
      BY <1>3 DEF Describes
    <2>2. w \in Int
      BY <1>3
    <2> HIDE DEF w
    <2>3. Signed(s.sign, w) \in Int
      BY <2>2, SignedTyped
    <2>4. w \in t.words[j].may /\ (t.words[j].counts => n + k = t.made + Signed(t.sign, w))
      BY <1>1, <1>2, <2>1, <2>3
    <2> QED
      BY <2>4 DEF w
  <1>4. t.sign = 0 => n + k = t.made
    BY <1>1, <1>2 DEF Describes
  <1> QED
    BY <1>1, <1>3, <1>4 DEF Describes, t

LEMMA CountedDescribes ==
  ASSUME NEW s \in States, NEW ws, NEW vs, NEW bottom \in Nat, NEW top \in Nat, NEW n \in Int,
         Describes(s, ws, bottom, top, n), bottom < top,
         \A x \in 1 .. top - 1 : vs[x] = ws[x],
         NEW may, NEW by \in {-1, 1}, vs[top] \in may, ws[top] \in Int, vs[top] \in Int,
         s.sign # 0 /\ s.words[1].counts => vs[top] = ws[top] + by
  PROVE  Describes(Counted(s, may, by), vs, bottom, top, n)
  <1> DEFINE t == Counted(s, may, by)
             v == vs[top]
             w == ws[top]
  <1>1. /\ t.sign = s.sign /\ t.made = s.made - Signed(s.sign, by)
        /\ t.words[1] = [may |-> may, counts |-> s.words[1].counts]
        /\ \A j \in Tracked : j # 1 => t.words[j] = Tag(s.words[j].may)
    BY DEF Counted, States, Tracked
  <1> HIDE DEF t
  <1>2. s.made \in Int /\ s.sign \in {-1, 0, 1} /\ 1 \in Tracked /\ top - 1 + 1 = top
    BY StateFields DEF Tracked
  <1>3. s.words[1].counts => n = s.made + Signed(s.sign, w)
    <2> DEFINE j == 1
    <2>1. j \in Tracked /\ bottom < top - j + 1 /\ top - j + 1 = top
      BY <1>2
    <2>2. s.words[j].counts => n = s.made + Signed(s.sign, ws[top - j + 1])
      BY <2>1 DEF Describes
    <2> QED
      BY <2>1, <2>2
  <1>4. t.sign = 0 => n = t.made
    <2>1. s.sign = 0 => n = s.made /\ Signed(s.sign, by) = 0
      BY DEF Signed, Describes
    <2> QED
      BY <1>1, <1>2, <2>1
  <1>5. s.words[1].counts => n = t.made + Signed(t.sign, v)
    <2> SUFFICES ASSUME s.words[1].counts PROVE n = t.made + Signed(t.sign, v)
      OBVIOUS
    <2>1. CASE s.sign = 0
      <3>1. Signed(t.sign, v) = 0
        BY <1>1, <2>1 DEF Signed
      <3> QED
        BY <1>1, <1>4, <2>1, <3>1
    <2>2. CASE s.sign # 0
      <3>1. v = w + by /\ v \in Int /\ w \in Int
        BY <2>2
      <3> HIDE DEF v, w
      <3>2. Signed(s.sign, v) = Signed(s.sign, w) + Signed(s.sign, by)
        BY <3>1, SignedSum
      <3>3. Signed(s.sign, w) \in Int /\ Signed(s.sign, by) \in Int
        BY <3>1, SignedTyped
      <3> QED
        BY <1>1, <1>2, <1>3, <3>1, <3>2, <3>3
    <2> QED
      BY <2>1, <2>2
  <1>6. ASSUME NEW j \in Tracked, bottom < top - j + 1
        PROVE  LET u == vs[top - j + 1] IN
               /\ u \in t.words[j].may
               /\ t.words[j].counts => n = t.made + Signed(t.sign, u)
    <2>1. CASE j = 1
      <3>1. top - j + 1 = top
        BY <2>1
      <3> QED
        BY <1>1, <1>5, <2>1, <3>1
    <2>2. CASE j # 1
      <3>1. top - j + 1 \in 1 .. top - 1
        BY <1>6, <2>2 DEF Tracked
      <3>2. t.words[j] = Tag(s.words[j].may) /\ vs[top - j + 1] = ws[top - j + 1]
        BY <1>1, <2>2, <3>1
      <3> QED
        BY <1>6, <3>2 DEF Describes, Tag
    <2> QED
      BY <2>1, <2>2
  <1> QED
    BY <1>4, <1>6 DEF Describes, t

LEMMA TestedIs ==
  ASSUME NEW s \in States, NEW ws, NEW bottom \in Nat, NEW top \in Nat, NEW n \in Int,
         Describes(s, ws, bottom, top, n), bottom < top, NEW S, ws[top] \in S,
         \A x \in 1 .. top : ws[x] \in Int
  PROVE  /\ Tested(s, S) \in States
         /\ Describes(Tested(s, S), ws, bottom, top, n)
  <1> DEFINE counting == s.sign # 0 /\ s.words[1].counts
             t == Tested(s, S)
             Equal(j) == j = 1 \/ (counting /\ s.words[j].counts)
  <1>1. /\ t.made = s.made /\ t.sign = IF counting /\ S = {0} THEN 0 ELSE s.sign
        /\ \A j \in Tracked : t.words[j] = IF Equal(j) THEN [s.words[j] EXCEPT !.may = @ \cap S]
                                           ELSE s.words[j]
    BY DEF Tested, States
  <1>2. /\ s.made \in Int /\ s.sign \in {-1, 0, 1}
        /\ \A j \in Tracked : /\ s.words[j] \in [may : SUBSET Words, counts : BOOLEAN]
                              /\ s.words[j].may \subseteq Words /\ s.words[j].counts \in BOOLEAN
    BY StateFields
  <1>3. \A j \in Tracked :
          LET tag == IF Equal(j) THEN [s.words[j] EXCEPT !.may = @ \cap S] ELSE s.words[j] IN
          /\ tag \in [may : SUBSET Words, counts : BOOLEAN]
          /\ tag.counts = s.words[j].counts
          /\ tag.may = IF Equal(j) THEN s.words[j].may \cap S ELSE s.words[j].may
    <2> SUFFICES ASSUME NEW j \in Tracked
                 PROVE  LET tag == IF Equal(j) THEN [s.words[j] EXCEPT !.may = @ \cap S]
                                   ELSE s.words[j] IN
                        /\ tag \in [may : SUBSET Words, counts : BOOLEAN]
                        /\ tag.counts = s.words[j].counts
                        /\ tag.may = IF Equal(j) THEN s.words[j].may \cap S ELSE s.words[j].may
      OBVIOUS
    <2> DEFINE u == s.words[j]
    <2>1. u \in [may : SUBSET Words, counts : BOOLEAN]
      BY <1>2
    <2> HIDE DEF u
    <2>2. /\ [u EXCEPT !.may = @ \cap S] \in [may : SUBSET Words, counts : BOOLEAN]
          /\ [u EXCEPT !.may = @ \cap S].counts = u.counts
          /\ [u EXCEPT !.may = @ \cap S].may = u.may \cap S
      BY <2>1
    <2> QED
      BY <2>1, <2>2 DEF u
  <1>4. t \in States
    <2> DEFINE words == [j \in Tracked |-> IF Equal(j) THEN [s.words[j] EXCEPT !.may = @ \cap S]
                                           ELSE s.words[j]]
               sign == IF counting /\ S = {0} THEN 0 ELSE s.sign
    <2>1. words \in [Tracked -> [may : SUBSET Words, counts : BOOLEAN]]
      BY <1>3
    <2>2. sign \in {-1, 0, 1}
      BY <1>2
    <2>3. t = [s EXCEPT !.words = words, !.sign = sign]
      BY DEF t, Tested
    <2> HIDE DEF words, sign
    <2> QED
      BY <2>1, <2>2, <2>3 DEF States
  <1> DEFINE first == ws[top]
  <1>5. s.words[1].counts => n = s.made + Signed(s.sign, first)
    <2>1. 1 \in Tracked /\ top - 1 + 1 = top
      BY DEF Tracked
    <2> QED
      BY <2>1 DEF Describes
  <1>6. first \in S /\ first \in Int
    BY DEF Tracked
  <1> HIDE DEF first
  <1>7. t.sign = 0 => n = t.made
    <2>1. CASE counting /\ S = {0}
      <3>1. first = 0
        BY <1>6, <2>1
      <3>2. Signed(s.sign, first) = 0
        BY <3>1 DEF Signed
      <3> QED
        BY <1>1, <1>2, <1>5, <2>1, <3>1, <3>2
    <2>2. CASE ~(counting /\ S = {0})
      BY <1>1, <2>2 DEF Describes
    <2> QED
      BY <2>1, <2>2
  <1>8. ASSUME NEW j \in Tracked, bottom < top - j + 1
        PROVE  LET w == ws[top - j + 1] IN
               /\ w \in t.words[j].may
               /\ t.words[j].counts => n = t.made + Signed(t.sign, w)
    <2> DEFINE w == ws[top - j + 1]
    <2>1. w \in s.words[j].may /\ (s.words[j].counts => n = s.made + Signed(s.sign, w))
      BY <1>8 DEF Describes
    <2>2. w \in Int
      <3>1. top - j + 1 \in 1 .. top
        BY <1>8 DEF Tracked
      <3> QED
        BY <3>1
    <2>3. j = 1 => w = first
      <3>1. j = 1 => top - j + 1 = top
        OBVIOUS
      <3> QED
        BY <3>1 DEF first
    <2> HIDE DEF w
    <2>4. Equal(j) => w = first
      <3>1. CASE counting /\ s.words[j].counts
        <4>1. Signed(s.sign, w) = Signed(s.sign, first)
          <5>1. Signed(s.sign, w) \in Int /\ Signed(s.sign, first) \in Int
            BY <1>6, <2>2, SignedTyped
          <5>2. n = s.made + Signed(s.sign, w) /\ n = s.made + Signed(s.sign, first)
            BY <1>5, <2>1, <3>1
          <5> QED
            BY <1>2, <5>1, <5>2
        <4>2. s.sign \in {-1, 1}
          BY <1>2, <3>1
        <4> QED
          BY <1>6, <2>2, <4>1, <4>2, SignedInjective
      <3> QED
        BY <2>3, <3>1
    <2>0. /\ t.words[j].counts = s.words[j].counts
          /\ t.words[j].may = IF Equal(j) THEN s.words[j].may \cap S ELSE s.words[j].may
      BY <1>1, <1>3
    <2>5. w \in t.words[j].may
      BY <1>6, <2>0, <2>1, <2>4
    <2>6. t.words[j].counts => n = t.made + Signed(t.sign, w)
      <3>1. CASE counting /\ S = {0}
        <4>1. t.sign = 0 /\ Signed(t.sign, w) = 0 /\ t.made \in Int
          BY <1>1, <1>2, <2>2, <3>1 DEF Signed
        <4> QED
          BY <1>7, <4>1
      <3>2. CASE ~(counting /\ S = {0})
        BY <1>1, <2>0, <2>1, <3>2
      <3> QED
        BY <3>1, <3>2
    <2> QED
      BY <2>5, <2>6 DEF w
  <1> QED
    BY <1>4, <1>7, <1>8 DEF Describes, t

-----------------------------------------------------------------------------
(* What an instruction other than CALL does to the running frame, its      *)
(* topmost word and the results.                                           *)

Counting ==
  /\ Turn /\ status' = status
  /\ Top'.rp = Top.rp
  /\ Top'.ip = IF Op \in Jumps /\ JumpTaken THEN Arg ELSE Top.ip + 1
  /\ Op = "NEGATE" => data' = SetTop(Bit(Word = 0))
  /\ Op = "INCREMENT" => data' = SetTop((Word + 1) % WordSize)
  /\ Op = "DECREMENT" => data' = SetTop((Word + WordSize - 1) % WordSize)
  /\ Len(results') = IF Op = "FOLD" /\ ~flags.noreturn THEN Len(results) - Word + 1
                     ELSE IF Op = "NULL_RESULT" /\ ~flags.noreturn THEN Len(results) + 1
                     ELSE Len(results)

LEMMA GotoIs ==
  ASSUME IInv, AtInstr, NEW n \in Nat, Goto(n)
  PROVE  Top'.rp = Top.rp /\ Top'.ip = n
  <1> DEFINE f == [Top EXCEPT !.ip = n]
  <1>1. Running /\ Top \in Frames
    BY TopIs DEF AtInstr
  <1>2. calls' = [calls EXCEPT ![Depth] = f]
    BY <1>1, GotoTyped DEF Goto
  <1>3. f \in Frames /\ f.rp = Top.rp /\ f.ip = n
    BY <1>1 DEF Frames
  <1> HIDE DEF f
  <1>4. Top' = f
    BY <1>1, <1>2, <1>3, MovedIs
  <1> QED
    BY <1>3, <1>4

LEMMA AdvanceKeepsRp ==
  ASSUME IInv, AtInstr, Advance
  PROVE  Top'.rp = Top.rp /\ Top'.ip = Top.ip + 1
  <1>1. Top.ip + 1 \in Nat
    BY InstrIs, TopIs DEF AtInstr
  <1> QED
    BY <1>1, GotoIs DEF Advance

LEMMA DataCounts ==
  ASSUME IInv, \/ Push \/ PopWord \/ Dup \/ Negate \/ Increment \/ Decrement \/ Swap
  PROVE  Counting
  <1>1. Turn
    BY DataTurns
  <1>2. /\ AtInstr /\ Advance /\ OnlyData
        /\ Op \in {"PUSH", "POP", "DUP", "NEGATE", "INCREMENT", "DECREMENT", "SWAP"}
    BY DEF Push, PopWord, Dup, Negate, Increment, Decrement, Swap, Does
  <1>3. Top'.rp = Top.rp /\ Top'.ip = Top.ip + 1
    BY <1>2, AdvanceKeepsRp
  <1>4. /\ Op = "NEGATE" => data' = SetTop(Bit(Word = 0))
        /\ Op = "INCREMENT" => data' = SetTop((Word + 1) % WordSize)
        /\ Op = "DECREMENT" => data' = SetTop((Word + WordSize - 1) % WordSize)
    BY DEF Push, PopWord, Dup, Negate, Increment, Decrement, Swap, Does
  <1>5. results' = results /\ status' = status
    BY <1>2 DEF OnlyData
  <1> QED
    BY <1>1, <1>2, <1>3, <1>4, <1>5 DEF Counting, Jumps

LEMMA JumpCounts ==
  ASSUME IInv, Jump \/ CondJump
  PROVE  Counting
  <1>1. Turn
    BY DataTurns
  <1>2. AtInstr /\ Op \in Jumps /\ OnlyData
    BY DEF Jump, CondJump, Does, Jumps
  <1>3. Goto(IF JumpTaken THEN Arg ELSE Top.ip + 1)
    <2>1. CASE Jump
      <3>1. Goto(Arg) /\ Op = "JUMP"
        BY <2>1 DEF Jump, Does
      <3>2. JumpTaken
        BY <3>1 DEF JumpTaken
      <3> QED
        BY <3>1, <3>2
    <2>2. CASE CondJump
      BY <2>2 DEF CondJump
    <2> QED
      BY <2>1, <2>2
  <1>4. Arg \in Nat /\ Top.ip + 1 \in Nat
    BY <1>2, InstrIs, TopIs DEF AtInstr, OperandFits, Points, Op, Arg
  <1>5. Top'.rp = Top.rp /\ Top'.ip = IF JumpTaken THEN Arg ELSE Top.ip + 1
    <2> DEFINE n == IF JumpTaken THEN Arg ELSE Top.ip + 1
    <2>1. n \in Nat /\ Goto(n)
      BY <1>3, <1>4
    <2> HIDE DEF n
    <2>2. Top'.rp = Top.rp /\ Top'.ip = n
      BY <1>2, <2>1, GotoIs
    <2> QED
      BY <2>2 DEF n
  <1>6. results' = results /\ status' = status
    BY <1>2 DEF OnlyData
  <1> QED
    BY <1>1, <1>2, <1>5, <1>6 DEF Counting, Jumps

LEMMA SaveCounts ==
  ASSUME IInv, SaveLocation
  PROVE  Counting
  <1> DEFINE f == [Top EXCEPT !.loc = loc, !.ip = Top.ip + 1]
  <1>1. Turn
    BY SaveTurns
  <1>2. AtInstr /\ Op = "SAVE_LOCATION" /\ OnlyData /\ calls' = [calls EXCEPT ![Depth] = f]
    BY DEF SaveLocation, Does
  <1>3. Running /\ Top \in Frames /\ Top.ip + 1 \in Nat /\ loc \in 0 .. Len(src)
    BY <1>2, TopIs, Kept DEF AtInstr
  <1>4. f \in Frames /\ f.rp = Top.rp /\ f.ip = Top.ip + 1
    BY <1>3 DEF Frames
  <1> HIDE DEF f
  <1>5. Top' = f
    BY <1>2, <1>3, <1>4, MovedIs
  <1>6. results' = results /\ status' = status
    BY <1>2 DEF OnlyData
  <1> QED
    BY <1>1, <1>2, <1>4, <1>5, <1>6 DEF Counting, Jumps

LEMMA OtherCounts ==
  ASSUME IInv, \/ RestoreLocation \/ SetNoreturnFlag \/ SetNoerrorFlag \/ Expect
               \/ PushBinding \/ PopBinding
  PROVE  Counting
  <1>1. Turn
    BY OtherTurns
  <1>2. /\ AtInstr /\ Advance /\ results' = results /\ status' = status
        /\ Op \in {"RESTORE_LOCATION", "SET_NORETURN", "SET_NOERROR", "EXPECT",
                   "PUSH_BINDING", "POP_BINDING"}
    BY DEF RestoreLocation, SetNoreturnFlag, SetNoerrorFlag, Expect, PushBinding, PopBinding, Does
  <1>3. Top'.rp = Top.rp /\ Top'.ip = Top.ip + 1
    BY <1>2, AdvanceKeepsRp
  <1> QED
    BY <1>1, <1>2, <1>3 DEF Counting, Jumps

LEMMA FoldCounts ==
  ASSUME IInv, Fold
  PROVE  Counting
  <1> DEFINE n == Len(results) - Word
             kept == SubSeq(results, 1, n)
             tree == <<"fold", Object.fold, SubSeq(results, n + 1, Len(results))>>
  <1>1. Turn
    BY OtherTurns
  <1>2. /\ AtInstr /\ Op = "FOLD" /\ Advance /\ ~FoldAssertFails /\ status' = status
        /\ results' = IF flags.noreturn THEN results ELSE Append(kept, tree)
    BY DEF Fold, Does
  <1>3. Top'.rp = Top.rp /\ Top'.ip = Top.ip + 1
    BY <1>2, AdvanceKeepsRp
  <1>4. Word \in Nat
    <2>1. Needs(Op) = 1
      BY <1>2 DEF Needs
    <2> QED
      BY <1>2, <2>1, WordsAreThere DEF Words
  <1>5. ~flags.noreturn => Len(results') = Len(results) - Word + 1
    <2> SUFFICES ASSUME ~flags.noreturn PROVE Len(results') = n + 1
      OBVIOUS
    <2>1. ~(Len(results) < Word)
      BY <1>2 DEF FoldAssertFails
    <2>2. n \in 0 .. Len(results)
      BY <1>4, <2>1, Kept
    <2>3. kept \in Seq(Range(results)) /\ Len(kept) = n
      BY <2>2, Kept, PrefixIs
    <2>4. kept \in Seq(Range(results) \cup {tree})
      BY <2>3, SeqMonotonic
    <2> HIDE DEF kept, tree
    <2> QED
      BY <1>2, <2>3, <2>4, AppendProperties
  <1> QED
    BY <1>1, <1>2, <1>3, <1>5 DEF Counting, Jumps

LEMMA ResultCounts ==
  ASSUME IInv, Apply \/ NullResult
  PROVE  Counting
  <1> DEFINE n == Len(results)
             tree == <<"apply", Object.arg, results[n]>>
             S == Range(results) \cup {tree, Null}
  <1>1. Turn
    BY OtherTurns
  <1>2. /\ AtInstr /\ Advance /\ status' = status /\ Op \in {"APPLY", "NULL_RESULT"}
    BY DEF Apply, NullResult, Does
  <1>3. Top'.rp = Top.rp /\ Top'.ip = Top.ip + 1
    BY <1>2, AdvanceKeepsRp
  <1>4. results \in Seq(S) /\ tree \in S /\ Null \in S /\ n \in Nat
    BY Kept, SeqMonotonic
  <1>5. CASE Apply
    <2>1. /\ Op = "APPLY" /\ ~ApplyAssertFails
          /\ results' = IF flags.noreturn THEN results ELSE [results EXCEPT ![n] = tree]
      BY <1>5 DEF Apply, Does
    <2>2. Len(results') = Len(results)
      <3>1. CASE flags.noreturn
        BY <2>1, <3>1
      <3>2. CASE ~flags.noreturn
        <4>1. results # <<>>
          BY <2>1, <3>2 DEF ApplyAssertFails
        <4>2. n \in 1 .. n
          BY <1>4, <4>1, EmptySeq
        <4>3. Len([results EXCEPT ![n] = tree]) = Len(results)
          <5> HIDE DEF S, tree
          <5> QED
            BY <1>4, <4>2, ExceptSeq
        <4> QED
          BY <2>1, <3>2, <4>3
      <3> QED
        BY <3>1, <3>2
    <2> QED
      BY <1>1, <1>2, <1>3, <2>1, <2>2 DEF Counting, Jumps
  <1>6. CASE NullResult
    <2>1. /\ Op = "NULL_RESULT"
          /\ results' = IF flags.noreturn THEN results ELSE Append(results, Null)
      BY <1>6 DEF NullResult, Does
    <2>2. Len(Append(results, Null)) = Len(results) + 1
      <3> HIDE DEF S
      <3> QED
        BY <1>4, AppendProperties
    <2> QED
      BY <1>1, <1>2, <1>3, <2>1, <2>2 DEF Counting, Jumps
  <1> QED
    BY <1>5, <1>6

\* The kinds of steps there are.
LEMMA CountStepIs ==
  ASSUME IInv, [Next]_vars
  PROVE  \/ Counting \/ Call \/ ResolveLookup
         \/ FailLookup \/ CallTerminal \/ ReturnFromProgram \/ UndefinedOpcode
         \/ Finish \/ Abort \/ UNCHANGED vars
  BY DataCounts, JumpCounts, SaveCounts, OtherCounts, FoldCounts, ResultCounts DEF Next, Terminated
-----------------------------------------------------------------------------
(* Every instruction leads from a state that is true to one that is.       *)

LEMMA FirstWord ==
  ASSUME NEW s, NEW ws, NEW bottom \in Nat, NEW top \in Nat, NEW n,
         Describes(s, ws, bottom, top, n), bottom < top
  PROVE  /\ ws[top] \in s.words[1].may
         /\ s.words[1].counts => n = s.made + Signed(s.sign, ws[top])
  <1> DEFINE j == 1
  <1>1. j \in Tracked /\ bottom < top - j + 1 /\ top - j + 1 = top
    BY DEF Tracked
  <1>2. /\ ws[top - j + 1] \in s.words[j].may
        /\ s.words[j].counts => n = s.made + Signed(s.sign, ws[top - j + 1])
    BY <1>1 DEF Describes
  <1> QED
    BY <1>1, <1>2

\* The running frame has the words its instruction needs.
LEMMA OwnWords ==
  ASSUME IInv, AtInstr
  PROVE  /\ data \in Seq(Words) /\ Len(data) \in Nat /\ Top.sp \in Nat /\ Needs(Op) \in Nat
         /\ Top.sp + Needs(Op) <= Len(data)
         /\ \A x \in 1 .. Len(data) : data[x] \in Words /\ data[x] \in Int
  <1>1. /\ data \in Seq(Words) /\ Len(data) \in Nat /\ Top.sp \in Nat
        /\ Owned(Top) \in Nat /\ Top.sp + Owned(Top) <= Len(data) /\ Needs(Op) <= Owned(Top)
    BY InstrIs, TopIs, LenIsNat DEF AtInstr, IInv, TypeOK
  <1>2. Needs(Op) \in Nat
    BY DEF Needs
  <1>3. \A x \in 1 .. Len(data) : data[x] \in Words
    BY <1>1, ElementOfSeq
  <1>4. \A w \in Words : w \in Int
    BY EvalAssumption DEF Words
  <1> QED
    BY <1>1, <1>2, <1>3, <1>4

\* The state s is true of the running frame, which has made n results.
TopIn(s, n) ==
  /\ s \in States /\ n \in Nat
  /\ Describes(s, data, Top.sp, Len(data), n)
  /\ Fits(Op, Known(Top), s)

\* One of the states to which the instruction leads is true of it afterwards.
TopInNext(s, n) ==
  \E m \in Moves(Program, Top.ip, Known(Top), s) :
    m[1] = Top'.ip /\ Describes(m[2], data', Top.sp, Len(data'), n)

LEMMA PushMoves ==
  ASSUME IInv, Counting, Op \in {"PUSH", "DUP"}, NEW s, NEW n, TopIn(s, n)
  PROVE  TopInNext(s, n)
  <1> DEFINE tag == IF Op = "PUSH" THEN Tag({Arg}) ELSE s.words[1]
             t == Put(s, tag)
             L == Len(data)
  <1>1. AtInstr /\ s \in States /\ n \in Nat /\ Describes(s, data, Top.sp, L, n)
    BY DEF Counting, Turn, TopIn
  <1>2. /\ data \in Seq(Words) /\ L \in Nat /\ Top.sp \in Nat
        /\ Op = "DUP" => Top.sp < L
    <2>1. Op = "DUP" => Needs(Op) = 1
      BY DEF Needs
    <2> QED
      BY <1>1, <2>1, OwnWords
  <1>3. PICK w \in Words : /\ data' = Append(data, w) /\ w \in tag.may
                           /\ tag.counts => n = s.made + Signed(s.sign, w)
    <2>1. CASE Op = "PUSH"
      <3>1. Arg \in Words
        BY <1>1, <2>1, InstrIs DEF OperandFits, Op, Arg
      <3>2. data' = Append(data, Arg)
        BY <2>1 DEF Counting, Turn, DataTurn, Jumps
      <3> QED
        BY <2>1, <3>1, <3>2 DEF Tag
    <2>2. CASE Op = "DUP"
      <3>1. data' = Append(data, Word)
        BY <2>2 DEF Counting, Turn, DataTurn, Jumps
      <3>2. Word \in Words
        BY <1>1, <2>2, WordsAreThere DEF Needs
      <3>3. /\ data[L] \in s.words[1].may
            /\ s.words[1].counts => n = s.made + Signed(s.sign, data[L])
        BY <1>1, <1>2, <2>2, FirstWord
      <3> QED
        BY <2>2, <3>1, <3>2, <3>3 DEF Word
    <2> QED
      BY <2>1, <2>2
  <1>4. /\ Len(data') = L + 1 /\ data'[L + 1] = w
        /\ \A x \in 1 .. L : data'[x] = data[x]
    BY <1>2, <1>3, AppendProperties
  <1> HIDE DEF tag, L
  <1>5. Describes(t, data', Top.sp, L + 1, n)
    BY <1>1, <1>2, <1>3, <1>4, PutDescribes
  <1>6. <<Top.ip + 1, t>> \in Moves(Program, Top.ip, Known(Top), s)
    BY DEF Moves, Op, Arg, tag, Jumps
  <1>7. Top'.ip = Top.ip + 1
    BY DEF Counting, Jumps
  <1> QED
    BY <1>4, <1>5, <1>6, <1>7 DEF TopInNext

\* The topmost word is gone.
LEMMA PopIsLess ==
  ASSUME IInv, AtInstr, data' = Pop(data), Needs(Op) >= 1
  PROVE  /\ Len(data') = Len(data) - 1 /\ Len(data) \in Nat \ {0}
         /\ \A x \in 1 .. Len(data) - 1 : data'[x] = data[x] /\ data'[x] \in Words
  <1>1. data \in Seq(Words) /\ Len(data) \in Nat \ {0}
    BY OwnWords
  <1>2. data # <<>>
    BY <1>1, EmptySeq
  <1>3. /\ Len(data') = Len(data) - 1
        /\ \A x \in 1 .. Len(data) - 1 : data'[x] = data[x]
    BY <1>1, <1>2, PopIs
  <1>4. \A x \in 1 .. Len(data) - 1 : data[x] \in Words
    BY <1>1, ElementOfSeq
  <1> QED
    BY <1>1, <1>3, <1>4

LEMMA PopMoves ==
  ASSUME IInv, Counting, Op = "POP", NEW s, NEW n, TopIn(s, n)
  PROVE  TopInNext(s, n)
  <1> DEFINE t == Dropping(s)
             L == Len(data)
  <1>1. AtInstr /\ s \in States /\ Describes(s, data, Top.sp, L, n) /\ data' = Pop(data)
    BY DEF Counting, Turn, DataTurn, Jumps, TopIn
  <1>2. /\ Len(data') = L - 1 /\ L \in Nat \ {0} /\ Top.sp \in Nat
        /\ \A x \in 1 .. L - 1 : data'[x] = data[x] /\ data'[x] \in Words
    BY <1>1, PopIsLess, OwnWords DEF Needs
  <1> HIDE DEF L
  <1>3. Describes(t, data', Top.sp, L - 1, n)
    BY <1>1, <1>2, DroppingDescribes
  <1>4. <<Top.ip + 1, t>> \in Moves(Program, Top.ip, Known(Top), s)
    BY DEF Moves, Op, Jumps
  <1>5. Top'.ip = Top.ip + 1
    BY DEF Counting, Jumps
  <1> QED
    BY <1>2, <1>3, <1>4, <1>5 DEF TopInNext

LEMMA SwapMoves ==
  ASSUME IInv, Counting, Op = "SWAP", NEW s, NEW n, TopIn(s, n)
  PROVE  TopInNext(s, n)
  <1> DEFINE t == Swapped(s)
             L == Len(data)
  <1>1. /\ AtInstr /\ s \in States /\ Describes(s, data, Top.sp, L, n)
        /\ data' = [data EXCEPT ![L] = data[L - 1], ![L - 1] = Word]
    BY DEF Counting, Turn, DataTurn, Jumps, TopIn
  <1>2. data \in Seq(Words) /\ L \in Nat /\ Top.sp \in Nat /\ Top.sp + 2 <= L
    <2>1. Needs(Op) = 2
      BY DEF Needs
    <2> QED
      BY <1>1, <2>1, OwnWords
  <1> DEFINE once == [data EXCEPT ![L] = data[L - 1]]
             twice == [once EXCEPT ![L - 1] = data[L]]
  <1>3. /\ L \in 1 .. L /\ L - 1 \in 1 .. L /\ L - 1 # L
        /\ data[L] \in Words /\ data[L - 1] \in Words
    BY <1>2, ElementOfSeq
  <1>4. /\ once \in Seq(Words) /\ Len(once) = L
        /\ \A x \in 1 .. L : once[x] = IF x = L THEN data[L - 1] ELSE data[x]
    BY <1>2, <1>3, ExceptSeq
  <1>5. data' = twice
    BY <1>1 DEF Word
  <1> HIDE DEF once
  <1>6. /\ Len(twice) = L
        /\ \A x \in 1 .. L : twice[x] = IF x = L - 1 THEN data[L] ELSE once[x]
    BY <1>3, <1>4, ExceptSeq
  <1> HIDE DEF twice, L
  <1>7. /\ Len(data') = L
        /\ \A x \in 1 .. L : data'[x] = IF x = L THEN data[L - 1]
                                        ELSE IF x = L - 1 THEN data[L] ELSE data[x]
    BY <1>3, <1>4, <1>5, <1>6
  <1>8. Describes(t, data', Top.sp, L, n)
    BY <1>1, <1>2, <1>7, SwappedDescribes
  <1>9. <<Top.ip + 1, t>> \in Moves(Program, Top.ip, Known(Top), s)
    BY DEF Moves, Op, Jumps
  <1>10. Top'.ip = Top.ip + 1
    BY DEF Counting, Jumps
  <1> QED
    BY <1>7, <1>8, <1>9, <1>10 DEF TopInNext
LEMMA Wraps ==
  \A w \in Words : /\ w + 1 < WordSize => (w + 1) % WordSize = w + 1
                   /\ w # 0 => (w + WordSize - 1) % WordSize = w - 1
  <1>1. WordSize \in Nat /\ WordSize > 1
    BY EvalAssumption
  <1>2. \A n \in Nat : n < WordSize => n % WordSize = n
    BY <1>1
  <1>3. \A n \in Nat : n < WordSize => (n + WordSize) % WordSize = n
    BY <1>1
  <1>4. \A w \in Words : /\ w + 1 \in Nat
                         /\ w # 0 => /\ w - 1 \in Nat /\ w - 1 < WordSize
                                     /\ (w - 1) + WordSize = w + WordSize - 1
    BY <1>1 DEF Words
  <1> QED
    BY <1>2, <1>3, <1>4

\* The topmost word is replaced.
LEMMA SetTopIs ==
  ASSUME IInv, AtInstr, Needs(Op) = 1, NEW w \in Words, data' = SetTop(w)
  PROVE  /\ Len(data') = Len(data) /\ Len(data) \in Nat \ {0}
         /\ Top.sp \in Nat /\ Top.sp < Len(data)
         /\ data'[Len(data)] = w /\ data'[Len(data)] \in Int
         /\ Word \in Words /\ Word \in Int
         /\ \A x \in 1 .. Len(data) - 1 : data'[x] = data[x]
  <1>1. data \in Seq(Words) /\ Len(data) \in Nat \ {0} /\ Top.sp \in Nat /\ Top.sp < Len(data)
    BY OwnWords
  <1>2. Len(data) \in 1 .. Len(data) /\ \A x \in 1 .. Len(data) - 1 : x \in 1 .. Len(data)
    BY <1>1
  <1>3. /\ Len(SetTop(w)) = Len(data)
        /\ \A x \in 1 .. Len(data) : SetTop(w)[x] = IF x = Len(data) THEN w ELSE data[x]
    BY <1>1, <1>2, ExceptSeq DEF SetTop
  <1>4. Word \in Words
    BY <1>1, <1>2, ElementOfSeq DEF Word
  <1>5. \A v \in Words : v \in Int
    BY EvalAssumption DEF Words
  <1>6. \A x \in 1 .. Len(data) - 1 : data'[x] = data[x]
    BY <1>1, <1>2, <1>3
  <1> QED
    BY <1>1, <1>2, <1>3, <1>4, <1>5, <1>6

LEMMA ReplaceMoves ==
  ASSUME IInv, Counting, Op \in {"NEGATE", "SET_NORETURN", "SET_NOERROR"},
         NEW s, NEW n, TopIn(s, n)
  PROVE  TopInNext(s, n)
  <1> DEFINE may == IF Op = "NEGATE" THEN {Bit(v = 0) : v \in s.words[1].may} ELSE Words
             t == Replaced(s, Tag(may))
             L == Len(data)
  <1>1. AtInstr /\ s \in States /\ Describes(s, data, Top.sp, L, n) /\ Needs(Op) = 1
    BY DEF Counting, Turn, TopIn, Needs
  <1>2. L \in Nat \ {0} /\ Top.sp \in Nat /\ Top.sp < L
    BY <1>1, OwnWords
  <1>3. Word \in s.words[1].may
    BY <1>1, <1>2, FirstWord DEF Word
  <1>4. PICK w \in Words : data' = SetTop(w) /\ w \in may
    <2>1. CASE Op = "NEGATE"
      BY <1>3, <2>1, WordArithmetic DEF Counting
    <2>2. CASE Op # "NEGATE"
      <3>1. data' = SetTop(Bit(flags.noreturn)) \/ data' = SetTop(Bit(flags.noerror))
        BY <2>2 DEF Counting, Turn, DataTurn, Jumps
      <3> QED
        BY <2>2, <3>1, WordArithmetic
    <2> QED
      BY <2>1, <2>2
  <1>5. Len(data') = L /\ data'[L] = w /\ \A x \in 1 .. L - 1 : data'[x] = data[x]
    BY <1>1, <1>4, SetTopIs
  <1>6. <<Top.ip + 1, t>> \in Moves(Program, Top.ip, Known(Top), s)
    BY DEF Moves, Op, Jumps, AnyWord
  <1> HIDE DEF L, may
  <1>7. Describes(t, data', Top.sp, L, n)
    BY <1>1, <1>2, <1>4, <1>5, ReplacedDescribes
  <1>8. Top'.ip = Top.ip + 1
    BY DEF Counting, Jumps
  <1> QED
    BY <1>5, <1>6, <1>7, <1>8 DEF TopInNext

\* A word that counts does not wrap around.
LEMMA CountMoves ==
  ASSUME IInv, Counting, NoWrap, Op \in {"INCREMENT", "DECREMENT"},
         NEW s, NEW n, TopIn(s, n), n <= Len(results)
  PROVE  TopInNext(s, n)
  <1> DEFINE up == Op = "INCREMENT"
             by == IF up THEN 1 ELSE -1
             Turned(v) == IF up THEN (v + 1) % WordSize ELSE (v + WordSize - 1) % WordSize
             w == Turned(Word)
             may == {Turned(v) : v \in s.words[1].may}
             t == Counted(s, may, by)
             L == Len(data)
  <1>1. /\ AtInstr /\ s \in States /\ n \in Nat /\ Describes(s, data, Top.sp, L, n)
        /\ Needs(Op) = 1 /\ Fits(Op, Known(Top), s)
    BY DEF Counting, Turn, TopIn, Needs
  <1>2. L \in Nat \ {0} /\ Top.sp \in Nat /\ Top.sp < L
    BY <1>1, OwnWords
  <1>3. /\ Word \in s.words[1].may /\ Word = data[L]
        /\ s.words[1].counts => n = s.made + Signed(s.sign, Word)
    BY <1>1, <1>2, FirstWord DEF Word
  <1>4. Word \in Words
    BY <1>1, WordsAreThere
  <1>5. w \in Words /\ data' = SetTop(w) /\ w \in may
    BY <1>3, <1>4, WordArithmetic DEF Counting
  <1>6. /\ Len(data') = L /\ data'[L] = w /\ data'[L] \in Int /\ Word \in Int
        /\ \A x \in 1 .. L - 1 : data'[x] = data[x]
    BY <1>1, <1>5, SetTopIs
  <1>7. ASSUME s.sign # 0 /\ s.words[1].counts
        PROVE  w = Word + by
    <2>1. s.made \in Int /\ WordSize \in Nat /\ Len(results) \in Nat
      BY <1>1, StateFields, EvalAssumption, Kept
    <2>2. CASE up
      <3>1. s.sign = 1 /\ s.made >= 0
        BY <1>1, <1>7, <2>2 DEF Fits
      <3>2. n = s.made + Word
        BY <1>3, <1>7, <3>1 DEF Signed
      <3>3. Word + 1 < WordSize
        BY <1>1, <1>6, <2>1, <3>1, <3>2 DEF NoWrap
      <3> QED
        BY <1>4, <2>2, <3>3, Wraps
    <2>3. CASE ~up
      <3>1. Word # 0
        <4>1. CASE 0 \notin s.words[1].may
          BY <1>3, <4>1
        <4>2. CASE s.sign = 1 /\ s.made < 0
          <5>1. n = s.made + Word
            BY <1>3, <1>7, <4>2 DEF Signed
          <5> QED
            BY <1>1, <1>6, <2>1, <4>2, <5>1
        <4> QED
          BY <1>1, <1>7, <2>3, <4>1, <4>2 DEF Fits
      <3>2. w = Word - 1
        BY <1>4, <2>3, <3>1, Wraps
      <3> QED
        BY <1>6, <2>3, <3>2
    <2> QED
      BY <2>2, <2>3
  <1>8. <<Top.ip + 1, t>> \in Moves(Program, Top.ip, Known(Top), s)
    <2>1. CASE up
      BY <2>1 DEF Moves, Op, Jumps
    <2>2. CASE ~up
      BY <2>2 DEF Moves, Op, Jumps
    <2> QED
      BY <2>1, <2>2
  <1>9. by \in {-1, 1}
    OBVIOUS
  <1> HIDE DEF L, may, w, by
  <1>10. s.sign # 0 /\ s.words[1].counts => data'[L] = data[L] + by
    BY <1>3, <1>6, <1>7
  <1>11. Describes(t, data', Top.sp, L, n)
    <2>1. L \in Nat /\ n \in Int /\ data[L] \in Int /\ data'[L] \in may
      BY <1>1, <1>2, <1>3, <1>5, <1>6
    <2> QED
      BY <1>1, <1>2, <1>6, <1>9, <1>10, <2>1, CountedDescribes
  <1>12. Top'.ip = Top.ip + 1
    BY DEF Counting, Jumps
  <1> QED
    BY <1>6, <1>8, <1>11, <1>12 DEF TopInNext
\* Once the results are counted without a word.
LEMMA SettledDescribes ==
  ASSUME NEW s, NEW u, NEW ws, NEW bottom, NEW top, NEW n, NEW m \in Int,
         Describes(s, ws, bottom, top, n),
         u.words = s.words, u.sign = 0, u.made = m
  PROVE  Describes(u, ws, bottom, top, m)
  <1>1. \A w : m = u.made + Signed(u.sign, w)
    BY DEF Signed
  <1> QED
    BY <1>1 DEF Describes

LEMMA FoldFits ==
  ASSUME IInv, AtInstr, Op = "FOLD", NEW s, NEW n, TopIn(s, n), ~Silenced(Known(Top))
  PROVE  /\ Word <= n /\ Word \in Int
         /\ \E u \in States : /\ u.words = s.words /\ u.sign = 0 /\ u.made = n - Word + 1
                              /\ Dropping(u) \in Folded(s, Known(Top))
  <1> DEFINE L == Len(data)
  <1>1. /\ s \in States /\ n \in Nat /\ Describes(s, data, Top.sp, L, n)
        /\ Fits(Op, Known(Top), s) /\ Needs(Op) = 1
    BY DEF TopIn, Needs
  <1>2. L \in Nat \ {0} /\ Top.sp \in Nat /\ Top.sp < L
    BY <1>1, OwnWords
  <1>3. /\ Word \in s.words[1].may
        /\ s.words[1].counts => n = s.made + Signed(s.sign, Word)
    BY <1>1, <1>2, FirstWord DEF Word
  <1>4. Word \in Words /\ Word \in Int
    <2>1. Word \in Words
      BY <1>1, WordsAreThere
    <2> QED
      BY <2>1, EvalAssumption DEF Words
  <1>5. s.made \in Int /\ s.sign \in {-1, 0, 1}
    BY <1>1, StateFields
  <1>6. CASE s.sign = 0
    <2> DEFINE m == s.made - Word + 1
               u == [s EXCEPT !.made = s.made - Word + 1]
    <2>1. n = s.made
      BY <1>1, <1>6 DEF Describes
    <2>2. Word <= s.made
      BY <1>1, <1>3, <1>6 DEF Fits
    <2>3. m \in Int
      BY <1>4, <1>5
    <2>4. Dropping(u) \in Folded(s, Known(Top))
      BY <1>3, <1>6 DEF Folded
    <2>5. u = [s EXCEPT !.made = m]
      OBVIOUS
    <2> HIDE DEF m, u
    <2>6. u \in States /\ u.words = s.words /\ u.sign = s.sign /\ u.made = m
      BY <1>1, <2>3, <2>5 DEF States
    <2> QED
      BY <1>4, <1>6, <2>1, <2>2, <2>4, <2>6 DEF m
  <1>7. CASE s.sign # 0
    <2> DEFINE m == s.made + 1
               u == [s EXCEPT !.sign = 0, !.made = s.made + 1]
    <2>1. s.sign = 1 /\ s.words[1].counts /\ s.made >= 0
      BY <1>1, <1>7 DEF Fits
    <2>2. n = s.made + Word
      BY <1>3, <2>1 DEF Signed
    <2>3. m \in Int
      BY <1>5
    <2>4. Dropping(u) \in Folded(s, Known(Top))
      BY <1>7 DEF Folded
    <2>5. u = [s EXCEPT !.sign = 0, !.made = m]
      OBVIOUS
    <2>6. n - Word + 1 = m /\ Word <= n
      BY <1>1, <1>4, <1>5, <2>1, <2>2
    <2> HIDE DEF m, u
    <2>7. u \in States /\ u.words = s.words /\ u.sign = 0 /\ u.made = m
      BY <1>1, <2>3, <2>5 DEF States
    <2> QED
      BY <1>4, <2>4, <2>6, <2>7
  <1> QED
    BY <1>6, <1>7

LEMMA FoldMoves ==
  ASSUME IInv, Counting, Op = "FOLD", NEW s, NEW n, TopIn(s, n)
  PROVE  TopInNext(s, IF Silenced(Known(Top)) THEN n ELSE n - Word + 1)
  <1> DEFINE L == Len(data)
             m == IF Silenced(Known(Top)) THEN n ELSE n - Word + 1
  <1>1. /\ AtInstr /\ s \in States /\ n \in Nat /\ Describes(s, data, Top.sp, L, n)
        /\ data' = Pop(data) /\ Needs(Op) = 1
    BY DEF Counting, Turn, DataTurn, Jumps, TopIn, Needs
  <1>2. /\ Len(data') = L - 1 /\ L \in Nat \ {0} /\ Top.sp \in Nat
        /\ \A x \in 1 .. L - 1 : data'[x] = data[x] /\ data'[x] \in Words
    BY <1>1, PopIsLess, OwnWords
  <1>3. PICK u \in States : /\ Describes(u, data, Top.sp, L, m)
                            /\ Dropping(u) \in Folded(s, Known(Top))
    <2>1. CASE Silenced(Known(Top))
      <3>1. Dropping(s) \in Folded(s, Known(Top))
        BY <2>1 DEF Folded
      <3> QED
        BY <1>1, <2>1, <3>1
    <2>2. CASE ~Silenced(Known(Top))
      <3>1. PICK u \in States : /\ u.words = s.words /\ u.sign = 0 /\ u.made = n - Word + 1
                                /\ Dropping(u) \in Folded(s, Known(Top))
        BY <1>1, <2>2, FoldFits
      <3>2. m \in Int /\ u.made = m
        BY <1>1, <2>2, <3>1, FoldFits
      <3> HIDE DEF m
      <3>3. Describes(u, data, Top.sp, L, m)
        BY <1>1, <3>1, <3>2, SettledDescribes
      <3> QED
        BY <3>1, <3>3
    <2> QED
      BY <2>1, <2>2
  <1>4. <<Top.ip + 1, Dropping(u)>> \in Moves(Program, Top.ip, Known(Top), s)
    BY <1>3 DEF Moves, Op, Jumps
  <1> HIDE DEF L, m
  <1>5. Describes(Dropping(u), data', Top.sp, L - 1, m)
    BY <1>2, <1>3, DroppingDescribes
  <1>6. Top'.ip = Top.ip + 1
    BY DEF Counting, Jumps
  <1>7. TopInNext(s, m)
    BY <1>2, <1>4, <1>5, <1>6 DEF TopInNext
  <1> QED
    BY <1>7 DEF m

LEMMA NullMoves ==
  ASSUME IInv, Counting, Op = "NULL_RESULT", NEW s, NEW n, TopIn(s, n)
  PROVE  TopInNext(s, n + Made(Known(Top)))
  <1> DEFINE k == Made(Known(Top))
             t == More(s, k)
             L == Len(data)
  <1>1. AtInstr /\ s \in States /\ n \in Nat /\ Describes(s, data, Top.sp, L, n) /\ data' = data
    BY DEF Counting, Turn, DataTurn, Jumps, TopIn
  <1>2. /\ L \in Nat /\ Top.sp \in Nat /\ k \in Int
        /\ \A i \in Tracked : Top.sp < L - i + 1 => data[L - i + 1] \in Int
    <2>1. L \in Nat /\ Top.sp \in Nat /\ \A x \in 1 .. L : data[x] \in Int
      BY <1>1, OwnWords
    <2>2. \A i \in Tracked : Top.sp < L - i + 1 => L - i + 1 \in 1 .. L
      BY <2>1 DEF Tracked
    <2> QED
      BY <2>1, <2>2 DEF Made
  <1>3. <<Top.ip + 1, t>> \in Moves(Program, Top.ip, Known(Top), s)
    BY DEF Moves, Op, Jumps
  <1> HIDE DEF L, k
  <1>4. Describes(t, data, Top.sp, L, n + k)
    BY <1>1, <1>2, MoreIs
  <1>5. Top'.ip = Top.ip + 1
    BY DEF Counting, Jumps
  <1>6. Len(data') = L
    BY <1>1 DEF L
  <1>7. TopInNext(s, n + k)
    BY <1>1, <1>3, <1>4, <1>5, <1>6 DEF TopInNext
  <1> QED
    BY <1>7 DEF k

LEMMA SameMoves ==
  ASSUME IInv, Counting, NEW s, NEW n, TopIn(s, n),
         Op \in {"JUMP", "SAVE_LOCATION", "RESTORE_LOCATION", "APPLY", "EXPECT",
                 "PUSH_BINDING", "POP_BINDING"}
  PROVE  TopInNext(s, n)
  <1>1. Describes(s, data, Top.sp, Len(data), n) /\ data' = data
    BY DEF Counting, Turn, DataTurn, Jumps, TopIn
  <1>2. Op = "JUMP" => Top'.ip = Arg
    BY DEF Counting, Jumps, JumpTaken
  <1>3. Op # "JUMP" => Top'.ip = Top.ip + 1
    BY DEF Counting, Jumps
  <1>4. <<Top'.ip, s>> \in Moves(Program, Top.ip, Known(Top), s)
    <2>1. CASE Op = "JUMP"
      BY <1>2, <2>1 DEF Moves, Op, Arg, Jumps
    <2>2. CASE Op # "JUMP"
      BY <1>3, <2>2 DEF Moves, Op, Jumps
    <2> QED
      BY <2>1, <2>2
  <1> QED
    BY <1>1, <1>4 DEF TopInNext

\* The jump is taken for a word that allows it.
LEMMA TakenIs ==
  ASSUME Word \in Words, Op \in Jumps \ {"JUMP"}
  PROVE  JumpTaken <=> Word \in Taken(Op)
  BY DEF JumpTaken, Taken, NonZero, Jumps, PARSE_FAILURE

LEMMA JumpMoves ==
  ASSUME IInv, Counting, Op \in Jumps \ {"JUMP"}, NEW s, NEW n, TopIn(s, n)
  PROVE  TopInNext(s, n)
  <1> DEFINE S == IF JumpTaken THEN Taken(Op) ELSE Words \ Taken(Op)
             u == Tested(s, S)
             t == Dropping(u)
             L == Len(data)
  <1>1. /\ AtInstr /\ s \in States /\ n \in Nat /\ Describes(s, data, Top.sp, L, n)
        /\ data' = Pop(data) /\ Needs(Op) = 1
    BY DEF Counting, Turn, DataTurn, Jumps, TopIn, Needs
  <1>2. /\ Len(data') = L - 1 /\ L \in Nat \ {0} /\ Top.sp \in Nat /\ Top.sp < L
        /\ \A x \in 1 .. L - 1 : data'[x] = data[x] /\ data'[x] \in Words
        /\ \A x \in 1 .. L : data[x] \in Int
    BY <1>1, PopIsLess, OwnWords
  <1>3. Word = data[L] /\ Word \in Words /\ Word \in s.words[1].may
    <2>1. Word \in Words
      BY <1>1, WordsAreThere
    <2>2. L \in Nat /\ data[L] \in s.words[1].may
      BY <1>1, <1>2, FirstWord
    <2> QED
      BY <2>1, <2>2 DEF Word
  <1>4. Word \in S
    BY <1>3, TakenIs
  <1>5. Top'.ip = IF JumpTaken THEN Arg ELSE Top.ip + 1
    BY DEF Counting
  <1>6. <<Top'.ip, t>> \in Moves(Program, Top.ip, Known(Top), s)
    <2>1. s.words[1].may \cap S # {}
      BY <1>3, <1>4
    <2>2. Op \in Jumps \ {"JUMP"} /\ Op \notin {"PUSH", "DUP", "POP", "SWAP", "NEGATE",
              "INCREMENT", "DECREMENT", "SET_NORETURN", "SET_NOERROR", "CALL", "FOLD",
              "NULL_RESULT", "JUMP"}
      BY DEF Jumps
    <2>3. Moves(Program, Top.ip, Known(Top), s) =
            {<<Arg, Dropping(Tested(s, T))>> :
                T \in {T \in {Taken(Op)} : s.words[1].may \cap T # {}}}
              \cup ({Top.ip + 1} \X {Dropping(Tested(s, T)) :
                                T \in {T \in {Words \ Taken(Op)} : s.words[1].may \cap T # {}}})
      BY <2>2 DEF Moves, Op, Arg
    <2>4. CASE JumpTaken
      BY <1>5, <2>1, <2>3, <2>4
    <2>5. CASE ~JumpTaken
      BY <1>5, <2>1, <2>3, <2>5
    <2> QED
      BY <2>4, <2>5
  <1> HIDE DEF L, S
  <1>7. u \in States /\ Describes(u, data, Top.sp, L, n)
    BY <1>1, <1>2, <1>3, <1>4, TestedIs
  <1> HIDE DEF u
  <1>8. Describes(t, data', Top.sp, L - 1, n)
    BY <1>2, <1>7, DroppingDescribes
  <1> QED
    BY <1>2, <1>6, <1>8 DEF TopInNext
-----------------------------------------------------------------------------
(* The running frame, and those that wait for it, keep their accounts.     *)

\* What the instruction makes of the number of results.
Onward(n) ==
  IF Op = "FOLD" /\ ~Silenced(Known(Top)) THEN n - Word + 1
  ELSE IF Op = "NULL_RESULT" /\ ~Silenced(Known(Top)) THEN n + 1
  ELSE n

LEMMA EachMoves ==
  ASSUME IInv, Counting, NoWrap, NEW s, NEW n, TopIn(s, n), n <= Len(results)
  PROVE  TopInNext(s, Onward(n))
  <1>1. Op \in Ops /\ Op # "CALL"
    BY InstrIs DEF Counting, Turn, OperandFits, Op
  <1>2. CASE Op = "FOLD"
    <2>1. Onward(n) = IF Silenced(Known(Top)) THEN n ELSE n - Word + 1
      BY <1>2 DEF Onward
    <2> QED
      BY <1>2, <2>1, FoldMoves
  <1>3. CASE Op = "NULL_RESULT"
    <2>1. n \in Nat
      BY DEF TopIn
    <2>2. Onward(n) = n + Made(Known(Top))
      BY <1>3, <2>1 DEF Onward, Made
    <2> QED
      BY <1>3, <2>2, NullMoves
  <1>4. CASE Op \notin {"FOLD", "NULL_RESULT"}
    <2>1. Onward(n) = n
      BY <1>4 DEF Onward
    <2>2. CASE Op \in {"PUSH", "DUP"}
      BY <2>1, <2>2, PushMoves
    <2>3. CASE Op = "POP"
      BY <2>1, <2>3, PopMoves
    <2>4. CASE Op = "SWAP"
      BY <2>1, <2>4, SwapMoves
    <2>5. CASE Op \in {"NEGATE", "SET_NORETURN", "SET_NOERROR"}
      BY <2>1, <2>5, ReplaceMoves
    <2>6. CASE Op \in {"INCREMENT", "DECREMENT"}
      BY <2>1, <2>6, CountMoves
    <2>7. CASE Op \in Jumps \ {"JUMP"}
      BY <2>1, <2>7, JumpMoves
    <2>8. CASE Op \in {"JUMP", "SAVE_LOCATION", "RESTORE_LOCATION", "APPLY", "EXPECT",
                       "PUSH_BINDING", "POP_BINDING"}
      BY <2>1, <2>8, SameMoves
    <2> QED
      BY <1>1, <1>4, <2>2, <2>3, <2>4, <2>5, <2>6, <2>7, <2>8 DEF Ops, Jumps
  <1> QED
    BY <1>2, <1>3, <1>4

\* A frame under Exact.
LEMMA ExactProgram ==
  ASSUME NEW p \in Exact, is_combinator(Parsers[p].type)
  PROVE  /\ p \in DOMAIN Code
         /\ Counts(Code[p], Facts[p], Results[p])
         /\ \A k \in DOMAIN Code[p] : Code[p][k].op = "CALL" => Code[p][k].arg \in Exact
  <1>1. p \in Ids
    BY ExactCounts, TidyRestores
  <1>2. p \in DOMAIN Code
    BY <1>1 DEF Code
  <1> QED
    BY <1>2, ExactCounts

LEMMA ExactTop ==
  ASSUME IInv, Running, OnlyExact
  PROVE  Top.parser \in Exact
  BY TopIs DEF OnlyExact, Top, Depth

\* NORETURN, where the caller wants results and where it does not.
LEMMA ExactFlags ==
  ASSUME IInv, LocationsInv, FlagsInv, OnlyExact, Running
  PROVE  /\ Known(Top).reached
         /\ Known(Top).noreturn \in {"set", "noreturn"}
         /\ Top.entry.noreturn => flags.noreturn
         /\ ~Top.entry.noreturn => (flags.noreturn <=> Silenced(Known(Top)))
  <1>1. /\ Known(Top).reached /\ Standing(Top) /\ Top.parser \in Exact
        /\ Top.entry.noreturn \in BOOLEAN /\ flags.noreturn \in BOOLEAN
    BY TopIs, LocationsOfTop, ExactTop, FrameFields, Kept
  <1>2. Known(Top).noreturn \in {"set", "noreturn"}
    <2>1. CASE is_combinator(Object.type)
      <3>1. Counts(Program, Facts[Top.parser], Results[Top.parser])
        BY <1>1, <2>1, ExactProgram DEF Object, Program
      <3>2. Top.ip \in Points(Program) /\ Known(Top) = Facts[Top.parser][Top.ip]
        BY <1>1, <2>1 DEF Standing, Known, Object, Program
      <3> QED
        BY <1>1, <3>1, <3>2 DEF Counts
    <2>2. CASE ~is_combinator(Object.type)
      BY <2>2, KnownTop DEF AtCall
    <2> QED
      BY <2>1, <2>2
  <1>3. Means(Known(Top).noreturn, flags.noreturn, Top.entry)
    BY DEF FlagsInv, TopKnows, FlagsAre, Running
  <1> QED
    BY <1>1, <1>2, <1>3 DEF Means, Silenced

LEMMA ExactInstr ==
  ASSUME IInv, LocationsInv, FlagsInv, OnlyExact, AtInstr
  PROVE  /\ Counts(Program, Facts[Top.parser], Results[Top.parser])
         /\ Top.ip \in DOMAIN Program /\ Program = Code[Top.parser]
         /\ Known(Top) = Facts[Top.parser][Top.ip] /\ Known(Top).reached
         /\ StatesAt(Top, Top.ip) = Results[Top.parser][Top.ip]
         /\ \A k : StatesAt(Top, k) = Results[Top.parser][k]
         /\ \A s \in StatesAt(Top, Top.ip) : s \in States /\ Fits(Op, Known(Top), s)
  <1>1. Running /\ is_combinator(Object.type) /\ Top.ip \in DOMAIN Program
    BY InstrIs DEF AtInstr
  <1>2. Counts(Program, Facts[Top.parser], Results[Top.parser])
    BY <1>1, ExactTop, ExactProgram DEF Object, Program
  <1>3. /\ Known(Top) = Facts[Top.parser][Top.ip]
        /\ \A k : StatesAt(Top, k) = Results[Top.parser][k]
    BY <1>1 DEF Known, StatesAt, Object
  <1>4. Known(Top).reached
    BY <1>1, ExactFlags
  <1>5. Top.ip \in Points(Program)
    BY <1>1, InstrIs DEF Points
  <1>6. \A s \in Results[Top.parser][Top.ip] : s \in States /\ Fits(Op, Known(Top), s)
    BY <1>1, <1>2, <1>3, <1>4, <1>5 DEF Counts, Op
  <1> QED
    BY <1>1, <1>2, <1>3, <1>4, <1>6 DEF Program

\* The running frame is in one of its states.
LEMMA TopCounts ==
  ASSUME IInv, LocationsInv, FlagsInv, CountsInv, AtInstr
  PROVE  /\ Top.rp \in Nat /\ Len(results) \in Nat /\ Top.rp <= Len(results)
         /\ Len(results) - Top.rp \in Nat
         /\ Top.entry.noreturn => Len(results) - Top.rp = 0
         /\ ~Top.entry.noreturn =>
              \E s \in StatesAt(Top, Top.ip) : TopIn(s, Len(results) - Top.rp)
  <1>1. Running /\ calls # <<>>
    BY DEF AtInstr, Running
  <1>2. Top.rp \in Nat /\ Len(results) \in Nat
    BY <1>1, TopIs, Kept
  <1>3. /\ Top.rp <= Len(results)
        /\ Accounts(Top, Top.ip, data, Len(data), Len(results) - Top.rp)
    BY <1>1 DEF CountsInv, TopAccounts
  <1>4. Len(results) - Top.rp \in Nat
    BY <1>2, <1>3
  <1>5. ~Top.entry.noreturn => \E s \in StatesAt(Top, Top.ip) : TopIn(s, Len(results) - Top.rp)
    BY <1>3, <1>4, ExactInstr DEF Accounts, TopIn, CountsInv
  <1> QED
    BY <1>2, <1>3, <1>4, <1>5 DEF Accounts

\* To move is to be, in the next state, in one of the states there.
LEMMA MovesAccount ==
  ASSUME IInv, LocationsInv, FlagsInv, OnlyExact, AtInstr,
         NEW s \in StatesAt(Top, Top.ip), NEW m \in Moves(Program, Top.ip, Known(Top), s),
         NEW words, NEW top, NEW n, Describes(m[2], words, Top.sp, top, n)
  PROVE  \E t \in StatesAt(Top, m[1]) : Describes(t, words, Top.sp, top, n)
  <1>1. PICK t \in Results[Top.parser][m[1]] : Follows(m[2], t)
    <2>1. /\ Counts(Program, Facts[Top.parser], Results[Top.parser])
          /\ Top.ip \in DOMAIN Program /\ Facts[Top.parser][Top.ip].reached
          /\ s \in Results[Top.parser][Top.ip]
          /\ m \in Moves(Program, Top.ip, Facts[Top.parser][Top.ip], s)
      BY ExactInstr
    <2> QED
      BY <2>1 DEF Counts
  <1>2. Describes(t, words, Top.sp, top, n)
    BY <1>1, FollowsDescribes
  <1> QED
    BY <1>1, <1>2, ExactInstr

LEMMA TurnAccounts ==
  ASSUME IInv, LocationsInv, FlagsInv, CountsInv, NoWrap, Counting
  PROVE  /\ Top'.rp = Top.rp /\ Top.rp <= Len(results')
         /\ Accounts(Top', Top'.ip, data', Len(data'), Len(results') - Top.rp)
  <1> DEFINE n == Len(results) - Top.rp
  <1>1. AtInstr /\ Running /\ OnlyExact
    BY DEF Counting, Turn, AtInstr, CountsInv
  <1>2. PICK f \in Frames : TurnTo(f)
    BY DEF Counting, Turn
  <1>3. Top' = f /\ f.parser = Top.parser /\ f.sp = Top.sp /\ f.entry = Top.entry
    BY <1>1, <1>2, MovedIs DEF TurnTo
  <1>4. /\ Top.rp \in Nat /\ Len(results) \in Nat /\ Top.rp <= Len(results) /\ n \in Nat
        /\ n <= Len(results)
    BY <1>1, TopCounts
  <1>5. CASE Top.entry.noreturn
    <2>1. flags.noreturn
      BY <1>1, <1>5, ExactFlags
    <2>2. Len(results') = Len(results) /\ Top'.rp = Top.rp
      BY <2>1 DEF Counting
    <2>3. Len(results') - Top.rp = 0
      BY <1>1, <1>5, <2>2, TopCounts
    <2> QED
      BY <1>3, <1>4, <1>5, <2>2, <2>3 DEF Accounts
  <1>6. CASE ~Top.entry.noreturn
    <2>1. PICK s \in StatesAt(Top, Top.ip) : TopIn(s, n)
      BY <1>1, <1>6, TopCounts
    <2>2. flags.noreturn <=> Silenced(Known(Top))
      BY <1>1, <1>6, ExactFlags
    <2>3. Len(results') - Top.rp = Onward(n) /\ Top.rp <= Len(results') /\ Top'.rp = Top.rp
      <3>1. CASE Op = "FOLD" /\ ~Silenced(Known(Top))
        <4>1. Word <= n /\ Word \in Int
          BY <1>1, <2>1, <3>1, FoldFits
        <4>2. Len(results') = Len(results) - Word + 1 /\ Top'.rp = Top.rp
          BY <2>2, <3>1 DEF Counting
        <4>3. Onward(n) = n - Word + 1
          BY <3>1 DEF Onward
        <4> QED
          BY <1>4, <4>1, <4>2, <4>3
      <3>2. CASE Op = "NULL_RESULT" /\ ~Silenced(Known(Top))
        <4>1. Len(results') = Len(results) + 1 /\ Top'.rp = Top.rp
          BY <2>2, <3>2 DEF Counting
        <4>2. Onward(n) = n + 1
          BY <3>2 DEF Onward
        <4> QED
          BY <1>4, <4>1, <4>2
      <3>3. CASE ~((Op = "FOLD" \/ Op = "NULL_RESULT") /\ ~Silenced(Known(Top)))
        <4>1. Len(results') = Len(results) /\ Top'.rp = Top.rp
          BY <2>2, <3>3 DEF Counting
        <4>2. Onward(n) = n
          BY <3>3 DEF Onward
        <4> QED
          BY <1>4, <4>1, <4>2
      <3> QED
        BY <3>1, <3>2, <3>3
    <2> HIDE DEF n
    <2>4. TopInNext(s, Onward(n))
      BY <1>4, <2>1, EachMoves
    <2>5. PICK m \in Moves(Program, Top.ip, Known(Top), s) :
            m[1] = Top'.ip /\ Describes(m[2], data', Top.sp, Len(data'), Onward(n))
      BY <2>4 DEF TopInNext
    <2>6. \E t \in StatesAt(Top, Top'.ip) : Describes(t, data', Top.sp, Len(data'), Onward(n))
      BY <1>1, <2>1, <2>5, MovesAccount
    <2>7. StatesAt(Top', Top'.ip) = StatesAt(Top, Top'.ip)
      BY <1>3 DEF StatesAt
    <2> QED
      BY <1>3, <1>6, <2>3, <2>6, <2>7 DEF Accounts
  <1> QED
    BY <1>5, <1>6
\* Below the running frame nothing changes: the frames that wait keep their accounts.
LEMMA CallersKept ==
  ASSUME IInv, Running, FlagsInv, CountsInv, NEW ws, \A x \in 1 .. Top.sp : ws[x] = data[x],
         NEW i \in 1 .. Len(calls) - 1
  PROVE  /\ Waits(calls[i]) /\ calls[i].rp <= calls[i + 1].rp
         /\ Accounts(calls[i], calls[i].ip - 1, ws, calls[i + 1].sp, calls[i + 1].rp - calls[i].rp)
  <1> DEFINE f == calls[i]
             g == calls[i + 1]
             n == g.rp - f.rp
             k == f.ip - 1
  <1>1. Waits(f) /\ f.rp <= g.rp /\ Accounts(f, k, data, g.sp, n)
    BY DEF CountsInv, CallersAccount
  <1>2. Len(calls) \in Nat /\ i \in 1 .. Len(calls) /\ i + 1 \in 1 .. Len(calls)
    BY FramesTyped
  <1>3. f \in Frames /\ g \in Frames
    BY <1>2, FramesTyped
  <1>4. g.sp <= Top.sp /\ Top.sp \in Nat /\ f.sp \in Nat /\ g.sp \in Nat
    <2>1. f.sp \in Nat /\ g.sp \in Nat /\ Top.sp \in Nat
      BY <1>3, TopIs, FrameFields
    <2>2. g.sp <= Top.sp
      BY <1>2, TopIs DEF FlagsInv, StacksOrdered, Top, Depth
    <2> QED
      BY <2>1, <2>2
  <1>5. \A x \in 1 .. g.sp : ws[x] = data[x]
    BY <1>4
  <1> HIDE DEF n, k, f, g
  <1>6. Accounts(f, k, ws, g.sp, n)
    <2>1. CASE f.entry.noreturn
      BY <1>1, <2>1 DEF Accounts
    <2>2. CASE ~f.entry.noreturn
      <3>1. PICK s \in StatesAt(f, k) : Describes(s, data, f.sp, g.sp, n)
        BY <1>1, <2>2 DEF Accounts
      <3>2. Describes(s, ws, f.sp, g.sp, n)
        BY <1>4, <1>5, <3>1, DescribesKept
      <3> QED
        BY <2>2, <3>2 DEF Accounts
    <2> QED
      BY <2>1, <2>2
  <1> QED
    BY <1>1, <1>6 DEF n, k, f, g

LEMMA TurnExact ==
  ASSUME IInv, OnlyExact, Turn
  PROVE  OnlyExact'
  <1>1. AtInstr /\ Running /\ Depth \in 1 .. Len(calls)
    BY TopIs DEF Turn, AtInstr
  <1>2. PICK f \in Frames : TurnTo(f)
    BY DEF Turn
  <1>3. /\ Len(calls') = Len(calls)
        /\ \A i \in 1 .. Len(calls) : calls'[i] = IF i = Depth THEN f ELSE calls[i]
    BY <1>1, <1>2, MovedIs DEF TurnTo
  <1>4. \A i \in 1 .. Len(calls') : calls'[i].parser \in Exact
    BY <1>1, <1>2, <1>3 DEF OnlyExact, TurnTo, Top
  <1>5. scope \in Seq(Bindings) /\ Len(scope) \in Nat /\ \A i \in 1 .. Len(scope) : scope[i].p \in Exact
    BY Kept, LenIsNat DEF OnlyExact, IInv, TypeOK
  <1>6. \A i \in 1 .. Len(scope') : scope'[i].p \in Exact
    <2>1. CASE Op = "PUSH_BINDING"
      <3> DEFINE b == Object.arg
      <3>1. scope' = Append(scope, b)
        BY <2>1 DEF Turn
      <3>2. b.p \in Exact
        <4>1. Object.type = "BIND"
          BY <1>1, <2>1, InstrIs DEF OperandFits, Op
        <4> QED
          BY <1>1, <4>1, ExactTop, ExactCounts DEF Object
      <3> HIDE DEF b
      <3>3. scope \in Seq(Bindings \cup {b})
        BY <1>5, SeqMonotonic
      <3>4. /\ Len(scope') = Len(scope) + 1 /\ scope'[Len(scope) + 1] = b
            /\ \A i \in 1 .. Len(scope) : scope'[i] = scope[i]
        BY <3>1, <3>3, AppendProperties
      <3> QED
        BY <1>5, <3>2, <3>4
    <2>2. CASE Op = "POP_BINDING"
      <3>1. scope' = Pop(scope)
        BY <2>2 DEF Turn
      <3>2. CASE scope = <<>>
        <4>1. scope' = <<>>
          BY <3>1, <3>2, SubSeqEmpty, EmptySeq DEF Pop
        <4> QED
          BY <4>1, EmptySeq
      <3>3. CASE scope # <<>>
        BY <1>5, <3>1, <3>3, PopIs
      <3> QED
        BY <3>2, <3>3
    <2>3. CASE Op \notin {"PUSH_BINDING", "POP_BINDING"}
      BY <1>5, <2>3 DEF Turn
    <2> QED
      BY <2>1, <2>2, <2>3
  <1> QED
    BY <1>4, <1>6 DEF OnlyExact

LEMMA CountsTurn ==
  ASSUME IInv, LocationsInv, FlagsInv, CountsInv, NoWrap, Counting
  PROVE  CountsInv'
  <1> DEFINE n == Len(calls)
  <1>1. /\ Turn /\ AtInstr /\ Running /\ OnlyExact /\ status' = status /\ status # "aborted"
        /\ calls # <<>> /\ Depth = n /\ n \in Nat \ {0} /\ n \in 1 .. n
    BY TopIs DEF Counting, Turn, AtInstr, CountsInv, Running, Depth
  <1>2. PICK f \in Frames : TurnTo(f)
    BY <1>1 DEF Turn
  <1>3. /\ Len(calls') = n /\ Top' = f /\ calls' # <<>>
        /\ \A i \in 1 .. n : calls'[i] = IF i = Depth THEN f ELSE calls[i]
    BY <1>1, <1>2, MovedIs DEF TurnTo
  <1>4. /\ f.sp = Top.sp /\ f.rp = Top.rp /\ Top.rp <= Len(results')
        /\ Accounts(f, f.ip, data', Len(data'), Len(results') - f.rp)
    BY <1>2, <1>3, TurnAccounts DEF TurnTo
  <1>5. OnlyExact'
    BY <1>1, TurnExact
  <1>6. \A i \in 1 .. n : calls'[i].sp = calls[i].sp /\ calls'[i].rp = calls[i].rp
    BY <1>1, <1>3, <1>4 DEF Top
  <1>7. CallersAccount'
    <2> SUFFICES ASSUME NEW i \in 1 .. n - 1
                 PROVE  /\ Waits(calls'[i]) /\ calls'[i].rp <= calls'[i + 1].rp
                        /\ Accounts(calls'[i], calls'[i].ip - 1, data', calls'[i + 1].sp,
                                    calls'[i + 1].rp - calls'[i].rp)
      BY <1>3 DEF CallersAccount
    <2>1. i \in 1 .. n /\ i # n /\ i + 1 \in 1 .. n
      BY <1>1
    <2>2. /\ Waits(calls[i]) /\ calls[i].rp <= calls[i + 1].rp
          /\ Accounts(calls[i], calls[i].ip - 1, data', calls[i + 1].sp,
                      calls[i + 1].rp - calls[i].rp)
      <3>1. \A x \in 1 .. Top.sp : data'[x] = data[x]
        BY <1>1, TurnKeepsBelow
      <3> QED
        BY <1>1, <3>1, CallersKept
    <2>3. calls'[i] = calls[i]
      BY <1>1, <1>3, <2>1
    <2> QED
      BY <1>6, <2>1, <2>2, <2>3
  <1>8. TopAccounts'
    <2>1. calls'[1].rp = 0
      <3>1. calls[1].rp = 0 /\ 1 \in 1 .. n
        BY <1>1 DEF CountsInv, TopAccounts
      <3> QED
        BY <1>6, <3>1
    <2> QED
      BY <1>3, <1>4, <2>1 DEF TopAccounts
  <1> QED
    BY <1>1, <1>5, <1>7, <1>8 DEF CountsInv

\* A parser that begins has made nothing.
LEMMA StartAccounts ==
  ASSUME NEW f, f.parser \in Exact, NEW words, NEW top, Describes(AtStart, words, f.sp, top, 0)
  PROVE  Accounts(f, 1, words, top, 0)
  <1>1. \E s \in StatesAt(f, 1) : Describes(s, words, f.sp, top, 0)
    <2>1. CASE is_combinator(Parsers[f.parser].type)
      <3>1. \E s \in Results[f.parser][1] : Follows(AtStart, s)
        BY <2>1, ExactProgram DEF Counts
      <3> QED
        BY <2>1, <3>1, FollowsDescribes DEF StatesAt
    <2>2. CASE ~is_combinator(Parsers[f.parser].type)
      BY <2>2 DEF StatesAt
    <2> QED
      BY <2>1, <2>2
  <1> QED
    BY <1>1 DEF Accounts

LEMMA CountsCall ==
  ASSUME IInv, LocationsInv, FlagsInv, CountsInv, NoneLost', Call
  PROVE  CountsInv'
  <1> DEFINE n == Len(calls)
             g == Frame(Arg, Len(data), Len(results), Entry)
  <1>1. /\ AtInstr /\ Running /\ OnlyExact /\ Op = "CALL" /\ status # "aborted" /\ calls # <<>>
        /\ UNCHANGED <<data, results, scope, status>>
        /\ Depth = n /\ n \in Nat \ {0} /\ n \in 1 .. n
        /\ Len(data) \in Nat /\ Len(results) \in Nat
    BY TopIs, Kept DEF Call, Does, AtInstr, Running, Depth, CountsInv
  <1>2. PICK f \in Frames :
          /\ f.parser = Top.parser /\ f.sp = Top.sp /\ f.rp = Top.rp /\ f.entry = Top.entry
          /\ f.lost \/ f.ip = Top.ip + 1
          /\ g \in Frames
          /\ Len(calls') = n + 1 /\ Top' = g /\ calls' # <<>> /\ calls'[n + 1] = g
          /\ \A i \in 1 .. n : calls'[i] = IF i = Depth THEN f ELSE calls[i]
    BY CalledIs
  <1>3. f.ip = Top.ip + 1 /\ f.ip - 1 = Top.ip
    <2>1. n \in 1 .. n + 1 /\ calls'[n] = f
      BY <1>1, <1>2
    <2>2. ~f.lost
      BY <1>2, <2>1 DEF NoneLost
    <2> QED
      BY <1>1, <1>2, <2>2, TopIs
  <1>4. /\ g.parser = Arg /\ Arg \in Exact /\ g.ip = 1 /\ g.sp = Len(data)
        /\ g.rp = Len(results)
    <2>1. Arg \in Exact
      <3>1. Top.parser \in Exact /\ is_combinator(Object.type) /\ Top.ip \in DOMAIN Program
        BY <1>1, ExactTop, InstrIs DEF AtInstr
      <3> QED
        BY <1>1, <3>1, ExactProgram DEF Object, Program, Op, Arg
    <2> QED
      BY <2>1 DEF Frame
  <1> HIDE DEF g
  <1>5. OnlyExact'
    BY <1>1, <1>2, <1>4 DEF OnlyExact, Top
  <1>6. \A i \in 1 .. n : calls'[i].sp = calls[i].sp /\ calls'[i].rp = calls[i].rp
    BY <1>1, <1>2 DEF Top
  <1>7. /\ Waits(f) /\ f.rp <= g.rp
        /\ Accounts(f, f.ip - 1, data, g.sp, g.rp - f.rp)
    <2>1. Waits(f)
      BY <1>1, <1>2, <1>3, ExactInstr DEF Waits, Op, Program
    <2>2. /\ Top.rp <= Len(results)
          /\ Accounts(Top, Top.ip, data, Len(data), Len(results) - Top.rp)
      BY <1>1 DEF CountsInv, TopAccounts
    <2> QED
      BY <1>2, <1>3, <1>4, <2>1, <2>2 DEF Accounts, StatesAt
  <1>8. CallersAccount'
    <2> SUFFICES ASSUME NEW i \in 1 .. n
                 PROVE  /\ Waits(calls'[i]) /\ calls'[i].rp <= calls'[i + 1].rp
                        /\ Accounts(calls'[i], calls'[i].ip - 1, data', calls'[i + 1].sp,
                                    calls'[i + 1].rp - calls'[i].rp)
      BY <1>1, <1>2 DEF CallersAccount
    <2>1. CASE i = n
      <3>1. calls'[i] = f /\ calls'[i + 1] = g /\ data' = data
        BY <1>1, <1>2, <2>1
      <3> QED
        BY <1>7, <3>1
    <2>2. CASE i \in 1 .. n - 1
      <3>1. calls'[i] = calls[i] /\ i + 1 \in 1 .. n /\ data' = data
        BY <1>1, <1>2, <2>2
      <3>2. calls'[i + 1].sp = calls[i + 1].sp /\ calls'[i + 1].rp = calls[i + 1].rp
        BY <1>6, <3>1
      <3>3. /\ Waits(calls[i]) /\ calls[i].rp <= calls[i + 1].rp
            /\ Accounts(calls[i], calls[i].ip - 1, data, calls[i + 1].sp,
                        calls[i + 1].rp - calls[i].rp)
        BY <2>2 DEF CountsInv, CallersAccount
      <3> QED
        BY <3>1, <3>2, <3>3
    <2> QED
      BY <1>1, <2>1, <2>2
  <1>9. TopAccounts'
    <2>1. calls'[1].rp = 0
      <3>1. calls[1].rp = 0 /\ 1 \in 1 .. n
        BY <1>1 DEF CountsInv, TopAccounts
      <3> QED
        BY <1>6, <3>1
    <2>2. Describes(AtStart, data, g.sp, Len(data), 0)
      BY <1>1, <1>4, StartDescribed
    <2>3. Accounts(g, 1, data, Len(data), 0)
      BY <1>4, <2>2, StartAccounts
    <2>4. data' = data /\ Len(results') = g.rp /\ Len(results') - g.rp = 0 /\ g.rp <= Len(results')
      BY <1>1, <1>4
    <2> QED
      BY <1>2, <1>4, <2>1, <2>3, <2>4 DEF TopAccounts
  <1> QED
    BY <1>1, <1>5, <1>8, <1>9 DEF CountsInv

LEMMA CountsLookup ==
  ASSUME IInv, LocationsInv, FlagsInv, CountsInv, ResolveLookup
  PROVE  CountsInv'
  <1> DEFINE n == Len(calls)
  <1>1. /\ Running /\ ~is_combinator(Object.type) /\ IsBound(Object.arg) /\ OnlyExact
        /\ UNCHANGED <<data, results, scope, status>> /\ status # "aborted" /\ calls # <<>>
        /\ Depth = n /\ n \in Nat \ {0} /\ n \in 1 .. n /\ Top.ip = 1
    BY LookedUpIs, TopIs, KnownTop DEF Depth, ResolveLookup, CountsInv, Running
  <1>2. PICK f \in Frames : /\ f.parser = scope_lookup(Object.arg) /\ f.ip = 1
                            /\ f.sp = Top.sp /\ f.rp = Top.rp /\ f.entry = Top.entry
                            /\ calls' = [calls EXCEPT ![Depth] = f]
    BY LookedUpIs
  <1>3. /\ Len(calls') = n /\ Top' = f /\ calls' # <<>>
        /\ \A i \in 1 .. n : calls'[i] = IF i = Depth THEN f ELSE calls[i]
    BY <1>1, <1>2, MovedIs
  <1>4. f.parser \in Exact
    <2>1. PICK k \in 1 .. Len(scope) : scope_lookup(Object.arg) = scope[k].p
      BY <1>1, LookupIsBinding DEF IInv
    <2> QED
      BY <1>1, <1>2, <2>1 DEF OnlyExact
  <1>5. OnlyExact'
    BY <1>1, <1>3, <1>4 DEF OnlyExact
  <1>6. \A i \in 1 .. n : calls'[i].sp = calls[i].sp /\ calls'[i].rp = calls[i].rp
    BY <1>1, <1>2, <1>3 DEF Top
  <1>7. CallersAccount'
    <2> SUFFICES ASSUME NEW i \in 1 .. n - 1
                 PROVE  /\ Waits(calls'[i]) /\ calls'[i].rp <= calls'[i + 1].rp
                        /\ Accounts(calls'[i], calls'[i].ip - 1, data', calls'[i + 1].sp,
                                    calls'[i + 1].rp - calls'[i].rp)
      BY <1>3 DEF CallersAccount
    <2>1. calls'[i] = calls[i] /\ i + 1 \in 1 .. n /\ data' = data
      BY <1>1, <1>3
    <2>2. calls'[i + 1].sp = calls[i + 1].sp /\ calls'[i + 1].rp = calls[i + 1].rp
      BY <1>6, <2>1
    <2>3. /\ Waits(calls[i]) /\ calls[i].rp <= calls[i + 1].rp
          /\ Accounts(calls[i], calls[i].ip - 1, data, calls[i + 1].sp,
                      calls[i + 1].rp - calls[i].rp)
      BY DEF CountsInv, CallersAccount
    <2> QED
      BY <2>1, <2>2, <2>3
  <1>8. TopAccounts'
    <2> DEFINE m == Len(results) - Top.rp
    <2>1. calls'[1].rp = 0
      <3>1. calls[1].rp = 0 /\ 1 \in 1 .. n
        BY <1>1 DEF CountsInv, TopAccounts
      <3> QED
        BY <1>6, <3>1
    <2>2. Top.rp <= Len(results) /\ Accounts(Top, 1, data, Len(data), m)
      BY <1>1 DEF CountsInv, TopAccounts
    <2> HIDE DEF m
    <2>3. Accounts(f, 1, data, Len(data), m)
      <3>1. CASE Top.entry.noreturn
        BY <1>2, <2>2, <3>1 DEF Accounts
      <3>2. CASE ~Top.entry.noreturn
        <4>1. Describes(AtStart, data, f.sp, Len(data), m)
          BY <1>1, <1>2, <2>2, <3>2 DEF Accounts, StatesAt, Object
        <4>2. m = 0
          BY <4>1, AtStartTyped DEF Describes
        <4> QED
          BY <1>4, <4>1, <4>2, StartAccounts
      <3> QED
        BY <3>1, <3>2
    <2>4. data' = data /\ results' = results /\ f.rp = Top.rp
      BY <1>1, <1>2
    <2> QED
      BY <1>2, <1>3, <2>1, <2>2, <2>3, <2>4 DEF TopAccounts, m
  <1> QED
    BY <1>1, <1>5, <1>7, <1>8 DEF CountsInv
-----------------------------------------------------------------------------
(* A call returns with an outcome, and with one result or with none.       *)

\* What do_return leaves for an outcome.
Returned(success) ==
  /\ success \in Words
  /\ data'[Top.sp + 1] = success
  /\ Len(results') = IF flags.noreturn \/ success = 0 THEN Top.rp ELSE Top.rp + 1

LEMMA ReturnCounts ==
  ASSUME IInv, Running, NEW success \in Words, NEW ds \in Seq(Words), NEW rs, rs \in Seq(Range(rs)),
         DoReturn(success, ds, rs)
  PROVE  Returned(success)
  <1>1. Top.sp \in Nat /\ Top.rp \in Nat /\ Len(ds) \in Nat /\ Len(rs) \in Nat
    BY TopIs, LenIsNat
  <1>2. data'[Top.sp + 1] = success
    <2> DEFINE kept == SubSeq(ds, 1, Top.sp)
    <2>1. Top.sp \in 0 .. Len(ds)
      BY <1>1 DEF DoReturn, ReturnAssertFails
    <2>2. kept \in Seq(Words) /\ Len(kept) = Top.sp
      BY <2>1, PrefixIs
    <2>3. data' = Append(kept, success)
      BY DEF DoReturn
    <2> HIDE DEF kept
    <2> QED
      BY <2>2, <2>3, AppendProperties
  <1>3. Len(results') = IF flags.noreturn \/ success = 0 THEN Top.rp ELSE Top.rp + 1
    <2>1. CASE flags.noreturn \/ success = 0
      <3>1. results' = SubSeq(rs, 1, Top.rp) /\ Top.rp \in 0 .. Len(rs)
        BY <1>1, <2>1 DEF DoReturn, ReturnAssertFails, PARSE_FAILURE
      <3> QED
        BY <2>1, <3>1, PrefixIs
    <2>2. CASE ~(flags.noreturn \/ success = 0)
      BY <2>2 DEF DoReturn, ReturnAssertFails, PARSE_FAILURE
    <2> QED
      BY <2>1, <2>2
  <1> QED
    BY <1>2, <1>3 DEF Returned

LEMMA ReturnsCount ==
  ASSUME IInv, FailLookup \/ CallTerminal \/ ReturnFromProgram \/ UndefinedOpcode
  PROVE  status' = status /\ \E success : Returned(success)
  <1>1. /\ Running /\ data \in Seq(Words) /\ results \in Seq(Range(results))
        /\ status' = status
    BY Kept DEF FailLookup, CallTerminal, ReturnFromProgram, UndefinedOpcode,
                AtEnd, AtTerminal, AtLookup, AtOperand
  <1>2. CASE FailLookup \/ UndefinedOpcode
    <2>1. DoReturn(PARSE_FAILURE, data, results) /\ PARSE_FAILURE \in Words
      BY <1>2, WordArithmetic DEF FailLookup, UndefinedOpcode
    <2> QED
      BY <1>1, <2>1, ReturnCounts
  <1>3. CASE CallTerminal
    <2> DEFINE o == call_terminal(Object)
               rs == TerminalResults(o)
    <2>1. DoReturn(Bit(o.ok), data, rs) /\ Bit(o.ok) \in Words
      BY <1>3, WordArithmetic DEF CallTerminal
    <2>2. rs \in Seq(Range(rs))
      <3> HIDE DEF o
      <3>1. Append(results, o.value) \in Seq(Range(Append(results, o.value)))
        BY <1>1, AppendTyped
      <3> QED
        BY <1>1, <3>1 DEF TerminalResults
    <2> HIDE DEF o, rs
    <2> QED
      BY <1>1, <2>1, <2>2, ReturnCounts
  <1>4. CASE ReturnFromProgram
    <2>1. DoReturn(Word, Pop(data), results) /\ Len(data) >= 1
      BY <1>4 DEF ReturnFromProgram
    <2>2. Pop(data) \in Seq(Words) /\ Word \in Words
      <3>1. Len(data) \in 1 .. Len(data)
        BY <1>1, <2>1, LenIsNat
      <3> QED
        BY <1>1, <3>1, PopIs, ElementOfSeq DEF Word
    <2> QED
      BY <1>1, <2>1, <2>2, ReturnCounts
  <1> QED
    BY <1>1, <1>2, <1>3, <1>4

\* A frame that waits knows whether it silenced the call.
LEMMA WaitingIs ==
  ASSUME IInv, LocationsInv, FlagsInv, CountsInv, Running, NEW i \in 1 .. Len(calls) - 1
  PROVE  LET f == calls[i]
             e == calls[i + 1].entry
             c == Code[f.parser]
             a == Facts[f.parser][f.ip - 1]
         IN  /\ f.ip \in Nat /\ f.sp \in Nat /\ f.rp \in Nat
             /\ Counts(c, Facts[f.parser], Results[f.parser])
             /\ f.ip - 1 \in DOMAIN c /\ c[f.ip - 1].op = "CALL" /\ a.reached
             /\ \A k : StatesAt(f, k) = Results[f.parser][k]
             /\ \A s \in StatesAt(f, f.ip - 1) : s \in States
             /\ f.entry.noreturn => e.noreturn
             /\ ~f.entry.noreturn => (e.noreturn <=> Silenced(a))
  <1> DEFINE f == calls[i]
             e == calls[i + 1].entry
             c == Code[f.parser]
             k == f.ip - 1
             a == Facts[f.parser][k]
             b == Facts[f.parser][f.ip]
  <1>1. Len(calls) \in Nat /\ i \in 1 .. Len(calls) /\ i + 1 \in 1 .. Len(calls)
    BY FramesTyped
  <1>2. /\ f \in Frames /\ f.ip \in Nat /\ f.sp \in Nat /\ f.rp \in Nat
        /\ f.entry.noreturn \in BOOLEAN /\ e.noreturn \in BOOLEAN
    <2>1. f \in Frames /\ calls[i + 1] \in Frames
      BY <1>1, FramesTyped
    <2> QED
      BY <2>1, FrameFields DEF Frames
  <1>3. is_combinator(Parsers[f.parser].type) /\ Standing(f)
    BY <1>1, TopIs DEF CallersOwn, FramesStand
  <1>4. /\ f.parser \in DOMAIN Code
        /\ Counts(c, Facts[f.parser], Results[f.parser])
    BY <1>1, <1>3, ExactProgram DEF CountsInv, OnlyExact
  <1>5. k \in DOMAIN c /\ c[k].op = "CALL" /\ a.reached
    BY DEF CountsInv, CallersAccount, Waits
  <1>6. /\ DOMAIN c = 1 .. Len(c) /\ Len(c) \in Nat /\ k \in Points(c) /\ f.ip \in Points(c)
        /\ k + 1 = f.ip
    BY <1>2, <1>4, <1>5, FactsTyped DEF Points
  <1>7. \A j : StatesAt(f, j) = Results[f.parser][j]
    BY <1>3 DEF StatesAt
  <1>8. \A s \in StatesAt(f, k) : s \in States
    BY <1>4, <1>6, <1>7 DEF Counts
  <1>9. Known(f) = b /\ b.reached
    BY <1>1, <1>3 DEF LocationsInv, Known
  <1>10. a.noreturn \in {"set", "noreturn"} /\ b.noreturn \in {"set", "noreturn"}
    BY <1>4, <1>5, <1>6, <1>9 DEF Counts
  <1>11. b.noreturn = a.noreturn
    <2>1. Claims(b, After(c, k, a))
      <3>1. f.ip \in Succ(c, k)
        BY <1>5, <1>6 DEF Succ
      <3> QED
        BY <1>4, <1>5, <3>1, CodeBalanced DEF Balanced
    <2>2. After(c, k, a).noreturn = a.noreturn
      BY <1>5 DEF After
    <2> QED
      BY <1>10, <2>1, <2>2 DEF Claims
  <1>12. Means(b.noreturn, e.noreturn, f.entry)
    BY <1>9 DEF FlagsInv, CallersKnow, FlagsAre
  <1>13. /\ f.entry.noreturn => e.noreturn
         /\ ~f.entry.noreturn => (e.noreturn <=> Silenced(a))
    BY <1>2, <1>10, <1>11, <1>12 DEF Means, Silenced
  <1> QED
    BY <1>2, <1>4, <1>5, <1>7, <1>8, <1>13

\* The outcome, and the result if there is one, go to the account of the caller.
LEMMA CallerAccounts ==
  ASSUME IInv, LocationsInv, FlagsInv, CountsInv, NoneLost, Leave,
         NEW success, Returned(success), NEW i, i = Len(calls) - 1, i \in 1 .. Len(calls)
  PROVE  /\ calls[i].rp <= Len(results')
         /\ Accounts(calls[i], calls[i].ip, data', Len(data'), Len(results') - calls[i].rp)
  <1> DEFINE f == calls[i]
             k == f.ip - 1
             c == Code[f.parser]
             a == Facts[f.parser][k]
             made == Top.rp - f.rp
             n == Len(results') - f.rp
  <1>1. /\ Running /\ i \in 1 .. Len(calls) - 1 /\ calls[i + 1] = Top
        /\ Top.sp \in Nat /\ Top.rp \in Nat
    <2>1. Running
      BY DEF Leave, AtEnd, AtTerminal, AtLookup, AtOperand
    <2> QED
      BY <2>1, FramesTyped, TopIs DEF Top, Depth
  <1>2. /\ Len(data') = Top.sp + 1 /\ \A x \in 1 .. Top.sp : data'[x] = data[x]
        /\ success \in Words /\ data'[Top.sp + 1] = success
        /\ Len(results') = IF flags.noreturn \/ success = 0 THEN Top.rp ELSE Top.rp + 1
    BY DEF Leave, Returned
  <1>3. /\ f.ip \in Nat /\ f.sp \in Nat /\ f.rp \in Nat
        /\ Counts(c, Facts[f.parser], Results[f.parser])
        /\ k \in DOMAIN c /\ c[k].op = "CALL" /\ a.reached
        /\ \A j : StatesAt(f, j) = Results[f.parser][j]
        /\ \A s \in StatesAt(f, k) : s \in States
        /\ f.entry.noreturn => Top.entry.noreturn
        /\ ~f.entry.noreturn => (Top.entry.noreturn <=> Silenced(a))
    BY <1>1, WaitingIs
  <1>4. flags.noreturn = Top.entry.noreturn
    BY FlagsAtReturn
  <1>5. f.rp <= Top.rp /\ Accounts(f, k, data, Top.sp, made)
    BY <1>1 DEF CountsInv, CallersAccount
  <1>6. f.rp <= Len(results')
    BY <1>1, <1>2, <1>3, <1>5
  <1>7. Accounts(f, f.ip, data', Top.sp + 1, n)
    <2>1. CASE f.entry.noreturn
      <3>1. made = 0 /\ Len(results') = Top.rp
        BY <1>2, <1>3, <1>4, <1>5, <2>1 DEF Accounts
      <3>2. n = 0
        BY <3>1
      <3> QED
        BY <2>1, <3>2 DEF Accounts
    <2>2. CASE ~f.entry.noreturn
      <3>1. PICK s \in StatesAt(f, k) : Describes(s, data, f.sp, Top.sp, made)
        BY <1>5, <2>2 DEF Accounts
      <3> DEFINE u == IF success = 0 THEN s ELSE More(s, Made(a))
                 tag == IF success = 0 THEN Tag({0}) ELSE Tag(NonZero)
                 t == Put(u, tag)
      <3>2. s \in States /\ made \in Int
        BY <1>1, <1>3, <3>1
      <3>3. n = made + (IF success = 0 THEN 0 ELSE Made(a))
        BY <1>1, <1>2, <1>3, <1>4, <2>2 DEF Made
      <3>4. u \in States /\ Describes(u, data, f.sp, Top.sp, n)
        <4>1. CASE success = 0
          <5>1. n = made
            BY <3>2, <3>3, <4>1
          <5> QED
            BY <3>1, <3>2, <4>1, <5>1
        <4>2. CASE success # 0
          <5>1. n = made + Made(a) /\ Made(a) \in Int
            BY <3>3, <4>2 DEF Made
          <5>2. \A j \in Tracked : f.sp < Top.sp - j + 1 => data[Top.sp - j + 1] \in Int
            <6>1. /\ data \in Seq(Words) /\ Len(data) \in Nat /\ Owned(Top) \in Nat
                  /\ Top.sp + Owned(Top) <= Len(data)
              <7>1. Depth \in 1 .. Len(calls)
                BY <1>1, TopIs
              <7>2. Owned(Top) \in Nat
                BY <1>1, <7>1, TidyFrames DEF FlagsInv, Top
              <7>3. data \in Seq(Words) /\ Len(data) \in Nat
                BY Kept
              <7>4. Top.sp + Owned(Top) <= Len(data)
                BY <1>1, TopIs
              <7> QED
                BY <7>2, <7>3, <7>4
            <6>2. \A x \in 1 .. Len(data) : data[x] \in Int
              BY <6>1, ElementOfSeq, EvalAssumption DEF Words
            <6>3. Top.sp <= Len(data)
              BY <1>1, <6>1
            <6>4. \A j \in Tracked : f.sp < Top.sp - j + 1 => Top.sp - j + 1 \in 1 .. Len(data)
              <7>1. f.sp \in Nat /\ Top.sp \in Nat /\ Len(data) \in Nat
                BY <1>1, <1>3, <6>1
              <7> HIDE DEF f
              <7> QED
                BY <6>3, <7>1 DEF Tracked
            <6> QED
              BY <6>2, <6>4
          <5> HIDE DEF made, n
          <5>3. More(s, Made(a)) \in States /\ Describes(More(s, Made(a)), data, f.sp, Top.sp, n)
            BY <3>1, <3>2, <5>1, <5>2, MoreIs
          <5> QED
            BY <4>2, <5>3
        <4> QED
          BY <4>1, <4>2
      <3>5. success \in tag.may /\ ~tag.counts
        BY <1>2 DEF Tag, NonZero
      <3>6. <<k + 1, t>> \in Moves(c, k, a, s)
        BY <1>3 DEF Moves, Jumps
      <3>11. n \in Int
        BY <3>2, <3>3 DEF Made
      <3> HIDE DEF u, tag, n, made
      <3>7. Describes(t, data', f.sp, Top.sp + 1, n)
        <4>1. /\ u \in States /\ f.sp \in Nat /\ Top.sp \in Nat /\ n \in Int
              /\ Describes(u, data, f.sp, Top.sp, n)
          BY <1>1, <1>3, <3>4, <3>11
        <4>2. /\ \A x \in 1 .. Top.sp : data'[x] = data[x]
              /\ data'[Top.sp + 1] \in tag.may
              /\ ~tag.counts
          BY <1>2, <3>5
        <4> QED
          BY <4>1, <4>2, PutDescribes
      <3>8. \E v \in Results[f.parser][k + 1] : Follows(t, v)
        <4>1. s \in Results[f.parser][k]
          BY <1>3, <3>1
        <4>2. \A m \in Moves(c, k, a, s) : \E v \in Results[f.parser][m[1]] : Follows(m[2], v)
          BY <1>3, <4>1 DEF Counts
        <4> QED
          BY <3>6, <4>2
      <3>9. k + 1 = f.ip
        BY <1>3
      <3>10. \E v \in StatesAt(f, f.ip) : Describes(v, data', f.sp, Top.sp + 1, n)
        BY <1>3, <3>7, <3>8, <3>9, FollowsDescribes
      <3> QED
        BY <2>2, <3>10 DEF Accounts
    <2> QED
      BY <2>1, <2>2
  <1> QED
    BY <1>2, <1>6, <1>7

LEMMA CountsLeave ==
  ASSUME IInv, LocationsInv, FlagsInv, CountsInv, NoneLost,
         FailLookup \/ CallTerminal \/ ReturnFromProgram \/ UndefinedOpcode
  PROVE  CountsInv'
  <1> DEFINE n == Len(calls)
  <1>1. PICK success : Leave /\ status' = status /\ Returned(success)
    BY Leaves, ReturnsCount
  <1>2. /\ Running /\ calls' = Pop(calls) /\ scope' = scope /\ OnlyExact /\ status # "aborted"
        /\ Len(data') = Top.sp + 1 /\ \A x \in 1 .. Top.sp : data'[x] = data[x]
        /\ flags'.noreturn = flags.noreturn
        /\ n \in Nat /\ Depth = n /\ n \in 1 .. n /\ calls # <<>>
    BY <1>1, TopIs, FramesTyped
       DEF Leave, AtEnd, AtTerminal, AtLookup, AtOperand, Depth, CountsInv, Running
  <1>3. /\ Len(calls') = n - 1
        /\ \A i \in 1 .. n - 1 : calls'[i] = calls[i]
        /\ calls' # <<>> => n - 1 \in 1 .. n /\ Top' = calls[n - 1]
    BY <1>2, PoppedIs
  <1>4. OnlyExact'
    BY <1>2, <1>3 DEF OnlyExact
  <1>5. CallersAccount'
    <2> SUFFICES ASSUME NEW i \in 1 .. n - 1 - 1
                 PROVE  /\ Waits(calls'[i]) /\ calls'[i].rp <= calls'[i + 1].rp
                        /\ Accounts(calls'[i], calls'[i].ip - 1, data', calls'[i + 1].sp,
                                    calls'[i + 1].rp - calls'[i].rp)
      BY <1>3 DEF CallersAccount
    <2>1. i \in 1 .. n - 1 /\ calls'[i] = calls[i] /\ calls'[i + 1] = calls[i + 1]
      BY <1>2, <1>3
    <2>2. /\ Waits(calls[i]) /\ calls[i].rp <= calls[i + 1].rp
          /\ Accounts(calls[i], calls[i].ip - 1, data', calls[i + 1].sp,
                      calls[i + 1].rp - calls[i].rp)
      BY <1>2, <2>1, CallersKept
    <2> QED
      BY <2>1, <2>2
  <1>6. TopAccounts'
    <2>1. calls[1].rp = 0
      BY <1>2 DEF CountsInv, TopAccounts
    <2>2. CASE calls' # <<>>
      <3> DEFINE i == n - 1
      <3>1. i \in 1 .. n /\ Top' = calls[i] /\ 1 \in 1 .. i
        BY <1>2, <1>3, <2>2
      <3>2. /\ calls[i].rp <= Len(results')
            /\ Accounts(calls[i], calls[i].ip, data', Len(data'), Len(results') - calls[i].rp)
        BY <1>1, <3>1, CallerAccounts
      <3>3. calls'[1].rp = 0
        BY <1>3, <2>1, <3>1
      <3>4. /\ Top'.rp <= Len(results')
            /\ Accounts(Top', Top'.ip, data', Len(data'), Len(results') - Top'.rp)
        BY <3>1, <3>2
      <3> QED
        BY <2>2, <3>3, <3>4 DEF TopAccounts
    <2>3. CASE calls' = <<>>
      <3>1. n = 1
        <4>1. Len(calls') = 0
          BY <2>3
        <4>2. Len(calls') = n - 1 /\ n \in Nat
          BY <1>2, <1>3
        <4> HIDE DEF n
        <4> QED
          BY <4>1, <4>2
      <3>2. Top.rp = 0 /\ Top.sp \in Nat
        BY <1>2, <2>1, <3>1, TopIs DEF Top
      <3>3. data'[Len(data')] = success
        BY <1>1, <1>2 DEF Returned
      <3>4. success # 0 /\ ~flags.noreturn => Len(results') = 1
        BY <1>1, <3>2 DEF Returned
      <3> QED
        BY <1>2, <2>3, <3>3, <3>4 DEF TopAccounts, Word
    <2> QED
      BY <2>2, <2>3
  <1> QED
    BY <1>1, <1>2, <1>4, <1>5, <1>6 DEF CountsInv
-----------------------------------------------------------------------------
(* No assert fails. *)

LEMMA JumpsHold ==
  ASSUME IInv, AtInstr, Op \in Jumps
  PROVE  ~JumpAssertFails
  <1>1. Arg \in Points(Program)
    BY InstrIs DEF OperandFits, Op, Arg
  <1>2. Len(Program) \in Nat
    BY InstrIs
  <1>3. Arg # Unpatched
    BY <1>1, <1>2 DEF Points, Unpatched
  <1> QED
    BY <1>3 DEF JumpAssertFails

LEMMA FoldHolds ==
  ASSUME IInv, LocationsInv, FlagsInv, CountsInv, AtInstr, Op = "FOLD"
  PROVE  ~FoldAssertFails
  <1> SUFFICES ASSUME ~flags.noreturn PROVE ~(Len(results) < Word)
    BY DEF FoldAssertFails
  <1> DEFINE n == Len(results) - Top.rp
  <1>1. ~Top.entry.noreturn /\ ~Silenced(Known(Top))
    BY ExactFlags DEF AtInstr, CountsInv
  <1>2. PICK s \in StatesAt(Top, Top.ip) : TopIn(s, n)
    BY <1>1, TopCounts
  <1>3. Top.rp \in Nat /\ Len(results) \in Nat /\ n \in Nat
    BY TopCounts
  <1> HIDE DEF n
  <1>4. Word <= n /\ Word \in Int
    BY <1>1, <1>2, FoldFits
  <1> QED
    BY <1>3, <1>4 DEF n

LEMMA ApplyHolds ==
  ASSUME IInv, LocationsInv, FlagsInv, CountsInv, AtInstr, Op = "APPLY"
  PROVE  ~ApplyAssertFails
  <1>1. Object.type = "APPLY"
    BY InstrIs DEF OperandFits, Op
  <1>2. ASSUME ~flags.noreturn PROVE results # <<>>
    <2> DEFINE n == Len(results) - Top.rp
    <2>1. ~Top.entry.noreturn /\ ~Silenced(Known(Top))
      BY <1>2, ExactFlags DEF AtInstr, CountsInv
    <2>2. PICK s \in StatesAt(Top, Top.ip) : TopIn(s, n)
      BY <2>1, TopCounts
    <2>3. Top.rp \in Nat /\ Len(results) \in Nat
      BY TopCounts
    <2>4. s.sign = 0 /\ s.made >= 1
      BY <2>1, <2>2 DEF TopIn, Fits
    <2>5. n = s.made
      BY <2>2, <2>4 DEF TopIn, Describes
    <2>6. Len(results) # 0
      BY <2>3, <2>4, <2>5
    <2> QED
      BY <2>6
  <1> QED
    BY <1>1, <1>2 DEF ApplyAssertFails

LEMMA BindingsHold ==
  ASSUME IInv, LocationsInv, ScopeInv, AtInstr
  PROVE  /\ Op = "PUSH_BINDING" => ~PushBindingAssertFails
         /\ Op = "POP_BINDING" => ~PopBindingAssertFails
  <1>1. Op \in {"PUSH_BINDING", "POP_BINDING"} => Object.type = "BIND"
    BY InstrIs DEF OperandFits, Op
  <1>2. ASSUME Op = "POP_BINDING"
        PROVE  scope # <<>> /\ scope[Len(scope)] = Object.arg
    <2> DEFINE e == Top.entry.scope
               b == Object.arg
    <2>1. Running /\ calls # <<>> /\ Top \in Frames
      BY TopIs DEF AtInstr, Running
    <2>2. Known(Top).bound
      BY <1>2, <2>1, KnownNext, LocationsOfTop
    <2>3. scope = Append(e, b)
      BY <2>1, <2>2 DEF ScopeInv, InScope, Object
    <2>4. e \in Seq(Bindings)
      BY <2>1, FrameFields
    <2> HIDE DEF e, b
    <2>5. e \in Seq(Bindings \cup {b})
      BY <2>4, SeqMonotonic
    <2>6. /\ Len(Append(e, b)) = Len(e) + 1 /\ Append(e, b)[Len(e) + 1] = b
          /\ Len(e) \in Nat
      BY <2>5, AppendProperties
    <2>7. Len(scope) = Len(e) + 1 /\ scope[Len(scope)] = b /\ Len(scope) # 0
      BY <2>3, <2>6
    <2> QED
      BY <2>7 DEF b
  <1> QED
    BY <1>1, <1>2 DEF PushBindingAssertFails, PopBindingAssertFails

\* A program that ends with a success ends with one result of its own.
LEMMA EndHolds ==
  ASSUME IInv, LocationsInv, FlagsInv, CountsInv, AtEnd
  PROVE  ~ReturnAssertFails(Word, Pop(data), results)
  <1> DEFINE n == Len(results) - Top.rp
             L == Len(data)
  <1>1. /\ Running /\ calls # <<>> /\ is_combinator(Object.type) /\ Top.ip > Len(Program)
        /\ Top.parser \in Ids /\ Top.ip \in Nat /\ Standing(Top) /\ Top.sp \in Nat /\ Top.rp \in Nat
    BY TopIs DEF AtEnd, Running
  <1>2. L \in Nat /\ Len(results) \in Nat /\ ~(L < 1 \/ L - 1 < Top.sp)
    BY Kept, InvIsSafe DEF DataStackSafe, DataAssertFails
  <1>3. Len(Pop(data)) = L - 1
    BY <1>2, Kept, PopIs, EmptySeq
  <1>4. Top.rp <= Len(results) /\ Accounts(Top, Top.ip, data, L, n)
    BY <1>1 DEF CountsInv, TopAccounts
  <1>5. ASSUME ~flags.noreturn, Word # 0 PROVE n = 1
    <2>1. ~Top.entry.noreturn /\ Known(Top).reached
      BY <1>1, <1>5, ExactFlags DEF CountsInv
    <2>2. PICK s \in StatesAt(Top, Top.ip) : Describes(s, data, Top.sp, L, n)
      BY <1>4, <2>1 DEF Accounts
    <2>3. Counts(Program, Facts[Top.parser], Results[Top.parser])
      BY <1>1, ExactTop, ExactProgram DEF Object, Program, CountsInv
    <2>4. Top.parser \in DOMAIN Code
      BY <1>1 DEF Code, Object
    <2>5. Len(Program) \in Nat
      BY <2>4, FactsTyped DEF Program
    <2>6. Top.ip = Len(Program) + 1
      BY <1>1, <2>5 DEF Standing, Points, Object, Program
    <2>7. Known(Top) = Facts[Top.parser][Len(Program) + 1]
      BY <1>1, <2>6 DEF Known, Object
    <2>8. s \in Results[Top.parser][Len(Program) + 1]
      BY <1>1, <2>2, <2>6 DEF StatesAt, Object
    <2>9. s.words[1].may = {0} \/ (s.sign = 0 /\ s.made = 1)
      BY <2>1, <2>3, <2>7, <2>8 DEF Counts
    <2>10. Word \in s.words[1].may
      <3>1. L \in Nat /\ Top.sp \in Nat /\ Top.sp < L
        BY <1>1, <1>2
      <3> HIDE DEF n, L
      <3>2. data[L] \in s.words[1].may
        BY <2>2, <3>1, FirstWord
      <3> QED
        BY <3>2 DEF Word, L
    <2>11. s.sign = 0 /\ s.made = 1
      BY <1>5, <2>9, <2>10
    <2> QED
      BY <2>2, <2>11 DEF Describes
  <1>6. ~(Len(Pop(data)) < Top.sp)
    BY <1>2, <1>3
  <1>7. CASE flags.noreturn \/ Word = 0
    <2>1. ~(Len(results) < Top.rp)
      BY <1>1, <1>2, <1>4
    <2> QED
      BY <1>6, <1>7, <2>1 DEF ReturnAssertFails, PARSE_FAILURE
  <1>8. CASE ~(flags.noreturn \/ Word = 0)
    <2>1. Len(results) = Top.rp + 1
      BY <1>1, <1>2, <1>5, <1>8
    <2> QED
      BY <1>6, <1>8, <2>1 DEF ReturnAssertFails, PARSE_FAILURE
  <1> QED
    BY <1>7, <1>8

\* A terminal has made no result before it returns.
LEMMA TerminalHolds ==
  ASSUME IInv, CountsInv, AtTerminal \/ AtLookup
  PROVE  /\ ~ReturnAssertFails(PARSE_FAILURE, data, results)
         /\ \A o : o.ok \in BOOLEAN => ~ReturnAssertFails(Bit(o.ok), data, TerminalResults(o))
  <1> DEFINE n == Len(results) - Top.rp
  <1>1. Running /\ calls # <<>> /\ ~is_combinator(Object.type)
    BY Parts DEF AtTerminal, AtLookup, Running
  <1>2. Top.sp \in Nat /\ Top.rp \in Nat /\ Len(results) \in Nat /\ Len(data) \in Nat
        /\ results \in Seq(Range(results))
    BY <1>1, TopIs, Kept
  <1>3. Accounts(Top, Top.ip, data, Len(data), n)
    BY <1>1 DEF CountsInv, TopAccounts
  <1>4. n = 0
    <2>1. StatesAt(Top, Top.ip) = {AtStart}
      BY <1>1 DEF StatesAt, Object
    <2> QED
      BY <1>3, <2>1, AtStartTyped DEF Accounts, Describes
  <1>5. Len(results) = Top.rp
    BY <1>2, <1>4
  <1>6. ~(Len(data) < Top.sp)
    <2>1. Owned(Top) = 0
      BY <1>1 DEF Owned, Object
    <2> QED
      BY <1>1, <1>2, <2>1, TopIs
  <1>7. ~ReturnAssertFails(PARSE_FAILURE, data, results)
    BY <1>2, <1>5, <1>6 DEF ReturnAssertFails
  <1>8. ASSUME NEW o, o.ok \in BOOLEAN
        PROVE  ~ReturnAssertFails(Bit(o.ok), data, TerminalResults(o))
    <2>1. CASE o.ok /\ ~flags.noreturn
      <3>1. Len(Append(results, o.value)) = Top.rp + 1
        <4>1. results \in Seq(Range(results) \cup {o.value})
          BY <1>2, SeqMonotonic
        <4> QED
          BY <1>5, <4>1, AppendProperties
      <3>2. TerminalResults(o) = Append(results, o.value) /\ Bit(o.ok) # PARSE_FAILURE
        BY <2>1 DEF TerminalResults, Bit, PARSE_FAILURE
      <3> QED
        BY <1>6, <2>1, <3>1, <3>2 DEF ReturnAssertFails
    <2>2. CASE ~(o.ok /\ ~flags.noreturn)
      <3>1. TerminalResults(o) = results /\ (flags.noreturn \/ Bit(o.ok) = PARSE_FAILURE)
        BY <1>8, <2>2 DEF TerminalResults, Bit, PARSE_FAILURE
      <3>2. ~(Len(results) < Top.rp)
        BY <1>2, <1>5
      <3> QED
        BY <1>6, <3>1, <3>2 DEF ReturnAssertFails
    <2> QED
      BY <2>1, <2>2
  <1> QED
    BY <1>7, <1>8

\* No assert of the loop's body, of do_return or of lazy_eval can fail.
LEMMA NoneFails ==
  ASSUME IInv, LocationsInv, ScopeInv, FlagsInv, CountsInv, NoneLost, status = "run"
  PROVE  ~AssertFails
  <1>1. ~DataAssertFails
    BY InvIsSafe DEF DataStackSafe
  <1>2. ~(AtInstr /\ OpAssertFails)
    <2>1. AtInstr /\ Op = "EXPECT" => ~ExpectAssertFails
      BY InstrIs DEF OperandFits, Op, ExpectAssertFails
    <2> QED
      BY <2>1, JumpsHold, FoldHolds, ApplyHolds, BindingsHold DEF OpAssertFails
  <1>3. ~(AtEnd /\ ReturnAssertFails(Word, Pop(data), results))
    BY EndHolds
  <1>4. ~(AtTerminal /\ ReturnAssertFails(Bit(call_terminal(Object).ok), data,
                                          TerminalResults(call_terminal(Object))))
    <2>1. AtTerminal => call_terminal(Object).ok \in BOOLEAN
      BY TerminalTyped DEF Typed
    <2> QED
      BY <2>1, TerminalHolds
  <1>5. ~(AtLookup /\ ReturnAssertFails(PARSE_FAILURE, data, results))
    BY TerminalHolds
  <1>6. ~AtOperand
    <2>1. AtOperand => Running /\ Top.lost
      BY Parts DEF AtOperand
    <2>2. Running => Depth \in 1 .. Len(calls)
      BY TopIs
    <2> QED
      BY <2>1, <2>2 DEF NoneLost, Top
  <1>7. ~(calls = <<>> /\ FinishAssertFails)
    BY DEF CountsInv, TopAccounts, FinishAssertFails, PARSE_SUCCESS
  <1> QED
    BY <1>1, <1>2, <1>3, <1>4, <1>5, <1>6, <1>7 DEF AssertFails
-----------------------------------------------------------------------------
(* The rest of the steps, and the theorems. *)

LEMMA CountsFinish ==
  ASSUME CountsInv, Finish
  PROVE  CountsInv'
  <1>1. calls' = <<>> /\ scope' = <<>> /\ status' = "done"
    BY DEF Finish
  <1>2. Len(calls') = 0 /\ Len(scope') = 0
    BY <1>1, EmptySeq
  <1>3. OnlyExact'
    BY <1>2 DEF OnlyExact
  <1>4. CallersAccount'
    BY <1>2 DEF CallersAccount
  <1>5. TopAccounts'
    BY <1>1 DEF TopAccounts
  <1> QED
    BY <1>1, <1>3, <1>4, <1>5 DEF CountsInv

LEMMA CountsStay ==
  ASSUME CountsInv, UNCHANGED vars
  PROVE  CountsInv'
  <1>1. /\ calls' = calls /\ data' = data /\ results' = results /\ scope' = scope
        /\ status' = status /\ flags' = flags
    BY DEF vars
  <1>2. OnlyExact'
    BY <1>1 DEF CountsInv, OnlyExact
  <1>3. CallersAccount'
    BY <1>1 DEF CountsInv, CallersAccount
  <1>4. TopAccounts'
    BY <1>1 DEF CountsInv, TopAccounts, Top, Depth, Word
  <1> QED
    BY <1>1, <1>2, <1>3, <1>4 DEF CountsInv

LEMMA CountsStart == Init /\ root \in Exact => CountsInv
  <1> SUFFICES ASSUME Init, root \in Exact PROVE CountsInv
    OBVIOUS
  <1> DEFINE f == Frame(root, 0, 0, Entry)
  <1>1. /\ calls = <<f>> /\ Len(calls) = 1 /\ calls[1] = f /\ Top = f /\ calls # <<>>
        /\ Len(scope) = 0 /\ Len(results) = 0 /\ Len(data) = 0 /\ status # "aborted"
    BY EmptySeq DEF Init, Top, Depth
  <1>2. f.parser \in Exact /\ f.ip = 1 /\ f.sp = 0 /\ f.rp = 0
    BY DEF Frame
  <1> HIDE DEF f
  <1>3. OnlyExact
    BY <1>1, <1>2 DEF OnlyExact
  <1>4. CallersAccount
    BY <1>1 DEF CallersAccount
  <1>5. Accounts(f, 1, data, 0, 0)
    <2>1. Describes(AtStart, data, f.sp, 0, 0)
      BY <1>2, StartDescribed
    <2> QED
      BY <1>2, <2>1, StartAccounts
  <1>6. TopAccounts
    BY <1>1, <1>2, <1>5 DEF TopAccounts
  <1> QED
    BY <1>1, <1>3, <1>4, <1>6 DEF CountsInv

LEMMA CountsNext ==
  ASSUME IInv, LocationsInv, ScopeInv, FlagsInv, CountsInv, NoneLost, NoneLost', NoWrap, [Next]_vars
  PROVE  CountsInv'
  <1>1. ~Abort
    BY NoneFails DEF Abort
  <1> QED
    BY <1>1, CountStepIs, CountsTurn, CountsCall, CountsLookup, CountsLeave, CountsFinish, CountsStay

LEMMA ResultStart == Init => ResultInv
  BY CountsStart DEF ResultInv

LEMMA ResultNext == FullInv /\ ResultInv /\ NoWrap /\ [Next]_vars => ResultInv'
  <1> SUFFICES ASSUME FullInv, ResultInv, NoWrap, [Next]_vars, root' \in Exact, room' = CallStackCap
               PROVE  CountsInv'
    BY DEF ResultInv
  <1>1. root' = root /\ root \in Tidy
    BY StepIs, LookedUpIs, ExactCounts DEF FullInv, Turn, Call, Leave, Still
  <1>2. room = CallStackCap /\ RoomInv /\ RoomInv'
    BY RoomNext DEF FullInv
  <1>3. NoneLost /\ NoneLost'
    BY <1>2 DEF RoomInv
  <1>4. IInv /\ LocationsInv /\ ScopeInv /\ FlagsInv /\ CountsInv
    BY <1>1, <1>2 DEF FullInv, CallInv, ResultInv
  <1> QED
    BY <1>3, <1>4, CountsNext

\* While the words are wide enough to count the results, every frame accounts for the
\* results above its rp, in every parse whose call stack has not grown
\* (cc_eval.c:741-800; cc_compiler.c:190-645).
THEOREM ResultsAreAccounted == Spec /\ []NoWrap => []ResultInv
  BY FullStart, FullNext, ResultStart, ResultNext, PTL DEF Spec

\* Then no assert of ir_eval, of do_return or of lazy_eval fails, whatever the parsers
\* called on the way return: FOLD and APPLY find their results, a parser that succeeds
\* leaves one, every jump was patched, the scope is unwound in order
\* (cc_eval.c:741-897).
THEOREM NoAssertEverFails ==
  Spec /\ root \in Exact /\ []NeverGrown /\ []NoWrap => []NoAssertFails
  <1>1. FullInv /\ root \in Exact /\ [Next]_vars => (root \in Exact)'
    BY StepIs, LookedUpIs DEF FullInv, Turn, Call, Leave, Still
  <1>2. ResultInv /\ root \in Exact /\ NeverGrown => NoAssertFails
    BY DEF ResultInv, NeverGrown, CountsInv, NoAssertFails
  <1> QED
    BY <1>1, <1>2, FullStart, FullNext, ResultsAreAccounted, PTL DEF Spec
=============================================================================
