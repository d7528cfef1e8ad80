----------------------------- MODULE HashProofs -----------------------------
(***************************************************************************)
(* Proofs about the hash table, for every hash function, every number of   *)
(* keys and entries and every initial size: its types, that a probe always *)
(* ends, that rules are found and stay, and that it is a stack of bindings *)
(* to its users until a resize meets the entries of one key in two slots.  *)
(***************************************************************************)
EXTENDS HashTable, LeastElement, FiniteSetTheorems, SequenceTheorems, TLAPS

Entries == [key : Keys, value : Values, address : 1 .. MaxEntries]

\* The j-th slot that a probe for k looks at.
At(h, k, j, cap) == (j + h[k]) % cap

Of(table, s, k) == table[s] # <<>> /\ table[s][1].key = k

FirstStop(h, table, cap, k, i) ==
  /\ i \in Slots(cap)
  /\ Stops(k, At(h, k, i, cap), table)
  /\ \A m \in Slots(cap) : m < i => ~Stops(k, At(h, k, m, cap), table)

Filled(table, cap) == {s \in Slots(cap) : table[s] # <<>>}

-----------------------------------------------------------------------------
(* What is true of the slots of a table and the list of its entries. *)

\* A slot holds entries of one key.
OneKey(table, cap) ==
  \A s \in Slots(cap) : \A n \in DOMAIN table[s] : table[s][n].key = table[s][1].key

\* Every entry of a slot is on the list, and in one place of the table only.
Live(table, cap, entries) ==
  \A s \in Slots(cap) : \A n \in DOMAIN table[s] :
    \E i \in DOMAIN entries : entries[i] = table[s][n]

Apart(table, cap) ==
  \A s \in Slots(cap) : \A m \in DOMAIN table[s] :
    \A t \in Slots(cap) : \A n \in DOMAIN table[t] :
      table[s][m] = table[t][n] => s = t /\ m = n

Sound(table, cap, entries) ==
  /\ table \in [Slots(cap) -> Seq(Entries)]
  /\ OneKey(table, cap) /\ Live(table, cap, entries) /\ Apart(table, cap)

\* Every entry of the list is in a slot,
Held(table, cap, entries) ==
  \A i \in DOMAIN entries : \E s \in Slots(cap) : \E n \in DOMAIN table[s] :
    table[s][n] = entries[i]

\* which a probe reaches unless it stops earlier or meets a mark.
Reached(h, table, cap, marks) ==
  \A k \in Keys, j \in Slots(cap) : Of(table, At(h, k, j, cap), k) =>
    \A m \in Slots(cap) :
      m < j => table[At(h, k, m, cap)] # <<>> \/ At(h, k, m, cap) \in marks

\* The newest of a slot is on top; of two slots of one key the one that a probe
\* reaches first holds the newer entries.
Older(entries, e, f) ==
  \A a, b \in DOMAIN entries : entries[a] = e /\ entries[b] = f => a < b

Sorted(table, cap, entries) ==
  \A s \in Slots(cap) : \A n \in DOMAIN table[s] : \A m \in DOMAIN table[s] :
    m < n => Older(entries, table[s][m], table[s][n])

Newer(h, table, cap, entries) ==
  \A k \in Keys, j \in Slots(cap) : Of(table, At(h, k, j, cap), k) =>
    \A i \in Slots(cap) : i < j /\ Of(table, At(h, k, i, cap), k) =>
      \A m \in DOMAIN table[At(h, k, i, cap)] : \A n \in DOMAIN table[At(h, k, j, cap)] :
        Older(entries, table[At(h, k, i, cap)][m], table[At(h, k, j, cap)][n])

Whole(h, table, cap, marks, entries) ==
  /\ Held(table, cap, entries) /\ Reached(h, table, cap, marks)
  /\ Sorted(table, cap, entries) /\ Newer(h, table, cap, entries)

Distinct(entries) ==
  \A i, j \in DOMAIN entries : entries[i].address = entries[j].address => i = j

-----------------------------------------------------------------------------
\* The types; and the table is never more than half full, as size counts at least
\* the slots that are taken and the capacity stays even.
SizesInv ==
  /\ use \in {"scope", "rules"} /\ hash \in [Keys -> Nat]
  /\ capacity \in Nat \ {0, 1} /\ capacity % 2 = 0
  /\ size \in Nat /\ 2 * size <= capacity /\ Cardinality(Filled(chain, capacity)) <= size
  /\ marked \subseteq {s \in Slots(capacity) : chain[s] = <<>>}
  /\ list \in Seq(Entries) /\ Len(list) <= MaxEntries /\ Distinct(list)
  /\ result \in Values \cup {NoValue}
  /\ crashed \in BOOLEAN /\ lost \in BOOLEAN

\* Nothing is removed from a table of rules, and no name is set twice.
RulesInv ==
  /\ ~lost /\ marked = {}
  /\ \A i, j \in DOMAIN list : list[i].key = list[j].key => i = j

\* The slots hold what is on the list, in one place each, and at most half of them are
\* taken; and unless a resize lost some, every entry is where a probe for its key
\* finds it, behind newer ones only (cc_common.c:552-701).
TableInv ==
  /\ SizesInv /\ Sound(chain, capacity, list)
  /\ ~lost => Whole(hash, chain, capacity, marked, list)
  /\ use = "rules" => RulesInv
-----------------------------------------------------------------------------
(* Probing: the slots a key is looked for in are all slots, once each. *)

Composed(c, q, r) == c * q + r

LEMMA Division ==
  ASSUME NEW a \in Nat, NEW c \in Nat \ {0}
  PROVE  a % c \in Slots(c) /\ a \div c \in Nat /\ a = Composed(c, a \div c, a % c)
  BY DEF Slots, Composed

LEMMA Remainder ==
  ASSUME NEW c \in Nat \ {0}, NEW q \in Int, NEW p \in Int,
         NEW r \in Slots(c), NEW s \in Slots(c), Composed(c, q, r) = Composed(c, p, s)
  PROVE  r = s
  <1>1. c * (q - p) = s - r
    BY DEF Slots, Composed
  <1>2. CASE q - p >= 1
    <2>1. c * (q - p) >= c
      BY <1>2
    <2> QED
      BY <1>1, <2>1 DEF Slots
  <1>3. CASE q - p <= -1
    <2>1. c * (q - p) <= -c
      BY <1>3
    <2> QED
      BY <1>1, <2>1 DEF Slots
  <1>4. CASE q - p = 0
    BY <1>1, <1>4 DEF Slots
  <1> QED
    BY <1>2, <1>3, <1>4

LEMMA AtTyped ==
  ASSUME NEW h \in [Keys -> Nat], NEW k \in Keys, NEW c \in Nat \ {0}, NEW j \in Slots(c)
  PROVE  At(h, k, j, c) \in Slots(c)
  <1>1. j + h[k] \in Nat
    BY DEF Slots
  <1> QED
    BY <1>1, Division DEF At

LEMMA AtOnce ==
  ASSUME NEW h \in [Keys -> Nat], NEW k \in Keys, NEW c \in Nat \ {0},
         NEW i \in Slots(c), NEW j \in Slots(c), At(h, k, i, c) = At(h, k, j, c)
  PROVE  i = j
  <1> DEFINE a == i + h[k]
             b == j + h[k]
             q == a \div c
             p == b \div c
  <1>1. a \in Nat /\ b \in Nat /\ h[k] \in Nat /\ i \in Nat /\ j \in Nat
    BY DEF Slots
  <1>2. q \in Nat /\ p \in Nat /\ a % c \in Slots(c)
    BY <1>1, Division
  <1>3. a = c * q + (a % c) /\ b = c * p + (a % c)
    BY <1>1, Division DEF At, Composed
  <1> HIDE DEF q, p
  <1>4. Composed(c, q, j) = Composed(c, p, i)
    <2> DEFINE x == c * q
               y == c * p
               r == a % c
    <2>1. x \in Int /\ y \in Int /\ r \in Int
      BY <1>2 DEF Slots
    <2>2. i + h[k] = x + r /\ j + h[k] = y + r
      BY <1>3
    <2> HIDE DEF x, y, r
    <2>3. x + j = y + i
      BY <1>1, <2>1, <2>2
    <2> QED
      BY <2>3 DEF x, y, Composed
  <1> QED
    BY <1>2, <1>4, Remainder

LEMMA AtAll ==
  ASSUME NEW h \in [Keys -> Nat], NEW k \in Keys, NEW c \in Nat \ {0}, NEW s \in Slots(c)
  PROVE  \E j \in Slots(c) : At(h, k, j, c) = s
  <1> DEFINE r == h[k] % c
             q == h[k] \div c
             j == IF r <= s THEN s - r ELSE (s - r) + c
             p == IF r <= s THEN q ELSE q + 1
  <1>1. h[k] \in Nat /\ r \in Slots(c) /\ q \in Nat /\ h[k] = c * q + r
    BY Division DEF Composed
  <1>2. j \in Slots(c)
    BY <1>1 DEF Slots
  <1>3. j + h[k] = Composed(c, p, s) /\ p \in Int /\ j + h[k] \in Nat
    <2>1. r \in Nat /\ s \in Nat /\ r < c
      BY <1>1 DEF Slots
    <2> HIDE DEF q, r
    <2>2. c * (q + 1) = c * q + c
      BY <1>1
    <2> QED
      BY <1>1, <2>1, <2>2 DEF Composed
  <1> HIDE DEF p, j
  <1>4. /\ Composed(c, p, s) = Composed(c, (j + h[k]) \div c, At(h, k, j, c))
        /\ (j + h[k]) \div c \in Int /\ At(h, k, j, c) \in Slots(c)
    BY <1>3, Division DEF At
  <1>5. s = At(h, k, j, c)
    BY <1>3, <1>4, Remainder
  <1> QED
    BY <1>2, <1>5
-----------------------------------------------------------------------------
(* A probe ends where there is an empty slot, and a table has one as long as it *)
(* is not more than half full.                                                  *)

LEMMA FilledTyped ==
  ASSUME NEW c \in Nat \ {0}, NEW T
  PROVE  /\ IsFiniteSet(Filled(T, c)) /\ Cardinality(Filled(T, c)) \in Nat
         /\ Cardinality(Filled(T, c)) < c => \E s \in Slots(c) : T[s] = <<>>
  <1>1. IsFiniteSet(Slots(c)) /\ Cardinality(Slots(c)) = c
    BY FS_Interval DEF Slots
  <1>2. Filled(T, c) \in SUBSET Slots(c)
    BY DEF Filled
  <1>3. IsFiniteSet(Filled(T, c)) /\ Cardinality(Filled(T, c)) \in Nat
    BY <1>1, <1>2, FS_Subset, FS_CardinalityType
  <1>4. ASSUME Cardinality(Filled(T, c)) < c
        PROVE  \E s \in Slots(c) : T[s] = <<>>
    <2>1. Filled(T, c) # Slots(c)
      BY <1>1, <1>3, <1>4
    <2> QED
      BY <2>1 DEF Filled
  <1> QED
    BY <1>3, <1>4

LEMMA ProbeEnds ==
  ASSUME hash \in [Keys -> Nat], NEW k \in Keys, NEW c \in Nat \ {0}, NEW T,
         \E s \in Slots(c) : T[s] = <<>>
  PROVE  \E i : FirstStop(hash, T, c, k, i) /\ get_slot(k, c, T) = At(hash, k, i, c)
  <1> DEFINE S == {j \in Slots(c) : Stops(k, Index(k, j, c), T)}
             First(j) == /\ Stops(k, Index(k, j, c), T)
                         /\ \A m \in Slots(c) : m < j => ~Stops(k, Index(k, m, c), T)
             i == CHOOSE j \in Slots(c) : First(j)
  <1>1. \A j : Index(k, j, c) = At(hash, k, j, c)
    BY DEF Index, At
  <1>2. S # {}
    <2>1. PICK s \in Slots(c) : T[s] = <<>>
      OBVIOUS
    <2>2. PICK j \in Slots(c) : At(hash, k, j, c) = s
      BY AtAll
    <2> QED
      BY <1>1, <2>1, <2>2 DEF Stops
  <1>3. PICK j \in S : \A m \in S : j <= m
    <2>1. S \subseteq Nat
      BY DEF Slots
    <2> QED
      BY <1>2, <2>1, LeastNat
  <1>4. j \in Slots(c) /\ First(j)
    <2>1. ASSUME NEW m \in Slots(c), m < j PROVE ~Stops(k, Index(k, m, c), T)
      <3>1. ~(j <= m)
        BY <1>3, <2>1 DEF Slots
      <3> QED
        BY <1>3, <3>1
    <2> QED
      BY <1>3, <2>1
  <1> HIDE DEF First, S
  <1>5. i \in Slots(c) /\ First(i)
    BY <1>4
  <1>6. get_slot(k, c, T) = Index(k, i, c)
    BY DEF get_slot, First
  <1> HIDE DEF i
  <1> QED
    BY <1>1, <1>5, <1>6 DEF First, FirstStop

\* A slot that holds k, unless a probe stops before it, is where it ends.
LEMMA ProbeEndsAt ==
  ASSUME hash \in [Keys -> Nat], NEW k \in Keys, NEW c \in Nat \ {0}, NEW T,
         NEW i, FirstStop(hash, T, c, k, i)
  PROVE  get_slot(k, c, T) = At(hash, k, i, c)
  <1> DEFINE First(j) == /\ Stops(k, Index(k, j, c), T)
                         /\ \A m \in Slots(c) : m < j => ~Stops(k, Index(k, m, c), T)
             x == CHOOSE j \in Slots(c) : First(j)
  <1>1. \A j : Index(k, j, c) = At(hash, k, j, c)
    BY DEF Index, At
  <1>2. i \in Slots(c) /\ First(i)
    BY <1>1 DEF FirstStop
  <1>3. get_slot(k, c, T) = Index(k, x, c)
    BY DEF get_slot
  <1>4. \A j \in Slots(c) : First(j) => j = i
    <2> SUFFICES ASSUME NEW j \in Slots(c), First(j) PROVE j = i
      OBVIOUS
    <2>1. ~(j < i) /\ ~(i < j)
      BY <1>2
    <2> QED
      BY <1>2, <2>1 DEF Slots
  <1> HIDE DEF First
  <1>5. x = i
    BY <1>2, <1>4
  <1> QED
    BY <1>1, <1>3, <1>5
-----------------------------------------------------------------------------
(* A resize, one slot after the other. *)

LEMMA Moved ==
  ASSUME capacity \in Nat, NEW cap
  PROVE  \E f : /\ resize(cap) = f[capacity]
                /\ f[0] = [s \in Slots(cap) |-> <<>>]
                /\ \A n \in 0 .. capacity - 1 : f[n + 1] = Placed(f[n], n, cap)
  <1> DEFINE Step(f, m) == [n \in 0 .. m |-> IF n = 0 THEN [s \in Slots(cap) |-> <<>>]
                                             ELSE Placed(f[n - 1], n - 1, cap)]
             Bad == {m \in Nat : ~ \E f : f = Step(f, m)}
             moved == CHOOSE f : f = Step(f, capacity)
  <1>1. ASSUME NEW m \in Bad, \A x \in Bad : m <= x PROVE FALSE
    <2>1. CASE m = 0
      <3> DEFINE f == [n \in 0 .. 0 |-> [s \in Slots(cap) |-> <<>>]]
      <3>1. f = Step(f, 0)
        OBVIOUS
      <3> QED
        BY <1>1, <2>1, <3>1
    <2>2. CASE m # 0
      <3>1. m \in Nat /\ m - 1 \in Nat /\ m - 1 \notin Bad
        <4>1. m \in Nat /\ m - 1 \in Nat /\ ~(m <= m - 1)
          BY <2>2
        <4> QED
          BY <1>1, <4>1
      <3>2. PICK f : f = Step(f, m - 1)
        BY <3>1
      <3> DEFINE g == [n \in 0 .. m |-> IF n < m THEN f[n] ELSE Placed(f[m - 1], m - 1, cap)]
      <3>3. \A n \in 0 .. m - 1 : g[n] = f[n]
        BY <3>1
      <3>4. ASSUME NEW n \in 0 .. m PROVE g[n] = Step(g, m)[n]
        <4>1. CASE n = 0
          BY <3>1, <3>2, <3>3, <4>1
        <4>2. CASE n # 0 /\ n < m
          <5>1. n - 1 \in 0 .. m - 1 /\ n \in 0 .. m - 1
            BY <3>1, <4>2
          <5>2. f[n] = Placed(f[n - 1], n - 1, cap)
            BY <3>2, <4>2, <5>1
          <5> QED
            BY <3>3, <4>2, <5>1, <5>2
        <4>3. CASE n = m
          <5>1. n - 1 \in 0 .. m - 1 /\ n # 0
            BY <3>1, <2>2, <4>3
          <5> QED
            BY <3>3, <4>3, <5>1
        <4> QED
          BY <3>1, <4>1, <4>2, <4>3
      <3>5. g = Step(g, m)
        BY <3>4
      <3> QED
        BY <1>1, <3>5
    <2> QED
      BY <2>1, <2>2
  <1>2. Bad = {}
    <2> HIDE DEF Bad
    <2>1. Bad \subseteq Nat
      BY DEF Bad
    <2> QED
      BY <1>1, <2>1, LeastNat
  <1>3. \E f : f = Step(f, capacity)
    BY <1>2
  <1>4. moved = Step(moved, capacity)
    BY <1>3
  <1>5. resize(cap) = moved[capacity]
    BY DEF resize
  <1> HIDE DEF moved
  <1>6. moved[0] = [s \in Slots(cap) |-> <<>>]
    BY <1>4
  <1>7. ASSUME NEW n \in 0 .. capacity - 1 PROVE moved[n + 1] = Placed(moved[n], n, cap)
    <2>1. n + 1 \in 0 .. capacity /\ n + 1 # 0 /\ (n + 1) - 1 = n
      OBVIOUS
    <2> QED
      BY <1>4, <2>1
  <1> QED
    BY <1>5, <1>6, <1>7
\* A table whose every slot is where a probe for its key ends.
Homed(h, table, cap) ==
  \A k \in Keys, j \in Slots(cap) :
    Of(table, At(h, k, j, cap), k) => FirstStop(h, table, cap, k, j)

LEMMA PutKeepsHomes ==
  ASSUME NEW h \in [Keys -> Nat], NEW c \in Nat \ {0}, NEW T, DOMAIN T = Slots(c),
         Homed(h, T, c), NEW k \in Keys, NEW i, FirstStop(h, T, c, k, i),
         NEW v, v # <<>>, v[1].key = k
  PROVE  Homed(h, [T EXCEPT ![At(h, k, i, c)] = v], c)
  <1> DEFINE g == At(h, k, i, c)
             T2 == [T EXCEPT ![g] = v]
  <1>1. g \in Slots(c) /\ i \in Slots(c)
    BY AtTyped DEF FirstStop
  <1>2. T2[g] = v /\ \A s \in Slots(c) : s # g => T2[s] = T[s]
    BY <1>1
  <1> HIDE DEF T2
  <1> SUFFICES ASSUME NEW l \in Keys, NEW j \in Slots(c), Of(T2, At(h, l, j, c), l)
               PROVE  FirstStop(h, T2, c, l, j)
    BY DEF Homed, T2
  <1>3. Stops(l, At(h, l, j, c), T2)
    BY DEF Of, Stops
  <1>4. CASE At(h, l, j, c) = g
    <2>1. l = k /\ j = i
      <3>1. l = k
        BY <1>2, <1>4 DEF Of
      <3> QED
        BY <1>1, <1>4, <3>1, AtOnce
    <2>2. ASSUME NEW m \in Slots(c), m < i PROVE ~Stops(k, At(h, k, m, c), T2)
      <3>1. ~Stops(k, At(h, k, m, c), T)
        BY <2>2 DEF FirstStop
      <3>2. At(h, k, m, c) \in Slots(c) /\ At(h, k, m, c) # g
        <4>1. m # i
          BY <1>1, <2>2 DEF Slots
        <4> QED
          BY <1>1, <4>1, AtOnce, AtTyped
      <3> QED
        BY <1>2, <3>1, <3>2 DEF Stops
    <2> QED
      BY <1>3, <2>1, <2>2 DEF FirstStop
  <1>5. CASE At(h, l, j, c) # g
    <2>1. FirstStop(h, T, c, l, j)
      BY <1>2, <1>5, AtTyped DEF Of, Homed
    <2>2. ASSUME NEW m \in Slots(c), m < j PROVE ~Stops(l, At(h, l, m, c), T2)
      <3>1. ~Stops(l, At(h, l, m, c), T)
        BY <2>1, <2>2 DEF FirstStop
      <3>2. CASE At(h, l, m, c) = g
        BY <1>2, <3>1, <3>2 DEF Stops, FirstStop
      <3>3. CASE At(h, l, m, c) # g
        BY <1>2, <3>1, <3>3, AtTyped DEF Stops
      <3> QED
        BY <3>2, <3>3
    <2> QED
      BY <1>3, <2>2 DEF FirstStop
  <1> QED
    BY <1>4, <1>5

\* What a resize to c slots has made of the first n.
Moves(table, n, c) ==
  /\ table \in [Slots(c) -> Seq(Entries)]
  /\ \A t \in Slots(c) : table[t] # <<>> =>
       \E s \in Slots(capacity) : s < n /\ table[t] = chain[s]
  /\ \A t, u \in Slots(c) : table[t] # <<>> /\ table[t] = table[u] => t = u
  /\ Homed(hash, table, c)
  /\ ~Split => \A s \in Slots(capacity) : s < n /\ chain[s] # <<>> =>
                 \E t \in Slots(c) : table[t] = chain[s]

LEMMA NoMoreFilled ==
  ASSUME capacity \in Nat \ {0}, NEW c \in Nat \ {0}, NEW T, NEW n, Moves(T, n, c)
  PROVE  Cardinality(Filled(T, c)) <= Cardinality(Filled(chain, capacity))
  <1> DEFINE from == [t \in Filled(T, c) |-> CHOOSE s \in Slots(capacity) : T[t] = chain[s]]
  <1>1. \A t \in Filled(T, c) : from[t] \in Slots(capacity) /\ T[t] = chain[from[t]]
    BY DEF Moves, Filled
  <1>2. from \in [Filled(T, c) -> Filled(chain, capacity)]
    BY <1>1 DEF Filled
  <1>3. \A t, u \in Filled(T, c) : from[t] = from[u] => t = u
    BY <1>1 DEF Moves, Filled
  <1>4. from \in Injection(Filled(T, c), Filled(chain, capacity))
    BY <1>2, <1>3 DEF Injection, IsInjective
  <1> QED
    BY <1>4, FilledTyped, FS_Injection

\* A slot with entries: its key, and where they are.
LEMMA HeadOf ==
  ASSUME NEW c, NEW T \in [Slots(c) -> Seq(Entries)], NEW s \in Slots(c), T[s] # <<>>
  PROVE  /\ T[s] \in Seq(Entries) /\ Len(T[s]) \in Nat \ {0} /\ DOMAIN T[s] = 1 .. Len(T[s])
         /\ 1 \in DOMAIN T[s] /\ T[s][1] \in Entries /\ T[s][1].key \in Keys
  <1>1. T[s] \in Seq(Entries) /\ Len(T[s]) \in Nat \ {0} /\ DOMAIN T[s] = 1 .. Len(T[s])
    BY EmptySeq, LenProperties
  <1>2. 1 \in DOMAIN T[s] /\ T[s][1] \in Entries
    BY <1>1, ElementOfSeq
  <1> QED
    BY <1>1, <1>2 DEF Entries

LEMMA MovesOne ==
  ASSUME SizesInv, Sound(chain, capacity, list), NEW c \in Nat, c >= capacity,
         NEW n \in Slots(capacity), NEW T, Moves(T, n, c)
  PROVE  Moves(Placed(T, n, c), n + 1, c)
  <1>1. /\ capacity \in Nat \ {0} /\ c \in Nat \ {0} /\ n \in Nat /\ hash \in [Keys -> Nat]
        /\ Cardinality(Filled(chain, capacity)) < c
    BY FilledTyped DEF SizesInv, Slots
  <1>2. CASE chain[n] = <<>>
    <2>1. Placed(T, n, c) = T
      BY <1>2 DEF Placed
    <2>2. \A s \in Slots(capacity) : chain[s] # <<>> => (s < n + 1 <=> s < n)
      BY <1>1, <1>2 DEF Slots
    <2>3. \A s \in Slots(capacity) : s < n => s < n + 1
      BY <1>1 DEF Slots
    <2> QED
      BY <2>1, <2>2, <2>3 DEF Moves
  <1>3. CASE chain[n] # <<>>
    <2> DEFINE k == chain[n][1].key
               v == chain[n]
    <2>1. v \in Seq(Entries) /\ 1 \in DOMAIN v /\ k \in Keys
      BY <1>3, HeadOf DEF Sound
    <2>2. \E s \in Slots(c) : T[s] = <<>>
      BY <1>1, NoMoreFilled, FilledTyped
    <2>3. PICK i : FirstStop(hash, T, c, k, i) /\ get_slot(k, c, T) = At(hash, k, i, c)
      BY <1>1, <2>1, <2>2, ProbeEnds
    <2> DEFINE g == At(hash, k, i, c)
               T2 == [T EXCEPT ![g] = v]
    <2>4. Placed(T, n, c) = T2
      BY <1>3, <2>3 DEF Placed
    <2>5. g \in Slots(c) /\ T \in [Slots(c) -> Seq(Entries)]
      BY <1>1, <2>1, <2>3, AtTyped DEF FirstStop, Moves
    <2>6. T2 \in [Slots(c) -> Seq(Entries)]
      BY <2>1, <2>5
    <2>7. T2[g] = v /\ \A t \in Slots(c) : t # g => T2[t] = T[t]
      BY <2>5
    <2>8. Homed(hash, T2, c)
      BY <1>1, <1>3, <2>1, <2>3, <2>5, PutKeepsHomes DEF Moves
    <2>9. \A t \in Slots(c) : T[t] # v
      <3> SUFFICES ASSUME NEW t \in Slots(c), T[t] = v PROVE FALSE
        OBVIOUS
      <3>1. PICK s \in Slots(capacity) : s < n /\ v = chain[s]
        BY <1>3 DEF Moves
      <3>2. s = n
        BY <2>1, <3>1 DEF Sound, Apart
      <3> QED
        BY <1>1, <3>1, <3>2
    <2> HIDE DEF T2, g
    <2>10. ASSUME NEW t \in Slots(c), T2[t] # <<>>
           PROVE  \E s \in Slots(capacity) : s < n + 1 /\ T2[t] = chain[s]
      <3>1. CASE t = g
        BY <1>1, <2>7, <3>1
      <3>2. CASE t # g
        <4>1. PICK s \in Slots(capacity) : s < n /\ T[t] = chain[s]
          BY <2>7, <2>10, <3>2 DEF Moves
        <4>2. s < n + 1
          BY <1>1, <4>1 DEF Slots
        <4> QED
          BY <2>7, <3>2, <4>1, <4>2
      <3> QED
        BY <3>1, <3>2
    <2>11. ASSUME NEW t \in Slots(c), NEW u \in Slots(c), T2[t] # <<>>, T2[t] = T2[u]
           PROVE  t = u
      BY <2>7, <2>9, <2>11 DEF Moves
    <2>12. ASSUME ~Split, NEW s \in Slots(capacity), s < n + 1, chain[s] # <<>>
           PROVE  \E t \in Slots(c) : T2[t] = chain[s]
      <3>1. CASE s = n
        BY <2>5, <2>7, <3>1
      <3>2. CASE s # n
        <4>1. s < n
          BY <1>1, <2>12, <3>2 DEF Slots
        <4>2. PICK t \in Slots(c) : T[t] = chain[s]
          BY <2>12, <4>1 DEF Moves
        <4>3. t # g
          <5> SUFFICES ASSUME t = g PROVE FALSE
            OBVIOUS
          <5>1. chain[s][1].key = chain[n][1].key
            BY <2>3, <2>12, <4>2 DEF FirstStop, Stops, g
          <5>2. DOMAIN chain = Slots(capacity)
            BY DEF Sound
          <5> QED
            BY <1>3, <2>12, <3>2, <5>1, <5>2 DEF Split
        <4> QED
          BY <2>7, <4>2, <4>3
      <3> QED
        BY <3>1, <3>2
    <2> QED
      BY <2>4, <2>6, <2>8, <2>10, <2>11, <2>12 DEF Moves
  <1> QED
    BY <1>2, <1>3

LEMMA MovesAll ==
  ASSUME SizesInv, Sound(chain, capacity, list), NEW c \in Nat, c >= capacity
  PROVE  Moves(resize(c), capacity, c)
  <1>1. capacity \in Nat \ {0} /\ c \in Nat \ {0}
    BY DEF SizesInv
  <1>2. PICK f : /\ resize(c) = f[capacity]
                 /\ f[0] = [s \in Slots(c) |-> <<>>]
                 /\ \A n \in 0 .. capacity - 1 : f[n + 1] = Placed(f[n], n, c)
    BY <1>1, Moved
  <1> DEFINE Bad == {n \in 0 .. capacity : ~Moves(f[n], n, c)}
  <1>3. Moves(f[0], 0, c)
    <2>1. \A t \in Slots(c) : f[0][t] = <<>>
      BY <1>2
    <2>2. f[0] \in [Slots(c) -> Seq(Entries)]
      <3>1. <<>> \in Seq(Entries)
        OBVIOUS
      <3> QED
        BY <1>2, <3>1
    <2>3. Homed(hash, f[0], c)
      BY <1>1, <2>1, AtTyped DEF Homed, Of, SizesInv
    <2>4. \A s \in Slots(capacity) : ~(s < 0)
      BY DEF Slots
    <2> QED
      BY <2>1, <2>2, <2>3, <2>4 DEF Moves
  <1>4. ASSUME NEW n \in Bad, \A x \in Bad : n <= x PROVE FALSE
    <2>1. n \in 1 .. capacity
      <3>1. n # 0
        BY <1>3
      <3> QED
        BY <1>1, <3>1
    <2>2. n - 1 \in 0 .. capacity - 1 /\ (n - 1) + 1 = n /\ n - 1 \in 0 .. capacity
      BY <1>1, <2>1
    <2>3. Moves(f[n - 1], n - 1, c)
      <3>1. ~(n <= n - 1)
        BY <2>1
      <3> QED
        BY <1>4, <2>2, <3>1
    <2>4. Moves(f[n], n, c)
      BY <1>2, <2>2, <2>3, MovesOne DEF Slots
    <2> QED
      BY <2>4
  <1>5. Bad = {}
    <2>1. Bad \subseteq Nat
      BY <1>1
    <2> HIDE DEF Bad
    <2> QED
      BY <1>4, <2>1, LeastNat
  <1> QED
    BY <1>1, <1>2, <1>5

LEMMA ResizeKeeps ==
  ASSUME SizesInv, Sound(chain, capacity, list), NEW c \in Nat, c >= capacity
  PROVE  /\ Sound(resize(c), c, list)
         /\ Cardinality(Filled(resize(c), c)) <= Cardinality(Filled(chain, capacity))
         /\ ~Split /\ Held(chain, capacity, list) /\ Sorted(chain, capacity, list)
              => Whole(hash, resize(c), c, {}, list)
  <1> DEFINE R == resize(c)
  <1>1. Moves(R, capacity, c)
    BY MovesAll
  <1>2. capacity \in Nat \ {0} /\ c \in Nat \ {0} /\ hash \in [Keys -> Nat]
    BY DEF SizesInv
  <1>3. Cardinality(Filled(R, c)) <= Cardinality(Filled(chain, capacity))
    BY <1>1, <1>2, NoMoreFilled
  <1> HIDE DEF R
  <1>4. \A t \in Slots(c) : \A n \in DOMAIN R[t] :
          \E s \in Slots(capacity) : R[t] = chain[s] /\ n \in DOMAIN chain[s]
    <2> SUFFICES ASSUME NEW t \in Slots(c), NEW n \in DOMAIN R[t]
                 PROVE  \E s \in Slots(capacity) : R[t] = chain[s]
      OBVIOUS
    <2>1. R[t] # <<>>
      OBVIOUS
    <2> QED
      BY <1>1, <2>1 DEF Moves
  <1>5. Sound(R, c, list)
    <2>1. R \in [Slots(c) -> Seq(Entries)]
      BY <1>1 DEF Moves
    <2>2. OneKey(R, c)
      BY <1>4 DEF OneKey, Sound
    <2>3. Live(R, c, list)
      BY <1>4 DEF Live, Sound
    <2>4. Apart(R, c)
      <3> SUFFICES ASSUME NEW t \in Slots(c), NEW m \in DOMAIN R[t],
                          NEW u \in Slots(c), NEW n \in DOMAIN R[u], R[t][m] = R[u][n]
                   PROVE  t = u /\ m = n
        BY DEF Apart
      <3>1. PICK s \in Slots(capacity) : R[t] = chain[s] /\ m \in DOMAIN chain[s]
        BY <1>4
      <3>2. PICK r \in Slots(capacity) : R[u] = chain[r] /\ n \in DOMAIN chain[r]
        BY <1>4
      <3>3. s = r /\ m = n
        BY <3>1, <3>2 DEF Sound, Apart
      <3>4. R[t] # <<>> /\ R[t] = R[u]
        BY <3>1, <3>2, <3>3
      <3> QED
        BY <1>1, <3>3, <3>4 DEF Moves
    <2> QED
      BY <2>1, <2>2, <2>3, <2>4 DEF Sound
  <1>6. ASSUME ~Split, Held(chain, capacity, list), Sorted(chain, capacity, list)
        PROVE  Whole(hash, R, c, {}, list)
    <2>1. Held(R, c, list)
      <3> SUFFICES ASSUME NEW i \in DOMAIN list
                   PROVE  \E t \in Slots(c) : \E n \in DOMAIN R[t] : R[t][n] = list[i]
        BY DEF Held
      <3>1. PICK s \in Slots(capacity) : \E n \in DOMAIN chain[s] : chain[s][n] = list[i]
        BY <1>6 DEF Held
      <3>2. chain[s] # <<>> /\ s < capacity
        BY <1>2, <3>1 DEF Slots
      <3>3. PICK t \in Slots(c) : R[t] = chain[s]
        BY <1>1, <1>6, <3>2 DEF Moves
      <3> QED
        BY <3>1, <3>3
    <2>2. Sorted(R, c, list)
      BY <1>4, <1>6 DEF Sorted
    <2>3. ASSUME NEW k \in Keys, NEW j \in Slots(c), Of(R, At(hash, k, j, c), k)
          PROVE  \A m \in Slots(c) : m < j =>
                   R[At(hash, k, m, c)] # <<>> /\ ~Of(R, At(hash, k, m, c), k)
      <3>1. FirstStop(hash, R, c, k, j)
        BY <1>1, <2>3 DEF Moves, Homed
      <3> QED
        BY <3>1 DEF FirstStop, Stops, Of
    <2>4. Reached(hash, R, c, {})
      BY <2>3 DEF Reached
    <2>5. Newer(hash, R, c, list)
      BY <2>3 DEF Newer
    <2> QED
      BY <2>1, <2>2, <2>4, <2>5 DEF Whole
  <1> QED
    BY <1>3, <1>5, <1>6 DEF R

\* The table that an entry is put into, whether it grew or not.
LEMMA TableIs ==
  ASSUME TableInv
  PROVE  /\ Grown \in Nat \ {0, 1} /\ Grown % 2 = 0 /\ 2 * (size + 1) <= Grown
         /\ Sound(Table, Grown, list) /\ Cardinality(Filled(Table, Grown)) <= size
         /\ Marks \subseteq {s \in Slots(Grown) : Table[s] = <<>>}
         /\ Marks \subseteq marked
         /\ ~(lost \/ (MustGrow /\ Split)) => Whole(hash, Table, Grown, Marks, list)
  <1>1. SizesInv /\ Sound(chain, capacity, list) /\ capacity \in Nat \ {0, 1} /\ size \in Nat
    BY DEF TableInv, SizesInv
  <1>2. CASE MustGrow
    <2>1. Grown = 2 * capacity /\ Marks = {} /\ Table = resize(Grown)
      BY <1>1, <1>2 DEF Grown, Marks, Table, HASHTABLE_MULTIPLIER
    <2>2. Grown \in Nat \ {0, 1} /\ Grown % 2 = 0 /\ Grown >= capacity
      BY <1>1, <2>1
    <2>3. 2 * (size + 1) <= Grown
      BY <1>1, <2>1 DEF SizesInv
    <2>4. /\ Sound(Table, Grown, list)
          /\ Cardinality(Filled(Table, Grown)) <= Cardinality(Filled(chain, capacity))
          /\ ~Split /\ Held(chain, capacity, list) /\ Sorted(chain, capacity, list)
               => Whole(hash, Table, Grown, {}, list)
      BY <1>1, <2>1, <2>2, ResizeKeeps
    <2>5. Cardinality(Filled(Table, Grown)) <= size
      <3>1. Cardinality(Filled(chain, capacity)) \in Nat /\ Cardinality(Filled(Table, Grown)) \in Nat
        BY <1>1, <2>2, FilledTyped
      <3> QED
        BY <1>1, <2>4, <3>1 DEF SizesInv
    <2> QED
      BY <1>2, <2>1, <2>2, <2>3, <2>4, <2>5 DEF TableInv, Whole
  <1>3. CASE ~MustGrow
    <2>1. Grown = capacity /\ Marks = marked /\ Table = chain
      BY <1>3 DEF Grown, Marks, Table
    <2>2. 2 * (size + 1) <= Grown
      BY <1>1, <1>3, <2>1 DEF SizesInv, MustGrow, HASHTABLE_MULTIPLIER
    <2> QED
      BY <1>1, <1>3, <2>1, <2>2 DEF TableInv, SizesInv
  <1> QED
    BY <1>2, <1>3
-----------------------------------------------------------------------------
(* A new entry, on top of the slot where the probe for its key ends. *)

LEMMA OnTop ==
  ASSUME NEW S, NEW e \in S, NEW q \in Seq(S)
  PROVE  /\ <<e>> \o q \in Seq(S) /\ Len(<<e>> \o q) = Len(q) + 1 /\ (<<e>> \o q)[1] = e
         /\ 1 \in DOMAIN (<<e>> \o q)
         /\ \A n \in DOMAIN q : n + 1 \in DOMAIN (<<e>> \o q) /\ (<<e>> \o q)[n + 1] = q[n]
         /\ \A n \in DOMAIN (<<e>> \o q) :
              \/ n = 1
              \/ n - 1 \in DOMAIN q /\ n = (n - 1) + 1 /\ (<<e>> \o q)[n] = q[n - 1]
  <1> DEFINE r == <<e>> \o q
  <1>1. Len(q) \in Nat /\ DOMAIN q = 1 .. Len(q)
    BY LenProperties
  <1>2. r \in Seq(S) /\ Len(r) = Len(q) + 1 /\ DOMAIN r = 1 .. Len(r) /\ r[1] = e
        /\ \A n \in 1 .. Len(q) + 1 : n > 1 => r[n] = q[n - 1]
    OBVIOUS
  <1> HIDE DEF r
  <1>3. \A n \in DOMAIN q : n + 1 \in DOMAIN r /\ r[n + 1] = q[n]
    BY <1>1, <1>2
  <1>4. \A n \in DOMAIN r : n = 1 \/ (n - 1 \in DOMAIN q /\ n = (n - 1) + 1 /\ r[n] = q[n - 1])
    BY <1>1, <1>2
  <1> QED
    BY <1>1, <1>2, <1>3, <1>4 DEF r

\* e goes from the table T of the list l to T2.
Inserts(h, c, T, l, k, i, e, T2) ==
  /\ h \in [Keys -> Nat] /\ c \in Nat \ {0} /\ l \in Seq(Entries) /\ k \in Keys
  /\ Sound(T, c, l) /\ Distinct(l)
  /\ e \in Entries /\ e.key = k /\ \A x \in DOMAIN l : l[x].address # e.address
  /\ FirstStop(h, T, c, k, i)
  /\ T2 = [T EXCEPT ![At(h, k, i, c)] = <<e>> \o @]

LEMMA InsertIs ==
  ASSUME NEW h, NEW c, NEW T, NEW l, NEW k, NEW i, NEW e, NEW T2,
         Inserts(h, c, T, l, k, i, e, T2)
  PROVE  LET g == At(h, k, i, c) IN
         /\ g \in Slots(c) /\ T2 \in [Slots(c) -> Seq(Entries)]
         /\ T2[g] # <<>> /\ T2[g][1] = e /\ 1 \in DOMAIN T2[g]
         /\ \A s \in Slots(c) : s # g => T2[s] = T[s]
         /\ \A n \in DOMAIN T[g] : n + 1 \in DOMAIN T2[g] /\ T2[g][n + 1] = T[g][n]
         /\ \A n \in DOMAIN T2[g] :
              n = 1 \/ (n - 1 \in DOMAIN T[g] /\ n = (n - 1) + 1 /\ T2[g][n] = T[g][n - 1])
         /\ \A n \in DOMAIN T[g] : T[g][n].key = k
         /\ \A s \in Slots(c) : \A n \in DOMAIN T[s] : T[s][n] # e
         /\ \A x \in DOMAIN l : l[x] # e
  <1> USE DEF Inserts
  <1> DEFINE g == At(h, k, i, c)
  <1>1. g \in Slots(c) /\ T \in [Slots(c) -> Seq(Entries)]
    BY AtTyped DEF FirstStop, Sound
  <1>2. T2[g] = <<e>> \o T[g] /\ T[g] \in Seq(Entries)
    BY <1>1
  <1>3. /\ T2[g] \in Seq(Entries) /\ T2[g][1] = e /\ 1 \in DOMAIN T2[g]
        /\ \A n \in DOMAIN T[g] : n + 1 \in DOMAIN T2[g] /\ T2[g][n + 1] = T[g][n]
        /\ \A n \in DOMAIN T2[g] :
             n = 1 \/ (n - 1 \in DOMAIN T[g] /\ n = (n - 1) + 1 /\ T2[g][n] = T[g][n - 1])
    BY <1>2, OnTop
  <1>4. T2[g] # <<>>
    BY <1>3
  <1>5. T2 \in [Slots(c) -> Seq(Entries)] /\ \A s \in Slots(c) : s # g => T2[s] = T[s]
    BY <1>1, <1>2, <1>3
  <1>6. \A n \in DOMAIN T[g] : T[g][n].key = k
    <2> SUFFICES ASSUME NEW n \in DOMAIN T[g] PROVE T[g][n].key = k
      OBVIOUS
    <2>1. T[g] # <<>>
      OBVIOUS
    <2> QED
      BY <1>1, <2>1 DEF FirstStop, Stops, Sound, OneKey
  <1>7. \A x \in DOMAIN l : l[x] # e
    OBVIOUS
  <1>8. \A s \in Slots(c) : \A n \in DOMAIN T[s] : T[s][n] # e
    BY <1>7 DEF Sound, Live
  <1> QED
    BY <1>1, <1>3, <1>4, <1>5, <1>6, <1>7, <1>8

LEMMA InsertSound ==
  ASSUME NEW h, NEW c, NEW T, NEW l, NEW k, NEW i, NEW e, NEW T2,
         Inserts(h, c, T, l, k, i, e, T2)
  PROVE  /\ Sound(T2, c, <<e>> \o l) /\ Distinct(<<e>> \o l)
         /\ Cardinality(Filled(T2, c)) <= Cardinality(Filled(T, c)) + 1
  <1> DEFINE g == At(h, k, i, c)
             l2 == <<e>> \o l
  <1>1. /\ g \in Slots(c) /\ T2 \in [Slots(c) -> Seq(Entries)]
        /\ T2[g] # <<>> /\ T2[g][1] = e /\ 1 \in DOMAIN T2[g]
        /\ \A s \in Slots(c) : s # g => T2[s] = T[s]
        /\ \A n \in DOMAIN T2[g] :
             n = 1 \/ (n - 1 \in DOMAIN T[g] /\ n = (n - 1) + 1 /\ T2[g][n] = T[g][n - 1])
        /\ \A n \in DOMAIN T[g] : T[g][n].key = k
        /\ \A s \in Slots(c) : \A n \in DOMAIN T[s] : T[s][n] # e
        /\ \A x \in DOMAIN l : l[x] # e
    BY InsertIs
  <1> USE DEF Inserts
  <1>2. /\ 1 \in DOMAIN l2 /\ l2[1] = e
        /\ \A n \in DOMAIN l : n + 1 \in DOMAIN l2 /\ l2[n + 1] = l[n]
        /\ \A n \in DOMAIN l2 :
             n = 1 \/ (n - 1 \in DOMAIN l /\ n = (n - 1) + 1 /\ l2[n] = l[n - 1])
    BY OnTop
  <1> HIDE DEF g, l2
  <1>3. OneKey(T2, c)
    <2> SUFFICES ASSUME NEW s \in Slots(c), NEW n \in DOMAIN T2[s]
                 PROVE  T2[s][n].key = T2[s][1].key
      BY DEF OneKey
    <2>1. CASE s = g
      BY <1>1, <2>1
    <2>2. CASE s # g
      BY <1>1, <2>2 DEF Sound, OneKey
    <2> QED
      BY <2>1, <2>2
  <1>4. Live(T2, c, l2)
    <2> SUFFICES ASSUME NEW s \in Slots(c), NEW n \in DOMAIN T2[s]
                 PROVE  \E x \in DOMAIN l2 : l2[x] = T2[s][n]
      BY DEF Live
    <2>1. CASE s = g /\ n = 1
      BY <1>1, <1>2, <2>1
    <2>2. ASSUME NEW m \in DOMAIN T[s], T2[s][n] = T[s][m]
          PROVE  \E x \in DOMAIN l2 : l2[x] = T2[s][n]
      BY <1>2, <2>2 DEF Sound, Live
    <2> QED
      BY <1>1, <2>1, <2>2
  <1>5. Apart(T2, c)
    <2>1. \A s \in Slots(c) : \A m \in DOMAIN T2[s] :
            \/ s = g /\ m = 1 /\ T2[s][m] = e
            \/ s = g /\ m # 1 /\ T2[s][m] # e /\ m - 1 \in DOMAIN T[s] /\ m = (m - 1) + 1
                     /\ T2[s][m] = T[s][m - 1]
            \/ s # g /\ T2[s][m] # e /\ m \in DOMAIN T[s] /\ T2[s][m] = T[s][m]
      BY <1>1
    <2> SUFFICES ASSUME NEW s \in Slots(c), NEW m \in DOMAIN T2[s],
                        NEW t \in Slots(c), NEW n \in DOMAIN T2[t], T2[s][m] = T2[t][n]
                 PROVE  s = t /\ m = n
      BY DEF Apart
    <2>2. CASE T2[s][m] = e
      BY <2>1, <2>2
    <2>3. CASE T2[s][m] # e
      <3> DEFINE p == IF s = g THEN m - 1 ELSE m
                 q == IF t = g THEN n - 1 ELSE n
      <3>1. p \in DOMAIN T[s] /\ T2[s][m] = T[s][p] /\ q \in DOMAIN T[t] /\ T2[t][n] = T[t][q]
        BY <2>1, <2>3
      <3>2. s = t /\ p = q
        BY <3>1 DEF Sound, Apart
      <3>3. CASE s = g
        BY <2>1, <2>3, <3>2, <3>3
      <3>4. CASE s # g
        BY <3>2, <3>4
      <3> QED
        BY <3>3, <3>4
    <2> QED
      BY <2>2, <2>3
  <1>6. Distinct(l2)
    <2> SUFFICES ASSUME NEW x \in DOMAIN l2, NEW y \in DOMAIN l2, l2[x].address = l2[y].address
                 PROVE  x = y
      BY DEF Distinct
    <2>1. CASE x = 1 \/ y = 1
      BY <1>2, <2>1
    <2>2. CASE x # 1 /\ y # 1
      <3>1. x - 1 = y - 1
        BY <1>2, <2>2 DEF Distinct
      <3> QED
        BY <1>2, <2>2, <3>1
    <2> QED
      BY <2>1, <2>2
  <1>7. Cardinality(Filled(T2, c)) <= Cardinality(Filled(T, c)) + 1
    <2> DEFINE F == Filled(T, c)
    <2>1. Filled(T2, c) = F \cup {g}
      BY <1>1 DEF Filled
    <2>2. IsFiniteSet(F) /\ Cardinality(F) \in Nat
      BY FilledTyped
    <2> HIDE DEF F
    <2>3. Cardinality(F \cup {g}) = IF g \in F THEN Cardinality(F) ELSE Cardinality(F) + 1
      BY <2>2, FS_AddElement
    <2>4. Cardinality(F \cup {g}) <= Cardinality(F) + 1
      BY <2>2, <2>3
    <2> QED
      BY <2>1, <2>4 DEF F
  <1> QED
    BY <1>1, <1>3, <1>4, <1>5, <1>6, <1>7 DEF Sound, l2

LEMMA InsertWhole ==
  ASSUME NEW h, NEW c, NEW T, NEW l, NEW k, NEW i, NEW e, NEW T2,
         Inserts(h, c, T, l, k, i, e, T2),
         NEW M, Whole(h, T, c, M, l)
  PROVE  Whole(h, T2, c, M \ {At(h, k, i, c)}, <<e>> \o l)
  <1> DEFINE g == At(h, k, i, c)
             l2 == <<e>> \o l
  <1>1. /\ g \in Slots(c) /\ T2 \in [Slots(c) -> Seq(Entries)]
        /\ T2[g] # <<>> /\ T2[g][1] = e /\ 1 \in DOMAIN T2[g]
        /\ \A s \in Slots(c) : s # g => T2[s] = T[s]
        /\ \A n \in DOMAIN T[g] : n + 1 \in DOMAIN T2[g] /\ T2[g][n + 1] = T[g][n]
        /\ \A n \in DOMAIN T2[g] :
             n = 1 \/ (n - 1 \in DOMAIN T[g] /\ n = (n - 1) + 1 /\ T2[g][n] = T[g][n - 1])
        /\ \A n \in DOMAIN T[g] : T[g][n].key = k
        /\ \A s \in Slots(c) : \A n \in DOMAIN T[s] : T[s][n] # e
        /\ \A x \in DOMAIN l : l[x] # e
    BY InsertIs
  <1> USE DEF Inserts
  <1>2. /\ 1 \in DOMAIN l2 /\ l2[1] = e /\ DOMAIN l \subseteq Nat
        /\ \A n \in DOMAIN l : n + 1 \in DOMAIN l2 /\ l2[n + 1] = l[n]
        /\ \A n \in DOMAIN l2 :
             n = 1 \/ (n - 1 \in DOMAIN l /\ n = (n - 1) + 1 /\ l2[n] = l[n - 1])
    BY OnTop
  <1> HIDE DEF g, l2
  <1>3. ASSUME NEW x, NEW y, Older(l, x, y), x # e, y # e PROVE Older(l2, x, y)
    <2> SUFFICES ASSUME NEW a \in DOMAIN l2, NEW b \in DOMAIN l2, l2[a] = x, l2[b] = y
                 PROVE  a < b
      BY DEF Older
    <2>1. /\ a - 1 \in DOMAIN l /\ l[a - 1] = x /\ b - 1 \in DOMAIN l /\ l[b - 1] = y
          /\ a = (a - 1) + 1 /\ b = (b - 1) + 1
      BY <1>2, <1>3
    <2>2. a - 1 < b - 1
      BY <1>3, <2>1 DEF Older
    <2> QED
      BY <1>2, <2>1, <2>2
  <1>4. ASSUME NEW y, y # e PROVE Older(l2, e, y)
    <2> SUFFICES ASSUME NEW a \in DOMAIN l2, NEW b \in DOMAIN l2, l2[a] = e, l2[b] = y
                 PROVE  a < b
      BY DEF Older
    <2>1. a = 1
      BY <1>1, <1>2
    <2>2. b - 1 \in DOMAIN l /\ b = (b - 1) + 1 /\ b # 1
      BY <1>2, <1>4
    <2>3. b - 1 \in 1 .. Len(l)
      BY <2>2, LenProperties
    <2> QED
      BY <2>1, <2>2, <2>3
  <1>5. Held(T2, c, l2)
    <2> SUFFICES ASSUME NEW a \in DOMAIN l2
                 PROVE  \E s \in Slots(c) : \E n \in DOMAIN T2[s] : T2[s][n] = l2[a]
      BY DEF Held
    <2>1. CASE a = 1
      BY <1>1, <1>2, <2>1
    <2>2. CASE a # 1
      <3>1. PICK s \in Slots(c) : \E n \in DOMAIN T[s] : T[s][n] = l[a - 1]
        BY <1>2, <2>2 DEF Whole, Held
      <3>2. l2[a] = l[a - 1]
        BY <1>2, <2>2
      <3>3. CASE s = g
        <4>1. PICK n \in DOMAIN T[g] : T[g][n] = l2[a]
          BY <3>1, <3>2, <3>3
        <4>2. n + 1 \in DOMAIN T2[g] /\ T2[g][n + 1] = l2[a]
          BY <1>1, <4>1
        <4> QED
          BY <1>1, <4>2
      <3>4. CASE s # g
        BY <1>1, <3>1, <3>2, <3>4
      <3> QED
        BY <3>3, <3>4
    <2> QED
      BY <2>1, <2>2
  <1>6. ASSUME NEW m \in Keys, NEW j \in Slots(c), Of(T2, At(h, m, j, c), m)
        PROVE  \/ m = k /\ j = i /\ At(h, m, j, c) = g
               \/ At(h, m, j, c) # g /\ Of(T, At(h, m, j, c), m)
    <2>1. CASE At(h, m, j, c) = g
      <3>1. m = k
        BY <1>1, <1>6, <2>1 DEF Of
      <3>2. i \in Slots(c)
        BY DEF FirstStop
      <3> QED
        BY <2>1, <3>1, <3>2, AtOnce DEF g
    <2>2. CASE At(h, m, j, c) # g
      BY <1>1, <1>6, <2>2, AtTyped DEF Of
    <2> QED
      BY <2>1, <2>2
  <1>7. Reached(h, T2, c, M \ {g})
    <2> SUFFICES ASSUME NEW m \in Keys, NEW j \in Slots(c), Of(T2, At(h, m, j, c), m),
                        NEW x \in Slots(c), x < j
                 PROVE  T2[At(h, m, x, c)] # <<>> \/ At(h, m, x, c) \in M \ {g}
      BY DEF Reached
    <2>1. At(h, m, x, c) \in Slots(c)
      BY AtTyped
    <2>2. CASE m = k /\ j = i
      <3>1. T[At(h, m, x, c)] # <<>>
        BY <2>2 DEF FirstStop, Stops
      <3> QED
        BY <1>1, <2>1, <3>1
    <2>3. CASE Of(T, At(h, m, j, c), m)
      <3>1. T[At(h, m, x, c)] # <<>> \/ At(h, m, x, c) \in M
        BY <2>3 DEF Whole, Reached
      <3> QED
        BY <1>1, <2>1, <3>1
    <2> QED
      BY <1>6, <2>2, <2>3
  <1>8. Sorted(T2, c, l2)
    <2> SUFFICES ASSUME NEW s \in Slots(c), NEW n \in DOMAIN T2[s], NEW m \in DOMAIN T2[s], m < n
                 PROVE  Older(l2, T2[s][m], T2[s][n])
      BY DEF Sorted
    <2>0. DOMAIN T2[s] = 1 .. Len(T2[s]) /\ Len(T2[s]) \in Nat
      BY <1>1, LenProperties
    <2>1. CASE s # g
      BY <1>1, <1>3, <2>1 DEF Whole, Sorted
    <2>2. CASE s = g
      <3>1. n # 1 /\ n \in Nat /\ m \in Nat
        BY <2>0
      <3>2. n - 1 \in DOMAIN T[g] /\ T2[g][n] = T[g][n - 1] /\ T2[g][n] # e
        BY <1>1, <2>2, <3>1
      <3>3. CASE m = 1
        BY <1>1, <1>4, <2>2, <3>2, <3>3
      <3>4. CASE m # 1
        <4>1. m - 1 \in DOMAIN T[g] /\ T2[g][m] = T[g][m - 1] /\ T2[g][m] # e /\ m - 1 < n - 1
          BY <1>1, <2>2, <3>1, <3>4
        <4>2. Older(l, T[g][m - 1], T[g][n - 1])
          BY <1>1, <3>2, <4>1 DEF Whole, Sorted
        <4> QED
          BY <1>3, <2>2, <3>2, <4>1, <4>2
      <3> QED
        BY <3>3, <3>4
    <2> QED
      BY <2>1, <2>2
  <1>9. Newer(h, T2, c, l2)
    <2> SUFFICES ASSUME NEW w \in Keys, NEW j \in Slots(c), Of(T2, At(h, w, j, c), w),
                        NEW x \in Slots(c), x < j, Of(T2, At(h, w, x, c), w),
                        NEW m \in DOMAIN T2[At(h, w, x, c)], NEW n \in DOMAIN T2[At(h, w, j, c)]
                 PROVE  Older(l2, T2[At(h, w, x, c)][m], T2[At(h, w, j, c)][n])
      BY DEF Newer
    <2> DEFINE s == At(h, w, x, c)
               t == At(h, w, j, c)
    <2>1. s \in Slots(c) /\ t \in Slots(c)
      BY AtTyped
    <2>2. ~(w = k /\ j = i)
      <3> SUFFICES ASSUME w = k, j = i PROVE FALSE
        OBVIOUS
      <3>1. ~Stops(k, s, T)
        BY DEF FirstStop
      <3>2. x # i
        BY DEF Slots
      <3>3. Of(T, s, k)
        BY <1>6, <3>2
      <3> QED
        BY <3>1, <3>3 DEF Stops, Of
    <2>3. t # g /\ Of(T, t, w)
      BY <1>6, <2>2
    <2>4. T2[t][n] = T[t][n] /\ n \in DOMAIN T[t] /\ T[t][n] # e
      BY <1>1, <2>1, <2>3
    <2>5. CASE s # g /\ Of(T, s, w)
      <3>1. T2[s][m] = T[s][m] /\ m \in DOMAIN T[s] /\ T[s][m] # e
        BY <1>1, <2>1, <2>5
      <3>2. Older(l, T[s][m], T[t][n])
        BY <2>3, <2>4, <2>5, <3>1 DEF Whole, Newer
      <3> QED
        BY <1>3, <2>4, <3>1, <3>2
    <2>6. CASE w = k /\ x = i /\ s = g
      <3>1. CASE m = 1
        BY <1>1, <1>4, <2>4, <2>6, <3>1
      <3>2. CASE m # 1
        <4>1. m - 1 \in DOMAIN T[g] /\ T2[s][m] = T[g][m - 1] /\ T[g][m - 1] # e
          BY <1>1, <2>6, <3>2
        <4>2. T[g] # <<>>
          BY <4>1
        <4>3. Of(T, s, w)
          BY <2>6, <4>2 DEF FirstStop, Stops, Of, g
        <4>4. Older(l, T[s][m - 1], T[t][n])
          BY <2>3, <2>4, <2>6, <4>1, <4>3 DEF Whole, Newer
        <4> QED
          BY <1>3, <2>4, <2>6, <4>1, <4>4
      <3> QED
        BY <3>1, <3>2
    <2> QED
      BY <1>6, <2>5, <2>6
  <1> QED
    BY <1>5, <1>7, <1>8, <1>9 DEF Whole, g, l2
-----------------------------------------------------------------------------
(* What a probe finds. *)

LEMMA FirstIsNewest ==
  ASSUME NEW h \in [Keys -> Nat], NEW c \in Nat \ {0}, NEW T, NEW l \in Seq(Entries), NEW M,
         Sound(T, c, l), Distinct(l), Whole(h, T, c, M, l),
         NEW k \in Keys, NEW i, FirstStop(h, T, c, k, i), At(h, k, i, c) \notin M
  PROVE  /\ T[At(h, k, i, c)] = <<>> => \A x \in DOMAIN l : l[x].key # k
         /\ T[At(h, k, i, c)] # <<>> =>
              \E a \in DOMAIN l : /\ l[a] = T[At(h, k, i, c)][1] /\ l[a].key = k
                                  /\ \A b \in DOMAIN l : l[b].key = k => a <= b
  <1> DEFINE g == At(h, k, i, c)
  <1>1. g \in Slots(c) /\ i \in Slots(c) /\ T \in [Slots(c) -> Seq(Entries)]
    BY AtTyped DEF FirstStop, Sound
  <1>2. ASSUME NEW b \in DOMAIN l, l[b].key = k
        PROVE  \E j \in Slots(c) : \E n \in DOMAIN T[At(h, k, j, c)] :
                 /\ T[At(h, k, j, c)][n] = l[b] /\ Of(T, At(h, k, j, c), k)
                 /\ At(h, k, j, c) \in Slots(c)
                 /\ j = i \/ (i < j /\ T[g] # <<>>)
    <2>1. PICK s \in Slots(c) : \E n \in DOMAIN T[s] : T[s][n] = l[b]
      BY DEF Whole, Held
    <2>2. Of(T, s, k)
      <3>1. T[s] # <<>>
        BY <2>1
      <3> QED
        BY <1>2, <2>1, <3>1 DEF Sound, OneKey, Of
    <2>3. PICK j \in Slots(c) : At(h, k, j, c) = s
      BY AtAll
    <2>4. ~(j < i)
      BY <2>2, <2>3 DEF FirstStop, Stops, Of
    <2>5. CASE j = i
      BY <2>1, <2>2, <2>3, <2>5
    <2>6. CASE i < j
      <3>1. T[g] # <<>>
        BY <1>1, <2>2, <2>3, <2>6 DEF Whole, Reached
      <3> QED
        BY <2>1, <2>2, <2>3, <2>6, <3>1
    <2>7. j = i \/ i < j
      BY <1>1, <2>4 DEF Slots
    <2> QED
      BY <2>5, <2>6, <2>7
  <1>3. ASSUME T[g] = <<>>, NEW x \in DOMAIN l PROVE l[x].key # k
    BY <1>2, <1>3 DEF Of
  <1>4. ASSUME T[g] # <<>>
        PROVE  \E a \in DOMAIN l : /\ l[a] = T[g][1] /\ l[a].key = k
                                   /\ \A b \in DOMAIN l : l[b].key = k => a <= b
    <2>1. Of(T, g, k) /\ 1 \in DOMAIN T[g] /\ DOMAIN T[g] \subseteq Nat \ {0}
      BY <1>1, <1>4, HeadOf DEF FirstStop, Stops, Of
    <2>2. PICK a \in DOMAIN l : l[a] = T[g][1]
      BY <1>1, <2>1 DEF Sound, Live
    <2>3. ASSUME NEW b \in DOMAIN l, l[b].key = k PROVE a <= b
      <3> DEFINE P(j, n) == /\ T[At(h, k, j, c)][n] = l[b] /\ Of(T, At(h, k, j, c), k)
                            /\ At(h, k, j, c) \in Slots(c)
                            /\ j = i \/ (i < j /\ T[g] # <<>>)
      <3>1. PICK j \in Slots(c) : \E n \in DOMAIN T[At(h, k, j, c)] : P(j, n)
        BY <1>2, <2>3
      <3>2. PICK n \in DOMAIN T[At(h, k, j, c)] : P(j, n)
        BY <3>1
      <3>3. DOMAIN l \subseteq Nat
        OBVIOUS
      <3>4. CASE j = i /\ n = 1
        BY <2>2, <3>2, <3>3, <3>4 DEF Distinct
      <3>5. CASE j = i /\ n # 1
        <4>1. 1 < n
          BY <2>1, <3>2, <3>5
        <4>2. Older(l, T[g][1], T[g][n])
          BY <1>1, <2>1, <3>2, <3>5, <4>1 DEF Whole, Sorted
        <4> QED
          BY <2>2, <3>2, <3>3, <3>5, <4>2 DEF Older
      <3>6. CASE i < j
        <4>1. Older(l, T[g][1], T[At(h, k, j, c)][n])
          BY <1>1, <2>1, <3>2, <3>6 DEF Whole, Newer
        <4> QED
          BY <2>2, <3>2, <3>3, <4>1 DEF Older
      <3> QED
        BY <3>2, <3>4, <3>5, <3>6
    <2> QED
      BY <2>1, <2>2, <2>3 DEF Of
  <1> QED
    BY <1>3, <1>4

\* In a table of rules no two slots hold entries of one key.
LEMMA RulesNotSplit ==
  ASSUME TableInv, use = "rules"
  PROVE  ~Split
  <1>1. Sound(chain, capacity, list) /\ RulesInv
    BY DEF TableInv
  <1> SUFFICES ASSUME NEW s \in DOMAIN chain, NEW t \in DOMAIN chain, s # t,
                      chain[s] # <<>>, chain[t] # <<>>, chain[s][1].key = chain[t][1].key
               PROVE  FALSE
    BY DEF Split
  <1>2. s \in Slots(capacity) /\ t \in Slots(capacity)
    BY <1>1 DEF Sound
  <1>3. 1 \in DOMAIN chain[s] /\ 1 \in DOMAIN chain[t]
    BY <1>1, <1>2, HeadOf DEF Sound
  <1>4. PICK i \in DOMAIN list : list[i] = chain[s][1]
    BY <1>1, <1>2, <1>3 DEF Sound, Live
  <1>5. PICK j \in DOMAIN list : list[j] = chain[t][1]
    BY <1>1, <1>2, <1>3 DEF Sound, Live
  <1>6. chain[s][1] = chain[t][1]
    BY <1>1, <1>4, <1>5 DEF RulesInv
  <1> QED
    BY <1>1, <1>2, <1>3, <1>6 DEF Sound, Apart

-----------------------------------------------------------------------------
(* The operations keep the invariant. *)

LEMMA FreshIs ==
  ASSUME SizesInv, Len(list) < MaxEntries
  PROVE  Fresh \in 1 .. MaxEntries /\ \A x \in DOMAIN list : list[x].address # Fresh
  <1>1. DOMAIN list = 1 .. Len(list) /\ Len(list) \in Nat /\ MaxEntries \in Nat
    BY HashTableAssumption DEF SizesInv
  <1>2. \E a \in 1 .. MaxEntries : \A x \in DOMAIN list : list[x].address # a
    <2> SUFFICES ASSUME \A a \in 1 .. MaxEntries : \E x \in DOMAIN list : list[x].address = a
                 PROVE  FALSE
      OBVIOUS
    <2> DEFINE at == [a \in 1 .. MaxEntries |-> CHOOSE x \in DOMAIN list : list[x].address = a]
    <2>1. \A a \in 1 .. MaxEntries : at[a] \in 1 .. Len(list) /\ list[at[a]].address = a
      BY <1>1
    <2> DEFINE S == 1 .. MaxEntries
               D == 1 .. Len(list)
    <2>2. at \in [S -> D]
      BY <2>1
    <2>3. /\ IsFiniteSet(S) /\ Cardinality(S) = MaxEntries
          /\ IsFiniteSet(D) /\ Cardinality(D) = Len(list)
      <3>1. ASSUME NEW n \in Nat PROVE IsFiniteSet(1 .. n) /\ Cardinality(1 .. n) = n
        <4>1. IsFiniteSet(1 .. n) /\ Cardinality(1 .. n) = IF 1 > n THEN 0 ELSE n - 1 + 1
          BY FS_Interval
        <4> QED
          BY <4>1
      <3> QED
        BY <1>1, <3>1
    <2> HIDE DEF at, S, D
    <2>4. \E x, y \in S : x # y /\ at[x] = at[y]
      <3>1. Cardinality(D) < Cardinality(S)
        BY <2>3
      <3> QED
        BY <2>2, <2>3, <3>1, FS_PigeonHole
    <2> QED
      BY <2>1, <2>4 DEF S
  <1> QED
    BY <1>2 DEF Fresh

LEMMA ProbeTable ==
  ASSUME TableInv, NEW k \in Keys
  PROVE  \E i : FirstStop(hash, Table, Grown, k, i) /\ get_slot(k, Grown, Table) = At(hash, k, i, Grown)
  <1>1. /\ Grown \in Nat \ {0} /\ 2 * (size + 1) <= Grown /\ size \in Nat
        /\ Cardinality(Filled(Table, Grown)) <= size /\ hash \in [Keys -> Nat]
    BY TableIs DEF TableInv, SizesInv
  <1>2. Cardinality(Filled(Table, Grown)) < Grown
    BY <1>1, FilledTyped
  <1>3. \E s \in Slots(Grown) : Table[s] = <<>>
    BY <1>1, <1>2, FilledTyped
  <1> QED
    BY <1>1, <1>3, ProbeEnds

LEMMA InsertsAt ==
  ASSUME TableInv, NEW k \in Keys, NEW v \in Values, Insert(k, v), Fits
  PROVE  LET e == Entry(k, v, Fresh) IN
         \E i : /\ Inserts(hash, Grown, Table, list, k, i, e, chain')
                /\ get_slot(k, Grown, Table) = At(hash, k, i, Grown)
                /\ marked' = Marks \ {At(hash, k, i, Grown)}
                /\ capacity' = Grown /\ list' = <<e>> \o list /\ size' = size + 1
                /\ result' = NoValue
  <1> DEFINE e == Entry(k, v, Fresh)
  <1>1. PICK i : FirstStop(hash, Table, Grown, k, i) /\ get_slot(k, Grown, Table) = At(hash, k, i, Grown)
    BY ProbeTable
  <1>2. SizesInv /\ Len(list) < MaxEntries
    BY DEF TableInv, Fits
  <1>3. Fresh \in 1 .. MaxEntries /\ \A x \in DOMAIN list : list[x].address # Fresh
    BY <1>2, FreshIs
  <1>4. e \in Entries /\ e.key = k /\ e.address = Fresh
    BY <1>3 DEF Entry, Entries
  <1>5. Sound(Table, Grown, list) /\ Grown \in Nat \ {0}
    BY TableIs
  <1>6. chain' = [Table EXCEPT ![At(hash, k, i, Grown)] = <<e>> \o @]
    BY <1>1 DEF Insert
  <1>7. Inserts(hash, Grown, Table, list, k, i, e, chain')
    BY <1>1, <1>2, <1>3, <1>4, <1>5, <1>6 DEF Inserts, SizesInv
  <1> QED
    BY <1>1, <1>7 DEF Insert

LEMMA InsertKeeps ==
  ASSUME TableInv, NEW k \in Keys, NEW v \in Values, Insert(k, v), Fits,
         lost' = (lost \/ (MustGrow /\ Split)), UNCHANGED <<use, hash, crashed>>,
         use = "rules" => Table[get_slot(k, Grown, Table)] = <<>>
  PROVE  TableInv'
  <1> DEFINE e == Entry(k, v, Fresh)
  <1>1. PICK i : /\ Inserts(hash, Grown, Table, list, k, i, e, chain')
                 /\ get_slot(k, Grown, Table) = At(hash, k, i, Grown)
                 /\ marked' = Marks \ {At(hash, k, i, Grown)}
                 /\ capacity' = Grown /\ list' = <<e>> \o list /\ size' = size + 1
                 /\ result' = NoValue
    BY InsertsAt
  <1> DEFINE g == At(hash, k, i, Grown)
  <1> HIDE DEF e
  <1>2. /\ Sound(chain', Grown, list') /\ Distinct(list')
        /\ Cardinality(Filled(chain', Grown)) <= Cardinality(Filled(Table, Grown)) + 1
    BY <1>1, InsertSound
  <1>3. SizesInv'
    <2>1. /\ Grown \in Nat \ {0, 1} /\ Grown % 2 = 0 /\ 2 * (size + 1) <= Grown /\ size \in Nat
          /\ Cardinality(Filled(Table, Grown)) <= size
          /\ Marks \subseteq {s \in Slots(Grown) : Table[s] = <<>>}
          /\ list \in Seq(Entries) /\ Len(list) < MaxEntries
      BY TableIs DEF TableInv, SizesInv, Fits
    <2>2. size' \in Nat /\ 2 * size' <= capacity'
      BY <1>1, <2>1
    <2>3. Cardinality(Filled(chain, capacity)') <= size'
      <3>1. Cardinality(Filled(chain', Grown)) \in Nat /\ Cardinality(Filled(Table, Grown)) \in Nat
        BY <2>1, FilledTyped
      <3>2. Cardinality(Filled(chain', Grown)) <= size'
        BY <1>1, <1>2, <2>1, <3>1
      <3> QED
        BY <1>1, <3>2
    <2>4. marked' \subseteq {s \in Slots(capacity') : chain'[s] = <<>>}
      <3>1. \A s \in Slots(Grown) : s # g => chain'[s] = Table[s]
        BY <1>1, InsertIs
      <3> QED
        BY <1>1, <2>1, <3>1
    <2>5. list' \in Seq(Entries) /\ Len(list') <= MaxEntries
      <3>1. e \in Entries
        BY <1>1 DEF Inserts
      <3>2. list' \in Seq(Entries) /\ Len(list') = Len(list) + 1
        BY <1>1, <2>1, <3>1, OnTop
      <3>3. MaxEntries \in Nat /\ Len(list) \in Nat
        BY <2>1, HashTableAssumption
      <3> QED
        BY <2>1, <3>2, <3>3
    <2>6. lost' \in BOOLEAN /\ result' \in Values \cup {NoValue}
      BY <1>1
    <2> QED
      BY <1>1, <1>2, <2>1, <2>2, <2>3, <2>4, <2>5, <2>6 DEF TableInv, SizesInv
  <1>4. Sound(chain', capacity', list')
    BY <1>1, <1>2
  <1>5. ASSUME ~lost' PROVE Whole(hash', chain', capacity', marked', list')
    <2>1. Whole(hash, Table, Grown, Marks, list)
      BY <1>5, TableIs
    <2> QED
      BY <1>1, <2>1, InsertWhole
  <1>6. ASSUME use' = "rules" PROVE RulesInv'
    <2>1. use = "rules" /\ RulesInv /\ ~Split
      BY <1>6, RulesNotSplit DEF TableInv
    <2>2. Marks = {} /\ marked' = {} /\ ~lost'
      BY <1>1, <2>1 DEF RulesInv, Marks
    <2>3. Table[g] = <<>>
      BY <1>1, <2>1
    <2>4. \A x \in DOMAIN list : list[x].key # k
      <3>1. Whole(hash, Table, Grown, Marks, list)
        BY <2>1, TableIs DEF RulesInv
      <3>2. /\ hash \in [Keys -> Nat] /\ Grown \in Nat \ {0} /\ list \in Seq(Entries)
            /\ Sound(Table, Grown, list) /\ Distinct(list) /\ FirstStop(hash, Table, Grown, k, i)
        BY <1>1 DEF Inserts
      <3>3. g \notin Marks
        BY <2>2
      <3> QED
        BY <2>3, <3>1, <3>2, <3>3, FirstIsNewest
    <2>5. ASSUME NEW x \in DOMAIN list', NEW y \in DOMAIN list', list'[x].key = list'[y].key
          PROVE  x = y
      <3>1. e \in Entries /\ e.key = k /\ list \in Seq(Entries)
        BY <1>1 DEF Inserts
      <3>2. /\ list'[1] = e
            /\ \A n \in DOMAIN list' :
                 n = 1 \/ (n - 1 \in DOMAIN list /\ n = (n - 1) + 1 /\ list'[n] = list[n - 1])
        BY <1>1, <3>1, OnTop
      <3>3. CASE x = 1 \/ y = 1
        BY <2>4, <2>5, <3>1, <3>2, <3>3
      <3>4. CASE x # 1 /\ y # 1
        <4>1. x - 1 = y - 1
          BY <2>1, <2>5, <3>2, <3>4 DEF RulesInv
        <4> QED
          BY <3>2, <3>4, <4>1
      <3> QED
        BY <3>3, <3>4
    <2> QED
      BY <2>2, <2>5 DEF RulesInv
  <1> QED
    BY <1>3, <1>4, <1>5, <1>6 DEF TableInv

LEMMA PushKeeps ==
  ASSUME TableInv, use = "scope", NEW k \in Keys, NEW v \in Values, hashtable_push(k, v)
  PROVE  TableInv'
  BY InsertKeeps DEF hashtable_push

LEMMA SetKeeps ==
  ASSUME TableInv, use = "rules", NEW k \in Keys, NEW v \in Values, hashtable_set(k, v)
  PROVE  TableInv'
  <1>1. CASE Table[get_slot(k, Grown, Table)] = <<>>
    BY <1>1, InsertKeeps DEF hashtable_set
  <1>2. CASE Table[get_slot(k, Grown, Table)] # <<>>
    <2>1. /\ capacity' = Grown /\ chain' = Table /\ marked' = Marks /\ result' = NoValue
          /\ UNCHANGED <<size, list, use, hash, crashed>>
          /\ lost' = (lost \/ (MustGrow /\ Split))
      BY <1>2 DEF hashtable_set
    <2>2. RulesInv /\ ~Split /\ SizesInv
      BY RulesNotSplit DEF TableInv
    <2>3. /\ Grown \in Nat \ {0, 1} /\ Grown % 2 = 0 /\ 2 * (size + 1) <= Grown /\ size \in Nat
          /\ Sound(Table, Grown, list) /\ Cardinality(Filled(Table, Grown)) <= size
          /\ Marks \subseteq {s \in Slots(Grown) : Table[s] = <<>>}
          /\ Whole(hash, Table, Grown, Marks, list) /\ Marks = {}
      BY <2>2, TableIs DEF RulesInv, Marks, SizesInv
    <2>4. SizesInv'
      BY <2>1, <2>2, <2>3 DEF SizesInv
    <2>5. RulesInv'
      BY <2>1, <2>2, <2>3 DEF RulesInv
    <2> QED
      BY <2>1, <2>3, <2>4, <2>5 DEF TableInv
  <1> QED
    BY <1>1, <1>2
-----------------------------------------------------------------------------
(* Removing the newest entry of a slot. *)

LEMMA TailIs ==
  ASSUME NEW S, NEW q \in Seq(S), q # <<>>
  PROVE  /\ Tail(q) \in Seq(S) /\ 1 \in DOMAIN q /\ Head(q) = q[1]
         /\ Tail(q) = <<>> <=> Len(q) = 1
         /\ \A n \in DOMAIN Tail(q) :
              n + 1 \in DOMAIN q /\ Tail(q)[n] = q[n + 1] /\ n \in Nat \ {0} /\ n + 1 # 1
         /\ \A n \in DOMAIN q : n # 1 => n - 1 \in DOMAIN Tail(q) /\ Tail(q)[n - 1] = q[n]
  <1>1. /\ Len(q) \in Nat \ {0} /\ DOMAIN q = 1 .. Len(q)
        /\ Tail(q) \in Seq(S) /\ Len(Tail(q)) = Len(q) - 1
        /\ \A n \in 1 .. Len(Tail(q)) : Tail(q)[n] = q[n + 1]
        /\ Head(q) = q[1]
    BY EmptySeq, HeadTailProperties
  <1> DEFINE t == Tail(q)
  <1>2. DOMAIN t = 1 .. Len(t) /\ (t = <<>> <=> Len(t) = 0)
    BY <1>1, EmptySeq
  <1> HIDE DEF t
  <1>3. \A n \in DOMAIN t : n + 1 \in DOMAIN q /\ t[n] = q[n + 1] /\ n \in Nat \ {0} /\ n + 1 # 1
    BY <1>1, <1>2 DEF t
  <1>4. \A n \in DOMAIN q : n # 1 => n - 1 \in DOMAIN t /\ t[n - 1] = q[n]
    BY <1>1, <1>2 DEF t
  <1> QED
    BY <1>1, <1>2, <1>3, <1>4 DEF t

\* A sequence without its x-th element.
Drops(S, l, x, r) ==
  /\ l \in Seq(S) /\ x \in DOMAIN l
  /\ r \in Seq(S) /\ Len(r) = Len(l) - 1
  /\ \A n \in 1 .. Len(l) - 1 : r[n] = IF n < x THEN l[n] ELSE l[n + 1]

LEMMA DropsOne ==
  ASSUME NEW S, NEW l \in Seq(S), NEW x \in DOMAIN l,
         NEW a \in Seq(S), Len(a) = x - 1, \A n \in 1 .. x - 1 : a[n] = l[n],
         NEW b \in Seq(S), Len(b) = Len(l) - x, \A n \in 1 .. Len(l) - x : b[n] = l[x + n]
  PROVE  Drops(S, l, x, a \o b)
  <1> DEFINE r == a \o b
  <1>1. Len(l) \in Nat /\ x \in 1 .. Len(l) /\ DOMAIN l = 1 .. Len(l)
    BY LenProperties
  <1>2. /\ r \in Seq(S) /\ Len(r) = Len(a) + Len(b)
        /\ \A n \in 1 .. Len(a) + Len(b) : r[n] = IF n <= Len(a) THEN a[n] ELSE b[n - Len(a)]
    BY ConcatProperties
  <1> HIDE DEF r
  <1>3. ASSUME NEW n \in 1 .. Len(l) - 1 PROVE r[n] = IF n < x THEN l[n] ELSE l[n + 1]
    <2>1. r[n] = IF n <= x - 1 THEN a[n] ELSE b[n - (x - 1)]
      <3>1. n \in 1 .. Len(a) + Len(b)
        BY <1>1
      <3> QED
        BY <1>2, <3>1
    <2>2. CASE n < x
      <3>1. n <= x - 1 /\ n \in 1 .. x - 1
        BY <1>1, <2>2
      <3>2. r[n] = a[n] /\ a[n] = l[n]
        BY <2>1, <3>1
      <3> QED
        BY <2>2, <3>2
    <2>3. CASE ~(n < x)
      <3>1. n - (x - 1) \in 1 .. Len(l) - x /\ x + (n - (x - 1)) = n + 1 /\ ~(n <= x - 1)
        BY <1>1, <2>3
      <3> QED
        BY <2>1, <2>3, <3>1
    <2> QED
      BY <2>2, <2>3
  <1>4. Len(r) = Len(l) - 1
    BY <1>1, <1>2
  <1> QED
    BY <1>2, <1>3, <1>4 DEF Drops, r

LEMMA DropsSub ==
  ASSUME NEW S, NEW l \in Seq(S), NEW x \in DOMAIN l
  PROVE  Drops(S, l, x, SubSeq(l, 1, x - 1) \o SubSeq(l, x + 1, Len(l)))
  <1> DEFINE a == SubSeq(l, 1, x - 1)
             b == SubSeq(l, x + 1, Len(l))
  <1>1. Len(l) \in Nat /\ x \in 1 .. Len(l) /\ DOMAIN l = 1 .. Len(l)
    BY LenProperties
  <1>2. a \in Seq(S) /\ Len(a) = x - 1 /\ \A n \in 1 .. x - 1 : a[n] = l[n]
    BY <1>1
  <1>3. b \in Seq(S) /\ Len(b) = Len(l) - x /\ \A n \in 1 .. Len(l) - x : b[n] = l[x + n]
    BY <1>1
  <1> HIDE DEF a, b
  <1>4. Drops(S, l, x, a \o b)
    BY <1>2, <1>3, DropsOne
  <1> QED
    BY <1>4 DEF a, b

LEMMA WithoutOne ==
  ASSUME NEW S, NEW l, NEW x, NEW r, Drops(S, l, x, r)
  PROVE  /\ \A n \in DOMAIN r : \/ n \in DOMAIN l /\ n # x /\ r[n] = l[n] /\ n < x
                                \/ n + 1 \in DOMAIN l /\ n + 1 # x /\ r[n] = l[n + 1] /\ n >= x
         /\ \A m \in DOMAIN l : m # x => \E n \in DOMAIN r : r[n] = l[m]
         /\ DOMAIN r \subseteq Nat
  <1> USE DEF Drops
  <1>1. Len(l) \in Nat /\ x \in 1 .. Len(l) /\ DOMAIN l = 1 .. Len(l)
    BY LenProperties
  <1>2. DOMAIN r = 1 .. Len(l) - 1
    BY LenProperties
  <1>3. \A n \in DOMAIN r : \/ n \in DOMAIN l /\ n # x /\ r[n] = l[n] /\ n < x
                            \/ n + 1 \in DOMAIN l /\ n + 1 # x /\ r[n] = l[n + 1] /\ n >= x
    BY <1>1, <1>2
  <1>4. ASSUME NEW m \in DOMAIN l, m # x PROVE \E n \in DOMAIN r : r[n] = l[m]
    <2>1. CASE m < x
      BY <1>1, <1>2, <2>1
    <2>2. CASE m > x
      <3>1. m - 1 \in 1 .. Len(l) - 1 /\ ~(m - 1 < x) /\ (m - 1) + 1 = m
        BY <1>1, <2>2
      <3> QED
        BY <1>2, <3>1
    <2> QED
      BY <1>1, <1>4, <2>1, <2>2
  <1> QED
    BY <1>1, <1>2, <1>3, <1>4

\* The newest entry of slot g, which is the x-th of the list l, goes from the table T;
\* T2 and l2 are what is left.
Removes(c, T, l, g, x, T2, l2) ==
  /\ c \in Nat \ {0} /\ l \in Seq(Entries)
  /\ Sound(T, c, l) /\ Distinct(l)
  /\ g \in Slots(c) /\ T[g] # <<>>
  /\ x \in DOMAIN l /\ l[x] = T[g][1]
  /\ T2 = [T EXCEPT ![g] = Tail(@)]
  /\ Drops(Entries, l, x, l2)

LEMMA RemoveIs ==
  ASSUME NEW c, NEW T, NEW l, NEW g, NEW x, NEW T2, NEW l2, Removes(c, T, l, g, x, T2, l2)
  PROVE  /\ g \in Slots(c) /\ T2 \in [Slots(c) -> Seq(Entries)]
         /\ 1 \in DOMAIN T[g] /\ T[g][1] = l[x]
         /\ T2[g] = <<>> <=> Len(T[g]) = 1
         /\ \A s \in Slots(c) : s # g => T2[s] = T[s]
         /\ \A s \in Slots(c) : \A n \in DOMAIN T2[s] :
              \/ s = g /\ n + 1 \in DOMAIN T[s] /\ T2[s][n] = T[s][n + 1] /\ n \in Nat \ {0}
              \/ s # g /\ n \in DOMAIN T[s] /\ T2[s][n] = T[s][n]
         /\ \A n \in DOMAIN T[g] : n # 1 => n - 1 \in DOMAIN T2[g] /\ T2[g][n - 1] = T[g][n]
         /\ \A s \in Slots(c) : \A n \in DOMAIN T2[s] : T2[s][n] # l[x]
         /\ l2 \in Seq(Entries) /\ Len(l2) = Len(l) - 1
         /\ \A n \in DOMAIN l2 : \/ n \in DOMAIN l /\ n # x /\ l2[n] = l[n] /\ n < x
                                 \/ n + 1 \in DOMAIN l /\ n + 1 # x /\ l2[n] = l[n + 1] /\ n >= x
         /\ \A m \in DOMAIN l : m # x => \E n \in DOMAIN l2 : l2[n] = l[m]
  <1> USE DEF Removes
  <1>1. T \in [Slots(c) -> Seq(Entries)] /\ T[g] \in Seq(Entries)
    BY DEF Sound
  <1>2. T2[g] = Tail(T[g]) /\ \A s \in Slots(c) : s # g => T2[s] = T[s]
    BY <1>1
  <1>3. /\ T2[g] \in Seq(Entries) /\ 1 \in DOMAIN T[g]
        /\ T2[g] = <<>> <=> Len(T[g]) = 1
        /\ \A n \in DOMAIN T2[g] :
             n + 1 \in DOMAIN T[g] /\ T2[g][n] = T[g][n + 1] /\ n \in Nat \ {0} /\ n + 1 # 1
        /\ \A n \in DOMAIN T[g] : n # 1 => n - 1 \in DOMAIN T2[g] /\ T2[g][n - 1] = T[g][n]
    BY <1>1, <1>2, TailIs
  <1>4. T2 \in [Slots(c) -> Seq(Entries)]
    BY <1>1, <1>2, <1>3
  <1>5. ASSUME NEW s \in Slots(c), NEW n \in DOMAIN T2[s]
        PROVE  /\ \/ s = g /\ n + 1 \in DOMAIN T[s] /\ T2[s][n] = T[s][n + 1] /\ n \in Nat \ {0}
                  \/ s # g /\ n \in DOMAIN T[s] /\ T2[s][n] = T[s][n]
               /\ T2[s][n] # l[x]
    <2>1. CASE s = g
      <3>1. n + 1 \in DOMAIN T[g] /\ T2[g][n] = T[g][n + 1] /\ n \in Nat \ {0} /\ n + 1 # 1
        BY <1>3, <2>1
      <3>2. T[g][n + 1] # T[g][1]
        BY <1>3, <3>1 DEF Sound, Apart
      <3> QED
        BY <2>1, <3>1, <3>2
    <2>2. CASE s # g
      BY <1>2, <1>3, <2>2 DEF Sound, Apart
    <2> QED
      BY <2>1, <2>2
  <1>6. /\ l2 \in Seq(Entries) /\ Len(l2) = Len(l) - 1
        /\ \A n \in DOMAIN l2 : \/ n \in DOMAIN l /\ n # x /\ l2[n] = l[n] /\ n < x
                                \/ n + 1 \in DOMAIN l /\ n + 1 # x /\ l2[n] = l[n + 1] /\ n >= x
        /\ \A m \in DOMAIN l : m # x => \E n \in DOMAIN l2 : l2[n] = l[m]
    <2>1. Drops(Entries, l, x, l2)
      OBVIOUS
    <2>2. l2 \in Seq(Entries) /\ Len(l2) = Len(l) - 1
      BY <2>1 DEF Drops
    <2> HIDE DEF Removes
    <2> QED
      BY <2>1, <2>2, WithoutOne
  <1>7. g \in Slots(c) /\ T[g][1] = l[x]
    OBVIOUS
  <1> HIDE DEF Removes
  <1> QED
    BY <1>2, <1>3, <1>4, <1>5, <1>6, <1>7
\* Where an entry that stays was before.
Before(g, s, n) == IF s = g THEN n + 1 ELSE n

LEMMA RemoveStays ==
  ASSUME NEW c, NEW T, NEW l, NEW g, NEW x, NEW T2, NEW l2, Removes(c, T, l, g, x, T2, l2)
  PROVE  /\ \A s \in Slots(c) : \A n \in DOMAIN T2[s] :
              /\ Before(g, s, n) \in DOMAIN T[s] /\ T2[s][n] = T[s][Before(g, s, n)]
              /\ n \in Nat \ {0} /\ T[s] # <<>> /\ 1 \in DOMAIN T2[s]
              /\ \E y \in DOMAIN l2 : l2[y] = T2[s][n]
         /\ \A s \in Slots(c) : T2[s] # <<>> => 1 \in DOMAIN T2[s]
  <1>1. /\ T2 \in [Slots(c) -> Seq(Entries)]
        /\ \A s \in Slots(c) : \A n \in DOMAIN T2[s] :
              \/ s = g /\ n + 1 \in DOMAIN T[s] /\ T2[s][n] = T[s][n + 1] /\ n \in Nat \ {0}
              \/ s # g /\ n \in DOMAIN T[s] /\ T2[s][n] = T[s][n]
        /\ \A s \in Slots(c) : \A n \in DOMAIN T2[s] : T2[s][n] # l[x]
        /\ \A m \in DOMAIN l : m # x => \E n \in DOMAIN l2 : l2[n] = l[m]
    BY RemoveIs
  <1>2. \A s \in Slots(c) : T2[s] # <<>> => 1 \in DOMAIN T2[s] /\ DOMAIN T2[s] = 1 .. Len(T2[s])
    BY <1>1, HeadOf
  <1>3. Live(T, c, l)
    BY DEF Removes, Sound
  <1> SUFFICES ASSUME NEW s \in Slots(c), NEW n \in DOMAIN T2[s]
               PROVE  /\ Before(g, s, n) \in DOMAIN T[s] /\ T2[s][n] = T[s][Before(g, s, n)]
                      /\ n \in Nat \ {0} /\ T[s] # <<>> /\ 1 \in DOMAIN T2[s]
                      /\ \E y \in DOMAIN l2 : l2[y] = T2[s][n]
    BY <1>2
  <1>4. Before(g, s, n) \in DOMAIN T[s] /\ T2[s][n] = T[s][Before(g, s, n)]
    BY <1>1 DEF Before
  <1>5. T2[s] # <<>> /\ T[s] # <<>>
    BY <1>4
  <1>6. n \in Nat \ {0}
    <2>1. n \in 1 .. Len(T2[s]) /\ Len(T2[s]) \in Nat
      BY <1>1, <1>2, <1>5, LenProperties
    <2> QED
      BY <2>1
  <1>7. PICK m \in DOMAIN l : l[m] = T2[s][n]
    BY <1>3, <1>4 DEF Live
  <1>8. m # x
    BY <1>1, <1>7
  <1> QED
    BY <1>1, <1>2, <1>4, <1>5, <1>6, <1>7, <1>8

LEMMA RemoveSound ==
  ASSUME NEW c, NEW T, NEW l, NEW g, NEW x, NEW T2, NEW l2, Removes(c, T, l, g, x, T2, l2)
  PROVE  /\ Sound(T2, c, l2) /\ Distinct(l2)
         /\ Filled(T2, c) = IF Len(T[g]) = 1 THEN Filled(T, c) \ {g} ELSE Filled(T, c)
         /\ g \in Filled(T, c)
  <1>1. /\ g \in Slots(c) /\ T2 \in [Slots(c) -> Seq(Entries)]
        /\ T2[g] = <<>> <=> Len(T[g]) = 1
        /\ \A s \in Slots(c) : s # g => T2[s] = T[s]
        /\ \A n \in DOMAIN l2 : \/ n \in DOMAIN l /\ n # x /\ l2[n] = l[n] /\ n < x
                                \/ n + 1 \in DOMAIN l /\ n + 1 # x /\ l2[n] = l[n + 1] /\ n >= x
    BY RemoveIs
  <1>2. \A s \in Slots(c) : \A n \in DOMAIN T2[s] :
          /\ Before(g, s, n) \in DOMAIN T[s] /\ T2[s][n] = T[s][Before(g, s, n)]
          /\ n \in Nat \ {0} /\ T[s] # <<>> /\ 1 \in DOMAIN T2[s]
          /\ \E y \in DOMAIN l2 : l2[y] = T2[s][n]
    BY RemoveStays
  <1>3. OneKey(T, c) /\ Apart(T, c) /\ Distinct(l) /\ T[g] # <<>>
    BY DEF Removes, Sound
  <1>4. OneKey(T2, c)
    <2> SUFFICES ASSUME NEW s \in Slots(c), NEW n \in DOMAIN T2[s]
                 PROVE  T2[s][n].key = T2[s][1].key
      BY DEF OneKey
    <2>1. T2[s][n].key = T[s][1].key
      BY <1>2, <1>3 DEF OneKey
    <2>2. T2[s][1].key = T[s][1].key
      BY <1>2, <1>3 DEF OneKey
    <2> QED
      BY <2>1, <2>2
  <1>5. Live(T2, c, l2)
    BY <1>2 DEF Live
  <1>6. Apart(T2, c)
    <2> SUFFICES ASSUME NEW s \in Slots(c), NEW m \in DOMAIN T2[s],
                        NEW t \in Slots(c), NEW n \in DOMAIN T2[t], T2[s][m] = T2[t][n]
                 PROVE  s = t /\ m = n
      BY DEF Apart
    <2>1. s = t /\ Before(g, s, m) = Before(g, t, n)
      <3>1. T[s][Before(g, s, m)] = T[t][Before(g, t, n)]
        BY <1>2
      <3> QED
        BY <1>2, <1>3, <3>1 DEF Apart
    <2>2. m \in Nat /\ n \in Nat
      BY <1>2
    <2> QED
      BY <2>1, <2>2 DEF Before
  <1>7. Distinct(l2)
    <2> SUFFICES ASSUME NEW y \in DOMAIN l2, NEW z \in DOMAIN l2, l2[y].address = l2[z].address
                 PROVE  y = z
      BY DEF Distinct
    <2>1. y \in Nat /\ z \in Nat /\ x \in Nat
      <3>1. l2 \in Seq(Entries) /\ l \in Seq(Entries) /\ x \in DOMAIN l
        BY DEF Removes, Drops
      <3> QED
        BY <3>1, LenProperties
    <2> DEFINE p == IF y < x THEN y ELSE y + 1
               q == IF z < x THEN z ELSE z + 1
    <2>2. p \in DOMAIN l /\ l2[y] = l[p] /\ q \in DOMAIN l /\ l2[z] = l[q]
      BY <1>1, <2>1
    <2>3. p = q
      BY <1>3, <2>2 DEF Distinct
    <2> QED
      BY <2>1, <2>3
  <1>8. Filled(T2, c) = IF Len(T[g]) = 1 THEN Filled(T, c) \ {g} ELSE Filled(T, c)
    BY <1>1, <1>3 DEF Filled
  <1>9. g \in Filled(T, c)
    BY <1>1, <1>3 DEF Filled
  <1> QED
    BY <1>1, <1>4, <1>5, <1>6, <1>7, <1>8, <1>9 DEF Sound

LEMMA RemoveWhole ==
  ASSUME NEW h \in [Keys -> Nat],
         NEW c, NEW T, NEW l, NEW g, NEW x, NEW T2, NEW l2, Removes(c, T, l, g, x, T2, l2),
         NEW M, Whole(h, T, c, M, l)
  PROVE  Whole(h, T2, c, IF Len(T[g]) = 1 THEN M \cup {g} ELSE M, l2)
  <1> DEFINE M2 == IF Len(T[g]) = 1 THEN M \cup {g} ELSE M
  <1>1. /\ g \in Slots(c) /\ T2 \in [Slots(c) -> Seq(Entries)]
        /\ T2[g] = <<>> <=> Len(T[g]) = 1
        /\ \A s \in Slots(c) : s # g => T2[s] = T[s]
        /\ \A n \in DOMAIN T[g] : n # 1 => n - 1 \in DOMAIN T2[g] /\ T2[g][n - 1] = T[g][n]
        /\ \A n \in DOMAIN l2 : \/ n \in DOMAIN l /\ n # x /\ l2[n] = l[n] /\ n < x
                                \/ n + 1 \in DOMAIN l /\ n + 1 # x /\ l2[n] = l[n + 1] /\ n >= x
        /\ T[g][1] = l[x]
    BY RemoveIs
  <1>2. /\ \A s \in Slots(c) : \A n \in DOMAIN T2[s] :
             /\ Before(g, s, n) \in DOMAIN T[s] /\ T2[s][n] = T[s][Before(g, s, n)]
             /\ n \in Nat \ {0} /\ T[s] # <<>> /\ 1 \in DOMAIN T2[s]
        /\ \A s \in Slots(c) : T2[s] # <<>> => 1 \in DOMAIN T2[s]
    BY RemoveStays
  <1>3. /\ OneKey(T, c) /\ Distinct(l) /\ c \in Nat \ {0} /\ x \in DOMAIN l
        /\ x \in Nat /\ DOMAIN l2 \subseteq Nat
    <2>1. l2 \in Seq(Entries) /\ l \in Seq(Entries) /\ x \in DOMAIN l
      BY DEF Removes, Drops
    <2> QED
      BY <2>1, LenProperties DEF Removes, Sound
  <1> HIDE DEF M2
  <1>4. ASSUME NEW e, NEW f, Older(l, e, f) PROVE Older(l2, e, f)
    <2> SUFFICES ASSUME NEW a \in DOMAIN l2, NEW b \in DOMAIN l2, l2[a] = e, l2[b] = f
                 PROVE  a < b
      BY DEF Older
    <2> DEFINE p == IF a < x THEN a ELSE a + 1
               q == IF b < x THEN b ELSE b + 1
    <2>1. p \in DOMAIN l /\ l[p] = e /\ q \in DOMAIN l /\ l[q] = f /\ a \in Nat /\ b \in Nat
      BY <1>1, <1>3
    <2>2. p < q
      BY <1>4, <2>1 DEF Older
    <2> QED
      BY <1>3, <2>1, <2>2
  <1>5. ASSUME NEW s \in Slots(c), NEW w, Of(T2, s, w) PROVE Of(T, s, w)
    <2>1. 1 \in DOMAIN T2[s] /\ T[s] # <<>>
      BY <1>2, <1>5 DEF Of
    <2>2. T2[s][1].key = T[s][1].key
      BY <1>2, <1>3, <2>1 DEF OneKey
    <2> QED
      BY <1>5, <2>1, <2>2 DEF Of
  <1>6. Held(T2, c, l2)
    <2> SUFFICES ASSUME NEW y \in DOMAIN l2
                 PROVE  \E s \in Slots(c) : \E n \in DOMAIN T2[s] : T2[s][n] = l2[y]
      BY DEF Held
    <2>1. PICK z \in DOMAIN l : z # x /\ l[z] = l2[y]
      BY <1>1
    <2>2. PICK s \in Slots(c) : \E n \in DOMAIN T[s] : T[s][n] = l[z]
      BY DEF Whole, Held
    <2>3. PICK n \in DOMAIN T[s] : T[s][n] = l[z]
      BY <2>2
    <2>4. CASE s = g
      <3>1. n # 1
        BY <1>1, <1>3, <2>1, <2>3, <2>4 DEF Distinct
      <3> QED
        BY <1>1, <2>1, <2>3, <2>4, <3>1
    <2>5. CASE s # g
      BY <1>1, <2>1, <2>3, <2>5
    <2> QED
      BY <2>4, <2>5
  <1>7. Reached(h, T2, c, M2)
    <2> SUFFICES ASSUME NEW w \in Keys, NEW j \in Slots(c), Of(T2, At(h, w, j, c), w),
                        NEW m \in Slots(c), m < j
                 PROVE  T2[At(h, w, m, c)] # <<>> \/ At(h, w, m, c) \in M2
      BY DEF Reached
    <2>1. At(h, w, m, c) \in Slots(c) /\ At(h, w, j, c) \in Slots(c)
      BY <1>3, AtTyped
    <2>2. Of(T, At(h, w, j, c), w)
      BY <1>5, <2>1
    <2>3. T[At(h, w, m, c)] # <<>> \/ At(h, w, m, c) \in M
      BY <2>2 DEF Whole, Reached
    <2> QED
      BY <1>1, <2>1, <2>3 DEF M2
  <1>8. Sorted(T2, c, l2)
    <2> SUFFICES ASSUME NEW s \in Slots(c), NEW n \in DOMAIN T2[s], NEW m \in DOMAIN T2[s], m < n
                 PROVE  Older(l2, T2[s][m], T2[s][n])
      BY DEF Sorted
    <2>1. m \in Nat /\ n \in Nat
      BY <1>2
    <2>2. Before(g, s, m) < Before(g, s, n)
      BY <2>1 DEF Before
    <2>3. Older(l, T[s][Before(g, s, m)], T[s][Before(g, s, n)])
      BY <1>2, <2>2 DEF Whole, Sorted
    <2>4. Older(l, T2[s][m], T2[s][n])
      BY <1>2, <2>3
    <2> QED
      BY <1>4, <2>4
  <1>9. Newer(h, T2, c, l2)
    <2> SUFFICES ASSUME NEW w \in Keys, NEW j \in Slots(c), Of(T2, At(h, w, j, c), w),
                        NEW i \in Slots(c), i < j, Of(T2, At(h, w, i, c), w),
                        NEW m \in DOMAIN T2[At(h, w, i, c)], NEW n \in DOMAIN T2[At(h, w, j, c)]
                 PROVE  Older(l2, T2[At(h, w, i, c)][m], T2[At(h, w, j, c)][n])
      BY DEF Newer
    <2> DEFINE s == At(h, w, i, c)
               t == At(h, w, j, c)
    <2>1. s \in Slots(c) /\ t \in Slots(c)
      BY <1>3, AtTyped
    <2>2. Of(T, s, w) /\ Of(T, t, w)
      BY <1>5, <2>1
    <2>3. /\ Before(g, s, m) \in DOMAIN T[s] /\ T2[s][m] = T[s][Before(g, s, m)]
          /\ Before(g, t, n) \in DOMAIN T[t] /\ T2[t][n] = T[t][Before(g, t, n)]
      BY <1>2, <2>1
    <2>4. Older(l, T[s][Before(g, s, m)], T[t][Before(g, t, n)])
      BY <2>2, <2>3 DEF Whole, Newer
    <2>5. Older(l, T2[s][m], T2[t][n])
      BY <2>3, <2>4
    <2> QED
      BY <1>4, <2>5
  <1> QED
    BY <1>6, <1>7, <1>8, <1>9 DEF Whole, M2

LEMMA SlotIs ==
  ASSUME TableInv
  PROVE  /\ \E s \in Slots(capacity) : chain[s] = <<>>
         /\ \A k \in Keys : \E i : /\ FirstStop(hash, chain, capacity, k, i)
                                   /\ SlotOf(k) = At(hash, k, i, capacity)
                                   /\ SlotOf(k) \in Slots(capacity)
  <1>1. /\ capacity \in Nat \ {0, 1} /\ hash \in [Keys -> Nat] /\ size \in Nat
        /\ 2 * size <= capacity /\ Cardinality(Filled(chain, capacity)) <= size
    BY DEF TableInv, SizesInv
  <1>2. Cardinality(Filled(chain, capacity)) < capacity
    BY <1>1, FilledTyped
  <1>3. \E s \in Slots(capacity) : chain[s] = <<>>
    BY <1>1, <1>2, FilledTyped
  <1>4. ASSUME NEW k \in Keys
        PROVE  \E i : /\ FirstStop(hash, chain, capacity, k, i)
                      /\ SlotOf(k) = At(hash, k, i, capacity)
                      /\ SlotOf(k) \in Slots(capacity)
    <2>1. PICK i : FirstStop(hash, chain, capacity, k, i) /\ SlotOf(k) = At(hash, k, i, capacity)
      BY <1>1, <1>3, ProbeEnds DEF SlotOf
    <2>2. At(hash, k, i, capacity) \in Slots(capacity)
      BY <1>1, <2>1, AtTyped DEF FirstStop
    <2> QED
      BY <2>1, <2>2
  <1> QED
    BY <1>3, <1>4

LEMMA RemovesAt ==
  ASSUME TableInv, NEW g \in Slots(capacity), chain[g] # <<>>,
         NEW T2, T2 = [chain EXCEPT ![g] = Tail(@)]
  PROVE  /\ \E x : Removes(capacity, chain, list, g, x, T2, Without(Head(chain[g])))
         /\ Head(chain[g]) = chain[g][1] /\ Head(chain[g]) \in Entries
  <1> DEFINE e == Head(chain[g])
             x == CHOOSE x \in DOMAIN list : list[x].address = e.address
  <1>1. /\ Sound(chain, capacity, list) /\ Distinct(list) /\ capacity \in Nat \ {0}
        /\ list \in Seq(Entries)
    BY DEF TableInv, SizesInv
  <1>2. e = chain[g][1] /\ 1 \in DOMAIN chain[g] /\ e \in Entries
    <2>1. chain \in [Slots(capacity) -> Seq(Entries)]
      BY <1>1 DEF Sound
    <2>2. 1 \in DOMAIN chain[g] /\ chain[g][1] \in Entries /\ chain[g] \in Seq(Entries)
      BY <2>1, HeadOf
    <2>3. Head(chain[g]) = chain[g][1]
      BY <2>2, TailIs
    <2> QED
      BY <2>2, <2>3
  <1>3. PICK y \in DOMAIN list : list[y] = e
    BY <1>1, <1>2 DEF Sound, Live
  <1> HIDE DEF e
  <1>4. x \in DOMAIN list /\ list[x].address = e.address
    BY <1>3
  <1>5. list[x] = e
    BY <1>1, <1>3, <1>4 DEF Distinct
  <1>6. Without(e) = SubSeq(list, 1, x - 1) \o SubSeq(list, x + 1, Len(list))
    BY DEF Without
  <1> HIDE DEF x
  <1>7. Drops(Entries, list, x, Without(e))
    BY <1>1, <1>4, <1>6, DropsSub
  <1>8. Removes(capacity, chain, list, g, x, T2, Without(e))
    BY <1>1, <1>2, <1>4, <1>5, <1>7 DEF Removes
  <1> QED
    BY <1>2, <1>8 DEF e

LEMMA RemoveKeeps ==
  ASSUME TableInv, use = "scope", NEW k \in Keys, hashtable_remove(k)
  PROVE  TableInv'
  <1> DEFINE g == SlotOf(k)
             e == Head(chain[g])
             last == Len(chain[g]) = 1
  <1>1. CASE Dereference(g)
    BY <1>1 DEF Dereference, TableInv, SizesInv, RulesInv
  <1>2. CASE /\ result' = NoValue
             /\ UNCHANGED <<use, hash, capacity, size, chain, marked, list, crashed, lost>>
    BY <1>2 DEF TableInv, SizesInv, RulesInv
  <1>3. CASE /\ chain[g] # <<>>
             /\ chain' = [chain EXCEPT ![g] = Tail(@)]
             /\ marked' = IF last THEN marked \cup {g} ELSE marked
             /\ size' = IF last THEN size - 1 ELSE size
             /\ list' = Without(e)
             /\ result' = e.value
             /\ UNCHANGED <<use, hash, capacity, crashed, lost>>
    <2>1. g \in Slots(capacity)
      BY SlotIs
    <2>2. /\ \E x : Removes(capacity, chain, list, g, x, chain', list')
          /\ e \in Entries
      BY <1>3, <2>1, RemovesAt
    <2>3. PICK x : Removes(capacity, chain, list, g, x, chain', list')
      BY <2>2
    <2>4. /\ Sound(chain', capacity, list') /\ Distinct(list')
          /\ Filled(chain', capacity) = IF last THEN Filled(chain, capacity) \ {g}
                                        ELSE Filled(chain, capacity)
          /\ g \in Filled(chain, capacity)
      BY <2>3, RemoveSound
    <2>5. /\ chain'[g] = <<>> <=> last
          /\ \A s \in Slots(capacity) : s # g => chain'[s] = chain[s]
          /\ list' \in Seq(Entries) /\ Len(list') = Len(list) - 1
      BY <2>3, RemoveIs
    <2> HIDE DEF g, e, last
    <2>6. /\ capacity \in Nat \ {0, 1} /\ size \in Nat /\ 2 * size <= capacity
          /\ Cardinality(Filled(chain, capacity)) <= size
          /\ list \in Seq(Entries) /\ Len(list) <= MaxEntries
          /\ marked \subseteq {s \in Slots(capacity) : chain[s] = <<>>}
      BY DEF TableInv, SizesInv
    <2>7. /\ size' \in Nat /\ 2 * size' <= capacity
          /\ Cardinality(Filled(chain', capacity)) <= size'
      <3> DEFINE F == Filled(chain, capacity)
                 G == Filled(chain', capacity)
      <3>1. IsFiniteSet(F) /\ Cardinality(F) \in Nat /\ Cardinality(F) <= size
        BY <2>6, FilledTyped
      <3>2. G = (IF last THEN F \ {g} ELSE F) /\ g \in F
        BY <2>4
      <3> HIDE DEF F, G
      <3>3. Cardinality(F \ {g}) = Cardinality(F) - 1 /\ Cardinality(F) # 0
        BY <3>1, <3>2, FS_RemoveElement, FS_EmptySet
      <3>4. size' \in Nat /\ 2 * size' <= capacity /\ Cardinality(G) <= size'
        BY <1>3, <2>6, <3>1, <3>2, <3>3
      <3> QED
        BY <3>4 DEF G
    <2>8. marked' \subseteq {s \in Slots(capacity) : chain'[s] = <<>>}
      BY <1>3, <2>1, <2>5, <2>6
    <2>9. Len(list') <= MaxEntries /\ result' \in Values
      <3>1. Len(list) \in Nat /\ MaxEntries \in Nat
        BY <2>6, HashTableAssumption
      <3> QED
        BY <1>3, <2>2, <2>5, <2>6, <3>1 DEF Entries
    <2>10. SizesInv'
      BY <1>3, <2>4, <2>5, <2>7, <2>8, <2>9 DEF TableInv, SizesInv
    <2>11. ASSUME ~lost' PROVE Whole(hash', chain', capacity', marked', list')
      <3>1. Whole(hash, chain, capacity, marked, list) /\ hash \in [Keys -> Nat]
        BY <1>3, <2>11 DEF TableInv, SizesInv
      <3>2. Whole(hash, chain', capacity, IF last THEN marked \cup {g} ELSE marked, list')
        BY <2>3, <3>1, RemoveWhole DEF last
      <3> QED
        BY <1>3, <3>2
    <2> QED
      BY <1>3, <2>4, <2>10, <2>11 DEF TableInv
  <1> QED
    BY <1>1, <1>2, <1>3 DEF hashtable_remove

LEMMA PopKeeps ==
  ASSUME TableInv, use = "scope", hashtable_pop
  PROVE  TableInv'
  <1>1. list # <<>> /\ list \in Seq(Entries)
    BY DEF hashtable_pop, TableInv, SizesInv
  <1>2. Head(list) \in Entries
    BY <1>1, HeadTailProperties
  <1> QED
    BY <1>2, RemoveKeeps DEF hashtable_pop, Entries

LEMMA GetKeeps ==
  ASSUME TableInv, NEW k \in Keys, hashtable_get(k)
  PROVE  TableInv'
  <1> DEFINE g == SlotOf(k)
  <1>1. CASE Dereference(g)
    BY <1>1 DEF Dereference, TableInv, SizesInv, RulesInv
  <1>2. CASE /\ result' = IF chain[g] = <<>> THEN NoValue ELSE chain[g][1].value
             /\ UNCHANGED <<use, hash, capacity, size, chain, marked, list, crashed, lost>>
    <2>1. g \in Slots(capacity) /\ chain \in [Slots(capacity) -> Seq(Entries)]
      BY SlotIs DEF TableInv, Sound
    <2>2. result' \in Values \cup {NoValue}
      BY <1>2, <2>1, HeadOf DEF Entries
    <2> QED
      BY <1>2, <2>2 DEF TableInv, SizesInv, RulesInv
  <1> QED
    BY <1>1, <1>2 DEF hashtable_get

LEMMA InitTable ==
  Init => TableInv
  <1> SUFFICES ASSUME Init PROVE TableInv
    OBVIOUS
  <1> USE DEF Init
  <1>1. capacity \in Nat \ {0, 1} /\ capacity % 2 = 0 /\ hash \in [Keys -> Nat]
        /\ use \in {"scope", "rules"} /\ MaxEntries \in Nat
    BY HashTableAssumption DEF HASHTABLE_MULTIPLIER
  <1>2. chain \in [Slots(capacity) -> Seq(Entries)] /\ \A s \in Slots(capacity) : chain[s] = <<>>
    BY EmptySeq
  <1>3. Cardinality(Filled(chain, capacity)) = 0
    <2>1. Filled(chain, capacity) = {}
      BY <1>2 DEF Filled
    <2> QED
      BY <2>1, FS_EmptySet
  <1>4. list \in Seq(Entries) /\ Len(list) = 0 /\ DOMAIN list = {}
    BY EmptySeq
  <1>5. SizesInv
    <2>1. Distinct(list)
      BY <1>4 DEF Distinct
    <2>2. crashed \in BOOLEAN /\ lost \in BOOLEAN
      OBVIOUS
    <2>3. /\ size \in Nat /\ 2 * size <= capacity /\ Cardinality(Filled(chain, capacity)) <= size
          /\ marked = {} /\ Len(list) <= MaxEntries /\ result \in Values \cup {NoValue}
      BY <1>1, <1>3, <1>4
    <2> HIDE DEF Init
    <2> QED
      BY <1>1, <1>4, <2>1, <2>2, <2>3 DEF SizesInv
  <1>6. \A s \in Slots(capacity) : DOMAIN chain[s] = {}
    BY <1>2, EmptySeq
  <1>7. Sound(chain, capacity, list)
    BY <1>2, <1>6 DEF Sound, OneKey, Live, Apart
  <1>8. Whole(hash, chain, capacity, marked, list)
    <2>1. Held(chain, capacity, list) /\ Sorted(chain, capacity, list)
      BY <1>4, <1>6 DEF Held, Sorted
    <2>2. ASSUME NEW k \in Keys, NEW j \in Slots(capacity) PROVE ~Of(chain, At(hash, k, j, capacity), k)
      BY <1>1, <1>2, AtTyped DEF Of
    <2> QED
      BY <2>1, <2>2 DEF Whole, Reached, Newer
  <1>9. RulesInv
    BY <1>4 DEF RulesInv
  <1> QED
    BY <1>5, <1>7, <1>8, <1>9 DEF TableInv

LEMMA NextTable ==
  TableInv /\ [Next]_vars => TableInv'
  <1> SUFFICES ASSUME TableInv, [Next]_vars PROVE TableInv'
    OBVIOUS
  <1>1. ASSUME use = "scope", NEW k \in Keys, NEW v \in Values, hashtable_push(k, v) PROVE TableInv'
    BY <1>1, PushKeeps
  <1>2. ASSUME use = "scope", hashtable_pop PROVE TableInv'
    BY <1>2, PopKeeps
  <1>3. ASSUME NEW k \in Keys, hashtable_get(k) PROVE TableInv'
    BY <1>3, GetKeeps
  <1>4. ASSUME use = "rules", NEW k \in Keys, NEW v \in Values, hashtable_set(k, v) PROVE TableInv'
    BY <1>4, SetKeeps
  <1>5. CASE UNCHANGED vars
    BY <1>5 DEF vars, TableInv, SizesInv, RulesInv
  <1> QED
    BY <1>1, <1>2, <1>3, <1>4, <1>5 DEF Next, ScopeNext, RulesNext

\* What is true of the table in every state (cc_common.c:552-701).
THEOREM TableInvariance == Spec => []TableInv
  BY InitTable, NextTable, PTL DEF Spec

\* The types of the table and of its entries.
THEOREM TypeCorrect == Spec => []TypeOK
  <1>1. TableInv => TypeOK
    <2> SUFFICES ASSUME TableInv PROVE TypeOK
      OBVIOUS
    <2>1. chain \in [Slots(capacity) -> Seq(Entries)]
      BY DEF TableInv, Sound
    <2>2. \A s \in Slots(capacity) : \A i \in DOMAIN chain[s] : chain[s][i] \in Entries
      BY <2>1, ElementOfSeq, LenProperties
    <2> QED
      BY <2>1, <2>2 DEF TypeOK, TableInv, SizesInv, Entries
  <1> QED
    BY <1>1, TableInvariance, PTL

\* A probe always ends: the table grows before its last empty slot is taken
\* (cc_common.c:585, 607).
THEOREM ProbesEnd == Spec => []EmptySlotLeft
  <1>1. TableInv => EmptySlotLeft
    BY SlotIs DEF EmptySlotLeft
  <1> QED
    BY <1>1, TableInvariance, PTL
-----------------------------------------------------------------------------
(* What the table is to its users. *)

\* In a table of rules the slot of a name holds its rule and nothing else.
Found ==
  \A k \in Keys, i \in DOMAIN list :
    list[i].key = k => chain[SlotOf(k)] = <<list[i]>> /\ SlotOf(k) \notin marked

LEMMA OneRule ==
  ASSUME TableInv, use = "rules"
  PROVE  Found
  <1>1. /\ Sound(chain, capacity, list) /\ Distinct(list) /\ list \in Seq(Entries)
        /\ Whole(hash, chain, capacity, {}, list)
        /\ hash \in [Keys -> Nat] /\ capacity \in Nat \ {0}
        /\ \A i, j \in DOMAIN list : list[i].key = list[j].key => i = j
    BY DEF TableInv, SizesInv, RulesInv
  <1>2. marked = {}
    BY DEF TableInv, RulesInv
  <1> SUFFICES ASSUME NEW k \in Keys, NEW i \in DOMAIN list, list[i].key = k
               PROVE  chain[SlotOf(k)] = <<list[i]>>
    BY <1>2 DEF Found
  <1>3. PICK j : /\ FirstStop(hash, chain, capacity, k, j)
                 /\ SlotOf(k) = At(hash, k, j, capacity)
                 /\ SlotOf(k) \in Slots(capacity)
    BY SlotIs
  <1> DEFINE g == SlotOf(k)
  <1>4. /\ chain[g] = <<>> => \A x \in DOMAIN list : list[x].key # k
        /\ chain[g] # <<>> =>
             \E a \in DOMAIN list : /\ list[a] = chain[g][1] /\ list[a].key = k
                                    /\ \A b \in DOMAIN list : list[b].key = k => a <= b
    BY <1>1, <1>3, FirstIsNewest
  <1> HIDE DEF g
  <1>5. chain[g] # <<>> /\ chain[g][1] = list[i] /\ g \in Slots(capacity)
    BY <1>1, <1>3, <1>4 DEF g
  <1>6. /\ chain[g] \in Seq(Entries) /\ DOMAIN chain[g] = 1 .. Len(chain[g])
        /\ Len(chain[g]) \in Nat \ {0} /\ 1 \in DOMAIN chain[g]
    BY <1>1, <1>5, HeadOf DEF Sound
  <1>7. ASSUME NEW n \in DOMAIN chain[g] PROVE n = 1
    <2>1. PICK b \in DOMAIN list : list[b] = chain[g][n]
      BY <1>1, <1>5 DEF Sound, Live
    <2>2. list[b].key = list[i].key
      BY <1>1, <1>5, <2>1 DEF Sound, OneKey
    <2>3. chain[g][n] = chain[g][1]
      BY <1>1, <1>5, <2>1, <2>2
    <2> QED
      BY <1>1, <1>5, <1>6, <2>3 DEF Sound, Apart
  <1>8. Len(chain[g]) = 1
    <2>1. ASSUME Len(chain[g]) # 1 PROVE FALSE
      <3>1. 2 \in DOMAIN chain[g]
        <4>1. \A n \in Nat \ {0} : n # 1 => 2 \in 1 .. n
          OBVIOUS
        <4> QED
          BY <1>6, <2>1, <4>1
      <3> QED
        BY <1>7, <3>1
    <2> QED
      BY <2>1
  <1>9. chain[g] = <<list[i]>>
    BY <1>5, <1>6, <1>8
  <1> QED
    BY <1>9 DEF g

\* The probe for a rule ends at the slot that holds it and nothing else
\* (cc_common.c:552-596).
THEOREM RulesAreFound == Spec => []ProbesFindTheirEntries
  <1>1. TableInv => ProbesFindTheirEntries
    <2> SUFFICES ASSUME TableInv, use = "rules", NEW i \in DOMAIN list
                 PROVE  /\ SlotOf(list[i].key) \notin marked
                        /\ chain[SlotOf(list[i].key)] = <<list[i]>>
      BY DEF ProbesFindTheirEntries
    <2>1. list[i].key \in Keys
      <3>1. list \in Seq(Entries)
        BY DEF TableInv, SizesInv
      <3>2. list[i] \in Entries
        BY <3>1, ElementOfSeq, LenProperties
      <3> QED
        BY <3>2 DEF Entries
    <2> QED
      BY <2>1, OneRule DEF Found
  <1> QED
    BY <1>1, TableInvariance, PTL

\* An operation on a table of rules keeps its rules.
LEMMA RulesExtend ==
  ASSUME TableInv, use = "rules", [Next]_vars, NEW i \in DOMAIN list
  PROVE  use' = "rules" /\ \E j \in DOMAIN list' : list'[j] = list[i]
  <1>1. ASSUME NEW k \in Keys, NEW v \in Values, hashtable_set(k, v)
        PROVE  use' = "rules" /\ \E j \in DOMAIN list' : list'[j] = list[i]
    <2>1. CASE list' = list
      BY <1>1, <2>1 DEF hashtable_set
    <2>2. CASE Insert(k, v)
      <3>1. PICK m : Inserts(hash, Grown, Table, list, k, m, Entry(k, v, Fresh), chain')
        BY <1>1, <2>2, InsertsAt DEF hashtable_set
      <3>2. Entry(k, v, Fresh) \in Entries /\ list \in Seq(Entries)
        BY <3>1 DEF Inserts
      <3>3. list' = <<Entry(k, v, Fresh)>> \o list
        BY <2>2 DEF Insert
      <3>4. i + 1 \in DOMAIN list' /\ list'[i + 1] = list[i]
        BY <3>2, <3>3, OnTop
      <3> QED
        BY <1>1, <3>4 DEF hashtable_set
    <2> QED
      BY <1>1, <2>1, <2>2 DEF hashtable_set
  <1>2. ASSUME NEW k \in Keys, hashtable_get(k) PROVE UNCHANGED <<use, list>>
    BY <1>2 DEF hashtable_get, Dereference
  <1> QED
    BY <1>1, <1>2 DEF Next, ScopeNext, RulesNext, vars

\* A rule is never lost or replaced, not by a resize and not by a second rule of the
\* same name (cc_bnf.c:55-58).
THEOREM RulesStay == Spec => FirstRuleStays
  <1> DEFINE Rules == use = "rules" => Found
  <1>0. TableInv => Rules
    BY OneRule
  <1>1. ASSUME TableInv, Rules, Rules', [Next]_vars, NEW k \in Keys, use = "rules", IsBound(k)
        PROVE  chain'[SlotOf(k)'] = chain[SlotOf(k)]
    <2>1. PICK i \in DOMAIN list : list[i].key = k
      BY <1>1 DEF IsBound
    <2>2. chain[SlotOf(k)] = <<list[i]>>
      BY <1>1, <2>1 DEF Found
    <2>3. PICK j \in DOMAIN list' : list'[j] = list[i] /\ use' = "rules"
      BY <1>1, RulesExtend
    <2>4. Found'
      BY <1>1, <2>3
    <2>5. chain'[SlotOf(k)'] = <<list'[j]>>
      BY <2>1, <2>3, <2>4 DEF Found
    <2> QED
      BY <2>2, <2>3, <2>5
  <1>2. TableInv /\ Rules /\ Rules' /\ [Next]_vars
        => [\A k \in Keys : use = "rules" /\ IsBound(k) => chain'[SlotOf(k)'] = chain[SlotOf(k)]]_vars
    BY <1>1
  <1> HIDE DEF Rules
  <1> QED
    BY <1>0, <1>2, TableInvariance, PTL DEF Spec, FirstRuleStays
-----------------------------------------------------------------------------
(* The table implements the stack of bindings. *)

Binding(e) == [key |-> e.key, value |-> e.value]
Bindings(l) == [i \in DOMAIN l |-> Binding(l[i])]

LEMMA BindingsTyped ==
  ASSUME NEW l \in Seq(Entries)
  PROVE  /\ Bindings(l) \in Seq([key : Keys, value : Values])
         /\ Len(Bindings(l)) = Len(l) /\ DOMAIN Bindings(l) = 1 .. Len(l) /\ Len(l) \in Nat
         /\ \A i \in 1 .. Len(l) : Bindings(l)[i] = Binding(l[i])
  <1>1. Len(l) \in Nat /\ DOMAIN l = 1 .. Len(l) /\ \A i \in 1 .. Len(l) : l[i] \in Entries
    BY LenProperties, ElementOfSeq
  <1>2. \A i \in 1 .. Len(l) : Binding(l[i]) \in [key : Keys, value : Values]
    BY <1>1 DEF Binding, Entries
  <1>3. Bindings(l) = [i \in 1 .. Len(l) |-> Binding(l[i])]
    BY <1>1 DEF Bindings
  <1> QED
    BY <1>1, <1>2, <1>3

LEMMA BindingsPushed ==
  ASSUME NEW l \in Seq(Entries), NEW e \in Entries
  PROVE  Bindings(<<e>> \o l) = <<Binding(e)>> \o Bindings(l)
  <1> DEFINE B == [key : Keys, value : Values]
             p == <<e>> \o l
             q == <<Binding(e)>> \o Bindings(l)
  <1>1. /\ p \in Seq(Entries) /\ Len(p) = Len(l) + 1 /\ p[1] = e
        /\ \A n \in DOMAIN p : n = 1 \/ (n - 1 \in DOMAIN l /\ n = (n - 1) + 1 /\ p[n] = l[n - 1])
    BY OnTop
  <1>2. /\ Bindings(l) \in Seq(B) /\ Len(Bindings(l)) = Len(l) /\ DOMAIN Bindings(l) = 1 .. Len(l)
        /\ DOMAIN l = 1 .. Len(l) /\ \A i \in 1 .. Len(l) : Bindings(l)[i] = Binding(l[i])
    BY BindingsTyped, LenProperties
  <1>3. Binding(e) \in B
    BY DEF Binding, Entries
  <1>4. /\ q \in Seq(B) /\ Len(q) = Len(Bindings(l)) + 1 /\ q[1] = Binding(e)
        /\ \A n \in DOMAIN q : \/ n = 1
                               \/ /\ n - 1 \in DOMAIN Bindings(l) /\ n = (n - 1) + 1
                                  /\ q[n] = Bindings(l)[n - 1]
    BY <1>2, <1>3, OnTop
  <1> HIDE DEF p, q
  <1>5. /\ Bindings(p) \in Seq(B) /\ Len(Bindings(p)) = Len(p) /\ Len(p) \in Nat
        /\ DOMAIN p = 1 .. Len(p) /\ \A i \in 1 .. Len(p) : Bindings(p)[i] = Binding(p[i])
    BY <1>1, BindingsTyped, LenProperties
  <1>6. DOMAIN q = 1 .. Len(p) /\ Len(q) = Len(p)
    BY <1>1, <1>2, <1>4, LenProperties
  <1>7. ASSUME NEW n \in 1 .. Len(p) PROVE Bindings(p)[n] = q[n]
    <2>1. CASE n = 1
      BY <1>1, <1>4, <1>5, <2>1
    <2>2. CASE n # 1
      BY <1>1, <1>2, <1>4, <1>5, <1>6, <2>2
    <2> QED
      BY <2>1, <2>2
  <1>8. Bindings(p) = q
    BY <1>4, <1>5, <1>6, <1>7, SeqEqual
  <1> QED
    BY <1>8 DEF p, q

LEMMA BindingsPopped ==
  ASSUME NEW l, NEW r, Drops(Entries, l, 1, r)
  PROVE  /\ Bindings(r) = Tail(Bindings(l)) /\ Bindings(l) # <<>>
         /\ Head(Bindings(l)) = Binding(l[1])
  <1> DEFINE B == [key : Keys, value : Values]
             t == Tail(Bindings(l))
  <1>1. /\ l \in Seq(Entries) /\ r \in Seq(Entries) /\ 1 \in DOMAIN l /\ Len(r) = Len(l) - 1
        /\ \A n \in 1 .. Len(l) - 1 : r[n] = IF n < 1 THEN l[n] ELSE l[n + 1]
    BY DEF Drops
  <1>2. /\ Bindings(l) \in Seq(B) /\ Len(Bindings(l)) = Len(l) /\ DOMAIN Bindings(l) = 1 .. Len(l)
        /\ Len(l) \in Nat /\ \A i \in 1 .. Len(l) : Bindings(l)[i] = Binding(l[i])
        /\ Bindings(r) \in Seq(B) /\ Len(Bindings(r)) = Len(r) /\ DOMAIN Bindings(r) = 1 .. Len(r)
        /\ \A i \in 1 .. Len(r) : Bindings(r)[i] = Binding(r[i])
    BY <1>1, BindingsTyped
  <1>3. 1 \in 1 .. Len(l) /\ Bindings(l) # <<>>
    BY <1>1, <1>2, LenProperties, EmptySeq
  <1>4. /\ t \in Seq(B) /\ Len(t) = Len(l) - 1 /\ Head(Bindings(l)) = Bindings(l)[1]
        /\ \A n \in 1 .. Len(t) : t[n] = Bindings(l)[n + 1]
    BY <1>2, <1>3, HeadTailProperties
  <1> HIDE DEF t
  <1>5. ASSUME NEW n \in 1 .. Len(l) - 1 PROVE Bindings(r)[n] = t[n]
    <2>1. n \in 1 .. Len(r) /\ n + 1 \in 1 .. Len(l) /\ ~(n < 1)
      BY <1>1, <1>2
    <2>2. r[n] = l[n + 1]
      BY <1>1, <2>1
    <2> QED
      BY <1>1, <1>2, <1>4, <2>1, <2>2
  <1>6. Bindings(r) = t
    BY <1>1, <1>2, <1>4, <1>5, SeqEqual
  <1> QED
    BY <1>2, <1>3, <1>4, <1>6 DEF t

LEMMA StackIs ==
  Stack!stack = <<Bindings(list), result>>
  BY DEF Stack!stack, Bindings, Binding

\* What a probe of the table finds for k is the newest binding of k.
LEMMA FindsNewest ==
  ASSUME TableInv, ~lost, NEW k \in Keys, SlotOf(k) \notin marked
  PROVE  /\ Stack!Newest(k) = IF chain[SlotOf(k)] = <<>> THEN NoValue
                              ELSE chain[SlotOf(k)][1].value
         /\ chain[SlotOf(k)] = <<>> => \A x \in DOMAIN list : list[x].key # k
         /\ chain[SlotOf(k)] # <<>> =>
              \E a \in DOMAIN list : /\ list[a] = chain[SlotOf(k)][1]
                                     /\ \A b \in DOMAIN list : list[b].key = k => a <= b
  <1> DEFINE g == SlotOf(k)
  <1>1. /\ Sound(chain, capacity, list) /\ Distinct(list) /\ list \in Seq(Entries)
        /\ Whole(hash, chain, capacity, marked, list)
        /\ hash \in [Keys -> Nat] /\ capacity \in Nat \ {0}
    BY DEF TableInv, SizesInv
  <1>2. PICK f : FirstStop(hash, chain, capacity, k, f) /\ SlotOf(k) = At(hash, k, f, capacity)
    BY SlotIs
  <1>3. /\ chain[g] = <<>> => \A x \in DOMAIN list : list[x].key # k
        /\ chain[g] # <<>> =>
             \E a \in DOMAIN list : /\ list[a] = chain[g][1] /\ list[a].key = k
                                    /\ \A b \in DOMAIN list : list[b].key = k => a <= b
    BY <1>1, <1>2, FirstIsNewest
  <1> HIDE DEF g
  <1> DEFINE N == {i \in DOMAIN list : list[i].key = k}
             b == [i \in DOMAIN list |-> [key |-> list[i].key, value |-> list[i].value]]
  <1>4. Stack!Newest(k) = IF N = {} THEN NoValue
                          ELSE b[CHOOSE i \in N : \A j \in N : i <= j].value
    <2>1. Stack!Named(k) = N
      BY DEF Stack!Named
    <2> QED
      BY <2>1 DEF Stack!Newest
  <1>5. CASE chain[g] = <<>>
    BY <1>3, <1>4, <1>5 DEF g
  <1>6. CASE chain[g] # <<>>
    <2>1. PICK a \in DOMAIN list : /\ list[a] = chain[g][1] /\ list[a].key = k
                                   /\ \A c \in DOMAIN list : list[c].key = k => a <= c
      BY <1>3, <1>6
    <2>2. DOMAIN list \subseteq Nat
      BY <1>1, LenProperties
    <2>3. a \in N /\ \A j \in N : a <= j
      BY <2>1
    <2>4. \A i \in N : (\A j \in N : i <= j) => i = a
      BY <2>2, <2>3
    <2> DEFINE y == CHOOSE i \in N : \A j \in N : i <= j
    <2>5. y \in N /\ \A j \in N : y <= j
      BY <2>3
    <2>6. y = a
      BY <2>4, <2>5
    <2>7. b[a].value = list[a].value
      OBVIOUS
    <2> HIDE DEF y, b
    <2>8. Stack!Newest(k) = b[y].value
      BY <1>4, <2>3 DEF y
    <2> QED
      BY <1>6, <2>1, <2>6, <2>7, <2>8 DEF g
  <1> QED
    BY <1>5, <1>6

LEMMA PushIsPush ==
  ASSUME TableInv, NEW k \in Keys, NEW v \in Values, Insert(k, v), Fits
  PROVE  Stack!Push(k, v)
  <1> DEFINE e == Entry(k, v, Fresh)
  <1>1. PICK i : Inserts(hash, Grown, Table, list, k, i, e, chain')
    BY InsertsAt
  <1>2. e \in Entries /\ list \in Seq(Entries)
    BY <1>1 DEF Inserts
  <1>3. list' = <<e>> \o list /\ result' = NoValue
    BY DEF Insert
  <1>4. Binding(e) = [key |-> k, value |-> v]
    BY DEF Binding, Entry
  <1> HIDE DEF e
  <1>5. Bindings(list') = <<[key |-> k, value |-> v]>> \o Bindings(list)
    BY <1>2, <1>3, <1>4, BindingsPushed
  <1> QED
    BY <1>3, <1>5 DEF Stack!Push, Bindings, Binding

LEMMA RefusalIsRefusal ==
  ASSUME TableInv, NEW k \in Keys, Table[get_slot(k, Grown, Table)] # <<>>,
         result' = NoValue, UNCHANGED list
  PROVE  Stack!Refuse(k)
  <1>1. PICK i : FirstStop(hash, Table, Grown, k, i) /\ get_slot(k, Grown, Table) = At(hash, k, i, Grown)
    BY ProbeTable
  <1> DEFINE g == At(hash, k, i, Grown)
  <1>2. Sound(Table, Grown, list) /\ Grown \in Nat \ {0} /\ hash \in [Keys -> Nat]
    BY TableIs DEF TableInv, SizesInv
  <1>3. g \in Slots(Grown) /\ Table[g] # <<>> /\ Table[g][1].key = k
    BY <1>1, <1>2, AtTyped DEF FirstStop, Stops
  <1>4. 1 \in DOMAIN Table[g]
    BY <1>2, <1>3, HeadOf DEF Sound
  <1>5. PICK x \in DOMAIN list : list[x] = Table[g][1]
    BY <1>2, <1>3, <1>4 DEF Sound, Live
  <1>6. x \in Stack!Named(k)
    BY <1>3, <1>5 DEF Stack!Named
  <1> QED
    BY <1>6 DEF Stack!Refuse

LEMMA GetIsGet ==
  ASSUME TableInv, ~lost, NEW k \in Keys, hashtable_get(k)
  PROVE  Stack!Get(k) \/ UNCHANGED Stack!stack
  <1>1. CASE Dereference(SlotOf(k))
    BY <1>1 DEF Dereference, Stack!stack
  <1>2. CASE /\ SlotOf(k) \notin marked
             /\ result' = IF chain[SlotOf(k)] = <<>> THEN NoValue ELSE chain[SlotOf(k)][1].value
             /\ UNCHANGED list
    <2>1. result' = Stack!Newest(k)
      BY <1>2, FindsNewest
    <2> QED
      BY <1>2, <2>1 DEF Stack!Get
  <1> QED
    BY <1>1, <1>2 DEF hashtable_get

LEMMA PopIsPop ==
  ASSUME TableInv, ~lost, hashtable_pop
  PROVE  Stack!Pop \/ UNCHANGED Stack!stack
  <1> DEFINE k == Head(list).key
             g == SlotOf(k)
             e == Head(chain[g])
  <1>1. /\ list # <<>> /\ list \in Seq(Entries) /\ Distinct(list)
        /\ marked \subseteq {s \in Slots(capacity) : chain[s] = <<>>}
    BY DEF hashtable_pop, TableInv, SizesInv
  <1>2. 1 \in DOMAIN list /\ Head(list) = list[1] /\ DOMAIN list \subseteq Nat \ {0} /\ k \in Keys
    <2>1. 1 \in DOMAIN list /\ Head(list) = list[1] /\ DOMAIN list \subseteq Nat \ {0}
      BY <1>1, TailIs, LenProperties
    <2>2. list[1] \in Entries
      BY <1>1, <2>1, LenProperties, ElementOfSeq
    <2> QED
      BY <2>1, <2>2 DEF Entries
  <1>3. k = list[1].key
    BY <1>2
  <1> HIDE DEF k
  <1>4. /\ g \in Slots(capacity)
        /\ g \notin marked => /\ chain[g] = <<>> => \A x \in DOMAIN list : list[x].key # k
                              /\ chain[g] # <<>> =>
                                   \E a \in DOMAIN list :
                                     /\ list[a] = chain[g][1]
                                     /\ \A b \in DOMAIN list : list[b].key = k => a <= b
    BY <1>2, SlotIs, FindsNewest
  <1>5. CASE Dereference(g)
    BY <1>5 DEF Dereference, Stack!stack
  <1>6. CASE g \notin marked /\ chain[g] = <<>>
    BY <1>2, <1>3, <1>4, <1>6
  <1>7. CASE /\ chain[g] # <<>>
             /\ chain' = [chain EXCEPT ![g] = Tail(@)]
             /\ list' = Without(e)
             /\ result' = e.value
    <2>1. g \notin marked
      BY <1>1, <1>7
    <2>2. /\ \E x : Removes(capacity, chain, list, g, x, chain', list')
          /\ e = chain[g][1]
      BY <1>4, <1>7, RemovesAt
    <2>3. PICK x : Removes(capacity, chain, list, g, x, chain', list')
      BY <2>2
    <2>4. x \in DOMAIN list /\ list[x] = chain[g][1] /\ Drops(Entries, list, x, list')
      BY <2>3 DEF Removes
    <2>5. PICK a \in DOMAIN list : /\ list[a] = chain[g][1]
                                   /\ \A b \in DOMAIN list : list[b].key = k => a <= b
      BY <1>4, <1>7, <2>1
    <2>6. a = 1
      BY <1>2, <1>3, <2>5
    <2>7. x = 1
      BY <1>1, <1>2, <2>4, <2>5, <2>6 DEF Distinct
    <2>8. /\ Bindings(list') = Tail(Bindings(list)) /\ Bindings(list) # <<>>
          /\ Head(Bindings(list)) = Binding(list[1])
      BY <2>4, <2>7, BindingsPopped
    <2>9. result' = Head(Bindings(list)).value
      BY <1>7, <2>2, <2>5, <2>6, <2>8 DEF Binding
    <2> QED
      BY <2>8, <2>9 DEF Stack!Pop, Bindings, Binding
  <1>8. hashtable_remove(k)
    BY DEF hashtable_pop, k
  <1> QED
    BY <1>5, <1>6, <1>7, <1>8 DEF hashtable_remove

\* To its users the table is a stack of bindings: every operation is one of
\* BindingStack's and returns what that returns, or crashes without an answer, as long
\* as no resize met the entries of one key in two slots (cc_common.c:623-701).
THEOREM StackImplemented == Spec => ImplementsStack
  <1>1. Init => Stack!Init
    <2> SUFFICES ASSUME Init PROVE Stack!Init
      OBVIOUS
    <2>1. list = <<>> /\ result = NoValue
      BY DEF Init
    <2>2. Bindings(list) = <<>>
      <3>1. list \in Seq(Entries) /\ Len(list) = 0
        BY <2>1, EmptySeq
      <3> QED
        BY <3>1, BindingsTyped, EmptySeq
    <2> QED
      BY <2>1, <2>2 DEF Stack!Init, Bindings, Binding
  <1>2. TableInv /\ [Next]_vars => [lost' \/ Stack!Next]_(Stack!stack)
    <2> SUFFICES ASSUME TableInv, [Next]_vars, ~lost'
                 PROVE  Stack!Next \/ UNCHANGED Stack!stack
      OBVIOUS
    <2>1. ASSUME NEW k \in Keys, NEW v \in Values, hashtable_push(k, v) PROVE Stack!Next
      <3>1. Stack!Push(k, v)
        BY <2>1, PushIsPush DEF hashtable_push
      <3> QED
        BY <3>1 DEF Stack!Next
    <2>2. ASSUME hashtable_pop PROVE Stack!Next \/ UNCHANGED Stack!stack
      <3>1. ~lost
        BY <2>2 DEF hashtable_pop, hashtable_remove, Dereference
      <3> QED
        BY <2>2, <3>1, PopIsPop DEF Stack!Next
    <2>3. ASSUME NEW k \in Keys, hashtable_get(k) PROVE Stack!Next \/ UNCHANGED Stack!stack
      <3>1. ~lost
        BY <2>3 DEF hashtable_get, Dereference
      <3> QED
        BY <2>3, <3>1, GetIsGet DEF Stack!Next
    <2>4. ASSUME NEW k \in Keys, NEW v \in Values, hashtable_set(k, v) PROVE Stack!Next
      <3>1. CASE Insert(k, v)
        <4>1. Stack!Push(k, v)
          BY <2>4, <3>1, PushIsPush DEF hashtable_set
        <4> QED
          BY <4>1 DEF Stack!Next
      <3>2. CASE /\ Table[get_slot(k, Grown, Table)] # <<>>
                 /\ result' = NoValue /\ UNCHANGED list
        <4>1. Stack!Refuse(k)
          BY <3>2, RefusalIsRefusal
        <4> QED
          BY <4>1 DEF Stack!Next
      <3> QED
        BY <2>4, <3>1, <3>2 DEF hashtable_set
    <2>5. CASE UNCHANGED vars
      BY <2>5 DEF vars, Stack!stack
    <2> QED
      BY <2>1, <2>2, <2>3, <2>4, <2>5 DEF Next, ScopeNext, RulesNext
  <1> QED
    BY <1>1, <1>2, TableInvariance, PTL DEF Spec, ImplementsStack
=============================================================================
