------------------------------ MODULE HashTable -----------------------------
(***************************************************************************)
(* The hash table of cc_common.c:515-701: open addressing with linear      *)
(* probing, tombstones, and in every slot a stack of the entries of one    *)
(* key; all entries are also on a list, the newest at its head.            *)
(*                                                                         *)
(* A table is used in one of two ways: as the scope of the evaluator       *)
(* (push, pop, get) or as the rules of a grammar (set, get).  The hash     *)
(* function is any function from keys to numbers.                          *)
(***************************************************************************)
EXTENDS Integers, Sequences

CONSTANTS
  Keys, Values, NoValue,
  Uses,          \* the uses to consider, of "scope" and "rules"
  Hashes,        \* the hash functions to consider, [Keys -> Nat]
  InitCap,       \* the cap given to hashtable_init
  MaxCapacity,   \* bound: no operation that would grow the table beyond it
  MaxEntries     \* bound: the entries alive at a time

HASHTABLE_MULTIPLIER == 2

ASSUME HashTableAssumption ==
  /\ InitCap \in Nat \ {0} /\ Uses \subseteq {"scope", "rules"}
  /\ MaxCapacity \in Nat /\ MaxEntries \in Nat
  /\ NoValue \notin Values
  /\ \A h \in Hashes : h \in [Keys -> Nat]

VARIABLES
  use,       \* what the table is used for; does not change
  hash,      \* fnv_1a
  capacity, size,
  chain,     \* for each slot the stack of its entries, the newest first
  marked,    \* the slots that hold HASHTABLE_MARKED
  list,      \* the entries from t->head along next
  result,    \* what the last operation returned
  crashed,   \* a probe dereferenced HASHTABLE_MARKED
  lost       \* history: a resize met the entries of one key in two slots

vars == <<use, hash, capacity, size, chain, marked, list, result, crashed, lost>>

Slots(cap) == 0 .. cap - 1
Entry(k, v, address) == [key |-> k, value |-> v, address |-> address]
Fresh == CHOOSE a \in 1 .. MaxEntries : \A i \in DOMAIN list : list[i].address # a

(***************************************************************************)
(* hashtable_get_slot: linear probing from the hash of the key to the      *)
(* first slot that holds no entries or the entries of the key.  A caller   *)
(* that skips marked slots compares the key of each slot that is not       *)
(* empty, so at a marked one it dereferences the mark.                     *)
(***************************************************************************)
Index(k, i, cap) == (i + hash[k]) % cap
Stops(k, slot, table) == table[slot] = <<>> \/ table[slot][1].key = k

get_slot(k, cap, table) ==
  LET i == CHOOSE j \in Slots(cap) :
             /\ Stops(k, Index(k, j, cap), table)
             /\ \A m \in Slots(cap) : m < j => ~Stops(k, Index(k, m, cap), table)
  IN  Index(k, i, cap)

SlotOf(k) == get_slot(k, capacity, chain)

\* Mutant: every slot keeps its index.
resize_copying(cap) ==
  [s \in Slots(cap) |-> IF s \in DOMAIN chain THEN chain[s] ELSE <<>>]

(***************************************************************************)
(* hashtable_resize: the live slots move, in the order of their indices,   *)
(* to where a probe of the larger table ends; marks are dropped.           *)
(***************************************************************************)
Placed(table, s, cap) ==
  IF chain[s] = <<>> THEN table
  ELSE [table EXCEPT ![get_slot(chain[s][1].key, cap, table)] = chain[s]]

resize(cap) ==
  LET moved[n \in 0 .. capacity] ==
        IF n = 0 THEN [s \in Slots(cap) |-> <<>>] ELSE Placed(moved[n - 1], n - 1, cap)
  IN  moved[capacity]

\* Mutant: the table grows one rule too late.
MustGrow_late == size * HASHTABLE_MULTIPLIER > capacity

MustGrow == size * HASHTABLE_MULTIPLIER >= capacity
Grown    == IF MustGrow THEN capacity * HASHTABLE_MULTIPLIER ELSE capacity
Table    == IF MustGrow THEN resize(Grown) ELSE chain
Marks    == IF MustGrow THEN {} ELSE marked

\* A key whose slot was emptied and taken again may have entries in two slots.  A
\* resize puts the ones in the place of the others.
Split ==
  \E s, t \in DOMAIN chain :
    s # t /\ chain[s] # <<>> /\ chain[t] # <<>> /\ chain[s][1].key = chain[t][1].key

Fits == Grown <= MaxCapacity /\ Len(list) < MaxEntries

-----------------------------------------------------------------------------
Init ==
  /\ use \in Uses /\ hash \in Hashes
  /\ capacity = InitCap * HASHTABLE_MULTIPLIER
  /\ size = 0
  /\ chain = [s \in Slots(capacity) |-> <<>>]
  /\ marked = {}
  /\ list = <<>>
  /\ result = NoValue
  /\ crashed = FALSE /\ lost = FALSE

\* Mutant: the mark of a reused slot stays.
InsertMarked(k, v) ==
  LET e == Entry(k, v, Fresh)
      slot == get_slot(k, Grown, Table)
  IN  /\ capacity' = Grown
      /\ chain' = [Table EXCEPT ![slot] = <<e>> \o @]
      /\ marked' = Marks
      /\ list' = <<e>> \o list
      /\ size' = size + 1
      /\ result' = NoValue

\* The new entry goes on top of its slot and to the head of the list.
Insert(k, v) ==
  LET e == Entry(k, v, Fresh)
      slot == get_slot(k, Grown, Table)
  IN  /\ capacity' = Grown
      /\ chain' = [Table EXCEPT ![slot] = <<e>> \o @]
      /\ marked' = Marks \ {slot}
      /\ list' = <<e>> \o list
      /\ size' = size + 1
      /\ result' = NoValue

\* hashtable_push: hashtable_insert with duplicates allowed.
hashtable_push(k, v) ==
  /\ ~crashed /\ Fits
  /\ Insert(k, v)
  /\ lost' = (lost \/ (MustGrow /\ Split))
  /\ UNCHANGED <<use, hash, crashed>>

\* Mutant: a second entry hides the first.
hashtable_set_hiding(k, v) ==
  ~crashed /\ Fits /\ Insert(k, v) /\ UNCHANGED <<use, hash, crashed, lost>>

\* hashtable_set refuses a key that has an entry, but grows the table first.
hashtable_set(k, v) ==
  /\ ~crashed /\ Fits
  /\ IF Table[get_slot(k, Grown, Table)] = <<>>
     THEN Insert(k, v)
     ELSE /\ capacity' = Grown /\ chain' = Table /\ marked' = Marks
          /\ result' = NoValue
          /\ UNCHANGED <<size, list>>
  /\ lost' = (lost \/ (MustGrow /\ Split))
  /\ UNCHANGED <<use, hash, crashed>>

\* A probe that meets a mark reads the key of an entry that is not there.
Dereference(slot) ==
  /\ slot \in marked
  /\ crashed' = TRUE
  /\ UNCHANGED <<use, hash, capacity, size, chain, marked, list, result, lost>>

hashtable_get(k) ==
  /\ ~crashed
  /\ LET slot == SlotOf(k) IN
     \/ Dereference(slot)
     \/ /\ slot \notin marked
        /\ result' = IF chain[slot] = <<>> THEN NoValue ELSE chain[slot][1].value
        /\ UNCHANGED <<use, hash, capacity, size, chain, marked, list, crashed, lost>>

\* The list when an entry is unlinked from it.
Without(e) ==
  LET i == CHOOSE i \in DOMAIN list : list[i].address = e.address
  IN  SubSeq(list, 1, i - 1) \o SubSeq(list, i + 1, Len(list))

\* hashtable_remove: the newest entry of the key leaves its slot and the list;
\* size goes down only with the last entry of a slot.
hashtable_remove(k) ==
  LET slot == SlotOf(k) IN
  \/ Dereference(slot)
  \/ /\ slot \notin marked /\ chain[slot] = <<>>
     /\ result' = NoValue
     /\ UNCHANGED <<use, hash, capacity, size, chain, marked, list, crashed, lost>>
  \/ /\ chain[slot] # <<>>
     /\ LET e == Head(chain[slot])
            last == Len(chain[slot]) = 1
        IN  /\ chain' = [chain EXCEPT ![slot] = Tail(@)]
            /\ marked' = IF last THEN marked \cup {slot} ELSE marked
            /\ size' = IF last THEN size - 1 ELSE size
            /\ list' = Without(e)
            /\ result' = e.value
     /\ UNCHANGED <<use, hash, capacity, crashed, lost>>

\* Mutant: pops the oldest entry.
hashtable_pop_oldest ==
  /\ ~crashed /\ list # <<>>
  /\ hashtable_remove(list[Len(list)].key)

\* hashtable_pop removes the key of the head of the list.
hashtable_pop ==
  /\ ~crashed /\ list # <<>>
  /\ hashtable_remove(Head(list).key)

IsBound(k) == \E i \in DOMAIN list : list[i].key = k

-----------------------------------------------------------------------------
\* The scope of a parse.
ScopeNext ==
  /\ use = "scope"
  /\ \/ \E k \in Keys, v \in Values : hashtable_push(k, v)
     \/ hashtable_pop
     \/ \E k \in Keys : hashtable_get(k)

\* The rules of a grammar, and the actions of a BNF source.
RulesNext ==
  /\ use = "rules"
  /\ \/ \E k \in Keys, v \in Values : hashtable_set(k, v)
     \/ \E k \in Keys : hashtable_get(k)

Next == ScopeNext \/ RulesNext

Spec == Init /\ [][Next]_vars

-----------------------------------------------------------------------------
\* The shape of the table: marked slots hold no entries, entries are where
\* malloc put them.
TypeOK ==
  /\ capacity \in Nat \ {0} /\ size \in Nat
  /\ DOMAIN chain = Slots(capacity)
  /\ \A s \in Slots(capacity) : \A i \in DOMAIN chain[s] :
       chain[s][i] \in [key : Keys, value : Values, address : 1 .. MaxEntries]
  /\ marked \subseteq {s \in Slots(capacity) : chain[s] = <<>>}
  /\ result \in Values \cup {NoValue}
  /\ crashed \in BOOLEAN /\ lost \in BOOLEAN

\* However often the table was resized, and whatever collides, the probe for the
\* name of a rule ends at the slot that holds that rule and nothing else, and meets
\* no mark on its way (cc_common.c:552-596): as nothing is removed from a table of
\* rules.
ProbesFindTheirEntries ==
  use = "rules" =>
    \A i \in DOMAIN list :
      LET slot == SlotOf(list[i].key) IN slot \notin marked /\ chain[slot] = <<list[i]>>

\* No probe dereferences HASHTABLE_MARKED.
NeverCrashes == ~crashed

\* A rule of a grammar is never lost or replaced, not by a resize and not by a
\* second rule of the same name (cc_bnf.c:55-58).
FirstRuleStays ==
  [][\A k \in Keys : use = "rules" /\ IsBound(k) => chain'[SlotOf(k)'] = chain[SlotOf(k)]]_vars

\* A probe always ends: the table grows before its last empty slot is taken, so
\* the asserts at cc_common.c:585 and 607 never see a NULL slot, and the probe
\* for a name without a rule meets an empty slot.
EmptySlotLeft == \E s \in Slots(capacity) : chain[s] = <<>>

\* The table is a stack of bindings to its users: operation for operation it
\* returns what BindingStack returns.  A crash does not answer at all, and nothing
\* is promised once a resize has met the entries of a key in two slots.
Stack == INSTANCE BindingStack
           WITH bindings <- [i \in DOMAIN list |-> [key |-> list[i].key, value |-> list[i].value]]
ImplementsStack == Stack!Init /\ [][lost' \/ Stack!Next]_(Stack!stack)
=============================================================================
