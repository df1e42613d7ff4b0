------------------------------ MODULE HashTable ------------------------------
(***************************************************************************)
(* The open-addressing hash table of the JSON-RPC library (hash.c), for    *)
(* integer keys.  A table is a record: size, slots (0..size - 1), and      *)
(* count, the code's key_count.  A slot that was never used or was removed *)
(* has key 0 and the value NULL.                                           *)
(***************************************************************************)
EXTENDS Integers

CONSTANTS
    InitialSize,   \* HASH_DEFAULT_SIZE
    Multiplier,    \* of himult64, modulo the largest size used
    NULL

ASSUME InitialSizeAssumption == InitialSize \in Nat \ {0}
ASSUME MultiplierAssumption == Multiplier \in Nat \ {0}

\* himult64, reduced to a slot.
Hash(k, size) == (Multiplier * k) % size

Vacant == [key |-> 0, value |-> NULL, state |-> "EMPTY"]

hash_table_new ==
    [size |-> InitialSize, slots |-> [i \in 0..InitialSize - 1 |-> Vacant], count |-> 0]

\* The loops over the slots (h + i) % size: the first of them, from i = 0 on, that is in
\* stops, and -1 if none is.
FirstProbe(k, size, stops) ==
    LET Loop[i \in 0..size] ==
            LET w == (Hash(k, size) + i) % size
            IN  IF i = size THEN -1 ELSE IF w \in stops THEN w ELSE Loop[i + 1]
    IN  Loop[0]

-----------------------------------------------------------------------------
\* Every old slot goes into the new table as OCCUPIED, the vacant ones too, under key NULL.
hash_table_rehash(ht) ==
    LET size == 2 * ht.size
        Place(slots, e) ==
            LET empty == {w \in DOMAIN slots : slots[w].state = "EMPTY"}
            IN  [slots EXCEPT ![FirstProbe(e.key, size, empty)] = [e EXCEPT !.state = "OCCUPIED"]]
        Moved[j \in 0..ht.size] ==
            IF j = 0 THEN [i \in 0..size - 1 |-> Vacant] ELSE Place(Moved[j - 1], ht.slots[j - 1])
    IN  [ht EXCEPT !.size = size, !.slots = Moved[ht.size]]

\* Mutant: the threshold is the inverse of what was meant.
MutMustRehashLate(ht) == 16 * ht.count > 23 * ht.size

hash_table_must_rehash(ht) == 23 * ht.count > 16 * ht.size

hash_table_check_overflow(ht) == IF hash_table_must_rehash(ht) THEN hash_table_rehash(ht) ELSE ht

\* Where hash_table_insert puts key k: its assertion is that there is such a slot.
insert_slot(ht, k) ==
    FirstProbe(k, ht.size, {w \in DOMAIN ht.slots : ht.slots[w].state # "OCCUPIED" \/ ht.slots[w].key = k})

hash_table_insert(ht, k, v) ==
    LET t == hash_table_check_overflow(ht)
    IN  [t EXCEPT !.slots[insert_slot(t, k)] = [key |-> k, value |-> v, state |-> "OCCUPIED"],
                  !.count = @ + 1]

-----------------------------------------------------------------------------
\* The slot of key k, or -1: an EMPTY slot ends the search, a REMOVED one does not.
lookup_entry(ht, k) ==
    LET stops == {w \in DOMAIN ht.slots : \/ ht.slots[w].state = "EMPTY"
                                          \/ ht.slots[w].state = "OCCUPIED" /\ ht.slots[w].key = k}
        w == FirstProbe(k, ht.size, stops)
    IN  IF w = -1 \/ ht.slots[w].state = "EMPTY" THEN -1 ELSE w

hash_table_search(ht, k) ==
    LET w == lookup_entry(ht, k)
    IN  IF w = -1 THEN NULL ELSE ht.slots[w].value

\* Mutant: a removed slot ends the searches that come after.
MutRemoveEmpties(ht, k) ==
    LET w == lookup_entry(ht, k)
    IN  IF w = -1 THEN ht ELSE [ht EXCEPT !.slots[w] = Vacant, !.count = @ - 1]

hash_table_remove(ht, k) ==
    LET w == lookup_entry(ht, k)
    IN  IF w = -1 THEN ht
        ELSE [ht EXCEPT !.slots[w] = [Vacant EXCEPT !.state = "REMOVED"], !.count = @ - 1]
==============================================================================
