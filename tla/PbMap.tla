-------------------------------- MODULE PbMap --------------------------------
(***************************************************************************)
(* The tables of pbc (map.c): chains of slots inside one array.  A key     *)
(* whose slot is taken, perhaps by a key of another chain, goes to a free  *)
(* slot and into the chain after that slot.  A key is <<name, hash>>: what *)
(* calc_hash makes of the name comes with it.                              *)
(***************************************************************************)
EXTENDS Integers, Sequences, SequencesExt

CONSTANTS NULL,
          CRASHED       \* what a lookup that calls strcmp with NULL comes to

Free == [key |-> NULL, pointer |-> NULL, next |-> 0]
calc_hash(key) == key[2]
HashIn(s) == IF s.key = NULL THEN 0 ELSE calc_hash(s.key)

\* The slots of a chain from slot i on; a slot names the next one plus 1.
RECURSIVE Chain(_, _)
Chain(slot, i) ==
    <<i>> \o IF slot[i].next = 0 THEN << >> ELSE Chain(slot, slot[i].next - 1)

\* A free slot has the hash 0 and no name: where the home of a name is free,
\* only the hash tells them apart, and for a name of hash 0, as the empty one,
\* it does not.
StrcmpOfNull(slot, home, key) == slot[home].key = NULL /\ calc_hash(key) = 0

\* Where in the chain of home the name is, or 0; StrcmpOfNull is for the caller.
Find(slot, home, key) ==
    SelectInSeq(Chain(slot, home),
                LAMBDA i : HashIn(slot[i]) = calc_hash(key) /\ slot[i].key = key)
FindId(slot, home, id) ==
    SelectInSeq(Chain(slot, home), LAMBDA i : slot[i].key = id)

\* Entry e takes its slot, home, or the free slot given, after home.
Chained(slot, home, free, e) ==
    IF slot[home].key = NULL THEN [slot EXCEPT ![home] = e]
    ELSE [slot EXCEPT ![free] = [e EXCEPT !.next = slot[home].next],
                      ![home].next = free + 1]

FirstFree(slot) ==
    CHOOSE i \in DOMAIN slot : /\ slot[i].key = NULL
                               /\ \A j \in DOMAIN slot : j < i => slot[j].key # NULL

(***************************************************************************)
(* map_sp, from strings to pointers, which grows.                          *)
(***************************************************************************)
Power(max) == CHOOSE c \in {2^k : k \in 0 .. 10} :
                  c >= max /\ (c = 1 \/ c \div 2 < max)

_pbcM_sp_new(max) == [cap |-> Power(max), size |-> 0,
                      slot |-> [i \in 0 .. Power(max) - 1 |-> Free]]

Home(map, key) == calc_hash(key) % map.cap

FreeAfter(map, home) ==
    LET At(d) == (home + d) % map.cap
        d0 == CHOOSE d \in 1 .. map.cap : /\ map.slot[At(d)].key = NULL
                                          /\ \A e \in 1 .. d - 1 : map.slot[At(e)].key # NULL
    IN At(d0)

RECURSIVE _pbcM_sp_insert(_, _, _)
_pbcM_sp_rehash(map) ==
    FoldLeft(LAMBDA m, e : _pbcM_sp_insert(m, e.key, e.pointer),
             [cap |-> 2 * map.cap, size |-> 0,
              slot |-> [i \in 0 .. 2 * map.cap - 1 |-> Free]],
             [i \in 1 .. map.size |-> map.slot[i - 1]])

_pbcM_sp_insert(map, key, value) ==
    LET home == Home(map, key)
    IN  IF map.cap > map.size
        THEN [map EXCEPT !.size = @ + 1,
                 !.slot = Chained(@, home,
                            IF @[home].key = NULL THEN home ELSE FreeAfter(map, home),
                            [Free EXCEPT !.key = key, !.pointer = value])]
        ELSE _pbcM_sp_insert(_pbcM_sp_rehash(map), key, value)

_pbcM_sp_query(map, key) ==
    LET chain == Chain(map.slot, Home(map, key))
        found == Find(map.slot, Home(map, key), key)
    IN  CASE map = NULL -> NULL
          [] map # NULL /\ StrcmpOfNull(map.slot, Home(map, key), key) -> CRASHED
          [] OTHER -> IF found = 0 THEN NULL ELSE map.slot[chain[found]].pointer

\* The slot of the key, which is made if there is none, with no value yet.
RECURSIVE _pbcM_sp_query_insert(_, _)
_pbcM_sp_query_insert(map, key) ==
    LET home == Home(map, key)
        found == Find(map.slot, home, key)
        free == FreeAfter(map, home)
        e == [Free EXCEPT !.key = key]
    IN  CASE map.slot[home].key # NULL /\ found > 0 ->
                [map |-> map, at |-> Chain(map.slot, home)[found]]
          [] map.slot[home].key = NULL /\ map.cap > map.size ->
                [map |-> [map EXCEPT !.size = @ + 1, !.slot[home] = e], at |-> home]
          [] map.slot[home].key # NULL /\ found = 0 /\ map.cap > map.size ->
                [map |-> [map EXCEPT !.size = @ + 1,
                                     !.slot = Chained(@, home, free, e)], at |-> free]
          [] OTHER -> _pbcM_sp_query_insert(_pbcM_sp_rehash(map), key)

\* What foreach passes on, in its order.
_pbcM_sp_foreach_ud(map) ==
    SelectSeq([i \in 1 .. map.cap |-> map.slot[i - 1].pointer],
              LAMBDA p : p # NULL)

\* Mutated form of _pbcM_sp_next: a key at the end of a chain is met as the last.
_pbcM_sp_next_chain(map, key) ==
    LET chain == Chain(map.slot, Home(map, key))
        found == Find(map.slot, Home(map, key), key)
        from == IF key = NULL THEN 0 ELSE chain[found] + 1
        later == {i \in from .. map.cap - 1 : map.slot[i].pointer # NULL}
    IN  IF map = NULL \/ (key # NULL /\ (found = 0 \/ found > 1)) \/ later = {} THEN NULL
        ELSE map.slot[CHOOSE i \in later : \A j \in later : i <= j].key

\* The key after the given one, or the first (NULL); NULL at the end.
_pbcM_sp_next(map, key) ==
    LET chain == Chain(map.slot, Home(map, key))
        found == Find(map.slot, Home(map, key), key)
        from == IF key = NULL THEN 0 ELSE chain[found] + 1
        later == {i \in from .. map.cap - 1 : map.slot[i].pointer # NULL}
    IN  CASE map = NULL -> NULL
          [] map # NULL /\ key # NULL /\ StrcmpOfNull(map.slot, Home(map, key), key) -> CRASHED
          [] OTHER -> IF (key # NULL /\ found = 0) \/ later = {} THEN NULL
                      ELSE map.slot[CHOOSE i \in later : \A j \in later : i <= j].key

(***************************************************************************)
(* map_ip and map_si, made once from a list of ids and names.              *)
(***************************************************************************)
Unsigned(id) == id % 2^30      \* 2^32 in the code
Entry(kv) == [Free EXCEPT !.key = kv.id, !.pointer = kv.pointer]

\* The table of a list, whose free slots are found from the start.
TableOf(entries, Hash(_)) ==
    FoldLeft(LAMBDA slot, e : Chained(slot, Hash(e.key) % Len(entries), FirstFree(slot), e),
             [i \in 0 .. Len(entries) - 1 |-> Free], entries)

_pbcM_ip_new_hash(table) ==
    [array |-> NULL, slot |-> TableOf([i \in DOMAIN table |-> Entry(table[i])], Unsigned)]

_pbcM_ip_new(table) ==
    LET ids == {table[i].id : i \in DOMAIN table}
        max == CHOOSE m \in ids : \A id \in ids : id <= m
    IN  IF max > 2 * Len(table) \/ \E id \in ids : id < 0 THEN _pbcM_ip_new_hash(table)
        ELSE [slot |-> NULL,
              array |-> [id \in 0 .. max |->
                  IF id \notin ids THEN NULL
                  ELSE table[CHOOSE i \in DOMAIN table : /\ table[i].id = id
                        /\ \A j \in i + 1 .. Len(table) : table[j].id # id].pointer]]

_pbcM_ip_query(map, id) ==
    LET home == Unsigned(id) % Cardinality(DOMAIN map.slot)
        chain == Chain(map.slot, home)
        found == FindId(map.slot, home, id)
    IN  CASE map = NULL -> NULL
          [] map # NULL /\ map.array # NULL ->
                IF id \in DOMAIN map.array THEN map.array[id] ELSE NULL
          [] OTHER -> IF found = 0 THEN NULL ELSE map.slot[chain[found]].pointer

_pbcM_si_new(table) ==
    TableOf([i \in DOMAIN table |->
                [Free EXCEPT !.key = table[i].pointer, !.pointer = table[i].id]], calc_hash)

\* The id of the name, or NULL.  No slot is free: there is one for each name.
_pbcM_si_query(slot, key) ==
    LET home == calc_hash(key) % Cardinality(DOMAIN slot)
        found == Find(slot, home, key)
    IN IF found = 0 THEN NULL ELSE slot[Chain(slot, home)[found]].pointer
=============================================================================
