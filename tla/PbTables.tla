------------------------------ MODULE PbTables ------------------------------
(***************************************************************************)
(* The tables of pbc (PbMap) in use: names enter a growing table one by    *)
(* one, as fields of a message type or keys of a message that is read do,  *)
(* and tables by number and by name are made of the same entries, as those *)
(* of an enumeration are.                                                  *)
(***************************************************************************)
EXTENDS PbMap

CONSTANTS Key,           \* names, with their hashes
          Id,            \* numbers, one for each entry
          Sizes,         \* what the table is made for
          MAX_ENTRIES    \* bound on the entries

TablesAssumption ==
    /\ \A key \in Key : calc_hash(key) \in Nat
    /\ Id \subseteq Int /\ Sizes \subseteq 0 .. 1024 /\ MAX_ENTRIES \in Nat

VARIABLES growing,     \* the growing table
          entered     \* the entries, in their order

vars == <<growing, entered>>

Used(key) == \E i \in DOMAIN entered : entered[i].pointer = key
Ids == {entered[i].id : i \in DOMAIN entered}

Init == /\ \E max \in Sizes : growing = _pbcM_sp_new(max)
        /\ entered = << >>

\* A name that the caller knows to be new, with its number as the value.
insert(key, id) ==
    /\ Len(entered) < MAX_ENTRIES /\ ~Used(key) /\ id \notin Ids
    /\ growing' = _pbcM_sp_insert(growing, key, id)
    /\ entered' = Append(entered, [id |-> id, pointer |-> key])

\* A name that may be new: the caller sets the value of a new one.
query_insert(key, id) ==
    LET r == _pbcM_sp_query_insert(growing, key)
    IN  /\ Len(entered) < MAX_ENTRIES /\ id \notin Ids
        /\ growing' = IF r.map.slot[r.at].pointer = NULL
                  THEN [r.map EXCEPT !.slot[r.at].pointer = id] ELSE r.map
        /\ entered' = IF r.map.slot[r.at].pointer = NULL
                   THEN Append(entered, [id |-> id, pointer |-> key]) ELSE entered

Next == \E key \in Key, id \in Id : insert(key, id) \/ query_insert(key, id)

Spec == Init /\ [][Next]_vars

\* The keys that a walk with next meets.
RECURSIVE Walk(_, _)
Walk(key, steps) ==
    LET next == _pbcM_sp_next(growing, key)
    IN IF next = NULL \/ steps = 0 THEN << >> ELSE <<next>> \o Walk(next, steps - 1)

\* However the hashes collide, in whatever order the entries came and however
\* often the table grew, each name finds its value and no other name finds
\* one, a walk and foreach meet each entry once, and the tables by number and
\* by name made of the entries find each of them and nothing else.  A lookup
\* crashes for no name but one of hash 0 that has not entered.
TablesExact ==
    /\ \A key \in Key :
        LET own == {i \in DOMAIN entered : entered[i].pointer = key}
            value == IF own = {} THEN NULL ELSE entered[CHOOSE i \in own : TRUE].id
        IN /\ \/ _pbcM_sp_query(growing, key) = value
              \/ _pbcM_sp_query(growing, key) = CRASHED /\ calc_hash(key) = 0 /\ own = {}
           /\ entered = << >> \/ _pbcM_si_query(_pbcM_si_new(entered), key) = value
    /\ \A id \in Id :
        entered = << >> \/ _pbcM_ip_query(_pbcM_ip_new(entered), id) =
            (IF id \in Ids THEN entered[CHOOSE i \in DOMAIN entered : entered[i].id = id].pointer
             ELSE NULL)
    /\ LET walk == Walk(NULL, MAX_ENTRIES + 1)
       IN Len(walk) = Len(entered) /\ ToSet(walk) = {entered[i].pointer : i \in DOMAIN entered}
    /\ LET each == _pbcM_sp_foreach_ud(growing)
       IN Len(each) = Len(entered) /\ ToSet(each) = Ids
=============================================================================
