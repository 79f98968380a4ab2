---------------------------- MODULE ClosedHashMap ----------------------------
(***************************************************************************)
(* includes/order-book/closed-hash-map.hpp: linear probing with            *)
(* tombstones, as operators on a map m whose domain is 0 .. CAPACITY - 1.  *)
(* std::hash of an integer is the integer, so a key starts probing at      *)
(* key & MASK.  The stale key and value of a tombstone are never looked at *)
(* and are not kept.                                                       *)
(***************************************************************************)
EXTENDS Integers, FiniteSets, FiniteSetsExt

CONSTANT NULL       \* NULL_INDEX, std::nullopt
ASSUME NullAssumption == NULL \notin Int

Capacity(m) == Cardinality(DOMAIN m)

Vacant(status) == [status |-> status, key |-> NULL, value |-> NULL]

EmptyMap(capacity) == [i \in 0 .. capacity - 1 |-> Vacant("Empty")]

\* The slot a search for key looks at after n steps.
Probe(m, key, n) == (key + n) % Capacity(m)

\* The first probe, if any, at which the loop of a search returns.
FirstProbe(m, key, Returns(_)) ==
    LET hits == {n \in DOMAIN m : Returns(m[Probe(m, key, n)])}
    IN  IF hits = {} THEN NULL ELSE Probe(m, key, Min(hits))

probe_new(m, key) ==
    FirstProbe(m, key, LAMBDA slot : slot.status # "Occupied")

probe_existing(m, key) ==
    LET Found(slot) == slot.status = "Occupied" /\ slot.key = key
        i == FirstProbe(m, key, LAMBDA slot : slot.status = "Empty" \/ Found(slot))
    IN  IF i = NULL THEN NULL ELSE IF Found(m[i]) THEN i ELSE NULL

\* The assertion of add(): the map is not full.
CanAdd(m, key) == probe_new(m, key) # NULL

Insert(m, key, value) ==
    [m EXCEPT ![probe_new(m, key)] =
        [status |-> "Occupied", key |-> key, value |-> value]]

Erase(m, key) ==
    LET i == probe_existing(m, key)
    IN  IF i = NULL THEN m ELSE [m EXCEPT ![i] = Vacant("Tombstone")]

Has(m, key) == probe_existing(m, key) # NULL

\* *find(key), where the caller dereferences the optional.
Find(m, key) == m[probe_existing(m, key)].value

\* An assignment through the reference find() returned.
Assign(m, key, value) == [m EXCEPT ![probe_existing(m, key)].value = value]

Keys(m) == {m[i].key : i \in {j \in DOMAIN m : m[j].status = "Occupied"}}

\* Every key the map holds is found by a search, under one slot only: no
\* tombstone reused by probe_new hides or doubles an entry.
WellFormed(m) ==
    \A i \in DOMAIN m : m[i].status = "Occupied"
        => probe_existing(m, m[i].key) = i
=============================================================================
