------------------------------- MODULE LRUCache -------------------------------
(***************************************************************************)
(* HW::LRUCache of hw7 (include/data/LRUCache.hpp): a list of entries, the *)
(* most recently used first, and a map from keys to iterators into it.     *)
(*                                                                         *)
(* An iterator is the address of a list node.  An address that was freed   *)
(* may be handed out again, so a node that leaves the list while the map   *)
(* still names it would make the map name another key's entry later.       *)
(***************************************************************************)
EXTENDS Integers, SequencesExt

CONSTANTS
    Keys,    \* what entries are asked for by
    Nodes    \* addresses a list node can have

NoNode == 0

ASSUME NodesAssumption == NoNode \notin Nodes

Empty == [list |-> <<>>, key |-> [n \in Nodes |-> 0],
          entry |-> [n \in Nodes |-> 0], map |-> [k \in Keys |-> NoNode]]

Free(c) == Nodes \ ToSet(c.list)

\* Where in the list the node is that an iterator designates.
Place(c, n) == CHOOSE i \in DOMAIN c.list : c.list[i] = n

\* remove()
Erase(c, k) ==
    IF c.map[k] = NoNode THEN c
    ELSE [c EXCEPT !.list = RemoveAt(@, Place(c, c.map[k])), !.map[k] = NoNode]

\* insert() at the front, in a node the allocator picks
Insert(c, k, e, n) ==
    [c EXCEPT !.list = Cons(n, @), !.key[n] = k, !.entry[n] = e, !.map[k] = n]

\* removeLRU() of a list that is not empty
RemoveLRU(c) ==
    [c EXCEPT !.list = Front(@), !.map[c.key[Last(c.list)]] = NoNode]

Has(c, k) == c.map[k] # NoNode

\* What get() returns for a key that is there, and what it leaves.
Cached(c, k) == c.entry[c.map[k]]

\* Mutant: get() does not move the entry to the front.
TouchNothing(c, k, n) == c

Touch(c, k, n) == Insert(Erase(c, k), k, Cached(c, k), n)

\* add() evicts when, without k, the list is full.
Full(c, k, size) == Len(Erase(c, k).list) >= size

\* Mutant: add() compares with >.
RoomLate(c, k, size) ==
    IF Len(Erase(c, k).list) > size THEN RemoveLRU(Erase(c, k)) ELSE Erase(c, k)

Room(c, k, size) ==
    IF Full(c, k, size) THEN RemoveLRU(Erase(c, k)) ELSE Erase(c, k)

\* add() evicts from an empty list: undefined.
EvictsNothing(c, k, size) == Full(c, k, size) /\ Erase(c, k).list = <<>>

Added(c, k, e, size, n) == Insert(Room(c, k, size), k, e, n)

\* The two structures agree: a key is in the map exactly if a node of the list
\* holds it, and the map's iterator is that node.
InStep(c) ==
    /\ \A i, j \in DOMAIN c.list : c.list[i] = c.list[j] => i = j
    /\ \A k \in Keys, n \in Nodes :
          c.map[k] = n <=> n \in ToSet(c.list) /\ c.key[n] = k

=============================================================================
