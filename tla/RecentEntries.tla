---------------------------- MODULE RecentEntries ----------------------------
(***************************************************************************)
(* What LRUCacheReader promises: asked for a key, it answers with the      *)
(* file's entry of that key or with none, and it remembers the entries it  *)
(* found last, as many as its cache is large, forgetting the one that was  *)
(* asked for the longest time ago.                                         *)
(***************************************************************************)
EXTENDS Integers, SequencesExt

CONSTANT Keys
VARIABLES
    file,     \* the keys of the entries that can be read
    size,     \* how many entries are remembered
    recent,   \* their keys, the last one asked for first
    answer    \* the last answer: the key and the entry's index, 0 for none

reVars == <<file, size, recent, answer>>

In(k) == {i \in DOMAIN file : file[i] = k}

Without(k) ==
    IF k \in ToSet(recent)
    THEN RemoveAt(recent, CHOOSE i \in DOMAIN recent : recent[i] = k)
    ELSE recent

Promoted(k) ==
    LET order == Cons(k, Without(k)) IN
    IF Len(order) > size THEN Front(order) ELSE order

Ask(k) ==
    /\ \/ /\ In(k) = {}
          /\ answer' = [key |-> k, entry |-> 0]
          /\ UNCHANGED recent
       \/ \E i \in In(k) :
          /\ answer' = [key |-> k, entry |-> i]
          /\ recent' = Promoted(k)
    /\ UNCHANGED <<file, size>>

ReInit == recent = <<>> /\ answer = [key |-> 0, entry |-> 0]

ReSpec == ReInit /\ [][\E k \in Keys : Ask(k)]_reVars

=============================================================================
