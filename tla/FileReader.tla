------------------------------ MODULE FileReader ------------------------------
(***************************************************************************)
(* HW::File::LRUCacheReader of hw7 (include/bigFile/Reader.hpp) over a     *)
(* mapped file (src/bigFile/Mmap.cpp): getEntry() asks the cache, else     *)
(* searches the file, one probe a step, and adds what it found.            *)
(*                                                                         *)
(* The file is the sequence of its entries' keys; an entry is an index.    *)
(* getEntry passes Mmap::end() as the LAST entry of the search, so that it *)
(* may probe one entry past the file: in the zero-filled rest of the last  *)
(* page, or, when the file (nearly) fills its pages, in whatever mapping   *)
(* comes next, where any key may be read, or where nothing is mapped.      *)
(* What is there is taken not to change while the program runs.            *)
(***************************************************************************)
EXTENDS LRUCache

CONSTANTS
    Files,   \* the files, as sequences of keys
    Sizes,   \* cache sizes
    Past     \* the keys that may be read behind a file, or Unmapped

\* Nothing is mapped behind the file.
Unmapped == -1

\* Binary search needs ascending keys; mmap refuses an empty file.
ASSUME FilesAssumption ==
    /\ Keys \subseteq Nat /\ Files \subseteq Seq(Keys)
    /\ \A f \in Files : /\ f # <<>>
                        /\ \A i, j \in DOMAIN f : i < j => f[i] < f[j]
ASSUME SizesAssumption == Sizes \subseteq Nat
ASSUME PastAssumption == Past \subseteq Nat \union {Unmapped}

VARIABLES
    file, past,
    cache,      \* m_cache and m_cacheMap
    cacheSize,  \* m_cacheSize
    pc, key,    \* whether getEntry(key) is searching
    l, r,       \* the window of binSearchEntry, as indices
    answer,     \* what getEntry returned last
    fate        \* "running", or how the process left the modelled behaviour

searchVars == <<key, l, r>>
vars == <<file, past, cache, cacheSize, pc, searchVars, answer, fate>>

End == Len(file) + 1
Answer(k, e) == answer' = [key |-> k, entry |-> e]

\* The key that a probe reads.
Probed(m) == IF m = End THEN past ELSE file[m]

GetCached(k) ==
    /\ fate = "running" /\ pc = "idle" /\ Has(cache, k)
    /\ \E n \in Free(Erase(cache, k)) : cache' = Touch(cache, k, n)
    /\ Answer(k, Cached(cache, k))
    /\ UNCHANGED <<file, past, cacheSize, pc, searchVars, fate>>

GetMissed(k) ==
    /\ fate = "running" /\ pc = "idle" /\ ~Has(cache, k)
    /\ pc' = "search" /\ key' = k /\ l' = 1 /\ r' = End
    /\ UNCHANGED <<file, past, cache, cacheSize, answer, fate>>

Middle == l + ((r - l) \div 2)

Probing == fate = "running" /\ pc = "search" /\ l <= r
Mapped(m) == m # End \/ past # Unmapped

\* Mutant: the comparisons are swapped.
NarrowSwapped ==
    /\ Probing /\ Mapped(Middle) /\ Probed(Middle) # key
    /\ IF Probed(Middle) > key THEN l' = Middle + 1 /\ UNCHANGED r
                               ELSE r' = Middle - 1 /\ UNCHANGED l
    /\ UNCHANGED <<file, past, cache, cacheSize, pc, key, answer, fate>>
\* Mutant: the lower bound stays on the probe.
NarrowStays ==
    /\ Probing /\ Mapped(Middle) /\ Probed(Middle) # key
    /\ IF Probed(Middle) < key THEN l' = Middle /\ UNCHANGED r
                               ELSE r' = Middle - 1 /\ UNCHANGED l
    /\ UNCHANGED <<file, past, cache, cacheSize, pc, key, answer, fate>>

Narrow ==
    /\ Probing /\ Mapped(Middle) /\ Probed(Middle) # key
    /\ IF Probed(Middle) < key THEN l' = Middle + 1 /\ UNCHANGED r
                               ELSE r' = Middle - 1 /\ UNCHANGED l
    /\ UNCHANGED <<file, past, cache, cacheSize, pc, key, answer, fate>>

Find ==
    /\ Probing /\ Mapped(Middle) /\ Probed(Middle) = key
    /\ Answer(key, Middle) /\ pc' = "idle"
    /\ ~EvictsNothing(cache, key, cacheSize)
    /\ \E n \in Free(Room(cache, key, cacheSize)) :
          cache' = Added(cache, key, Middle, cacheSize, n)
    /\ UNCHANGED <<file, past, cacheSize, searchVars, fate>>

\* A cache of size 0 evicts from its empty list.
FindUncacheable ==
    /\ Probing /\ Mapped(Middle) /\ Probed(Middle) = key
    /\ EvictsNothing(cache, key, cacheSize)
    /\ fate' = "undefined"
    /\ UNCHANGED <<file, past, cache, cacheSize, pc, searchVars, answer>>

ProbeUnmapped ==
    /\ Probing /\ ~Mapped(Middle)
    /\ fate' = "killed"
    /\ UNCHANGED <<file, past, cache, cacheSize, pc, searchVars, answer>>

NotFound ==
    /\ fate = "running" /\ pc = "search" /\ l > r
    /\ Answer(key, 0) /\ pc' = "idle"
    /\ UNCHANGED <<file, past, cache, cacheSize, searchVars, fate>>

Search == Narrow \/ Find \/ FindUncacheable \/ ProbeUnmapped \/ NotFound

Init ==
    /\ file \in Files /\ past \in Past /\ cacheSize \in Sizes
    /\ cache = Empty
    /\ pc = "idle" /\ key = 0 /\ l = 1 /\ r = 0
    /\ answer = [key |-> 0, entry |-> 0]
    /\ fate = "running"

Next == \/ \E k \in Keys : GetCached(k) \/ GetMissed(k)
        \/ Search

Spec == Init /\ [][Next]_vars
FairSpec == Spec /\ WF_vars(Search)

-----------------------------------------------------------------------------

\* The cache's list and its map of iterators never get out of step, whatever
\* the order of hits, insertions and evictions and whichever freed node the
\* allocator hands out again; and the list never outgrows m_cacheSize.
CacheInStep == InStep(cache) /\ Len(cache.list) <= cacheSize

\* binSearchEntry never narrows its window past the entry it looks for.
SearchWindow ==
    pc = "search" => \A i \in DOMAIN file : file[i] = key => l <= i /\ i <= r

\* README.md:82 promises a pointer to an entry in the file.  getEntry() takes what
\* is behind the file for one, from there or from the cache, only when it is asked
\* for a key above all of the file's and that very key happens to be there; so
\* never in the zeros of the last page, though they are the key 0.
OverrunOnly ==
    answer.entry = End =>
        past = answer.key /\ \A i \in DOMAIN file : file[i] < answer.key

\* The entries that the search can find: those of the file, and what is behind
\* it if that happens to continue their order.
Readable == IF past > file[Len(file)] THEN Append(file, past) ELSE file

Recent == [i \in DOMAIN cache.list |-> cache.key[cache.list[i]]]
RE == INSTANCE RecentEntries
        WITH file <- Readable, size <- cacheSize, recent <- Recent

\* getEntry() answers with the entry of the key that it can read and with none
\* only if there is none, and hits, searches and evictions follow the order of
\* use.
Promise == RE!ReSpec

\* Every search ends, whatever the file and the key.
SearchEnds == pc = "search" ~> pc = "idle" \/ fate # "running"

=============================================================================
