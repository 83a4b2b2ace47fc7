------------------------------- MODULE ShmMap -------------------------------
(***************************************************************************)
(* HW::shmem::Map (hw5): forked processes use one std::map that lies, with *)
(* its nodes and strings, in one shared mapping.  A semaphore in the       *)
(* mapping guards the operations, a linear allocator whose state is in the *)
(* mapping too gives them memory.                                          *)
(*                                                                         *)
(* A step is what a process does between two accesses to shared state that *)
(* another process could see (linking or unlinking a node is one); it may  *)
(* be killed after any of them.  Who died in set_value counts as in it.  A *)
(* key is short (kept inside its string, as "ABC" in example/client.cpp),  *)
(* a value is one block of memory and a node of the map another.           *)
(***************************************************************************)
EXTENDS Integers, FiniteSets

CONSTANTS
    Procs, Creator,  \* the processes; the one that constructed the map
    Keys, Vals,
    None, Empty,     \* no block, no value; the value of a key that [] created
    Size,            \* blocks in the mapping
    MaxCalls,        \* bound: operations in all
    Disciplined      \* set_value is called, and the creator ends, only while
                     \* no other process uses the map, as in example/client.cpp

ASSUME ProcsAssumption == Creator \in Procs /\ IsFiniteSet(Procs)
ASSUME ValuesAssumption ==
    /\ None \notin Keys \union Vals \union {"present", "absent", "failed"}
    /\ Empty \notin Vals \union {None}
ASSUME SizeAssumption == Size \in Nat /\ MaxCalls \in Nat /\ Disciplined \in BOOLEAN
ASSUME AddressAssumption == None \notin Nat

VARIABLES
    sem,      \* the semaphore; -1 after ~Semaphore
    free,     \* m_freeMemBegin, in blocks
    tree,     \* the std::map
    procs,    \* each process: its operation and the locals of it
    calls     \* operations begun so far
vars == <<sem, free, tree, procs, calls>>

Address == 0 .. (Size - 1)
Entry == [val : Vals \union {Empty}, data : Address \union {None}, node : Address]
NoEntry == [val |-> None, data |-> None, node |-> None]

\* lock: a SemaphoreLock is alive; begin: what allocate() read; temp: the block
\* of convertT's string; copy: that of the string set_value returns.
Ops == {"none", "insert", "get", "erase", "clear", "set"}
Places == {"idle", "wait", "value", "value2", "find", "node", "node2", "assign",
           "copy", "copy2", "drop", "unlink", "release", "return", "ended", "dead"}
Answers == Vals \union {None, Empty, "present", "absent", "failed"}
Process == [pc : Places, op : Ops, key : Keys \union {None}, val : Vals \union {None},
            lock : BOOLEAN, begin : Address \union {None},
            temp : Address \union {None}, copy : Address \union {None}, ans : Answers]
Idle == [pc |-> "idle", op |-> "none", key |-> None, val |-> None, lock |-> FALSE,
         begin |-> None, temp |-> None, copy |-> None, ans |-> None]

Has(k) == tree[k] # NoEntry

\* deallocate(): only the last block is taken back.
DeallocateAny(f, a) == IF a = None THEN f ELSE a   \* mutant: whatever block it is
Deallocate(f, a) == IF a # None /\ a + 1 = f THEN a ELSE f

At(p, place) == procs[p].pc = place
Set(p, local) == procs' = [procs EXCEPT ![p] = local]
Goto(p, place) == Set(p, [procs[p] EXCEPT !.pc = place])
Answer(p, place, ans) == Set(p, [procs[p] EXCEPT !.pc = place, !.ans = ans])

\* Where an operation goes when it is done: through ~SemaphoreLock if it has one.
End(p) == IF procs[p].lock THEN "release" ELSE "return"

-----------------------------------------------------------------------------
(* allocate(): the free pointer is read, compared and then moved.          *)

LoadPast(p, place, next) ==   \* mutant: >= for >
    /\ At(p, place) /\ free <= Size
    /\ Set(p, [procs[p] EXCEPT !.pc = next, !.begin = free])
    /\ UNCHANGED <<sem, free, tree, calls>>
Load(p, place, next) ==
    /\ At(p, place) /\ free < Size
    /\ Set(p, [procs[p] EXCEPT !.pc = next, !.begin = free])
    /\ UNCHANGED <<sem, free, tree, calls>>

BadAllocKeeps(p) ==   \* mutant: the semaphore is not posted
    /\ procs[p].pc \in {"value", "node", "copy"} /\ free >= Size
    /\ free' = Deallocate(free, procs[p].temp)
    /\ Set(p, [procs[p] EXCEPT !.pc = "return", !.temp = None, !.ans = "failed"])
    /\ UNCHANGED <<sem, tree, calls>>
\* std::bad_alloc: the temporary of convertT goes back, then the semaphore.
BadAlloc(p) ==
    /\ procs[p].pc \in {"value", "node", "copy"} /\ free >= Size
    /\ free' = Deallocate(free, procs[p].temp)
    /\ Set(p, [procs[p] EXCEPT !.pc = End(p), !.temp = None, !.ans = "failed"])
    /\ UNCHANGED <<sem, tree, calls>>

LoadValue(p) == Load(p, "value", "value2")
LoadNode(p) == Load(p, "node", "node2")
LoadCopy(p) == Load(p, "copy", "copy2")

StoreValue(p) ==
    /\ At(p, "value2") /\ free' = procs[p].begin + 1
    /\ Set(p, [procs[p] EXCEPT !.pc = "find", !.temp = procs[p].begin, !.begin = None])
    /\ UNCHANGED <<sem, tree, calls>>

StoreCopy(p) ==
    /\ At(p, "copy2") /\ free' = procs[p].begin + 1
    /\ Set(p, [procs[p] EXCEPT !.pc = "drop", !.copy = procs[p].begin, !.begin = None])
    /\ UNCHANGED <<sem, tree, calls>>

\* The new node: insert's holds its value, that of operator[] an empty string.
StoreNode(p) ==
    LET me == procs[p]
        mine == me.op = "insert"
    IN  /\ At(p, "node2") /\ free' = me.begin + 1
        /\ tree' = [tree EXCEPT ![me.key] =
                        [val |-> IF mine THEN me.val ELSE Empty,
                         data |-> IF mine THEN me.temp ELSE None, node |-> me.begin]]
        /\ Set(p, [me EXCEPT !.begin = None, !.temp = IF mine THEN None ELSE @,
                             !.pc = IF me.op = "set" THEN "assign" ELSE "release",
                             !.ans = CASE mine -> "absent"
                                       [] me.op = "get" -> Empty
                                       [] OTHER -> @])
        /\ UNCHANGED <<sem, calls>>

-----------------------------------------------------------------------------
(* The operations *)

Using(p) == procs[p].op # "none"   \* also when it died there
Alone(p) == \A q \in Procs \ {p} : ~Using(q)

\* operator[], insert, erase and clear start with a SemaphoreLock.
Locked == {"insert", "get", "erase", "clear"}

Call(p) ==
    /\ At(p, "idle") /\ calls < MaxCalls
    /\ \E op \in Locked : \E k \in (IF op = "clear" THEN {None} ELSE Keys) :
       \E v \in (IF op = "insert" THEN Vals ELSE {None}) :
           Set(p, [Idle EXCEPT !.pc = "wait", !.op = op, !.key = k, !.val = v])
    /\ Disciplined => \A q \in Procs : procs[q].op # "set"
    /\ calls' = calls + 1
    /\ UNCHANGED <<sem, free, tree>>

\* set_value takes no lock.
CallSetValue(p) ==
    /\ At(p, "idle") /\ calls < MaxCalls
    /\ \E k \in Keys, v \in Vals :
           Set(p, [Idle EXCEPT !.pc = "value", !.op = "set", !.key = k, !.val = v])
    /\ Disciplined => Alone(p)
    /\ calls' = calls + 1
    /\ UNCHANGED <<sem, free, tree>>

Wait(p) ==
    /\ At(p, "wait") /\ sem > 0
    /\ sem' = sem - 1
    /\ Set(p, [procs[p] EXCEPT !.lock = TRUE,
                               !.pc = IF procs[p].op = "insert" THEN "value" ELSE "find"])
    /\ UNCHANGED <<free, tree, calls>>

WaitFailsLocked(p) ==   \* mutant: the failure is not noticed
    /\ At(p, "wait")
    /\ Set(p, [procs[p] EXCEPT !.lock = TRUE, !.pc = "release", !.ans = "failed"])
    /\ UNCHANGED <<sem, free, tree, calls>>
\* sem_wait fails (EINTR): wait() throws and no SemaphoreLock comes to be.
WaitFails(p) ==
    /\ At(p, "wait") /\ Answer(p, "return", "failed")
    /\ UNCHANGED <<sem, free, tree, calls>>

FindPresentReplaces(p) ==   \* mutant: insert replaces the value
    LET me == procs[p]
    IN  /\ At(p, "find") /\ me.op # "clear" /\ Has(me.key)
        /\ Goto(p, CASE me.op = "get" -> "release" [] me.op = "erase" -> "unlink"
                     [] OTHER -> "assign")
        /\ UNCHANGED <<sem, free, tree, calls>>
\* The key is there: insert drops its string, operator[] copies the value.
FindPresent(p) ==
    LET me == procs[p]
    IN  /\ At(p, "find") /\ me.op # "clear" /\ Has(me.key)
        /\ CASE me.op = "insert" ->
                     /\ free' = Deallocate(free, me.temp)
                     /\ Set(p, [me EXCEPT !.pc = "release", !.temp = None, !.ans = "present"])
             [] me.op = "get"   -> Answer(p, "release", tree[me.key].val) /\ UNCHANGED free
             [] me.op = "erase" -> Goto(p, "unlink") /\ UNCHANGED free
             [] me.op = "set"   -> Goto(p, "assign") /\ UNCHANGED free
        /\ UNCHANGED <<sem, tree, calls>>

FindAbsent(p) ==
    LET me == procs[p]
    IN  /\ At(p, "find") /\ me.op # "clear" /\ ~Has(me.key)
        /\ IF me.op = "erase" THEN Answer(p, "release", "absent") ELSE Goto(p, "node")
        /\ UNCHANGED <<sem, free, tree, calls>>

Clear(p) ==
    /\ At(p, "find") /\ procs[p].op = "clear"
    /\ Answer(p, IF \E k \in Keys : Has(k) THEN "unlink" ELSE "release", "present")
    /\ UNCHANGED <<sem, free, tree, calls>>

\* A node goes: first the string, then the node.  clear() goes on to the next.
Unlink(p) ==
    LET me == procs[p]
    IN  /\ At(p, "unlink")
        /\ \E k \in IF me.op = "clear" THEN Keys ELSE {me.key} :
            /\ Has(k)
            /\ tree' = [tree EXCEPT ![k] = NoEntry]
            /\ free' = Deallocate(Deallocate(free, tree[k].data), tree[k].node)
            /\ IF \E l \in Keys \ {k} : me.op = "clear" /\ Has(l)
               THEN UNCHANGED procs
               ELSE Answer(p, "release", "present")
        /\ UNCHANGED <<sem, calls>>

\* The string of the element takes over the temporary's memory.
Assign(p) ==
    LET me == procs[p]
    IN  /\ At(p, "assign") /\ Has(me.key)
        /\ free' = Deallocate(free, tree[me.key].data)
        /\ tree' = [tree EXCEPT ![me.key].val = me.val, ![me.key].data = me.temp]
        /\ Set(p, [me EXCEPT !.pc = "copy", !.temp = None, !.ans = me.val])
        /\ UNCHANGED <<sem, calls>>

\* The caller destroys the string set_value returned.
DropCopy(p) ==
    /\ At(p, "drop") /\ free' = Deallocate(free, procs[p].copy)
    /\ Set(p, [procs[p] EXCEPT !.pc = "return", !.copy = None])
    /\ UNCHANGED <<sem, tree, calls>>

Post(p) ==
    /\ At(p, "release") /\ Set(p, Idle)
    /\ sem' = sem + 1
    /\ UNCHANGED <<free, tree, calls>>

Return(p) == /\ At(p, "return") /\ Set(p, Idle)
             /\ UNCHANGED <<sem, free, tree, calls>>

\* ~SharedMemory: only the creator destroys the semaphore.
Exit(p) ==
    /\ At(p, "idle") /\ Goto(p, "ended")
    /\ p = Creator /\ Disciplined =>
           \A q \in Procs \ {p} : procs[q].pc \in {"ended", "dead"}
    /\ sem' = IF p = Creator THEN -1 ELSE sem
    /\ UNCHANGED <<free, tree, calls>>

Die(p) ==
    /\ procs[p].pc \notin {"ended", "dead"} /\ Goto(p, "dead")
    /\ UNCHANGED <<sem, free, tree, calls>>

Operate(p) ==
    \/ Wait(p) \/ LoadValue(p) \/ StoreValue(p) \/ LoadNode(p) \/ StoreNode(p)
    \/ LoadCopy(p) \/ StoreCopy(p) \/ BadAlloc(p) \/ FindPresent(p) \/ FindAbsent(p)
    \/ Clear(p) \/ Unlink(p) \/ Assign(p) \/ DropCopy(p) \/ Post(p) \/ Return(p)

Init ==
    /\ sem = 1 /\ free = 0 /\ tree = [k \in Keys |-> NoEntry]
    /\ procs = [p \in Procs |-> Idle] /\ calls = 0

Next == \E p \in Procs :
    Call(p) \/ CallSetValue(p) \/ Operate(p) \/ WaitFails(p) \/ Exit(p) \/ Die(p)

Spec == Init /\ [][Next]_vars
\* Living processes go on with the operation they are in.
FairSpec == Spec /\ \A p \in Procs : WF_vars(Operate(p))

-----------------------------------------------------------------------------
(* Properties *)

TypeOK ==
    /\ sem \in {-1, 0, 1} /\ free \in 0 .. Size
    /\ tree \in [Keys -> Entry \union {NoEntry}]
    /\ procs \in [Procs -> Process] /\ calls \in 0 .. MaxCalls

\* Whatever fails inside an operation, the semaphore counts the SemaphoreLocks
\* that are alive (one at most), and it is not destroyed under anybody: neither
\* a bad_alloc nor an interrupted sem_wait leaves it taken or posts it twice.
Holders == {p \in Procs : procs[p].lock}
SemaphoreSound ==
    IF sem = -1 THEN \A p \in Procs : procs[p].pc \in {"ended", "dead"}
                ELSE sem + Cardinality(Holders) = 1

\* Blocks in use are below the free pointer and no two users have one in common,
\* although deallocate() moves the pointer back (Allocator.hpp:62).
Used(owner) ==
    IF owner \in Keys THEN {tree[owner].data, tree[owner].node} \ {None}
    ELSE {procs[owner].temp, procs[owner].copy} \ {None}
BlocksDisjoint ==
    /\ \A o \in Keys \union Procs : \A a \in Used(o) : a < free
    /\ \A o, q \in Keys \union Procs : o # q => Used(o) \intersect Used(q) = {}

\* README.md:38: "Operations with map are protected with semaphore": two
\* processes are never inside the map or the allocator at the same time.
Inside(p) == procs[p].pc \notin {"idle", "wait", "return", "ended", "dead"}
OneAtATime == \A p, q \in Procs : Inside(p) /\ Inside(q) => p = q

\* Every operation takes effect at once, as SharedMap says, though clear() works
\* node by node and every other one allocates before it changes the map.
Clearing == \E p \in Procs : procs[p].op = "clear" /\ procs[p].ans = "present"
Content == [k \in Keys |-> IF Clearing THEN None ELSE tree[k].val]
CallOf == [p \in Procs |-> [op |-> procs[p].op, key |-> procs[p].key, val |-> procs[p].val]]
AnswerOf == [p \in Procs |-> procs[p].ans]
Map == INSTANCE SharedMap WITH content <- Content, call <- CallOf, answer <- AnswerOf
MapSpec == Map!SmSpec

\* A process that waits for the semaphore gets it, unless the one that has it
\* died: nothing gives a dead process's SemaphoreLock back (Semaphore.cpp:34).
Orphaned == \E p \in Procs : procs[p].pc = "dead" /\ procs[p].lock
Served == \A p \in Procs : At(p, "wait") ~> (~At(p, "wait") \/ Orphaned)
=============================================================================
