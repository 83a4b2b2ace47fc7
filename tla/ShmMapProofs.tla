---------------------------- MODULE ShmMapProofs ----------------------------
(***************************************************************************)
(* For any number of processes, keys, values and blocks: as long as        *)
(* set_value is called only while no other process uses the map, every     *)
(* state of ShmMap is well typed, the semaphore counts its lock, one       *)
(* process at a time is inside the map and no block has two users,         *)
(* whatever fails and whoever dies.                                        *)
(*                                                                         *)
(* The invariant says who may touch the shared state: a process that holds *)
(* the semaphore or is in set_value, and there is one of them at most      *)
(* (Exclusive).  Only such a process has blocks of its own or an address   *)
(* read from the free pointer (Local), so that address is still the free   *)
(* pointer when it is stored (BeginCurrent).                               *)
(***************************************************************************)
EXTENDS ShmMap, FiniteSetTheorems, TLAPS

\* The places of a living process inside the map; those of set_value alone;
\* those between the two halves of allocate().
InsidePlaces == Places \ {"idle", "wait", "return", "ended", "dead"}
SetPlaces == {"assign", "copy", "copy2", "drop"}
StorePlaces == {"value2", "node2", "copy2"}

\* What a process's own record says at any time.
Local(r) ==
    /\ r.op \in {"insert", "set"} => r.val \in Vals
    /\ r.op \in Ops \ {"none", "clear"} => r.key \in Keys
    /\ r.pc \in {"idle", "ended"} => r.op = "none"
    /\ r.pc \in {"wait", "return"} => ~r.lock
    /\ r.pc = "wait" => r.op \in Locked
    /\ r.pc \in InsidePlaces => r.lock \/ r.op = "set"
    /\ r.pc = "release" => r.lock
    /\ r.pc = "unlink" => r.op \in {"erase", "clear"}
    /\ r.pc \in SetPlaces => r.op = "set"
    /\ r.pc \in {"value", "value2"} => r.op \in {"insert", "set"}
    /\ r.pc \in {"node", "node2"} => r.op \in {"insert", "get", "set"}
    /\ r.lock => r.op \in Locked
    /\ ~r.lock /\ r.op # "set" => r.temp = None /\ r.copy = None
    /\ r.temp # None => r.temp # r.copy

Busy(p) == procs[p].lock \/ procs[p].op = "set"

AllLocal == \A p \in Procs : Local(procs[p])

\* One process at a time holds the semaphore, and set_value has no company.
Exclusive == \A p, q \in Procs : p # q =>
    /\ ~(procs[p].lock /\ procs[q].lock)
    /\ procs[p].op = "set" => procs[q].op = "none"

SemaphoreInv ==
    /\ sem = 1 => \A p \in Procs : ~procs[p].lock
    /\ sem = 0 => \E p \in Procs : procs[p].lock
    /\ sem = -1 => \A p \in Procs : procs[p].pc \in {"ended", "dead"}

BeginCurrent == \A p \in Procs :
    procs[p].pc \in StorePlaces => procs[p].begin = free /\ free < Size

\* No block in use is free or has two users (BlocksDisjoint for keys and
\* processes one by one).
Below(a) == a # None => a < free
Apart(a, b) == a # None => a # b

KeyBlocks ==
    /\ \A k \in Keys : /\ Below(tree[k].data) /\ Below(tree[k].node)
                       /\ Apart(tree[k].data, tree[k].node)
    /\ \A k, l \in Keys : k # l =>
           /\ Apart(tree[k].data, tree[l].data) /\ Apart(tree[k].data, tree[l].node)
           /\ Apart(tree[k].node, tree[l].data) /\ Apart(tree[k].node, tree[l].node)
ProcessBlocks ==
    \A p \in Procs :
        /\ Below(procs[p].temp) /\ Below(procs[p].copy)
        /\ \A k \in Keys :
              /\ Apart(procs[p].temp, tree[k].data) /\ Apart(procs[p].temp, tree[k].node)
              /\ Apart(procs[p].copy, tree[k].data) /\ Apart(procs[p].copy, tree[k].node)

IInv == /\ TypeOK /\ AllLocal /\ Exclusive /\ SemaphoreInv
        /\ BeginCurrent /\ KeyBlocks /\ ProcessBlocks
-----------------------------------------------------------------------------
(* Types *)

\* The steps of an operation between its Wait and its Post or Return.
Works(p) ==
    \/ LoadValue(p) \/ StoreValue(p) \/ LoadNode(p) \/ StoreNode(p)
    \/ LoadCopy(p) \/ StoreCopy(p) \/ BadAlloc(p) \/ FindPresent(p) \/ FindAbsent(p)
    \/ Clear(p) \/ Unlink(p) \/ Assign(p) \/ DropCopy(p)

\* deallocate() leaves the free pointer in the mapping.
LEMMA DeallocateType ==
    ASSUME NEW f \in 0 .. Size, NEW a \in Address \union {None}
    PROVE  Deallocate(f, a) \in 0 .. Size
  BY SizeAssumption, AddressAssumption, SMT DEF Deallocate, Address

LEMMA IdleType == Idle \in Process
  BY SMT DEF Idle, Process, Places, Ops, Answers

\* A step of process p changes its record alone.
LEMMA SetType ==
    ASSUME procs \in [Procs -> Process], NEW p \in Procs, NEW r \in Process, Set(p, r)
    PROVE  /\ procs' \in [Procs -> Process] /\ procs'[p] = r
           /\ \A q \in Procs \ {p} : procs'[q] = procs[q]
  BY SMT DEF Set
-----------------------------------------------------------------------------
(* What each action does to the record of its process, field by field.     *)

Kept(p) == /\ procs' \in [Procs -> Process]
           /\ \A q \in Procs \ {p} : procs'[q] = procs[q]
SameArgs(p) == /\ procs'[p].op = procs[p].op /\ procs'[p].key = procs[p].key
               /\ procs'[p].val = procs[p].val
SameBlocks(p) == procs'[p].temp = procs[p].temp /\ procs'[p].copy = procs[p].copy
SameLock(p) == procs'[p].lock = procs[p].lock
Stays(p) == Kept(p) /\ SameArgs(p) /\ SameBlocks(p) /\ SameLock(p)

LEMMA GotoEffect ==
    ASSUME TypeOK, NEW p \in Procs, NEW place \in Places, Goto(p, place)
    PROVE  Stays(p) /\ procs'[p].pc = place /\ procs'[p].begin = procs[p].begin
<1>1. procs \in [Procs -> Process] /\ procs[p] \in Process
  BY DEF TypeOK
<1> DEFINE r == [procs[p] EXCEPT !.pc = place]
<1>2. r \in Process
  BY <1>1 DEF Process
<1>3. /\ r.pc = place /\ r.op = procs[p].op /\ r.key = procs[p].key /\ r.val = procs[p].val
      /\ r.temp = procs[p].temp /\ r.copy = procs[p].copy /\ r.lock = procs[p].lock
      /\ r.begin = procs[p].begin
  BY <1>1 DEF Process
<1>4. Set(p, r)
  BY DEF Goto
<1> HIDE DEF r
<1> QED
  BY <1>1, <1>2, <1>3, <1>4, SetType DEF Stays, Kept, SameArgs, SameBlocks,
     SameLock

LEMMA AnswerEffect ==
    ASSUME TypeOK, NEW p \in Procs, NEW place \in Places, NEW ans \in Answers,
           Answer(p, place, ans)
    PROVE  Stays(p) /\ procs'[p].pc = place /\ procs'[p].begin = procs[p].begin
<1>1. procs \in [Procs -> Process] /\ procs[p] \in Process
  BY DEF TypeOK
<1> DEFINE r == [procs[p] EXCEPT !.pc = place, !.ans = ans]
<1>2. r \in Process
  BY <1>1 DEF Process
<1>3. /\ r.pc = place /\ r.op = procs[p].op /\ r.key = procs[p].key /\ r.val = procs[p].val
      /\ r.temp = procs[p].temp /\ r.copy = procs[p].copy /\ r.lock = procs[p].lock
      /\ r.begin = procs[p].begin
  BY <1>1 DEF Process
<1>4. Set(p, r)
  BY DEF Answer
<1> HIDE DEF r
<1> QED
  BY <1>1, <1>2, <1>3, <1>4, SetType DEF Stays, Kept, SameArgs, SameBlocks,
     SameLock

LEMMA CallEffect ==
    ASSUME TypeOK, NEW p \in Procs, Call(p)
    PROVE  /\ Kept(p) /\ procs'[p].pc = "wait" /\ procs'[p].op \in Locked
           /\ procs'[p].op # "clear" => procs'[p].key \in Keys
           /\ procs'[p].op = "insert" => procs'[p].val \in Vals
           /\ ~procs'[p].lock /\ procs'[p].temp = None /\ procs'[p].copy = None
<1>1. procs \in [Procs -> Process]
  BY DEF TypeOK
<1>2. PICK op \in Locked : \E k \in (IF op = "clear" THEN {None} ELSE Keys) :
       \E v \in (IF op = "insert" THEN Vals ELSE {None}) :
           Set(p, [Idle EXCEPT !.pc = "wait", !.op = op, !.key = k, !.val = v])
  BY DEF Call
<1>3. PICK k \in (IF op = "clear" THEN {None} ELSE Keys),
            v \in (IF op = "insert" THEN Vals ELSE {None}) :
           Set(p, [Idle EXCEPT !.pc = "wait", !.op = op, !.key = k, !.val = v])
  BY <1>2
<1> DEFINE r == [Idle EXCEPT !.pc = "wait", !.op = op, !.key = k, !.val = v]
<1>4. op \in Ops /\ k \in Keys \union {None} /\ v \in Vals \union {None}
  BY DEF Locked, Ops
<1>5. r \in Process
  BY <1>4, IdleType DEF Process, Idle, Places
<1>6. /\ r.pc = "wait" /\ r.op = op /\ r.key = k /\ r.val = v
      /\ ~r.lock /\ r.temp = None /\ r.copy = None
  BY DEF Idle
<1>7. Set(p, r)
  BY <1>3
<1> HIDE DEF r
<1> QED
  BY <1>1, <1>4, <1>5, <1>6, <1>7, SetType DEF Kept

LEMMA CallSetValueEffect ==
    ASSUME TypeOK, NEW p \in Procs, CallSetValue(p)
    PROVE  /\ Kept(p) /\ procs'[p].pc = "value" /\ procs'[p].op = "set"
           /\ procs'[p].key \in Keys /\ procs'[p].val \in Vals
           /\ ~procs'[p].lock /\ procs'[p].temp = None /\ procs'[p].copy = None
<1>1. procs \in [Procs -> Process]
  BY DEF TypeOK
<1>2. PICK k \in Keys, v \in Vals :
           Set(p, [Idle EXCEPT !.pc = "value", !.op = "set", !.key = k, !.val = v])
  BY DEF CallSetValue
<1> DEFINE r == [Idle EXCEPT !.pc = "value", !.op = "set", !.key = k, !.val = v]
<1>3. r \in Process
  BY IdleType DEF Process, Idle, Places, Ops
<1>4. /\ r.pc = "value" /\ r.op = "set" /\ r.key = k /\ r.val = v
      /\ ~r.lock /\ r.temp = None /\ r.copy = None
  BY DEF Idle
<1>5. Set(p, r)
  BY <1>2
<1> HIDE DEF r
<1> QED
  BY <1>1, <1>3, <1>4, <1>5, SetType DEF Kept

LEMMA WaitEffect ==
    ASSUME TypeOK, NEW p \in Procs, Wait(p)
    PROVE  /\ Kept(p) /\ SameArgs(p) /\ SameBlocks(p) /\ procs'[p].lock
           /\ procs'[p].pc = IF procs[p].op = "insert" THEN "value" ELSE "find"
<1>1. procs \in [Procs -> Process] /\ procs[p] \in Process
  BY DEF TypeOK
<1> DEFINE n == IF procs[p].op = "insert" THEN "value" ELSE "find"
           r == [procs[p] EXCEPT !.lock = TRUE, !.pc = n]
<1>2. Set(p, r) /\ n \in Places
  BY DEF Wait, Places
<1> HIDE DEF n
<1>3. r \in Process
  BY <1>1, <1>2 DEF Process
<1>4. /\ r.pc = n
      /\ r.op = procs[p].op /\ r.key = procs[p].key
      /\ r.val = procs[p].val /\ r.temp = procs[p].temp /\ r.copy = procs[p].copy
      /\ r.lock
  BY <1>1 DEF Process
<1> HIDE DEF r
<1> QED
  BY <1>1, <1>2, <1>3, <1>4, SetType DEF n, Kept, SameArgs, SameBlocks

LEMMA LoadEffect ==
    ASSUME TypeOK, NEW p \in Procs, NEW place \in Places, NEW next \in Places,
           Load(p, place, next)
    PROVE  /\ Stays(p) /\ procs[p].pc = place /\ procs'[p].pc = next
           /\ procs'[p].begin = free /\ free < Size
<1>1. procs \in [Procs -> Process] /\ procs[p] \in Process /\ procs[p].pc = place
  BY DEF TypeOK, Load, At
<1>2. free \in Address
  BY SizeAssumption DEF TypeOK, Load, Address
<1> DEFINE r == [procs[p] EXCEPT !.pc = next, !.begin = free]
<1>3. r \in Process
  BY <1>1, <1>2 DEF Process
<1>4. /\ r.pc = next /\ r.op = procs[p].op /\ r.key = procs[p].key
      /\ r.val = procs[p].val /\ r.temp = procs[p].temp /\ r.copy = procs[p].copy
      /\ r.lock = procs[p].lock /\ r.begin = free
  BY <1>1 DEF Process
<1>5. Set(p, r) /\ free < Size
  BY DEF Load
<1> HIDE DEF r
<1> QED
  BY <1>1, <1>3, <1>4, <1>5, SetType DEF Stays, Kept, SameArgs, SameBlocks,
     SameLock

LEMMA StoreValueEffect ==
    ASSUME TypeOK, BeginCurrent, NEW p \in Procs, StoreValue(p)
    PROVE  /\ Kept(p) /\ SameArgs(p) /\ SameLock(p)
           /\ procs[p].pc = "value2" /\ procs'[p].pc = "find"
           /\ free \in Address /\ free' = free + 1 /\ tree' = tree
           /\ procs'[p].temp = free /\ procs'[p].copy = procs[p].copy
<1>1. /\ procs \in [Procs -> Process] /\ procs[p] \in Process /\ procs[p].pc = "value2"
      /\ free \in 0 .. Size
  BY DEF TypeOK, StoreValue, At
<1>2. procs[p].begin = free /\ free \in Address
  BY <1>1, SizeAssumption DEF BeginCurrent, StorePlaces, Address
<1> DEFINE r == [procs[p] EXCEPT !.pc = "find", !.temp = procs[p].begin, !.begin = None]
<1>3. r \in Process
  BY <1>1, <1>2 DEF Process, Places
<1>4. /\ r.pc = "find" /\ r.op = procs[p].op /\ r.key = procs[p].key
      /\ r.val = procs[p].val /\ r.temp = procs[p].begin /\ r.copy = procs[p].copy
      /\ r.lock = procs[p].lock
  BY <1>1 DEF Process
<1>5. Set(p, r) /\ free' = procs[p].begin + 1 /\ tree' = tree
  BY DEF StoreValue
<1> HIDE DEF r
<1> QED
  BY <1>1, <1>2, <1>3, <1>4, <1>5, SetType DEF Kept, SameArgs, SameLock

LEMMA StoreCopyEffect ==
    ASSUME TypeOK, BeginCurrent, NEW p \in Procs, StoreCopy(p)
    PROVE  /\ Kept(p) /\ SameArgs(p) /\ SameLock(p)
           /\ procs[p].pc = "copy2" /\ procs'[p].pc = "drop"
           /\ free \in Address /\ free' = free + 1 /\ tree' = tree
           /\ procs'[p].copy = free /\ procs'[p].temp = procs[p].temp
<1>1. /\ procs \in [Procs -> Process] /\ procs[p] \in Process /\ procs[p].pc = "copy2"
      /\ free \in 0 .. Size
  BY DEF TypeOK, StoreCopy, At
<1>2. procs[p].begin = free /\ free \in Address
  BY <1>1, SizeAssumption DEF BeginCurrent, StorePlaces, Address
<1> DEFINE r == [procs[p] EXCEPT !.pc = "drop", !.copy = procs[p].begin, !.begin = None]
<1>3. r \in Process
  BY <1>1, <1>2 DEF Process, Places
<1>4. /\ r.pc = "drop" /\ r.op = procs[p].op /\ r.key = procs[p].key
      /\ r.val = procs[p].val /\ r.copy = procs[p].begin /\ r.temp = procs[p].temp
      /\ r.lock = procs[p].lock
  BY <1>1 DEF Process
<1>5. Set(p, r) /\ free' = procs[p].begin + 1 /\ tree' = tree
  BY DEF StoreCopy
<1> HIDE DEF r
<1> QED
  BY <1>1, <1>2, <1>3, <1>4, <1>5, SetType DEF Kept, SameArgs, SameLock

\* The node is linked under the key; it has the string of the insertion or none.
LEMMA StoreNodeEffect ==
    ASSUME TypeOK, AllLocal, BeginCurrent, NEW p \in Procs, StoreNode(p)
    PROVE  /\ Kept(p) /\ SameArgs(p) /\ SameLock(p)
           /\ procs[p].pc = "node2" /\ procs'[p].copy = procs[p].copy
           /\ procs'[p].pc = IF procs[p].op = "set" THEN "assign" ELSE "release"
           /\ procs'[p].temp = IF procs[p].op = "insert" THEN None ELSE procs[p].temp
           /\ free \in Address /\ free' = free + 1
           /\ tree' = [tree EXCEPT ![procs[p].key] =
                  [val |-> IF procs[p].op = "insert" THEN procs[p].val ELSE Empty,
                   data |-> IF procs[p].op = "insert" THEN procs[p].temp ELSE None,
                   node |-> free]]
<1>1. /\ procs \in [Procs -> Process] /\ procs[p] \in Process /\ procs[p].pc = "node2"
      /\ free \in 0 .. Size
  BY DEF TypeOK, StoreNode, At
<1>2. procs[p].begin = free /\ free \in Address
  BY <1>1, SizeAssumption DEF BeginCurrent, StorePlaces, Address
<1> DEFINE t == IF procs[p].op = "insert" THEN None ELSE procs[p].temp
           n == IF procs[p].op = "set" THEN "assign" ELSE "release"
           a == CASE procs[p].op = "insert" -> "absent"
                  [] procs[p].op = "get" -> Empty
                  [] OTHER -> procs[p].ans
           r == [procs[p] EXCEPT !.begin = None, !.temp = t, !.pc = n, !.ans = a]
<1>3. t \in Address \union {None} /\ n \in Places /\ a \in Answers
  BY <1>1 DEF Process, Places, Answers
<1>4. Set(p, r) /\ free' = procs[p].begin + 1
  BY DEF StoreNode
<1>5. tree' = [tree EXCEPT ![procs[p].key] =
                  [val |-> IF procs[p].op = "insert" THEN procs[p].val ELSE Empty,
                   data |-> IF procs[p].op = "insert" THEN procs[p].temp ELSE None,
                   node |-> free]]
  BY <1>2 DEF StoreNode
<1> HIDE DEF t, n, a
<1>6. r \in Process
  BY <1>1, <1>3 DEF Process
<1>7. /\ r.pc = n /\ r.op = procs[p].op /\ r.key = procs[p].key
      /\ r.val = procs[p].val /\ r.copy = procs[p].copy /\ r.temp = t
      /\ r.lock = procs[p].lock
  BY <1>1 DEF Process
<1> HIDE DEF r
<1> QED
  BY <1>1, <1>2, <1>4, <1>5, <1>6, <1>7, SetType DEF Kept, SameArgs, SameLock,
     t, n

LEMMA BadAllocEffect ==
    ASSUME TypeOK, NEW p \in Procs, BadAlloc(p)
    PROVE  /\ Kept(p) /\ SameArgs(p) /\ SameLock(p)
           /\ procs[p].pc \in {"value", "node", "copy"}
           /\ procs'[p].pc = IF procs[p].lock THEN "release" ELSE "return"
           /\ procs'[p].temp = None /\ procs'[p].copy = procs[p].copy
           /\ free' = Deallocate(free, procs[p].temp) /\ tree' = tree
<1>1. procs \in [Procs -> Process] /\ procs[p] \in Process
  BY DEF TypeOK
<1> DEFINE r == [procs[p] EXCEPT !.pc = End(p), !.temp = None, !.ans = "failed"]
<1>2. r \in Process
  <2>1. End(p) \in Places /\ "failed" \in Answers
    BY DEF End, Places, Answers
  <2> QED
    BY <1>1, <2>1 DEF Process
<1>3. /\ r.pc = End(p) /\ r.op = procs[p].op /\ r.key = procs[p].key
      /\ r.val = procs[p].val /\ r.copy = procs[p].copy /\ r.temp = None
      /\ r.lock = procs[p].lock
  BY <1>1 DEF Process
<1>4. /\ Set(p, r) /\ procs[p].pc \in {"value", "node", "copy"}
      /\ free' = Deallocate(free, procs[p].temp) /\ tree' = tree
  BY DEF BadAlloc
<1> HIDE DEF r
<1> QED
  BY <1>1, <1>2, <1>3, <1>4, SetType DEF Kept, SameArgs, SameLock, End

LEMMA FindPresentEffect ==
    ASSUME TypeOK, AllLocal, NEW p \in Procs, FindPresent(p)
    PROVE  /\ Kept(p) /\ SameArgs(p) /\ SameLock(p) /\ procs[p].pc = "find"
           /\ tree' = tree /\ procs'[p].copy = procs[p].copy
           /\ procs'[p].pc = CASE procs[p].op \in {"insert", "get"} -> "release"
                               [] procs[p].op = "erase" -> "unlink"
                               [] procs[p].op = "set" -> "assign"
           /\ procs[p].op \in {"insert", "get", "erase", "set"}
           /\ \/ free' = Deallocate(free, procs[p].temp) /\ procs'[p].temp = None
              \/ free' = free /\ procs'[p].temp = procs[p].temp
<1>1. /\ procs \in [Procs -> Process] /\ procs[p] \in Process /\ procs[p].pc = "find"
      /\ procs[p].op # "clear" /\ procs[p].op \in Ops /\ tree' = tree
      /\ procs[p].key \in Keys \union {None} /\ Has(procs[p].key)
  BY DEF TypeOK, FindPresent, At, Process
<1>2. procs[p].op \in {"insert", "get", "erase", "set"}
  BY <1>1 DEF AllLocal, Local, InsidePlaces, Places, Locked, Ops
<1>3. CASE procs[p].op = "insert"
  <2> DEFINE r == [procs[p] EXCEPT !.pc = "release", !.temp = None, !.ans = "present"]
  <2>1. r \in Process
    BY <1>1 DEF Process, Places, Answers
  <2>2. /\ r.pc = "release" /\ r.op = procs[p].op /\ r.key = procs[p].key
        /\ r.val = procs[p].val /\ r.copy = procs[p].copy /\ r.temp = None
        /\ r.lock = procs[p].lock
    BY <1>1 DEF Process
  <2>3. Set(p, r) /\ free' = Deallocate(free, procs[p].temp)
    BY <1>3 DEF FindPresent
  <2> HIDE DEF r
  <2> QED
    BY <1>1, <1>3, <2>1, <2>2, <2>3, SetType DEF Kept, SameArgs, SameLock
<1>4. CASE procs[p].op = "get"
  <2>1. Answer(p, "release", tree[procs[p].key].val) /\ free' = free
    BY <1>4 DEF FindPresent
  <2>2. tree[procs[p].key].val \in Answers
    BY <1>1, <1>4 DEF TypeOK, Entry, Answers, NoEntry, Has, AllLocal, Local,
       Ops
  <2>3. "release" \in Places
    BY DEF Places
  <2> QED
    BY <1>1, <1>4, <2>1, <2>2, <2>3, AnswerEffect DEF Stays, SameBlocks
<1>5. CASE procs[p].op = "erase"
  <2>1. Goto(p, "unlink") /\ free' = free /\ "unlink" \in Places
    BY <1>5 DEF FindPresent, Places
  <2> QED
    BY <1>1, <1>5, <2>1, GotoEffect DEF Stays, SameBlocks
<1>6. CASE procs[p].op = "set"
  <2>1. Goto(p, "assign") /\ free' = free /\ "assign" \in Places
    BY <1>6 DEF FindPresent, Places
  <2> QED
    BY <1>1, <1>6, <2>1, GotoEffect DEF Stays, SameBlocks
<1> QED
  BY <1>2, <1>3, <1>4, <1>5, <1>6

LEMMA AssignEffect ==
    ASSUME TypeOK, NEW p \in Procs, Assign(p)
    PROVE  /\ Kept(p) /\ SameArgs(p) /\ SameLock(p)
           /\ procs[p].pc = "assign" /\ procs'[p].pc = "copy"
           /\ procs'[p].temp = None /\ procs'[p].copy = procs[p].copy
           /\ Has(procs[p].key)
           /\ free' = Deallocate(free, tree[procs[p].key].data)
           /\ tree' = [tree EXCEPT ![procs[p].key].val = procs[p].val,
                                   ![procs[p].key].data = procs[p].temp]
<1>1. procs \in [Procs -> Process] /\ procs[p] \in Process /\ procs[p].pc = "assign"
  BY DEF TypeOK, Assign, At
<1> DEFINE r == [procs[p] EXCEPT !.pc = "copy", !.temp = None, !.ans = procs[p].val]
<1>2. r \in Process
  BY <1>1 DEF Process, Places, Answers
<1>3. /\ r.pc = "copy" /\ r.op = procs[p].op /\ r.key = procs[p].key
      /\ r.val = procs[p].val /\ r.copy = procs[p].copy /\ r.temp = None
      /\ r.lock = procs[p].lock
  BY <1>1 DEF Process
<1>4. /\ Set(p, r) /\ Has(procs[p].key)
      /\ free' = Deallocate(free, tree[procs[p].key].data)
      /\ tree' = [tree EXCEPT ![procs[p].key].val = procs[p].val,
                              ![procs[p].key].data = procs[p].temp]
  BY DEF Assign
<1> HIDE DEF r
<1> QED
  BY <1>1, <1>2, <1>3, <1>4, SetType DEF Kept, SameArgs, SameLock

LEMMA DropCopyEffect ==
    ASSUME TypeOK, NEW p \in Procs, DropCopy(p)
    PROVE  /\ Kept(p) /\ SameArgs(p) /\ SameLock(p)
           /\ procs[p].pc = "drop" /\ procs'[p].pc = "return"
           /\ procs'[p].copy = None /\ procs'[p].temp = procs[p].temp
           /\ free' = Deallocate(free, procs[p].copy) /\ tree' = tree
<1>1. procs \in [Procs -> Process] /\ procs[p] \in Process /\ procs[p].pc = "drop"
  BY DEF TypeOK, DropCopy, At
<1> DEFINE r == [procs[p] EXCEPT !.pc = "return", !.copy = None]
<1>2. r \in Process
  BY <1>1 DEF Process, Places
<1>3. /\ r.pc = "return" /\ r.op = procs[p].op /\ r.key = procs[p].key
      /\ r.val = procs[p].val /\ r.copy = None /\ r.temp = procs[p].temp
      /\ r.lock = procs[p].lock
  BY <1>1 DEF Process
<1>4. Set(p, r) /\ free' = Deallocate(free, procs[p].copy) /\ tree' = tree
  BY DEF DropCopy
<1> HIDE DEF r
<1> QED
  BY <1>1, <1>2, <1>3, <1>4, SetType DEF Kept, SameArgs, SameLock

\* Post and Return leave the process as it was before its first call.
LEMMA IdleEffect ==
    ASSUME TypeOK, NEW p \in Procs, Post(p) \/ Return(p)
    PROVE  /\ Kept(p) /\ procs'[p].pc = "idle" /\ procs'[p].op = "none"
           /\ ~procs'[p].lock /\ procs'[p].temp = None /\ procs'[p].copy = None
<1>1. procs \in [Procs -> Process]
  BY DEF TypeOK
<1>2. Set(p, Idle)
  BY DEF Post, Return
<1>3. /\ procs' \in [Procs -> Process] /\ procs'[p] = Idle
      /\ \A q \in Procs \ {p} : procs'[q] = procs[q]
  BY <1>1, <1>2, IdleType, SetType
<1> QED
  BY <1>3 DEF Kept, Idle
LEMMA UnlinkEffect ==
    ASSUME TypeOK, AllLocal, NEW p \in Procs, Unlink(p)
    PROVE  /\ Stays(p) /\ procs[p].pc = "unlink"
           /\ procs'[p].pc \in {"unlink", "release"}
           /\ \E k \in Keys :
                 /\ Has(k)
                 /\ tree' = [tree EXCEPT ![k] = NoEntry]
                 /\ free' = Deallocate(Deallocate(free, tree[k].data), tree[k].node)
<1>1. /\ procs \in [Procs -> Process] /\ procs[p] \in Process /\ procs[p].pc = "unlink"
      /\ procs[p].key \in Keys \union {None} /\ tree \in [Keys -> Entry \union {NoEntry}]
  BY DEF TypeOK, Unlink, At, Process
<1>2. PICK k \in (IF procs[p].op = "clear" THEN Keys ELSE {procs[p].key}) :
        /\ Has(k)
        /\ tree' = [tree EXCEPT ![k] = NoEntry]
        /\ free' = Deallocate(Deallocate(free, tree[k].data), tree[k].node)
        /\ UNCHANGED procs \/ Answer(p, "release", "present")
  BY DEF Unlink
<1>3. k \in Keys
  BY <1>1, <1>2 DEF AllLocal, Local, InsidePlaces, Places, Locked, Ops
<1>4. CASE UNCHANGED procs
  BY <1>1, <1>2, <1>3, <1>4 DEF Stays, Kept, SameArgs, SameBlocks, SameLock
<1>5. CASE Answer(p, "release", "present")
  <2>1. "release" \in Places /\ "present" \in Answers
    BY DEF Places, Answers
  <2> QED
    BY <1>1, <1>2, <1>3, <1>5, <2>1, AnswerEffect
<1> QED
  BY <1>2, <1>4, <1>5

\* FindAbsent, Clear, WaitFails, Exit and Die change where the process is.
LEMMA MoveEffect ==
    ASSUME TypeOK, NEW p \in Procs,
           FindAbsent(p) \/ Clear(p) \/ WaitFails(p) \/ Exit(p) \/ Die(p)
    PROVE  /\ Stays(p) /\ procs'[p].begin = procs[p].begin
           /\ free' = free /\ tree' = tree /\ calls' = calls
<1> USE DEF Places, Answers
<1>1. CASE FindAbsent(p)
  BY <1>1, GotoEffect, AnswerEffect DEF FindAbsent
<1>2. CASE Clear(p)
  BY <1>2, AnswerEffect DEF Clear
<1>3. CASE WaitFails(p)
  BY <1>3, AnswerEffect DEF WaitFails
<1>4. CASE Exit(p)
  BY <1>4, GotoEffect DEF Exit
<1>5. CASE Die(p)
  BY <1>5, GotoEffect DEF Die
<1> QED
  BY <1>1, <1>2, <1>3, <1>4, <1>5

LEMMA MovePlaces ==
    ASSUME TypeOK, NEW p \in Procs
    PROVE  /\ FindAbsent(p) => /\ procs[p].pc = "find" /\ sem' = sem
                               /\ procs'[p].pc \in {"release", "node"}
                               /\ procs[p].op # "clear"
                               /\ procs'[p].pc = "release" <=> procs[p].op = "erase"
           /\ Clear(p) => /\ procs[p].pc = "find" /\ sem' = sem
                          /\ procs[p].op = "clear"
                          /\ procs'[p].pc \in {"unlink", "release"}
           /\ WaitFails(p) => /\ procs[p].pc = "wait" /\ sem' = sem
                              /\ procs'[p].pc = "return"
           /\ Exit(p) => procs[p].pc = "idle" /\ procs'[p].pc = "ended"
           /\ Die(p) => /\ procs[p].pc \notin {"ended", "dead"} /\ sem' = sem
                        /\ procs'[p].pc = "dead"
<1> USE DEF Places, Answers
<1>1. ASSUME FindAbsent(p)
      PROVE  /\ procs[p].pc = "find" /\ sem' = sem
             /\ procs'[p].pc \in {"release", "node"} /\ procs[p].op # "clear"
             /\ procs'[p].pc = "release" <=> procs[p].op = "erase"
  BY <1>1, GotoEffect, AnswerEffect DEF FindAbsent, At
<1>2. ASSUME Clear(p)
      PROVE  /\ procs[p].pc = "find" /\ sem' = sem /\ procs[p].op = "clear"
             /\ procs'[p].pc \in {"unlink", "release"}
  BY <1>2, AnswerEffect DEF Clear, At
<1>3. ASSUME WaitFails(p)
      PROVE  procs[p].pc = "wait" /\ sem' = sem /\ procs'[p].pc = "return"
  BY <1>3, AnswerEffect DEF WaitFails, At
<1>4. ASSUME Exit(p)
      PROVE  procs[p].pc = "idle" /\ procs'[p].pc = "ended"
  BY <1>4, GotoEffect DEF Exit, At
<1>5. ASSUME Die(p)
      PROVE  /\ procs[p].pc \notin {"ended", "dead"} /\ sem' = sem
             /\ procs'[p].pc = "dead"
  BY <1>5, GotoEffect DEF Die
<1> QED
  BY <1>1, <1>2, <1>3, <1>4, <1>5

\* Between Wait and Post or Return: the process is alone inside the map, and
\* its operation and its lock stay.
LEMMA WorksEffect ==
    ASSUME TypeOK, AllLocal, BeginCurrent, ProcessBlocks, NEW p \in Procs, Works(p)
    PROVE  /\ Kept(p) /\ SameArgs(p) /\ SameLock(p) /\ sem' = sem /\ calls' = calls
           /\ procs[p].pc \in InsidePlaces /\ Local(procs'[p])
<1>1. /\ Local(procs[p]) /\ procs[p] \in Process /\ free \in 0 .. Size
      /\ Below(procs[p].temp) /\ Below(procs[p].copy)
  BY DEF AllLocal, TypeOK, ProcessBlocks
<1>2. sem' = sem /\ calls' = calls
  BY DEF Works, LoadValue, LoadNode, LoadCopy, Load, StoreValue, StoreCopy,
     StoreNode,
         BadAlloc, FindPresent, FindAbsent, Clear, Unlink, Assign, DropCopy
<1>3. CASE LoadValue(p) \/ LoadNode(p) \/ LoadCopy(p)
  <2>1. /\ Stays(p)
        /\ \/ procs[p].pc = "value" /\ procs'[p].pc = "value2"
           \/ procs[p].pc = "node" /\ procs'[p].pc = "node2"
           \/ procs[p].pc = "copy" /\ procs'[p].pc = "copy2"
    BY <1>3, LoadEffect DEF LoadValue, LoadNode, LoadCopy, Places
  <2> QED
    BY <1>1, <1>2, <2>1 DEF Local, Stays, SameArgs, SameBlocks, SameLock,
       InsidePlaces, SetPlaces, Places
<1>4. CASE StoreValue(p)
  BY <1>1, <1>2, <1>4, StoreValueEffect, AddressAssumption DEF Local,
     SameArgs, SameLock,
     InsidePlaces, SetPlaces, Places, Below, Address
<1>5. CASE StoreCopy(p)
  BY <1>1, <1>2, <1>5, StoreCopyEffect, AddressAssumption DEF Local, SameArgs,
     SameLock,
     InsidePlaces, SetPlaces, Places, Below, Address
<1>6. CASE StoreNode(p)
  BY <1>1, <1>2, <1>6, StoreNodeEffect DEF Local, SameArgs, SameLock,
     InsidePlaces,
     SetPlaces, Places
<1>7. CASE BadAlloc(p)
  BY <1>1, <1>2, <1>7, BadAllocEffect DEF Local, SameArgs, SameLock,
     InsidePlaces,
     SetPlaces, Places
<1>8. CASE FindPresent(p)
  BY <1>1, <1>2, <1>8, FindPresentEffect DEF Local, SameArgs, SameLock,
     InsidePlaces,
     SetPlaces, Places, Locked
<1>9. CASE FindAbsent(p) \/ Clear(p)
  BY <1>1, <1>2, <1>9, MoveEffect, MovePlaces DEF Local, Stays, SameArgs,
     SameBlocks,
     SameLock, InsidePlaces, SetPlaces, Places, Locked
<1>10. CASE Unlink(p)
  BY <1>1, <1>2, <1>10, UnlinkEffect DEF Local, Stays, SameArgs, SameBlocks,
     SameLock, InsidePlaces, SetPlaces, Places, Locked
<1>11. CASE Assign(p)
  BY <1>1, <1>2, <1>11, AssignEffect DEF Local, SameArgs, SameLock,
     InsidePlaces,
     SetPlaces, Places
<1>12. CASE DropCopy(p)
  BY <1>1, <1>2, <1>12, DropCopyEffect DEF Local, SameArgs, SameLock,
     InsidePlaces,
     SetPlaces, Places, Locked
<1> QED
  BY <1>3, <1>4, <1>5, <1>6, <1>7, <1>8, <1>9, <1>10, <1>11, <1>12 DEF Works
-----------------------------------------------------------------------------
(* The parts of the invariant, step by step *)

Step(p) == \/ Call(p) \/ CallSetValue(p) \/ Works(p) \/ Wait(p) \/ WaitFails(p)
           \/ Post(p) \/ Return(p) \/ Exit(p) \/ Die(p)

LEMMA NextIsStep == Next <=> \E p \in Procs : Step(p)
  BY DEF Next, Step, Operate, Works

LEMMA ProcsStep ==
    ASSUME IInv, NEW p \in Procs, Step(p)
    PROVE  Kept(p)
  BY CallEffect, CallSetValueEffect, WorksEffect, WaitEffect, MoveEffect,
     IdleEffect
     DEF IInv, Step, Stays

LEMMA LocalStep ==
    ASSUME IInv, NEW p \in Procs, Step(p)
    PROVE  AllLocal'
<1>1. Local(procs[p]) /\ TypeOK /\ procs[p] \in Process
  BY DEF IInv, AllLocal, TypeOK
<1>2. SUFFICES Local(procs'[p])
  BY ProcsStep DEF IInv, AllLocal, Kept
<1>3. CASE Call(p)
  BY <1>1, <1>3, CallEffect DEF Local, Locked, InsidePlaces, SetPlaces, Places
<1>4. CASE CallSetValue(p)
  BY <1>1, <1>4, CallSetValueEffect DEF Local, Locked, InsidePlaces,
     SetPlaces, Places
<1>5. CASE Works(p)
  BY <1>5, WorksEffect DEF IInv
<1>6. CASE Wait(p)
  <2>1. procs[p].pc = "wait"
    BY <1>6 DEF Wait, At
  <2> QED
    BY <1>1, <1>6, <2>1, WaitEffect DEF Local, Locked, InsidePlaces,
       SetPlaces, Places,
       SameArgs, SameBlocks
<1>7. CASE Post(p) \/ Return(p)
  BY <1>1, <1>7, IdleEffect DEF Local, Locked, InsidePlaces, SetPlaces, Places
<1>8. CASE WaitFails(p)
  BY <1>1, <1>8, MoveEffect, MovePlaces DEF Local, Locked, InsidePlaces,
     SetPlaces, Places,
     Stays, SameArgs, SameBlocks, SameLock
<1>9. CASE Exit(p)
  BY <1>1, <1>9, MoveEffect, MovePlaces DEF Local, Locked, InsidePlaces,
     SetPlaces, Places,
     Stays, SameArgs, SameBlocks, SameLock
<1>10. CASE Die(p)
  BY <1>1, <1>10, MoveEffect, MovePlaces DEF Local, Locked, InsidePlaces,
     SetPlaces, Places,
     Stays, SameArgs, SameBlocks, SameLock
<1> QED
  BY <1>3, <1>4, <1>5, <1>6, <1>7, <1>8, <1>9, <1>10 DEF Step

\* Nobody takes the semaphore or starts set_value while another is inside.
LEMMA ExclusiveStep ==
    ASSUME Disciplined, IInv, NEW p \in Procs, Step(p)
    PROVE  Exclusive'
<1>1. /\ Local(procs[p]) /\ TypeOK /\ procs[p] \in Process /\ Exclusive
      /\ \A q \in Procs : Local(procs[q]) /\ procs[q].lock \in BOOLEAN
  BY DEF IInv, AllLocal, TypeOK, Process
<1>2. SUFFICES ASSUME NEW q \in Procs \ {p}
               PROVE  /\ ~(procs'[p].lock /\ procs[q].lock)
                      /\ procs'[p].op = "set" => procs[q].op = "none"
                      /\ procs[q].op = "set" => procs'[p].op = "none"
  BY <1>1, ProcsStep DEF Exclusive, Kept
<1>3. /\ ~(procs[p].lock /\ procs[q].lock)
      /\ procs[p].op = "set" => procs[q].op = "none"
      /\ procs[q].op = "set" => procs[p].op = "none"
  BY <1>1 DEF Exclusive
<1>4. CASE Call(p)
  <2>1. procs[q].op # "set"
    BY <1>4 DEF Call
  <2> QED
    BY <1>1, <1>4, <2>1, CallEffect DEF Locked
<1>5. CASE CallSetValue(p)
  <2>1. procs[q].op = "none"
    BY <1>5 DEF CallSetValue, Alone, Using
  <2> QED
    BY <1>1, <1>5, <2>1, CallSetValueEffect
<1>6. CASE Works(p)
  BY <1>3, <1>6, WorksEffect DEF IInv, SameArgs, SameLock
<1>7. CASE Wait(p)
  <2>1. sem = 1 /\ procs[p].pc = "wait"
    BY <1>1, <1>7 DEF Wait, At, TypeOK
  <2>2. ~procs[q].lock
    BY <2>1 DEF IInv, SemaphoreInv
  <2> QED
    BY <1>1, <1>3, <1>7, <2>2, WaitEffect DEF SameArgs
<1>8. CASE Post(p) \/ Return(p)
  BY <1>1, <1>8, IdleEffect
<1>9. CASE WaitFails(p) \/ Exit(p) \/ Die(p)
  BY <1>1, <1>3, <1>9, MoveEffect DEF Stays, SameArgs, SameLock
<1> QED
  BY <1>4, <1>5, <1>6, <1>7, <1>8, <1>9 DEF Step

\* The semaphore is 1 when nobody has it, 0 when one has, -1 when all are gone.
LEMMA SemaphoreStep ==
    ASSUME Disciplined, IInv, NEW p \in Procs, Step(p)
    PROVE  SemaphoreInv' /\ sem' \in {-1, 0, 1}
<1>1. /\ Local(procs[p]) /\ TypeOK /\ procs[p] \in Process /\ SemaphoreInv
      /\ Exclusive /\ Kept(p) /\ sem \in {-1, 0, 1}
  BY ProcsStep DEF IInv, AllLocal, TypeOK
<1>2. CASE Works(p) \/ Die(p) \/ WaitFails(p)
  <2>1. /\ SameLock(p) /\ sem' = sem /\ procs[p].pc \notin {"ended", "dead"}
    BY <1>1, <1>2, WorksEffect, MoveEffect, MovePlaces DEF IInv, InsidePlaces,
       Stays
  <2> QED
    BY <1>1, <2>1 DEF SemaphoreInv, Kept, SameLock
<1>3. CASE Call(p) \/ CallSetValue(p)
  <2>1. ~procs'[p].lock /\ sem' = sem /\ procs[p].pc = "idle"
    BY <1>1, <1>3, CallEffect, CallSetValueEffect DEF Call, CallSetValue, At
  <2>2. ~procs[p].lock
    BY <1>1, <2>1 DEF Local, Locked
  <2> QED
    BY <1>1, <2>1, <2>2 DEF SemaphoreInv, Kept
<1>4. CASE Wait(p)
  <2>1. sem > 0 /\ sem' = sem - 1
    BY <1>4 DEF Wait
  <2>2. sem = 1 /\ sem' = 0 /\ procs'[p].lock
    BY <1>1, <1>4, <2>1, WaitEffect
  <2> QED
    BY <1>1, <2>2 DEF SemaphoreInv, Kept
<1>5. CASE Post(p)
  <2>1. procs[p].pc = "release" /\ sem' = sem + 1 /\ ~procs'[p].lock
    BY <1>1, <1>5, IdleEffect DEF Post, At
  <2>2. procs[p].lock
    BY <1>1, <2>1 DEF Local
  <2>3. sem = 0
    BY <1>1, <2>1, <2>2 DEF SemaphoreInv
  <2> QED
    BY <1>1, <2>1, <2>2, <2>3 DEF SemaphoreInv, Kept, Exclusive
<1>6. CASE Return(p)
  <2>1. procs[p].pc = "return" /\ sem' = sem /\ ~procs'[p].lock
    BY <1>1, <1>6, IdleEffect DEF Return, At
  <2>2. ~procs[p].lock
    BY <1>1, <2>1 DEF Local
  <2> QED
    BY <1>1, <2>1, <2>2 DEF SemaphoreInv, Kept
<1>7. CASE Exit(p)
  <2>1. SameLock(p) /\ procs[p].pc = "idle" /\ procs'[p].pc = "ended"
    BY <1>1, <1>7, MoveEffect, MovePlaces DEF Stays
  <2>2. CASE p = Creator
    <3>1. sem' = -1 /\ \A q \in Procs \ {p} : procs[q].pc \in {"ended", "dead"}
      BY <1>7, <2>2 DEF Exit
    <3> QED
      BY <1>1, <2>1, <3>1 DEF SemaphoreInv, Kept
  <2>3. CASE p # Creator
    <3>1. sem' = sem
      BY <1>7, <2>3 DEF Exit
    <3> QED
      BY <1>1, <2>1, <3>1 DEF SemaphoreInv, Kept, SameLock
  <2> QED
    BY <2>2, <2>3
<1> QED
  BY <1>2, <1>3, <1>4, <1>5, <1>6, <1>7 DEF Step
-----------------------------------------------------------------------------
(* Memory *)

\* What deallocate() leaves in use stays below the free pointer.
LEMMA DeallocateBelow ==
    ASSUME NEW f \in 0 .. Size, NEW a \in Address \union {None},
           NEW b \in Address \union {None}, b # None => b < f, Apart(a, b)
    PROVE  b # None => b < Deallocate(f, a)
  BY SizeAssumption, AddressAssumption DEF Deallocate, Address, Apart

\* A step that is not one of Works touches neither the map nor the allocator.
LEMMA OutsideStep ==
    ASSUME IInv, NEW p \in Procs, Step(p), ~Works(p)
    PROVE  /\ free' = free /\ tree' = tree
           /\ \/ procs'[p].temp = None /\ procs'[p].copy = None
              \/ SameBlocks(p)
           /\ procs'[p].pc \notin StorePlaces
<1>1. TypeOK
  BY DEF IInv
<1>2. CASE Call(p)
  BY <1>1, <1>2, CallEffect DEF Call, StorePlaces
<1>3. CASE CallSetValue(p)
  BY <1>1, <1>3, CallSetValueEffect DEF CallSetValue, StorePlaces
<1>4. CASE Wait(p)
  BY <1>1, <1>4, WaitEffect DEF Wait, StorePlaces
<1>5. CASE Post(p) \/ Return(p)
  BY <1>1, <1>5, IdleEffect DEF Post, Return, StorePlaces
<1>6. CASE WaitFails(p) \/ Exit(p) \/ Die(p)
  BY <1>1, <1>6, MoveEffect, MovePlaces DEF Stays, StorePlaces
<1> QED
  BY <1>2, <1>3, <1>4, <1>5, <1>6 DEF Step

\* While a process works, no other one has blocks or an address of its own.
LEMMA OthersOutside ==
    ASSUME IInv, NEW p \in Procs, Works(p), NEW q \in Procs \ {p}
    PROVE  /\ procs[q].temp = None /\ procs[q].copy = None
           /\ procs[q].pc \notin StorePlaces
<1>1. Local(procs[p]) /\ Local(procs[q]) /\ Exclusive /\ procs[p].pc \in InsidePlaces
  BY WorksEffect DEF IInv, AllLocal
<1>2. procs[p].lock \/ procs[p].op = "set"
  BY <1>1 DEF Local
<1>3. ~procs[q].lock /\ procs[q].op # "set"
  BY <1>1, <1>2 DEF Exclusive, Local, Locked
<1> QED
  BY <1>1, <1>3 DEF Local, StorePlaces, InsidePlaces, Places

LEMMA BeginStep ==
    ASSUME IInv, NEW p \in Procs, Step(p)
    PROVE  BeginCurrent'
<1>1. Kept(p) /\ TypeOK /\ AllLocal /\ BeginCurrent /\ ProcessBlocks
  BY ProcsStep DEF IInv
<1>2. CASE ~Works(p)
  BY <1>1, <1>2, OutsideStep DEF BeginCurrent, Kept
<1>3. CASE Works(p)
  <2>1. \A q \in Procs \ {p} : procs'[q].pc \notin StorePlaces
    BY <1>1, <1>3, OthersOutside DEF Kept
  <2>2. CASE LoadValue(p) \/ LoadNode(p) \/ LoadCopy(p)
    <3>1. procs'[p].begin = free /\ free < Size
      BY <1>1, <2>2, LoadEffect DEF LoadValue, LoadNode, LoadCopy, Places
    <3>2. free' = free
      BY <2>2 DEF LoadValue, LoadNode, LoadCopy, Load
    <3> QED
      BY <2>1, <3>1, <3>2 DEF BeginCurrent
  <2>3. CASE ~(LoadValue(p) \/ LoadNode(p) \/ LoadCopy(p))
    <3>1. procs'[p].pc \notin StorePlaces
      <4>1. CASE StoreValue(p) \/ StoreCopy(p)
        BY <1>1, <4>1, StoreValueEffect, StoreCopyEffect DEF StorePlaces
      <4>2. CASE StoreNode(p)
        BY <1>1, <4>2, StoreNodeEffect DEF StorePlaces
      <4>3. CASE BadAlloc(p)
        BY <1>1, <4>3, BadAllocEffect DEF StorePlaces
      <4>4. CASE FindPresent(p)
        BY <1>1, <4>4, FindPresentEffect DEF StorePlaces
      <4>5. CASE FindAbsent(p) \/ Clear(p)
        BY <1>1, <4>5, MovePlaces DEF StorePlaces
      <4>6. CASE Unlink(p)
        BY <1>1, <4>6, UnlinkEffect DEF StorePlaces
      <4>7. CASE Assign(p) \/ DropCopy(p)
        BY <1>1, <4>7, AssignEffect, DropCopyEffect DEF StorePlaces
      <4> QED
        BY <1>3, <2>3, <4>1, <4>2, <4>3, <4>4, <4>5, <4>6, <4>7 DEF Works
    <3> QED
      BY <2>1, <3>1 DEF BeginCurrent
  <2> QED
    BY <2>2, <2>3
<1> QED
  BY <1>2, <1>3

\* Types of what the memory lemmas speak about.
LEMMA BlockTypes ==
    ASSUME TypeOK
    PROVE  /\ free \in 0 .. Size
           /\ \A k \in Keys : /\ tree[k].data \in Address \union {None}
                              /\ tree[k].node \in Address \union {None}
           /\ \A p \in Procs : /\ procs[p].temp \in Address \union {None}
                               /\ procs[p].copy \in Address \union {None}
<1>1. \A k \in Keys : tree[k] \in Entry \union {NoEntry}
  BY DEF TypeOK
<1>2. \A p \in Procs : procs[p] \in Process
  BY DEF TypeOK
<1> QED
  BY <1>1, <1>2 DEF TypeOK, Entry, NoEntry, Process

LEMMA WorkKey ==
    ASSUME IInv, NEW p \in Procs, procs[p].pc \in {"node2", "assign"}
    PROVE  procs[p].key \in Keys
<1>1. Local(procs[p]) /\ procs[p].op \in Ops
  BY DEF IInv, AllLocal, TypeOK, Process
<1> QED
  BY <1>1 DEF Local, InsidePlaces, SetPlaces, Places, Locked
\* What Works(p) does to the free pointer and to p's blocks when the map stays.
Allocates(p) ==
    /\ free \in Address /\ free' = free + 1 /\ tree' = tree
    /\ \/ procs'[p].temp = free /\ procs'[p].copy = procs[p].copy
       \/ procs'[p].copy = free /\ procs'[p].temp = procs[p].temp
Frees(p) ==
    /\ tree' = tree
    /\ \/ /\ free' = Deallocate(free, procs[p].temp)
          /\ procs'[p].temp = None /\ procs'[p].copy = procs[p].copy
       \/ /\ free' = Deallocate(free, procs[p].copy)
          /\ procs'[p].copy = None /\ procs'[p].temp = procs[p].temp
Reads(p) == free' = free /\ tree' = tree /\ SameBlocks(p)

LEMMA WorkKinds ==
    ASSUME IInv, NEW p \in Procs, Works(p)
    PROVE  \/ Reads(p) \/ Allocates(p) \/ Frees(p)
           \/ StoreNode(p) \/ Unlink(p) \/ Assign(p)
<1>1. TypeOK /\ AllLocal /\ BeginCurrent
  BY DEF IInv
<1>2. CASE LoadValue(p) \/ LoadNode(p) \/ LoadCopy(p)
  <2>1. Stays(p)
    BY <1>1, <1>2, LoadEffect DEF LoadValue, LoadNode, LoadCopy, Places
  <2>2. free' = free /\ tree' = tree
    BY <1>2 DEF LoadValue, LoadNode, LoadCopy, Load
  <2> QED
    BY <2>1, <2>2 DEF Reads, Stays
<1>3. CASE FindAbsent(p) \/ Clear(p)
  BY <1>1, <1>3, MoveEffect DEF Reads, Stays
<1>4. CASE StoreValue(p) \/ StoreCopy(p)
  BY <1>1, <1>4, StoreValueEffect, StoreCopyEffect DEF Allocates
<1>5. CASE BadAlloc(p) \/ DropCopy(p)
  BY <1>1, <1>5, BadAllocEffect, DropCopyEffect DEF Frees
<1>6. CASE FindPresent(p)
  BY <1>1, <1>6, FindPresentEffect DEF Frees, Reads, SameBlocks
<1> QED
  BY <1>2, <1>3, <1>4, <1>5, <1>6 DEF Works

\* The new element has its own node and the string of the insertion.
LEMMA NewElement ==
    ASSUME IInv, NEW p \in Procs, StoreNode(p)
    PROVE  LET k == procs[p].key
               mine == procs[p].op = "insert"
           IN  /\ k \in Keys /\ free \in Address /\ free' = free + 1
               /\ tree'[k] \in Entry /\ tree'[k].node = free
               /\ tree'[k].data = IF mine THEN procs[p].temp ELSE None
               /\ \A l \in Keys \ {k} : tree'[l] = tree[l]
               /\ tree' \in [Keys -> Entry \union {NoEntry}]
               /\ procs'[p].copy = procs[p].copy
               /\ procs'[p].temp = IF mine THEN None ELSE procs[p].temp
<1> DEFINE k == procs[p].key
           mine == procs[p].op = "insert"
           e == [val |-> IF mine THEN procs[p].val ELSE Empty,
                 data |-> IF mine THEN procs[p].temp ELSE None, node |-> free]
<1>1. /\ TypeOK /\ AllLocal /\ BeginCurrent /\ procs[p] \in Process /\ Local(procs[p])
      /\ tree \in [Keys -> Entry \union {NoEntry}]
  BY DEF IInv, TypeOK, AllLocal
<1>2. /\ procs[p].pc = "node2" /\ free \in Address /\ free' = free + 1
      /\ tree' = [tree EXCEPT ![k] = e]
      /\ procs'[p].copy = procs[p].copy
      /\ procs'[p].temp = IF mine THEN None ELSE procs[p].temp
  BY <1>1, StoreNodeEffect
<1>3. k \in Keys
  BY <1>2, WorkKey
<1>4. mine => procs[p].val \in Vals
  BY <1>1 DEF Local
<1>5. e \in Entry
  BY <1>1, <1>2, <1>4 DEF Entry, Process
<1>6. e.node = free /\ e.data = IF mine THEN procs[p].temp ELSE None
  OBVIOUS
<1> HIDE DEF e
<1> QED
  BY <1>1, <1>2, <1>3, <1>5, <1>6

\* The element's string takes over the temporary's block, its node stays.
LEMMA NewString ==
    ASSUME IInv, NEW p \in Procs, Assign(p)
    PROVE  LET k == procs[p].key
           IN  /\ k \in Keys /\ free' = Deallocate(free, tree[k].data)
               /\ tree'[k] \in Entry
               /\ tree'[k].node = tree[k].node /\ tree'[k].data = procs[p].temp
               /\ \A l \in Keys \ {k} : tree'[l] = tree[l]
               /\ tree' \in [Keys -> Entry \union {NoEntry}]
               /\ procs'[p].copy = procs[p].copy /\ procs'[p].temp = None
<1> DEFINE k == procs[p].key
           v == procs[p].val
           t == procs[p].temp
           e == [tree[k] EXCEPT !.val = v, !.data = t]
<1>1. /\ TypeOK /\ procs[p] \in Process /\ Local(procs[p])
      /\ tree \in [Keys -> Entry \union {NoEntry}]
  BY DEF IInv, TypeOK, AllLocal
<1>2. /\ procs[p].pc = "assign" /\ Has(k)
      /\ free' = Deallocate(free, tree[k].data)
      /\ tree' = [tree EXCEPT ![k].val = v, ![k].data = t]
      /\ procs'[p].copy = procs[p].copy /\ procs'[p].temp = None
  BY <1>1, AssignEffect
<1>3. k \in Keys
  BY <1>2, WorkKey
<1>4. tree[k] \in Entry /\ v \in Vals /\ t \in Address \union {None}
  <2>1. procs[p].op = "set"
    BY <1>1, <1>2 DEF Local, SetPlaces
  <2> QED
    BY <1>1, <1>2, <1>3, <2>1 DEF Has, Local, Process
<1> HIDE DEF v, t, k
<1>5. tree' = [tree EXCEPT ![k] = e]
  BY <1>1, <1>2, <1>3
<1>6. e \in Entry /\ e.node = tree[k].node /\ e.data = t
  BY <1>4 DEF Entry
<1> HIDE DEF e
<1>7. tree'[k] = e /\ \A l \in Keys \ {k} : tree'[l] = tree[l]
  BY <1>1, <1>3, <1>5
<1>8. tree' \in [Keys -> Entry \union {NoEntry}]
  BY <1>1, <1>3, <1>5, <1>6
<1> QED
  BY <1>2, <1>3, <1>6, <1>7, <1>8 DEF k, t

LEMMA NoElement ==
    ASSUME IInv, NEW p \in Procs, Unlink(p)
    PROVE  /\ SameBlocks(p)
           /\ tree' \in [Keys -> Entry \union {NoEntry}]
           /\ \E k \in Keys :
                 /\ free' = Deallocate(Deallocate(free, tree[k].data), tree[k].node)
                 /\ tree'[k].data = None /\ tree'[k].node = None
                 /\ \A l \in Keys \ {k} : tree'[l] = tree[l]
<1>1. TypeOK /\ AllLocal /\ tree \in [Keys -> Entry \union {NoEntry}]
  BY DEF IInv, TypeOK
<1>2. SameBlocks(p)
  BY <1>1, UnlinkEffect DEF Stays
<1>3. PICK k \in Keys :
        /\ tree' = [tree EXCEPT ![k] = NoEntry]
        /\ free' = Deallocate(Deallocate(free, tree[k].data), tree[k].node)
  BY <1>1, UnlinkEffect
<1>4. /\ tree'[k].data = None /\ tree'[k].node = None
      /\ \A l \in Keys \ {k} : tree'[l] = tree[l]
  BY <1>1, <1>3 DEF NoEntry
<1>5. tree' \in [Keys -> Entry \union {NoEntry}]
  BY <1>1, <1>3
<1> QED
  BY <1>2, <1>3, <1>4, <1>5
LEMMA TypeStep ==
    ASSUME Disciplined, IInv, NEW p \in Procs, Step(p)
    PROVE  TypeOK'
<1>1. TypeOK /\ procs' \in [Procs -> Process] /\ sem' \in {-1, 0, 1}
  BY ProcsStep, SemaphoreStep DEF IInv, Kept
<1>2. calls' \in 0 .. MaxCalls
  <2>1. calls \in 0 .. MaxCalls
    BY <1>1 DEF TypeOK
  <2>2. CASE Call(p) \/ CallSetValue(p)
    <3>1. calls < MaxCalls /\ calls' = calls + 1
      BY <2>2 DEF Call, CallSetValue
    <3> QED
      BY <2>1, <3>1, SizeAssumption
  <2>3. CASE Works(p)
    BY <2>1, <2>3, WorksEffect DEF IInv
  <2>4. CASE Wait(p) \/ WaitFails(p) \/ Post(p) \/ Return(p) \/ Exit(p) \/ Die(p)
    BY <2>1, <2>4 DEF Wait, WaitFails, Post, Return, Exit, Die
  <2> QED
    BY <2>2, <2>3, <2>4 DEF Step
<1>3. free' \in 0 .. Size /\ tree' \in [Keys -> Entry \union {NoEntry}]
  <2>1. free \in 0 .. Size /\ tree \in [Keys -> Entry \union {NoEntry}]
    BY <1>1 DEF TypeOK
  <2>2. CASE ~Works(p)
    BY <2>1, <2>2, OutsideStep
  <2>3. CASE Reads(p)
    BY <2>1, <2>3 DEF Reads
  <2>4. CASE Allocates(p)
    BY <2>1, <2>4, SizeAssumption DEF Allocates, Address
  <2>5. CASE Frees(p)
    BY <1>1, <2>1, <2>5, BlockTypes, DeallocateType DEF Frees
  <2>6. CASE StoreNode(p)
    BY <2>6, NewElement, SizeAssumption DEF Address
  <2>7. CASE Unlink(p)
    <3>1. PICK k \in Keys :
             free' = Deallocate(Deallocate(free, tree[k].data), tree[k].node)
      BY <2>7, NoElement
    <3>2. Deallocate(free, tree[k].data) \in 0 .. Size
      BY <1>1, <2>1, BlockTypes, DeallocateType
    <3>3. free' \in 0 .. Size
      BY <1>1, <3>1, <3>2, BlockTypes, DeallocateType
    <3> QED
      BY <2>7, <3>3, NoElement
  <2>8. CASE Assign(p)
    BY <1>1, <2>1, <2>8, NewString, BlockTypes, DeallocateType
  <2> QED
    BY <2>2, <2>3, <2>4, <2>5, <2>6, <2>7, <2>8, WorkKinds
<1> QED
  BY <1>1, <1>2, <1>3 DEF TypeOK

\* The elements' blocks stay below the free pointer and apart.
LEMMA KeyBlocksStep ==
    ASSUME IInv, NEW p \in Procs, Step(p)
    PROVE  KeyBlocks'
<1>1. TypeOK /\ KeyBlocks /\ ProcessBlocks
  BY DEF IInv
<1>2. /\ free \in 0 .. Size
      /\ \A k \in Keys : /\ tree[k].data \in Address \union {None}
                         /\ tree[k].node \in Address \union {None}
      /\ procs[p].temp \in Address \union {None}
      /\ procs[p].copy \in Address \union {None}
  BY <1>1, BlockTypes
<1>3. CASE ~Works(p)
  BY <1>1, <1>3, OutsideStep DEF KeyBlocks, Below
<1>4. CASE Reads(p)
  BY <1>1, <1>4 DEF KeyBlocks, Reads, Below
<1>5. CASE Allocates(p)
  BY <1>1, <1>2, <1>5, AddressAssumption DEF KeyBlocks, Allocates, Below,
     Address
<1>6. CASE Frees(p)
  <2>1. PICK a \in Address \union {None} :
          /\ free' = Deallocate(free, a)
          /\ \A k \in Keys : Apart(a, tree[k].data) /\ Apart(a, tree[k].node)
    BY <1>1, <1>2, <1>6 DEF Frees, ProcessBlocks
  <2>2. \A k \in Keys : /\ tree[k].data # None => tree[k].data < free'
                        /\ tree[k].node # None => tree[k].node < free'
    BY <1>1, <1>2, <2>1, DeallocateBelow DEF KeyBlocks, Below
  <2>3. tree' = tree
    BY <1>6 DEF Frees
  <2> QED
    BY <1>1, <2>2, <2>3 DEF KeyBlocks, Below
<1>7. CASE StoreNode(p)
  <2> DEFINE k == procs[p].key
  <2>1. /\ k \in Keys /\ free \in Address /\ free' = free + 1 /\ tree'[k].node = free
        /\ tree'[k].data \in {None, procs[p].temp}
        /\ \A l \in Keys \ {k} : tree'[l] = tree[l]
    BY <1>7, NewElement
  <2> HIDE DEF k
  <2>2. /\ Below(procs[p].temp)
        /\ \A l \in Keys : /\ Apart(procs[p].temp, tree[l].data)
                           /\ Apart(procs[p].temp, tree[l].node)
                           /\ Below(tree[l].data) /\ Below(tree[l].node)
    BY <1>1 DEF ProcessBlocks, KeyBlocks
  <2>3. /\ tree'[k].data # None => tree'[k].data < free' /\ tree'[k].data # tree'[k].node
        /\ tree'[k].node < free'
    BY <1>2, <2>1, <2>2, AddressAssumption DEF Below, Address
  <2>4. \A l \in Keys \ {k} :
          /\ tree'[l].data # None => tree'[l].data < free' /\ tree'[l].data # tree'[k].node
          /\ tree'[l].node # None => tree'[l].node < free' /\ tree'[l].node # tree'[k].node
          /\ tree'[k].data # None => /\ tree'[k].data # tree'[l].data
                                     /\ tree'[k].data # tree'[l].node
    BY <1>2, <2>1, <2>2, AddressAssumption DEF Below, Apart, Address
  <2>5. free # None
    BY <2>1, AddressAssumption DEF Address
  <2> QED
    BY <1>1, <2>1, <2>3, <2>4, <2>5 DEF KeyBlocks, Below, Apart
<1>8. CASE Unlink(p)
  <2>1. PICK k \in Keys :
                 /\ free' = Deallocate(Deallocate(free, tree[k].data), tree[k].node)
                 /\ tree'[k].data = None /\ tree'[k].node = None
                 /\ \A l \in Keys \ {k} : tree'[l] = tree[l]
    BY <1>8, NoElement
  <2> DEFINE f == Deallocate(free, tree[k].data)
  <2>2. f \in 0 .. Size
    BY <1>2, DeallocateType
  <2>3. \A l \in Keys \ {k} : /\ tree[l].data # None => tree[l].data < f
                              /\ tree[l].node # None => tree[l].node < f
    BY <1>1, <1>2, DeallocateBelow DEF KeyBlocks, Below
  <2> HIDE DEF f
  <2>4. free' = Deallocate(f, tree[k].node)
    BY <2>1 DEF f
  <2>5. \A l \in Keys \ {k} : /\ tree[l].data # None => tree[l].data < free'
                              /\ tree[l].node # None => tree[l].node < free'
    BY <1>1, <1>2, <2>2, <2>3, <2>4, DeallocateBelow DEF KeyBlocks
  <2> QED
    BY <1>1, <2>1, <2>5 DEF KeyBlocks, Below, Apart
<1>9. CASE Assign(p)
  <2> DEFINE k == procs[p].key
  <2>1. /\ k \in Keys /\ free' = Deallocate(free, tree[k].data)
        /\ tree'[k].node = tree[k].node /\ tree'[k].data = procs[p].temp
        /\ \A l \in Keys \ {k} : tree'[l] = tree[l]
    BY <1>9, NewString
  <2> HIDE DEF k
  <2>2. /\ Below(procs[p].temp)
        /\ \A l \in Keys : /\ Apart(procs[p].temp, tree[l].data)
                           /\ Apart(procs[p].temp, tree[l].node)
    BY <1>1 DEF ProcessBlocks
  <2>3. \A l \in Keys \ {k} : /\ tree[l].data # None => tree[l].data < free'
                              /\ tree[l].node # None => tree[l].node < free'
    BY <1>1, <1>2, <2>1, DeallocateBelow DEF KeyBlocks, Below
  <2>4. tree[k].node # None => tree[k].node < free'
    BY <1>1, <1>2, <2>1, DeallocateBelow DEF KeyBlocks, Below
  <2>5. Apart(tree[k].data, procs[p].temp)
    BY <2>1, <2>2 DEF Apart
  <2>6. procs[p].temp # None => procs[p].temp < free'
    BY <1>2, <2>1, <2>2, <2>5, DeallocateBelow DEF Below
  <2> QED
    BY <1>1, <2>1, <2>2, <2>3, <2>4, <2>6 DEF KeyBlocks, Below, Apart
<1> QED
  BY <1>3, <1>4, <1>5, <1>6, <1>7, <1>8, <1>9, WorkKinds

\* So do the blocks of the processes, which differ from the elements'.
LEMMA ProcessBlocksStep ==
    ASSUME IInv, NEW p \in Procs, Step(p)
    PROVE  ProcessBlocks'
<1>1. TypeOK /\ KeyBlocks /\ ProcessBlocks /\ Kept(p) /\ Local(procs[p])
  BY ProcsStep DEF IInv, AllLocal
<1>2. /\ free \in 0 .. Size
      /\ \A k \in Keys : /\ tree[k].data \in Address \union {None}
                         /\ tree[k].node \in Address \union {None}
      /\ procs[p].temp \in Address \union {None}
      /\ procs[p].copy \in Address \union {None}
  BY <1>1, BlockTypes
<1>3. CASE ~Works(p)
  <2>1. free' = free /\ tree' = tree
    BY <1>3, OutsideStep
  <2>2. (procs'[p].temp = None /\ procs'[p].copy = None) \/ SameBlocks(p)
    BY <1>3, OutsideStep
  <2> QED
    BY <1>1, <2>1, <2>2 DEF ProcessBlocks, Kept, SameBlocks, Below, Apart
<1>4. CASE Works(p)
  <2>1. SUFFICES
          /\ procs'[p].temp # None => procs'[p].temp < free'
          /\ procs'[p].copy # None => procs'[p].copy < free'
          /\ \A k \in Keys :
             /\ Apart(procs'[p].temp, tree'[k].data) /\ Apart(procs'[p].temp, tree'[k].node)
             /\ Apart(procs'[p].copy, tree'[k].data) /\ Apart(procs'[p].copy, tree'[k].node)
    <3>1. \A q \in Procs \ {p} : procs'[q].temp = None /\ procs'[q].copy = None
      BY <1>1, <1>4, OthersOutside DEF Kept
    <3> QED
      BY <3>1 DEF ProcessBlocks, Below, Apart
  <2>2. /\ Below(procs[p].temp) /\ Below(procs[p].copy)
        /\ \A k \in Keys :
             /\ Apart(procs[p].temp, tree[k].data) /\ Apart(procs[p].temp, tree[k].node)
             /\ Apart(procs[p].copy, tree[k].data) /\ Apart(procs[p].copy, tree[k].node)
    BY <1>1 DEF ProcessBlocks
  <2>3. procs[p].temp # None => procs[p].temp # procs[p].copy
    BY <1>1 DEF Local
  <2>4. CASE Reads(p)
    BY <2>2, <2>4 DEF Reads, SameBlocks, Below
  <2>5. CASE Allocates(p)
    <3>1. \A k \in Keys : Apart(free, tree[k].data) /\ Apart(free, tree[k].node)
      BY <1>1, <1>2, <2>5, AddressAssumption DEF KeyBlocks, Below, Apart,
         Address
    <3>2. /\ procs[p].temp # None => procs[p].temp < free + 1
          /\ procs[p].copy # None => procs[p].copy < free + 1
      BY <1>2, <2>2 DEF Below, Address
    <3>3. free < free + 1
      BY <1>2
    <3> QED
      BY <2>2, <2>5, <3>1, <3>2, <3>3 DEF Allocates
  <2>6. CASE Frees(p)
    <3>1. CASE /\ free' = Deallocate(free, procs[p].temp)
               /\ procs'[p].temp = None /\ procs'[p].copy = procs[p].copy
      <4>1. procs[p].copy # None => procs[p].copy < free'
        BY <1>2, <2>2, <2>3, <3>1, DeallocateBelow DEF Below, Apart
      <4> QED
        BY <2>2, <2>6, <3>1, <4>1 DEF Frees, Apart
    <3>2. CASE /\ free' = Deallocate(free, procs[p].copy)
               /\ procs'[p].copy = None /\ procs'[p].temp = procs[p].temp
      <4>1. procs[p].temp # None => procs[p].temp < free'
        BY <1>2, <2>2, <2>3, <3>2, DeallocateBelow DEF Below, Apart
      <4> QED
        BY <2>2, <2>6, <3>2, <4>1 DEF Frees, Apart
    <3> QED
      BY <2>6, <3>1, <3>2 DEF Frees
  <2>7. CASE StoreNode(p)
    <3> DEFINE k == procs[p].key
               mine == procs[p].op = "insert"
    <3>1. /\ k \in Keys /\ free \in Address /\ free' = free + 1 /\ tree'[k].node = free
          /\ tree'[k].data = IF mine THEN procs[p].temp ELSE None
          /\ \A l \in Keys \ {k} : tree'[l] = tree[l]
          /\ procs'[p].copy = procs[p].copy
          /\ procs'[p].temp = IF mine THEN None ELSE procs[p].temp
      BY <2>7, NewElement
    <3> HIDE DEF k, mine
    <3>2. /\ procs[p].temp # None => procs[p].temp < free + 1 /\ procs[p].temp # free
          /\ procs[p].copy # None => procs[p].copy < free + 1 /\ procs[p].copy # free
      BY <1>2, <2>2 DEF Below, Address
    <3> QED
      BY <2>2, <2>3, <3>1, <3>2 DEF Apart
  <2>8. CASE Unlink(p)
    <3>1. PICK k \in Keys :
                 /\ free' = Deallocate(Deallocate(free, tree[k].data), tree[k].node)
                 /\ tree'[k].data = None /\ tree'[k].node = None
                 /\ \A l \in Keys \ {k} : tree'[l] = tree[l]
      BY <2>8, NoElement
    <3>2. SameBlocks(p)
      BY <2>8, NoElement
    <3> DEFINE f == Deallocate(free, tree[k].data)
    <3>3. f \in 0 .. Size
      BY <1>2, DeallocateType
    <3>4. /\ Apart(tree[k].data, procs[p].temp) /\ Apart(tree[k].data, procs[p].copy)
          /\ Apart(tree[k].node, procs[p].temp) /\ Apart(tree[k].node, procs[p].copy)
      BY <2>2 DEF Apart
    <3>5. /\ procs[p].temp # None => procs[p].temp < f
          /\ procs[p].copy # None => procs[p].copy < f
      BY <1>2, <2>2, <3>4, DeallocateBelow DEF Below
    <3> HIDE DEF f
    <3>6. free' = Deallocate(f, tree[k].node)
      BY <3>1 DEF f
    <3>7. /\ procs[p].temp # None => procs[p].temp < free'
          /\ procs[p].copy # None => procs[p].copy < free'
      BY <1>2, <3>3, <3>4, <3>5, <3>6, DeallocateBelow
    <3> QED
      BY <2>2, <3>1, <3>2, <3>7 DEF SameBlocks, Apart
  <2>9. CASE Assign(p)
    <3> DEFINE k == procs[p].key
    <3>1. /\ k \in Keys /\ free' = Deallocate(free, tree[k].data)
          /\ tree'[k].node = tree[k].node /\ tree'[k].data = procs[p].temp
          /\ \A l \in Keys \ {k} : tree'[l] = tree[l]
          /\ procs'[p].copy = procs[p].copy /\ procs'[p].temp = None
      BY <2>9, NewString
    <3> HIDE DEF k
    <3>2. Apart(tree[k].data, procs[p].copy)
      BY <2>2, <3>1 DEF Apart
    <3>3. procs[p].copy # None => procs[p].copy < free'
      BY <1>2, <2>2, <3>1, <3>2, DeallocateBelow DEF Below
    <3> QED
      BY <2>2, <2>3, <3>1, <3>3 DEF Apart
  <2> QED
    BY <1>4, <2>4, <2>5, <2>6, <2>7, <2>8, <2>9, WorkKinds
<1> QED
  BY <1>3, <1>4
-----------------------------------------------------------------------------
(* The invariant, and what follows from it *)

LEMMA IInvInit == Init => IInv
<1> SUFFICES ASSUME Init PROVE IInv
  OBVIOUS
<1>1. /\ sem = 1 /\ free = 0 /\ calls = 0
      /\ \A k \in Keys : tree[k] = NoEntry
      /\ \A p \in Procs : procs[p] = Idle
      /\ tree \in [Keys -> {NoEntry}] /\ procs \in [Procs -> Process]
  BY IdleType DEF Init
<1>2. /\ \A p \in Procs : /\ procs[p].pc = "idle" /\ procs[p].op = "none"
                          /\ ~procs[p].lock /\ procs[p].temp = None
                          /\ procs[p].copy = None
  BY <1>1 DEF Idle
<1>3. \A k \in Keys : tree[k].data = None /\ tree[k].node = None
  BY <1>1 DEF NoEntry
<1>4. TypeOK
  BY <1>1, SizeAssumption DEF TypeOK
<1>5. AllLocal
  BY <1>2 DEF AllLocal, Local, InsidePlaces, SetPlaces, Places
<1>6. Exclusive /\ SemaphoreInv /\ BeginCurrent
  BY <1>1, <1>2 DEF Exclusive, SemaphoreInv, BeginCurrent, StorePlaces
<1>7. KeyBlocks /\ ProcessBlocks
  BY <1>2, <1>3 DEF KeyBlocks, ProcessBlocks, Below, Apart
<1> QED
  BY <1>4, <1>5, <1>6, <1>7 DEF IInv

LEMMA IInvNext == Disciplined /\ IInv /\ [Next]_vars => IInv'
<1> SUFFICES ASSUME Disciplined, IInv, [Next]_vars PROVE IInv'
  OBVIOUS
<1>1. CASE Next
  <2>1. PICK p \in Procs : Step(p)
    BY <1>1, NextIsStep
  <2> QED
    BY <2>1, TypeStep, LocalStep, ExclusiveStep, SemaphoreStep, BeginStep,
       KeyBlocksStep, ProcessBlocksStep DEF IInv
<1>2. CASE UNCHANGED vars
  BY <1>2 DEF vars, IInv, TypeOK, AllLocal, Exclusive, SemaphoreInv,
     BeginCurrent,
     KeyBlocks, ProcessBlocks, Below
<1> QED
  BY <1>1, <1>2

\* Every state of a disciplined use satisfies the invariant.
THEOREM ShmInvariant == ASSUME Disciplined PROVE Spec => []IInv
<1>1. Init => IInv
  BY IInvInit
<1>2. IInv /\ [Next]_vars => IInv'
  BY IInvNext
<1> QED
  BY <1>1, <1>2, PTL DEF Spec

\* Semaphore, free pointer, tree and the records of the processes keep their
\* types: the free pointer never leaves the mapping (Allocator.hpp:42-67).
THEOREM ShmTypes == ASSUME Disciplined PROVE Spec => []TypeOK
<1>1. IInv => TypeOK
  BY DEF IInv
<1> QED
  BY <1>1, ShmInvariant, PTL

\* The semaphore counts the locks that are alive, one at most, and is not
\* destroyed under anybody, whatever fails and whoever dies (Semaphore.cpp).
THEOREM SemaphoreCounts == ASSUME Disciplined PROVE Spec => []SemaphoreSound
<1>1. ASSUME IInv PROVE SemaphoreSound
  <2>1. /\ SemaphoreInv /\ Exclusive /\ sem \in {-1, 0, 1}
        /\ \A p \in Procs : procs[p].lock \in BOOLEAN
    BY <1>1 DEF IInv, TypeOK, Process
  <2>2. CASE sem = -1
    BY <2>1, <2>2 DEF SemaphoreSound, SemaphoreInv
  <2>3. CASE sem = 0
    <3>1. PICK p \in Procs : procs[p].lock
      BY <2>1, <2>3 DEF SemaphoreInv
    <3>2. Holders = {p}
      BY <2>1, <3>1 DEF Holders, Exclusive
    <3>3. Cardinality(Holders) = 1
      BY <3>2, FS_Singleton
    <3> QED
      BY <2>3, <3>3 DEF SemaphoreSound
  <2>4. CASE sem = 1
    <3>1. Holders = {}
      BY <2>1, <2>4 DEF Holders, SemaphoreInv
    <3>2. Cardinality(Holders) = 0
      BY <3>1, FS_EmptySet
    <3> QED
      BY <2>4, <3>2 DEF SemaphoreSound
  <2> QED
    BY <2>1, <2>2, <2>3, <2>4
<1> QED
  BY <1>1, ShmInvariant, PTL

\* One process at a time is inside the map or the allocator (README.md:38), as
\* long as set_value is called by a process that is alone.
THEOREM OneInside == ASSUME Disciplined PROVE Spec => []OneAtATime
<1>1. ASSUME IInv PROVE OneAtATime
  <2>1. /\ AllLocal /\ Exclusive
        /\ \A p \in Procs : procs[p].pc \in Places
    BY <1>1 DEF IInv, TypeOK, Process
  <2>2. \A p \in Procs : Inside(p) => procs[p].pc \in InsidePlaces
    BY <2>1 DEF Inside, InsidePlaces
  <2>3. \A p \in Procs : Inside(p) => procs[p].lock \/ procs[p].op = "set"
    BY <2>1, <2>2 DEF AllLocal, Local
  <2>4. \A p \in Procs : procs[p].lock => procs[p].op \in Locked
    BY <2>1 DEF AllLocal, Local
  <2> QED
    BY <2>1, <2>3, <2>4 DEF OneAtATime, Exclusive, Locked
<1> QED
  BY <1>1, ShmInvariant, PTL

\* Blocks in use are below the free pointer and have one user each, although
\* deallocate() moves the pointer back (Allocator.hpp:62).
THEOREM BlocksHaveOneUser == ASSUME Disciplined PROVE Spec => []BlocksDisjoint
<1>1. ASSUME IInv PROVE BlocksDisjoint
  <2>1. KeyBlocks /\ ProcessBlocks /\ AllLocal /\ Exclusive
    BY <1>1 DEF IInv
  <2>2. \A p, q \in Procs : p # q =>
           \/ procs[p].temp = None /\ procs[p].copy = None
           \/ procs[q].temp = None /\ procs[q].copy = None
    <3> SUFFICES ASSUME NEW p \in Procs, NEW q \in Procs, p # q
                 PROVE  \/ procs[p].temp = None /\ procs[p].copy = None
                        \/ procs[q].temp = None /\ procs[q].copy = None
      OBVIOUS
    <3>1. Local(procs[p]) /\ Local(procs[q])
      BY <2>1 DEF AllLocal
    <3> QED
      BY <2>1, <3>1 DEF Local, Exclusive, Locked
  <2>3. \A o \in Keys \union Procs : \A a \in Used(o) : a < free
    BY <2>1 DEF KeyBlocks, ProcessBlocks, Below, Used
  <2>4. ASSUME NEW o \in Keys \union Procs, NEW q \in Keys \union Procs, o # q
        PROVE  Used(o) \intersect Used(q) = {}
    <3>1. CASE o \in Keys /\ q \in Keys
      BY <2>1, <2>4, <3>1 DEF KeyBlocks, Apart, Used
    <3>2. CASE o \in Keys /\ q \notin Keys
      BY <2>1, <3>2 DEF ProcessBlocks, Apart, Used
    <3>3. CASE o \notin Keys /\ q \in Keys
      BY <2>1, <3>3 DEF ProcessBlocks, Apart, Used
    <3>4. CASE o \notin Keys /\ q \notin Keys
      BY <2>2, <2>4, <3>4 DEF Used
    <3> QED
      BY <3>1, <3>2, <3>3, <3>4
  <2> QED
    BY <2>3, <2>4 DEF BlocksDisjoint
<1> QED
  BY <1>1, ShmInvariant, PTL
-----------------------------------------------------------------------------
(***************************************************************************)
(* ShmMap implements SharedMap, for any number of processes, keys, values  *)
(* and blocks, as long as set_value is called only while no other process  *)
(* uses the map: every step of a process is a step of the abstract map or  *)
(* leaves it alone.  Besides IInv this takes what an operation knows of    *)
(* its answer at each place (AnswerLocal), and that what it has found in   *)
(* the map is still so when it acts on it (Found).                         *)
(***************************************************************************)

\* What the answer is at each place of an operation.
AnswerLocal(r) ==
    /\ r.pc \in {"idle", "ended"} => r.key = None /\ r.val = None /\ r.ans = None
    /\ r.pc \in {"wait", "value", "value2", "find", "node", "node2", "assign"} =>
           r.ans = None
    /\ r.pc = "unlink" => r.ans = IF r.op = "clear" THEN "present" ELSE None
    /\ r.pc \in {"copy", "copy2", "drop", "release", "return"} => r.ans # None
    /\ r.op \notin {"insert", "set"} => r.val = None
    /\ r.op = "clear" => r.key = None
    /\ r.op = "clear" /\ r.ans = "present" => r.lock
AllAnswers == \A p \in Procs : AnswerLocal(procs[p])

\* What an operation has found out about the map still holds when it acts on it.
Found == \A p \in Procs :
    /\ procs[p].pc \in {"node", "node2"} => ~Has(procs[p].key)
    /\ procs[p].pc = "release" /\ procs[p].op = "clear" => \A k \in Keys : ~Has(k)

RInv == AllAnswers /\ Found
-----------------------------------------------------------------------------
(* Answers, action by action *)

LEMMA UpdateAnswer ==
    ASSUME TypeOK, NEW p \in Procs, NEW r, Set(p, r)
    PROVE  procs'[p] = r
  BY DEF TypeOK, Set

\* Most steps leave the answer alone.
LEMMA AnswerKept ==
    ASSUME TypeOK, NEW p \in Procs,
           \/ LoadValue(p) \/ LoadNode(p) \/ LoadCopy(p) \/ StoreValue(p) \/ StoreCopy(p)
           \/ Wait(p) \/ DropCopy(p) \/ Exit(p) \/ Die(p)
    PROVE  procs'[p].ans = procs[p].ans
<1>1. procs[p] \in Process
  BY DEF TypeOK
<1>2. CASE LoadValue(p) \/ LoadNode(p) \/ LoadCopy(p)
  <2>1. PICK n : Set(p, [procs[p] EXCEPT !.pc = n, !.begin = free])
    BY <1>2 DEF LoadValue, LoadNode, LoadCopy, Load
  <2>2. [procs[p] EXCEPT !.pc = n, !.begin = free].ans = procs[p].ans
    BY <1>1 DEF Process
  <2> QED
    BY <2>1, <2>2, UpdateAnswer
<1>3. CASE StoreValue(p)
  <2>1. [procs[p] EXCEPT !.pc = "find", !.temp = procs[p].begin,
                         !.begin = None].ans = procs[p].ans
    BY <1>1 DEF Process
  <2> QED
    BY <1>3, <2>1, UpdateAnswer DEF StoreValue
<1>4. CASE StoreCopy(p)
  <2>1. [procs[p] EXCEPT !.pc = "drop", !.copy = procs[p].begin,
                         !.begin = None].ans = procs[p].ans
    BY <1>1 DEF Process
  <2> QED
    BY <1>4, <2>1, UpdateAnswer DEF StoreCopy
<1>5. CASE Wait(p)
  <2>1. PICK n : Set(p, [procs[p] EXCEPT !.lock = TRUE, !.pc = n])
    BY <1>5 DEF Wait
  <2>2. [procs[p] EXCEPT !.lock = TRUE, !.pc = n].ans = procs[p].ans
    BY <1>1 DEF Process
  <2> QED
    BY <2>1, <2>2, UpdateAnswer
<1>6. CASE DropCopy(p)
  <2>1. [procs[p] EXCEPT !.pc = "return", !.copy = None].ans = procs[p].ans
    BY <1>1 DEF Process
  <2> QED
    BY <1>6, <2>1, UpdateAnswer DEF DropCopy
<1>7. CASE Exit(p) \/ Die(p)
  <2>1. PICK n : Set(p, [procs[p] EXCEPT !.pc = n])
    BY <1>7 DEF Exit, Die, Goto
  <2>2. [procs[p] EXCEPT !.pc = n].ans = procs[p].ans
    BY <1>1 DEF Process
  <2> QED
    BY <2>1, <2>2, UpdateAnswer
<1> QED
  BY <1>2, <1>3, <1>4, <1>5, <1>6, <1>7

LEMMA GotoAnswer ==
    ASSUME TypeOK, NEW p \in Procs, NEW n, Goto(p, n)
    PROVE  procs'[p].ans = procs[p].ans
<1>1. [procs[p] EXCEPT !.pc = n].ans = procs[p].ans
  BY DEF TypeOK, Process
<1> QED
  BY <1>1, UpdateAnswer DEF Goto

LEMMA AnswerAnswer ==
    ASSUME TypeOK, NEW p \in Procs, NEW n, NEW a, Answer(p, n, a)
    PROVE  procs'[p].ans = a
<1>1. [procs[p] EXCEPT !.pc = n, !.ans = a].ans = a
  BY DEF TypeOK, Process
<1> QED
  BY <1>1, UpdateAnswer DEF Answer

LEMMA CallAnswer ==
    ASSUME TypeOK, NEW p \in Procs, Call(p) \/ CallSetValue(p)
    PROVE  /\ procs[p].pc = "idle" /\ procs'[p].ans = None
           /\ procs'[p].op = "clear" => procs'[p].key = None
           /\ procs'[p].op \notin {"insert", "set"} => procs'[p].val = None
<1>1. procs[p].pc = "idle"
  BY DEF Call, CallSetValue, At
<1>2. CASE Call(p)
  <2>1. PICK op \in Locked : \E k \in (IF op = "clear" THEN {None} ELSE Keys) :
       \E v \in (IF op = "insert" THEN Vals ELSE {None}) :
           Set(p, [Idle EXCEPT !.pc = "wait", !.op = op, !.key = k, !.val = v])
    BY <1>2 DEF Call
  <2>2. PICK k \in (IF op = "clear" THEN {None} ELSE Keys),
              v \in (IF op = "insert" THEN Vals ELSE {None}) :
           Set(p, [Idle EXCEPT !.pc = "wait", !.op = op, !.key = k, !.val = v])
    BY <2>1
  <2> DEFINE r == [Idle EXCEPT !.pc = "wait", !.op = op, !.key = k, !.val = v]
  <2>3. r.ans = None /\ r.op = op /\ r.key = k /\ r.val = v
    BY DEF Idle
  <2>4. procs'[p] = r
    BY <2>2, UpdateAnswer
  <2> HIDE DEF r
  <2> QED
    BY <1>1, <2>3, <2>4
<1>3. CASE CallSetValue(p)
  <2>1. PICK k \in Keys, v \in Vals :
           Set(p, [Idle EXCEPT !.pc = "value", !.op = "set", !.key = k, !.val = v])
    BY <1>3 DEF CallSetValue
  <2> DEFINE r == [Idle EXCEPT !.pc = "value", !.op = "set", !.key = k, !.val = v]
  <2>2. r.ans = None /\ r.op = "set"
    BY DEF Idle
  <2>3. procs'[p] = r
    BY <2>1, UpdateAnswer
  <2> HIDE DEF r
  <2> QED
    BY <1>1, <2>2, <2>3
<1> QED
  BY <1>2, <1>3

LEMMA StoreNodeAnswer ==
    ASSUME TypeOK, NEW p \in Procs, StoreNode(p)
    PROVE  procs'[p].ans = CASE procs[p].op = "insert" -> "absent"
                             [] procs[p].op = "get" -> Empty
                             [] OTHER -> procs[p].ans
<1> DEFINE t == IF procs[p].op = "insert" THEN None ELSE procs[p].temp
           n == IF procs[p].op = "set" THEN "assign" ELSE "release"
           a == CASE procs[p].op = "insert" -> "absent"
                  [] procs[p].op = "get" -> Empty
                  [] OTHER -> procs[p].ans
           r == [procs[p] EXCEPT !.begin = None, !.temp = t, !.pc = n, !.ans = a]
<1>1. Set(p, r)
  BY DEF StoreNode
<1> HIDE DEF t, n, a
<1>2. r.ans = a
  BY DEF TypeOK, Process
<1> HIDE DEF r
<1> QED
  BY <1>1, <1>2, UpdateAnswer DEF a

LEMMA BadAllocAnswer ==
    ASSUME TypeOK, NEW p \in Procs, BadAlloc(p)
    PROVE  procs'[p].ans = "failed"
<1>1. [procs[p] EXCEPT !.pc = End(p), !.temp = None, !.ans = "failed"].ans = "failed"
  BY DEF TypeOK, Process
<1> QED
  BY <1>1, UpdateAnswer DEF BadAlloc

LEMMA FindPresentAnswer ==
    ASSUME TypeOK, AllLocal, NEW p \in Procs, FindPresent(p)
    PROVE  /\ Has(procs[p].key)
           /\ procs'[p].ans = CASE procs[p].op = "insert" -> "present"
                                [] procs[p].op = "get" -> tree[procs[p].key].val
                                [] OTHER -> procs[p].ans
<1>1. procs[p].op \in {"insert", "get", "erase", "set"}
  BY FindPresentEffect
<1>2. Has(procs[p].key)
  BY DEF FindPresent
<1>3. CASE procs[p].op = "insert"
  <2>1. [procs[p] EXCEPT !.pc = "release", !.temp = None, !.ans = "present"].ans
            = "present"
    BY DEF TypeOK, Process
  <2>2. procs'[p] = [procs[p] EXCEPT !.pc = "release", !.temp = None, !.ans = "present"]
    BY <1>3, UpdateAnswer DEF FindPresent
  <2> QED
    BY <1>2, <1>3, <2>1, <2>2
<1>4. CASE procs[p].op = "get"
  <2>1. Answer(p, "release", tree[procs[p].key].val)
    BY <1>4 DEF FindPresent
  <2> QED
    BY <1>2, <1>4, <2>1, AnswerAnswer
<1>5. CASE procs[p].op = "erase"
  <2>1. Goto(p, "unlink")
    BY <1>5 DEF FindPresent
  <2> QED
    BY <1>2, <1>5, <2>1, GotoAnswer
<1>6. CASE procs[p].op = "set"
  <2>1. Goto(p, "assign")
    BY <1>6 DEF FindPresent
  <2> QED
    BY <1>2, <1>6, <2>1, GotoAnswer
<1> QED
  BY <1>1, <1>3, <1>4, <1>5, <1>6

LEMMA MoveAnswer ==
    ASSUME TypeOK, NEW p \in Procs
    PROVE  /\ FindAbsent(p) =>
                 /\ ~Has(procs[p].key)
                 /\ IF procs[p].op = "erase"
                    THEN procs'[p].pc = "release" /\ procs'[p].ans = "absent"
                    ELSE procs'[p].pc = "node" /\ procs'[p].ans = procs[p].ans
           /\ Clear(p) =>
                 /\ procs'[p].ans = "present"
                 /\ procs'[p].pc = "release" => \A k \in Keys : ~Has(k)
           /\ WaitFails(p) => procs'[p].ans = "failed"
<1>1. ASSUME FindAbsent(p)
      PROVE  /\ ~Has(procs[p].key)
             /\ IF procs[p].op = "erase"
                THEN procs'[p].pc = "release" /\ procs'[p].ans = "absent"
                ELSE procs'[p].pc = "node" /\ procs'[p].ans = procs[p].ans
  BY <1>1, GotoAnswer, AnswerAnswer, GotoEffect, AnswerEffect
     DEF FindAbsent, Places, Answers
<1>2. ASSUME Clear(p)
      PROVE  /\ procs'[p].ans = "present"
             /\ procs'[p].pc = "release" => \A k \in Keys : ~Has(k)
  <2>1. CASE \E k \in Keys : Has(k)
    <3>1. Answer(p, "unlink", "present")
      BY <1>2, <2>1 DEF Clear
    <3> QED
      BY <3>1, AnswerAnswer, AnswerEffect DEF Places, Answers
  <2>2. CASE ~\E k \in Keys : Has(k)
    BY <1>2, <2>2, AnswerAnswer DEF Clear
  <2> QED
    BY <2>1, <2>2
<1>3. ASSUME WaitFails(p)
      PROVE  procs'[p].ans = "failed"
  BY <1>3, AnswerAnswer DEF WaitFails
<1> QED
  BY <1>1, <1>2, <1>3

LEMMA AssignAnswer ==
    ASSUME TypeOK, NEW p \in Procs, Assign(p)
    PROVE  procs'[p].ans = procs[p].val
<1>1. [procs[p] EXCEPT !.pc = "copy", !.temp = None, !.ans = procs[p].val].ans
          = procs[p].val
  BY DEF TypeOK, Process
<1> QED
  BY <1>1, UpdateAnswer DEF Assign

\* clear() goes on as long as there is an element; erase has one only.
LEMMA UnlinkAnswer ==
    ASSUME TypeOK, AllLocal, NEW p \in Procs, Unlink(p)
    PROVE  \E k \in Keys :
              /\ procs[p].op # "clear" => k = procs[p].key
              /\ Has(k) /\ tree' = [tree EXCEPT ![k] = NoEntry]
              /\ IF \E l \in Keys \ {k} : procs[p].op = "clear" /\ Has(l)
                 THEN procs' = procs
                 ELSE procs'[p].pc = "release" /\ procs'[p].ans = "present"
<1>1. PICK k \in (IF procs[p].op = "clear" THEN Keys ELSE {procs[p].key}) :
        /\ Has(k) /\ tree' = [tree EXCEPT ![k] = NoEntry]
        /\ IF \E l \in Keys \ {k} : procs[p].op = "clear" /\ Has(l)
           THEN UNCHANGED procs
           ELSE Answer(p, "release", "present")
  BY DEF Unlink
<1>2. k \in Keys
  <2>1. Local(procs[p]) /\ procs[p].pc = "unlink"
    BY DEF AllLocal, Unlink, At
  <2> QED
    BY <1>1, <2>1 DEF Local, Ops
<1>3. CASE Answer(p, "release", "present")
  <2>1. procs'[p].pc = "release" /\ procs'[p].ans = "present"
    BY <1>3, AnswerAnswer, AnswerEffect DEF Places, Answers
  <2> QED
    BY <1>1, <1>2, <2>1
<1> QED
  BY <1>1, <1>2, <1>3
-----------------------------------------------------------------------------
(* RInv is kept *)

LEMMA AnswersStep ==
    ASSUME IInv, AllAnswers, NEW p \in Procs, Step(p)
    PROVE  AllAnswers'
<1>1. /\ TypeOK /\ AllLocal /\ BeginCurrent /\ ProcessBlocks /\ Kept(p)
      /\ Local(procs[p]) /\ AnswerLocal(procs[p]) /\ procs[p].op \in Ops
  BY ProcsStep DEF IInv, AllLocal, AllAnswers, TypeOK, Process
<1>2. SUFFICES AnswerLocal(procs'[p])
  BY <1>1 DEF AllAnswers, Kept
<1>3. CASE Call(p)
  BY <1>1, <1>3, CallEffect, CallAnswer, ValuesAssumption DEF AnswerLocal, Locked
<1>4. CASE CallSetValue(p)
  BY <1>1, <1>4, CallSetValueEffect, CallAnswer, ValuesAssumption DEF AnswerLocal
<1>5. CASE LoadValue(p) \/ LoadNode(p) \/ LoadCopy(p)
  <2>1. /\ Stays(p)
        /\ \/ procs[p].pc = "value" /\ procs'[p].pc = "value2"
           \/ procs[p].pc = "node" /\ procs'[p].pc = "node2"
           \/ procs[p].pc = "copy" /\ procs'[p].pc = "copy2"
    BY <1>1, <1>5, LoadEffect DEF LoadValue, LoadNode, LoadCopy, Places
  <2>2. procs'[p].ans = procs[p].ans
    BY <1>1, <1>5, AnswerKept
  <2> QED
    BY <1>1, <2>1, <2>2 DEF AnswerLocal, Stays, SameArgs, SameLock
<1>6. CASE StoreValue(p) \/ StoreCopy(p)
  BY <1>1, <1>6, StoreValueEffect, StoreCopyEffect, AnswerKept
     DEF AnswerLocal, SameArgs, SameLock
<1>7. CASE StoreNode(p)
  <2>1. procs[p].pc = "node2" /\ procs[p].op \in {"insert", "get", "set"}
    BY <1>1, <1>7, StoreNodeEffect DEF Local
  <2>2. /\ SameArgs(p) /\ SameLock(p)
        /\ procs'[p].pc = IF procs[p].op = "set" THEN "assign" ELSE "release"
    BY <1>1, <1>7, StoreNodeEffect
  <2>3. procs'[p].ans = CASE procs[p].op = "insert" -> "absent"
                          [] procs[p].op = "get" -> Empty
                          [] OTHER -> procs[p].ans
    BY <1>1, <1>7, StoreNodeAnswer
  <2>4. CASE procs[p].op = "set"
    BY <1>1, <2>1, <2>2, <2>3, <2>4 DEF AnswerLocal, SameArgs, SameLock
  <2>5. CASE procs[p].op # "set"
    <3>1. procs'[p].ans # None
      BY <2>1, <2>3, <2>5, ValuesAssumption
    <3> QED
      BY <1>1, <2>1, <2>2, <2>5, <3>1 DEF AnswerLocal, SameArgs, SameLock
  <2> QED
    BY <2>4, <2>5
<1>8. CASE BadAlloc(p)
  <2>1. procs[p].op \in {"insert", "get", "set"}
    BY <1>1, <1>8, BadAllocEffect DEF Local, SetPlaces
  <2> QED
    BY <1>1, <1>8, <2>1, BadAllocEffect, BadAllocAnswer, ValuesAssumption
       DEF AnswerLocal, SameArgs, SameLock
<1>9. CASE FindPresent(p)
  <2>1. procs[p].op = "get" => tree[procs[p].key].val # None
    BY <1>1, <1>9, FindPresentAnswer, ValuesAssumption
       DEF TypeOK, Has, Entry, Local, Ops
  <2> QED
    BY <1>1, <1>9, <2>1, FindPresentEffect, FindPresentAnswer, ValuesAssumption
       DEF AnswerLocal, SameArgs, SameLock
<1>10. CASE FindAbsent(p)
  BY <1>1, <1>10, MoveEffect, MovePlaces, MoveAnswer, ValuesAssumption
     DEF AnswerLocal, Stays, SameArgs, SameLock
<1>11. CASE Clear(p)
  <2>1. procs[p].pc = "find" /\ procs[p].op = "clear" /\ procs[p].lock
    BY <1>1, <1>11, MovePlaces DEF Local, InsidePlaces, Places
  <2> QED
    BY <1>1, <1>11, <2>1, MoveEffect, MovePlaces, MoveAnswer, ValuesAssumption
       DEF AnswerLocal, Stays, SameArgs, SameLock
<1>12. CASE Unlink(p)
  <2>1. Stays(p) /\ procs[p].pc = "unlink" /\ procs[p].lock
    BY <1>1, <1>12, UnlinkEffect DEF Local, InsidePlaces, Places
  <2>2. procs' = procs \/ (procs'[p].pc = "release" /\ procs'[p].ans = "present")
    BY <1>1, <1>12, UnlinkAnswer
  <2> QED
    BY <1>1, <2>1, <2>2, ValuesAssumption DEF AnswerLocal, Stays, SameArgs, SameLock
<1>13. CASE Assign(p)
  <2>1. procs[p].op = "set" /\ procs[p].val \in Vals
    BY <1>1, <1>13, AssignEffect DEF Local, SetPlaces
  <2> QED
    BY <1>1, <1>13, <2>1, AssignEffect, AssignAnswer, ValuesAssumption
       DEF AnswerLocal, SameArgs, SameLock
<1>14. CASE DropCopy(p)
  BY <1>1, <1>14, DropCopyEffect, AnswerKept DEF AnswerLocal, SameArgs, SameLock
<1>15. CASE Wait(p)
  <2>1. procs[p].pc = "wait"
    BY <1>15 DEF Wait, At
  <2> QED
    BY <1>1, <1>15, <2>1, WaitEffect, AnswerKept DEF AnswerLocal, SameArgs
<1>16. CASE WaitFails(p)
  BY <1>1, <1>16, MoveEffect, MovePlaces, MoveAnswer, ValuesAssumption
     DEF AnswerLocal, Stays, SameArgs, SameLock
<1>17. CASE Exit(p)
  BY <1>1, <1>17, MoveEffect, MovePlaces, AnswerKept
     DEF AnswerLocal, Stays, SameArgs, SameLock
<1>18. CASE Die(p)
  BY <1>1, <1>18, MoveEffect, MovePlaces, AnswerKept
     DEF AnswerLocal, Stays, SameArgs, SameLock
<1>19. CASE Post(p) \/ Return(p)
  <2>1. procs'[p] = Idle
    BY <1>1, <1>19, UpdateAnswer DEF Post, Return
  <2> QED
    BY <2>1, ValuesAssumption DEF AnswerLocal, Idle
<1> QED
  BY <1>3, <1>4, <1>5, <1>6, <1>7, <1>8, <1>9, <1>10, <1>11, <1>12, <1>13, <1>14,
     <1>15, <1>16, <1>17, <1>18, <1>19 DEF Step, Works

LEMMA FoundStep ==
    ASSUME IInv, AllAnswers, Found, NEW p \in Procs, Step(p)
    PROVE  Found'
<1>1. /\ TypeOK /\ AllLocal /\ BeginCurrent /\ ProcessBlocks /\ Kept(p)
      /\ Local(procs[p]) /\ AllLocal'
  BY ProcsStep, LocalStep DEF IInv, AllLocal
<1>2. SUFFICES
        /\ procs'[p].pc \in {"node", "node2"} => tree'[procs'[p].key] = NoEntry
        /\ procs'[p].pc = "release" /\ procs'[p].op = "clear"
               => \A k \in Keys : tree'[k] = NoEntry
  <2>1. CASE Works(p)
    <3>1. \A q \in Procs \ {p} : procs[q].pc \notin {"node", "node2", "release"}
      <4> SUFFICES ASSUME NEW q \in Procs \ {p}
                   PROVE  procs[q].pc \notin {"node", "node2", "release"}
        OBVIOUS
      <4>1. Local(procs[q]) /\ procs[p].pc \in InsidePlaces /\ Exclusive
        BY <1>1, <2>1, WorksEffect DEF IInv, AllLocal
      <4> QED
        BY <1>1, <4>1 DEF Local, Exclusive, Locked, InsidePlaces, Places
    <3> QED
      BY <1>1, <3>1 DEF Found, Has, Kept
  <2>2. CASE ~Works(p)
    <3>1. tree' = tree
      BY <2>2, OutsideStep
    <3> QED
      BY <1>1, <3>1 DEF Found, Has, Kept
  <2> QED
    BY <2>1, <2>2
<1>3. CASE Works(p)
  <2>1. procs'[p].op = procs[p].op /\ procs'[p].key = procs[p].key
    BY <1>1, <1>3, WorksEffect DEF SameArgs
  <2>2. CASE LoadValue(p) \/ LoadNode(p) \/ LoadCopy(p)
    <3>1. /\ procs'[p].pc \in {"value2", "node2", "copy2"}
          /\ procs'[p].pc = "node2" => procs[p].pc = "node"
      BY <1>1, <2>2, LoadEffect DEF LoadValue, LoadNode, LoadCopy, Places
    <3>2. tree' = tree
      BY <2>2 DEF LoadValue, LoadNode, LoadCopy, Load
    <3> QED
      BY <2>1, <3>1, <3>2 DEF Found, Has
  <2>3. CASE FindAbsent(p)
    BY <1>1, <2>1, <2>3, MoveEffect, MovePlaces, MoveAnswer DEF Has
  <2>4. CASE Clear(p)
    BY <1>1, <2>1, <2>4, MoveEffect, MovePlaces, MoveAnswer DEF Has
  <2>5. CASE Unlink(p)
    <3>1. PICK k \in Keys :
              /\ Has(k) /\ tree' = [tree EXCEPT ![k] = NoEntry]
              /\ IF \E l \in Keys \ {k} : procs[p].op = "clear" /\ Has(l)
                 THEN procs' = procs
                 ELSE procs'[p].pc = "release" /\ procs'[p].ans = "present"
      BY <1>1, <2>5, UnlinkAnswer
    <3>2. procs[p].pc = "unlink" /\ procs'[p].pc \in {"unlink", "release"}
      BY <1>1, <2>5, UnlinkEffect
    <3>3. tree \in [Keys -> Entry \union {NoEntry}]
      BY <1>1 DEF TypeOK
    <3> QED
      BY <2>1, <3>1, <3>2, <3>3 DEF Has
  <2>6. CASE StoreValue(p) \/ StoreCopy(p) \/ Assign(p) \/ DropCopy(p)
    BY <1>1, <2>6, StoreValueEffect, StoreCopyEffect, AssignEffect, DropCopyEffect
  <2>7. CASE StoreNode(p)
    <3>1. procs[p].op # "clear"
      BY <1>1, <2>7, StoreNodeEffect DEF Local
    <3> QED
      BY <1>1, <2>1, <2>7, <3>1, StoreNodeEffect
  <2>8. CASE BadAlloc(p)
    <3>1. procs[p].op # "clear"
      BY <1>1, <2>8, BadAllocEffect DEF Local, SetPlaces
    <3> QED
      BY <1>1, <2>1, <2>8, <3>1, BadAllocEffect
  <2>9. CASE FindPresent(p)
    BY <1>1, <2>1, <2>9, FindPresentEffect
  <2> QED
    BY <1>3, <2>2, <2>3, <2>4, <2>5, <2>6, <2>7, <2>8, <2>9 DEF Works
<1>4. CASE Call(p) \/ CallSetValue(p)
  BY <1>1, <1>4, CallEffect, CallSetValueEffect
<1>5. CASE Wait(p)
  BY <1>1, <1>5, WaitEffect
<1>6. CASE WaitFails(p) \/ Exit(p) \/ Die(p)
  BY <1>1, <1>6, MovePlaces
<1>7. CASE Post(p) \/ Return(p)
  BY <1>1, <1>7, IdleEffect
<1> QED
  BY <1>3, <1>4, <1>5, <1>6, <1>7 DEF Step

LEMMA RInvInit == Init => RInv
<1> SUFFICES ASSUME Init PROVE RInv
  OBVIOUS
<1>1. \A p \in Procs : procs[p] = Idle
  BY DEF Init
<1>2. AllAnswers
  BY <1>1, ValuesAssumption DEF AllAnswers, AnswerLocal, Idle
<1>3. Found
  BY <1>1 DEF Found, Idle
<1> QED
  BY <1>2, <1>3 DEF RInv

LEMMA RInvNext == Disciplined /\ IInv /\ RInv /\ [Next]_vars => RInv'
<1> SUFFICES ASSUME Disciplined, IInv, RInv, [Next]_vars PROVE RInv'
  OBVIOUS
<1>1. CASE Next
  <2>1. PICK p \in Procs : Step(p)
    BY <1>1, NextIsStep
  <2> QED
    BY <2>1, AnswersStep, FoundStep DEF RInv
<1>2. CASE UNCHANGED vars
  BY <1>2 DEF vars, RInv, AllAnswers, Found, Has
<1> QED
  BY <1>1, <1>2
-----------------------------------------------------------------------------
(* The refinement mapping *)

Clears(p) == procs[p].op = "clear" /\ procs[p].ans = "present"
SameMap == Content' = Content /\ CallOf' = CallOf /\ AnswerOf' = AnswerOf

LEMMA Mapped ==
    ASSUME NEW p \in Procs
    PROVE  /\ CallOf[p] = [op |-> procs[p].op, key |-> procs[p].key, val |-> procs[p].val]
           /\ AnswerOf[p] = procs[p].ans
           /\ CallOf[p].op = procs[p].op /\ CallOf[p].key = procs[p].key
           /\ CallOf[p].val = procs[p].val
           /\ procs[p].op # "none" => CallOf[p] # Map!NoCall
<1>1. /\ CallOf[p] = [op |-> procs[p].op, key |-> procs[p].key, val |-> procs[p].val]
      /\ AnswerOf[p] = procs[p].ans
  BY DEF CallOf, AnswerOf
<1>2. /\ CallOf[p].op = procs[p].op /\ CallOf[p].key = procs[p].key
      /\ CallOf[p].val = procs[p].val
  BY <1>1
<1>3. Map!NoCall.op = "none"
  BY DEF Map!NoCall
<1> QED
  BY <1>1, <1>2, <1>3

\* An element of the map has a value that is not None.
LEMMA HasValue ==
    ASSUME TypeOK, NEW k \in Keys
    PROVE  Has(k) <=> tree[k].val # None
<1>1. tree[k] \in Entry \union {NoEntry}
  BY DEF TypeOK
<1>2. CASE tree[k] = NoEntry
  BY <1>2 DEF Has, NoEntry
<1>3. CASE tree[k] \in Entry /\ tree[k] # NoEntry
  BY <1>3, ValuesAssumption DEF Has, Entry
<1> QED
  BY <1>1, <1>2, <1>3

LEMMA CallsKept ==
    ASSUME NEW p \in Procs, Kept(p), SameArgs(p)
    PROVE  CallOf' = CallOf
<1>1. \A q \in Procs : /\ procs'[q].op = procs[q].op /\ procs'[q].key = procs[q].key
                       /\ procs'[q].val = procs[q].val
  BY DEF Kept, SameArgs
<1> QED
  BY <1>1 DEF CallOf

LEMMA CallsSet ==
    ASSUME NEW p \in Procs, Kept(p)
    PROVE  CallOf' = [CallOf EXCEPT ![p] = [op |-> procs'[p].op, key |-> procs'[p].key,
                                            val |-> procs'[p].val]]
  BY DEF CallOf, Kept

LEMMA AnswersSet ==
    ASSUME NEW p \in Procs, Kept(p)
    PROVE  AnswerOf' = [AnswerOf EXCEPT ![p] = procs'[p].ans]
  BY DEF AnswerOf, Kept

\* The map is empty for everybody while a clear() works on it.
LEMMA ContentKept ==
    ASSUME NEW p \in Procs, Kept(p), tree' = tree, Clears(p)' <=> Clears(p)
    PROVE  Content' = Content
<1>1. Clearing' <=> Clearing
  <2>1. \A q \in Procs : Clears(q)' <=> Clears(q)
    BY DEF Kept, Clears
  <2> QED
    BY <2>1 DEF Clearing, Clears
<1> QED
  BY <1>1 DEF Content

LEMMA Unmoved ==
    ASSUME NEW p \in Procs, Kept(p), SameArgs(p), procs'[p].ans = procs[p].ans,
           tree' = tree
    PROVE  SameMap
<1>1. Content' = Content
  BY ContentKept DEF Clears, SameArgs
<1>2. AnswerOf' = AnswerOf
  BY AnswersSet DEF AnswerOf
<1> QED
  BY <1>1, <1>2, CallsKept DEF SameMap

\* While a process other than a clear()'s works, no clear() is under way.
LEMMA ContentNow ==
    ASSUME IInv, AllAnswers, NEW p \in Procs, Busy(p), procs[p].op # "clear",
           Kept(p), SameArgs(p)
    PROVE  /\ Content = [k \in Keys |-> tree[k].val]
           /\ Content' = [k \in Keys |-> tree'[k].val]
<1>1. ~Clearing
  <2> SUFFICES ASSUME NEW q \in Procs, Clears(q)
               PROVE  FALSE
    BY DEF Clearing, Clears
  <2>1. q # p /\ procs[q].lock /\ procs[q].op = "clear"
    BY DEF AllAnswers, AnswerLocal, Clears
  <2> QED
    BY <2>1 DEF IInv, Exclusive, Busy
<1>2. ~Clearing'
  BY <1>1 DEF Clearing, Kept, SameArgs
<1> QED
  BY <1>1, <1>2 DEF Content
-----------------------------------------------------------------------------
(* Every step of a process is one of the abstract map, or none *)

\* A step that leaves the operation as it is and gives it the answer the
\* abstract map would give now.
LEMMA Effect ==
    ASSUME NEW p \in Procs, Kept(p), SameArgs(p),
           procs[p].op # "none", procs[p].ans = None,
           Content' = Map!After(CallOf[p]), procs'[p].ans = Map!Returned(CallOf[p])
    PROVE  Map!TakeEffect(p)
<1>1. CallOf[p] # Map!NoCall
  BY Mapped
<1>2. AnswerOf[p] = None
  BY Mapped
<1>3. AnswerOf' = [AnswerOf EXCEPT ![p] = Map!Returned(CallOf[p])]
  BY AnswersSet
<1> QED
  BY <1>1, <1>2, <1>3, CallsKept DEF Map!TakeEffect

LEMMA Failure ==
    ASSUME NEW p \in Procs, Kept(p), SameArgs(p), Content' = Content,
           procs[p].op # "none", procs'[p].ans = "failed",
           procs[p].ans # None => procs[p].op = "set"
    PROVE  Map!Fail(p) \/ SameMap
<1>1. AnswerOf' = [AnswerOf EXCEPT ![p] = "failed"] /\ CallOf' = CallOf
  BY AnswersSet, CallsKept
<1>2. CASE procs[p].ans = "failed"
  <2>1. AnswerOf' = AnswerOf
    BY <1>1, <1>2 DEF AnswerOf
  <2> QED
    BY <1>1, <2>1 DEF SameMap
<1>3. CASE procs[p].ans # "failed"
  <2>1. CallOf[p] # Map!NoCall /\ CallOf[p].op = procs[p].op
    BY Mapped
  <2>2. AnswerOf[p] = procs[p].ans
    BY Mapped
  <2> QED
    BY <1>1, <1>3, <2>1, <2>2 DEF Map!Fail
<1> QED
  BY <1>2, <1>3

LEMMA BeginMaps ==
    ASSUME IInv, RInv, NEW p \in Procs, Call(p) \/ CallSetValue(p)
    PROVE  Map!Begin(p)
<1>1. /\ TypeOK /\ Local(procs[p]) /\ AnswerLocal(procs[p])
  BY DEF IInv, RInv, AllLocal, AllAnswers
<1>2. /\ Kept(p) /\ tree' = tree /\ procs[p].pc = "idle" /\ procs'[p].ans = None
      /\ procs'[p].op = "clear" => procs'[p].key = None
      /\ procs'[p].op \notin {"insert", "set"} => procs'[p].val = None
  BY <1>1, CallEffect, CallSetValueEffect, CallAnswer DEF Call, CallSetValue
<1>3. /\ procs'[p].op \in Locked \union {"set"}
      /\ procs'[p].op # "clear" => procs'[p].key \in Keys
      /\ procs'[p].op \in {"insert", "set"} => procs'[p].val \in Vals
  <2>1. CASE Call(p)
    BY <1>1, <2>1, CallEffect DEF Locked
  <2>2. CASE CallSetValue(p)
    BY <1>1, <2>2, CallSetValueEffect
  <2> QED
    BY <2>1, <2>2
<1> DEFINE c == [op |-> procs'[p].op, key |-> procs'[p].key, val |-> procs'[p].val]
<1>4. c \in Map!Calls
  BY <1>2, <1>3 DEF Map!Calls, Locked
<1>5. procs[p].op = "none" /\ procs[p].key = None /\ procs[p].val = None
      /\ procs[p].ans = None
  BY <1>1, <1>2 DEF Local, AnswerLocal
<1>6. CallOf[p] = Map!NoCall
  BY <1>5, Mapped DEF Map!NoCall
<1>7. Content' = Content
  BY <1>2, <1>5, ContentKept, ValuesAssumption DEF Clears
<1>8. AnswerOf' = AnswerOf
  BY <1>2, <1>5, AnswersSet DEF AnswerOf
<1>9. CallOf' = [CallOf EXCEPT ![p] = c]
  BY <1>2, CallsSet
<1> HIDE DEF c
<1> QED
  BY <1>4, <1>6, <1>7, <1>8, <1>9 DEF Map!Begin

LEMMA ReturnMaps ==
    ASSUME IInv, RInv, NEW p \in Procs, Post(p) \/ Return(p)
    PROVE  Map!Return(p)
<1>1. /\ TypeOK /\ Local(procs[p]) /\ AnswerLocal(procs[p]) /\ Found /\ tree' = tree
  BY DEF IInv, RInv, AllLocal, AllAnswers, Post, Return
<1>2. Kept(p) /\ procs'[p] = Idle
  BY <1>1, IdleEffect, UpdateAnswer DEF Post, Return
<1>3. procs[p].pc = IF Post(p) THEN "release" ELSE "return"
  BY DEF Post, Return, At
<1>4. procs[p].ans # None
  BY <1>1, <1>3 DEF AnswerLocal
<1>5. ~Clears(p)'
  BY <1>2 DEF Clears, Idle
<1>6. Content' = Content
  <2>1. CASE Clears(p)
    <3>1. procs[p].pc = "release"
      BY <1>1, <1>3, <2>1 DEF Local, AnswerLocal, Clears
    <3>2. \A k \in Keys : tree[k].val = None
      BY <1>1, <2>1, <3>1 DEF Found, Clears, Has, NoEntry
    <3> QED
      BY <1>1, <3>2 DEF Content
  <2>2. CASE ~Clears(p)
    BY <1>1, <1>2, <1>5, <2>2, ContentKept
  <2> QED
    BY <2>1, <2>2
<1>7. /\ CallOf' = [CallOf EXCEPT ![p] = Map!NoCall]
      /\ AnswerOf' = [AnswerOf EXCEPT ![p] = None]
  BY <1>2, CallsSet, AnswersSet DEF Map!NoCall, Idle
<1>8. AnswerOf[p] # None
  BY <1>4, Mapped
<1> QED
  BY <1>6, <1>7, <1>8 DEF Map!Return

\* Each kind of work (WorkMaps below).

LEMMA FindPresentMaps ==
    ASSUME IInv, RInv, NEW p \in Procs, FindPresent(p)
    PROVE  Map!TakeEffect(p) \/ SameMap
<1> DEFINE k == procs[p].key
<1>1. /\ TypeOK /\ AllLocal /\ Local(procs[p]) /\ AnswerLocal(procs[p]) /\ AllAnswers
      /\ Kept(p) /\ SameArgs(p) /\ procs[p].pc = "find" /\ tree' = tree
      /\ procs[p].op \in {"insert", "get", "erase", "set"} /\ Has(k)
  BY FindPresentEffect, FindPresentAnswer DEF IInv, RInv, AllLocal, AllAnswers
<1>2. procs'[p].ans = CASE procs[p].op = "insert" -> "present"
                        [] procs[p].op = "get" -> tree[k].val
                        [] OTHER -> procs[p].ans
  BY <1>1, FindPresentAnswer
<1>3. k \in Keys /\ procs[p].ans = None /\ Busy(p)
  BY <1>1 DEF Local, AnswerLocal, Ops, Busy, InsidePlaces, Places
<1>4. tree[k].val # None
  BY <1>1, <1>3, HasValue
<1>5. CASE procs[p].op \in {"erase", "set"}
  BY <1>1, <1>2, <1>5, Unmoved
<1>6. CASE procs[p].op \in {"insert", "get"}
  <2>1. /\ Content = [l \in Keys |-> tree[l].val]
        /\ Content' = [l \in Keys |-> tree'[l].val]
    BY <1>1, <1>3, <1>6, ContentNow
  <2>2. Content' = Content /\ Content[k] = tree[k].val /\ Content[k] # None
        /\ Content = [l \in Keys |-> Content[l]]
    BY <1>1, <1>3, <1>4, <2>1
  <2> HIDE DEF k
  <2>3. /\ CallOf[p].op = procs[p].op /\ CallOf[p].key = k
    BY Mapped DEF k
  <2>4. Map!After(CallOf[p]) = Content
    BY <1>3, <1>6, <2>2, <2>3 DEF Map!After
  <2>5. Map!Returned(CallOf[p]) = procs'[p].ans
    BY <1>2, <1>6, <2>2, <2>3, <2>4 DEF Map!Returned
  <2> QED
    BY <1>1, <1>3, <1>6, <2>2, <2>4, <2>5, Effect
<1> QED
  BY <1>1, <1>5, <1>6

LEMMA FindAbsentMaps ==
    ASSUME IInv, RInv, NEW p \in Procs, FindAbsent(p)
    PROVE  Map!TakeEffect(p) \/ SameMap
<1> DEFINE k == procs[p].key
<1>1. /\ TypeOK /\ AllLocal /\ Local(procs[p]) /\ AnswerLocal(procs[p]) /\ AllAnswers
      /\ Kept(p) /\ SameArgs(p) /\ procs[p].pc = "find" /\ tree' = tree
      /\ procs[p].op # "clear" /\ ~Has(k)
  BY MoveEffect, MovePlaces, MoveAnswer DEF IInv, RInv, AllLocal, AllAnswers, Stays
<1>2. procs'[p].ans = IF procs[p].op = "erase" THEN "absent" ELSE procs[p].ans
  BY <1>1, MoveAnswer
<1>3. procs[p].ans = None /\ Busy(p)
  BY <1>1 DEF Local, AnswerLocal, Busy, InsidePlaces, Places
<1>4. CASE procs[p].op # "erase"
  BY <1>1, <1>2, <1>4, Unmoved
<1>5. CASE procs[p].op = "erase"
  <2>1. k \in Keys
    BY <1>1, <1>5 DEF Local, Ops
  <2>2. tree[k].val = None
    BY <1>1, <2>1, HasValue
  <2>3. /\ Content = [l \in Keys |-> tree[l].val]
        /\ Content' = [l \in Keys |-> tree'[l].val]
    BY <1>1, <1>3, <1>5, ContentNow
  <2>4. Content' = Content /\ Content[k] = None
        /\ Content = [l \in Keys |-> Content[l]]
    BY <1>1, <2>1, <2>2, <2>3
  <2> HIDE DEF k
  <2>5. /\ CallOf[p].op = "erase" /\ CallOf[p].key = k
    BY <1>5, Mapped DEF k
  <2>6. Map!After(CallOf[p]) = Content
    BY <2>1, <2>4, <2>5 DEF Map!After
  <2>7. Map!Returned(CallOf[p]) = procs'[p].ans
    BY <1>2, <1>5, <2>4, <2>5 DEF Map!Returned
  <2> QED
    BY <1>1, <1>3, <1>5, <2>4, <2>6, <2>7, Effect
<1> QED
  BY <1>4, <1>5

LEMMA AssignMaps ==
    ASSUME IInv, RInv, NEW p \in Procs, Assign(p)
    PROVE  Map!TakeEffect(p)
<1> DEFINE k == procs[p].key
           v == procs[p].val
<1>1. /\ TypeOK /\ AllLocal /\ Local(procs[p]) /\ AnswerLocal(procs[p]) /\ AllAnswers
      /\ Kept(p) /\ SameArgs(p) /\ procs[p].pc = "assign" /\ procs'[p].ans = v
      /\ tree' = [tree EXCEPT ![k].val = v, ![k].data = procs[p].temp] /\ Has(k)
  BY AssignEffect, AssignAnswer DEF IInv, RInv, AllLocal, AllAnswers
<1>2. procs[p].op = "set" /\ procs[p].ans = None /\ k \in Keys /\ Busy(p)
  BY <1>1 DEF Local, AnswerLocal, SetPlaces, Ops, Busy
<1>3. /\ Content = [l \in Keys |-> tree[l].val]
      /\ Content' = [l \in Keys |-> tree'[l].val]
  BY <1>1, <1>2, ContentNow
<1>4. tree'[k].val = v /\ \A l \in Keys \ {k} : tree'[l] = tree[l]
  <2>1. tree[k] \in Entry /\ tree \in [Keys -> Entry \union {NoEntry}]
    BY <1>1, <1>2 DEF TypeOK, Has
  <2> HIDE DEF k, v
  <2> QED
    BY <1>1, <1>2, <2>1 DEF Entry
<1> HIDE DEF k, v
<1>5. Content' = [Content EXCEPT ![k] = v]
  BY <1>2, <1>3, <1>4
<1>6. CallOf[p].op = "set" /\ CallOf[p].key = k /\ CallOf[p].val = v
  BY <1>2, Mapped DEF k, v
<1>7. Map!After(CallOf[p]) = Content'
  BY <1>5, <1>6 DEF Map!After
<1>8. Map!Returned(CallOf[p]) = v
  BY <1>2, <1>3, <1>4, <1>6, <1>7 DEF Map!Returned
<1> QED
  BY <1>1, <1>2, <1>7, <1>8, Effect

LEMMA StoreNodeMaps ==
    ASSUME IInv, RInv, NEW p \in Procs, StoreNode(p)
    PROVE  Map!TakeEffect(p) \/ Map!Create(p)
<1> DEFINE k == procs[p].key
           v == IF procs[p].op = "insert" THEN procs[p].val ELSE Empty
           d == IF procs[p].op = "insert" THEN procs[p].temp ELSE None
<1>1. /\ TypeOK /\ AllLocal /\ Local(procs[p]) /\ AnswerLocal(procs[p]) /\ AllAnswers
      /\ BeginCurrent /\ Found
  BY DEF IInv, RInv, AllLocal, AllAnswers
<1>2. /\ Kept(p) /\ SameArgs(p) /\ procs[p].pc = "node2"
      /\ tree' = [tree EXCEPT ![k] = [val |-> v, data |-> d, node |-> free]]
  BY <1>1, StoreNodeEffect
<1>3. /\ procs[p].op \in {"insert", "get", "set"} /\ procs[p].ans = None
      /\ k \in Keys /\ Busy(p) /\ ~Has(k)
  BY <1>1, <1>2 DEF Local, AnswerLocal, Ops, Busy, InsidePlaces, Places, Found
<1>4. procs'[p].ans = CASE procs[p].op = "insert" -> "absent"
                        [] procs[p].op = "get" -> Empty
                        [] OTHER -> procs[p].ans
  BY <1>1, StoreNodeAnswer
<1>5. tree[k].val = None
  BY <1>1, <1>3, HasValue
<1>6. /\ Content = [l \in Keys |-> tree[l].val]
      /\ Content' = [l \in Keys |-> tree'[l].val]
  BY <1>1, <1>2, <1>3, ContentNow
<1>7. tree'[k].val = v /\ \A l \in Keys \ {k} : tree'[l] = tree[l]
  <2>1. tree \in [Keys -> Entry \union {NoEntry}]
    BY <1>1 DEF TypeOK
  <2> HIDE DEF k, v, d
  <2> QED
    BY <1>2, <1>3, <2>1
<1>8. /\ CallOf[p].op = procs[p].op /\ CallOf[p].key = k
      /\ procs[p].op = "insert" => CallOf[p].val = v
      /\ procs[p].op # "insert" => v = Empty
  BY Mapped
<1> HIDE DEF k, v, d
<1>9. Content' = [Content EXCEPT ![k] = v] /\ Content[k] = None
  BY <1>3, <1>5, <1>6, <1>7
<1>10. CASE procs[p].op = "set"
  <2>1. AnswerOf[p] = None
    BY <1>3, Mapped
  <2>2. AnswerOf' = AnswerOf
    BY <1>2, <1>3, <1>4, <1>10, AnswersSet DEF AnswerOf
  <2> QED
    BY <1>2, <1>8, <1>9, <1>10, <2>1, <2>2, CallsKept DEF Map!Create
<1>11. CASE procs[p].op = "insert"
  <2>1. Map!After(CallOf[p]) = Content'
    BY <1>8, <1>9, <1>11 DEF Map!After
  <2>2. Map!Returned(CallOf[p]) = "absent"
    BY <1>8, <1>9, <1>11 DEF Map!Returned
  <2> QED
    BY <1>2, <1>3, <1>4, <1>11, <2>1, <2>2, Effect
<1>12. CASE procs[p].op = "get"
  <2>1. Map!After(CallOf[p]) = Content'
    BY <1>8, <1>9, <1>12 DEF Map!After
  <2>2. Content'[k] = Empty
    BY <1>3, <1>6, <1>7, <1>8, <1>12
  <2>3. Map!Returned(CallOf[p]) = Empty
    BY <1>8, <1>12, <2>1, <2>2 DEF Map!Returned
  <2> QED
    BY <1>2, <1>3, <1>4, <1>12, <2>1, <2>3, Effect
<1> QED
  BY <1>3, <1>10, <1>11, <1>12

LEMMA ClearMaps ==
    ASSUME IInv, RInv, NEW p \in Procs, Clear(p)
    PROVE  Map!TakeEffect(p)
<1>1. /\ TypeOK /\ Kept(p) /\ SameArgs(p) /\ AnswerLocal(procs[p])
      /\ procs[p].pc = "find" /\ procs[p].op = "clear" /\ procs'[p].ans = "present"
  BY MoveEffect, MovePlaces, MoveAnswer DEF IInv, RInv, AllAnswers, Stays
<1>2. procs[p].ans = None
  BY <1>1 DEF AnswerLocal
<1>3. Content' = [k \in Keys |-> None]
  <2>1. Clearing'
    BY <1>1 DEF Clearing, SameArgs
  <2> QED
    BY <2>1 DEF Content
<1>4. CallOf[p].op = "clear"
  BY <1>1, Mapped
<1>5. Map!After(CallOf[p]) = Content'
  BY <1>3, <1>4 DEF Map!After
<1>6. Map!Returned(CallOf[p]) = "present"
  BY <1>4 DEF Map!Returned
<1> QED
  BY <1>1, <1>2, <1>5, <1>6, Effect

LEMMA UnlinkMaps ==
    ASSUME IInv, RInv, NEW p \in Procs, Unlink(p)
    PROVE  Map!TakeEffect(p) \/ SameMap
<1>1. /\ TypeOK /\ AllLocal /\ Local(procs[p]) /\ AnswerLocal(procs[p]) /\ AllAnswers
      /\ Kept(p) /\ SameArgs(p) /\ procs[p].pc = "unlink"
  BY UnlinkEffect DEF IInv, RInv, AllLocal, AllAnswers, Stays
<1>2. PICK k \in Keys :
          /\ procs[p].op # "clear" => k = procs[p].key
          /\ Has(k) /\ tree' = [tree EXCEPT ![k] = NoEntry]
          /\ IF \E l \in Keys \ {k} : procs[p].op = "clear" /\ Has(l)
             THEN procs' = procs
             ELSE procs'[p].pc = "release" /\ procs'[p].ans = "present"
  BY <1>1, UnlinkAnswer
<1>3. procs[p].op \in {"erase", "clear"} /\ Busy(p)
  BY <1>1 DEF Local, Busy, InsidePlaces, Places
<1>4. CASE procs[p].op = "clear"
  <2>1. procs[p].ans = "present" /\ procs'[p].ans = "present"
    BY <1>1, <1>2, <1>4 DEF AnswerLocal
  <2>2. Clearing /\ Clearing'
    BY <1>1, <1>4, <2>1 DEF Clearing, SameArgs
  <2>3. Content' = Content
    BY <2>2 DEF Content
  <2>4. AnswerOf' = AnswerOf
    BY <1>1, <2>1, AnswersSet DEF AnswerOf
  <2> QED
    BY <1>1, <2>3, <2>4, CallsKept DEF SameMap
<1>5. CASE procs[p].op = "erase"
  <2>1. k = procs[p].key /\ procs[p].ans = None /\ procs'[p].ans = "present"
    BY <1>1, <1>2, <1>5 DEF AnswerLocal
  <2>2. /\ Content = [l \in Keys |-> tree[l].val]
        /\ Content' = [l \in Keys |-> tree'[l].val]
    BY <1>1, <1>3, <1>5, ContentNow
  <2>3. tree'[k].val = None /\ \A l \in Keys \ {k} : tree'[l] = tree[l]
    BY <1>1, <1>2 DEF TypeOK, NoEntry
  <2>4. tree[k].val # None
    BY <1>1, <1>2, HasValue
  <2>5. Content' = [Content EXCEPT ![k] = None] /\ Content[k] # None
    BY <2>2, <2>3, <2>4
  <2>6. CallOf[p].op = "erase" /\ CallOf[p].key = k
    BY <1>5, <2>1, Mapped
  <2>7. Map!After(CallOf[p]) = Content'
    BY <2>5, <2>6 DEF Map!After
  <2>8. Map!Returned(CallOf[p]) = "present"
    BY <2>5, <2>6 DEF Map!Returned
  <2> QED
    BY <1>1, <1>5, <2>1, <2>7, <2>8, Effect
<1> QED
  BY <1>3, <1>4, <1>5

LEMMA FailMaps ==
    ASSUME IInv, RInv, NEW p \in Procs, BadAlloc(p) \/ WaitFails(p)
    PROVE  Map!Fail(p) \/ SameMap
<1>1. /\ TypeOK /\ Local(procs[p]) /\ AnswerLocal(procs[p]) /\ procs[p].op \in Ops
  BY DEF IInv, RInv, AllLocal, AllAnswers, TypeOK, Process
<1>2. /\ Kept(p) /\ SameArgs(p) /\ tree' = tree /\ procs'[p].ans = "failed"
      /\ procs[p].pc \in {"wait", "value", "node", "copy"}
  BY <1>1, BadAllocEffect, BadAllocAnswer, MoveEffect, MovePlaces, MoveAnswer DEF Stays
<1>3. procs[p].op # "none"
  BY <1>1, <1>2 DEF Local, Locked, SetPlaces
<1>4. procs[p].ans # None => procs[p].op = "set"
  BY <1>1, <1>2 DEF Local, AnswerLocal, SetPlaces
<1>5. ~Clears(p) /\ ~Clears(p)'
  BY <1>1, <1>2, <1>4, ValuesAssumption DEF Clears
<1>6. Content' = Content
  BY <1>2, <1>5, ContentKept
<1> QED
  BY <1>2, <1>3, <1>4, <1>6, Failure

LEMMA StepMaps ==
    ASSUME IInv, RInv, NEW p \in Procs, Step(p)
    PROVE  Map!SmNext \/ SameMap
<1>1. CASE Call(p) \/ CallSetValue(p)
  BY <1>1, BeginMaps DEF Map!SmNext
<1>2. CASE Post(p) \/ Return(p)
  BY <1>2, ReturnMaps DEF Map!SmNext
<1>3. CASE FindPresent(p)
  BY <1>3, FindPresentMaps DEF Map!SmNext
<1>4. CASE FindAbsent(p)
  BY <1>4, FindAbsentMaps DEF Map!SmNext
<1>5. CASE Assign(p)
  BY <1>5, AssignMaps DEF Map!SmNext
<1>6. CASE StoreNode(p)
  BY <1>6, StoreNodeMaps DEF Map!SmNext
<1>7. CASE Clear(p)
  BY <1>7, ClearMaps DEF Map!SmNext
<1>8. CASE Unlink(p)
  BY <1>8, UnlinkMaps DEF Map!SmNext
<1>9. CASE BadAlloc(p) \/ WaitFails(p)
  BY <1>9, FailMaps DEF Map!SmNext
<1>10. CASE \/ LoadValue(p) \/ LoadNode(p) \/ LoadCopy(p) \/ StoreValue(p)
            \/ StoreCopy(p) \/ Wait(p) \/ DropCopy(p) \/ Exit(p) \/ Die(p)
  <2>1. TypeOK /\ BeginCurrent
    BY DEF IInv
  <2>2. Kept(p) /\ SameArgs(p)
    <3>1. CASE LoadValue(p) \/ LoadNode(p) \/ LoadCopy(p)
      BY <2>1, <3>1, LoadEffect DEF LoadValue, LoadNode, LoadCopy, Places, Stays
    <3>2. CASE StoreValue(p) \/ StoreCopy(p) \/ Wait(p) \/ DropCopy(p)
      BY <2>1, <3>2, StoreValueEffect, StoreCopyEffect, WaitEffect, DropCopyEffect
    <3>3. CASE Exit(p) \/ Die(p)
      BY <2>1, <3>3, MoveEffect DEF Stays
    <3> QED
      BY <1>10, <3>1, <3>2, <3>3
  <2>3. tree' = tree
    BY <1>10 DEF LoadValue, LoadNode, LoadCopy, Load, StoreValue, StoreCopy, Wait,
                 DropCopy, Exit, Die
  <2>4. procs'[p].ans = procs[p].ans
    BY <1>10, <2>1, AnswerKept
  <2> QED
    BY <2>2, <2>3, <2>4, Unmoved
<1> QED
  BY <1>1, <1>2, <1>3, <1>4, <1>5, <1>6, <1>7, <1>8, <1>9, <1>10 DEF Step, Works

LEMMA InitMaps == Init => Map!SmInit
<1> SUFFICES ASSUME Init PROVE Map!SmInit
  OBVIOUS
<1>1. /\ tree = [k \in Keys |-> NoEntry] /\ procs = [p \in Procs |-> Idle]
  BY DEF Init
<1>2. /\ Content = [k \in Keys |-> None]
      /\ CallOf = [p \in Procs |-> Map!NoCall]
      /\ AnswerOf = [p \in Procs |-> None]
  BY <1>1 DEF Content, CallOf, AnswerOf, Idle, NoEntry, Map!NoCall
<1> QED
  BY <1>2 DEF Map!SmInit

LEMMA NextMaps == IInv /\ RInv /\ [Next]_vars => [Map!SmNext]_(Map!smVars)
<1> SUFFICES ASSUME IInv, RInv, [Next]_vars PROVE Map!SmNext \/ SameMap
  BY DEF SameMap, Map!smVars
<1>1. CASE Next
  BY <1>1, NextIsStep, StepMaps
<1>2. CASE UNCHANGED vars
  BY <1>2 DEF vars, SameMap, Content, Clearing, CallOf, AnswerOf
<1> QED
  BY <1>1, <1>2

\* Every operation takes effect at once or fails without any, wherever processes
\* die and memory runs out, as long as set_value is called by a process that is
\* alone: what the processes see of Map.hpp is a behaviour of SharedMap.
THEOREM MapImplements == ASSUME Disciplined PROVE Spec => MapSpec
<1>1. Init => RInv /\ Map!SmInit
  BY RInvInit, InitMaps
<1>2. IInv /\ RInv /\ [Next]_vars => RInv'
  BY RInvNext
<1>3. IInv /\ RInv /\ [Next]_vars => [Map!SmNext]_(Map!smVars)
  BY NextMaps
<1> QED
  BY <1>1, <1>2, <1>3, ShmInvariant, PTL DEF Spec, MapSpec, Map!SmSpec
=============================================================================
