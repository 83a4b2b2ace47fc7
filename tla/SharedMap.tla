------------------------------ MODULE SharedMap ------------------------------
(***************************************************************************)
(* What HW::shmem::Map promises to the processes that share it: between    *)
(* its call and its return every operation takes effect once, or fails and *)
(* then has none, whatever the others do and wherever they die.  The one   *)
(* exception is set_value, which first creates a missing key with an empty *)
(* value, and which may run out of memory for the string it returns when   *)
(* the old value is already replaced.                                      *)
(***************************************************************************)
EXTENDS Naturals

CONSTANTS Procs, Keys, Vals, None, Empty

VARIABLES
    content,  \* the map
    call,     \* the operation a process is in, or NoCall
    answer    \* what the operation will return; None as long as it has no effect

smVars == <<content, call, answer>>

NoCall == [op |-> "none", key |-> None, val |-> None]
Calls == {[op |-> "insert", key |-> k, val |-> v] : k \in Keys, v \in Vals}
    \union {[op |-> "set", key |-> k, val |-> v] : k \in Keys, v \in Vals}
    \union {[op |-> "get", key |-> k, val |-> None] : k \in Keys}
    \union {[op |-> "erase", key |-> k, val |-> None] : k \in Keys}
    \union {[op |-> "clear", key |-> None, val |-> None]}

SmInit ==
    /\ content = [k \in Keys |-> None]
    /\ call = [p \in Procs |-> NoCall] /\ answer = [p \in Procs |-> None]

Begin(p) ==
    /\ call[p] = NoCall
    /\ \E c \in Calls : call' = [call EXCEPT ![p] = c]
    /\ UNCHANGED <<content, answer>>

\* The map after operation c, and what c returns: the value, or whether the
\* key was there.
After(c) ==
    CASE c.op = "clear" -> [k \in Keys |-> None]
      [] c.op = "erase" -> [content EXCEPT ![c.key] = None]
      [] c.op = "set"   -> [content EXCEPT ![c.key] = c.val]
      [] c.op = "insert" -> [content EXCEPT ![c.key] = IF @ = None THEN c.val ELSE @]
      [] c.op = "get"   -> [content EXCEPT ![c.key] = IF @ = None THEN Empty ELSE @]

Returned(c) ==
    CASE c.op \in {"get", "set"} -> After(c)[c.key]
      [] c.op \in {"insert", "erase"} -> IF content[c.key] = None THEN "absent" ELSE "present"
      [] c.op = "clear" -> "present"

TakeEffect(p) ==
    /\ call[p] # NoCall /\ answer[p] = None
    /\ content' = After(call[p])
    /\ answer' = [answer EXCEPT ![p] = Returned(call[p])]
    /\ UNCHANGED call

Create(p) ==
    /\ call[p].op = "set" /\ answer[p] = None /\ content[call[p].key] = None
    /\ content' = [content EXCEPT ![call[p].key] = Empty]
    /\ UNCHANGED <<call, answer>>

Fail(p) ==
    /\ call[p] # NoCall /\ answer[p] # "failed"
    /\ answer[p] # None => call[p].op = "set"
    /\ answer' = [answer EXCEPT ![p] = "failed"]
    /\ UNCHANGED <<content, call>>

Return(p) ==
    /\ answer[p] # None
    /\ call' = [call EXCEPT ![p] = NoCall]
    /\ answer' = [answer EXCEPT ![p] = None]
    /\ UNCHANGED content

SmNext == \E p \in Procs :
    Begin(p) \/ TakeEffect(p) \/ Create(p) \/ Fail(p) \/ Return(p)
SmSpec == SmInit /\ [][SmNext]_smVars
=============================================================================
