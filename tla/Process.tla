------------------------------- MODULE Process -------------------------------
(***************************************************************************)
(* HW::Process (hw1): a parent runs programs in child processes and talks  *)
(* to each over two pipes, the child's stdin and stdout.  The parent       *)
(* constructs one Process after the other, works through its calls to each *)
(* and destroys them in reverse order; the children do what their programs *)
(* say, and anybody may kill them.  The parent's program catches the       *)
(* DescriptorError and the IOError; a ProcessError leaves main(), in the   *)
(* parent as in the child's copy of it.                                    *)
(*                                                                         *)
(* A message is MsgParts parts; a pipe holds Cap parts.  Only the number   *)
(* of parts on the way is kept.                                            *)
(***************************************************************************)
EXTENDS Integers, Sequences, FiniteSets, Functions

CONSTANTS
    N,          \* how many Processes are constructed
    Scenarios,  \* what may be done with one: the parent's calls, the child's program
    MsgParts, Cap,
    MayFail,    \* may pipe(), fork() and execvp() fail?
    MayDie      \* may a child be killed from outside?

Calls == {"read", "write", "closeStdin", "close", "abort"}
Steps == {"read", "readAll", "write"}
Children == 1 .. N

ASSUME BoundsAssumption ==
    /\ N \in Nat \ {0} /\ MsgParts \in Nat \ {0} /\ Cap \in Nat \ {0}
    /\ MayFail \in BOOLEAN /\ MayDie \in BOOLEAN
ASSUME ScenariosAssumption ==
    \A s \in Scenarios : /\ DOMAIN s = {"calls", "program"}
                         /\ s.calls \in Seq(Calls) \ {<<>>} /\ s.program \in Seq(Steps)

VARIABLES
    scenario,  \* of each child
    pc,        \* where the parent is
    cur,       \* the Process it is about
    call,      \* index of the parent's call to cur
    part,      \* total_read or total_written of that call
    fdIn, fdOut, \* m_fdIn and m_fdOut of each Process: opened?
    thrown,    \* Processes whose constructor threw
    got,       \* messages readExact has read from each child
    inq, outq, \* parts in each child's stdin and stdout pipe
    ends,      \* who has each end of each pipe open
    child,     \* each child process
    fate       \* "running", or "killed" by SIGPIPE or an uncaught exception
parentVars == <<pc, cur, call, part, fdIn, fdOut, thrown, got>>
vars == <<scenario, parentVars, inq, outq, ends, child, fate>>

Parent == 0
End == {"in.r", "in.w", "out.r", "out.w"}
NoChild == [at |-> "none", step |-> 1, part |-> 0]

Gone(c) == child[c].at \in {"exited", "killed", "reaped"}
Readers(c, pipe) == IF pipe = "in" THEN ends[c]["in.r"] ELSE ends[c]["out.r"]
Writers(c, pipe) == IF pipe = "in" THEN ends[c]["in.w"] ELSE ends[c]["out.w"]

\* The ends after process p has closed those of S of child c's pipes.
Closed(p, c, S) == [ends EXCEPT ![c] = [e \in End |-> IF e \in S THEN @[e] \ {p} ELSE @[e]]]
\* The ends after process p is gone.
Dropped(p) == [c \in Children |-> [e \in End |-> ends[c][e] \ {p}]]

At(place) == fate = "running" /\ pc = place
Op == scenario[cur].calls[call]

-----------------------------------------------------------------------------
(* Process::Process *)

\* The constructor's next Process, or the first call when all are there.
Constructed ==
    IF cur < N THEN pc' = "pipes" /\ cur' = cur + 1 ELSE pc' = "calls" /\ cur' = 1

Throws == thrown' = thrown \union {cur} /\ Constructed

\* The two pipes.  If the second one fails the first one's ends stay open.
Pipes ==
    /\ At("pipes")
    /\ ends' = [ends EXCEPT ![cur] = [e \in End |-> {Parent}]] /\ pc' = "fork"
    /\ UNCHANGED <<scenario, cur, call, part, fdIn, fdOut, thrown, got, inq, outq, child, fate>>

PipeFails ==
    /\ At("pipes") /\ MayFail /\ Throws
    /\ \E S \in {{}, {"in.r", "in.w"}} :
           ends' = [ends EXCEPT ![cur] = [e \in End |-> IF e \in S THEN {Parent} ELSE {}]]
    /\ UNCHANGED <<scenario, call, part, fdIn, fdOut, got, inq, outq, child, fate>>

\* The ProcessError ends the parent, without any destructor.
ForkFails ==
    /\ At("fork") /\ MayFail
    /\ fate' = "killed" /\ ends' = Dropped(Parent)
    /\ UNCHANGED <<scenario, parentVars, inq, outq, child>>

\* The child gets a copy of every descriptor of the parent, those to the
\* children before it included: none of them is close-on-exec.
Fork ==
    /\ At("fork") /\ pc' = "forked"
    /\ ends' = [c \in Children |-> [e \in End |->
                    IF Parent \in ends[c][e] THEN ends[c][e] \union {cur} ELSE ends[c][e]]]
    /\ child' = [child EXCEPT ![cur].at = "forked"]
    /\ UNCHANGED <<scenario, cur, call, part, fdIn, fdOut, thrown, got, inq, outq, fate>>

\* The parent's branch after fork (lines 45 to 48).
ParentSideKeeps ==   \* mutant: close(pipe_out[1]) is forgotten
    /\ At("forked") /\ Constructed
    /\ ends' = Closed(Parent, cur, {"in.r"})
    /\ fdIn' = [fdIn EXCEPT ![cur] = TRUE] /\ fdOut' = [fdOut EXCEPT ![cur] = TRUE]
    /\ UNCHANGED <<scenario, call, part, thrown, got, inq, outq, child, fate>>
ParentSide ==
    /\ At("forked") /\ Constructed
    /\ ends' = Closed(Parent, cur, {"in.r", "out.w"})
    /\ fdIn' = [fdIn EXCEPT ![cur] = TRUE] /\ fdOut' = [fdOut EXCEPT ![cur] = TRUE]
    /\ UNCHANGED <<scenario, call, part, thrown, got, inq, outq, child, fate>>

\* The child's branch: its ends become stdin and stdout, the others are closed.
ChildSide(c) ==
    /\ child[c].at = "forked" /\ child' = [child EXCEPT ![c].at = "exec"]
    /\ ends' = Closed(c, c, {"in.w", "out.r"})
    /\ UNCHANGED <<scenario, parentVars, inq, outq, fate>>

Exec(c) ==
    /\ child[c].at = "exec" /\ child' = [child EXCEPT ![c].at = "running"]
    /\ UNCHANGED <<scenario, parentVars, inq, outq, ends, fate>>

\* execvp fails: the ProcessError ends the child's copy of the parent's program.
\* The parent is not told.
ExecFails(c) ==
    /\ child[c].at = "exec" /\ MayFail
    /\ child' = [child EXCEPT ![c].at = "killed"] /\ ends' = Dropped(c)
    /\ UNCHANGED <<scenario, parentVars, inq, outq, fate>>

-----------------------------------------------------------------------------
(* The parent's calls *)

\* On to the next call, to the next Process, or to the destructors.
NextCall ==
    /\ part' = 0
    /\ IF call < Len(scenario[cur].calls) THEN call' = call + 1 /\ UNCHANGED <<pc, cur>>
       ELSE /\ call' = 1
            /\ IF cur < N THEN cur' = cur + 1 /\ UNCHANGED pc ELSE pc' = "destroy" /\ UNCHANGED cur

Calling(op) == At("calls") /\ cur \notin thrown /\ Op = op

\* There is no object to call.
Skip ==
    /\ At("calls") /\ cur \in thrown /\ part' = 0 /\ call' = 1
    /\ IF cur < N THEN cur' = cur + 1 /\ UNCHANGED pc ELSE pc' = "destroy" /\ UNCHANGED cur
    /\ UNCHANGED <<scenario, fdIn, fdOut, thrown, got, inq, outq, ends, child, fate>>

ReadShort ==   \* mutant: less than len is taken for the end of the file
    /\ Calling("read") /\ fdOut[cur]
    /\ \E n \in 1 .. MsgParts :
        /\ n <= outq[cur]
        /\ outq' = [outq EXCEPT ![cur] = @ - n]
        /\ got' = [got EXCEPT ![cur] = IF n = MsgParts THEN @ + 1 ELSE @] /\ NextCall
    /\ UNCHANGED <<scenario, fdIn, fdOut, thrown, inq, ends, child, fate>>
\* readExact: one read() returns some of what it still wants.
Read ==
    /\ Calling("read") /\ fdOut[cur]
    /\ \E n \in 1 .. MsgParts - part :
        /\ n <= outq[cur]
        /\ outq' = [outq EXCEPT ![cur] = @ - n]
        /\ IF part + n = MsgParts
           THEN got' = [got EXCEPT ![cur] = @ + 1] /\ NextCall
           ELSE part' = part + n /\ UNCHANGED <<pc, cur, call, got>>
    /\ UNCHANGED <<scenario, fdIn, fdOut, thrown, inq, ends, child, fate>>

\* read() returns 0, or the descriptor is closed: readExact throws, the caller goes on.
ReadThrows ==
    /\ Calling("read")
    /\ ~fdOut[cur] \/ (outq[cur] = 0 /\ Writers(cur, "out") = {})
    /\ NextCall
    /\ UNCHANGED <<scenario, fdIn, fdOut, thrown, got, inq, outq, ends, child, fate>>

\* writeExact: the pipe takes what it has room for.
Write ==
    /\ Calling("write") /\ fdIn[cur] /\ Readers(cur, "in") # {} /\ inq[cur] < Cap
    /\ inq' = [inq EXCEPT ![cur] = @ + 1]
    /\ IF part + 1 = MsgParts THEN NextCall ELSE part' = part + 1 /\ UNCHANGED <<pc, cur, call>>
    /\ UNCHANGED <<scenario, fdIn, fdOut, thrown, got, outq, ends, child, fate>>

WriteThrows ==
    /\ Calling("write") /\ ~fdIn[cur] /\ NextCall
    /\ UNCHANGED <<scenario, fdIn, fdOut, thrown, got, inq, outq, ends, child, fate>>

\* Nobody can read any more: SIGPIPE ends the parent, without any destructor.
WriteSigpipe ==
    /\ Calling("write") /\ fdIn[cur] /\ Readers(cur, "in") = {}
    /\ fate' = "killed" /\ ends' = Dropped(Parent)
    /\ UNCHANGED <<scenario, parentVars, inq, outq, child>>

CloseStdin ==
    /\ Calling("closeStdin") /\ NextCall
    /\ fdIn' = [fdIn EXCEPT ![cur] = FALSE] /\ ends' = Closed(Parent, cur, {"in.w"})
    /\ UNCHANGED <<scenario, fdOut, thrown, got, inq, outq, child, fate>>

Close ==
    /\ Calling("close") /\ NextCall
    /\ fdIn' = [fdIn EXCEPT ![cur] = FALSE] /\ fdOut' = [fdOut EXCEPT ![cur] = FALSE]
    /\ ends' = Closed(Parent, cur, {"in.w", "out.r"})
    /\ UNCHANGED <<scenario, thrown, got, inq, outq, child, fate>>

Abort ==
    /\ Calling("abort") /\ NextCall
    /\ child' = [child EXCEPT ![cur].at = IF Gone(cur) THEN @ ELSE "killed"]
    /\ ends' = Dropped(cur)
    /\ UNCHANGED <<scenario, fdIn, fdOut, thrown, got, inq, outq, fate>>

\* ~Process waits for the child and only then closes the pipes, as members.
Destroyed == IF cur > 1 THEN cur' = cur - 1 /\ UNCHANGED pc ELSE pc' = "end" /\ UNCHANGED cur
DestroyNoWait ==   \* mutant: waitpid with WNOHANG
    /\ At("destroy") /\ cur \notin thrown /\ Destroyed
    /\ child' = [child EXCEPT ![cur].at = IF Gone(cur) THEN "reaped" ELSE @]
    /\ fdIn' = [fdIn EXCEPT ![cur] = FALSE] /\ fdOut' = [fdOut EXCEPT ![cur] = FALSE]
    /\ ends' = Closed(Parent, cur, {"in.w", "out.r"})
    /\ UNCHANGED <<scenario, call, part, thrown, got, inq, outq, fate>>
Destroy ==
    /\ At("destroy") /\ cur \notin thrown /\ Gone(cur) /\ Destroyed
    /\ child' = [child EXCEPT ![cur].at = "reaped"]
    /\ fdIn' = [fdIn EXCEPT ![cur] = FALSE] /\ fdOut' = [fdOut EXCEPT ![cur] = FALSE]
    /\ ends' = Closed(Parent, cur, {"in.w", "out.r"})
    /\ UNCHANGED <<scenario, call, part, thrown, got, inq, outq, fate>>

NoDestroy ==
    /\ At("destroy") /\ cur \in thrown /\ Destroyed
    /\ UNCHANGED <<scenario, call, part, fdIn, fdOut, thrown, got, inq, outq, ends, child, fate>>

ParentRuns ==
    \/ Pipes \/ PipeFails \/ Fork \/ ForkFails \/ ParentSide
    \/ Skip \/ Read \/ ReadThrows \/ Write \/ WriteThrows \/ WriteSigpipe
    \/ CloseStdin \/ Close \/ Abort \/ Destroy \/ NoDestroy

-----------------------------------------------------------------------------
(* The children: what example/func.cpp does, or a filter that reads all of *)
(* its input first.                                                        *)

Doing(c, step) ==
    /\ child[c].at = "running" /\ child[c].step <= Len(scenario[c].program)
    /\ scenario[c].program[child[c].step] = step

NextStep(c) == child' = [child EXCEPT ![c].step = @ + 1, ![c].part = 0]
Progress(c) == IF child[c].part + 1 = MsgParts THEN NextStep(c)
               ELSE child' = [child EXCEPT ![c].part = @ + 1]

ChildReads(c) ==
    /\ Doing(c, "read") \/ Doing(c, "readAll")
    /\ inq[c] > 0 /\ inq' = [inq EXCEPT ![c] = @ - 1]
    /\ IF Doing(c, "read") THEN Progress(c) ELSE UNCHANGED child
    /\ UNCHANGED <<scenario, parentVars, outq, ends, fate>>

\* The end of the file: cin.read fails, and the program goes on.
ChildReadsEnd(c) ==
    /\ Doing(c, "read") \/ Doing(c, "readAll")
    /\ inq[c] = 0 /\ Writers(c, "in") = {} /\ NextStep(c)
    /\ UNCHANGED <<scenario, parentVars, inq, outq, ends, fate>>

ChildWrites(c) ==
    /\ Doing(c, "write") /\ Readers(c, "out") # {} /\ outq[c] < Cap
    /\ outq' = [outq EXCEPT ![c] = @ + 1] /\ Progress(c)
    /\ UNCHANGED <<scenario, parentVars, inq, ends, fate>>

ChildSigpipe(c) ==
    /\ Doing(c, "write") /\ Readers(c, "out") = {}
    /\ child' = [child EXCEPT ![c].at = "killed"] /\ ends' = Dropped(c)
    /\ UNCHANGED <<scenario, parentVars, inq, outq, fate>>

ChildExits(c) ==
    /\ child[c].at = "running" /\ child[c].step > Len(scenario[c].program)
    /\ child' = [child EXCEPT ![c].at = "exited"] /\ ends' = Dropped(c)
    /\ UNCHANGED <<scenario, parentVars, inq, outq, fate>>

ChildRuns(c) ==
    \/ ChildSide(c) \/ Exec(c) \/ ExecFails(c) \/ ChildReads(c) \/ ChildReadsEnd(c)
    \/ ChildWrites(c) \/ ChildSigpipe(c) \/ ChildExits(c)

ChildKilled(c) ==
    /\ MayDie /\ child[c].at \in {"forked", "exec", "running"}
    /\ child' = [child EXCEPT ![c].at = "killed"] /\ ends' = Dropped(c)
    /\ UNCHANGED <<scenario, parentVars, inq, outq, fate>>

Init ==
    /\ scenario \in [Children -> Scenarios]
    /\ pc = "pipes" /\ cur = 1 /\ call = 1 /\ part = 0 /\ thrown = {} /\ fate = "running"
    /\ fdIn = [c \in Children |-> FALSE] /\ fdOut = [c \in Children |-> FALSE]
    /\ got = [c \in Children |-> 0]
    /\ inq = [c \in Children |-> 0] /\ outq = [c \in Children |-> 0]
    /\ ends = [c \in Children |-> [e \in End |-> {}]]
    /\ child = [c \in Children |-> NoChild]

Next == ParentRuns \/ \E c \in Children : ChildRuns(c) \/ ChildKilled(c)

Spec == Init /\ [][Next]_vars
FairSpec == Spec /\ WF_vars(ParentRuns) /\ \A c \in Children : WF_vars(ChildRuns(c))

-----------------------------------------------------------------------------
(* Properties *)

\* A Process that was constructed leaves nothing behind: once it is destroyed its
\* child is reaped, neither the parent nor a later child has an end of its pipes.
Constructs == Children \ thrown
LeavesNothing ==
    pc = "end" => \A c \in Constructs :
        child[c].at = "reaped" /\ \A e \in End : ends[c][e] = {}

Times(op, s) == Cardinality({i \in DOMAIN s : s[i] = op})

\* Of what a child that runs to its end has written to a parent that does not turn
\* it away, all that the parent asks for is read, message by message: neither short
\* reads, nor a read that throws, nor the exit of the child before the last read
\* lose any of it or read a message that is not whole.
Heard ==
    pc = "end" => \A c \in Constructs :
        (/\ child[c].step > Len(scenario[c].program)
         /\ Range(scenario[c].calls) \intersect {"close", "abort"} = {})
        => LET asked == Times("read", scenario[c].calls)
               sent  == Times("write", scenario[c].program)
           IN  got[c] = IF asked <= sent THEN asked ELSE sent

\* A child at a standstill: it reads an empty pipe that somebody could still write
\* to, or writes to a full one that somebody could still read.
WantsInput(c) == (Doing(c, "read") \/ Doing(c, "readAll")) /\ inq[c] = 0 /\ Writers(c, "in") # {}
WantsRoom(c) == Doing(c, "write") /\ outq[c] = Cap /\ Readers(c, "out") # {}

\* The parent waits for a child that waits as well: in a call, or in the destructor
\* of a Process whose pipe to that child the program has left open.
Embrace ==
    \/ pc = "calls" /\ (WantsInput(cur) \/ WantsRoom(cur))
    \/ pc = "destroy" /\ ((WantsInput(cur) /\ fdIn[cur]) \/ (WantsRoom(cur) /\ fdOut[cur]))

\* The only thing that keeps the parent from its end is such an embrace: it waits
\* for ever neither for a child that is gone, failed to start or was killed, nor in
\* a destructor after close(), which leaves the child nothing to wait for.
ParentEnds == <>[](pc = "end" \/ fate = "killed" \/ Embrace)
=============================================================================
