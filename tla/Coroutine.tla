------------------------------ MODULE Coroutine ------------------------------
(***************************************************************************)
(* The coroutine pool of hw6 and hw7 (src/coroutines/coroutine.cpp): the   *)
(* thread-local Ordinator with its vector of Routines, the queue of        *)
(* finished routine ids that create() recycles, and the routine that runs. *)
(*                                                                         *)
(* entry() takes a reference to its Routine once, when the routine starts, *)
(* and writes the outcome through it when the routine ends.  A reallocation*)
(* of the vector in between leaves that reference dangling; "attached" is  *)
(* FALSE from then on and the outcome never reaches the live Routine.      *)
(*                                                                         *)
(* The saved context of a Routine points into the Routine itself (glibc    *)
(* keeps uc_mcontext.fpregs inside the ucontext_t), so moving a Routine    *)
(* leaves that pointer dangling until the next save, in yield(); "moved"   *)
(* is TRUE meanwhile, and a resume that reads through it is undefined.     *)
(*                                                                         *)
(* create() and resume() are called from the scheduler's context only, as  *)
(* the HTTP server does, so they need current = 0.                         *)
(***************************************************************************)
EXTENDS Integers, Sequences

CONSTANTS
    Jobs,         \* what a routine is created to do (its RoutineFunction)
    MaxRoutines   \* bound: routines the vector may grow to

ASSUME MaxRoutinesAssumption == MaxRoutines \in Nat \ {0}

VARIABLES
    routines,     \* Ordinator::routines, ids are positions
    finished,     \* Ordinator::finished, a FIFO of ids
    capacity,     \* capacity of the vector routines
    current,      \* Ordinator::current, 0 when the scheduler runs
    fate          \* "running", or how the process left the modelled behaviour

coVars == <<routines, finished, capacity, current, fate>>

Phase == {"fresh", "suspended", "running", "ended"}
Fate  == {"running", "undefined", "killed"}

Routine == [func : Jobs, phase : Phase, finished : BOOLEAN,
            exception : BOOLEAN, attached : BOOLEAN, moved : BOOLEAN]

Ids == 1 .. Len(routines)

(***************************************************************************)
(* Both the Routine constructor and Routine::reset leave a context that    *)
(* will start entry(), no exception and finished = false; makecontext does *)
(* not re-anchor the context's own pointer.                                *)
(***************************************************************************)
NewRoutine(job, moved) ==
    [func |-> job, phase |-> "fresh", finished |-> FALSE,
     exception |-> FALSE, attached |-> FALSE, moved |-> moved]

(***************************************************************************)
(* emplace_back on a full vector moves every Routine to new storage.       *)
(***************************************************************************)
ReallocatesLate == Len(routines) > capacity   \* mutant: off by one
Reallocates == Len(routines) = capacity

Moved(r) == [r EXCEPT !.attached = FALSE, !.moved = TRUE]

EmplaceBack(job) ==
    /\ Len(routines) < MaxRoutines
    /\ routines' = Append(IF Reallocates
                          THEN [i \in Ids |-> Moved(routines[i])]
                          ELSE routines,
                          NewRoutine(job, FALSE))
    /\ capacity' = IF ~Reallocates THEN capacity
                   ELSE IF capacity = 0 THEN 1 ELSE 2 * capacity

\* Mutant: reset() leaves the exception of the last run in place.
RecycleStale(job, id) ==
    /\ finished' = Tail(finished)
    /\ routines' = [routines EXCEPT ![id] =
            [NewRoutine(job, @.moved) EXCEPT !.exception = routines[id].exception]]

Recycle(job, id) ==
    /\ finished' = Tail(finished)
    /\ routines' = [routines EXCEPT ![id] = NewRoutine(job, @.moved)]

\* create(): id is the routine_t it returns.
Create(job, id) ==
    /\ fate = "running" /\ current = 0
    /\ \/ /\ finished = <<>>
          /\ id = Len(routines) + 1
          /\ EmplaceBack(job)
          /\ UNCHANGED finished
       \/ /\ finished # <<>>
          /\ id = Head(finished)
          /\ Recycle(job, id)
          /\ UNCHANGED capacity
    /\ UNCHANGED <<current, fate>>

\* resume() returns false at once for these ids.
Refuses(id) == id \notin Ids \/ routines[id].finished

\* resume() switches to the routine; entry() binds its reference at the start.
Resume(id) ==
    /\ fate = "running" /\ current = 0
    /\ ~Refuses(id)
    /\ routines[id].phase \in {"fresh", "suspended"}
    /\ routines' = [routines EXCEPT
            ![id].phase = "running",
            ![id].attached = @ \/ routines[id].phase = "fresh"]
    /\ current' = id
    /\ \/ fate' = fate
       \/ routines[id].moved /\ fate' = "undefined"
    /\ UNCHANGED <<finished, capacity>>

\* resume() of a routine that ended without its flag being set: swapcontext
\* enters a context whose stack is gone.
ResumeEnded(id) ==
    /\ fate = "running" /\ current = 0
    /\ ~Refuses(id)
    /\ routines[id].phase = "ended"
    /\ fate' = "undefined"
    /\ UNCHANGED <<routines, finished, capacity, current>>

\* Mutant: yield() leaves Ordinator::current set.
YieldStaysCurrent ==
    /\ fate = "running" /\ current # 0
    /\ routines' = [routines EXCEPT ![current].phase = "suspended",
                                    ![current].moved = FALSE]
    /\ UNCHANGED <<current, finished, capacity, fate>>

\* Mutant: a routine that yields is queued for recycling.
YieldFinishes ==
    /\ fate = "running" /\ current # 0
    /\ routines' = [routines EXCEPT ![current].phase = "suspended",
                                    ![current].moved = FALSE]
    /\ current' = 0
    /\ finished' = Append(finished, current)
    /\ UNCHANGED <<capacity, fate>>

Yield ==
    /\ fate = "running" /\ current # 0
    /\ routines' = [routines EXCEPT ![current].phase = "suspended",
                                    ![current].moved = FALSE]
    /\ current' = 0
    /\ UNCHANGED <<finished, capacity, fate>>

\* Mutant: entry() clears current before it queues it.
FinishQueuesCleared(thrown) ==
    /\ fate = "running" /\ current # 0
    /\ routines' = [routines EXCEPT ![current].phase = "ended",
                                    ![current].finished = TRUE,
                                    ![current].exception = @ \/ thrown]
    /\ current' = 0
    /\ finished' = Append(finished, current')
    /\ UNCHANGED <<capacity, fate>>

(***************************************************************************)
(* entry() after func returned (thrown = FALSE) or threw.  Through a       *)
(* dangling reference the two writes go to freed memory: they are lost, or *)
(* they break the heap.                                                    *)
(***************************************************************************)
Finish(thrown) ==
    /\ fate = "running" /\ current # 0
    /\ LET attached == routines[current].attached IN
       /\ routines' = [routines EXCEPT
              ![current].phase = "ended",
              ![current].finished = @ \/ attached,
              ![current].exception = @ \/ (attached /\ thrown),
              ![current].attached = FALSE]
       /\ \/ fate' = fate
          \/ ~attached /\ fate' = "undefined"
    /\ finished' = Append(finished, current)
    /\ current' = 0
    /\ UNCHANGED capacity

\* The rest of the process ends without touching the pool.
Leave ==
    /\ fate = "running" /\ fate' \in Fate
    /\ UNCHANGED <<routines, finished, capacity, current>>

CoInit ==
    /\ routines = <<>> /\ finished = <<>>
    /\ capacity = 0 /\ current = 0
    /\ fate = "running"

CoNext ==
    \/ \E job \in Jobs, id \in 1 .. MaxRoutines : Create(job, id)
    \/ \E id \in Ids : Resume(id)
    \/ \E id \in Ids : ResumeEnded(id)
    \/ Yield
    \/ \E thrown \in BOOLEAN : Finish(thrown)
    \/ Leave

CoSpec == CoInit /\ [][CoNext]_coVars

-----------------------------------------------------------------------------

CoTypeOK ==
    /\ routines \in Seq(Routine) /\ Len(routines) <= MaxRoutines
    /\ finished \in Seq(Nat)
    /\ capacity \in Nat /\ Len(routines) <= capacity
    /\ current \in Nat
    /\ fate \in Fate

Ended == {i \in Ids : routines[i].phase = "ended"}

\* The queue that create() recycles from holds every ended routine, each
\* once, and nothing that may still be resumed: two jobs never share a stack.
FinishedQueueSound ==
    /\ {finished[k] : k \in DOMAIN finished} = Ended
    /\ \A k, l \in DOMAIN finished : finished[k] = finished[l] => k = l

\* Ordinator::current designates the one routine that is on its own stack,
\* so that yield() and entry() index the vector with a valid id.
CurrentRuns ==
    /\ current # 0 => current \in Ids
    /\ \A i \in Ids : routines[i].phase = "running" <=> i = current

\* resume() refuses only routines that have ended: a wakeup is never dropped
\* because a recycled Routine kept an old flag or an old exception.
LiveNotRefused ==
    \A i \in Ids : routines[i].finished \/ routines[i].exception => i \in Ended

\* A routine's slot changes job only after the job in it has ended
\* (create() never restarts a stack that is still in use).
JobsRunToEnd ==
    [][\A i \in Ids :
          routines'[i].phase = "fresh" /\ routines[i].phase # "fresh"
              => routines[i].phase = "ended"]_coVars

=============================================================================
