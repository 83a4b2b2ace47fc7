-------------------------- MODULE CoroutineProofs --------------------------
(***************************************************************************)
(* Proofs about Coroutine, for any jobs and any bound on the vector.       *)
(* CoInv is inductive as it stands: the three properties support each      *)
(* other.  create() recycles soundly because the queue holds ended         *)
(* routines only; the queue stays sound because only the current routine   *)
(* ends, and it is running, so it is not in the queue yet.                 *)
(***************************************************************************)
EXTENDS Coroutine, TLAPS

CoInv == CoTypeOK /\ FinishedQueueSound /\ CurrentRuns /\ LiveNotRefused

\* Append puts one element behind the others.
LEMMA AppendFacts ==
    ASSUME NEW S, NEW s \in Seq(S), NEW e \in S
    PROVE  /\ Append(s, e) \in Seq(S)
           /\ Len(Append(s, e)) = Len(s) + 1
           /\ Append(s, e)[Len(s) + 1] = e
           /\ \A i \in 1 .. Len(s) : Append(s, e)[i] = s[i]
  OBVIOUS

\* Tail drops the first element and shifts the others.
LEMMA TailFacts ==
    ASSUME NEW S, NEW s \in Seq(S), s # <<>>
    PROVE  /\ Tail(s) \in Seq(S)
           /\ Len(Tail(s)) = Len(s) - 1
           /\ \A i \in 1 .. Len(s) - 1 : Tail(s)[i] = s[i + 1]
           /\ Head(s) = s[1] /\ 1 \in DOMAIN s
           /\ DOMAIN Tail(s) = 1 .. Len(s) - 1 /\ DOMAIN s = 1 .. Len(s)
  OBVIOUS

\* emplace_back appends the new routine; the others keep all but "attached"
\* and "moved" (coroutine.cpp:64).
LEMMA EmplaceBackAppends ==
    ASSUME CoTypeOK, NEW job \in Jobs, EmplaceBack(job)
    PROVE  /\ routines' \in Seq(Routine)
           /\ Len(routines') = Len(routines) + 1 /\ Len(routines') <= MaxRoutines
           /\ routines'[Len(routines) + 1] = NewRoutine(job, FALSE)
           /\ \A i \in Ids :
                /\ routines'[i].func = routines[i].func
                /\ routines'[i].phase = routines[i].phase
                /\ routines'[i].finished = routines[i].finished
                /\ routines'[i].exception = routines[i].exception
           /\ capacity' \in Nat /\ Len(routines') <= capacity'
  <1> DEFINE old == IF Reallocates THEN [i \in Ids |-> Moved(routines[i])]
                    ELSE routines
  <1>1. /\ Len(routines) \in Nat
        /\ \A i \in Ids : routines[i] \in Routine
    BY DEF CoTypeOK, Ids
  <1>2. \A i \in Ids : Moved(routines[i]) \in Routine
    BY <1>1 DEF Moved, Routine
  <1>3. old \in Seq(Routine) /\ Len(old) = Len(routines)
    <2>1. CASE Reallocates
      <3>1. [i \in Ids |-> Moved(routines[i])] \in [1 .. Len(routines) -> Routine]
        BY <1>2 DEF Ids
      <3> QED BY <2>1, <3>1, <1>1 DEF Ids
    <2>2. CASE ~Reallocates
      BY <2>2 DEF CoTypeOK
    <2> QED BY <2>1, <2>2
  <1>4. \A i \in Ids : /\ old[i].func = routines[i].func
                       /\ old[i].phase = routines[i].phase
                       /\ old[i].finished = routines[i].finished
                       /\ old[i].exception = routines[i].exception
    BY <1>1 DEF Moved, Routine
  <1>5. NewRoutine(job, FALSE) \in Routine
    BY DEF NewRoutine, Routine, Phase
  <1>6. routines' = Append(old, NewRoutine(job, FALSE))
    BY DEF EmplaceBack
  <1>a. /\ Append(old, NewRoutine(job, FALSE)) \in Seq(Routine)
        /\ Len(Append(old, NewRoutine(job, FALSE))) = Len(old) + 1
        /\ Append(old, NewRoutine(job, FALSE))[Len(old) + 1] = NewRoutine(job, FALSE)
        /\ \A i \in 1 .. Len(old) : Append(old, NewRoutine(job, FALSE))[i] = old[i]
    <2> DEFINE new == NewRoutine(job, FALSE)
    <2>1. old \in Seq(Routine) /\ new \in Routine
      BY <1>3, <1>5
    <2> HIDE DEF old, new
    <2>2. /\ Append(old, new) \in Seq(Routine)
          /\ Len(Append(old, new)) = Len(old) + 1
          /\ Append(old, new)[Len(old) + 1] = new
          /\ \A i \in 1 .. Len(old) : Append(old, new)[i] = old[i]
      BY ONLY <2>1, AppendFacts
    <2> QED BY <2>2 DEF new
  <1> HIDE DEF old
  <1>7. /\ routines' \in Seq(Routine) /\ Len(routines') = Len(routines) + 1
        /\ routines'[Len(routines) + 1] = NewRoutine(job, FALSE)
        /\ \A i \in Ids : routines'[i] = old[i]
    BY <1>3, <1>6, <1>a DEF Ids
  <1>8. capacity' \in Nat /\ Len(routines) + 1 <= capacity'
    BY <1>1 DEF CoTypeOK, EmplaceBack, Reallocates
  <1>9. Len(routines) + 1 <= MaxRoutines
    BY <1>1, MaxRoutinesAssumption DEF EmplaceBack
  <1> QED BY <1>4, <1>7, <1>8, <1>9

\* Initially there is no routine and nothing to recycle.
LEMMA CoInitial == CoInit => CoInv
  <1> SUFFICES ASSUME CoInit PROVE CoInv
    OBVIOUS
  <1> USE DEF CoInit
  <1>1. CoTypeOK
    BY MaxRoutinesAssumption DEF CoTypeOK, Fate
  <1>2. Ids = {}
    BY DEF Ids
  <1>3. FinishedQueueSound
    BY <1>2 DEF FinishedQueueSound, Ended
  <1> QED BY <1>1, <1>2, <1>3 DEF CoInv, CurrentRuns, LiveNotRefused

-----------------------------------------------------------------------------

\* The routine that create() recycles has ended (coroutine.cpp:69).
LEMMA RecycledHasEnded ==
    ASSUME CoInv, finished # <<>>
    PROVE  Head(finished) \in Ended
  <1>1. 1 \in DOMAIN finished /\ Head(finished) = finished[1]
    BY TailFacts DEF CoInv, CoTypeOK
  <1> QED BY <1>1 DEF CoInv, FinishedQueueSound

\* A step that changes one routine in place keeps the vector well-typed.
LEMMA InPlaceTyped ==
    ASSUME CoTypeOK, NEW id \in Ids, NEW r \in Routine,
           routines' = [routines EXCEPT ![id] = r]
    PROVE  /\ routines' \in Seq(Routine) /\ Len(routines') = Len(routines)
           /\ Ids' = Ids /\ routines'[id] = r
           /\ \A i \in Ids : i # id => routines'[i] = routines[i]
  BY DEF CoTypeOK, Ids

\* create() on an empty queue.
LEMMA AppendKeeps ==
    ASSUME CoInv, NEW job \in Jobs, finished = <<>>, current = 0,
           EmplaceBack(job), UNCHANGED <<finished, current, fate>>
    PROVE  CoInv'
  <1> USE DEF CoInv
  <1>0. /\ routines' \in Seq(Routine)
        /\ Len(routines') = Len(routines) + 1 /\ Len(routines') <= MaxRoutines
        /\ routines'[Len(routines) + 1] = NewRoutine(job, FALSE)
        /\ \A i \in Ids :
              /\ routines'[i].func = routines[i].func
              /\ routines'[i].phase = routines[i].phase
              /\ routines'[i].finished = routines[i].finished
              /\ routines'[i].exception = routines[i].exception
        /\ capacity' \in Nat /\ Len(routines') <= capacity'
    BY EmplaceBackAppends
  <1>1. Len(routines) \in Nat /\ Ids' = Ids \union {Len(routines) + 1}
    BY <1>0 DEF Ids, CoTypeOK
  <1>2. /\ routines'[Len(routines) + 1].phase = "fresh"
        /\ ~routines'[Len(routines) + 1].finished
        /\ ~routines'[Len(routines) + 1].exception
    BY <1>0 DEF NewRoutine
  <1>3. CoTypeOK'
    BY <1>0 DEF CoTypeOK
  <1>4. Ended = {}
    BY DEF FinishedQueueSound
  <1>5. Ended' = {}
    BY <1>0, <1>1, <1>2, <1>4 DEF Ended
  <1>6. FinishedQueueSound'
    BY <1>4, <1>5 DEF FinishedQueueSound
  <1>7. CurrentRuns'
    <2>1. \A i \in Ids : routines'[i].phase # "running"
      BY <1>0, <1>1 DEF CurrentRuns, Ids
    <2>2. \A i \in Ids' : routines'[i].phase # "running" /\ i # 0
      BY <2>1, <1>1, <1>2 DEF Ids
    <2> QED BY <2>2 DEF CurrentRuns
  <1>8. LiveNotRefused'
    BY <1>0, <1>1, <1>2, <1>4, <1>5 DEF LiveNotRefused
  <1> QED BY <1>3, <1>6, <1>7, <1>8

\* create() on the head of the queue.
LEMMA RecycleKeeps ==
    ASSUME CoInv, NEW job \in Jobs, finished # <<>>, current = 0,
           Recycle(job, Head(finished)), UNCHANGED <<capacity, current, fate>>
    PROVE  CoInv'
  <1> DEFINE id == Head(finished)
             r  == NewRoutine(job, routines[id].moved)
  <1> USE DEF CoInv
  <1>1. id \in Ended /\ id \in Ids
    BY RecycledHasEnded DEF Ended
  <1>2. r \in Routine /\ r.phase = "fresh" /\ ~r.finished /\ ~r.exception
    <2>1. \A i \in Ids : routines[i] \in Routine
      BY DEF CoTypeOK, Ids
    <2> HIDE DEF id
    <2>2. routines[id].moved \in BOOLEAN
      BY <1>1, <2>1 DEF Routine
    <2> QED BY <2>2 DEF NewRoutine, Routine, Phase
  <1>3. routines' = [routines EXCEPT ![id] = r]
    BY DEF Recycle
  <1>4. /\ routines' \in Seq(Routine) /\ Len(routines') = Len(routines)
        /\ Ids' = Ids /\ routines'[id] = r
        /\ \A i \in Ids : i # id => routines'[i] = routines[i]
    <2> HIDE DEF r, id
    <2> QED BY <1>1, <1>2, <1>3, InPlaceTyped
  <1>5. /\ finished \in Seq(Nat) /\ finished' = Tail(finished)
        /\ finished' \in Seq(Nat) /\ id = finished[1]
        /\ DOMAIN finished = 1 .. Len(finished) /\ Len(finished) \in Nat \ {0}
        /\ DOMAIN finished' = 1 .. Len(finished) - 1
        /\ \A k \in 1 .. Len(finished) - 1 : finished'[k] = finished[k + 1]
    BY TailFacts DEF Recycle, CoTypeOK
  <1> HIDE DEF r, id
  <1>6. CoTypeOK'
    BY <1>4, <1>5 DEF CoTypeOK
  <1>7. Ended' = Ended \ {id}
    BY <1>2, <1>4 DEF Ended
  <1>8. FinishedQueueSound'
    <2>1. ASSUME NEW k \in DOMAIN finished' PROVE finished'[k] \in Ended'
      <3>1. k + 1 \in DOMAIN finished /\ 1 \in DOMAIN finished /\ k + 1 # 1
        BY <1>5
      <3>2. finished[k + 1] \in Ended /\ finished[k + 1] # id
        BY <3>1, <1>5 DEF FinishedQueueSound
      <3> QED BY <3>2, <1>5, <1>7
    <2>2. ASSUME NEW i \in Ended' PROVE \E k \in DOMAIN finished' : finished'[k] = i
      <3>1. PICK k \in DOMAIN finished : finished[k] = i
        BY <1>7 DEF FinishedQueueSound
      <3>2. k # 1
        BY <3>1, <1>5, <1>7
      <3>3. k - 1 \in DOMAIN finished' /\ finished'[k - 1] = finished[k]
        BY <3>2, <1>5
      <3> QED BY <3>1, <3>3
    <2>3. ASSUME NEW k \in DOMAIN finished', NEW l \in DOMAIN finished',
                 finished'[k] = finished'[l]
          PROVE  k = l
      <3>1. /\ k + 1 \in DOMAIN finished /\ l + 1 \in DOMAIN finished
            /\ finished[k + 1] = finished[l + 1]
        BY <1>5, <2>3
      <3>2. k + 1 = l + 1
        BY <3>1 DEF FinishedQueueSound
      <3> QED BY <3>2, <1>5
    <2> QED BY <2>1, <2>2, <2>3 DEF FinishedQueueSound
  <1>9. CurrentRuns'
    <2>1. \A i \in Ids : i # 0 /\ routines[i].phase # "running"
      BY DEF CurrentRuns, Ids, CoTypeOK
    <2> QED BY <2>1, <1>2, <1>4 DEF CurrentRuns
  <1>10. LiveNotRefused'
    BY <1>2, <1>4, <1>7 DEF LiveNotRefused
  <1> QED BY <1>6, <1>8, <1>9, <1>10

\* resume() of a routine that has not ended.
LEMMA ResumeKeeps == ASSUME CoInv, NEW id \in Ids, Resume(id) PROVE CoInv'
  <1> DEFINE r == [routines[id] EXCEPT !.phase = "running",
                      !.attached = @ \/ routines[id].phase = "fresh"]
  <1> USE DEF CoInv
  <1>0. routines[id] \in Routine
    BY DEF CoTypeOK, Ids
  <1>1. /\ r \in Routine /\ r.phase = "running"
        /\ r.finished = routines[id].finished
        /\ r.exception = routines[id].exception
    BY <1>0 DEF Routine, Phase
  <1>2. routines' = [routines EXCEPT ![id] = r]
    BY <1>0 DEF Resume, Routine
  <1> HIDE DEF r
  <1>3. /\ routines' \in Seq(Routine) /\ Len(routines') = Len(routines)
        /\ Ids' = Ids /\ routines'[id] = r
        /\ \A i \in Ids : i # id => routines'[i] = routines[i]
    BY <1>1, <1>2, InPlaceTyped
  <1>4. CoTypeOK'
    BY <1>3 DEF CoTypeOK, Resume, Fate, Ids
  <1>5. Ended' = Ended
    BY <1>1, <1>3 DEF Ended, Resume
  <1>6. FinishedQueueSound'
    BY <1>5 DEF FinishedQueueSound, Resume
  <1>7. CurrentRuns'
    BY <1>1, <1>3 DEF CurrentRuns, Resume, Ids
  <1>8. LiveNotRefused'
    BY <1>1, <1>3, <1>5 DEF LiveNotRefused
  <1> QED BY <1>4, <1>6, <1>7, <1>8

\* yield() of the routine that runs.
LEMMA YieldKeeps == ASSUME CoInv, Yield PROVE CoInv'
  <1> DEFINE r == [routines[current] EXCEPT !.phase = "suspended", !.moved = FALSE]
  <1> USE DEF CoInv
  <1>0. /\ current \in Ids /\ routines[current] \in Routine
        /\ routines[current].phase = "running"
    BY DEF CoTypeOK, Ids, CurrentRuns, Yield
  <1>1. /\ r \in Routine /\ r.phase = "suspended"
        /\ r.finished = routines[current].finished
        /\ r.exception = routines[current].exception
    BY <1>0 DEF Routine, Phase
  <1>2. routines' = [routines EXCEPT ![current] = r]
    BY <1>0 DEF Yield, Routine
  <1> HIDE DEF r
  <1>3. /\ routines' \in Seq(Routine) /\ Len(routines') = Len(routines)
        /\ Ids' = Ids /\ routines'[current] = r
        /\ \A i \in Ids : i # current => routines'[i] = routines[i]
    BY <1>0, <1>1, <1>2, InPlaceTyped
  <1>4. CoTypeOK'
    BY <1>3 DEF CoTypeOK, Yield
  <1>5. Ended' = Ended
    BY <1>0, <1>1, <1>3 DEF Ended
  <1>6. FinishedQueueSound'
    BY <1>5 DEF FinishedQueueSound, Yield
  <1>7. CurrentRuns'
    BY <1>0, <1>1, <1>3 DEF CurrentRuns, Yield, Ids
  <1>8. LiveNotRefused'
    BY <1>1, <1>3, <1>5 DEF LiveNotRefused
  <1> QED BY <1>4, <1>6, <1>7, <1>8

\* entry() queues the routine that ends: it was running, so not queued yet.
LEMMA FinishKeeps ==
    ASSUME CoInv, NEW thrown \in BOOLEAN, Finish(thrown) PROVE CoInv'
  <1> DEFINE old == routines[current]
             r == [old EXCEPT !.phase = "ended",
                              !.finished = @ \/ old.attached,
                              !.exception = @ \/ (old.attached /\ thrown),
                              !.attached = FALSE]
  <1> USE DEF CoInv
  <1>0. current \in Ids /\ old \in Routine /\ old.phase = "running"
    BY DEF CoTypeOK, Ids, CurrentRuns, Finish
  <1>1. r \in Routine /\ r.phase = "ended"
    BY <1>0 DEF Routine, Phase
  <1>2. routines' = [routines EXCEPT ![current] = r]
    BY <1>0 DEF Finish, Routine
  <1> HIDE DEF r, old
  <1>3. /\ routines' \in Seq(Routine) /\ Len(routines') = Len(routines)
        /\ Ids' = Ids /\ routines'[current] = r
        /\ \A i \in Ids : i # current => routines'[i] = routines[i]
    BY <1>0, <1>1, <1>2, InPlaceTyped
  <1>4. /\ finished \in Seq(Nat) /\ finished' \in Seq(Nat)
        /\ DOMAIN finished = 1 .. Len(finished) /\ Len(finished) \in Nat
        /\ DOMAIN finished' = 1 .. Len(finished) + 1
        /\ finished'[Len(finished) + 1] = current
        /\ \A k \in 1 .. Len(finished) : finished'[k] = finished[k]
    <2>1. finished \in Seq(Nat) /\ current \in Nat
          /\ finished' = Append(finished, current)
      BY DEF CoTypeOK, Finish
    <2> QED BY ONLY <2>1, AppendFacts
  <1>5. CoTypeOK'
    BY <1>3, <1>4 DEF CoTypeOK, Finish, Fate
  <1>6. Ended' = Ended \union {current} /\ current \notin Ended
    BY <1>0, <1>1, <1>3 DEF Ended, old
  <1>7. FinishedQueueSound'
    <2>1. ASSUME NEW k \in DOMAIN finished' PROVE finished'[k] \in Ended'
      BY <1>4, <1>6 DEF FinishedQueueSound
    <2>2. ASSUME NEW i \in Ended' PROVE \E k \in DOMAIN finished' : finished'[k] = i
      BY <1>4, <1>6 DEF FinishedQueueSound
    <2>3. ASSUME NEW k \in DOMAIN finished', NEW l \in DOMAIN finished',
                 finished'[k] = finished'[l]
          PROVE  k = l
      <3>1. \A m \in 1 .. Len(finished) : finished[m] # current
        BY <1>4, <1>6 DEF FinishedQueueSound
      <3> QED BY <3>1, <1>4, <2>3 DEF FinishedQueueSound
    <2> QED BY <2>1, <2>2, <2>3 DEF FinishedQueueSound
  <1>8. CurrentRuns'
    BY <1>0, <1>1, <1>3 DEF CurrentRuns, Finish, Ids
  <1>9. LiveNotRefused'
    BY <1>3, <1>6 DEF LiveNotRefused
  <1> QED BY <1>5, <1>7, <1>8, <1>9

\* Every step of the pool keeps the invariant.
LEMMA CoStep == CoInv /\ [CoNext]_coVars => CoInv'
  <1> SUFFICES ASSUME CoInv, [CoNext]_coVars PROVE CoInv'
    OBVIOUS
  <1>1. ASSUME NEW job \in Jobs, NEW id \in 1 .. MaxRoutines, Create(job, id)
        PROVE  CoInv'
    BY <1>1, AppendKeeps, RecycleKeeps DEF Create
  <1>2. ASSUME NEW id \in Ids, Resume(id) PROVE CoInv'
    BY <1>2, ResumeKeeps
  <1>3. CASE Yield
    BY <1>3, YieldKeeps
  <1>4. ASSUME NEW thrown \in BOOLEAN, Finish(thrown) PROVE CoInv'
    BY <1>4, FinishKeeps
  <1>5. CASE UNCHANGED <<routines, finished, capacity, current>> /\ fate' \in Fate
    BY <1>5 DEF CoInv, CoTypeOK, FinishedQueueSound, CurrentRuns, LiveNotRefused,
                Ended, Ids
  <1>6. ASSUME NEW id \in Ids, ResumeEnded(id) PROVE CoInv'
    BY <1>5, <1>6 DEF ResumeEnded, Fate
  <1>7. CASE Leave
    BY <1>5, <1>7 DEF Leave
  <1>8. CASE UNCHANGED coVars
    BY <1>5, <1>8 DEF coVars, CoInv, CoTypeOK
  <1> QED BY <1>1, <1>2, <1>3, <1>4, <1>6, <1>7, <1>8 DEF CoNext

\* The pool's invariant holds in every reachable state.
THEOREM CoInvariant == CoSpec => []CoInv
  <1>1. CoInit => CoInv
    BY CoInitial
  <1>2. CoInv /\ [CoNext]_coVars => CoInv'
    BY CoStep
  <1> QED BY <1>1, <1>2, PTL DEF CoSpec

\* The pool's variables keep their types.
THEOREM CoTypeCorrect == CoSpec => []CoTypeOK
  BY CoInvariant, PTL DEF CoInv

\* create() recycles ended routines only, each of them once
\* (coroutine.cpp:69-72 and 135).
THEOREM QueueSound == CoSpec => []FinishedQueueSound
  BY CoInvariant, PTL DEF CoInv

\* yield() and entry() index the vector with the id of the one routine that
\* is on its own stack (coroutine.cpp:103-104 and 121-122).
THEOREM CurrentIsRunning == CoSpec => []CurrentRuns
  BY CoInvariant, PTL DEF CoInv

\* No wakeup is lost to a flag left over from the slot's previous job
\* (coroutine.cpp:84).
THEOREM NoWakeupRefused == CoSpec => []LiveNotRefused
  BY CoInvariant, PTL DEF CoInv

\* A stack is restarted only after the job on it has ended.
THEOREM StacksNotShared == CoSpec => JobsRunToEnd
  <1> DEFINE Restarts == \A i \in Ids :
                 routines'[i].phase = "fresh" /\ routines[i].phase # "fresh"
                     => routines[i].phase = "ended"
  <1>1. CoInv /\ [CoNext]_coVars => [Restarts]_coVars
    <2> SUFFICES ASSUME CoInv, CoNext PROVE Restarts
      BY DEF coVars
    <2> SUFFICES ASSUME NEW i \in Ids, routines'[i].phase = "fresh",
                        routines[i].phase # "fresh"
                 PROVE  routines[i].phase = "ended"
      OBVIOUS
    <2>0. routines \in Seq(Routine) /\ \A k \in Ids : routines[k] \in Routine
      BY DEF CoInv, CoTypeOK, Ids
    <2>1. ASSUME NEW job \in Jobs, NEW id \in 1 .. MaxRoutines, Create(job, id)
          PROVE  routines[i].phase = "ended"
      <3>1. CASE finished = <<>> /\ EmplaceBack(job)
        BY <3>1, EmplaceBackAppends DEF CoInv
      <3>2. CASE finished # <<>> /\ id = Head(finished) /\ Recycle(job, id)
        <4>1. id \in Ended
          BY <3>2, RecycledHasEnded
        <4>2. i # id => routines'[i] = routines[i]
          BY <3>2, <2>0 DEF Recycle, Ids
        <4> QED BY <4>1, <4>2 DEF Ended
      <3> QED BY <2>1, <3>1, <3>2 DEF Create
    <2>2. ASSUME NEW id \in Ids, Resume(id) PROVE routines[i].phase = "ended"
      BY <2>0, <2>2 DEF Resume, Ids, Routine
    <2>3. CASE Yield
      BY <2>0, <2>3 DEF Yield, Ids, Routine
    <2>4. ASSUME NEW thrown \in BOOLEAN, Finish(thrown)
          PROVE  routines[i].phase = "ended"
      BY <2>0, <2>4 DEF Finish, Ids, Routine
    <2>5. CASE Leave \/ \E id \in Ids : ResumeEnded(id)
      BY <2>5 DEF Leave, ResumeEnded
    <2> QED BY <2>1, <2>2, <2>3, <2>4, <2>5 DEF CoNext
  <1> QED BY <1>1, CoInvariant, PTL DEF CoSpec, JobsRunToEnd

=============================================================================
