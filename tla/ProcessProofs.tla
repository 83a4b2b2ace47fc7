---------------------------- MODULE ProcessProofs ----------------------------
(***************************************************************************)
(* Proofs about Process, for any number of children, any scenarios, sizes  *)
(* of messages and pipes, and whatever fails and whoever is killed.        *)
(*                                                                         *)
(* That nothing is left behind depends on who inherits which descriptor:   *)
(* only living processes hold ends of pipes (Holders), and the parent has  *)
(* let go of what its destructors have been through (Stages).  That        *)
(* nothing a child wrote is lost is a matter of counting parts: what it    *)
(* has written is in the pipe, in the messages that were read, or in the   *)
(* part of one that readExact holds (Conserved).  A read that throws drops *)
(* that part, which is empty unless the child was killed (Kept).           *)
(***************************************************************************)
EXTENDS Process, FiniteSetTheorems, TLAPS

Building == pc \in {"pipes", "fork", "forked"}
Alive(c) == child[c].at \in {"forked", "exec", "running"}

Child == [at : {"none", "forked", "exec", "running", "exited", "killed", "reaped"},
          step : Nat \ {0}, part : 0 .. MsgParts - 1]

Types ==
    /\ scenario \in [Children -> Scenarios]
    /\ pc \in {"pipes", "fork", "forked", "calls", "destroy", "end"}
    /\ cur \in Children /\ call \in Nat /\ part \in 0 .. MsgParts - 1
    /\ fdIn \in [Children -> BOOLEAN] /\ fdOut \in [Children -> BOOLEAN]
    /\ thrown \subseteq Children
    /\ got \in [Children -> Nat]
    /\ inq \in [Children -> Nat] /\ outq \in [Children -> Nat]
    /\ ends \in [Children -> [End -> SUBSET (Children \union {Parent})]]
    /\ child \in [Children -> Child]
    /\ fate \in {"running", "killed"}

\* The parent's call is one of the scenario's.
CallThere ==
    /\ call \in DOMAIN scenario[cur].calls
    /\ pc # "calls" => call = 1 /\ part = 0
    /\ fate = "killed" => pc \in {"fork", "calls"}

Built(c) == ~Building \/ c < cur
Undone(c) == pc = "end" \/ (pc = "destroy" /\ c > cur)

\* What constructors and destructors have done.
Stage(c) ==
    /\ c \in thrown => Built(c) /\ child[c].at = "none"
    /\ c \notin thrown /\ Built(c) =>
          /\ child[c].at # "none"
          /\ Parent \notin ends[c]["in.r"] /\ Parent \notin ends[c]["out.w"]
    /\ c \notin thrown /\ Undone(c) =>
          child[c].at = "reaped" /\ \A e \in End : Parent \notin ends[c][e]
    /\ ~Built(c) /\ ~(c = cur /\ pc = "forked") => child[c].at = "none"
    /\ c = cur /\ pc = "forked" => child[c].at # "none"
    /\ c = cur /\ pc = "fork" /\ fate = "running" => Parent \in ends[c]["out.w"]

Stages == \A c \in Children : Stage(c)

\* Only the parent and living children hold ends, each child its own stdout.
Held(c) ==
    /\ \A e \in End : \A q \in ends[c][e] : q = Parent \/ Alive(q)
    /\ Alive(c) => c \in ends[c]["out.w"]

Holders == \A c \in Children : Held(c)

-----------------------------------------------------------------------------
(* Types *)

LEMMA ChildrenFacts ==
    /\ \A c \in Children : c \in Nat /\ 1 <= c /\ c <= N /\ c # Parent
    /\ \A c \in Nat : 1 <= c /\ c <= N => c \in Children
    /\ N \in Nat \ {0} /\ MsgParts \in Nat \ {0} /\ Cap \in Nat \ {0}
    /\ 1 \in Children /\ N \in Children
  BY BoundsAssumption DEF Children, Parent

LEMMA ScenarioFacts ==
    ASSUME Types, NEW c \in Children
    PROVE  /\ scenario[c].calls \in Seq(Calls) /\ scenario[c].program \in Seq(Steps)
           /\ Len(scenario[c].calls) \in Nat \ {0} /\ Len(scenario[c].program) \in Nat
           /\ DOMAIN scenario[c].calls = 1 .. Len(scenario[c].calls)
           /\ DOMAIN scenario[c].program = 1 .. Len(scenario[c].program)
<1>1. scenario[c] \in Scenarios
  BY DEF Types
<1>2. scenario[c].calls \in Seq(Calls) \ {<<>>} /\ scenario[c].program \in Seq(Steps)
  BY <1>1, ScenariosAssumption
<1> QED
  BY <1>2

LEMMA DroppedFacts ==
    ASSUME Types, NEW p
    PROVE  /\ Dropped(p) \in [Children -> [End -> SUBSET (Children \union {Parent})]]
           /\ \A d \in Children, e \in End : \A q :
                 q \in Dropped(p)[d][e] <=> q \in ends[d][e] /\ q # p
  BY DEF Types, Dropped

\* What the updates of a child in place make of it.
LEMMA ChildBecomes ==
    ASSUME Types, NEW c \in Children,
           NEW a \in {"none", "forked", "exec", "running", "exited", "killed", "reaped"},
           child' = [child EXCEPT ![c].at = a]
    PROVE  /\ child' \in [Children -> Child] /\ child'[c].at = a
           /\ child'[c].step = child[c].step /\ child'[c].part = child[c].part
           /\ \A d \in Children \ {c} : child'[d] = child[d]
<1>1. child \in [Children -> Child] /\ child[c] \in Child
  BY DEF Types
<1> DEFINE r == [child[c] EXCEPT !.at = a]
<1>2. r \in Child /\ r.at = a /\ r.step = child[c].step /\ r.part = child[c].part
  BY <1>1 DEF Child
<1>3. child' = [child EXCEPT ![c] = r]
  OBVIOUS
<1> HIDE DEF r
<1> QED
  BY <1>1, <1>2, <1>3

\* What a step does that only closes ends: those of S of child c's pipes, for p.
Closes(p, c, S) ==
    /\ ends' \in [Children -> [End -> SUBSET (Children \union {Parent})]]
    /\ \A d \in Children, e \in End : \A q :
          q \in ends'[d][e] <=> q \in ends[d][e] /\ ~(d = c /\ e \in S /\ q = p)

LEMMA EndsClose ==
    ASSUME Types, NEW p, NEW c \in Children, NEW S, ends' = Closed(p, c, S)
    PROVE  Closes(p, c, S)
<1> DEFINE row == [e \in End |-> IF e \in S THEN ends[c][e] \ {p} ELSE ends[c][e]]
<1>1. ends \in [Children -> [End -> SUBSET (Children \union {Parent})]]
  BY DEF Types
<1>2. ends' = [ends EXCEPT ![c] = row]
  BY DEF Closed
<1>3. row \in [End -> SUBSET (Children \union {Parent})]
  BY <1>1
<1>4. \A e \in End : \A q : q \in row[e] <=> q \in ends[c][e] /\ ~(e \in S /\ q = p)
  OBVIOUS
<1> HIDE DEF row
<1>5. ends' \in [Children -> [End -> SUBSET (Children \union {Parent})]]
  BY <1>1, <1>2, <1>3
<1>6. ends'[c] = row /\ \A d \in Children \ {c} : ends'[d] = ends[d]
  BY <1>1, <1>2
<1>7. \A d \in Children, e \in End : \A q :
         q \in ends'[d][e] <=> q \in ends[d][e] /\ ~(d = c /\ e \in S /\ q = p)
  BY <1>4, <1>6
<1> QED
  BY <1>5, <1>7 DEF Closes

\* A child goes on to the next step, or to the next part of this one.
LEMMA ProgressUpdates ==
    ASSUME Types, NEW c \in Children
    PROVE  /\ NextStep(c) =>
                /\ child' \in [Children -> Child]
                /\ child'[c].at = child[c].at /\ child'[c].step = child[c].step + 1
                /\ child'[c].part = 0
                /\ \A d \in Children \ {c} : child'[d] = child[d]
           /\ child[c].part + 1 # MsgParts /\ Progress(c) =>
                /\ child' \in [Children -> Child]
                /\ child'[c].at = child[c].at /\ child'[c].step = child[c].step
                /\ child'[c].part = child[c].part + 1
                /\ \A d \in Children \ {c} : child'[d] = child[d]
<1>1. child \in [Children -> Child] /\ child[c] \in Child
  BY DEF Types
<1>2. child[c].step \in Nat \ {0} /\ child[c].part \in 0 .. MsgParts - 1
      /\ MsgParts \in Nat \ {0}
  BY <1>1, ChildrenFacts DEF Child
<1>3. ASSUME NextStep(c)
      PROVE  /\ child' \in [Children -> Child]
             /\ child'[c].at = child[c].at /\ child'[c].step = child[c].step + 1
             /\ child'[c].part = 0
             /\ \A d \in Children \ {c} : child'[d] = child[d]
  <2> DEFINE r == [child[c] EXCEPT !.step = child[c].step + 1, !.part = 0]
  <2>1. child[c].step + 1 \in Nat \ {0} /\ 0 \in 0 .. MsgParts - 1
    BY <1>2
  <2>2. r \in Child /\ r.at = child[c].at /\ r.step = child[c].step + 1 /\ r.part = 0
    BY <1>1, <2>1 DEF Child
  <2>3. child' = [child EXCEPT ![c] = r]
    BY <1>3 DEF NextStep
  <2> HIDE DEF r
  <2> QED
    BY <1>1, <2>2, <2>3
<1>4. ASSUME child[c].part + 1 # MsgParts, Progress(c)
      PROVE  /\ child' \in [Children -> Child]
             /\ child'[c].at = child[c].at /\ child'[c].step = child[c].step
             /\ child'[c].part = child[c].part + 1
             /\ \A d \in Children \ {c} : child'[d] = child[d]
  <2> DEFINE r == [child[c] EXCEPT !.part = child[c].part + 1]
  <2>1. child[c].part + 1 \in 0 .. MsgParts - 1
    BY <1>2, <1>4
  <2>2. r \in Child /\ r.at = child[c].at /\ r.step = child[c].step
        /\ r.part = child[c].part + 1
    BY <1>1, <2>1 DEF Child
  <2>3. child' = [child EXCEPT ![c] = r]
    BY <1>4 DEF Progress
  <2> HIDE DEF r
  <2> QED
    BY <1>1, <2>2, <2>3
<1> QED
  BY <1>3, <1>4

-----------------------------------------------------------------------------
(* What moves the parent on *)

\* The next call is one of the scenario's again.
LEMMA NextCallFacts ==
    ASSUME Types, CallThere, pc = "calls", NextCall, UNCHANGED scenario
    PROVE  /\ part' = 0 /\ call' \in Nat /\ cur' \in Children /\ pc' \in {"calls", "destroy"}
           /\ call' \in DOMAIN scenario[cur'].calls
           /\ pc' = "destroy" => call' = 1 /\ cur' = cur /\ cur = N
           /\ call = Len(scenario[cur].calls) =>
                 /\ call' = 1
                 /\ cur < N => pc' = "calls" /\ cur' = cur + 1
                 /\ cur = N => pc' = "destroy" /\ cur' = cur
           /\ call # Len(scenario[cur].calls) =>
                 call' = call + 1 /\ pc' = "calls" /\ cur' = cur
<1>1. cur \in Children /\ cur \in Nat /\ cur <= N /\ N \in Nat
  BY ChildrenFacts DEF Types
<1>2. /\ Len(scenario[cur].calls) \in Nat \ {0}
      /\ DOMAIN scenario[cur].calls = 1 .. Len(scenario[cur].calls)
      /\ call \in 1 .. Len(scenario[cur].calls)
  BY <1>1, ScenarioFacts DEF CallThere
<1>3. CASE call < Len(scenario[cur].calls)
  <2>1. part' = 0 /\ call' = call + 1 /\ pc' = pc /\ cur' = cur
    BY <1>3 DEF NextCall
  <2> QED
    BY <1>1, <1>2, <1>3, <2>1
<1>4. CASE ~(call < Len(scenario[cur].calls))
  <2>1. call = Len(scenario[cur].calls)
    BY <1>2, <1>4
  <2>2. part' = 0 /\ call' = 1
    BY <1>4 DEF NextCall
  <2>3. CASE cur < N
    <3>1. cur' = cur + 1 /\ pc' = pc
      BY <1>4, <2>3 DEF NextCall
    <3>2. cur + 1 \in Children
      BY <1>1, <2>3, ChildrenFacts
    <3>3. 1 \in DOMAIN scenario[cur + 1].calls
      BY <3>2, ScenarioFacts
    <3> QED
      BY <1>1, <2>1, <2>2, <2>3, <3>1, <3>2, <3>3
  <2>4. CASE ~(cur < N)
    <3>1. cur' = cur /\ pc' = "destroy" /\ cur = N
      BY <1>1, <1>4, <2>4 DEF NextCall
    <3> QED
      BY <1>1, <1>2, <2>1, <2>2, <3>1
  <2> QED
    BY <2>3, <2>4
<1> QED
  BY <1>3, <1>4

LEMMA ConstructedFacts ==
    ASSUME Types, Constructed
    PROVE  /\ cur' \in Children /\ pc' \in {"pipes", "calls"}
           /\ pc' = "pipes" => cur' = cur + 1
           /\ pc' = "calls" => cur' = 1 /\ cur = N
<1>1. cur \in Children /\ cur \in Nat /\ 1 <= cur /\ cur <= N /\ N \in Nat
  BY ChildrenFacts DEF Types
<1>2. CASE cur < N
  <2>1. cur + 1 \in Children
    BY <1>1, <1>2, ChildrenFacts
  <2> QED
    BY <1>2, <2>1 DEF Constructed
<1>3. CASE ~(cur < N)
  BY <1>1, <1>3, ChildrenFacts DEF Constructed
<1> QED
  BY <1>2, <1>3

LEMMA DestroyedFacts ==
    ASSUME Types, Destroyed, pc = "destroy"
    PROVE  /\ cur' \in Children /\ pc' \in {"destroy", "end"}
           /\ pc' = "destroy" => cur' = cur - 1
           /\ pc' = "end" => cur' = cur /\ cur = 1
<1>1. cur \in Children /\ cur \in Nat /\ 1 <= cur /\ cur <= N /\ N \in Nat
  BY ChildrenFacts DEF Types
<1>2. CASE cur > 1
  <2>1. cur - 1 \in Children
    BY <1>1, <1>2, ChildrenFacts
  <2> QED
    BY <1>2, <2>1 DEF Destroyed
<1>3. CASE ~(cur > 1)
  BY <1>1, <1>3, ChildrenFacts DEF Destroyed
<1> QED
  BY <1>2, <1>3

\* Skip does what NextCall does at the last call.
LEMMA SkipFacts ==
    ASSUME Types, CallThere, Skip
    PROVE  /\ part' = 0 /\ call' = 1 /\ cur' \in Children /\ pc' \in {"calls", "destroy"}
           /\ call' \in DOMAIN scenario[cur'].calls
           /\ cur < N => pc' = "calls" /\ cur' = cur + 1
           /\ cur = N => pc' = "destroy" /\ cur' = cur
           /\ pc = "calls" /\ cur \in thrown
<1>1. cur \in Children /\ cur \in Nat /\ cur <= N /\ N \in Nat
  BY ChildrenFacts DEF Types
<1>2. CASE cur < N
  <2>1. cur' = cur + 1 /\ pc' = pc /\ part' = 0 /\ call' = 1 /\ pc = "calls" /\ cur \in thrown
    BY <1>2 DEF Skip, At
  <2>2. cur + 1 \in Children
    BY <1>1, <1>2, ChildrenFacts
  <2>3. 1 \in DOMAIN scenario[cur + 1].calls
    BY <2>2, ScenarioFacts
  <2> QED
    BY <1>1, <1>2, <2>1, <2>2, <2>3
<1>3. CASE ~(cur < N)
  <2>1. cur' = cur /\ pc' = "destroy" /\ part' = 0 /\ call' = 1 /\ pc = "calls" /\ cur \in thrown
    BY <1>3 DEF Skip, At
  <2>2. 1 \in DOMAIN scenario[cur].calls
    BY <1>1, ScenarioFacts
  <2> QED
    BY <1>1, <1>3, <2>1, <2>2
<1> QED
  BY <1>2, <1>3

-----------------------------------------------------------------------------
(* Effects *)

\* A step of child c, or its death.
ChildMove(c) ==
    /\ UNCHANGED <<scenario, pc, cur, call, part, fdIn, fdOut, thrown, got, fate>>
    /\ Alive(c) /\ child' \in [Children -> Child]
    /\ child'[c].at \in {"exec", "running", "exited", "killed"}
    /\ \A d \in Children \ {c} : child'[d] = child[d]
    /\ ends' \in [Children -> [End -> SUBSET (Children \union {Parent})]]
    /\ \A d \in Children, e \in End : \A q :
          /\ q \in ends'[d][e] => q \in ends[d][e]
          /\ q \in ends[d][e] /\ q # c => q \in ends'[d][e]
          /\ q \in ends'[d][e] /\ q = c => child'[c].at \notin {"exited", "killed"}
    /\ child'[c].at \notin {"exited", "killed"} =>
          (c \in ends[c]["out.w"] => c \in ends'[c]["out.w"])
    /\ inq' \in [Children -> Nat] /\ outq' \in [Children -> Nat]

LEMMA ChildMoves ==
    ASSUME Types, NEW c \in Children, ChildRuns(c) \/ ChildKilled(c)
    PROVE  ChildMove(c)
<1>1. /\ child \in [Children -> Child] /\ child[c] \in Child
      /\ inq \in [Children -> Nat] /\ outq \in [Children -> Nat]
      /\ ends \in [Children -> [End -> SUBSET (Children \union {Parent})]]
  BY DEF Types
<1>2. ASSUME UNCHANGED ends \/ ends' = Closed(c, c, {"in.w", "out.r"}),
             child'[c].at \notin {"exited", "killed"}
      PROVE  /\ ends' \in [Children -> [End -> SUBSET (Children \union {Parent})]]
             /\ \A d \in Children, e \in End : \A q :
                   /\ q \in ends'[d][e] => q \in ends[d][e]
                   /\ q \in ends[d][e] /\ q # c => q \in ends'[d][e]
             /\ c \in ends[c]["out.w"] => c \in ends'[c]["out.w"]
  <2>1. CASE UNCHANGED ends
    BY <1>1, <2>1
  <2>2. CASE ends' = Closed(c, c, {"in.w", "out.r"})
    <3>1. Closes(c, c, {"in.w", "out.r"})
      BY <2>2, EndsClose
    <3>2. "out.w" \in End /\ "out.w" \notin {"in.w", "out.r"}
      BY DEF End
    <3> QED
      BY <3>1, <3>2 DEF Closes
  <2> QED
    BY <1>2, <2>1, <2>2
<1>3. ASSUME NEW a \in {"exited", "killed"},
             child' = [child EXCEPT ![c].at = a], ends' = Dropped(c), Alive(c),
             UNCHANGED <<scenario, parentVars, inq, outq, fate>>
      PROVE  ChildMove(c)
  <2>1. /\ ends' \in [Children -> [End -> SUBSET (Children \union {Parent})]]
        /\ \A d \in Children, e \in End : \A q : q \in ends'[d][e] <=> q \in ends[d][e] /\ q # c
    BY <1>3, DroppedFacts
  <2>2. /\ child' \in [Children -> Child] /\ child'[c].at = a
        /\ \A d \in Children \ {c} : child'[d] = child[d]
    <3>1. a \in {"none", "forked", "exec", "running", "exited", "killed", "reaped"}
      OBVIOUS
    <3> QED
      BY <1>3, <3>1, ChildBecomes
  <2> QED
    BY <1>1, <1>3, <2>1, <2>2 DEF ChildMove, parentVars
<1>4. ASSUME NEW a \in {"exec", "running"},
             child' = [child EXCEPT ![c].at = a],
             UNCHANGED ends \/ ends' = Closed(c, c, {"in.w", "out.r"}), Alive(c),
             UNCHANGED <<scenario, parentVars, inq, outq, fate>>
      PROVE  ChildMove(c)
  <2>1. /\ child' \in [Children -> Child] /\ child'[c].at = a
        /\ \A d \in Children \ {c} : child'[d] = child[d]
    <3>1. a \in {"none", "forked", "exec", "running", "exited", "killed", "reaped"}
      OBVIOUS
    <3> QED
      BY <1>4, <3>1, ChildBecomes
  <2>2. a \notin {"exited", "killed"}
    OBVIOUS
  <2> QED
    BY <1>1, <1>2, <1>4, <2>1, <2>2 DEF ChildMove, parentVars
<1>5. CASE ChildSide(c)
  BY <1>4, <1>5 DEF ChildSide, Alive
<1>6. CASE Exec(c)
  BY <1>4, <1>6 DEF Exec, Alive
<1>7. CASE ExecFails(c) \/ ChildSigpipe(c) \/ ChildKilled(c)
  <2>1. /\ child' = [child EXCEPT ![c].at = "killed"] /\ ends' = Dropped(c)
        /\ UNCHANGED <<scenario, parentVars, inq, outq, fate>>
    BY <1>7 DEF ExecFails, ChildSigpipe, ChildKilled
  <2>2. Alive(c)
    BY <1>7 DEF ExecFails, ChildSigpipe, ChildKilled, Doing, Alive
  <2> QED
    BY <1>3, <2>1, <2>2
<1>8. CASE ChildExits(c)
  <2>1. /\ child' = [child EXCEPT ![c].at = "exited"] /\ ends' = Dropped(c)
        /\ UNCHANGED <<scenario, parentVars, inq, outq, fate>>
    BY <1>8 DEF ChildExits
  <2>2. Alive(c)
    BY <1>8 DEF ChildExits, Alive
  <2> QED
    BY <1>3, <2>1, <2>2
<1>9. ASSUME NextStep(c) \/ Progress(c) \/ UNCHANGED child, child[c].at = "running",
             UNCHANGED <<scenario, parentVars, ends, fate>>,
             inq' \in [Children -> Nat], outq' \in [Children -> Nat]
      PROVE  ChildMove(c)
  <2>1. NextStep(c) \/ (child[c].part + 1 # MsgParts /\ Progress(c)) \/ UNCHANGED child
    BY <1>9 DEF Progress
  <2>2. /\ child' \in [Children -> Child] /\ child'[c].at = "running"
        /\ \A d \in Children \ {c} : child'[d] = child[d]
    BY <1>1, <1>9, <2>1, ProgressUpdates
  <2>3. /\ Alive(c) /\ "running" \in {"exec", "running", "exited", "killed"}
        /\ "running" \notin {"exited", "killed"}
    BY <1>9 DEF Alive
  <2> QED
    BY <1>1, <1>9, <2>2, <2>3 DEF ChildMove, parentVars
<1>10. CASE ChildReads(c)
  <2>1. /\ child[c].at = "running"
        /\ NextStep(c) \/ Progress(c) \/ UNCHANGED child
        /\ inq[c] > 0 /\ inq' = [inq EXCEPT ![c] = @ - 1]
        /\ UNCHANGED <<scenario, parentVars, outq, ends, fate>>
    BY <1>10 DEF ChildReads, Doing
  <2>2. inq' \in [Children -> Nat] /\ outq' \in [Children -> Nat]
    BY <1>1, <2>1
  <2> QED
    BY <1>9, <2>1, <2>2
<1>11. CASE ChildReadsEnd(c)
  <2>1. /\ child[c].at = "running" /\ NextStep(c)
        /\ UNCHANGED <<scenario, parentVars, inq, outq, ends, fate>>
    BY <1>11 DEF ChildReadsEnd, Doing
  <2>2. inq' \in [Children -> Nat] /\ outq' \in [Children -> Nat]
    BY <1>1, <2>1
  <2> QED
    BY <1>9, <2>1, <2>2
<1>12. CASE ChildWrites(c)
  <2>1. /\ child[c].at = "running" /\ Progress(c)
        /\ outq' = [outq EXCEPT ![c] = @ + 1]
        /\ UNCHANGED <<scenario, parentVars, inq, ends, fate>>
    BY <1>12 DEF ChildWrites, Doing
  <2>2. inq' \in [Children -> Nat] /\ outq' \in [Children -> Nat]
    BY <1>1, <2>1
  <2> QED
    BY <1>9, <2>1, <2>2
<1> QED
  BY <1>5, <1>6, <1>7, <1>8, <1>10, <1>11, <1>12 DEF ChildRuns

\* A call of the parent, or a part of one: it closes ends or kills a child at most.
CallMove ==
    /\ pc = "calls" /\ pc' \in {"calls", "destroy"} /\ cur' \in Children /\ call' \in Nat
    /\ part' \in 0 .. MsgParts - 1 /\ call' \in DOMAIN scenario[cur'].calls
    /\ pc' = "destroy" => call' = 1 /\ part' = 0 /\ cur' = N
    /\ scenario' = scenario /\ thrown' = thrown
    /\ fate' \in {"running", "killed"} /\ (fate' = "killed" => pc' = "calls")
    /\ fdIn' \in [Children -> BOOLEAN] /\ fdOut' \in [Children -> BOOLEAN]
    /\ got' \in [Children -> Nat]
    /\ inq' \in [Children -> Nat] /\ outq' \in [Children -> Nat]

EndsMove ==
    /\ ends' \in [Children -> [End -> SUBSET (Children \union {Parent})]]
    /\ child' \in [Children -> Child]
    /\ \A d \in Children, e \in End : \A q \in ends'[d][e] :
          q \in ends[d][e] /\ (q = Parent \/ (Alive(q) => Alive(q)'))
    /\ \A d \in Children : Alive(d)' =>
          Alive(d) /\ (d \in ends[d]["out.w"] => d \in ends'[d]["out.w"])
    /\ \A d \in Children : child[d].at = "none" <=> child'[d].at = "none"

\* NextCall and its alternative, to stay in the call.
LEMMA CallMoves ==
    ASSUME Types, CallThere, At("calls"), cur \notin thrown,
           NextCall \/ (UNCHANGED <<pc, cur, call>> /\ part' \in 0 .. MsgParts - 1),
           UNCHANGED <<scenario, thrown, fate>>,
           fdIn' \in [Children -> BOOLEAN], fdOut' \in [Children -> BOOLEAN],
           got' \in [Children -> Nat],
           inq' \in [Children -> Nat], outq' \in [Children -> Nat]
    PROVE  CallMove
<1>1. pc = "calls" /\ fate = "running"
  BY DEF At
<1>2. CASE NextCall
  <2>1. 0 \in 0 .. MsgParts - 1
    BY ChildrenFacts
  <2> QED
    BY <1>1, <1>2, <2>1, NextCallFacts DEF CallMove
<1>3. CASE UNCHANGED <<pc, cur, call>> /\ part' \in 0 .. MsgParts - 1
  <2>1. cur' \in Children /\ call' \in Nat /\ call' \in DOMAIN scenario[cur'].calls
    BY <1>3 DEF Types, CallThere
  <2> QED
    BY <1>1, <1>3, <2>1 DEF CallMove
<1> QED
  BY <1>2, <1>3

LEMMA EndsStay ==
    ASSUME Types, UNCHANGED <<ends, child>>
    PROVE  EndsMove
  BY DEF Types, EndsMove, Alive

LEMMA ParentCloses ==
    ASSUME Types, NEW c \in Children, NEW S, Closes(Parent, c, S), UNCHANGED child
    PROVE  EndsMove
<1>1. "out.w" \in End
  BY DEF End
<1>2. \A d \in Children : d # Parent
  BY ChildrenFacts
<1>3. child' \in [Children -> Child]
  BY DEF Types
<1>4. \A d \in Children, e \in End : \A q \in ends'[d][e] : q \in ends[d][e]
  BY DEF Closes
<1>5. \A d \in Children : d \in ends[d]["out.w"] => d \in ends'[d]["out.w"]
  BY <1>1, <1>2 DEF Closes
<1>6. \A q : Alive(q) <=> Alive(q)'
  BY DEF Alive
<1> QED
  BY <1>3, <1>4, <1>5, <1>6 DEF EndsMove, Closes

LEMMA CallStepMoves ==
    ASSUME Types, CallThere, Stages,
           Read \/ ReadThrows \/ Write \/ WriteThrows \/ WriteSigpipe
              \/ CloseStdin \/ Close \/ Abort \/ Skip
    PROVE  CallMove /\ EndsMove
<1>1. /\ fdIn \in [Children -> BOOLEAN] /\ fdOut \in [Children -> BOOLEAN]
      /\ got \in [Children -> Nat] /\ inq \in [Children -> Nat] /\ outq \in [Children -> Nat]
      /\ child \in [Children -> Child]
      /\ cur \in Children /\ part \in 0 .. MsgParts - 1 /\ MsgParts \in Nat \ {0}
  BY ChildrenFacts DEF Types
<1>2. CASE Read
  <2>1. PICK n \in 1 .. MsgParts - part :
          /\ n <= outq[cur]
          /\ outq' = [outq EXCEPT ![cur] = @ - n]
          /\ IF part + n = MsgParts
             THEN got' = [got EXCEPT ![cur] = @ + 1] /\ NextCall
             ELSE part' = part + n /\ UNCHANGED <<pc, cur, call, got>>
    BY <1>2 DEF Read
  <2>2. /\ At("calls") /\ cur \notin thrown
        /\ UNCHANGED <<scenario, fdIn, fdOut, thrown, inq, ends, child, fate>>
    BY <1>2 DEF Read, Calling
  <2>3. outq' \in [Children -> Nat]
    BY <1>1, <2>1
  <2>4. CASE part + n = MsgParts
    <3>1. got' \in [Children -> Nat] /\ NextCall
      BY <1>1, <2>1, <2>4
    <3> QED
      BY <1>1, <2>2, <2>3, <3>1, CallMoves, EndsStay
  <2>5. CASE part + n # MsgParts
    <3>1. UNCHANGED <<pc, cur, call, got>> /\ part' \in 0 .. MsgParts - 1
      BY <1>1, <2>1, <2>5
    <3>2. got' \in [Children -> Nat]
      BY <1>1, <3>1
    <3> QED
      BY <1>1, <2>2, <2>3, <3>1, <3>2, CallMoves, EndsStay
  <2> QED
    BY <2>4, <2>5
<1>3. CASE ReadThrows \/ WriteThrows
  BY <1>1, <1>3, CallMoves, EndsStay DEF ReadThrows, WriteThrows, Calling
<1>4. CASE Write
  <2>1. /\ inq' = [inq EXCEPT ![cur] = @ + 1]
        /\ NextCall \/ (part' = part + 1 /\ part + 1 # MsgParts /\ UNCHANGED <<pc, cur, call>>)
        /\ At("calls") /\ cur \notin thrown
        /\ UNCHANGED <<scenario, fdIn, fdOut, thrown, got, outq, ends, child, fate>>
    BY <1>4 DEF Write, Calling
  <2>2. inq' \in [Children -> Nat]
    BY <1>1, <2>1
  <2>3. NextCall \/ (UNCHANGED <<pc, cur, call>> /\ part' \in 0 .. MsgParts - 1)
    BY <1>1, <2>1
  <2> QED
    BY <1>1, <2>1, <2>2, <2>3, CallMoves, EndsStay
<1>5. CASE WriteSigpipe
  <2>1. /\ pc = "calls" /\ fate' = "killed" /\ ends' = Dropped(Parent)
        /\ UNCHANGED <<scenario, pc, cur, call, part, fdIn, fdOut, thrown, got, inq, outq, child>>
    BY <1>5 DEF WriteSigpipe, Calling, At, parentVars
  <2>2. /\ ends' \in [Children -> [End -> SUBSET (Children \union {Parent})]]
        /\ \A d \in Children, e \in End : \A q : q \in ends'[d][e] <=> q \in ends[d][e] /\ q # Parent
    BY <2>1, DroppedFacts
  <2>3. CallMove
    BY <1>1, <2>1 DEF CallMove, Types, CallThere
  <2>4. "out.w" \in End /\ \A d \in Children : d # Parent
    BY ChildrenFacts DEF End
  <2>5. \A q : Alive(q) <=> Alive(q)'
    BY <2>1 DEF Alive
  <2>6. EndsMove
    BY <1>1, <2>1, <2>2, <2>4, <2>5 DEF EndsMove
  <2> QED
    BY <2>3, <2>6
<1>6. CASE CloseStdin
  <2>1. /\ At("calls") /\ cur \notin thrown /\ NextCall
        /\ fdIn' = [fdIn EXCEPT ![cur] = FALSE] /\ ends' = Closed(Parent, cur, {"in.w"})
        /\ UNCHANGED <<scenario, fdOut, thrown, got, inq, outq, child, fate>>
    BY <1>6 DEF CloseStdin, Calling
  <2>2. fdIn' \in [Children -> BOOLEAN]
    BY <1>1, <2>1
  <2>3. Closes(Parent, cur, {"in.w"})
    BY <1>1, <2>1, EndsClose
  <2>4. EndsMove
    BY <1>1, <2>1, <2>3, ParentCloses
  <2>5. CallMove
    BY <1>1, <2>1, <2>2, CallMoves
  <2> QED
    BY <2>4, <2>5
<1>7. CASE Close
  <2>1. /\ At("calls") /\ cur \notin thrown /\ NextCall
        /\ fdIn' = [fdIn EXCEPT ![cur] = FALSE] /\ fdOut' = [fdOut EXCEPT ![cur] = FALSE]
        /\ ends' = Closed(Parent, cur, {"in.w", "out.r"})
        /\ UNCHANGED <<scenario, thrown, got, inq, outq, child, fate>>
    BY <1>7 DEF Close, Calling
  <2>2. fdIn' \in [Children -> BOOLEAN] /\ fdOut' \in [Children -> BOOLEAN]
    BY <1>1, <2>1
  <2>3. Closes(Parent, cur, {"in.w", "out.r"})
    BY <1>1, <2>1, EndsClose
  <2>4. EndsMove
    BY <1>1, <2>1, <2>3, ParentCloses
  <2>5. CallMove
    BY <1>1, <2>1, <2>2, CallMoves
  <2> QED
    BY <2>4, <2>5
<1>8. CASE Abort
  <2>0. PICK c \in Children : c = cur
    BY <1>1
  <2>1. /\ At("calls") /\ cur \notin thrown /\ NextCall
        /\ child' = [child EXCEPT ![cur].at = IF Gone(cur) THEN child[cur].at ELSE "killed"]
        /\ ends' = Dropped(cur)
        /\ UNCHANGED <<scenario, fdIn, fdOut, thrown, got, inq, outq, fate>>
    BY <1>8 DEF Abort, Calling
  <2>2. CallMove
    BY <1>1, <2>1, CallMoves
  <2>3. /\ ends' \in [Children -> [End -> SUBSET (Children \union {Parent})]]
        /\ \A d \in Children, e \in End : \A q : q \in ends'[d][e] <=> q \in ends[d][e] /\ q # c
    BY <2>0, <2>1, DroppedFacts
  <2>4. PICK a : a = IF Gone(cur) THEN child[cur].at ELSE "killed"
    OBVIOUS
  <2>5. a \in {"exited", "killed", "reaped"}
    BY <2>4 DEF Gone
  <2>6. child' = [child EXCEPT ![cur].at = a]
    BY <2>1, <2>4
  <2>7. /\ child' \in [Children -> Child] /\ child'[c].at = a
        /\ \A d \in Children \ {c} : child'[d] = child[d]
    <3>1. a \in {"none", "forked", "exec", "running", "exited", "killed", "reaped"}
      BY <2>5
    <3> QED
      BY <2>0, <2>6, <3>1, ChildBecomes
  <2>8. child[cur].at # "none"
    BY <1>1, <2>1 DEF Stages, Stage, Built, Building, At
  <2>9. ~Alive(c)' /\ \A q \in Children \ {c} : Alive(q) <=> Alive(q)'
    BY <2>5, <2>7 DEF Alive
  <2>10. "out.w" \in End
    BY DEF End
  <2>11. \A d \in Children, e \in End : \A q \in ends'[d][e] :
            q \in ends[d][e] /\ (q = Parent \/ (Alive(q) => Alive(q)'))
    <3>1. TAKE d \in Children, e \in End
    <3>2. TAKE q \in ends'[d][e]
    <3>3. q \in ends[d][e] /\ q # c
      BY <2>3
    <3>4. q \in Children \union {Parent}
      BY <3>3 DEF Types
    <3> QED
      BY <2>9, <3>3, <3>4
  <2>12. \A d \in Children : Alive(d)' =>
            Alive(d) /\ (d \in ends[d]["out.w"] => d \in ends'[d]["out.w"])
    BY <2>3, <2>9, <2>10
  <2>13. \A d \in Children : child[d].at = "none" <=> child'[d].at = "none"
    BY <2>0, <2>5, <2>7, <2>8
  <2> QED
    BY <2>2, <2>3, <2>7, <2>11, <2>12, <2>13 DEF EndsMove
<1>9. CASE Skip
  <2>1. 0 \in 0 .. MsgParts - 1
    BY <1>1
  <2>2. UNCHANGED <<scenario, fdIn, fdOut, thrown, got, inq, outq, ends, child, fate>>
        /\ fate = "running"
    BY <1>9 DEF Skip, At
  <2>3. CallMove
    <3>1. /\ part' = 0 /\ call' = 1 /\ cur' \in Children /\ pc' \in {"calls", "destroy"}
          /\ call' \in DOMAIN scenario[cur'].calls /\ pc = "calls"
          /\ cur < N => pc' = "calls"
          /\ cur = N => cur' = N
      BY <1>9, SkipFacts
    <3>2. cur < N \/ cur = N
      BY <1>1, ChildrenFacts
    <3> QED
      BY <1>1, <2>1, <2>2, <3>1, <3>2 DEF CallMove
  <2> QED
    BY <2>2, <2>3, EndsStay
<1> QED
  BY <1>2, <1>3, <1>4, <1>5, <1>6, <1>7, <1>8, <1>9

-----------------------------------------------------------------------------
(* Who holds what is an invariant *)

HoldInv == Types /\ CallThere /\ Stages /\ Holders

LEMMA CallKeeps == ASSUME HoldInv, CallMove, EndsMove PROVE HoldInv'
<1>1. Types'
  BY DEF HoldInv, Types, CallMove, EndsMove
<1>2. CallThere'
  BY DEF CallThere, CallMove
<1>3. \A d \in Children : Built(d) /\ Built(d)' /\ ~Undone(d)'
  BY ChildrenFacts DEF CallMove, Built, Building, Undone
<1>4. pc \notin {"fork", "forked"} /\ pc' \notin {"fork", "forked"}
  BY DEF CallMove
<1>5. "in.r" \in End /\ "out.w" \in End
  BY DEF End
<1>6. \A d \in Children, e \in End : Parent \in ends'[d][e] => Parent \in ends[d][e]
  BY DEF EndsMove
<1>7. thrown' = thrown /\ \A d \in Children : child[d].at = "none" <=> child'[d].at = "none"
  BY DEF CallMove, EndsMove
<1>8. Stages'
  BY <1>3, <1>4, <1>5, <1>6, <1>7 DEF HoldInv, Stages, Stage
<1>9. Holders'
  <2> SUFFICES ASSUME NEW d \in Children PROVE Held(d)'
    BY DEF Holders
  <2>2. ASSUME NEW e \in End, NEW q \in ends'[d][e]
        PROVE  q = Parent \/ Alive(q)'
    BY <2>2 DEF EndsMove, HoldInv, Holders, Held
  <2>3. ASSUME Alive(d)'
        PROVE  d \in ends'[d]["out.w"]
    BY <2>3 DEF EndsMove, HoldInv, Holders, Held
  <2> QED
    BY <2>2, <2>3 DEF Held
<1> QED
  BY <1>1, <1>2, <1>8, <1>9 DEF HoldInv

LEMMA ChildKeeps == ASSUME HoldInv, NEW c \in Children, ChildMove(c) PROVE HoldInv'
<1>1. Types'
  BY DEF HoldInv, Types, ChildMove
<1>2. CallThere'
  BY DEF HoldInv, CallThere, ChildMove
<1>3. /\ UNCHANGED <<pc, cur, thrown, fate>>
      /\ \A d \in Children : (Built(d) <=> Built(d)') /\ (Undone(d) <=> Undone(d)')
  BY DEF ChildMove, Built, Building, Undone
<1>4. /\ child[c].at \notin {"none", "reaped"} /\ child'[c].at \notin {"none", "reaped"}
      /\ \A d \in Children \ {c} : child'[d] = child[d]
  BY DEF ChildMove, Alive
<1>5. \A d \in Children, e \in End : Parent \in ends'[d][e] <=> Parent \in ends[d][e]
  BY ChildrenFacts DEF ChildMove
<1>6. "in.r" \in End /\ "out.w" \in End
  BY DEF End
<1>7. \A d \in Children : child[d].at = "none" <=> child'[d].at = "none"
  BY <1>4
<1>8. \A d \in Children : child[d].at = "reaped" <=> child'[d].at = "reaped"
  BY <1>4
<1>9. Stages'
  <2> SUFFICES ASSUME NEW d \in Children PROVE Stage(d)'
    BY DEF Stages
  <2> QED
    BY <1>3, <1>5, <1>6, <1>7, <1>8 DEF HoldInv, Stages, Stage
<1>10. Holders'
  <2> SUFFICES ASSUME NEW d \in Children PROVE Held(d)'
    BY DEF Holders
  <2>2. ASSUME NEW e \in End, NEW q \in ends'[d][e]
        PROVE  q = Parent \/ Alive(q)'
    <3>1. q \in ends[d][e] /\ (q = c => child'[c].at \notin {"exited", "killed"})
      BY <2>2 DEF ChildMove
    <3>2. q = Parent \/ (q \in Children /\ Alive(q))
      BY <3>1 DEF HoldInv, Holders, Held, Types
    <3>3. CASE q = c
      BY <3>1, <3>3 DEF ChildMove, Alive
    <3>4. CASE q # c
      BY <1>4, <3>2, <3>4 DEF Alive
    <3> QED
      BY <3>3, <3>4
  <2>3. ASSUME Alive(d)'
        PROVE  d \in ends'[d]["out.w"]
    <3>1. CASE d = c
      BY <2>3, <3>1 DEF ChildMove, Alive, HoldInv, Holders, Held
    <3>2. CASE d # c
      <4>1. Alive(d)
        BY <1>4, <2>3, <3>2 DEF Alive
      <4> QED
        BY <1>6, <3>2, <4>1 DEF ChildMove, HoldInv, Holders, Held
    <3> QED
      BY <3>1, <3>2
  <2> QED
    BY <2>2, <2>3 DEF Held
<1> QED
  BY <1>1, <1>2, <1>9, <1>10 DEF HoldInv

\* One more Process is built, or failed to be.
LEMMA BuiltNext ==
    ASSUME Types, Building, Constructed
    PROVE  /\ \A d \in Children : (Built(d)' <=> Built(d) \/ d = cur) /\ ~Undone(d)'
           /\ pc' \notin {"fork", "forked"}
<1>1. cur \in Nat /\ cur \in Children /\ \A d \in Children : d \in Nat /\ d <= N
  BY ChildrenFacts DEF Types
<1>2. pc' \in {"pipes", "calls"} /\ (pc' = "pipes" => cur' = cur + 1) /\ (pc' = "calls" => cur = N)
  BY ConstructedFacts
<1>3. N \in Nat
  BY ChildrenFacts
<1>4. CASE pc' = "pipes"
  BY <1>1, <1>2, <1>4 DEF Built, Building, Undone
<1>5. CASE pc' = "calls"
  BY <1>1, <1>2, <1>3, <1>5 DEF Built, Building, Undone
<1> QED
  BY <1>2, <1>4, <1>5

LEMMA ConstructedThere ==
    ASSUME HoldInv, Building, fate = "running", Constructed,
           UNCHANGED <<scenario, call, part, fate>>
    PROVE  CallThere' /\ cur' \in Children /\ pc' \in {"pipes", "calls"} /\ call' \in Nat
<1>1. call = 1 /\ part = 0 /\ fate # "killed"
  BY DEF HoldInv, CallThere, Building
<1>2. cur' \in Children /\ pc' \in {"pipes", "calls"}
  BY ConstructedFacts DEF HoldInv
<1>3. 1 \in DOMAIN scenario[cur'].calls
  BY <1>2, ScenarioFacts DEF HoldInv
<1> QED
  BY <1>1, <1>2, <1>3 DEF CallThere

LEMMA PipesKeeps == ASSUME HoldInv, Pipes PROVE HoldInv'
<1>1. /\ pc = "pipes" /\ pc' = "fork" /\ cur \in Children /\ cur' = cur
      /\ UNCHANGED <<scenario, call, part, fdIn, fdOut, thrown, got, inq, outq, child, fate>>
  BY DEF Pipes, At, HoldInv, Types
<1> DEFINE row == [e \in End |-> {Parent}]
<1>2. row \in [End -> SUBSET (Children \union {Parent})] /\ \A e \in End : row[e] = {Parent}
  OBVIOUS
<1>3. ends' = [ends EXCEPT ![cur] = row]
  BY DEF Pipes
<1> HIDE DEF row
<1>4. /\ ends' \in [Children -> [End -> SUBSET (Children \union {Parent})]]
      /\ ends'[cur] = row /\ \A d \in Children \ {cur} : ends'[d] = ends[d]
  BY <1>1, <1>2, <1>3 DEF HoldInv, Types
<1>5. Types'
  BY <1>1, <1>4 DEF HoldInv, Types
<1>6. CallThere'
  BY <1>1 DEF HoldInv, CallThere
<1>7. \A d \in Children : (Built(d)' <=> Built(d)) /\ ~Undone(d)' /\ ~Built(cur)
  BY <1>1, ChildrenFacts DEF Built, Building, Undone
<1>8. child[cur].at = "none" /\ ~Alive(cur)
  BY <1>1, <1>7 DEF HoldInv, Stages, Stage, Alive
<1>9. \A q : Alive(q) <=> Alive(q)'
  BY <1>1 DEF Alive
<1>10. "in.r" \in End /\ "out.w" \in End
  BY DEF End
<1>11. Stages'
  <2> SUFFICES ASSUME NEW d \in Children PROVE Stage(d)'
    BY DEF Stages
  <2> QED
    BY <1>1, <1>2, <1>4, <1>7, <1>8, <1>10 DEF HoldInv, Stages, Stage
<1>12. Holders'
  <2> SUFFICES ASSUME NEW d \in Children PROVE Held(d)'
    BY DEF Holders
  <2>2. CASE d = cur
    BY <1>2, <1>4, <1>8, <1>9, <2>2 DEF HoldInv, Holders, Held
  <2>3. CASE d # cur
    BY <1>4, <1>9, <2>3 DEF HoldInv, Holders, Held
  <2> QED
    BY <2>2, <2>3 DEF Held
<1> QED
  BY <1>5, <1>6, <1>11, <1>12 DEF HoldInv

\* A constructor that throws, and leaves its own ends as S says.
LEMMA ThrowKeeps ==
    ASSUME HoldInv, pc = "pipes", fate = "running", Throws,
           UNCHANGED <<scenario, call, part, fdIn, fdOut, got, inq, outq, child, fate>>,
           ends' \in [Children -> [End -> SUBSET (Children \union {Parent})]],
           \A e \in End : \A q \in ends'[cur][e] : q = Parent \/ q \in ends[cur][e],
           \A d \in Children \ {cur} : ends'[d] = ends[d]
    PROVE  HoldInv'
<1>1. Building /\ Constructed /\ thrown' = thrown \union {cur} /\ cur \in Children
  BY DEF Throws, Building, HoldInv, Types
<1>2. CallThere' /\ cur' \in Children /\ pc' \in {"pipes", "calls"} /\ call' \in Nat
  BY <1>1, ConstructedThere
<1>3. Types'
  BY <1>1, <1>2 DEF HoldInv, Types
<1>4. /\ \A d \in Children : (Built(d)' <=> Built(d) \/ d = cur) /\ ~Undone(d)'
      /\ pc' \notin {"fork", "forked"}
  BY <1>1, BuiltNext DEF HoldInv
<1>5. ~Built(cur)
  BY <1>1, ChildrenFacts DEF Built
<1>6. child[cur].at = "none" /\ ~Alive(cur)
  BY <1>1, <1>5 DEF HoldInv, Stages, Stage, Alive
<1>7. \A q : Alive(q) <=> Alive(q)'
  BY DEF Alive
<1>8. Stages'
  <2> SUFFICES ASSUME NEW d \in Children PROVE Stage(d)'
    BY DEF Stages
  <2> QED
    BY <1>1, <1>4, <1>6 DEF HoldInv, Stages, Stage
<1>9. Holders'
  <2> SUFFICES ASSUME NEW d \in Children PROVE Held(d)'
    BY DEF Holders
  <2>2. CASE d = cur
    BY <1>6, <1>7, <2>2 DEF HoldInv, Holders, Held
  <2>3. CASE d # cur
    BY <1>7, <2>3 DEF HoldInv, Holders, Held
  <2> QED
    BY <2>2, <2>3 DEF Held
<1> QED
  BY <1>2, <1>3, <1>8, <1>9 DEF HoldInv

\* A parent that an exception ends lets go of every end, and that is all.
LEMMA ParentDies ==
    ASSUME HoldInv, pc \in {"fork", "calls"}, fate' = "killed", ends' = Dropped(Parent),
           UNCHANGED <<scenario, parentVars, inq, outq, child>>
    PROVE  HoldInv'
<1>1. /\ UNCHANGED <<scenario, pc, cur, call, part, fdIn, fdOut, thrown, got, inq, outq, child>>
      /\ Types /\ CallThere /\ Stages /\ Holders
  BY DEF parentVars, HoldInv
<1>2. /\ ends' \in [Children -> [End -> SUBSET (Children \union {Parent})]]
      /\ \A d \in Children, e \in End : \A q : q \in ends'[d][e] <=> q \in ends[d][e] /\ q # Parent
  BY <1>1, DroppedFacts
<1>3. /\ \A d \in Children : d # Parent
      /\ "in.r" \in End /\ "out.w" \in End
  BY ChildrenFacts DEF End
<1>4. Types' /\ CallThere'
  BY <1>1, <1>2 DEF Types, CallThere
<1>5. \A d \in Children : (Built(d)' <=> Built(d)) /\ (Undone(d)' <=> Undone(d))
  BY <1>1 DEF Built, Building, Undone
<1>6. Stages'
  BY <1>1, <1>2, <1>3, <1>5 DEF Stages, Stage
<1>7. Holders'
  <2> SUFFICES ASSUME NEW d \in Children PROVE Held(d)'
    BY DEF Holders
  <2>1. Held(d) /\ \A q : Alive(q) <=> Alive(q)'
    BY <1>1 DEF Holders, Alive
  <2> QED
    BY <1>2, <1>3, <2>1 DEF Held
<1> QED
  BY <1>4, <1>6, <1>7 DEF HoldInv

LEMMA FailsKeep == ASSUME HoldInv, PipeFails \/ ForkFails PROVE HoldInv'
<1>1. cur \in Children /\ ends \in [Children -> [End -> SUBSET (Children \union {Parent})]]
  BY DEF HoldInv, Types
<1>2. CASE PipeFails
  <2>1. PICK S \in {{}, {"in.r", "in.w"}} :
          ends' = [ends EXCEPT ![cur] = [e \in End |-> IF e \in S THEN {Parent} ELSE {}]]
    BY <1>2 DEF PipeFails
  <2> DEFINE row == [e \in End |-> IF e \in S THEN {Parent} ELSE {}]
  <2>2. /\ row \in [End -> SUBSET (Children \union {Parent})]
        /\ \A e \in End : \A q \in row[e] : q = Parent
    OBVIOUS
  <2>3. ends' = [ends EXCEPT ![cur] = row]
    BY <2>1
  <2> HIDE DEF row
  <2>4. /\ ends' \in [Children -> [End -> SUBSET (Children \union {Parent})]]
        /\ ends'[cur] = row /\ \A d \in Children \ {cur} : ends'[d] = ends[d]
    BY <1>1, <2>2, <2>3
  <2>5. /\ pc = "pipes" /\ fate = "running" /\ Throws
        /\ UNCHANGED <<scenario, call, part, fdIn, fdOut, got, inq, outq, child, fate>>
    BY <1>2 DEF PipeFails, At
  <2> QED
    BY <2>2, <2>4, <2>5, ThrowKeeps
<1>3. CASE ForkFails
  BY <1>3, ParentDies DEF ForkFails, At
<1> QED
  BY <1>2, <1>3

LEMMA ForkKeeps == ASSUME HoldInv, Fork PROVE HoldInv'
<1>1. /\ pc = "fork" /\ fate = "running" /\ pc' = "forked"
      /\ UNCHANGED <<scenario, cur, call, part, fdIn, fdOut, thrown, got, inq, outq, fate>>
  BY DEF Fork, At
<1>2. PICK c \in Children : c = cur
  BY DEF HoldInv, Types
<1>3. child' = [child EXCEPT ![c].at = "forked"]
  BY <1>2 DEF Fork
<1>4. /\ child' \in [Children -> Child] /\ child'[c].at = "forked"
      /\ \A d \in Children \ {c} : child'[d] = child[d]
  BY <1>3, ChildBecomes DEF HoldInv
<1>5. ends' \in [Children -> [End -> SUBSET (Children \union {Parent})]]
  BY <1>2 DEF Fork, HoldInv, Types
<1>6. \A d \in Children, e \in End : \A q :
         q \in ends'[d][e] <=> q \in ends[d][e] \/ (q = c /\ Parent \in ends[d][e])
  BY <1>2 DEF Fork
<1>7. Types'
  BY <1>1, <1>4, <1>5 DEF HoldInv, Types
<1>8. CallThere'
  BY <1>1 DEF HoldInv, CallThere
<1>9. \A d \in Children : (Built(d)' <=> Built(d)) /\ ~Undone(d)'
  BY <1>1 DEF Built, Building, Undone
<1>10. ~Built(c) /\ c # Parent /\ "in.r" \in End /\ "out.w" \in End
  BY <1>1, <1>2, ChildrenFacts DEF Built, Building, End
<1>11. c \notin thrown /\ Parent \in ends[c]["out.w"]
  BY <1>1, <1>2, <1>10 DEF HoldInv, Stages, Stage
<1>12. Stages'
  <2> SUFFICES ASSUME NEW d \in Children PROVE Stage(d)'
    BY DEF Stages
  <2>1. CASE d = c
    BY <1>1, <1>2, <1>4, <1>9, <1>10, <1>11, <2>1 DEF Stage
  <2>2. CASE d # c
    <3>1. Stage(d)
      BY DEF HoldInv, Stages
    <3>2. child'[d] = child[d]
      BY <1>4, <2>2
    <3>3. \A e \in End : Parent \in ends'[d][e] <=> Parent \in ends[d][e]
      BY <1>6, <1>10
    <3> QED
      BY <1>1, <1>2, <1>9, <1>10, <2>2, <3>1, <3>2, <3>3 DEF Stage
  <2> QED
    BY <2>1, <2>2
<1>13. Alive(c)' /\ \A q \in Children : Alive(q) => Alive(q)'
  BY <1>4 DEF Alive
<1>14. Holders'
  <2> SUFFICES ASSUME NEW d \in Children PROVE Held(d)'
    BY DEF Holders
  <2>1. ASSUME NEW e \in End, NEW q \in ends'[d][e]
        PROVE  q = Parent \/ Alive(q)'
    <3>1. q \in ends[d][e] \/ q = c
      BY <1>6
    <3>2. q \in ends[d][e] => q \in Children \union {Parent} /\ (q = Parent \/ Alive(q))
      BY DEF HoldInv, Holders, Held, Types
    <3> QED
      BY <1>13, <3>1, <3>2
  <2>2. ASSUME Alive(d)' PROVE d \in ends'[d]["out.w"]
    <3>1. CASE d = c
      BY <1>6, <1>10, <1>11, <3>1
    <3>2. CASE d # c
      BY <1>4, <1>6, <1>10, <2>2, <3>2 DEF HoldInv, Holders, Held, Alive
    <3> QED
      BY <3>1, <3>2
  <2> QED
    BY <2>1, <2>2 DEF Held
<1> QED
  BY <1>7, <1>8, <1>12, <1>14 DEF HoldInv

LEMMA ParentSideHolds == ASSUME HoldInv, ParentSide PROVE HoldInv'
<1>1. /\ pc = "forked" /\ Building /\ fate = "running" /\ Constructed
      /\ ends' = Closed(Parent, cur, {"in.r", "out.w"})
      /\ fdIn' = [fdIn EXCEPT ![cur] = TRUE] /\ fdOut' = [fdOut EXCEPT ![cur] = TRUE]
      /\ UNCHANGED <<scenario, call, part, thrown, got, inq, outq, child, fate>>
  BY DEF ParentSide, At, Building
<1>2. PICK c \in Children : c = cur
  BY DEF HoldInv, Types
<1>3. Closes(Parent, c, {"in.r", "out.w"})
  BY <1>1, <1>2, EndsClose DEF HoldInv
<1>4. CallThere' /\ cur' \in Children /\ pc' \in {"pipes", "calls"} /\ call' \in Nat
  BY <1>1, ConstructedThere
<1>5. Types'
  BY <1>1, <1>3, <1>4 DEF HoldInv, Types, Closes
<1>6. /\ \A d \in Children : (Built(d)' <=> Built(d) \/ d = c) /\ ~Undone(d)'
      /\ pc' \notin {"fork", "forked"}
  BY <1>1, <1>2, BuiltNext DEF HoldInv
<1>7. "in.r" \in End /\ "out.w" \in End
  BY DEF End
<1>8. ~Built(c) /\ c # Parent
  BY <1>1, <1>2, ChildrenFacts DEF Built, Building
<1>9. c \notin thrown /\ child[c].at # "none"
  BY <1>1, <1>2, <1>8 DEF HoldInv, Stages, Stage
<1>10. \A d \in Children, e \in End : Parent \in ends'[d][e] => Parent \in ends[d][e]
  BY <1>3 DEF Closes
<1>11. Parent \notin ends'[c]["in.r"] /\ Parent \notin ends'[c]["out.w"]
  BY <1>3, <1>7 DEF Closes
<1>12. Stages'
  <2> SUFFICES ASSUME NEW d \in Children PROVE Stage(d)'
    BY DEF Stages
  <2>1. Stage(d)
    BY DEF HoldInv, Stages
  <2>2. CASE d = c
    BY <1>1, <1>6, <1>9, <1>11, <2>2 DEF Stage
  <2>3. CASE d # c
    BY <1>1, <1>2, <1>6, <1>7, <1>10, <2>1, <2>3 DEF Stage
  <2> QED
    BY <2>2, <2>3
<1>13. \A q : Alive(q) <=> Alive(q)'
  BY <1>1 DEF Alive
<1>14. Holders'
  <2> SUFFICES ASSUME NEW d \in Children PROVE Held(d)'
    BY DEF Holders
  <2>1. ASSUME NEW e \in End, NEW q \in ends'[d][e]
        PROVE  q = Parent \/ Alive(q)'
    BY <1>3, <1>13 DEF Closes, HoldInv, Holders, Held
  <2>2. ASSUME Alive(d)' PROVE d \in ends'[d]["out.w"]
    BY <1>3, <1>7, <1>13, <2>2, ChildrenFacts DEF Closes, HoldInv, Holders, Held
  <2> QED
    BY <2>1, <2>2 DEF Held
<1> QED
  BY <1>4, <1>5, <1>12, <1>14 DEF HoldInv

\* One more Process is destroyed.
LEMMA UndoneNext ==
    ASSUME Types, CallThere, pc = "destroy", Destroyed, UNCHANGED <<scenario, call, part, fate>>
    PROVE  /\ \A d \in Children : Built(d) /\ Built(d)' /\ (Undone(d)' <=> Undone(d) \/ d = cur)
           /\ pc' \in {"destroy", "end"} /\ cur' \in Children /\ CallThere'
<1>1. cur \in Nat /\ cur \in Children /\ \A d \in Children : d \in Nat /\ 1 <= d
  BY ChildrenFacts DEF Types
<1>2. /\ cur' \in Children /\ pc' \in {"destroy", "end"}
      /\ (pc' = "destroy" => cur' = cur - 1) /\ (pc' = "end" => cur = 1)
  BY DestroyedFacts
<1>3. call = 1 /\ part = 0 /\ fate # "killed"
  BY DEF CallThere
<1>4. CallThere'
  <2>1. 1 \in DOMAIN scenario[cur'].calls
    BY <1>2, ScenarioFacts
  <2> QED
    BY <1>2, <1>3, <2>1 DEF CallThere
<1>5. CASE pc' = "destroy"
  BY <1>1, <1>2, <1>4, <1>5 DEF Built, Building, Undone
<1>6. CASE pc' = "end"
  BY <1>1, <1>2, <1>4, <1>6 DEF Built, Building, Undone
<1> QED
  BY <1>2, <1>5, <1>6

LEMMA NoDestroyKeeps == ASSUME HoldInv, NoDestroy PROVE HoldInv'
<1>1. /\ pc = "destroy" /\ cur \in thrown /\ Destroyed
      /\ UNCHANGED <<scenario, call, part, fdIn, fdOut, thrown, got, inq, outq, ends, child, fate>>
  BY DEF NoDestroy, At
<1>2. /\ \A d \in Children : Built(d) /\ Built(d)' /\ (Undone(d)' <=> Undone(d) \/ d = cur)
      /\ pc' \in {"destroy", "end"} /\ cur' \in Children /\ CallThere'
  BY <1>1, UndoneNext DEF HoldInv
<1>3. Types'
  BY <1>1, <1>2 DEF HoldInv, Types
<1>4. Stages'
  <2> SUFFICES ASSUME NEW d \in Children PROVE Stage(d)'
    BY DEF Stages
  <2> QED
    BY <1>1, <1>2 DEF HoldInv, Stages, Stage
<1>5. Holders'
  BY <1>1 DEF HoldInv, Holders, Held, Alive
<1> QED
  BY <1>2, <1>3, <1>4, <1>5 DEF HoldInv

LEMMA DestroyKeeps == ASSUME HoldInv, Destroy PROVE HoldInv'
<1>1. /\ pc = "destroy" /\ cur \notin thrown /\ Gone(cur) /\ Destroyed
      /\ child' = [child EXCEPT ![cur].at = "reaped"]
      /\ fdIn' = [fdIn EXCEPT ![cur] = FALSE] /\ fdOut' = [fdOut EXCEPT ![cur] = FALSE]
      /\ ends' = Closed(Parent, cur, {"in.w", "out.r"})
      /\ UNCHANGED <<scenario, call, part, thrown, got, inq, outq, fate>>
  BY DEF Destroy, At
<1>2. PICK c \in Children : c = cur
  BY DEF HoldInv, Types
<1>3. Closes(Parent, c, {"in.w", "out.r"})
  BY <1>1, <1>2, EndsClose DEF HoldInv
<1>4. /\ child' \in [Children -> Child] /\ child'[c].at = "reaped"
      /\ \A d \in Children \ {c} : child'[d] = child[d]
  <2>1. child' = [child EXCEPT ![c].at = "reaped"]
    BY <1>1, <1>2
  <2> QED
    BY <2>1, ChildBecomes DEF HoldInv
<1>5. /\ \A d \in Children : Built(d) /\ Built(d)' /\ (Undone(d)' <=> Undone(d) \/ d = c)
      /\ pc' \in {"destroy", "end"} /\ cur' \in Children /\ CallThere'
  BY <1>1, <1>2, UndoneNext DEF HoldInv
<1>6. Types'
  BY <1>1, <1>3, <1>4, <1>5 DEF HoldInv, Types, Closes
<1>7. End = {"in.r", "in.w", "out.r", "out.w"}
  BY DEF End
<1>8. \A d \in Children, e \in End : Parent \in ends'[d][e] => Parent \in ends[d][e]
  BY <1>3 DEF Closes
<1>9. \A e \in End : Parent \notin ends'[c][e]
  <2>1. Parent \notin ends[c]["in.r"] /\ Parent \notin ends[c]["out.w"]
    BY <1>1, <1>2, <1>5 DEF HoldInv, Stages, Stage
  <2>2. TAKE e \in End
  <2>3. CASE e \in {"in.w", "out.r"}
    BY <1>3, <2>3 DEF Closes
  <2>4. CASE e \notin {"in.w", "out.r"}
    BY <1>7, <1>8, <2>1, <2>4
  <2> QED
    BY <2>3, <2>4
<1>10. Stages'
  <2> SUFFICES ASSUME NEW d \in Children PROVE Stage(d)'
    BY DEF Stages
  <2>1. Stage(d)
    BY DEF HoldInv, Stages
  <2>2. CASE d = c
    BY <1>1, <1>2, <1>4, <1>5, <1>7, <1>9, <2>2 DEF Stage
  <2>3. CASE d # c
    BY <1>1, <1>4, <1>5, <1>7, <1>8, <2>1, <2>3 DEF Stage
  <2> QED
    BY <2>2, <2>3
<1>11. \A q \in Children : Alive(q) <=> Alive(q)'
  <2>1. ~Alive(c) /\ ~Alive(c)'
    BY <1>1, <1>2, <1>4 DEF Alive, Gone
  <2> QED
    BY <1>4, <2>1 DEF Alive
<1>12. Holders'
  <2> SUFFICES ASSUME NEW d \in Children PROVE Held(d)'
    BY DEF Holders
  <2>1. ASSUME NEW e \in End, NEW q \in ends'[d][e]
        PROVE  q = Parent \/ Alive(q)'
    <3>1. q \in ends[d][e] /\ q \in Children \union {Parent}
      BY <1>3 DEF Closes, HoldInv, Types
    <3> QED
      BY <1>11, <3>1 DEF HoldInv, Holders, Held
  <2>2. ASSUME Alive(d)' PROVE d \in ends'[d]["out.w"]
    BY <1>3, <1>7, <1>11, <2>2, ChildrenFacts DEF Closes, HoldInv, Holders, Held
  <2> QED
    BY <2>1, <2>2 DEF Held
<1> QED
  BY <1>5, <1>6, <1>10, <1>12 DEF HoldInv

LEMMA HoldInit == Init => HoldInv
<1> SUFFICES ASSUME Init PROVE HoldInv
  OBVIOUS
<1>1. 1 \in Children /\ 0 \in 0 .. MsgParts - 1 /\ \A d \in Children : d \in Nat /\ 1 <= d
  BY ChildrenFacts
<1>2. NoChild \in Child
  BY <1>1 DEF NoChild, Child
<1>3. \A d \in Children : child[d].at = "none"
  BY DEF Init, NoChild
<1>4. Types
  BY <1>1, <1>2 DEF Init, Types
<1>5. CallThere
  BY <1>1, <1>4, ScenarioFacts DEF Init, CallThere
<1>6. \A d \in Children : ~Built(d) /\ ~Undone(d)
  BY <1>1 DEF Init, Built, Building, Undone
<1>7. Stages
  BY <1>3, <1>6 DEF Init, Stages, Stage
<1>8. Holders
  BY <1>3 DEF Init, Holders, Held, Alive
<1> QED
  BY <1>4, <1>5, <1>7, <1>8 DEF HoldInv

LEMMA HoldStep == HoldInv /\ [Next]_vars => HoldInv'
<1> SUFFICES ASSUME HoldInv, [Next]_vars PROVE HoldInv'
  OBVIOUS
<1>1. CASE UNCHANGED vars
  BY <1>1 DEF vars, parentVars, HoldInv, Types, CallThere, Stages, Stage, Holders, Held,
              Built, Building, Undone, Alive
<1>2. ASSUME NEW c \in Children, ChildRuns(c) \/ ChildKilled(c) PROVE HoldInv'
  BY <1>2, ChildMoves, ChildKeeps DEF HoldInv
<1>3. CASE Read \/ ReadThrows \/ Write \/ WriteThrows \/ WriteSigpipe
              \/ CloseStdin \/ Close \/ Abort \/ Skip
  BY <1>3, CallStepMoves, CallKeeps DEF HoldInv
<1> QED
  BY <1>1, <1>2, <1>3, PipesKeeps, FailsKeep, ForkKeeps, ParentSideHolds, DestroyKeeps,
     NoDestroyKeeps DEF Next, ParentRuns

LEMMA HoldInvariant == Spec => []HoldInv
BY HoldInit, HoldStep, PTL DEF Spec

\* A Process that was constructed and destroyed leaves neither a zombie nor an
\* open end of its pipes, in the parent or in any child that inherited one,
\* whatever failed on the way and whoever was killed.
THEOREM NothingLeft == Spec => []LeavesNothing
<1>1. HoldInv => LeavesNothing
  <2> SUFFICES ASSUME HoldInv, pc = "end", NEW c \in Constructs
               PROVE  child[c].at = "reaped" /\ \A e \in End : ends[c][e] = {}
    BY DEF LeavesNothing
  <2>1. c \in Children /\ c \notin thrown /\ \A d \in Children : Undone(d)
    BY DEF Constructs, Undone
  <2>2. \A d \in Children : ~Alive(d)
    <3>1. TAKE d \in Children
    <3>2. child[d].at \in {"none", "reaped"}
      BY <2>1 DEF HoldInv, Stages, Stage
    <3> QED
      BY <3>2 DEF Alive
  <2>3. \A e \in End : ends[c][e] \subseteq Children \union {Parent}
    BY <2>1 DEF HoldInv, Types
  <2> QED
    BY <2>1, <2>2, <2>3 DEF HoldInv, Stages, Stage, Holders, Held
<1> QED
  BY <1>1, HoldInvariant, PTL

-----------------------------------------------------------------------------
(* Counting *)

\* How often op is in s before index k.
Count(op, s, k) == Cardinality({i \in DOMAIN s : s[i] = op /\ i < k})

LEMMA CountFacts ==
    ASSUME NEW op, NEW T, NEW s \in Seq(T), NEW k \in Nat \ {0}
    PROVE  /\ Count(op, s, k) \in Nat /\ Count(op, s, 1) = 0
           /\ k \in DOMAIN s /\ s[k] = op => Count(op, s, k + 1) = Count(op, s, k) + 1
           /\ k \in DOMAIN s /\ s[k] # op => Count(op, s, k + 1) = Count(op, s, k)
           /\ k > Len(s) => Count(op, s, k) = Times(op, s)
<1> DEFINE S(j) == {i \in DOMAIN s : s[i] = op /\ i < j}
<1>1. Len(s) \in Nat /\ DOMAIN s = 1 .. Len(s)
  OBVIOUS
<1>2. \A j : IsFiniteSet(S(j)) /\ Cardinality(S(j)) \in Nat
  <2>1. TAKE j
  <2>2. IsFiniteSet(1 .. Len(s)) /\ S(j) \subseteq 1 .. Len(s)
    BY <1>1, FS_Interval
  <2>3. IsFiniteSet(S(j))
    BY <2>2, FS_Subset
  <2> QED
    BY <2>3, FS_CardinalityType
<1>3. \A j : Count(op, s, j) = Cardinality(S(j))
  BY DEF Count
<1>4. Count(op, s, 1) = 0
  <2>1. S(1) = {}
    BY <1>1
  <2> QED
    BY <1>3, <2>1, FS_EmptySet
<1>5. ASSUME k \in DOMAIN s, s[k] = op PROVE Count(op, s, k + 1) = Count(op, s, k) + 1
  <2>1. S(k + 1) = S(k) \union {k}
    BY <1>1, <1>5
  <2>2. k \notin S(k)
    OBVIOUS
  <2>3. Cardinality(S(k) \union {k}) = Cardinality(S(k)) + 1
    <3> HIDE DEF S
    <3> QED
      BY <1>2, <2>2, FS_AddElement
  <2> QED
    BY <1>3, <2>1, <2>3
<1>6. ASSUME k \in DOMAIN s, s[k] # op PROVE Count(op, s, k + 1) = Count(op, s, k)
  <2>1. S(k + 1) = S(k)
    BY <1>1, <1>6
  <2> QED
    BY <1>3, <2>1
<1>7. ASSUME k > Len(s) PROVE Count(op, s, k) = Times(op, s)
  <2>1. S(k) = {i \in DOMAIN s : s[i] = op}
    BY <1>1, <1>7
  <2> QED
    BY <1>3, <2>1 DEF Times
<1> QED
  BY <1>2, <1>3, <1>4, <1>5, <1>6, <1>7

\* As many parts as n messages have.
Parts(n) == MsgParts * n

LEMMA PartsFacts ==
    ASSUME NEW a \in Nat
    PROVE  /\ Parts(a) \in Nat /\ Parts(a + 1) = Parts(a) + MsgParts
           /\ \A b \in Nat : a < b => Parts(a) + MsgParts <= Parts(b)
<1>1. MsgParts \in Nat
  BY ChildrenFacts
<1>2. Parts(a) \in Nat /\ Parts(a + 1) = Parts(a) + MsgParts
  BY <1>1 DEF Parts
<1>3. ASSUME NEW b \in Nat, a < b PROVE Parts(a) + MsgParts <= Parts(b)
  <2>1. PICK x \in Nat : b = a + 1 + x
    <3>1. b - (a + 1) \in Nat /\ b = a + 1 + (b - (a + 1))
      BY <1>3
    <3> QED
      BY <3>1
  <2>2. MsgParts * x \in Nat
    BY <1>1, <2>1
  <2>3. Parts(b) = Parts(a) + MsgParts + MsgParts * x
    BY <1>1, <2>1 DEF Parts
  <2> QED
    BY <1>1, <1>2, <2>2, <2>3
<1> QED
  BY <1>2, <1>3

-----------------------------------------------------------------------------
(* Nothing that a child wrote is lost *)

Quiet(c) == Range(scenario[c].calls) \intersect {"close", "abort"} = {}

Finished(c) == child[c].step > Len(scenario[c].program)
Lost(c) == Gone(c) /\ ~Finished(c)

\* The parent's next call to c.
NextIndex(c) ==
    IF pc \in {"destroy", "end"} \/ (pc = "calls" /\ c < cur) THEN Len(scenario[c].calls) + 1
    ELSE IF pc = "calls" /\ c = cur THEN call ELSE 1

\* What readExact holds of a message that is not whole yet.
Taken(c) == IF pc = "calls" /\ c = cur /\ Op = "read" THEN part ELSE 0

ReadsDone(c) == Count("read", scenario[c].calls, NextIndex(c))
WritesDone(c) == Count("write", scenario[c].program, child[c].step)

Sending(c) == ~Finished(c) /\ scenario[c].program[child[c].step] = "write"
Written(c) == Parts(WritesDone(c)) + (IF Sending(c) THEN child[c].part ELSE 0)

Conserved(c) == Written(c) = outq[c] + Parts(got[c]) + Taken(c)

\* Every read got its message, or the child is gone and has no more of them.
InTime(c) ==
    \/ got[c] = ReadsDone(c)
    \/ /\ Gone(c) /\ Finished(c) /\ outq[c] = 0 /\ Taken(c) = 0
       /\ got[c] = WritesDone(c) /\ got[c] <= ReadsDone(c)

Kept(c) ==
    c \notin thrown /\ Quiet(c) =>
        /\ Built(c) /\ pc \notin {"destroy", "end"} => fdOut[c]
        /\ Lost(c) \/ (Conserved(c) /\ InTime(c))

KeepInv == HoldInv /\ \A c \in Children : Kept(c)

LEMMA CountsAreNumbers ==
    ASSUME HoldInv, NEW c \in Children
    PROVE  /\ NextIndex(c) \in Nat \ {0} /\ child[c].step \in Nat \ {0}
           /\ child[c].part \in 0 .. MsgParts - 1
           /\ ReadsDone(c) \in Nat /\ WritesDone(c) \in Nat /\ Taken(c) \in 0 .. MsgParts - 1
           /\ got[c] \in Nat /\ outq[c] \in Nat
<1>1. /\ scenario[c].calls \in Seq(Calls) /\ scenario[c].program \in Seq(Steps)
      /\ Len(scenario[c].calls) \in Nat \ {0}
  BY ScenarioFacts DEF HoldInv
<1>2. /\ child[c] \in Child /\ got[c] \in Nat /\ outq[c] \in Nat
      /\ part \in 0 .. MsgParts - 1 /\ 0 \in 0 .. MsgParts - 1 /\ cur \in Children
  BY ChildrenFacts DEF HoldInv, Types
<1>3. call \in Nat \ {0}
  <2>1. call \in DOMAIN scenario[cur].calls
    BY DEF HoldInv, CallThere
  <2> QED
    BY <1>2, <2>1, ScenarioFacts DEF HoldInv
<1>4. NextIndex(c) \in Nat \ {0} /\ child[c].step \in Nat \ {0}
      /\ child[c].part \in 0 .. MsgParts - 1
  BY <1>1, <1>2, <1>3 DEF NextIndex, Child
<1>5. ReadsDone(c) \in Nat /\ WritesDone(c) \in Nat
  BY <1>1, <1>4, CountFacts DEF ReadsDone, WritesDone
<1>6. Taken(c) \in 0 .. MsgParts - 1
  BY <1>2 DEF Taken
<1> QED
  BY <1>2, <1>4, <1>5, <1>6

\* What has nothing to do with c's messages.
LEMMA SameKept ==
    ASSUME HoldInv, NEW c \in Children, Kept(c), scenario' = scenario,
           c \notin thrown' => c \notin thrown,
           c \notin thrown' /\ Quiet(c) /\ Built(c)' /\ pc' \notin {"destroy", "end"} => fdOut'[c],
           ReadsDone(c)' = ReadsDone(c), Taken(c)' = Taken(c), Written(c)' = Written(c),
           got'[c] = got[c], outq'[c] = outq[c],
           Gone(c) => Gone(c)' /\ child'[c].step = child[c].step
    PROVE  Kept(c)'
<1> SUFFICES ASSUME c \notin thrown', Quiet(c)
             PROVE  Lost(c)' \/ (Conserved(c)' /\ InTime(c)')
  BY DEF Kept, Quiet
<1>1. Lost(c) \/ (Conserved(c) /\ InTime(c))
  BY DEF Kept
<1>2. Gone(c) => (Finished(c)' <=> Finished(c)) /\ WritesDone(c)' = WritesDone(c)
  BY DEF Finished, WritesDone
<1>3. CASE Lost(c)
  BY <1>2, <1>3 DEF Lost
<1>4. CASE Conserved(c) /\ InTime(c)
  BY <1>2, <1>4 DEF Conserved, InTime
<1> QED
  BY <1>1, <1>3, <1>4

LEMMA WrittenSame ==
    ASSUME NEW c, scenario' = scenario,
           child'[c].step = child[c].step, child'[c].part = child[c].part
    PROVE  Written(c)' = Written(c)
  BY DEF Written, WritesDone, Sending, Finished

\* Only the Process that was called moves on in its calls.
LEMMA NextIndexFacts ==
    ASSUME HoldInv, pc = "calls", NextCall, scenario' = scenario, NEW c \in Children
    PROVE  /\ c = cur => NextIndex(c) = call /\ NextIndex(c)' = call + 1
           /\ c # cur => NextIndex(c)' = NextIndex(c) /\ Taken(c) = 0
           /\ Taken(c)' = 0
<1>1. cur \in Children /\ cur \in Nat /\ c \in Nat /\ c <= N /\ N \in Nat /\ cur <= N
  BY ChildrenFacts DEF HoldInv, Types
<1>2. /\ part' = 0 /\ pc' \in {"calls", "destroy"}
      /\ pc' = "destroy" => call' = 1 /\ cur' = cur /\ cur = N
      /\ call = Len(scenario[cur].calls) =>
            /\ call' = 1
            /\ cur < N => pc' = "calls" /\ cur' = cur + 1
            /\ cur = N => pc' = "destroy" /\ cur' = cur
      /\ call # Len(scenario[cur].calls) =>
            call' = call + 1 /\ pc' = "calls" /\ cur' = cur
  BY NextCallFacts DEF HoldInv
<1>3. Taken(c)' = 0
  BY <1>2 DEF Taken
<1>4. CASE c = cur
  <2>1. NextIndex(c) = call
    BY <1>1, <1>4 DEF NextIndex
  <2>2. CASE call = Len(scenario[cur].calls)
    BY <1>1, <1>2, <1>4, <2>1, <2>2, <1>3 DEF NextIndex
  <2>3. CASE call # Len(scenario[cur].calls)
    BY <1>1, <1>2, <1>4, <2>1, <2>3, <1>3 DEF NextIndex
  <2> QED
    BY <2>2, <2>3
<1>5. CASE c # cur
  <2>1. Taken(c) = 0
    BY <1>5 DEF Taken
  <2>2. CASE call = Len(scenario[cur].calls)
    <3>1. CASE cur < N
      BY <1>1, <1>2, <1>5, <2>2, <3>1, <2>1, <1>3 DEF NextIndex
    <3>2. CASE cur = N
      BY <1>1, <1>2, <1>5, <2>2, <3>2, <2>1, <1>3 DEF NextIndex
    <3> QED
      BY <1>1, <3>1, <3>2
  <2>3. CASE call # Len(scenario[cur].calls)
    BY <1>1, <1>2, <1>5, <2>1, <2>3, <1>3 DEF NextIndex
  <2> QED
    BY <2>2, <2>3
<1> QED
  BY <1>4, <1>5

\* A call to c that is over, of another kind than read.
LEMMA OtherCallKept ==
    ASSUME KeepInv, pc = "calls", cur \notin thrown, Op # "read", NextCall,
           UNCHANGED <<scenario, thrown, got, outq>>,
           \A d \in Children \ {cur} : child'[d] = child[d] /\ fdOut'[d] = fdOut[d],
           Quiet(cur) => child'[cur] = child[cur] /\ fdOut'[cur] = fdOut[cur],
           NEW c \in Children
    PROVE  Kept(c)'
<1>1. HoldInv /\ Kept(c) /\ cur \in Children
  BY DEF KeepInv, HoldInv, Types
<1>2. /\ c = cur => NextIndex(c) = call /\ NextIndex(c)' = call + 1
      /\ c # cur => NextIndex(c)' = NextIndex(c) /\ Taken(c) = 0
      /\ Taken(c)' = 0
  BY <1>1, NextIndexFacts
<1>3. Taken(c) = 0
  BY <1>2 DEF Taken
<1>4. ReadsDone(c)' = ReadsDone(c)
  <2>1. CASE c # cur
    BY <1>2, <2>1 DEF ReadsDone
  <2>2. CASE c = cur
    <3>1. /\ scenario[c].calls \in Seq(Calls)
          /\ call \in DOMAIN scenario[c].calls /\ scenario[c].calls[call] # "read"
      BY <1>1, <2>2, ScenarioFacts DEF HoldInv, CallThere, Op
    <3>2. call \in Nat \ {0}
      BY <3>1, <1>1, ScenarioFacts DEF HoldInv
    <3>3. Count("read", scenario[c].calls, call + 1) = Count("read", scenario[c].calls, call)
      BY <3>1, <3>2, CountFacts
    <3> QED
      BY <1>2, <2>2, <3>3 DEF ReadsDone
  <2> QED
    BY <2>1, <2>2
<1>5. CASE ~Quiet(c)
  BY <1>5 DEF Kept, Quiet
<1>6. CASE Quiet(c)
  <2>1. child'[c] = child[c] /\ fdOut'[c] = fdOut[c]
    BY <1>6
  <2>2. Written(c)' = Written(c)
    BY <2>1, WrittenSame
  <2>3. Gone(c) => Gone(c)'
    BY <2>1 DEF Gone
  <2>4. c \notin thrown => fdOut'[c]
    <3>1. Built(c)
      BY DEF Built, Building
    <3> QED
      BY <1>1, <1>6, <2>1, <3>1 DEF Kept
  <2> QED
    BY <1>1, <1>2, <1>3, <1>4, <2>1, <2>2, <2>3, <2>4, SameKept
<1> QED
  BY <1>5, <1>6

\* The read that has its message.
LEMMA CountsRead ==
    ASSUME HoldInv, pc = "calls", Op = "read", NextCall, scenario' = scenario,
           NEW c \in Children, c = cur
    PROVE  ReadsDone(c)' = ReadsDone(c) + 1 /\ Taken(c)' = 0 /\ Taken(c) = part
<1>1. NextIndex(c) = call /\ NextIndex(c)' = call + 1 /\ Taken(c)' = 0
  BY NextIndexFacts
<1>2. /\ scenario[c].calls \in Seq(Calls)
      /\ call \in DOMAIN scenario[c].calls /\ scenario[c].calls[call] = "read"
  BY ScenarioFacts DEF HoldInv, CallThere, Op
<1>3. call \in Nat \ {0}
  BY <1>2, ScenarioFacts DEF HoldInv
<1>4. Count("read", scenario[c].calls, call + 1) = Count("read", scenario[c].calls, call) + 1
  BY <1>2, <1>3, CountFacts
<1> QED
  BY <1>1, <1>4 DEF ReadsDone, Taken

LEMMA ReadKept == ASSUME KeepInv, Read, NEW c \in Children PROVE Kept(c)'
<1>1. /\ HoldInv /\ Kept(c) /\ cur \in Children /\ outq \in [Children -> Nat]
      /\ got \in [Children -> Nat] /\ part \in Nat /\ MsgParts \in Nat
  BY ChildrenFacts DEF KeepInv, HoldInv, Types
<1>2. /\ pc = "calls" /\ cur \notin thrown /\ Op = "read" /\ fdOut[cur]
      /\ UNCHANGED <<scenario, fdIn, fdOut, thrown, inq, ends, child, fate>>
  BY DEF Read, Calling, At
<1>3. PICK n \in 1 .. MsgParts - part :
        /\ n <= outq[cur]
        /\ outq' = [outq EXCEPT ![cur] = @ - n]
        /\ IF part + n = MsgParts
           THEN got' = [got EXCEPT ![cur] = @ + 1] /\ NextCall
           ELSE part' = part + n /\ UNCHANGED <<pc, cur, call, got>>
  BY DEF Read
<1>4. Written(c)' = Written(c) /\ (Gone(c) <=> Gone(c)')
  BY <1>2, WrittenSame DEF Gone
<1>5. \A d \in Children : Built(d)
  BY <1>2 DEF Built, Building
<1>6. CASE c # cur
  <2>1. outq'[c] = outq[c] /\ got'[c] = got[c]
    BY <1>1, <1>3, <1>6
  <2>2. ReadsDone(c)' = ReadsDone(c) /\ Taken(c)' = Taken(c)
    <3>1. CASE part + n = MsgParts
      BY <1>1, <1>2, <1>3, <1>6, <3>1, NextIndexFacts DEF ReadsDone
    <3>2. CASE part + n # MsgParts
      BY <1>2, <1>3, <1>6, <3>2 DEF ReadsDone, Taken, NextIndex
    <3> QED
      BY <3>1, <3>2
  <2>3. c \notin thrown /\ Quiet(c) /\ pc \notin {"destroy", "end"} => fdOut[c]
    BY <1>1, <1>5 DEF Kept
  <2> QED
    BY <1>1, <1>2, <1>4, <2>1, <2>2, <2>3, SameKept
<1>7. CASE c = cur
  <2> SUFFICES ASSUME Quiet(c) PROVE Kept(c)'
    BY <1>2 DEF Kept, Quiet
  <2>1. Lost(c) \/ (Conserved(c) /\ got[c] = ReadsDone(c))
    <3>1. outq[c] # 0
      BY <1>1, <1>3, <1>7
    <3> QED
      BY <1>1, <1>2, <1>7, <3>1 DEF Kept, InTime
  <2>2. fdOut'[c]
    BY <1>2, <1>7
  <2>3. CASE Lost(c)
    BY <1>2, <2>2, <2>3 DEF Kept, Lost, Gone, Finished
  <2>4. CASE Conserved(c) /\ got[c] = ReadsDone(c)
    <3>1. outq'[c] = outq[c] - n /\ n \in Nat /\ outq[c] \in Nat /\ got[c] \in Nat
      BY <1>1, <1>3, <1>7
    <3>2. Taken(c) = part
      BY <1>2, <1>7 DEF Taken
    <3>3. Parts(got[c]) \in Nat /\ Parts(got[c] + 1) = Parts(got[c]) + MsgParts
      BY <3>1, PartsFacts
    <3>4. CASE part + n = MsgParts
      <4>1. got'[c] = got[c] + 1 /\ NextCall
        BY <1>1, <1>3, <1>7, <3>4
      <4>2. ReadsDone(c)' = ReadsDone(c) + 1 /\ Taken(c)' = 0
        BY <1>1, <1>2, <1>7, <4>1, CountsRead
      <4>3. Conserved(c)'
        BY <1>1, <1>4, <2>4, <3>1, <3>2, <3>3, <3>4, <4>1, <4>2 DEF Conserved
      <4> QED
        BY <2>2, <2>4, <4>1, <4>2, <4>3 DEF Kept, InTime
    <3>5. CASE part + n # MsgParts
      <4>1. got'[c] = got[c] /\ part' = part + n /\ UNCHANGED <<pc, cur, call>>
        BY <1>1, <1>3, <3>5
      <4>2. ReadsDone(c)' = ReadsDone(c) /\ Taken(c)' = part + n
        BY <1>2, <1>7, <4>1 DEF ReadsDone, Taken, NextIndex, Op
      <4>3. Conserved(c)'
        BY <1>1, <1>4, <2>4, <3>1, <3>2, <3>3, <4>1, <4>2 DEF Conserved
      <4> QED
        BY <2>2, <2>4, <4>1, <4>2, <4>3 DEF Kept, InTime
    <3> QED
      BY <3>4, <3>5
  <2> QED
    BY <2>1, <2>3, <2>4
<1> QED
  BY <1>6, <1>7

\* A read that throws holds nothing, or its child was killed.
LEMMA ReadThrowsKept == ASSUME KeepInv, ReadThrows, NEW c \in Children PROVE Kept(c)'
<1>1. /\ HoldInv /\ Kept(c) /\ cur \in Children /\ MsgParts \in Nat
      /\ part \in 0 .. MsgParts - 1
  BY ChildrenFacts DEF KeepInv, HoldInv, Types
<1>2. /\ pc = "calls" /\ cur \notin thrown /\ Op = "read" /\ NextCall
      /\ ~fdOut[cur] \/ (outq[cur] = 0 /\ Writers(cur, "out") = {})
      /\ UNCHANGED <<scenario, fdIn, fdOut, thrown, got, inq, outq, ends, child, fate>>
  BY DEF ReadThrows, Calling, At
<1>3. Written(c)' = Written(c) /\ (Gone(c) <=> Gone(c)')
  BY <1>2, WrittenSame DEF Gone
<1>4. Built(c)
  BY <1>2 DEF Built, Building
<1>5. CASE c # cur
  <2>1. ReadsDone(c)' = ReadsDone(c) /\ Taken(c)' = Taken(c)
    BY <1>1, <1>2, <1>5, NextIndexFacts DEF ReadsDone
  <2>2. c \notin thrown /\ Quiet(c) /\ pc \notin {"destroy", "end"} => fdOut[c]
    BY <1>1, <1>4 DEF Kept
  <2> QED
    BY <1>1, <1>2, <1>3, <2>1, <2>2, SameKept
<1>6. CASE c = cur
  <2> SUFFICES ASSUME Quiet(c) PROVE Kept(c)'
    BY <1>2 DEF Kept, Quiet
  <2>1. fdOut[c] /\ (Lost(c) \/ (Conserved(c) /\ InTime(c)))
    BY <1>1, <1>2, <1>4, <1>6 DEF Kept
  <2>2. outq[c] = 0 /\ c \notin ends[c]["out.w"]
    BY <1>2, <1>6, <2>1 DEF Writers
  <2>3. Gone(c)
    <3>1. ~Alive(c) /\ child[c].at # "none" /\ child[c] \in Child
      BY <1>1, <1>2, <1>4, <1>6, <2>2 DEF HoldInv, Holders, Held, Stages, Stage, Types
    <3> QED
      BY <3>1 DEF Gone, Alive, Child
  <2>4. CASE Lost(c)
    BY <1>2, <2>1, <2>4 DEF Kept, Lost, Gone, Finished
  <2>5. CASE Conserved(c) /\ InTime(c) /\ Finished(c)
    <3>1. /\ got[c] \in Nat /\ WritesDone(c) \in Nat /\ ReadsDone(c) \in Nat
      BY <1>1, CountsAreNumbers
    <3>2. ReadsDone(c)' = ReadsDone(c) + 1 /\ Taken(c)' = 0 /\ Taken(c) = part
      BY <1>1, <1>2, <1>6, CountsRead
    <3>3. Parts(WritesDone(c)) = Parts(got[c]) + part
      <4>1. Parts(WritesDone(c)) \in Nat /\ Parts(got[c]) \in Nat
        BY <3>1, PartsFacts
      <4> QED
        BY <1>1, <2>2, <2>5, <3>2, <4>1 DEF Conserved, Written, Sending
    <3>4. WritesDone(c) = got[c] /\ part = 0
      <4>1. /\ Parts(WritesDone(c)) \in Nat /\ Parts(got[c]) \in Nat
            /\ WritesDone(c) < got[c] => Parts(WritesDone(c)) + MsgParts <= Parts(got[c])
            /\ got[c] < WritesDone(c) => Parts(got[c]) + MsgParts <= Parts(WritesDone(c))
        BY <3>1, PartsFacts
      <4> QED
        BY <1>1, <3>1, <3>3, <4>1
    <3>5. got[c] <= ReadsDone(c)
      BY <2>5, <3>1 DEF InTime
    <3>6. /\ got'[c] = got[c] /\ outq'[c] = 0 /\ Gone(c)' /\ Finished(c)'
          /\ WritesDone(c)' = WritesDone(c) /\ fdOut'[c]
      BY <1>2, <1>3, <2>1, <2>2, <2>3, <2>5 DEF Finished, WritesDone
    <3>7. InTime(c)'
      BY <3>1, <3>2, <3>4, <3>5, <3>6 DEF InTime
    <3>8. Conserved(c)'
      BY <1>2, <1>3, <2>5, <3>2, <3>4 DEF Conserved
    <3> QED
      BY <3>6, <3>7, <3>8 DEF Kept
  <2> QED
    BY <2>1, <2>3, <2>4, <2>5 DEF Lost
<1> QED
  BY <1>5, <1>6

LEMMA OtherCallsKeep ==
    ASSUME KeepInv, NEW c \in Children,
           Write \/ WriteThrows \/ CloseStdin \/ Close \/ Abort \/ Skip \/ WriteSigpipe
    PROVE  Kept(c)'
<1>1. /\ HoldInv /\ Kept(c) /\ cur \in Children
      /\ fdIn \in [Children -> BOOLEAN] /\ fdOut \in [Children -> BOOLEAN]
      /\ child \in [Children -> Child] /\ scenario[cur].calls \in Seq(Calls)
  BY ScenarioFacts DEF KeepInv, HoldInv, Types
<1>2. At("calls") => pc = "calls" /\ \A d \in Children : Built(d)
  BY DEF At, Built, Building
\* A step within a call leaves all the counts alone.
<1>3. ASSUME pc = "calls", UNCHANGED <<scenario, pc, cur, call, thrown, got, outq, child, fdOut>>,
             Op # "read" \/ part' = part
      PROVE  Kept(c)'
  <2>1. ReadsDone(c)' = ReadsDone(c) /\ Taken(c)' = Taken(c)
    BY <1>3 DEF ReadsDone, NextIndex, Taken, Op
  <2>2. Written(c)' = Written(c) /\ (Gone(c) => Gone(c)')
    BY <1>3, WrittenSame DEF Gone
  <2>3. c \notin thrown /\ Quiet(c) => fdOut[c]
    BY <1>1, <1>3 DEF Kept, Built, Building
  <2> QED
    BY <1>1, <1>3, <2>1, <2>2, <2>3, SameKept
<1>4. CASE Write
  <2>1. /\ pc = "calls" /\ cur \notin thrown /\ Op = "write"
        /\ NextCall \/ UNCHANGED <<pc, cur, call>>
        /\ UNCHANGED <<scenario, fdIn, fdOut, thrown, got, outq, ends, child, fate>>
    BY <1>2, <1>4 DEF Write, Calling
  <2> QED
    BY <1>3, <2>1, OtherCallKept
<1>5. CASE WriteThrows
  <2>1. /\ pc = "calls" /\ cur \notin thrown /\ Op = "write" /\ NextCall
        /\ UNCHANGED <<scenario, fdIn, fdOut, thrown, got, inq, outq, ends, child, fate>>
    BY <1>2, <1>5 DEF WriteThrows, Calling
  <2> QED
    BY <2>1, OtherCallKept
<1>6. CASE WriteSigpipe
  <2>1. /\ pc = "calls" /\ UNCHANGED <<scenario, pc, cur, call, part, thrown, got, outq, child, fdOut>>
    BY <1>2, <1>6 DEF WriteSigpipe, Calling, parentVars
  <2> QED
    BY <1>3, <2>1
<1>7. CASE CloseStdin
  <2>1. /\ pc = "calls" /\ cur \notin thrown /\ Op = "closeStdin" /\ NextCall
        /\ UNCHANGED <<scenario, fdOut, thrown, got, inq, outq, child, fate>>
    BY <1>2, <1>7 DEF CloseStdin, Calling
  <2> QED
    BY <2>1, OtherCallKept
<1>8. ASSUME pc = "calls", Op \in {"close", "abort"} PROVE ~Quiet(cur)
  <2>1. call \in DOMAIN scenario[cur].calls /\ scenario[cur].calls[call] = Op
    BY <1>1 DEF HoldInv, CallThere, Op
  <2> QED
    BY <1>8, <2>1 DEF Quiet, Range
<1>9. CASE Close
  <2>1. /\ pc = "calls" /\ cur \notin thrown /\ Op = "close" /\ NextCall
        /\ fdOut' = [fdOut EXCEPT ![cur] = FALSE]
        /\ UNCHANGED <<scenario, thrown, got, inq, outq, child, fate>>
    BY <1>2, <1>9 DEF Close, Calling
  <2>2. \A d \in Children \ {cur} : child'[d] = child[d] /\ fdOut'[d] = fdOut[d]
    BY <1>1, <2>1
  <2>3. ~Quiet(cur)
    BY <1>8, <2>1
  <2> QED
    BY <2>1, <2>2, <2>3, OtherCallKept
<1>10. CASE Abort
  <2>1. /\ pc = "calls" /\ cur \notin thrown /\ Op = "abort" /\ NextCall
        /\ child' = [child EXCEPT ![cur].at = IF Gone(cur) THEN child[cur].at ELSE "killed"]
        /\ UNCHANGED <<scenario, fdIn, fdOut, thrown, got, inq, outq, fate>>
    BY <1>2, <1>10 DEF Abort, Calling
  <2>2. \A d \in Children \ {cur} : child'[d] = child[d] /\ fdOut'[d] = fdOut[d]
    BY <1>1, <2>1
  <2>3. ~Quiet(cur)
    BY <1>8, <2>1
  <2> QED
    BY <2>1, <2>2, <2>3, OtherCallKept
<1>11. CASE Skip
  <2>1. /\ part' = 0 /\ call' = 1 /\ cur' \in Children /\ pc' \in {"calls", "destroy"}
        /\ cur < N => pc' = "calls" /\ cur' = cur + 1
        /\ cur = N => pc' = "destroy" /\ cur' = cur
        /\ pc = "calls" /\ cur \in thrown
    BY <1>1, <1>11, SkipFacts DEF HoldInv
  <2>2. UNCHANGED <<scenario, fdIn, fdOut, thrown, got, inq, outq, ends, child, fate>>
    BY <1>11 DEF Skip
  <2>3. CASE c = cur
    BY <2>1, <2>2, <2>3 DEF Kept
  <2>4. CASE c # cur
    <3>1. Taken(c) = 0 /\ Taken(c)' = 0
      BY <2>1, <2>4 DEF Taken
    <3>2. NextIndex(c)' = NextIndex(c)
      <4>1. c \in Nat /\ cur \in Nat /\ N \in Nat /\ c <= N /\ cur <= N
        BY <1>1, ChildrenFacts
      <4>2. CASE cur < N
        BY <2>1, <2>2, <2>4, <4>1, <4>2 DEF NextIndex
      <4>3. CASE cur = N
        BY <2>1, <2>2, <2>4, <4>1, <4>3 DEF NextIndex
      <4> QED
        BY <4>1, <4>2, <4>3
    <3>3. ReadsDone(c)' = ReadsDone(c)
      BY <2>2, <3>2 DEF ReadsDone
    <3>4. Written(c)' = Written(c) /\ (Gone(c) => Gone(c)')
      BY <2>2, WrittenSame DEF Gone
    <3>5. c \notin thrown /\ Quiet(c) => fdOut[c]
      BY <1>1, <2>1 DEF Kept, Built, Building
    <3> QED
      BY <1>1, <2>2, <3>1, <3>3, <3>4, <3>5, SameKept
  <2> QED
    BY <2>3, <2>4
<1> QED
  BY <1>4, <1>5, <1>6, <1>7, <1>9, <1>10, <1>11

\* What a step of a child leaves of another one's counts, or its death of its own.
LEMMA ChildMoveKept ==
    ASSUME KeepInv, NEW c \in Children, ChildMove(c), NEW d \in Children,
           Written(d)' = Written(d), outq'[d] = outq[d]
    PROVE  Kept(d)'
<1>1. HoldInv /\ Kept(d)
  BY DEF KeepInv
<1>2. UNCHANGED <<scenario, pc, cur, call, part, fdIn, fdOut, thrown, got>>
  BY DEF ChildMove
<1>3. ReadsDone(d)' = ReadsDone(d) /\ Taken(d)' = Taken(d) /\ (Built(d)' <=> Built(d))
  BY <1>2 DEF ReadsDone, NextIndex, Taken, Op, Built, Building
<1>4. Gone(d) => Gone(d)' /\ child'[d].step = child[d].step
  <2>1. d = c => ~Gone(d)
    BY DEF ChildMove, Alive, Gone
  <2>2. d # c => child'[d] = child[d]
    BY DEF ChildMove
  <2> QED
    BY <2>1, <2>2 DEF Gone
<1>5. d \notin thrown /\ Quiet(d) /\ Built(d) /\ pc \notin {"destroy", "end"} => fdOut[d]
  BY <1>1 DEF Kept
<1> QED
  BY <1>1, <1>2, <1>3, <1>4, <1>5, SameKept

\* A step of the program that writes nothing leaves the count of what was written.
LEMMA ReadsWriteNothing ==
    ASSUME HoldInv, NEW c \in Children, Doing(c, "read") \/ Doing(c, "readAll"),
           NextStep(c) \/ Progress(c) \/ UNCHANGED child, scenario' = scenario
    PROVE  Written(c)' = Written(c)
<1>1. /\ scenario[c].program \in Seq(Steps) /\ child[c].step \in Nat \ {0}
      /\ Len(scenario[c].program) \in Nat
      /\ DOMAIN scenario[c].program = 1 .. Len(scenario[c].program)
  BY ScenarioFacts, CountsAreNumbers DEF HoldInv
<1>2. /\ child[c].step \in DOMAIN scenario[c].program
      /\ scenario[c].program[child[c].step] # "write"
  BY <1>1 DEF Doing
<1>3. ~Sending(c)
  BY <1>2 DEF Sending
<1>4. CASE UNCHANGED child
  BY <1>4, WrittenSame
<1>5. CASE NextStep(c)
  <2>1. child'[c].step = child[c].step + 1 /\ child'[c].part = 0
    BY <1>5, ProgressUpdates DEF HoldInv
  <2>2. WritesDone(c)' = WritesDone(c)
    <3>1. Count("write", scenario[c].program, child[c].step + 1)
          = Count("write", scenario[c].program, child[c].step)
      BY <1>1, <1>2, CountFacts
    <3> QED
      BY <2>1, <3>1 DEF WritesDone
  <2> QED
    BY <1>3, <2>1, <2>2 DEF Written
<1>6. CASE child[c].part + 1 # MsgParts /\ Progress(c)
  <2>1. child'[c].step = child[c].step
    BY <1>6, ProgressUpdates DEF HoldInv
  <2> QED
    BY <1>3, <2>1 DEF Written, WritesDone, Sending, Finished
<1> QED
  BY <1>4, <1>5, <1>6 DEF Progress

LEMMA ChildWritesKept ==
    ASSUME KeepInv, NEW c \in Children, ChildWrites(c), ChildMove(c)
    PROVE  Kept(c)'
<1>1. /\ HoldInv /\ Kept(c) /\ outq \in [Children -> Nat] /\ MsgParts \in Nat
  BY ChildrenFacts DEF KeepInv, HoldInv, Types
<1>2. /\ Doing(c, "write") /\ outq' = [outq EXCEPT ![c] = @ + 1] /\ Progress(c)
      /\ UNCHANGED <<scenario, parentVars, inq, ends, fate>>
  BY DEF ChildWrites
<1>3. outq'[c] = outq[c] + 1 /\ outq[c] \in Nat
  BY <1>1, <1>2
<1>4. /\ scenario[c].program \in Seq(Steps) /\ child[c].step \in Nat \ {0}
      /\ child[c].part \in 0 .. MsgParts - 1 /\ Len(scenario[c].program) \in Nat
      /\ DOMAIN scenario[c].program = 1 .. Len(scenario[c].program)
      /\ WritesDone(c) \in Nat /\ Taken(c) \in 0 .. MsgParts - 1 /\ got[c] \in Nat
  BY <1>1, ScenarioFacts, CountsAreNumbers DEF HoldInv
<1>5. /\ child[c].step \in DOMAIN scenario[c].program
      /\ scenario[c].program[child[c].step] = "write" /\ child[c].at = "running"
  BY <1>2, <1>4 DEF Doing
<1>6. Sending(c) /\ ~Gone(c)
  BY <1>4, <1>5 DEF Sending, Finished, Gone
<1>7. Parts(WritesDone(c)) \in Nat /\ Parts(WritesDone(c) + 1) = Parts(WritesDone(c)) + MsgParts
  BY <1>4, PartsFacts
<1>8. Written(c) = Parts(WritesDone(c)) + child[c].part
  BY <1>6 DEF Written
<1>9. Written(c)' = Written(c) + 1
  <2>1. CASE child[c].part + 1 = MsgParts
    <3>1. NextStep(c)
      BY <1>2, <2>1 DEF Progress
    <3>2. child'[c].step = child[c].step + 1 /\ child'[c].part = 0
      BY <1>1, <3>1, ProgressUpdates DEF HoldInv
    <3>3. WritesDone(c)' = WritesDone(c) + 1
      <4>1. Count("write", scenario[c].program, child[c].step + 1)
            = Count("write", scenario[c].program, child[c].step) + 1
        BY <1>4, <1>5, CountFacts
      <4> QED
        BY <1>2, <3>2, <4>1 DEF WritesDone
    <3>4. Written(c)' = Parts(WritesDone(c) + 1)
      <4>1. Written(c)' = Parts(WritesDone(c)') + (IF Sending(c)' THEN child'[c].part ELSE 0)
        BY DEF Written, Parts
      <4>2. Written(c)' = Parts(WritesDone(c) + 1) + 0
        BY <3>2, <3>3, <4>1
      <4>3. Parts(WritesDone(c) + 1) \in Nat
        BY <1>1, <1>7
      <4> QED
        BY <4>2, <4>3
    <3> QED
      BY <1>1, <1>4, <1>7, <1>8, <2>1, <3>4
  <2>2. CASE child[c].part + 1 # MsgParts
    <3>1. child'[c].step = child[c].step /\ child'[c].part = child[c].part + 1
      BY <1>1, <1>2, <2>2, ProgressUpdates DEF HoldInv
    <3>2. WritesDone(c)' = WritesDone(c) /\ Sending(c)'
      BY <1>2, <1>6, <3>1 DEF WritesDone, Sending, Finished
    <3>3. Written(c)' = Parts(WritesDone(c)) + (child[c].part + 1)
      BY <3>1, <3>2 DEF Written, Parts
    <3> QED
      BY <1>4, <1>7, <1>8, <3>3
  <2> QED
    BY <2>1, <2>2
<1>10. /\ UNCHANGED <<scenario, pc, cur, call, part, fdOut, thrown, got>>
       /\ ReadsDone(c)' = ReadsDone(c) /\ Taken(c)' = Taken(c) /\ (Built(c)' <=> Built(c))
  BY <1>2 DEF parentVars, ReadsDone, NextIndex, Taken, Op, Built, Building
<1>11. ASSUME c \notin thrown, Quiet(c) PROVE Conserved(c)' /\ InTime(c)'
  <2>1. Conserved(c) /\ got[c] = ReadsDone(c)
    BY <1>1, <1>6, <1>11 DEF Kept, Lost, InTime
  <2>2. Parts(got[c]) \in Nat
    BY <1>4, PartsFacts
  <2>3. Conserved(c)'
    <3>1. Parts(got[c])' = Parts(got[c])
      BY <1>10 DEF Parts
    <3> QED
      BY <1>3, <1>4, <1>9, <1>10, <2>1, <2>2, <3>1 DEF Conserved
  <2> QED
    BY <1>10, <2>1, <2>3 DEF InTime
<1>12. c \notin thrown /\ Quiet(c) /\ Built(c) /\ pc \notin {"destroy", "end"} => fdOut[c]
  BY <1>1 DEF Kept
<1> QED
  BY <1>10, <1>11, <1>12 DEF Kept, Quiet

LEMMA ChildStepKept ==
    ASSUME KeepInv, NEW c \in Children, ChildRuns(c) \/ ChildKilled(c), NEW d \in Children
    PROVE  Kept(d)'
<1>1. ChildMove(c) /\ scenario' = scenario /\ HoldInv
      /\ child \in [Children -> Child] /\ outq \in [Children -> Nat]
  BY ChildMoves DEF KeepInv, HoldInv, Types, ChildMove
<1>2. CASE ChildWrites(c)
  <2>1. CASE d = c
    BY <1>1, <1>2, <2>1, ChildWritesKept
  <2>2. CASE d # c
    <3>1. child'[d] = child[d]
      BY <1>1, <2>2 DEF ChildMove
    <3>2. outq'[d] = outq[d]
      BY <1>1, <1>2, <2>2 DEF ChildWrites
    <3>3. Written(d)' = Written(d)
      BY <1>1, <3>1, WrittenSame
    <3> QED
      BY <1>1, <3>2, <3>3, ChildMoveKept
  <2> QED
    BY <2>1, <2>2
<1>3. CASE ~ChildWrites(c)
  <2>1. outq' = outq
    BY <1>3 DEF ChildRuns, ChildKilled, ChildSide, Exec, ExecFails, ChildReads, ChildReadsEnd,
                ChildSigpipe, ChildExits
  <2>2. Written(d)' = Written(d)
    <3>1. CASE d # c
      BY <1>1, <3>1, WrittenSame DEF ChildMove
    <3>2. CASE d = c /\ (ChildReads(c) \/ ChildReadsEnd(c))
      <4>1. /\ Doing(c, "read") \/ Doing(c, "readAll")
            /\ NextStep(c) \/ Progress(c) \/ UNCHANGED child
        BY <3>2 DEF ChildReads, ChildReadsEnd
      <4> QED
        BY <1>1, <3>2, <4>1, ReadsWriteNothing
    <3>3. CASE d = c /\ ~(ChildReads(c) \/ ChildReadsEnd(c))
      <4>1. \E a \in {"exec", "running", "exited", "killed"} : child' = [child EXCEPT ![c].at = a]
        BY <1>3, <3>3 DEF ChildRuns, ChildKilled, ChildSide, Exec, ExecFails, ChildSigpipe, ChildExits
      <4>2. PICK a \in {"exec", "running", "exited", "killed"} : child' = [child EXCEPT ![c].at = a]
        BY <4>1
      <4>3. a \in {"none", "forked", "exec", "running", "exited", "killed", "reaped"}
        OBVIOUS
      <4>4. child'[c].step = child[c].step /\ child'[c].part = child[c].part
        BY <1>1, <4>2, <4>3, ChildBecomes DEF HoldInv
      <4> QED
        BY <1>1, <3>3, <4>4, WrittenSame
    <3> QED
      BY <3>1, <3>2, <3>3
  <2> QED
    BY <1>1, <2>1, <2>2, ChildMoveKept
<1> QED
  BY <1>2, <1>3

\* A step that leaves alone what the counts are made of.
LEMMA NothingCounted ==
    ASSUME KeepInv, NEW c \in Children,
           UNCHANGED <<scenario, pc, cur, call, part, fdOut, thrown, got, outq, child>>
    PROVE  Kept(c)'
<1>1. HoldInv /\ Kept(c)
  BY DEF KeepInv
<1>2. ReadsDone(c)' = ReadsDone(c) /\ Taken(c)' = Taken(c) /\ (Built(c)' <=> Built(c))
  BY DEF ReadsDone, Taken, NextIndex, Op, Built, Building
<1>3. Written(c)' = Written(c) /\ (Gone(c) => Gone(c)')
  BY WrittenSame DEF Gone
<1>4. c \notin thrown /\ Quiet(c) /\ Built(c) /\ pc \notin {"destroy", "end"} => fdOut[c]
  BY <1>1 DEF Kept
<1> QED
  BY <1>1, <1>2, <1>3, <1>4, SameKept

LEMMA BuildingKept ==
    ASSUME KeepInv, NEW c \in Children,
           Pipes \/ PipeFails \/ Fork \/ ParentSide
    PROVE  Kept(c)'
<1>1. /\ HoldInv /\ Kept(c) /\ cur \in Children /\ fdOut \in [Children -> BOOLEAN]
      /\ Building /\ call = 1 /\ part = 0 /\ c \in Nat /\ 1 <= c
  BY ChildrenFacts DEF KeepInv, HoldInv, Types, CallThere, Building, Pipes, PipeFails, Fork, ParentSide, At
<1>2. UNCHANGED <<scenario, call, part, got, outq>> /\ thrown \subseteq thrown'
  BY DEF Pipes, PipeFails, Fork, ParentSide, Throws
<1>3. pc' \in {"fork", "forked"} \/ (Constructed /\ pc' \in {"pipes", "calls"} /\ (pc' = "calls" => cur' = 1))
  BY <1>1, ConstructedFacts DEF Pipes, PipeFails, Fork, ParentSide, Throws, HoldInv
<1>4. ReadsDone(c)' = ReadsDone(c) /\ Taken(c)' = Taken(c)
  <2>1. NextIndex(c) = 1 /\ Taken(c) = 0
    BY <1>1 DEF NextIndex, Taken, Building
  <2>2. NextIndex(c)' = 1 /\ Taken(c)' = 0
    BY <1>1, <1>2, <1>3 DEF NextIndex, Taken
  <2> QED
    BY <1>2, <2>1, <2>2 DEF ReadsDone
<1>5. /\ Gone(c) => Gone(c)'
      /\ child'[c].step = child[c].step /\ child'[c].part = child[c].part
  <2>1. CASE Fork
    <3>1. PICK d \in Children : d = cur
      BY <1>1
    <3>2. child' = [child EXCEPT ![d].at = "forked"]
      BY <2>1, <3>1 DEF Fork
    <3>3. /\ child'[d].step = child[d].step /\ child'[d].part = child[d].part
          /\ \A x \in Children \ {d} : child'[x] = child[x]
      BY <1>1, <3>2, ChildBecomes DEF HoldInv
    <3>4. ~Gone(d)
      <4>1. ~Built(d) /\ pc = "fork"
        BY <1>1, <2>1, <3>1, ChildrenFacts DEF Built, Fork, At
      <4> QED
        BY <1>1, <4>1 DEF HoldInv, Stages, Stage, Gone
    <3> QED
      BY <3>3, <3>4 DEF Gone
  <2>2. CASE ~Fork
    <3>1. child' = child
      BY <2>2 DEF Pipes, PipeFails, ParentSide
    <3> QED
      BY <3>1 DEF Gone
  <2> QED
    BY <2>1, <2>2
<1>6. c \notin thrown' /\ Quiet(c) /\ Built(c)' /\ pc' \notin {"destroy", "end"} => fdOut'[c]
  <2> SUFFICES ASSUME c \notin thrown', Quiet(c), Built(c)' PROVE fdOut'[c]
    OBVIOUS
  <2>1. CASE Pipes \/ Fork
    <3>1. cur' = cur /\ fdOut' = fdOut /\ pc \notin {"destroy", "end"} /\ pc' \in {"fork", "forked"}
      BY <2>1 DEF Pipes, Fork, At
    <3>2. Built(c)
      BY <3>1 DEF Built, Building
    <3> QED
      BY <1>1, <1>2, <3>1, <3>2 DEF Kept
  <2>2. CASE ~(Pipes \/ Fork)
    <3>1. Constructed /\ pc \notin {"destroy", "end"}
      BY <2>2 DEF PipeFails, ParentSide, Throws, At
    <3>2. Built(c) \/ c = cur
      BY <1>1, <3>1, BuiltNext DEF HoldInv
    <3>3. CASE ParentSide
      <4>1. fdOut' = [fdOut EXCEPT ![cur] = TRUE]
        BY <3>3 DEF ParentSide
      <4>2. CASE c = cur
        BY <1>1, <4>1, <4>2
      <4>3. CASE c # cur
        BY <1>1, <1>2, <3>1, <3>2, <4>1, <4>3 DEF Kept
      <4> QED
        BY <4>2, <4>3
    <3>4. CASE PipeFails
      <4>1. thrown' = thrown \union {cur} /\ fdOut' = fdOut
        BY <3>4 DEF PipeFails, Throws
      <4> QED
        BY <1>1, <3>1, <3>2, <4>1 DEF Kept
    <3> QED
      BY <2>2, <3>3, <3>4
  <2> QED
    BY <2>1, <2>2
<1>7. Written(c)' = Written(c)
  BY <1>2, <1>5, WrittenSame
<1> QED
  BY <1>1, <1>2, <1>4, <1>5, <1>6, <1>7, SameKept

LEMMA DestroyingKept ==
    ASSUME KeepInv, NEW c \in Children, Destroy \/ NoDestroy
    PROVE  Kept(c)'
<1>1. /\ HoldInv /\ Kept(c) /\ cur \in Children /\ pc = "destroy" /\ Destroyed
      /\ UNCHANGED <<scenario, call, part, thrown, got, inq, outq, fate>>
  BY DEF KeepInv, HoldInv, Types, Destroy, NoDestroy, At
<1>2. pc' \in {"destroy", "end"}
  BY <1>1, DestroyedFacts DEF HoldInv
<1>3. ReadsDone(c)' = ReadsDone(c) /\ Taken(c)' = Taken(c)
  BY <1>1, <1>2 DEF ReadsDone, Taken, NextIndex
<1>4. /\ Gone(c) => Gone(c)'
      /\ child'[c].step = child[c].step /\ child'[c].part = child[c].part
  <2>1. CASE Destroy
    <3>1. PICK d \in Children : d = cur
      BY <1>1
    <3>2. child' = [child EXCEPT ![d].at = "reaped"]
      BY <2>1, <3>1 DEF Destroy
    <3>3. /\ child'[d].step = child[d].step /\ child'[d].part = child[d].part
          /\ child'[d].at = "reaped"
          /\ \A x \in Children \ {d} : child'[x] = child[x]
      BY <1>1, <3>2, ChildBecomes DEF HoldInv
    <3> QED
      BY <3>3 DEF Gone
  <2>2. CASE NoDestroy
    BY <2>2 DEF NoDestroy, Gone
  <2> QED
    BY <2>1, <2>2
<1>5. Written(c)' = Written(c)
  BY <1>1, <1>4, WrittenSame
<1> QED
  BY <1>1, <1>2, <1>3, <1>4, <1>5, SameKept

LEMMA KeepInit == Init => KeepInv
<1> SUFFICES ASSUME Init, NEW c \in Children PROVE Kept(c)
  BY HoldInit DEF KeepInv
<1>1. HoldInv
  BY HoldInit
<1>2. /\ child[c].step = 1 /\ child[c].part = 0 /\ got[c] = 0 /\ outq[c] = 0
      /\ pc = "pipes" /\ cur = 1
  BY DEF Init, NoChild
<1>3. /\ scenario[c].calls \in Seq(Calls) /\ scenario[c].program \in Seq(Steps)
  BY <1>1, ScenarioFacts DEF HoldInv
<1>4. ~Built(c) /\ NextIndex(c) = 1 /\ Taken(c) = 0
  BY <1>2, ChildrenFacts DEF Built, Building, NextIndex, Taken
<1>5. ReadsDone(c) = 0 /\ WritesDone(c) = 0
  <2>1. 1 \in Nat \ {0}
    OBVIOUS
  <2>2. Count("read", scenario[c].calls, 1) = 0
    BY <1>3, <2>1, CountFacts
  <2>3. Count("write", scenario[c].program, 1) = 0
    BY <1>3, <2>1, CountFacts
  <2> QED
    BY <1>2, <1>4, <2>2, <2>3 DEF ReadsDone, WritesDone
<1>6. Parts(0) = 0
  BY ChildrenFacts DEF Parts
<1> QED
  BY <1>2, <1>4, <1>5, <1>6 DEF Kept, Conserved, InTime, Written

LEMMA KeepStep == KeepInv /\ [Next]_vars => KeepInv'
<1> SUFFICES ASSUME KeepInv, [Next]_vars, NEW c \in Children PROVE Kept(c)'
  BY HoldStep DEF KeepInv
<1>1. CASE UNCHANGED vars
  BY <1>1, NothingCounted DEF vars, parentVars
<1>2. ASSUME NEW d \in Children, ChildRuns(d) \/ ChildKilled(d) PROVE Kept(c)'
  BY <1>2, ChildStepKept
<1>3. CASE ForkFails
  BY <1>3, NothingCounted DEF ForkFails, parentVars
<1>4. CASE ParentRuns /\ ~ForkFails
  BY <1>4, ReadKept, ReadThrowsKept, OtherCallsKeep, BuildingKept, DestroyingKept DEF ParentRuns
<1> QED
  BY <1>1, <1>2, <1>3, <1>4 DEF Next

LEMMA KeepInvariant == Spec => []KeepInv
BY KeepInit, KeepStep, PTL DEF Spec

\* The parent reads all that it asks for of what a child wrote that ran to its
\* end, message by message, for any sizes of messages and pipes, any short reads
\* and any interleaving: no part of a message is lost or taken for the next one's.
THEOREM AllIsHeard == Spec => []Heard
<1>1. KeepInv => Heard
  <2> SUFFICES ASSUME KeepInv, pc = "end", NEW c \in Constructs, Finished(c), Quiet(c)
               PROVE  LET asked == Times("read", scenario[c].calls)
                          sent  == Times("write", scenario[c].program)
                      IN  got[c] = IF asked <= sent THEN asked ELSE sent
    BY DEF Heard, Finished, Quiet
  <2>1. c \in Children /\ c \notin thrown /\ HoldInv /\ Conserved(c) /\ InTime(c)
    BY DEF KeepInv, Kept, Lost, Constructs
  <2>2. /\ scenario[c].calls \in Seq(Calls) /\ scenario[c].program \in Seq(Steps)
        /\ Len(scenario[c].calls) \in Nat /\ Len(scenario[c].program) \in Nat
        /\ child[c].step \in Nat \ {0}
    BY <2>1, ScenarioFacts, CountsAreNumbers DEF HoldInv
  <2>3. NextIndex(c) = Len(scenario[c].calls) + 1 /\ Taken(c) = 0
    BY DEF NextIndex, Taken
  <2>4. /\ ReadsDone(c) = Times("read", scenario[c].calls)
        /\ WritesDone(c) = Times("write", scenario[c].program)
    <3>1. ReadsDone(c) = Times("read", scenario[c].calls)
      BY <2>2, <2>3, CountFacts DEF ReadsDone
    <3>2. WritesDone(c) = Times("write", scenario[c].program)
      BY <2>2, CountFacts DEF WritesDone, Finished
    <3> QED
      BY <3>1, <3>2
  <2>5. /\ ReadsDone(c) \in Nat /\ WritesDone(c) \in Nat /\ got[c] \in Nat /\ outq[c] \in Nat
    BY <2>1, CountsAreNumbers
  <2>6. got[c] <= WritesDone(c)
    <3>1. Parts(WritesDone(c)) = outq[c] + Parts(got[c])
      <4>1. Parts(WritesDone(c)) \in Nat /\ Parts(got[c]) \in Nat
        BY <2>5, PartsFacts
      <4> QED
        BY <2>1, <2>3, <2>5, <4>1 DEF Conserved, Written, Sending
    <3>2. /\ Parts(WritesDone(c)) \in Nat /\ Parts(got[c]) \in Nat /\ MsgParts \in Nat \ {0}
          /\ WritesDone(c) < got[c] => Parts(WritesDone(c)) + MsgParts <= Parts(got[c])
      BY <2>5, PartsFacts, ChildrenFacts
    <3> QED
      BY <2>5, <3>1, <3>2
  <2> QED
    BY <2>1, <2>4, <2>5, <2>6 DEF InTime
<1> QED
  BY <1>1, KeepInvariant, PTL

=============================================================================
