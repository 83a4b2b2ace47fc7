-------------------------- MODULE HttpServerProofs --------------------------
(***************************************************************************)
(* BaseHTTPServer and its threads, for any number of threads, connections  *)
(* and log calls: what waits in the listening socket is on a ready list,   *)
(* a connection belongs to one thread, and every line of the log is        *)
(* written in one piece through a live logger.                             *)
(***************************************************************************)
EXTENDS HttpServer, TLAPS

Place == {"none", "init", "wait", "asleep", "batch"}
State == {"new", "queued", "open", "broken", "closed"}
LoggerRecord == [live : BOOLEAN, level : Levels, stream : Stream,
                 format : SUBSET Levels, holder : Threads \union {NoThread}]
CallRecord == [pc : {"idle", "called", "writing"}, on : {1, 2}, level : Levels]

TypeOK ==
    /\ mpc \in {"logger", "construct", "listen", "run", "join", "returned"}
    /\ m_threads \in Nat /\ created \in Nat /\ limit \in Limits
    /\ pc \in [Workers -> Place]
    /\ batch \in [Workers -> SUBSET (Conns \union {Listen})]
    /\ ready \in [Workers -> SUBSET (Conns \union {Listen})]
    /\ watchers \in Seq(Workers) /\ backlog \in Seq(Conns)
    /\ conns \in [Conns -> State] /\ owner \in [Conns -> Workers \union {0}]
    /\ fate \in {"running", "terminated"}
    /\ loggers \in Seq(LoggerRecord) /\ global \in {1, 2}
    /\ calls \in [Threads -> CallRecord]
    /\ line \in [Stream -> Threads \union {NoThread}]

\* Nobody logs, and no worker exists, before main() has set its logger.
LoggerFirst ==
    /\ mpc = "logger" => /\ \A w \in Workers : pc[w] = "none"
                         /\ \A t \in Threads : Silent(t)
    /\ mpc = "logger" <=> global = 1

\* There is one logger that has not been destroyed, and whose line its stream
\* is in the middle of holds its mutex.
OneLogger ==
    /\ Len(loggers) = global
    /\ loggers[global].live
    /\ \A t \in Threads : ~Silent(t) => calls[t].on = global
    /\ \A t \in Threads : calls[t].pc = "writing" =>
          loggers[global].holder = t /\ line[loggers[global].stream] = t

\* A connection is in the queue once, until a worker has accepted it; only
\* that worker is ever told of it.
Confined ==
    /\ \A i, j \in DOMAIN backlog : backlog[i] = backlog[j] => i = j
    /\ \A i \in DOMAIN backlog : conns[backlog[i]] = "queued"
    /\ \A c \in Conns : conns[c] \in {"new", "queued"} <=> owner[c] = 0
    /\ \A w \in Workers : \A c \in Conns \intersect (ready[w] \union batch[w]) :
          owner[c] = w

IInv == TypeOK /\ LoggerFirst /\ OneLogger /\ Confined /\ NoLostWakeup

Fd == Conns \union {Listen}

-----------------------------------------------------------------------------
(* Facts about sequences and about the model's operators *)

LEMMA AppendFacts ==
    ASSUME NEW T, NEW s \in Seq(T), NEW x \in T
    PROVE  /\ Append(s, x) \in Seq(T) /\ Append(s, x) # <<>>
           /\ Len(Append(s, x)) = Len(s) + 1 /\ DOMAIN Append(s, x) = 1 .. Len(s) + 1
           /\ \A i \in DOMAIN s : i \in 1 .. Len(s) /\ Append(s, x)[i] = s[i]
           /\ Append(s, x)[Len(s) + 1] = x
  OBVIOUS

LEMMA TailFacts ==
    ASSUME NEW T, NEW s \in Seq(T), s # <<>>
    PROVE  /\ Head(s) \in T /\ Head(s) = s[1] /\ 1 \in DOMAIN s
           /\ Tail(s) \in Seq(T)
           /\ \A i \in DOMAIN Tail(s) :
                 i + 1 \in DOMAIN s /\ i + 1 # 1 /\ Tail(s)[i] = s[i + 1]
  OBVIOUS

\* The first epoll that watches the listening socket is told of a connection.
LEMMA FirstNotified ==
    ASSUME watchers \in Seq(Workers), watchers # <<>>
    PROVE  1 \in DOMAIN watchers /\ watchers[1] \in Notified
<1>1. 1 \in DOMAIN watchers /\ \A j \in 1 .. 1 - 1 : ~Sleeps(watchers[j])
  OBVIOUS
<1> QED
  BY <1>1 DEF Notified

LEMMA LevelFacts ==
    /\ Levels = 0..7
    /\ Level.ALL = 0 /\ Level.TRACE = 1 /\ Level.DEBUG = 2 /\ Level.INFO = 3
    /\ Level.WARN = 4 /\ Level.OFF = 7
  BY DEF Levels, Level

LEMMA NewLoggerFacts ==
    ASSUME NEW stream \in Stream, NEW level \in Levels
    PROVE  /\ NewLogger(stream, level, {}) \in LoggerRecord
           /\ NewLogger(stream, level, {}).live
           /\ NewLogger(stream, level, {}).holder = NoThread
<1> DEFINE f == IF stream = "file" THEN {} ELSE Filled({})
<1>1. f \in SUBSET Levels
  BY LevelFacts DEF Filled
<1>2. NewLogger(stream, level, {}) =
         [live |-> TRUE, level |-> level, stream |-> stream, format |-> f,
          holder |-> NoThread]
  BY DEF NewLogger
<1> HIDE DEF f
<1>3. TRUE \in BOOLEAN /\ NoThread \in Threads \union {NoThread}
  OBVIOUS
<1>4. [live |-> TRUE, level |-> level, stream |-> stream, format |-> f,
       holder |-> NoThread] \in LoggerRecord
  BY <1>1, <1>3 DEF LoggerRecord
<1>5. NewLogger(stream, level, {}).live
      /\ NewLogger(stream, level, {}).holder = NoThread
  BY DEF NewLogger
<1> QED
  BY <1>2, <1>4, <1>5

-----------------------------------------------------------------------------
(* The log *)

LogTypes == /\ loggers \in Seq(LoggerRecord) /\ global \in {1, 2}
            /\ calls \in [Threads -> CallRecord]
            /\ line \in [Stream -> Threads \union {NoThread}]
LogInv == LogTypes /\ OneLogger

\* What a step of the server may do to the log.
LogMove ==
    \/ UNCHANGED logVars
    \/ mpc # "logger" /\ \E t \in Threads, level \in Levels : Call(t, level)
    \/ \E t \in Threads : Log(t)
    \/ /\ mpc = "logger" /\ mpc' = "construct"
       /\ \E level \in Levels : SetGlobalLogger("stderr", level, {})

LEMMA LogMoves ==
    ASSUME TypeOK, LoggerFirst, [Next]_vars
    PROVE  LogMove /\ (mpc = "logger" => mpc' = "logger" \/ ~(UNCHANGED logVars))
                   /\ (mpc # "logger" => mpc' # "logger")
                   /\ (mpc = "logger" => UNCHANGED pc)
<1>1. LogLevels \subseteq Levels /\ Threads = Workers \union {Main}
  BY WorkersAssumption
<1>2. /\ Level.TRACE \in Levels /\ Level.DEBUG \in Levels /\ Level.INFO \in Levels
      /\ Level.WARN \in Levels
  BY LevelFacts
<1>3. \A w \in Workers : mpc = "logger" => pc[w] = "none"
  BY DEF LoggerFirst
<1>4. CASE SetLogger
  <2>1. PICK level \in LogLevels : SetGlobalLogger("stderr", level, {})
    BY <1>4 DEF SetLogger
  <2>2. level \in Levels
    BY <1>1
  <2>3. mpc = "logger" /\ mpc' = "construct" /\ UNCHANGED pc
    BY <1>4 DEF SetLogger, SetsUp, workerVars
  <2>4. LogMove
    BY <2>1, <2>2, <2>3 DEF LogMove
  <2>5. ~(UNCHANGED logVars)
    BY <2>1 DEF SetGlobalLogger, logVars, TypeOK
  <2> QED
    BY <2>3, <2>4, <2>5
<1>5. CASE Construct \/ OpenAndListen \/ CreateThread
  BY <1>1, <1>2, <1>5 DEF Construct, OpenAndListen, CreateThread, LogMove
<1>6. CASE Join
  BY <1>6 DEF Join, LogMove
<1>7. CASE \E c \in Conns : Arrive(c) \/ Activity(c)
  BY <1>7 DEF Arrive, Activity, serverVars, workerVars, LogMove
<1>8. ASSUME NEW w \in Workers,
             \/ Watch(w) \/ EpollWait(w) \/ Accept(w) \/ AcceptFails(w) \/ TimesOut(w)
             \/ \E c \in Conns : Handle(w, c) \/ HandleThrows(w, c)
      PROVE  LogMove /\ mpc' = mpc /\ mpc # "logger"
  <2>1. (\E level \in Levels : Call(w, level)) /\ mpc' = mpc /\ pc[w] # "none"
    BY <1>2, <1>8 DEF Watch, EpollWait, Accept, AcceptFails, TimesOut, Handle,
       HandleThrows, Takes, Sleeps, serverVars
  <2> QED
    BY <1>1, <1>3, <2>1 DEF LogMove
<1>9. ASSUME NEW w \in Workers,
             FallAsleep(w) \/ WakeUp(w) \/ BatchDone(w) \/ WatchFails(w)
      PROVE  LogMove /\ mpc' = mpc /\ mpc # "logger"
  BY <1>3, <1>9 DEF FallAsleep, WakeUp, BatchDone, WatchFails, serverVars, LogMove
<1>10. CASE \E t \in Threads : Writes(t)
  BY <1>10 DEF Writes, serverVars, workerVars, LogMove
<1>11. CASE UNCHANGED vars
  BY <1>11 DEF vars, serverVars, workerVars, LogMove
<1> QED
  BY <1>4, <1>5, <1>6, <1>7, <1>8, <1>9, <1>10, <1>11 DEF Next, MainStep, WorkerStep

LEMMA CallStep ==
    ASSUME LogInv, NEW t \in Threads, NEW level \in Levels, Call(t, level)
    PROVE  LogInv'
<1> USE DEF LogInv
<1> DEFINE r == [pc |-> "called", on |-> global, level |-> level]
<1>1. r \in CallRecord /\ r.pc = "called" /\ r.on = global
  BY DEF LogTypes, CallRecord
<1>2. calls' = [calls EXCEPT ![t] = r] /\ UNCHANGED <<global, loggers, line>>
  BY DEF Call
<1> HIDE DEF r
<1>3. calls'[t] = r /\ \A u \in Threads \ {t} : calls'[u] = calls[u]
  BY <1>2 DEF LogTypes
<1>4. LogTypes'
  BY <1>1, <1>2 DEF LogTypes
<1> QED
  BY <1>1, <1>2, <1>3, <1>4 DEF OneLogger, Silent

LEMMA QuietFacts == Quiet \in CallRecord /\ Quiet.pc = "idle"
  BY LevelFacts DEF Quiet, CallRecord

\* The threads that are in a call are on the one logger there is.
LEMMA OnFacts ==
    ASSUME LogInv, NEW t \in Threads, ~Silent(t)
    PROVE  /\ calls[t].on = global /\ On(t) = loggers[global]
           /\ global \in DOMAIN loggers /\ loggers[global] \in LoggerRecord
  BY DEF LogInv, LogTypes, OneLogger, On

LEMMA LogStep ==
    ASSUME LogInv, NEW t \in Threads, Log(t)
    PROVE  LogInv'
<1> USE DEF LogInv
<1>1. t # NoThread
  BY NoThreadAssumption
<1>2. CASE Filtered(t)
  <2>1. calls'[t] = Quiet /\ \A u \in Threads \ {t} : calls'[u] = calls[u]
    BY <1>2 DEF Filtered, LogTypes
  <2>2. LogTypes'
    BY <1>2, QuietFacts DEF Filtered, LogTypes
  <2> QED
    BY <1>2, <2>1, <2>2, QuietFacts DEF Filtered, OneLogger, Silent
<1>3. CASE BeginLine(t)
  <2> DEFINE g == loggers[global]
             h == [g EXCEPT !.holder = t]
             r == [calls[t] EXCEPT !.pc = "writing"]
  <2>1. /\ calls[t].on = global /\ On(t) = g /\ global \in DOMAIN loggers
        /\ g \in LoggerRecord
    BY <1>3, OnFacts DEF BeginLine, Silent
  <2>2. g.holder = NoThread
    BY <1>3, <2>1 DEF BeginLine, Lock
  <2>3. /\ loggers' = [loggers EXCEPT ![global] = h]
        /\ line' = [line EXCEPT ![g.stream] = t]
        /\ calls' = [calls EXCEPT ![t] = r] /\ global' = global
    BY <1>3, <2>1 DEF BeginLine
  <2>4. h \in LoggerRecord /\ h.live = g.live /\ h.holder = t /\ h.stream = g.stream
        /\ g.stream \in Stream
    BY <2>1 DEF LoggerRecord
  <2>5. r \in CallRecord /\ r.pc = "writing" /\ r.on = calls[t].on
    BY DEF LogTypes, CallRecord
  <2> HIDE DEF h, r
  <2>6. calls'[t] = r /\ \A u \in Threads \ {t} : calls'[u] = calls[u]
    BY <2>3 DEF LogTypes
  <2>7. loggers'[global] = h /\ Len(loggers') = Len(loggers)
        /\ loggers' \in Seq(LoggerRecord)
    BY <2>1, <2>3, <2>4 DEF LogTypes
  <2>8. LogTypes' /\ line'[g.stream] = t
    BY <2>3, <2>4, <2>5, <2>7 DEF LogTypes
  <2>9. \A u \in Threads : calls[u].pc # "writing"
    BY <1>1, <2>2, NoThreadAssumption DEF OneLogger
  <2> QED
    <3>1. Len(loggers') = global' /\ loggers'[global'].live
      BY <2>1, <2>3, <2>4, <2>7 DEF OneLogger
    <3>2. \A u \in Threads : ~Silent(u)' => calls'[u].on = global'
      BY <2>1, <2>3, <2>5, <2>6 DEF OneLogger, Silent
    <3>3. \A u \in Threads : calls'[u].pc = "writing" => u = t
      BY <2>6, <2>9
    <3>4. loggers'[global'].holder = t /\ line'[loggers'[global'].stream] = t
      BY <2>3, <2>4, <2>7, <2>8
    <3> QED
      BY <2>8, <3>1, <3>2, <3>3, <3>4 DEF OneLogger
<1>4. CASE EndLine(t)
  <2> DEFINE g == loggers[global]
             h == [g EXCEPT !.holder = NoThread]
  <2>1. /\ calls[t].on = global /\ On(t) = g /\ global \in DOMAIN loggers
        /\ g \in LoggerRecord
    BY <1>4, OnFacts DEF EndLine, Silent
  <2>2. g.holder = t
    BY <1>4 DEF EndLine, OneLogger
  <2>3. /\ loggers' = [loggers EXCEPT ![global] = h]
        /\ line' = [line EXCEPT ![g.stream] = NoThread]
        /\ calls' = [calls EXCEPT ![t] = Quiet] /\ global' = global
    BY <1>4, <2>1 DEF EndLine
  <2>4. h \in LoggerRecord /\ h.live = g.live /\ h.stream = g.stream
        /\ g.stream \in Stream
    BY <2>1 DEF LoggerRecord
  <2> HIDE DEF h
  <2>5. calls'[t] = Quiet /\ \A u \in Threads \ {t} : calls'[u] = calls[u]
    BY <2>3 DEF LogTypes
  <2>6. loggers'[global] = h /\ Len(loggers') = Len(loggers)
        /\ loggers' \in Seq(LoggerRecord)
    BY <2>1, <2>3, <2>4 DEF LogTypes
  <2>7. LogTypes'
    BY <2>3, <2>4, <2>6, QuietFacts DEF LogTypes
  <2>8. \A u \in Threads \ {t} : calls[u].pc # "writing"
    BY <2>2 DEF OneLogger
  <2> QED
    BY <2>3, <2>4, <2>5, <2>6, <2>7, <2>8, QuietFacts DEF OneLogger, Silent
<1> QED
  BY <1>2, <1>3, <1>4 DEF Log

\* set_global_logger, when nobody logs.
LEMMA SetGlobalStep ==
    ASSUME LogInv, \A t \in Threads : Silent(t), NEW level \in Levels,
           SetGlobalLogger("stderr", level, {})
    PROVE  LogInv' /\ global' = 2
<1> USE DEF LogInv
<1> DEFINE n == NewLogger("stderr", level, {})
           g == [loggers[1] EXCEPT !.live = FALSE]
           old == [loggers EXCEPT ![1] = g]
<1>1. global = 1 /\ global' = 2 /\ UNCHANGED <<calls, line>> /\ loggers' = Append(old, n)
  <2>1. global = 1
    BY DEF SetGlobalLogger, LogTypes
  <2>2. [loggers EXCEPT ![global].live = FALSE] = old
    BY <2>1
  <2> QED
    BY <2>1, <2>2 DEF SetGlobalLogger
<1>2. n \in LoggerRecord /\ n.live /\ n.holder = NoThread
  BY NewLoggerFacts DEF Stream
<1>3. Len(loggers) = 1 /\ loggers[1] \in LoggerRecord
  BY <1>1 DEF LogTypes, OneLogger
<1>4. g \in LoggerRecord
  BY <1>3 DEF LoggerRecord
<1> HIDE DEF n, g
<1>5. old \in Seq(LoggerRecord) /\ Len(old) = 1
  <2>1. loggers \in Seq(LoggerRecord) /\ 1 \in DOMAIN loggers
    BY <1>3 DEF LogTypes
  <2> QED
    BY <1>3, <1>4, <2>1
<1> HIDE DEF old
<1>6. loggers' \in Seq(LoggerRecord) /\ Len(loggers') = 2 /\ loggers'[2] = n
  BY <1>1, <1>2, <1>5
<1>7. LogTypes'
  BY <1>1, <1>6 DEF LogTypes
<1> QED
  BY <1>1, <1>2, <1>6, <1>7 DEF OneLogger, Silent

LEMMA LoggingStep ==
    ASSUME TypeOK, LoggerFirst, OneLogger, [Next]_vars
    PROVE  LogTypes' /\ LoggerFirst' /\ OneLogger'
<1>1. LogInv
  BY DEF LogInv, LogTypes, TypeOK
<1>2. LogMove /\ (mpc = "logger" => mpc' = "logger" \/ ~(UNCHANGED logVars))
              /\ (mpc # "logger" => mpc' # "logger")
              /\ (mpc = "logger" => UNCHANGED pc)
  BY LogMoves
<1>3. CASE UNCHANGED logVars
  BY <1>1, <1>2, <1>3
  DEF logVars, LogInv, LogTypes, OneLogger, LoggerFirst, Silent, On
<1>4. CASE mpc # "logger" /\ \E t \in Threads, level \in Levels : Call(t, level)
  <2>1. LogInv' /\ global' = global
    BY <1>1, <1>4, CallStep DEF Call
  <2> QED
    BY <1>2, <1>4, <2>1 DEF LogInv, LoggerFirst
<1>5. CASE \E t \in Threads : Log(t)
  <2>1. PICK t \in Threads : Log(t)
    BY <1>5
  <2>2. LogInv' /\ global' = global /\ ~Silent(t)
    BY <1>1, <2>1, LogStep DEF Log, Filtered, BeginLine, EndLine, Silent
  <2>3. mpc # "logger"
    BY <2>2 DEF LoggerFirst
  <2> QED
    BY <1>2, <2>2, <2>3 DEF LogInv, LoggerFirst
<1>6. CASE /\ mpc = "logger" /\ mpc' = "construct"
           /\ \E level \in Levels : SetGlobalLogger("stderr", level, {})
  <2>1. LogInv' /\ global' = 2
    BY <1>1, <1>6, SetGlobalStep DEF LoggerFirst
  <2> QED
    BY <1>6, <2>1 DEF LogInv, LoggerFirst
<1> QED
  BY <1>2, <1>3, <1>4, <1>5, <1>6 DEF LogMove

-----------------------------------------------------------------------------
(* The server's own variables keep their types *)

ServerTypes ==
    /\ mpc \in {"logger", "construct", "listen", "run", "join", "returned"}
    /\ m_threads \in Nat /\ created \in Nat /\ limit \in Limits
    /\ pc \in [Workers -> Place]
    /\ batch \in [Workers -> SUBSET Fd] /\ ready \in [Workers -> SUBSET Fd]
    /\ watchers \in Seq(Workers) /\ backlog \in Seq(Conns)
    /\ conns \in [Conns -> State] /\ owner \in [Conns -> Workers \union {0}]
    /\ fate \in {"running", "terminated"}

LEMMA ServerTypesStep ==
    ASSUME ServerTypes, [Next]_vars
    PROVE  ServerTypes'
<1>1. CASE MainStep
  <2>1. m_threads' \in Nat /\ limit' \in Limits
    BY <1>1, WorkersAssumption DEF ServerTypes, MainStep, SetLogger, Construct,
       OpenAndListen, CreateThread, Join, NumThreads
  <2>2. pc' \in [Workers -> Place] /\ created' \in Nat
    BY <1>1 DEF ServerTypes, MainStep, SetLogger, Construct, OpenAndListen,
       CreateThread, Join, SetsUp, workerVars, Place
  <2>3. mpc' \in {"logger", "construct", "listen", "run", "join", "returned"}
    BY <1>1 DEF ServerTypes, MainStep, SetLogger, Construct, OpenAndListen,
       CreateThread, Join
  <2>4. UNCHANGED <<batch, ready, connVars, fate>>
    BY <1>1 DEF MainStep, SetLogger, Construct, OpenAndListen, CreateThread, Join,
       SetsUp, workerVars
  <2> QED
    BY <2>1, <2>2, <2>3, <2>4 DEF ServerTypes, connVars
<1>2. ASSUME NEW c \in Conns, Arrive(c)
      PROVE  ServerTypes'
  <2>1. backlog' \in Seq(Conns) /\ conns' \in [Conns -> State]
    BY <1>2, AppendFacts DEF ServerTypes, Arrive, State
  <2>2. ready' \in [Workers -> SUBSET Fd]
    BY <1>2 DEF ServerTypes, Arrive, Fd
  <2> QED
    BY <1>2, <2>1, <2>2 DEF ServerTypes, Arrive, serverVars, workerVars
<1>3. ASSUME NEW c \in Conns, Activity(c)
      PROVE  ServerTypes'
  <2>1. ready' \in [Workers -> SUBSET Fd]
    BY <1>3 DEF ServerTypes, Activity, Fd
  <2> QED
    BY <1>3, <2>1 DEF ServerTypes, Activity, serverVars, workerVars, connVars
<1>4. ASSUME NEW w \in Workers, Watch(w) \/ EpollWait(w) \/ FallAsleep(w) \/ WakeUp(w)
                                \/ BatchDone(w) \/ TimesOut(w) \/ WatchFails(w)
      PROVE  ServerTypes'
  <2>1. pc' \in [Workers -> Place]
    BY <1>4 DEF ServerTypes, Watch, EpollWait, FallAsleep, WakeUp, BatchDone, TimesOut,
       WatchFails, workerVars, Place
  <2>2. ready' \in [Workers -> SUBSET Fd]
    BY <1>4 DEF ServerTypes, Watch, EpollWait, FallAsleep, WakeUp, BatchDone, TimesOut,
       WatchFails, StillReady, Fd
  <2>3. batch' \in [Workers -> SUBSET Fd]
    BY <1>4 DEF ServerTypes, Watch, EpollWait, FallAsleep, WakeUp, BatchDone, TimesOut,
       WatchFails, workerVars
  <2>4. watchers' \in Seq(Workers)
    <3>1. CASE Watch(w)
      BY <3>1, AppendFacts DEF ServerTypes, Watch
    <3> QED
      BY <1>4, <3>1 DEF ServerTypes, EpollWait, FallAsleep, WakeUp, BatchDone, TimesOut,
         WatchFails, connVars
  <2>5. /\ UNCHANGED <<serverVars, backlog, conns, owner>>
        /\ fate' \in {"running", "terminated"}
    BY <1>4 DEF ServerTypes, Watch, EpollWait, FallAsleep, WakeUp, BatchDone, TimesOut,
       WatchFails, connVars
  <2> QED
    BY <2>1, <2>2, <2>3, <2>4, <2>5 DEF ServerTypes, serverVars
<1>5. ASSUME NEW w \in Workers, Accept(w)
      PROVE  ServerTypes'
  <2>1. Head(backlog) \in Conns /\ backlog' \in Seq(Conns)
    BY <1>5, TailFacts DEF ServerTypes, Accept
  <2>2. batch' \in [Workers -> SUBSET Fd] /\ UNCHANGED <<serverVars, pc, watchers, fate>>
    BY <1>5 DEF ServerTypes, Accept, Takes
  <2>3. ready' \in [Workers -> SUBSET Fd]
    BY <1>5, <2>1 DEF ServerTypes, Accept, Fd
  <2>4. conns' \in [Conns -> State] /\ owner' \in [Conns -> Workers \union {0}]
    BY <1>5 DEF ServerTypes, Accept, State
  <2> QED
    BY <2>1, <2>2, <2>3, <2>4 DEF ServerTypes, serverVars
<1>6. ASSUME NEW w \in Workers,
             AcceptFails(w) \/ \E c \in Conns : Handle(w, c) \/ HandleThrows(w, c)
      PROVE  ServerTypes'
  <2>1. batch' \in [Workers -> SUBSET Fd]
        /\ UNCHANGED <<serverVars, pc, watchers, backlog, owner, fate>>
    BY <1>6 DEF ServerTypes, AcceptFails, Handle, HandleThrows, Takes
  <2>2. ready' \in [Workers -> SUBSET Fd]
    BY <1>6 DEF ServerTypes, AcceptFails, Handle, HandleThrows
  <2>3. conns' \in [Conns -> State]
    BY <1>6 DEF ServerTypes, AcceptFails, Handle, HandleThrows, State
  <2> QED
    BY <2>1, <2>2, <2>3 DEF ServerTypes, serverVars
<1>7. CASE UNCHANGED vars \/ \E t \in Threads : Writes(t)
  BY <1>7 DEF ServerTypes, vars, Writes, serverVars, workerVars, connVars
<1>8. CASE \E w \in Workers : WorkerStep(w) \/ TimesOut(w) \/ WatchFails(w)
  <2>1. PICK w \in Workers : WorkerStep(w) \/ TimesOut(w) \/ WatchFails(w)
    BY <1>8
  <2> QED
    BY <1>4, <1>5, <1>6, <2>1 DEF WorkerStep
<1> QED
  BY <1>1, <1>2, <1>3, <1>7, <1>8 DEF Next

LEMMA TypeStep ==
    ASSUME TypeOK, LoggerFirst, OneLogger, [Next]_vars
    PROVE  TypeOK'
<1>1. ServerTypes' /\ LogTypes'
  BY ServerTypesStep, LoggingStep DEF TypeOK, ServerTypes, Fd
<1> QED
  BY <1>1 DEF TypeOK, ServerTypes, LogTypes, Fd

-----------------------------------------------------------------------------
(* What each step does to the ready lists and the connections *)

\* The ready list of the other workers is left alone.
OnlyOwn(w) == \A v \in Workers \ {w} : ready'[v] = ready[v] /\ batch'[v] = batch[v]
                                       /\ pc'[v] = pc[v]

LEMMA OwnEffect ==
    ASSUME ServerTypes, NEW w \in Workers, WorkerStep(w) \/ TimesOut(w) \/ WatchFails(w)
    PROVE  OnlyOwn(w)
  BY DEF OnlyOwn, ServerTypes, WorkerStep, Watch, EpollWait, FallAsleep, WakeUp, Accept,
     AcceptFails, BatchDone, Handle, HandleThrows, TimesOut, WatchFails, Takes, workerVars

\* The steps of main() and of the log touch no epoll and no connection.
LEMMA Elsewhere ==
    ASSUME MainStep \/ (\E t \in Threads : Writes(t)) \/ UNCHANGED vars
    PROVE  UNCHANGED <<batch, ready, connVars>>
  BY DEF MainStep, SetLogger, Construct, OpenAndListen, CreateThread, Join, SetsUp, Writes,
     vars, workerVars

-----------------------------------------------------------------------------
(* No wake-up is lost *)

LEMMA WakeupStep ==
    ASSUME ServerTypes, NoLostWakeup, [Next]_vars
    PROVE  NoLostWakeup'
<1>1. SUFFICES ASSUME backlog' # <<>>, watchers' # <<>>
               PROVE  \E i \in DOMAIN watchers' : Listen \in ready'[watchers'[i]]
  BY DEF NoLostWakeup
<1>2. \A i \in DOMAIN watchers : watchers[i] \in Workers
  BY DEF ServerTypes
<1>3. CASE MainStep \/ (\E t \in Threads : Writes(t)) \/ UNCHANGED vars
  BY <1>1, <1>3, Elsewhere DEF NoLostWakeup, connVars
<1>4. CASE \E c \in Conns : Arrive(c)
  <2>1. watchers' = watchers /\ 1 \in DOMAIN watchers /\ watchers[1] \in Notified
    BY <1>1, <1>4, FirstNotified DEF Arrive, ServerTypes
  <2> QED
    BY <1>2, <1>4, <2>1 DEF Arrive
<1>5. CASE \E c \in Conns : Activity(c)
  <2>1. \A w \in Workers : ready[w] \subseteq ready'[w]
    BY <1>5 DEF ServerTypes, Activity
  <2> QED
    BY <1>1, <1>2, <1>5, <2>1 DEF NoLostWakeup, Activity, connVars
<1>6. ASSUME NEW w \in Workers, Watch(w)
      PROVE  \E i \in DOMAIN watchers' : Listen \in ready'[watchers'[i]]
  <2>1. Len(watchers) + 1 \in DOMAIN watchers' /\ watchers'[Len(watchers) + 1] = w
    BY <1>6, AppendFacts DEF Watch, ServerTypes
  <2>2. Listen \in ready'[w]
    BY <1>1, <1>6 DEF Watch, ServerTypes
  <2> QED
    BY <2>1, <2>2
<1>7. ASSUME NEW w \in Workers, WorkerStep(w) \/ TimesOut(w) \/ WatchFails(w), ~Watch(w)
      PROVE  \E i \in DOMAIN watchers' : Listen \in ready'[watchers'[i]]
  <2>1. watchers' = watchers /\ (backlog' # <<>> => backlog # <<>>)
    BY <1>7 DEF WorkerStep, EpollWait, FallAsleep, WakeUp, Accept, AcceptFails, BatchDone,
       Handle, HandleThrows, TimesOut, WatchFails, Takes, connVars
  <2>2. backlog # <<>> => (Listen \in ready[w] => Listen \in ready'[w])
    <3>1. CASE EpollWait(w) \/ FallAsleep(w)
      BY <3>1 DEF ServerTypes, EpollWait, FallAsleep, StillReady, Pollable
    <3>2. CASE \E c \in Conns : Handle(w, c)
      BY <3>2, WorkersAssumption DEF ServerTypes, Handle
    <3>3. CASE Accept(w)
      BY <3>3 DEF ServerTypes, Accept
    <3>4. CASE \/ WakeUp(w) \/ AcceptFails(w) \/ BatchDone(w) \/ TimesOut(w)
               \/ WatchFails(w) \/ \E c \in Conns : HandleThrows(w, c)
      BY <3>4 DEF WakeUp, AcceptFails, BatchDone, HandleThrows, TimesOut, WatchFails
    <3> QED
      BY <1>7, <3>1, <3>2, <3>3, <3>4 DEF WorkerStep
  <2>3. \A v \in Workers \ {w} : ready'[v] = ready[v]
    BY <1>7, OwnEffect DEF OnlyOwn
  <2> QED
    BY <1>1, <1>2, <2>1, <2>2, <2>3 DEF NoLostWakeup
<1>8. CASE \E w \in Workers : WorkerStep(w) \/ TimesOut(w) \/ WatchFails(w)
  BY <1>6, <1>7, <1>8
<1> QED
  BY <1>3, <1>4, <1>5, <1>8 DEF Next

-----------------------------------------------------------------------------
(* A connection belongs to one worker *)

LEMMA ConfinedStep ==
    ASSUME ServerTypes, Confined, [Next]_vars
    PROVE  Confined'
<1> DEFINE Told(w, c) == c \in ready[w] \/ c \in batch[w]
           Once == \A i, j \in DOMAIN backlog : backlog[i] = backlog[j] => i = j
           Queued == \A i \in DOMAIN backlog : conns[backlog[i]] = "queued"
           Unowned == \A c \in Conns : conns[c] \in {"new", "queued"} <=> owner[c] = 0
           Own(w) == \A c \in Conns : Told(w, c) => owner[c] = w
<1>1. Once /\ Queued /\ Unowned /\ \A w \in Workers : Own(w)
  BY DEF Confined
<1>2. SUFFICES (Once /\ Queued /\ Unowned /\ \A w \in Workers : Own(w))'
  BY DEF Confined
<1>3. 0 \notin Workers
  BY WorkersAssumption DEF Workers
<1>4. \A i \in DOMAIN backlog : backlog[i] \in Conns
  BY DEF ServerTypes
<1>5. CASE MainStep \/ (\E t \in Threads : Writes(t)) \/ UNCHANGED vars
  BY <1>1, <1>5, Elsewhere DEF connVars
<1>6. CASE \E c \in Conns : Arrive(c)
  <2>1. PICK c \in Conns : Arrive(c)
    BY <1>6
  <2>2. /\ conns[c] = "new" /\ backlog' = Append(backlog, c) /\ owner' = owner
        /\ conns' = [conns EXCEPT ![c] = "queued"] /\ batch' = batch
    BY <2>1 DEF Arrive, workerVars
  <2>3. \A w \in Workers, d \in Conns : Told(w, d)' => Told(w, d)
    BY <2>1, WorkersAssumption DEF Arrive, workerVars
  <2>4. \A i \in DOMAIN backlog : backlog[i] # c
    BY <1>1, <2>2
  <2>5. Once' /\ Queued'
    BY <1>1, <1>4, <2>2, <2>4, AppendFacts DEF ServerTypes
  <2>6. Unowned'
    BY <1>1, <2>2 DEF ServerTypes
  <2> QED
    BY <1>1, <2>2, <2>3, <2>5, <2>6
<1>7. CASE \E c \in Conns : Activity(c)
  <2>1. PICK c \in Conns : Activity(c)
    BY <1>7
  <2>2. \A w \in Workers, d \in Conns : Told(w, d)' => Told(w, d) \/ (owner[d] = w)
    BY <2>1 DEF Activity, workerVars, ServerTypes
  <2>3. UNCHANGED connVars
    BY <2>1 DEF Activity
  <2> QED
    BY <1>1, <2>2, <2>3 DEF connVars
<1>8. ASSUME NEW w \in Workers, Accept(w)
      PROVE  (Once /\ Queued /\ Unowned /\ \A v \in Workers : Own(v))'
  <2> DEFINE h == Head(backlog)
  <2>1. /\ h \in Conns /\ h = backlog[1] /\ 1 \in DOMAIN backlog
        /\ backlog' = Tail(backlog)
        /\ \A i \in DOMAIN backlog' :
              i + 1 \in DOMAIN backlog /\ i + 1 # 1 /\ backlog'[i] = backlog[i + 1]
    BY <1>8, TailFacts DEF Accept, ServerTypes
  <2> HIDE DEF h
  <2>2. /\ conns' = [conns EXCEPT ![h] = "open"] /\ owner' = [owner EXCEPT ![h] = w]
        /\ ready' = [ready EXCEPT ![w] = @ \union {h}]
        /\ batch' = [batch EXCEPT ![w] = @ \ {Listen}]
    BY <1>8 DEF Accept, Takes, h
  <2>3. conns[h] = "queued" /\ owner[h] = 0
    BY <1>1, <2>1
  <2>4. \A i \in DOMAIN backlog' : backlog'[i] # h
    BY <1>1, <2>1
  <2>5. Queued'
    BY <1>1, <1>4, <2>1, <2>2, <2>4 DEF ServerTypes
  <2>6. Once'
    <3>1. DOMAIN backlog' \subseteq Nat
      BY <2>1 DEF ServerTypes
    <3>2. SUFFICES ASSUME NEW i \in DOMAIN backlog', NEW j \in DOMAIN backlog',
                          backlog'[i] = backlog'[j]
                   PROVE  i = j
      OBVIOUS
    <3>3. i + 1 = j + 1
      BY <1>1, <2>1, <3>2
    <3> QED
      BY <3>1, <3>3
  <2>7. Unowned'
    BY <1>1, <1>3, <2>1, <2>2 DEF ServerTypes
  <2>8. \A v \in Workers, d \in Conns : Told(v, d)' => Told(v, d) \/ (v = w /\ d = h)
    BY <2>2 DEF ServerTypes
  <2>9. \A v \in Workers, d \in Conns : Told(v, d) => d # h
    BY <1>1, <1>3, <2>3
  <2>10. \A v \in Workers : Own(v)'
    BY <1>1, <2>1, <2>2, <2>8, <2>9 DEF ServerTypes
  <2> QED
    BY <2>5, <2>6, <2>7, <2>10
<1>9. ASSUME NEW w \in Workers, NEW c \in Conns, Handle(w, c) \/ HandleThrows(w, c)
      PROVE  (Once /\ Queued /\ Unowned /\ \A v \in Workers : Own(v))'
  <2>1. UNCHANGED <<backlog, owner>>
        /\ conns' \in {conns, [conns EXCEPT ![c] = "closed"], [conns EXCEPT ![c] = "broken"]}
    BY <1>9 DEF Handle, HandleThrows
  <2>2. c \in batch[w]
    BY <1>9 DEF Handle, HandleThrows, Takes
  <2>3. conns[c] \notin {"new", "queued"}
    BY <1>1, <1>3, <2>2
  <2>4. \A v \in Workers, d \in Conns : Told(v, d)' => Told(v, d)
    <3>1. /\ batch' \in {[batch EXCEPT ![w] = @ \ {c}], [batch EXCEPT ![w] = {}]}
          /\ ready' \in {ready, [ready EXCEPT ![w] = @ \ {c}]}
      BY <1>9 DEF Handle, HandleThrows, Takes
    <3>2. \A v \in Workers : batch'[v] \subseteq batch[v] /\ ready'[v] \subseteq ready[v]
      BY <3>1 DEF ServerTypes
    <3> QED
      BY <3>2
  <2>5. Queued' /\ Unowned'
    BY <1>1, <1>4, <2>1, <2>3 DEF ServerTypes
  <2> QED
    BY <1>1, <2>1, <2>4, <2>5
<1>10. ASSUME NEW w \in Workers,
              \/ Watch(w) \/ EpollWait(w) \/ FallAsleep(w) \/ WakeUp(w) \/ AcceptFails(w)
              \/ BatchDone(w) \/ TimesOut(w) \/ WatchFails(w)
      PROVE  (Once /\ Queued /\ Unowned /\ \A v \in Workers : Own(v))'
  <2>1. UNCHANGED <<backlog, owner, conns>>
    BY <1>10 DEF Watch, EpollWait, FallAsleep, WakeUp, AcceptFails, BatchDone, TimesOut,
       WatchFails, Takes, connVars
  <2>2. \A v \in Workers, d \in Conns : Told(v, d)' => Told(v, d)
    BY <1>10, WorkersAssumption DEF ServerTypes, Watch, EpollWait, FallAsleep, WakeUp,
       AcceptFails, BatchDone, TimesOut, WatchFails, Takes, StillReady, workerVars
  <2> QED
    BY <1>1, <2>1, <2>2
<1>11. CASE \E w \in Workers : WorkerStep(w) \/ TimesOut(w) \/ WatchFails(w)
  BY <1>8, <1>9, <1>10, <1>11 DEF WorkerStep
<1> QED
  BY <1>5, <1>6, <1>7, <1>11 DEF Next

-----------------------------------------------------------------------------
(* The theorems *)

LEMMA InitIInv == Init => IInv
<1> SUFFICES ASSUME Init PROVE IInv
  OBVIOUS
<1> DEFINE n == NewLogger("stdout", Level.ALL, {})
<1>1. n \in LoggerRecord /\ n.live
  BY NewLoggerFacts, LevelFacts DEF Stream
<1>2. loggers = <<n>> /\ global = 1
  BY DEF Init, LogInit
<1> HIDE DEF n
<1>3. LogTypes
  BY <1>1, <1>2, QuietFacts DEF Init, LogInit, LogTypes
<1>4. ServerTypes
  BY DEF Init, ServerTypes, Place, State
<1>5. LoggerFirst /\ OneLogger
  BY <1>1, <1>2, QuietFacts DEF Init, LogInit, LoggerFirst, OneLogger, Silent
<1>6. Confined /\ NoLostWakeup
  BY DEF Init, Confined, NoLostWakeup
<1> QED
  BY <1>3, <1>4, <1>5, <1>6 DEF IInv, TypeOK, ServerTypes, LogTypes, Fd

LEMMA IInvStep == IInv /\ [Next]_vars => IInv'
<1> SUFFICES ASSUME IInv, [Next]_vars PROVE IInv'
  OBVIOUS
<1>1. ServerTypes
  BY DEF IInv, TypeOK, ServerTypes, Fd
<1> QED
  BY <1>1, TypeStep, LoggingStep, WakeupStep, ConfinedStep DEF IInv

LEMMA Invariance == Spec => []IInv
  BY InitIInv, IInvStep, PTL DEF Spec

\* Every variable of the server, its threads and the log keeps its type.
THEOREM TypesKept == Spec => []TypeOK
  BY Invariance, PTL DEF IInv

\* A connection that waits in the listening socket is on the ready list of an
\* epoll that watches it, for any number of threads and clients.
THEOREM WakeupsKept == Spec => []NoLostWakeup
  BY Invariance, PTL DEF IInv

\* A connection is in the queue at most once, is accepted by one thread, and no
\* other thread is ever told of it: connections need no lock.
THEOREM ConnectionsConfined == Spec => []Confined
  BY Invariance, PTL DEF IInv

\* Every line is written in one piece, by the thread that holds its logger, and
\* through a logger that set_global_logger has not destroyed.
THEOREM LogIsSound == Spec => []LogSound
<1>1. IInv => LogSound
  BY DEF IInv, OneLogger, LogSound, On
<1> QED
  BY <1>1, Invariance, PTL

=============================================================================
