------------------------------- MODULE Logger -------------------------------
(***************************************************************************)
(* The logger of hw2 as hw6 and hw7 copy it, with a mutex in BaseLogger:   *)
(* the singleton's global_logger, which set_global_logger() replaces and   *)
(* destroys, and trace() ... fatal(), which any thread may call.           *)
(*                                                                         *)
(* A call takes the reference that get_global_logger() returns, locks that *)
(* logger and inserts its line into the stream in parts.                   *)
(***************************************************************************)
EXTENDS Integers, Sequences

CONSTANTS
    Threads,   \* the threads that log
    NoThread

ASSUME NoThreadAssumption == NoThread \notin Threads

Level == [ALL |-> 0, TRACE |-> 1, DEBUG |-> 2, INFO |-> 3, WARN |-> 4,
          ERROR |-> 5, FATAL |-> 6, OFF |-> 7]
Levels == Level.ALL .. Level.OFF

Stream == {"stdout", "stderr", "file"}

VARIABLES
    global,    \* Logger::global_logger
    loggers,   \* the loggers made so far, by number
    calls,     \* what each thread is doing
    line       \* the thread whose line each stream is in the middle of

logVars == <<global, loggers, calls, line>>

\* fill_format_with gives every level that has no colour the default one.
Filled(format) == format \union (Level.ALL + 1 .. Level.OFF - 1)

\* create_stdout_logger, create_stderr_logger and create_file_logger
NewLogger(stream, level, format) ==
    [live |-> TRUE, level |-> level, stream |-> stream,
     format |-> IF stream = "file" THEN {} ELSE Filled(format),
     holder |-> NoThread]

Quiet == [pc |-> "idle", on |-> 1, level |-> Level.ALL]
Silent(t) == calls[t].pc = "idle"

LogInit ==
    /\ global = 1
    /\ loggers = <<NewLogger("stdout", Level.ALL, {})>>
    /\ calls = [t \in Threads |-> Quiet]
    /\ line = [s \in Stream |-> NoThread]

\* get_global_logger().debug(msg) and the others, up to the lock.
Call(t, level) ==
    /\ Silent(t)
    /\ calls' = [calls EXCEPT ![t] =
                    [pc |-> "called", on |-> global, level |-> level]]
    /\ UNCHANGED <<global, loggers, line>>

\* The logger t has a reference to, and the stream it writes.
On(t) == loggers[calls[t].on]

\* Mutant: the loggers of hw2, which have no mutex.
LockNothing(t) == TRUE

\* std::scoped_lock lk(m_mutex)
Lock(t) == On(t).holder = NoThread

\* log() of a message below m_level: locked and unlocked again.
Filtered(t) ==
    /\ calls[t].pc = "called" /\ Lock(t) /\ On(t).level > calls[t].level
    /\ calls' = [calls EXCEPT ![t] = Quiet]
    /\ UNCHANGED <<global, loggers, line>>

\* log(): colour and message; the rest of the line follows.
BeginLine(t) ==
    /\ calls[t].pc = "called" /\ Lock(t) /\ On(t).level <= calls[t].level
    /\ On(t).stream # "file" => calls[t].level \in On(t).format
    /\ loggers' = [loggers EXCEPT ![calls[t].on].holder = t]
    /\ line' = [line EXCEPT ![On(t).stream] = t]
    /\ calls' = [calls EXCEPT ![t].pc = "writing"]
    /\ UNCHANGED global

\* RESET_ENDLINE, std::endl and the end of the scoped_lock.
EndLine(t) ==
    /\ calls[t].pc = "writing"
    /\ loggers' = [loggers EXCEPT ![calls[t].on].holder = NoThread]
    /\ line' = [line EXCEPT ![On(t).stream] = NoThread]
    /\ calls' = [calls EXCEPT ![t] = Quiet]
    /\ UNCHANGED global

Log(t) == Filtered(t) \/ BeginLine(t) \/ EndLine(t)

\* set_global_logger(create_..._logger(...)): the old logger is destroyed.
SetGlobalLogger(stream, level, format) ==
    /\ global < 2
    /\ loggers' = Append([loggers EXCEPT ![global].live = FALSE],
                         NewLogger(stream, level, format))
    /\ global' = global + 1
    /\ UNCHANGED <<calls, line>>

-----------------------------------------------------------------------------

\* Every line on a stream is one call's from its colour to its end (the
\* scoped_lock of trace() ... fatal()), and no thread logs through a logger
\* that set_global_logger has destroyed.
LogSound ==
    \A t \in Threads : ~Silent(t) =>
        /\ On(t).live
        /\ calls[t].pc = "writing" => line[On(t).stream] = t
=============================================================================
