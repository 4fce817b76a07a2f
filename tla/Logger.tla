-------------------------------- MODULE Logger --------------------------------
(***************************************************************************)
(* The log of the process (logging.cpp): log_state() and its kin, called   *)
(* from every thread, filter a message by its level, print it on the       *)
(* console and hand it to the one SimpleLogger, which opens its file with  *)
(* the first message, writes under logging_mutex and starts the file anew  *)
(* when it has grown too large. (The renaming that would keep the full     *)
(* file is commented out in the source: what was in it is lost.)           *)
(***************************************************************************)
EXTENDS Naturals, Sequences, FiniteSets

CONSTANTS
    LOGGING,            \* the threads that log
    LOG_LEVELS,         \* the levels of the flags
    LOG_CUSTOM,         \* the levels of the user, compared as a whole
    LOG_MASKS,          \* the values given to logger_set_mode(): sets of levels
    LOG_ROTATE_SIZE,    \* messages after which the file is started anew
    MAX_LOGGED          \* bound: messages logged

NOBODY == "nobody"

ASSUME LoggerAssumption ==
    /\ NOBODY \notin LOGGING
    /\ \A mask \in LOG_MASKS : mask \subseteq LOG_LEVELS \cup LOG_CUSTOM
    /\ LOG_ROTATE_SIZE \in Nat /\ MAX_LOGGED \in Nat

VARIABLES
    required_log_level, \* the flags that pass, or one level of the user
    logger,             \* TRUE while there is a SimpleLogger
    logging_mutex,      \* the thread that holds it
    log_pc,             \* of each thread: where in SimpleLogger::message()
    log_msg,            \* of each thread: the message being written
    file_all,           \* TRUE while the file is open
    log_text,           \* what the file on the disk holds
    logged,             \* messages logged so far: the next one's name
    console_text,       \* how many messages the console has shown
    since_open          \* all written since the file was last closed (history)

logVars == <<required_log_level, logger, logging_mutex, log_pc, log_msg,
             file_all, log_text, logged, console_text, since_open>>

LogInit ==
    /\ required_log_level = LOG_LEVELS
    /\ logger = FALSE
    /\ logging_mutex = NOBODY
    /\ log_pc = [t \in LOGGING |-> "idle"]
    /\ log_msg = [t \in LOGGING |-> 0]
    /\ file_all = FALSE
    /\ log_text = <<>>
    /\ logged = 0
    /\ console_text = 0
    /\ since_open = <<>>

-----------------------------------------------------------------------------
(* The functions of the levels differ in the flag, the prefix and the colour. *)
Passes(level) == level \in LOG_LEVELS /\ level \in required_log_level

(* log_custom() asks for the very level, not for a flag of the mask. *)
PassesCustom(level) == level \in LOG_CUSTOM /\ required_log_level = {level}

(* A message that is to be written gets its number here. *)
Log(t, printed) ==
    /\ log_pc[t] = "idle" /\ logged < MAX_LOGGED
    /\ logged' = logged + 1
    /\ console_text' = console_text + printed
    /\ IF logger THEN log_pc' = [log_pc EXCEPT ![t] = "lock"]
                 ELSE UNCHANGED log_pc
    /\ log_msg' = [log_msg EXCEPT ![t] = IF logger THEN logged' ELSE 0]
    /\ UNCHANGED <<required_log_level, logger, logging_mutex, file_all,
                   log_text, since_open>>

LogLevel(t) == (\E level \in LOG_LEVELS : Passes(level)) /\ Log(t, 1)
LogCustom(t) == (\E level \in LOG_CUSTOM : PassesCustom(level)) /\ Log(t, 1)
LogQuiet(t) == logger /\ Log(t, 0)

-----------------------------------------------------------------------------
(* SimpleLogger::message() *)
Steps(t, from, to) == log_pc[t] = from /\ log_pc' = [log_pc EXCEPT ![t] = to]
LogOutside == UNCHANGED <<required_log_level, logger, log_msg, logged, console_text>>

(* Bug: the lock is not taken. *)
MutantLock(t) ==
    /\ Steps(t, "lock", "open")
    /\ LogOutside /\ UNCHANGED <<logging_mutex, file_all, log_text, since_open>>

Lock(t) ==
    /\ Steps(t, "lock", "open")
    /\ logging_mutex = NOBODY /\ logging_mutex' = t
    /\ LogOutside /\ UNCHANGED <<file_all, log_text, since_open>>

(* The file is open already, or fopen(.., "wb") makes it empty. *)
OpenLog(t) ==
    /\ Steps(t, "open", IF file_all THEN "write" ELSE "opened")
    /\ LogOutside /\ UNCHANGED <<logging_mutex, file_all, log_text, since_open>>

OpenedLog(t) ==
    /\ Steps(t, "opened", "write")
    /\ file_all' = TRUE /\ log_text' = <<>>
    /\ LogOutside /\ UNCHANGED <<logging_mutex, since_open>>

(* It cannot be opened: the message is dropped, the next one tries again. *)
OpenLogFails(t) ==
    /\ Steps(t, "opened", "unlock")
    /\ LogOutside /\ UNCHANGED <<logging_mutex, file_all, log_text, since_open>>

WriteLog(t) ==
    /\ Steps(t, "write", "rotate")
    /\ log_text' = Append(log_text, log_msg[t])
    /\ since_open' = Append(since_open, log_msg[t])
    /\ LogOutside /\ UNCHANGED <<logging_mutex, file_all>>

(* The full file is closed; the next message opens and empties it. *)
RotateLog(t) ==
    /\ Steps(t, "rotate", "unlock")
    /\ IF Len(log_text) > LOG_ROTATE_SIZE
       THEN file_all' = FALSE /\ since_open' = <<>>
       ELSE UNCHANGED <<file_all, since_open>>
    /\ LogOutside /\ UNCHANGED <<logging_mutex, log_text>>

Unlock(t) ==
    /\ Steps(t, "unlock", "idle")
    /\ logging_mutex' = NOBODY
    /\ LogOutside /\ UNCHANGED <<file_all, log_text, since_open>>

-----------------------------------------------------------------------------
(* logger_startup() sets the level even when there is a logger already. *)
LoggerStartup(mask, directory) ==
    /\ required_log_level' = mask
    /\ logger' = (logger \/ directory)
    /\ UNCHANGED <<logging_mutex, log_pc, log_msg, file_all, log_text, logged,
                   console_text, since_open>>

LoggerSetMode(mask) ==
    /\ required_log_level' = mask
    /\ UNCHANGED <<logger, logging_mutex, log_pc, log_msg, file_all, log_text,
                   logged, console_text, since_open>>

(* The destructor takes the mutex and closes the file. The pointer itself is *)
(* not protected: a caller has to keep the threads from logging meanwhile.   *)
LoggerShutdown ==
    /\ \A t \in LOGGING : log_pc[t] = "idle"
    /\ logging_mutex = NOBODY
    /\ logger' = FALSE /\ file_all' = FALSE
    /\ since_open' = <<>>
    /\ UNCHANGED <<required_log_level, logging_mutex, log_pc, log_msg, log_text,
                   logged, console_text>>

LogNext ==
    \/ \E t \in LOGGING :
          \/ LogLevel(t) \/ LogCustom(t) \/ LogQuiet(t)
          \/ Lock(t) \/ OpenLog(t) \/ OpenedLog(t) \/ OpenLogFails(t)
          \/ WriteLog(t) \/ RotateLog(t) \/ Unlock(t)
    \/ \E mask \in LOG_MASKS :
          LoggerSetMode(mask) \/ \E directory \in BOOLEAN : LoggerStartup(mask, directory)
    \/ LoggerShutdown

LogSpec == LogInit /\ [][LogNext]_logVars

-----------------------------------------------------------------------------
(* No message is wiped out by another thread's opening of the file: between  *)
(* two closings, while nobody is emptying it for the first time, the file    *)
(* holds all that was written since, in the order the lock was taken and no  *)
(* message twice, and a thread's messages in the order it logged them.       *)
LogFileIsComplete ==
    /\ (file_all \/ since_open # <<>>) =>
          /\ file_all
          /\ log_text = since_open
    /\ \A i, j \in DOMAIN since_open :
          i # j => since_open[i] # since_open[j]
    /\ \A t \in LOGGING : log_pc[t] \in {"open", "opened", "write"} =>
          \A i \in DOMAIN since_open : since_open[i] # log_msg[t]
=============================================================================
