---------------------------- MODULE CommonProofs ----------------------------
(***************************************************************************)
(* Theorems about the shared parts under common/: the log file, the cached *)
(* vector, the adjacency matrix, the state records, the median of a stream *)
(* and the reader of configuration files.                                  *)
(***************************************************************************)
EXTENDS Logger, CachedVector, AdjacencyMatrix, StateRecords, StreamMedian, ConfParser,
        Lemmas, SequenceTheorems, FiniteSetTheorems

-----------------------------------------------------------------------------
(*                                  Logger                                 *)

Inside == {"open", "opened", "write", "rotate", "unlock"}
Unwritten == {"lock", "open", "opened", "write"}

LogTypeOK ==
    /\ log_pc \in [LOGGING -> {"idle"} \cup Unwritten \cup Inside]
    /\ log_msg \in [LOGGING -> Nat] /\ logged \in Nat
    /\ log_text \in Seq(Nat) /\ since_open \in Seq(Nat) /\ file_all \in BOOLEAN

(* A thread between the lock and its release holds logging_mutex. *)
MutexInv == \A t \in LOGGING : log_pc[t] \in Inside => logging_mutex = t

(* Only an open file was written to since it was opened, and only the thread  *)
(* that has seen it closed opens it.                                          *)
LogFileInv ==
    /\ IF file_all THEN log_text = since_open ELSE since_open = <<>>
    /\ \A t \in LOGGING : /\ log_pc[t] = "write" => file_all
                          /\ log_pc[t] = "opened" => ~file_all

(* Every message has a number of its own, and is written once. *)
MessageInv ==
    /\ \A t \in LOGGING : log_pc[t] \in Unwritten =>
          /\ log_msg[t] <= logged
          /\ \A i \in DOMAIN since_open : since_open[i] # log_msg[t]
    /\ \A t, u \in LOGGING :
          log_pc[t] \in Unwritten /\ log_pc[u] \in Unwritten /\ t # u => log_msg[t] # log_msg[u]
    /\ \A i \in DOMAIN since_open : since_open[i] <= logged
    /\ \A i, j \in DOMAIN since_open : i # j => since_open[i] # since_open[j]

LogIInv == LogTypeOK /\ MutexInv /\ LogFileInv /\ MessageInv
-----------------------------------------------------------------------------
(* log_state() and its kin, called by one thread. *)
LEMMA LogStep ==
  ASSUME LogIInv, NEW t \in LOGGING, NEW printed, Log(t, printed)
  PROVE  LogIInv'
<1>1. /\ logged \in Nat /\ logged' = logged + 1 /\ log_pc[t] = "idle"
      /\ UNCHANGED <<logging_mutex, file_all, log_text, since_open>>
  BY DEF Log, LogIInv, LogTypeOK
<1>2. \A u \in LOGGING \ {t} : log_pc'[u] = log_pc[u] /\ log_msg'[u] = log_msg[u]
  BY DEF Log, LogIInv, LogTypeOK
<1>3. log_pc'[t] = "idle" \/ (log_pc'[t] = "lock" /\ log_msg'[t] = logged + 1)
  BY <1>1 DEF Log, LogIInv, LogTypeOK
<1>4. LogTypeOK'
  BY <1>1 DEF Log, LogIInv, LogTypeOK, Unwritten
<1>5. MutexInv'
  BY <1>1, <1>2, <1>3 DEF LogIInv, MutexInv, Inside
<1>6. LogFileInv'
  BY <1>1, <1>2, <1>3 DEF LogIInv, LogFileInv
<1>7. MessageInv'
  <2>1. \A i \in DOMAIN since_open : since_open[i] \in Nat /\ since_open[i] < logged + 1
    BY <1>1, ElementOfSeq, LenProperties DEF LogIInv, LogTypeOK, MessageInv
  <2>2. \A u \in LOGGING \ {t} : log_pc[u] \in Unwritten => log_msg[u] \in Nat /\ log_msg[u] < logged + 1
    BY <1>1 DEF LogIInv, LogTypeOK, MessageInv
  <2>3. \A u \in LOGGING : log_pc'[u] \in Unwritten =>
           log_msg'[u] <= logged' /\ \A i \in DOMAIN since_open : since_open[i] # log_msg'[u]
    <3> TAKE u \in LOGGING
    <3>1. CASE u = t
      BY <1>1, <1>3, <2>1, <3>1 DEF Unwritten
    <3>2. CASE u # t
      BY <1>1, <1>2, <2>2, <3>2 DEF LogIInv, MessageInv
    <3>3. QED
      BY <3>1, <3>2
  <2>4. \A u, v \in LOGGING :
           log_pc'[u] \in Unwritten /\ log_pc'[v] \in Unwritten /\ u # v => log_msg'[u] # log_msg'[v]
    <3> TAKE u, v \in LOGGING
    <3>1. CASE u # t /\ v # t
      BY <1>2, <3>1 DEF LogIInv, MessageInv
    <3>2. CASE u = t \/ v = t
      BY <1>1, <1>2, <1>3, <2>2, <3>2 DEF Unwritten
    <3>3. QED
      BY <3>1, <3>2
  <2>5. \A i \in DOMAIN since_open : since_open[i] <= logged'
    BY <1>1, <2>1
  <2>6. QED
    BY <1>1, <2>3, <2>4, <2>5 DEF LogIInv, MessageInv
<1>8. QED
  BY <1>4, <1>5, <1>6, <1>7 DEF LogIInv

(* One step of SimpleLogger::message() but the writing. *)
LEMMA MessageStep ==
  ASSUME LogIInv, NEW t \in LOGGING,
         Lock(t) \/ OpenLog(t) \/ OpenedLog(t) \/ OpenLogFails(t) \/ RotateLog(t) \/ Unlock(t)
  PROVE  LogIInv'
<1> USE DEF Steps, LogOutside
<1>1. /\ UNCHANGED <<log_msg, logged>> /\ log_pc[t] \in {"lock"} \cup Inside
      /\ log_pc'[t] \in {"idle"} \cup Inside
      /\ log_pc'[t] \in Unwritten => log_pc[t] \in Unwritten
      /\ \A u \in LOGGING \ {t} : log_pc'[u] = log_pc[u]
      /\ log_pc' \in [LOGGING -> {"idle"} \cup Unwritten \cup Inside]
  BY DEF Lock, OpenLog, OpenedLog, OpenLogFails, RotateLog, Unlock, LogIInv, LogTypeOK, Inside, Unwritten
<1>2. \A u \in LOGGING : log_pc[u] \in Inside => logging_mutex = u
  BY DEF LogIInv, MutexInv
<1>3. since_open' \in {since_open, <<>>}
  BY DEF Lock, OpenLog, OpenedLog, OpenLogFails, RotateLog, Unlock
<1>4. LogTypeOK'
  <2>1. log_text' \in {log_text, <<>>} /\ file_all' \in {file_all, TRUE, FALSE}
    BY DEF Lock, OpenLog, OpenedLog, OpenLogFails, RotateLog, Unlock
  <2>2. /\ log_text \in Seq(Nat) /\ since_open \in Seq(Nat) /\ <<>> \in Seq(Nat)
        /\ file_all \in BOOLEAN /\ log_msg \in [LOGGING -> Nat] /\ logged \in Nat
    BY EmptySeq DEF LogIInv, LogTypeOK
  <2>3. log_text' \in Seq(Nat) /\ since_open' \in Seq(Nat) /\ file_all' \in BOOLEAN
    <3>1. log_text' \in Seq(Nat)
      BY <2>1, <2>2, Zenon
    <3>2. since_open' \in Seq(Nat)
      BY <1>3, <2>2, Zenon
    <3>3. QED
      BY <2>1, <2>2, <3>1, <3>2
  <2>4. log_msg' \in [LOGGING -> Nat] /\ logged' \in Nat
    BY <1>1, <2>2, Zenon
  <2>5. QED
    BY <1>1, <2>3, <2>4 DEF LogTypeOK
<1>5. MutexInv'
  <2>1. CASE Lock(t)
    <3>1. \A u \in LOGGING : log_pc[u] \notin Inside
      BY <1>2, <2>1, LoggerAssumption DEF Lock
    <3>2. QED
      BY <1>1, <2>1, <3>1 DEF Lock, MutexInv
  <2>2. CASE Unlock(t)
    <3>1. \A u \in LOGGING \ {t} : log_pc[u] \notin Inside
      BY <1>2, <2>2 DEF Unlock, Inside
    <3>2. log_pc'[t] = "idle"
      BY <2>2 DEF Unlock, LogIInv, LogTypeOK
    <3>3. QED
      BY <1>1, <3>1, <3>2 DEF MutexInv, Inside
  <2>3. CASE OpenLog(t) \/ OpenedLog(t) \/ OpenLogFails(t) \/ RotateLog(t)
    <3>1. log_pc[t] \in Inside /\ logging_mutex' = logging_mutex
      BY <2>3 DEF OpenLog, OpenedLog, OpenLogFails, RotateLog, Inside
    <3>2. QED
      BY <1>1, <1>2, <3>1 DEF MutexInv
  <2>4. QED
    BY <2>1, <2>2, <2>3
<1>6. LogFileInv'
  <2>1. CASE Lock(t) \/ OpenLogFails(t) \/ Unlock(t)
    <3>1. UNCHANGED <<file_all, log_text, since_open>> /\ log_pc'[t] \notin {"write", "opened"}
      BY <2>1 DEF Lock, OpenLogFails, Unlock, LogIInv, LogTypeOK
    <3>2. QED
      BY <1>1, <3>1 DEF LogIInv, LogFileInv
  <2>2. CASE OpenLog(t)
    <3>1. /\ UNCHANGED <<file_all, log_text, since_open>>
          /\ log_pc'[t] = IF file_all THEN "write" ELSE "opened"
      BY <2>2 DEF OpenLog, LogIInv, LogTypeOK
    <3>2. QED
      BY <1>1, <3>1 DEF LogIInv, LogFileInv
  <2>3. CASE OpenedLog(t)
    <3>1. /\ file_all' /\ log_text' = <<>> /\ since_open' = <<>> /\ log_pc'[t] = "write"
      BY <2>3 DEF OpenedLog, LogIInv, LogTypeOK, LogFileInv
    <3>2. \A u \in LOGGING \ {t} : log_pc'[u] # "opened"
      BY <1>1, <1>2, <2>3 DEF OpenedLog, Inside
    <3>3. QED
      BY <3>1, <3>2 DEF LogFileInv
  <2>4. CASE RotateLog(t)
    <3>1. \A u \in LOGGING : log_pc'[u] \notin {"write", "opened"}
      BY <1>1, <1>2, <2>4 DEF RotateLog, Inside, LogIInv, LogTypeOK
    <3>2. log_text' = log_text /\ (UNCHANGED <<file_all, since_open>> \/ (~file_all' /\ since_open' = <<>>))
      BY <2>4 DEF RotateLog
    <3>3. QED
      BY <3>1, <3>2 DEF LogIInv, LogFileInv
  <2>5. QED
    BY <2>1, <2>2, <2>3, <2>4
<1>7. MessageInv'
  <2>1. \A u \in LOGGING : log_pc'[u] \in Unwritten => log_pc[u] \in Unwritten
    BY <1>1
  <2>2. CASE since_open' = since_open
    BY <1>1, <2>1, <2>2 DEF LogIInv, MessageInv
  <2>3. CASE since_open' = <<>>
    <3>1. DOMAIN since_open' = {}
      BY <2>3
    <3>2. QED
      BY <1>1, <2>1, <3>1 DEF LogIInv, MessageInv
  <2>4. QED
    BY <1>3, <2>2, <2>3
<1>8. QED
  BY <1>4, <1>5, <1>6, <1>7 DEF LogIInv

(* A message is written. *)
LEMMA LogWriteStep ==
  ASSUME LogIInv, NEW t \in LOGGING, WriteLog(t)
  PROVE  LogIInv'
<1> USE DEF Steps, LogOutside
<1>1. /\ UNCHANGED <<log_msg, logged, logging_mutex, file_all>> /\ file_all
      /\ log_pc[t] = "write" /\ log_pc'[t] = "rotate" /\ log_msg[t] \in Nat
      /\ \A u \in LOGGING \ {t} : log_pc'[u] = log_pc[u]
      /\ log_pc' \in [LOGGING -> {"idle"} \cup Unwritten \cup Inside]
      /\ log_text' = Append(log_text, log_msg[t]) /\ since_open' = Append(since_open, log_msg[t])
      /\ log_text \in Seq(Nat) /\ since_open \in Seq(Nat)
  BY DEF WriteLog, LogIInv, LogTypeOK, LogFileInv, Inside
<1>2. /\ DOMAIN since_open = 1 .. Len(since_open) /\ Len(since_open) \in Nat
      /\ since_open' \in Seq(Nat) /\ log_text' \in Seq(Nat) /\ Len(since_open') = Len(since_open) + 1
      /\ DOMAIN since_open' = 1 .. Len(since_open) + 1
      /\ \A i \in DOMAIN since_open : since_open'[i] = since_open[i]
      /\ since_open'[Len(since_open) + 1] = log_msg[t]
  BY <1>1, AppendProperties, LenProperties
<1>3. \A i \in DOMAIN since_open' :
         \/ i \in DOMAIN since_open /\ since_open'[i] = since_open[i]
         \/ i = Len(since_open) + 1 /\ since_open'[i] = log_msg[t]
  BY <1>2
<1>4. LogTypeOK'
  BY <1>1, <1>2 DEF LogIInv, LogTypeOK
<1>5. MutexInv'
  BY <1>1 DEF LogIInv, MutexInv, Inside
<1>6. LogFileInv'
  BY <1>1 DEF LogIInv, LogFileInv
<1>7. MessageInv'
  <2>1. "write" \in Unwritten /\ "rotate" \notin Unwritten
    BY DEF Unwritten
  <2>2. log_msg[t] <= logged /\ \A i \in DOMAIN since_open : since_open[i] # log_msg[t]
    BY <1>1, <2>1 DEF LogIInv, MessageInv
  <2>3. \A u \in LOGGING : log_pc'[u] \in Unwritten =>
           u # t /\ log_pc[u] \in Unwritten /\ log_msg[u] # log_msg[t]
    BY <1>1, <2>1 DEF LogIInv, MessageInv
  <2>4. \A i, j \in DOMAIN since_open' : i # j => since_open'[i] # since_open'[j]
    BY <1>3, <2>2 DEF LogIInv, MessageInv
  <2>5. \A i \in DOMAIN since_open' : since_open'[i] <= logged
    BY <1>3, <2>2 DEF LogIInv, MessageInv
  <2>6. QED
    BY <1>1, <1>3, <2>3, <2>4, <2>5 DEF LogIInv, MessageInv
<1>8. QED
  BY <1>4, <1>5, <1>6, <1>7 DEF LogIInv

(* The mode, the file's directory, and the end. *)
LEMMA ModeStep ==
  ASSUME LogIInv,
         \/ \E mask \in LOG_MASKS : LoggerSetMode(mask) \/ \E d \in BOOLEAN : LoggerStartup(mask, d)
         \/ LoggerShutdown \/ UNCHANGED logVars
  PROVE  LogIInv'
<1>1. UNCHANGED <<log_pc, log_msg, logged, logging_mutex, log_text>>
  BY DEF LoggerSetMode, LoggerStartup, LoggerShutdown, logVars
<1>2. CASE UNCHANGED <<file_all, since_open>>
  BY <1>1, <1>2 DEF LogIInv, LogTypeOK, MutexInv, LogFileInv, MessageInv
<1>3. CASE LoggerShutdown
  <2>1. /\ \A t \in LOGGING : log_pc[t] = "idle"
        /\ ~file_all' /\ file_all' = FALSE /\ since_open' = <<>> /\ DOMAIN since_open' = {}
    BY <1>3 DEF LoggerShutdown
  <2>2. <<>> \in Seq(Nat)
    BY EmptySeq
  <2>3. QED
    BY <1>1, <2>1, <2>2 DEF LogIInv, LogTypeOK, MutexInv, LogFileInv, MessageInv, Inside, Unwritten
<1>4. QED
  BY <1>2, <1>3 DEF LoggerSetMode, LoggerStartup, logVars

(* Every state of the log keeps the invariant. *)
LEMMA LoggerInvariance == LogSpec => []LogIInv
<1>1. LogInit => LogIInv
  <2> SUFFICES ASSUME LogInit PROVE LogIInv
    OBVIOUS
  <2>1. <<>> \in Seq(Nat) /\ DOMAIN <<>> = {}
    BY EmptySeq
  <2>2. \A t \in LOGGING : log_pc[t] = "idle"
    BY DEF LogInit
  <2>3. LogTypeOK
    <3>1. log_text \in Seq(Nat) /\ since_open \in Seq(Nat)
      BY <2>1, Zenon DEF LogInit
    <3>2. QED
      BY <3>1 DEF LogInit, LogTypeOK
  <2>4. MutexInv
    BY <2>2 DEF MutexInv, Inside
  <2>5. LogFileInv
    BY <2>2 DEF LogInit, LogFileInv
  <2>6. MessageInv
    <3>1. DOMAIN since_open = {}
      BY <2>1, Zenon DEF LogInit
    <3>2. QED
      BY <2>2, <3>1 DEF MessageInv, Unwritten
  <2>7. QED
    BY <2>3, <2>4, <2>5, <2>6 DEF LogIInv
<1>2. LogIInv /\ [LogNext]_logVars => LogIInv'
  BY LogStep, MessageStep, LogWriteStep, ModeStep DEF LogNext, LogLevel, LogCustom, LogQuiet
<1>3. QED
  BY <1>1, <1>2, PTL DEF LogSpec
-----------------------------------------------------------------------------
(* logging_mutex is enough: however many threads log, none empties a file     *)
(* that another has just opened or written to, and no message comes twice.    *)
THEOREM LogIsComplete == LogSpec => []LogFileIsComplete
<1>1. LogIInv => LogFileIsComplete
  BY DEF LogIInv, LogFileInv, MessageInv, LogFileIsComplete, Unwritten
<1>2. QED
  BY <1>1, LoggerInvariance, PTL

-----------------------------------------------------------------------------
(*                              Cached vector                              *)

(* Until the file has reached its limit it holds all that was added.         *)
DumpInv ==
    /\ added \in Seq(Nat) /\ dump = added
    /\ samples_num = Len(added) /\ writing_pos = Len(added)

(* The program is wrong about the position of the file only after it has     *)
(* filled the window, and then it believes to stand where the window begins. *)
PosInv ==
    /\ file_pos \in Nat /\ offset \in Nat
    /\ \/ file_pos = writing_pos /\ offset = writing_pos
       \/ file_pos < writing_pos /\ file_pos = cache_pos_in_dump /\ cache_size > 0

(* What is in the window is what was added at its place. *)
WindowInv ==
    /\ cache_data \in Seq(Nat) /\ cache_pos_in_dump \in Nat
    /\ cache_pos_in_dump + cache_size <= Len(added)
    /\ \A i \in 1..cache_size : cache_data[i] = added[cache_pos_in_dump + i]

SampleInv ==
    sample # <<>> => /\ sample[1] \in Nat /\ sample[1] < Len(added)
                     /\ sample[2] = added[sample[1] + 1]

CacheBody == DumpInv /\ PosInv /\ WindowInv /\ SampleInv
CacheIInv == can_increase_file => CacheBody
-----------------------------------------------------------------------------
(* init(), load() and clear(): an empty file, or one with k elements. *)
LEMMA OpenedStep ==
  ASSUME NEW how, NEW k \in Nat, OpenedCache(how, k)
  PROVE  CacheIInv'
<1>1. /\ added' \in Seq(Nat) /\ Len(added') = k /\ dump' = added'
      /\ offset' = k /\ file_pos' = k /\ writing_pos' = k /\ samples_num' = k
      /\ cache_data' = <<>> /\ cache_pos_in_dump' = 0 /\ sample' = <<>>
  <2>1. dump' = [i \in 1..k |-> i] /\ added' = [i \in 1..k |-> i]
    BY DEF OpenedCache
  <2>2. [i \in 1..k |-> i] \in Seq(Nat) /\ Len([i \in 1..k |-> i]) = k
    BY IsASeq
  <2>3. QED
    BY <2>1, <2>2 DEF OpenedCache
<1>2. cache_data' \in Seq(Nat) /\ Len(cache_data') = 0
  BY <1>1, EmptySeq
<1>3. DumpInv' /\ PosInv' /\ SampleInv'
  BY <1>1 DEF DumpInv, PosInv, SampleInv
<1>4. WindowInv'
  BY <1>1, <1>2 DEF WindowInv, cache_size
<1>5. QED
  BY <1>3, <1>4 DEF CacheIInv, CacheBody

(* add(): the element goes to the end of the file, wherever that stood. *)
LEMMA CacheAddStep ==
  ASSUME CacheIInv, CacheAdd
  PROVE  CacheIInv'
<1> SUFFICES ASSUME can_increase_file'
             PROVE  CacheBody'
  BY DEF CacheIInv
<1> DEFINE n == Len(added)
<1>1. /\ can_increase_file /\ writing_pos + 1 <= CACHED_VEC_MAX_SIZE
      /\ CacheBody /\ n \in Nat /\ samples_num = n /\ writing_pos = n /\ Len(dump) = n
      /\ dump = added /\ added \in Seq(Nat)
  <2>1. can_increase_file /\ ~(writing_pos + 1 > CACHED_VEC_MAX_SIZE)
    BY DEF CacheAdd
  <2>2. CacheBody /\ DumpInv
    BY <2>1 DEF CacheIInv, CacheBody
  <2>3. n \in Nat
    BY <2>2, LenProperties DEF DumpInv
  <2>4. QED
    BY <2>1, <2>2, <2>3, CacheAssumption DEF DumpInv
<1>2. SeekSample(writing_pos) = n
  BY <1>1 DEF SeekSample, CacheBody, PosInv
<1>3. /\ dump' = Written(n + 1, n) /\ offset' = n + 1 /\ file_pos' = n + 1
      /\ writing_pos' = n + 1 /\ samples_num' = n + 1 /\ added' = Append(added, n + 1)
      /\ UNCHANGED <<cache_data, cache_pos_in_dump, sample>>
  BY <1>1, <1>2, CacheAssumption DEF CacheAdd
<1>4. dump' = Append(added, n + 1)
  BY <1>1, <1>3 DEF Written
<1>5. /\ added' \in Seq(Nat) /\ Len(added') = n + 1
      /\ \A i \in 1..n : added'[i] = added[i]
  BY <1>1, <1>3, AppendProperties
<1>6. DumpInv' /\ PosInv'
  BY <1>1, <1>3, <1>4, <1>5 DEF DumpInv, PosInv
<1>7. WindowInv'
  <2>1. cache_size' = cache_size /\ cache_size \in Nat
    BY <1>1, <1>3, LenProperties DEF cache_size, CacheBody, WindowInv
  <2>2. \A i \in 1..cache_size : cache_pos_in_dump + i \in 1..n
    BY <1>1, <2>1 DEF CacheBody, WindowInv
  <2>3. QED
    BY <1>1, <1>3, <1>5, <2>1, <2>2 DEF CacheBody, WindowInv
<1>8. SampleInv'
  BY <1>1, <1>3, <1>5 DEF CacheBody, SampleInv
<1>9. QED
  BY <1>6, <1>7, <1>8 DEF CacheBody

(* operator[]: from the window, or from the file, which is where the program  *)
(* believes it is unless the element is the window's first.                   *)
LEMMA CacheGetStep ==
  ASSUME CacheIInv, NEW index \in Nat, CacheGet(index)
  PROVE  CacheIInv'
<1> SUFFICES ASSUME can_increase_file'
             PROVE  CacheBody'
  BY DEF CacheIInv
<1> DEFINE n == Len(added)
           count == Least2(samples_num - index, cache_max_size)
<1>1. /\ CacheBody /\ n \in Nat /\ samples_num = n /\ writing_pos = n
      /\ dump = added /\ added \in Seq(Nat) /\ index < n
      /\ UNCHANGED <<dump, writing_pos, samples_num, added>>
  <2>1. can_increase_file
    BY DEF CacheGet
  <2>2. CacheBody /\ DumpInv
    BY <2>1 DEF CacheIInv, CacheBody
  <2>3. n \in Nat
    BY <2>2, LenProperties DEF DumpInv
  <2>4. QED
    BY <2>2, <2>3 DEF DumpInv, CacheGet
<1>2. DumpInv'
  BY <1>1 DEF DumpInv
<1>3. CASE InWindow(index)
  <2>1. /\ UNCHANGED <<offset, file_pos, cache_data, cache_pos_in_dump>>
        /\ sample' = <<index, cache_data[index - cache_pos_in_dump + 1]>>
    BY <1>3 DEF CacheGet
  <2>2. PosInv' /\ WindowInv'
    BY <1>1, <2>1 DEF CacheBody, PosInv, WindowInv, cache_size
  <2>3. cache_data[index - cache_pos_in_dump + 1] = added[index + 1]
    <3>1. index - cache_pos_in_dump + 1 \in 1..cache_size
      BY <1>1, <1>3, LenProperties DEF InWindow, CacheBody, WindowInv, cache_size
    <3>2. cache_pos_in_dump + (index - cache_pos_in_dump + 1) = index + 1
      BY <1>1 DEF CacheBody, WindowInv
    <3>3. \A i \in 1..cache_size : cache_data[i] = added[cache_pos_in_dump + i]
      BY <1>1 DEF CacheBody, WindowInv
    <3>4. QED
      BY <3>1, <3>2, <3>3
  <2>4. SampleInv'
    BY <1>1, <2>1, <2>3 DEF SampleInv
  <2>5. QED
    BY <1>2, <2>2, <2>4 DEF CacheBody
<1>4. CASE ~InWindow(index)
  <2>1. SeekSample(index) = index
    BY <1>1, <1>4 DEF SeekSample, InWindow, CacheBody, PosInv, WindowInv, cache_size
  <2>2. /\ index + count <= Len(dump) /\ file_pos' = index
        /\ cache_data' = SubSeq(added, index + 1, index + count)
        /\ cache_pos_in_dump' = index /\ offset' = index + count
        /\ sample' = <<index, cache_data'[index - index + 1]>>
    BY <1>1, <1>4, <2>1 DEF CacheGet
  <2>3. count \in Nat /\ count > 0 /\ index + count <= n
    BY <1>1, CacheAssumption DEF Least2, cache_max_size
  <2> HIDE DEF count
  <2>4. /\ cache_data' \in Seq(Nat) /\ Len(cache_data') = count
        /\ \A i \in 1..count : cache_data'[i] = added[index + i]
    <3>1. /\ index + 1 \in Int /\ index + count \in Int
          /\ \A i \in index + 1 .. index + count : added[i] \in Nat
      <4>1. \A i \in 1 .. n : added[i] \in Nat
        BY <1>1, ElementOfSeq
      <4>2. \A i \in index + 1 .. index + count : i \in 1 .. n
        BY <1>1, <2>3
      <4>3. QED
        BY <1>1, <2>3, <4>1, <4>2
    <3>2. (index + count) - (index + 1) + 1 = count
      BY <2>3
    <3>3. cache_data' \in Seq(Nat)
      BY <2>2, <3>1, SubSeqProperties
    <3>4. Len(cache_data') = (index + count) - (index + 1) + 1
      <4>1. Len(cache_data') = IF index + 1 <= index + count THEN (index + count) - (index + 1) + 1 ELSE 0
        BY <2>2, <3>1, SubSeqProperties
      <4>2. index + 1 <= index + count
        BY <1>1, <2>3
      <4>3. QED
        BY <4>1, <4>2, Zenon
    <3>5. \A i \in 1 .. (index + count) - (index + 1) + 1 : cache_data'[i] = added[(index + 1) + i - 1]
      <4> DEFINE s == SubSeq(added, index + 1, index + count)
      <4>1. \A i \in 1 .. (index + count) - (index + 1) + 1 : s[i] = added[(index + 1) + i - 1]
        BY <3>1, SubSeqProperties
      <4> HIDE DEF s
      <4>2. cache_data' = s
        BY <2>2 DEF s
      <4>3. QED
        BY <4>1, <4>2, Zenon
    <3>6. \A i \in 1..count : (index + 1) + i - 1 = index + i
      BY <2>3
    <3>7. QED
      BY <3>2, <3>3, <3>4, <3>5, <3>6
  <2>5. PosInv' /\ WindowInv'
    <3>1. /\ cache_size' = count /\ Len(added') = n /\ added' = added /\ writing_pos' = n
          /\ cache_pos_in_dump' = index /\ file_pos' = index /\ offset' \in Nat
      BY <1>1, <2>2, <2>3, <2>4 DEF cache_size
    <3>2. PosInv'
      BY <1>1, <2>3, <3>1 DEF PosInv
    <3>3. WindowInv'
      BY <1>1, <2>3, <2>4, <3>1 DEF WindowInv
    <3>4. QED
      BY <3>2, <3>3
  <2>6. SampleInv'
    BY <1>1, <2>2, <2>3, <2>4 DEF SampleInv
  <2>7. QED
    BY <1>2, <2>5, <2>6 DEF CacheBody
<1>5. QED
  BY <1>3, <1>4
-----------------------------------------------------------------------------
(* operator[] returns what add() was given at that index, for files and      *)
(* windows of every size and in whatever order the two are called, until the *)
(* file has reached its limit.                                               *)
THEOREM CacheIsTransparent == CacheSpec => []SampleIsTheOneAdded
<1>1. CacheInit => CacheIInv
  <2> SUFFICES ASSUME CacheInit PROVE CacheIInv
    OBVIOUS
  <2>1. <<>> \in Seq(Nat) /\ Len(<<>>) = 0
    BY EmptySeq
  <2>2. DumpInv /\ PosInv /\ SampleInv
    BY <2>1 DEF CacheInit, DumpInv, PosInv, SampleInv
  <2>3. WindowInv
    BY <2>1 DEF CacheInit, WindowInv, cache_size
  <2>4. QED
    BY <2>2, <2>3 DEF CacheIInv, CacheBody
<1>2. CacheIInv /\ [CacheNext]_cacheVars => CacheIInv'
  <2> SUFFICES ASSUME CacheIInv, [CacheNext]_cacheVars PROVE CacheIInv'
    OBVIOUS
  <2>1. CASE \E k \in 0..1 : CacheOpen(k)
    BY <2>1, OpenedStep DEF CacheOpen
  <2>2. CASE CacheClear
    BY <2>2, OpenedStep DEF CacheClear
  <2>3. CASE CacheAdd
    BY <2>3, CacheAddStep
  <2>4. CASE \E index \in 0..(samples_num - 1) : CacheGet(index)
    <3>1. PICK index \in 0..(samples_num - 1) : CacheGet(index)
      BY <2>4
    <3>2. index \in Nat
      BY <3>1
    <3>3. QED
      BY <3>1, <3>2, CacheGetStep
  <2>5. CASE UNCHANGED cacheVars
    BY <2>5 DEF cacheVars, CacheIInv, CacheBody, DumpInv, PosInv, WindowInv, SampleInv, cache_size
  <2>6. QED
    BY <2>1, <2>2, <2>3, <2>4, <2>5 DEF CacheNext
<1>3. CacheIInv => SampleIsTheOneAdded
  BY DEF CacheIInv, CacheBody, SampleInv, SampleIsTheOneAdded
<1>4. QED
  BY <1>1, <1>2, <1>3, PTL DEF CacheSpec

-----------------------------------------------------------------------------
(*                             Adjacency matrix                            *)

Cells == [y: Names, x: Names, w: Int]

(* A matrix of n rows whose rows and columns have one name each, which no     *)
(* other row or column has.                                                   *)
Formed(m, n) ==
    /\ m \in [1 .. n -> [1 .. n -> Cells]]
    /\ \A i, j \in 1 .. n : m[i][j].y = m[i][1].y /\ m[i][j].x = m[1][j].x
    /\ \A i, k \in 1 .. n : m[i][1].y = m[k][1].y => i = k
    /\ \A j, k \in 1 .. n : m[1][j].x = m[1][k].x => j = k

Weighed(m, n, sums) == \A i, j \in 1 .. n : m[i][j].w = sums[<<m[i][j].y, m[i][j].x>>]

(* The maps are those of the matrix. *)
RowMap(map, m, n) ==
    \A y \in DOMAIN map : map[y] \in 1 .. n /\ m[map[y]][1].y = y
ColumnsMap(map, m, n) ==
    \A x \in DOMAIN map : map[x] \in 1 .. n /\ m[1][map[x]].x = x

Right(m, n, sums, rows, columns) ==
    Weighed(m, n, sums) /\ RowMap(rows, m, n) /\ ColumnsMap(columns, m, n)

Positive(map) == IsFiniteSet(DOMAIN map) /\ \A n \in DOMAIN map : map[n] \in Nat \ {0}

AdjIInv ==
    ~asserted =>
        /\ size \in Nat /\ Formed(matr, size) /\ weight \in [Pairs -> Int]
        /\ Positive(x_vertex_names) /\ Positive(y_vertex_names)
        /\ ~columns_swapped /\ size > 0 =>
                Right(matr, size, weight, y_vertex_names, x_vertex_names)
-----------------------------------------------------------------------------
(* Where no two names are equal, a name is at one place. *)
LEMMA PositionIs ==
  ASSUME NEW n \in Nat, NEW S, NEW names \in Seq(S), Len(names) = n, IsInjective(names)
  PROVE  /\ \A m : m \in DOMAIN Position(names) <=> \E i \in 1 .. n : m = names[i]
         /\ \A i \in 1 .. n : Position(names)[names[i]] = i
         /\ IsFiniteSet(DOMAIN Position(names)) /\ Cardinality(DOMAIN Position(names)) = n
<1> DOMAIN names = 1 .. n /\ names \in [1 .. n -> S]
  BY LenProperties
<1>1. DOMAIN Position(names) = {names[i] : i \in 1 .. n}
  BY DEF Position, ToSet
<1>2. ASSUME NEW i \in 1 .. n
      PROVE  Position(names)[names[i]] = i
  <2> DEFINE I == {k \in 1 .. Len(names) : names[k] = names[i]}
  <2>1. I = {i}
    BY DEF IsInjective
  <2>2. names[i] \in ToSet(names)
    BY DEF ToSet
  <2>3. Position(names)[names[i]] = IF I # {} THEN Max(I) ELSE 0
    BY <2>2 DEF Position, SelectLastInSeq
  <2>4. Max({i}) = i
    BY DEF Max
  <2>5. QED
    BY <2>1, <2>3, <2>4
<1>3. IsFiniteSet(DOMAIN Position(names)) /\ Cardinality(DOMAIN Position(names)) = n
  <2>1. IsFiniteSet(1 .. n) /\ Cardinality(1 .. n) = n
    BY FS_Interval
  <2>2. names \in Surjection(1 .. n, DOMAIN Position(names))
    <3> DEFINE D == DOMAIN Position(names)
    <3>2. \A i \in 1 .. n : names[i] \in D
      BY <1>1
    <3> HIDE DEF D
    <3>1. names \in [1 .. n -> D]
      BY <3>2
    <3>3. QED
      BY <1>1, <3>1 DEF Surjection, D
  <2>3. names \in Injection(1 .. n, DOMAIN Position(names))
    BY <2>2 DEF Surjection, Injection
  <2>4. QED
    BY <2>1, <2>2, <2>3, FS_Surjection
<1>4. \A m : m \in DOMAIN Position(names) <=> \E i \in 1 .. n : m = names[i]
  BY <1>1
<1>5. QED
  BY <1>2, <1>3, <1>4

(* The map made of the names of the rows, or of the columns, leads to them. *)
LEMMA MapsMade ==
  ASSUME NEW n \in Nat, NEW m, Formed(m, n), Len(m) = n
  PROVE  /\ RowMap(Position(RowNames(m)), m, n) /\ Positive(Position(RowNames(m)))
         /\ ColumnsMap(Position(ColumnNames(m)), m, n) /\ Positive(Position(ColumnNames(m)))
<1>1. DOMAIN m = 1 .. n
  BY DEF Formed
<1>2. /\ DOMAIN RowNames(m) = 1 .. n /\ \A i \in 1 .. n : RowNames(m)[i] = m[i][1].y
      /\ DOMAIN ColumnNames(m) = 1 .. n /\ \A j \in 1 .. n : ColumnNames(m)[j] = m[1][j].x
  BY <1>1 DEF RowNames, ColumnNames
<1>3. RowNames(m) \in Seq(Names) /\ ColumnNames(m) \in Seq(Names)
  <2>1. RowNames(m) \in [1 .. n -> Names]
    BY <1>1 DEF RowNames, Formed, Cells
  <2>2. ColumnNames(m) \in [1 .. n -> Names]
    BY <1>1 DEF ColumnNames, Formed, Cells
  <2>3. QED
    BY <2>1, <2>2, SeqDef
<1>4. Len(RowNames(m)) = n /\ Len(ColumnNames(m)) = n
  BY <1>2, <1>3, LenProperties
<1>5. IsInjective(RowNames(m)) /\ IsInjective(ColumnNames(m))
  <2>1. /\ \A i, k \in 1 .. n : m[i][1].y = m[k][1].y => i = k
        /\ \A j, k \in 1 .. n : m[1][j].x = m[1][k].x => j = k
    BY DEF Formed
  <2>2. IsInjective(RowNames(m))
    BY <1>2, <2>1 DEF IsInjective
  <2>3. IsInjective(ColumnNames(m))
    BY <1>2, <2>1 DEF IsInjective
  <2>4. QED
    BY <2>2, <2>3
<1>6. /\ \A a : a \in DOMAIN Position(RowNames(m)) <=> \E i \in 1 .. n : a = m[i][1].y
      /\ \A i \in 1 .. n : Position(RowNames(m))[m[i][1].y] = i
      /\ IsFiniteSet(DOMAIN Position(RowNames(m)))
  <2>1. /\ \A a : a \in DOMAIN Position(RowNames(m)) <=> \E i \in 1 .. n : a = RowNames(m)[i]
        /\ \A i \in 1 .. n : Position(RowNames(m))[RowNames(m)[i]] = i
        /\ IsFiniteSet(DOMAIN Position(RowNames(m)))
    BY <1>2, <1>3, <1>4, <1>5, PositionIs
  <2>2. QED
    BY <1>2, <2>1
<1>7. /\ \A a : a \in DOMAIN Position(ColumnNames(m)) <=> \E j \in 1 .. n : a = m[1][j].x
      /\ \A j \in 1 .. n : Position(ColumnNames(m))[m[1][j].x] = j
      /\ IsFiniteSet(DOMAIN Position(ColumnNames(m)))
  <2>1. /\ \A a : a \in DOMAIN Position(ColumnNames(m)) <=> \E i \in 1 .. n : a = ColumnNames(m)[i]
        /\ \A i \in 1 .. n : Position(ColumnNames(m))[ColumnNames(m)[i]] = i
        /\ IsFiniteSet(DOMAIN Position(ColumnNames(m)))
    BY <1>2, <1>3, <1>4, <1>5, PositionIs
  <2>2. QED
    BY <1>2, <2>1
<1>8. RowMap(Position(RowNames(m)), m, n) /\ Positive(Position(RowNames(m)))
  <2> DEFINE map == Position(RowNames(m))
  <2>1. \A y \in DOMAIN map : \E i \in 1 .. n : y = m[i][1].y /\ map[y] = i
    BY <1>6
  <2>2. IsFiniteSet(DOMAIN map)
    BY <1>6
  <2> HIDE DEF map
  <2>3. QED
    BY <2>1, <2>2 DEF RowMap, Positive, map
<1>9. ColumnsMap(Position(ColumnNames(m)), m, n) /\ Positive(Position(ColumnNames(m)))
  <2> DEFINE map == Position(ColumnNames(m))
  <2>1. \A x \in DOMAIN map : \E j \in 1 .. n : x = m[1][j].x /\ map[x] = j
    BY <1>7
  <2>2. IsFiniteSet(DOMAIN map)
    BY <1>7
  <2> HIDE DEF map
  <2>3. QED
    BY <2>1, <2>2 DEF ColumnsMap, Positive, map
<1>10. QED
  BY <1>8, <1>9

(* A function on 1 .. n is a sequence of n elements. *)
LEMMA LengthOf ==
  ASSUME NEW n \in Nat, NEW m, NEW S, m \in [1 .. n -> S]
  PROVE  Len(m) = n /\ m \in Seq(S)
<1>1. m \in Seq(S)
  BY SeqDef
<1>2. QED
  BY <1>1, LenProperties

(* What sorting the columns leaves of a matrix. *)
Alike(q, m, n) ==
    /\ Formed(q, n)
    /\ \A k \in 1 .. n : q[k][1].y = m[k][1].y
    /\ \A k, l \in 1 .. n : \E h \in 1 .. n : q[k][l] = m[k][h]

(* Two columns change places: the matrix is formed as it was, its rows keep   *)
(* their names and its cells what belongs to them.                            *)
LEMMA SwapFormed ==
  ASSUME NEW n \in Nat, NEW m, Formed(m, n), NEW i \in 1 .. n, NEW j \in 1 .. n
  PROVE  Alike(SwapColumns(m, i, j), m, n)
<1> DEFINE q == SwapColumns(m, i, j)
           g == [l \in 1 .. n |-> IF l = j THEN i ELSE IF l = i THEN j ELSE l]
<1>1. DOMAIN m = 1 .. n /\ \A k \in 1 .. n : m[k] \in [1 .. n -> Cells]
  BY DEF Formed
<1>2. DOMAIN q = 1 .. n /\ \A k \in 1 .. n : q[k] = [m[k] EXCEPT ![i] = m[k][j], ![j] = m[k][i]]
  BY <1>1 DEF SwapColumns
<1>3. \A k \in 1 .. n : DOMAIN q[k] = 1 .. n /\ \A l \in 1 .. n : q[k][l] = m[k][g[l]]
  BY <1>1, <1>2
<1>4. g \in [1 .. n -> 1 .. n] /\ \A l, h \in 1 .. n : g[l] = g[h] => l = h
  OBVIOUS
<1>5. q = [k \in 1 .. n |-> q[k]]
  BY <1>1 DEF SwapColumns
<1> HIDE DEF q, g
<1>6. \A k \in 1 .. n : q[k] \in [1 .. n -> Cells]
  <2> TAKE k \in 1 .. n
  <2>1. \A l \in 1 .. n : q[k][l] \in Cells
    <3> TAKE l \in 1 .. n
    <3>1. g[l] \in 1 .. n /\ q[k][l] = m[k][g[l]] /\ m[k] \in [1 .. n -> Cells]
      BY <1>1, <1>3, <1>4
    <3> HIDE DEF Cells
    <3>2. QED
      BY <3>1
  <2>2. q[k] = [l \in 1 .. n |-> q[k][l]]
    BY <1>1, <1>2
  <2>3. QED
    BY <2>1, <2>2
<1>7. q \in [1 .. n -> [1 .. n -> Cells]]
  BY <1>5, <1>6
<1>8. \A k, l \in 1 .. n : \E h \in 1 .. n : q[k][l] = m[k][h]
  <2> TAKE k, l \in 1 .. n
  <2>1. g[l] \in 1 .. n /\ q[k][l] = m[k][g[l]]
    BY <1>3, <1>4, Zenon
  <2>2. QED
    BY <2>1
<1>9. \A k \in 1 .. n : q[k][1].y = m[k][1].y
  <2> TAKE k \in 1 .. n
  <2>1. 1 \in 1 .. n /\ g[1] \in 1 .. n /\ q[k][1] = m[k][g[1]]
    BY <1>3, <1>4
  <2>2. QED
    BY <2>1 DEF Formed
<1>10. \A k, l \in 1 .. n : q[k][l].y = q[k][1].y /\ q[k][l].x = q[1][l].x
  <2> TAKE k, l \in 1 .. n
  <2>1. 1 \in 1 .. n /\ g[l] \in 1 .. n
    BY <1>4
  <2>2. q[k][l] = m[k][g[l]] /\ q[1][l] = m[1][g[l]]
    BY <1>3, <2>1, Zenon
  <2>3. QED
    BY <1>9, <2>1, <2>2 DEF Formed
<1>11. \A k, l \in 1 .. n : q[k][1].y = q[l][1].y => k = l
  BY <1>9 DEF Formed
<1>12. \A k, l \in 1 .. n : q[1][k].x = q[1][l].x => k = l
  <2> TAKE k, l \in 1 .. n
  <2>1. 1 \in 1 .. n /\ q[1][k] = m[1][g[k]] /\ q[1][l] = m[1][g[l]] /\ g[k] \in 1 .. n /\ g[l] \in 1 .. n
    BY <1>3, <1>4
  <2>2. \A a, b \in 1 .. n : m[1][a].x = m[1][b].x => a = b
    BY DEF Formed
  <2>3. q[1][k].x = q[1][l].x => g[k] = g[l]
    BY <2>1, <2>2, Zenon
  <2>4. QED
    BY <1>4, <2>3, Zenon
<1>13. QED
  BY <1>7, <1>8, <1>9, <1>10, <1>11, <1>12 DEF Formed, Alike, q

-----------------------------------------------------------------------------
(* Moving cells twice is moving them once. *)
LEMMA AlikeChain ==
  ASSUME NEW n \in Nat, NEW m, NEW q, NEW p, Alike(q, m, n), Alike(p, q, n)
  PROVE  Alike(p, m, n)
<1>1. \A k, l \in 1 .. n : \E h \in 1 .. n : p[k][l] = m[k][h]
  <2> TAKE k, l \in 1 .. n
  <2>1. PICK h \in 1 .. n : p[k][l] = q[k][h]
    BY DEF Alike
  <2>2. PICK g \in 1 .. n : q[k][h] = m[k][g]
    BY DEF Alike
  <2>3. QED
    BY <2>1, <2>2
<1>2. QED
  BY <1>1 DEF Alike

(* A matrix is its own rearrangement. *)
LEMMA AlikeSelf ==
  ASSUME NEW n \in Nat, NEW m, Formed(m, n)
  PROVE  Alike(m, m, n)
BY DEF Alike

(* One pass of the bubble sort over the columns only rearranges the matrix, ... *)
LEMMA PassAlike ==
  ASSUME NEW n \in Nat, NEW m, Formed(m, n)
  PROVE  Alike(Pass(m), m, n)
<1> DEFINE D == {q \in [1 .. n -> [1 .. n -> Cells]] : Alike(q, m, n)}
           Step(i, q) == IF i < n /\ sum_column(q, i) < sum_column(q, i + 1)
                         THEN SwapColumns(q, i, i + 1) ELSE q
           F == [p \in (1 .. n) \X D |-> Step(p[1], p[2])]
           Body(f) == [i \in 0 .. n |-> IF i = 0 THEN m ELSE Step(i, f[i - 1])]
<1>1. Len(m) = n
  BY LengthOf DEF Formed
<1>2. m \in D
  BY AlikeSelf DEF Formed
<1>3. Pass(m) = (CHOOSE f : f = Body(f))[n]
  BY <1>1, Zenon DEF Pass
<1>4. ASSUME NEW i \in 1 .. n, NEW q \in D
      PROVE  Step(i, q) \in D
  <2>1. CASE ~(i < n /\ sum_column(q, i) < sum_column(q, i + 1))
    BY <2>1, Zenon
  <2>2. CASE i < n /\ sum_column(q, i) < sum_column(q, i + 1)
    <3>1. Alike(SwapColumns(q, i, i + 1), q, n)
      <4>1. Formed(q, n) /\ i \in 1 .. n /\ i + 1 \in 1 .. n
        BY <2>2 DEF Alike
      <4>2. QED
        BY <4>1, SwapFormed
    <3>2. Alike(SwapColumns(q, i, i + 1), m, n)
      BY <3>1, AlikeChain
    <3>3. SwapColumns(q, i, i + 1) \in D
      BY <3>2 DEF Alike, Formed
    <3>4. QED
      BY <2>2, <3>3, Zenon
  <2>3. QED
    BY <2>1, <2>2
<1>5. \E f : f = Body(f)
  <2>1. F \in [(1 .. n) \X D -> D]
    <3> HIDE DEF Step, D
    <3>1. QED
      BY <1>4
  <2> HIDE DEF F
  <2>2. PICK g : Walks(g, n, D, m, F)
    BY <1>2, <2>1, Iterated
  <2>3. \A i \in 1 .. n : g[i] = Step(i, g[i - 1])
    <3> HIDE DEF Step, D
    <3> TAKE i \in 1 .. n
    <3>1. g[i - 1] \in D /\ g[i] = F[<<i, g[i - 1]>>]
      BY <2>2 DEF Walks
    <3>2. F[<<i, g[i - 1]>>] = Step(i, g[i - 1])
      BY <3>1 DEF F
    <3>3. QED
      BY <3>1, <3>2
  <2>4. g = Body(g)
    <3> HIDE DEF Step, D
    <3>1. QED
      BY <2>2, <2>3 DEF Walks
  <2>5. QED
    BY <2>4
<1>6. PICK f : f = Body(f) /\ Pass(m) = f[n]
  BY <1>3, <1>5
<1>7. f[0] = m /\ \A i \in 1 .. n : f[i] = Step(i, f[i - 1])
  <2> HIDE DEF Step
  <2>1. QED
    BY <1>6
<1>8. \A i \in 0 .. n : f[i] \in D
  <2> HIDE DEF Step, D
  <2>1. QED
    BY <1>2, <1>4, <1>7, Kept
<1>9. Pass(m) \in D
  <2> HIDE DEF D
  <2>1. QED
    BY <1>6, <1>8
<1>10. QED
  BY <1>9

(* ... and so do all its passes. *)
LEMMA ColumnsSortedAlike ==
  ASSUME NEW n \in Nat, NEW m, Formed(m, n)
  PROVE  Alike(ColumnsSorted(m), m, n)
<1> DEFINE D == {q \in [1 .. n -> [1 .. n -> Cells]] : Alike(q, m, n)}
           F == [p \in (1 .. n) \X D |-> Pass(p[2])]
           Body(f) == [i \in 0 .. n |-> IF i = 0 THEN m ELSE Pass(f[i - 1])]
<1>1. Len(m) = n
  BY LengthOf DEF Formed
<1>2. m \in D
  BY AlikeSelf DEF Formed
<1>3. ColumnsSorted(m) = (CHOOSE f : f = Body(f))[n]
  BY <1>1, Zenon DEF ColumnsSorted
<1>4. ASSUME NEW q \in D
      PROVE  Pass(q) \in D
  <2>1. Alike(Pass(q), q, n)
    <3>1. Formed(q, n)
      BY DEF Alike
    <3>2. QED
      BY <3>1, PassAlike
  <2>2. Alike(Pass(q), m, n)
    BY <2>1, AlikeChain
  <2>3. QED
    BY <2>2 DEF Alike, Formed
<1>5. \E f : f = Body(f)
  <2>1. F \in [(1 .. n) \X D -> D]
    <3> HIDE DEF D
    <3>1. QED
      BY <1>4
  <2> HIDE DEF F
  <2>2. PICK g : Walks(g, n, D, m, F)
    BY <1>2, <2>1, Iterated
  <2>3. \A i \in 1 .. n : g[i] = Pass(g[i - 1])
    <3> HIDE DEF D
    <3> TAKE i \in 1 .. n
    <3>1. g[i - 1] \in D /\ g[i] = F[<<i, g[i - 1]>>]
      BY <2>2 DEF Walks
    <3>2. F[<<i, g[i - 1]>>] = Pass(g[i - 1])
      BY <3>1 DEF F
    <3>3. QED
      BY <3>1, <3>2
  <2>4. g = Body(g)
    <3> HIDE DEF D
    <3>1. QED
      BY <2>2, <2>3 DEF Walks
  <2>5. QED
    BY <2>4
<1>6. PICK f : f = Body(f) /\ ColumnsSorted(m) = f[n]
  BY <1>3, <1>5
<1>7. f[0] = m /\ \A i \in 1 .. n : f[i] = Pass(f[i - 1])
  BY <1>6
<1>8. \A i \in 0 .. n : f[i] \in D
  <2> HIDE DEF D
  <2>1. QED
    BY <1>2, <1>4, <1>7, Kept
<1>9. ColumnsSorted(m) \in D
  <2> HIDE DEF D
  <2>1. QED
    BY <1>6, <1>8
<1>10. QED
  BY <1>9

(* std::sort() of the rows gives each row a row of the matrix. *)
LEMMA RowsSortedFormed ==
  ASSUME NEW n \in Nat, NEW m, Formed(m, n), NEW q \in RowsSorted(m)
  PROVE  /\ Formed(q, n) /\ Len(q) = n
         /\ \A k \in 1 .. n : \E h \in 1 .. n : q[k] = m[h]
<1>1. PICK f \in Bijection(DOMAIN m, DOMAIN m) : q = [i \in DOMAIN m |-> m[f[i]]]
  BY DEF RowsSorted
<1>2. DOMAIN m = 1 .. n /\ m \in [1 .. n -> [1 .. n -> Cells]]
  BY DEF Formed
<1>3. f \in [1 .. n -> 1 .. n] /\ \A i, k \in 1 .. n : f[i] = f[k] => i = k
  BY <1>1, <1>2 DEF Bijection, Injection, IsInjective
<1>4. \A i \in 1 .. n : f[i] \in 1 .. n /\ q[i] = m[f[i]]
  BY <1>1, <1>2, <1>3
<1>5. q \in [1 .. n -> [1 .. n -> Cells]]
  BY <1>1, <1>2, <1>4
<1>6. \A i, j \in 1 .. n : q[i][j].y = q[i][1].y /\ q[i][j].x = q[1][j].x
  <2> TAKE i, j \in 1 .. n
  <2>1. 1 \in 1 .. n /\ f[1] \in 1 .. n /\ q[1] = m[f[1]] /\ f[i] \in 1 .. n /\ q[i] = m[f[i]]
    BY <1>4
  <2>2. m[f[i]][j].y = m[f[i]][1].y /\ m[f[i]][j].x = m[1][j].x /\ m[f[1]][j].x = m[1][j].x
    BY <2>1 DEF Formed
  <2>3. QED
    BY <2>1, <2>2
<1>7. \A i, k \in 1 .. n : q[i][1].y = q[k][1].y => i = k
  <2> TAKE i, k \in 1 .. n
  <2>1. m[f[i]][1].y = m[f[k]][1].y => f[i] = f[k]
    BY <1>4 DEF Formed
  <2>2. QED
    BY <1>3, <1>4, <2>1
<1>8. \A j, k \in 1 .. n : q[1][j].x = q[1][k].x => j = k
  <2> TAKE j, k \in 1 .. n
  <2>1. 1 \in 1 .. n /\ f[1] \in 1 .. n /\ q[1] = m[f[1]]
    BY <1>4
  <2>2. m[f[1]][j].x = m[1][j].x /\ m[f[1]][k].x = m[1][k].x
    BY <2>1 DEF Formed
  <2>3. QED
    BY <2>1, <2>2 DEF Formed
<1>9. Len(q) = n
  BY <1>5, LengthOf
<1>10. Formed(q, n)
  BY <1>5, <1>6, <1>7, <1>8 DEF Formed
<1>11. QED
  BY <1>4, <1>9, <1>10

(* Something is added to each cell. *)
Raised(m, n, D) ==
    [i \in 1 .. n |-> [j \in 1 .. n |->
        [y |-> m[i][j].y, x |-> m[i][j].x, w |-> m[i][j].w + D[i][j]]]]

(* Adding to the weights leaves the places of the cells as they are. *)
LEMMA RaisedFormed ==
  ASSUME NEW n \in Nat, NEW m, Formed(m, n), NEW D \in [1 .. n -> [1 .. n -> Int]]
  PROVE  Formed(Raised(m, n, D), n) /\ Len(Raised(m, n, D)) = n
<1> DEFINE q == Raised(m, n, D)
<1>1. \A i, j \in 1 .. n : m[i][j] \in Cells /\ D[i][j] \in Int
  BY DEF Formed
<1>2. \A i, j \in 1 .. n : /\ q[i][j].y = m[i][j].y /\ q[i][j].x = m[i][j].x
                          /\ q[i][j].w = m[i][j].w + D[i][j]
  BY DEF Raised
<1>3. q \in [1 .. n -> [1 .. n -> Cells]]
  <2>1. ASSUME NEW i \in 1 .. n, NEW j \in 1 .. n
        PROVE  [y |-> m[i][j].y, x |-> m[i][j].x, w |-> m[i][j].w + D[i][j]] \in Cells
    <3>1. m[i][j] \in Cells /\ D[i][j] \in Int
      BY <1>1
    <3>2. m[i][j].y \in Names /\ m[i][j].x \in Names /\ m[i][j].w \in Int
      BY <3>1 DEF Cells
    <3>3. m[i][j].w + D[i][j] \in Int
      BY <3>1, <3>2
    <3>4. \A a, b \in Names, c \in Int : [y |-> a, x |-> b, w |-> c] \in Cells
      BY SMTT(60) DEF Cells
    <3>5. QED
      BY <3>2, <3>3, <3>4, Zenon
  <2> HIDE DEF Cells
  <2>2. QED
    BY <2>1 DEF Raised
<1> HIDE DEF q
<1>4. Len(q) = n
  BY <1>3, LengthOf
<1>5. Formed(q, n)
  BY <1>2, <1>3 DEF Formed
<1>6. QED
  BY <1>4, <1>5 DEF q

(* What was added to the cells was added to the names they carry. *)
LEMMA RaisedRight ==
  ASSUME NEW n \in Nat, n > 0, NEW m, Formed(m, n), NEW D \in [1 .. n -> [1 .. n -> Int]],
         NEW sums, NEW raised, NEW rows, NEW columns, Right(m, n, sums, rows, columns),
         \A i, j \in 1 .. n : raised[<<m[i][j].y, m[i][j].x>>]
                             = sums[<<m[i][j].y, m[i][j].x>>] + D[i][j]
  PROVE  Right(Raised(m, n, D), n, raised, rows, columns)
<1> DEFINE q == Raised(m, n, D)
<1>1. \A i, j \in 1 .. n : /\ q[i][j].y = m[i][j].y /\ q[i][j].x = m[i][j].x
                          /\ q[i][j].w = m[i][j].w + D[i][j]
  BY DEF Raised
<1> HIDE DEF q
<1>2. Weighed(q, n, raised)
  <2>1. ASSUME NEW i \in 1 .. n, NEW j \in 1 .. n
        PROVE  q[i][j].w = raised[<<q[i][j].y, q[i][j].x>>]
    <3>1. q[i][j].y = m[i][j].y /\ q[i][j].x = m[i][j].x /\ q[i][j].w = m[i][j].w + D[i][j]
      BY <1>1
    <3>2. m[i][j].w = sums[<<m[i][j].y, m[i][j].x>>]
      BY DEF Right, Weighed
    <3>3. QED
      BY <3>1, <3>2
  <2>2. QED
    BY <2>1 DEF Weighed
<1>3. 1 \in 1 .. n
  OBVIOUS
<1>4. \A i \in 1 .. n : q[i][1].y = m[i][1].y /\ q[1][i].x = m[1][i].x
  BY <1>1, <1>3, Zenon
<1>5. RowMap(rows, q, n) /\ ColumnsMap(columns, q, n)
  BY <1>4 DEF RowMap, ColumnsMap, Right
<1>6. QED
  BY <1>2, <1>5 DEF Right, q

-----------------------------------------------------------------------------
(* The empty matrix has nothing to find. *)
LEMMA AdjStart == AdjInit => AdjIInv
<1> SUFFICES ASSUME AdjInit PROVE AdjIInv
  OBVIOUS
<1>1. size = 0
  BY DEF AdjInit, size
<1>2. Formed(matr, 0)
  <2>1. <<>> \in [1 .. 0 -> [1 .. 0 -> Cells]]
    OBVIOUS
  <2>2. QED
    BY <2>1 DEF AdjInit, Formed
<1>3. IsFiniteSet({})
  BY FS_EmptySet
<1>4. DOMAIN x_vertex_names = {} /\ DOMAIN y_vertex_names = {}
  BY DEF AdjInit
<1>5. Positive(x_vertex_names) /\ Positive(y_vertex_names)
  BY <1>3, <1>4 DEF Positive
<1>6. weight \in [Pairs -> Int]
  BY DEF AdjInit, NoWeight
<1>7. QED
  BY <1>1, <1>2, <1>5, <1>6 DEF AdjIInv

(* A map that gets the names of a list, and keeps older ones. *)
LEMMA MapReset ==
  ASSUME NEW n \in Nat, NEW S, NEW names \in Seq(S), Len(names) = n, IsInjective(names),
         NEW old, Positive(old), NEW map, map = Overwritten(old, Position(names))
  PROVE  /\ Positive(map)
         /\ \A i \in 1 .. n : map[names[i]] = i
         /\ Cardinality(DOMAIN map) = n
            => \A m : m \in DOMAIN map <=> \E i \in 1 .. n : m = names[i]
<1> DEFINE new == Position(names)
<1>1. /\ \A m : m \in DOMAIN new <=> \E i \in 1 .. n : m = names[i]
      /\ \A i \in 1 .. n : new[names[i]] = i
      /\ IsFiniteSet(DOMAIN new) /\ Cardinality(DOMAIN new) = n
  BY PositionIs
<1> HIDE DEF new
<1>2. /\ DOMAIN map = DOMAIN old \cup DOMAIN new
      /\ \A m \in DOMAIN map : map[m] = IF m \in DOMAIN new THEN new[m] ELSE old[m]
  BY DEF Overwritten, new
<1>3. IsFiniteSet(DOMAIN map)
  <2>1. IsFiniteSet(DOMAIN old) /\ IsFiniteSet(DOMAIN new)
    BY <1>1 DEF Positive
  <2>2. QED
    BY <1>2, <2>1, FS_Union
<1>4. \A m \in DOMAIN new : new[m] \in Nat \ {0}
  BY <1>1
<1>5. Positive(map)
  BY <1>2, <1>3, <1>4 DEF Positive
<1>6. Cardinality(DOMAIN map) = n => DOMAIN map = DOMAIN new
  BY <1>1, <1>2, <1>3, FS_Subset
<1>7. \A i \in 1 .. n : map[names[i]] = i
  BY <1>1, <1>2
<1>8. QED
  BY <1>1, <1>5, <1>6, <1>7

(* reset() builds a cell for each pair of names. *)
LEMMA ResetStep ==
  ASSUME AdjIInv, ~asserted, NEW names \in VERTEX_LISTS, AdjReset(names)
  PROVE  AdjIInv'
<1> DEFINE n == Len(names)
<1>1. /\ names \in Seq(ToSet(names)) /\ IsInjective(names) /\ n \in Nat
      /\ DOMAIN names = 1 .. n /\ \A i \in 1 .. n : names[i] \in Names
  <2>1. names \in Seq(ToSet(names)) /\ IsInjective(names) /\ ToSet(names) \subseteq Names
    BY ListsAssumption DEF Names
  <2>2. QED
    BY <2>1, LenProperties
<1> HIDE DEF n
<1>2. /\ matr' = [i \in 1 .. n |-> [j \in 1 .. n |-> [y |-> names[i], x |-> names[j], w |-> 0]]]
      /\ weight' = NoWeight
  BY <1>1 DEF AdjReset, BlankMatrix
<1>3. Formed(matr', n)
  <2>1. matr' \in [1 .. n -> [1 .. n -> Cells]]
    BY <1>1, <1>2 DEF Cells
  <2>2. \A i, j \in 1 .. n : matr'[i][j].y = names[i] /\ matr'[i][j].x = names[j]
    BY <1>2
  <2>3. \A i, j \in 1 .. n : names[i] = names[j] => i = j
    BY <1>1 DEF IsInjective
  <2>4. \A i \in 1 .. n : 1 \in 1 .. n
    BY <1>1
  <2> DEFINE q == matr'
  <2> HIDE DEF q
  <2>5. Formed(q, n)
    BY <2>1, <2>2, <2>3, <2>4 DEF Formed, q
  <2>6. QED
    BY <2>5 DEF q
<1>4. size' = n
  <2>1. matr' \in [1 .. n -> [1 .. n -> Cells]]
    BY <1>3 DEF Formed
  <2>2. QED
    BY <1>1, <2>1, LengthOf DEF size
<1>5. weight' \in [Pairs -> Int]
  BY <1>2 DEF NoWeight
<1>6. Weighed(matr', n, weight')
  <2>1. \A i, j \in 1 .. n : <<names[i], names[j]>> \in Pairs
    BY <1>1 DEF Pairs
  <2>2. QED
    BY <1>2, <2>1 DEF Weighed, NoWeight
<1>7. /\ Positive(x_vertex_names')
      /\ \A i \in 1 .. n : x_vertex_names'[names[i]] = i
      /\ Cardinality(DOMAIN x_vertex_names') = n
            => \A m : m \in DOMAIN x_vertex_names' <=> \E i \in 1 .. n : m = names[i]
  <2>1. Positive(x_vertex_names) /\ x_vertex_names' = Overwritten(x_vertex_names, Position(names))
    BY DEF AdjReset, AdjIInv
  <2>2. Len(names) = n
    BY DEF n
  <2>3. QED
    BY <1>1, <2>1, <2>2, MapReset
<1>8. /\ Positive(y_vertex_names')
      /\ \A i \in 1 .. n : y_vertex_names'[names[i]] = i
      /\ Cardinality(DOMAIN y_vertex_names') = n
            => \A m : m \in DOMAIN y_vertex_names' <=> \E i \in 1 .. n : m = names[i]
  <2>1. Positive(y_vertex_names) /\ y_vertex_names' = Overwritten(y_vertex_names, Position(names))
    BY DEF AdjReset, AdjIInv
  <2>2. Len(names) = n
    BY DEF n
  <2>3. QED
    BY <1>1, <2>1, <2>2, MapReset
<1>9. ~asserted' => /\ Cardinality(DOMAIN x_vertex_names') = n
                    /\ Cardinality(DOMAIN y_vertex_names') = n
  BY DEF AdjReset, n
<1>10. ~asserted' /\ n > 0 => /\ RowMap(y_vertex_names', matr', n)
                              /\ ColumnsMap(x_vertex_names', matr', n)
  <2> SUFFICES ASSUME ~asserted', n > 0
               PROVE  /\ RowMap(y_vertex_names', matr', n)
                      /\ ColumnsMap(x_vertex_names', matr', n)
    OBVIOUS
  <2>1. \A i \in 1 .. n : matr'[i][1].y = names[i] /\ matr'[1][i].x = names[i]
    BY <1>1, <1>2
  <2>2. RowMap(y_vertex_names', matr', n)
    BY <1>8, <1>9, <2>1 DEF RowMap
  <2>3. ColumnsMap(x_vertex_names', matr', n)
    BY <1>7, <1>9, <2>1 DEF ColumnsMap
  <2>4. QED
    BY <2>2, <2>3
<1>11. QED
  BY <1>1, <1>3, <1>4, <1>5, <1>6, <1>7, <1>8, <1>10 DEF AdjIInv, Right

(* clear() leaves no name and no cell. *)
LEMMA ClearStep ==
  ASSUME AdjIInv, ~asserted, AdjClear
  PROVE  AdjIInv'
<1>1. size' = 0 /\ matr' = <<>> /\ weight' = NoWeight
      /\ UNCHANGED <<x_vertex_names, y_vertex_names>>
  BY DEF AdjClear, size
<1>2. Formed(matr', 0)
  <2>1. <<>> \in [1 .. 0 -> [1 .. 0 -> Cells]]
    OBVIOUS
  <2>2. QED
    BY <1>1, <2>1 DEF Formed
<1>3. weight' \in [Pairs -> Int]
  BY <1>1 DEF NoWeight
<1>4. Positive(x_vertex_names') /\ Positive(y_vertex_names')
  BY <1>1 DEF AdjIInv
<1>5. QED
  BY <1>1, <1>2, <1>3, <1>4 DEF AdjIInv

(* The names of a cell say where it is. *)
LEMMA PlaceOfNames ==
  ASSUME NEW n \in Nat, NEW m, Formed(m, n), NEW rows, RowMap(rows, m, n),
         NEW columns, ColumnsMap(columns, m, n), NEW y \in DOMAIN rows, NEW x \in DOMAIN columns
  PROVE  /\ rows[y] \in 1 .. n /\ columns[x] \in 1 .. n
         /\ \A i, j \in 1 .. n :
                m[i][j].y = y /\ m[i][j].x = x <=> i = rows[y] /\ j = columns[x]
<1>1. /\ rows[y] \in 1 .. n /\ m[rows[y]][1].y = y
      /\ columns[x] \in 1 .. n /\ m[1][columns[x]].x = x
  BY DEF RowMap, ColumnsMap
<1>2. ASSUME NEW i \in 1 .. n, NEW j \in 1 .. n
      PROVE  m[i][j].y = y /\ m[i][j].x = x <=> i = rows[y] /\ j = columns[x]
  <2>1. m[i][j].y = m[i][1].y /\ m[i][j].x = m[1][j].x
    BY DEF Formed
  <2>2. m[i][1].y = m[rows[y]][1].y <=> i = rows[y]
    BY <1>1 DEF Formed
  <2>3. m[1][j].x = m[1][columns[x]].x <=> j = columns[x]
    BY <1>1 DEF Formed
  <2>4. QED
    BY <1>1, <2>1, <2>2, <2>3
<1>3. QED
  BY <1>1, <1>2

(* Weights added in their cells and in the history go up alike. *)
LEMMA RaisedStep ==
  ASSUME AdjIInv, ~asserted, NEW D \in [1 .. size -> [1 .. size -> Int]],
         matr' = Raised(matr, size, D), weight' \in [Pairs -> Int],
         ~columns_swapped /\ size > 0 =>
            \A i, j \in 1 .. size : weight'[<<matr[i][j].y, matr[i][j].x>>]
                                    = weight[<<matr[i][j].y, matr[i][j].x>>] + D[i][j],
         UNCHANGED <<x_vertex_names, y_vertex_names, columns_swapped, asserted>>
  PROVE  AdjIInv'
<1>1. size \in Nat /\ Formed(matr, size)
  BY DEF AdjIInv
<1>2. Formed(matr', size) /\ Len(matr') = size
  BY <1>1, RaisedFormed
<1>3. size' = size
  BY <1>2 DEF size
<1>4. ASSUME ~columns_swapped, size > 0
      PROVE  Right(matr', size, weight', y_vertex_names, x_vertex_names)
  <2>1. Right(matr, size, weight, y_vertex_names, x_vertex_names)
    BY <1>4 DEF AdjIInv
  <2>2. QED
    BY <1>1, <1>4, <2>1, RaisedRight
<1>5. QED
  BY <1>1, <1>2, <1>3, <1>4 DEF AdjIInv

(* A cell with another weight keeps its names. *)
LEMMA CellPlus ==
  ASSUME NEW c \in Cells, NEW d
  PROVE  /\ c = [y |-> c.y, x |-> c.x, w |-> c.w]
         /\ [c EXCEPT !.w = c.w + d] = [y |-> c.y, x |-> c.x, w |-> c.w + d]
BY DEF Cells

(* A matrix is what its cells are. *)
LEMMA RaisedIs ==
  ASSUME NEW n \in Nat, NEW m, NEW q, NEW D,
         q = [i \in 1 .. n |-> [j \in 1 .. n |-> q[i][j]]],
         \A i, j \in 1 .. n :
            q[i][j] = [y |-> m[i][j].y, x |-> m[i][j].x, w |-> m[i][j].w + D[i][j]]
  PROVE  q = Raised(m, n, D)
BY Zenon DEF Raised

(* increase() adds one in the cell the two names lead to. *)
LEMMA IncreaseStep ==
  ASSUME AdjIInv, ~asserted, NEW p \in Pairs, AdjIncrease(p[1], p[2])
  PROVE  AdjIInv'
<1> DEFINE y == p[1]
           x == p[2]
           a == y_vertex_names[y]
           b == x_vertex_names[x]
           D == [i \in 1 .. size |-> [j \in 1 .. size |-> IF i = a /\ j = b THEN 1 ELSE 0]]
<1>1. size \in Nat /\ Formed(matr, size) /\ weight \in [Pairs -> Int]
      /\ Positive(x_vertex_names) /\ Positive(y_vertex_names)
  BY DEF AdjIInv
<1>2. p = <<y, x>>
  BY DEF Pairs
<1>3. a \in 1 .. size /\ b \in 1 .. size /\ y \in DOMAIN y_vertex_names /\ x \in DOMAIN x_vertex_names
  BY <1>1 DEF AdjIncrease, InMatrix, Found, Positive
<1>4. D \in [1 .. size -> [1 .. size -> Int]]
  OBVIOUS
<1>5. matr' = Raised(matr, size, D)
  <2>1. matr \in [1 .. size -> [1 .. size -> Cells]]
    BY <1>1 DEF Formed
  <2>2. \A i, j \in 1 .. size : /\ matr[i][j] \in Cells /\ matr[i][j].w \in Int
                               /\ matr[i][j] = [y |-> matr[i][j].y, x |-> matr[i][j].x,
                                               w |-> matr[i][j].w + 0]
    <3> TAKE i, j \in 1 .. size
    <3>1. matr[i][j] \in Cells
      BY <2>1
    <3>2. matr[i][j].w \in Int
      BY <3>1 DEF Cells
    <3>3. matr[i][j] = [y |-> matr[i][j].y, x |-> matr[i][j].x, w |-> matr[i][j].w]
      BY <3>1, CellPlus
    <3>4. matr[i][j].w = matr[i][j].w + 0
      BY <3>2
    <3>5. QED
      BY <3>1, <3>2, <3>3, <3>4
  <2>3. matr' = [matr EXCEPT ![a] = [matr[a] EXCEPT ![b] = [matr[a][b] EXCEPT !.w = matr[a][b].w + 1]]]
    BY DEF AdjIncrease, PlusAt
  <2>4. [matr[a][b] EXCEPT !.w = matr[a][b].w + 1]
            = [y |-> matr[a][b].y, x |-> matr[a][b].x, w |-> matr[a][b].w + 1]
    BY <1>3, <2>2, CellPlus
  <2> DEFINE c == [y |-> matr[a][b].y, x |-> matr[a][b].x, w |-> matr[a][b].w + 1]
             r == [matr[a] EXCEPT ![b] = c]
  <2> HIDE DEF c, a, b, Cells
  <2>5. /\ DOMAIN matr' = 1 .. size /\ \A i \in 1 .. size : matr'[i] = IF i = a THEN r ELSE matr[i]
        /\ matr' = [i \in 1 .. size |-> matr'[i]]
    BY <1>3, <2>1, <2>3, <2>4 DEF c
  <2>6. DOMAIN r = 1 .. size /\ \A j \in 1 .. size : r[j] = IF j = b THEN c ELSE matr[a][j]
    BY <1>3, <2>1
  <2>7. \A i \in 1 .. size : matr'[i] = [j \in 1 .. size |-> matr'[i][j]]
    <3>1. r = [j \in 1 .. size |-> r[j]]
      BY <1>3, <2>6
    <3>2. \A i \in 1 .. size : matr[i] = [j \in 1 .. size |-> matr[i][j]]
      BY <2>1
    <3> HIDE DEF r
    <3>3. QED
      BY <2>5, <3>1, <3>2
  <2>8. matr' = [i \in 1 .. size |-> [j \in 1 .. size |-> matr'[i][j]]]
    BY <2>5, <2>7, Zenon
  <2>9. \A i, j \in 1 .. size : matr'[i][j]
            = [y |-> matr[i][j].y, x |-> matr[i][j].x, w |-> matr[i][j].w + D[i][j]]
    <3> TAKE i, j \in 1 .. size
    <3> HIDE DEF r
    <3>1. D[i][j] = IF i = a /\ j = b THEN 1 ELSE 0
      BY Zenon
    <3>2. CASE i = a /\ j = b
      BY <2>5, <2>6, <3>1, <3>2 DEF c
    <3>3. CASE ~(i = a /\ j = b)
      <4>1. matr'[i][j] = matr[i][j]
        BY <2>5, <2>6, <3>3
      <4>2. QED
        BY <2>2, <3>1, <3>3, <4>1
    <3>4. QED
      BY <3>2, <3>3
  <2> HIDE DEF D
  <2>10. QED
    BY <1>1, <2>8, <2>9, RaisedIs
<1>6. /\ weight' \in [Pairs -> Int]
      /\ \A e \in Pairs : weight'[e] = weight[e] + (IF e = p THEN 1 ELSE 0)
  <2>1. weight' = [weight EXCEPT ![p] = weight[p] + 1]
    BY <1>2 DEF AdjIncrease
  <2> HIDE DEF Pairs
  <2>2. QED
    BY <1>1, <2>1
<1>7. ASSUME ~columns_swapped, NEW i \in 1 .. size, NEW j \in 1 .. size
      PROVE  weight'[<<matr[i][j].y, matr[i][j].x>>]
                = weight[<<matr[i][j].y, matr[i][j].x>>] + D[i][j]
  <2>1. RowMap(y_vertex_names, matr, size) /\ ColumnsMap(x_vertex_names, matr, size)
    BY <1>1, <1>7 DEF AdjIInv, Right
  <2>2. matr[i][j].y = y /\ matr[i][j].x = x <=> i = a /\ j = b
    BY <1>1, <1>3, <2>1, PlaceOfNames
  <2>3. matr[i][j] \in Cells
    BY <1>1 DEF Formed
  <2> DEFINE e == <<matr[i][j].y, matr[i][j].x>>
  <2>4. e \in Pairs
    BY <2>3 DEF Cells, Pairs
  <2>5. e = p <=> i = a /\ j = b
    BY <1>2, <2>2
  <2>6. D[i][j] = IF i = a /\ j = b THEN 1 ELSE 0
    BY Zenon
  <2> HIDE DEF e, a, b, D
  <2>7. QED
    BY <1>6, <2>4, <2>5, <2>6 DEF e
<1>8. UNCHANGED <<x_vertex_names, y_vertex_names, columns_swapped, asserted>>
  BY DEF AdjIncrease
<1> HIDE DEF D
<1>9. QED
  BY <1>4, <1>5, <1>6, <1>7, <1>8, RaisedStep

(* operator+=() adds the other matrix cell by cell. *)
LEMMA PlusStep ==
  ASSUME AdjIInv, ~asserted, NEW names \in VERTEX_LISTS, AdjPlus(names)
  PROVE  AdjIInv'
<1>1. PICK met \in SUBSET ToSet(names) :
        /\ \A n \in met : InMatrix(n, n)
        /\ matr' = [i \in DOMAIN matr |-> [j \in DOMAIN matr[i] |->
                IF \E n \in met : i = y_vertex_names[n] /\ j = x_vertex_names[n]
                THEN [matr[i][j] EXCEPT !.w = @ + 1] ELSE matr[i][j]]]
        /\ weight' = [p \in Pairs |->
                weight[p] + (IF p[1] = p[2] /\ p[1] \in met THEN 1 ELSE 0)]
  BY DEF AdjPlus
<1> DEFINE On(i, j) == \E n \in met : i = y_vertex_names[n] /\ j = x_vertex_names[n]
           D == [i \in 1 .. size |-> [j \in 1 .. size |-> IF On(i, j) THEN 1 ELSE 0]]
<1>2. size \in Nat /\ Formed(matr, size) /\ weight \in [Pairs -> Int]
  BY DEF AdjIInv
<1>3. D \in [1 .. size -> [1 .. size -> Int]]
  <2> HIDE DEF On
  <2>1. QED
    OBVIOUS
<1>4. matr \in [1 .. size -> [1 .. size -> Cells]]
  BY <1>2 DEF Formed
<1>5. /\ matr' = [i \in 1 .. size |-> [j \in 1 .. size |-> matr'[i][j]]]
      /\ \A i, j \in 1 .. size :
            matr'[i][j] = IF On(i, j) THEN [matr[i][j] EXCEPT !.w = matr[i][j].w + 1] ELSE matr[i][j]
  <2>1. DOMAIN matr = 1 .. size /\ \A i \in 1 .. size : DOMAIN matr[i] = 1 .. size
    BY <1>4
  <2>2. matr' = [i \in DOMAIN matr |-> [j \in DOMAIN matr[i] |->
                IF On(i, j) THEN [matr[i][j] EXCEPT !.w = matr[i][j].w + 1] ELSE matr[i][j]]]
    BY <1>1
  <2> HIDE DEF On
  <2>3. QED
    BY <2>1, <2>2
<1>6. matr' = Raised(matr, size, D)
  <2>1. \A i, j \in 1 .. size : matr'[i][j]
            = [y |-> matr[i][j].y, x |-> matr[i][j].x, w |-> matr[i][j].w + D[i][j]]
    <3> TAKE i, j \in 1 .. size
    <3> HIDE DEF On
    <3>1. matr[i][j] \in Cells
      BY <1>4
    <3>2. /\ matr[i][j].w \in Int
          /\ matr[i][j] = [y |-> matr[i][j].y, x |-> matr[i][j].x, w |-> matr[i][j].w]
      BY <3>1, CellPlus DEF Cells
    <3>3. D[i][j] = IF On(i, j) THEN 1 ELSE 0
      BY Zenon
    <3> HIDE DEF D
    <3>4. CASE On(i, j)
      <4>1. matr'[i][j] = [matr[i][j] EXCEPT !.w = matr[i][j].w + 1] /\ D[i][j] = 1
        BY <1>5, <3>3, <3>4
      <4>2. [matr[i][j] EXCEPT !.w = matr[i][j].w + 1]
                = [y |-> matr[i][j].y, x |-> matr[i][j].x, w |-> matr[i][j].w + 1]
        BY <3>1, CellPlus
      <4>3. QED
        BY <4>1, <4>2
    <3>5. CASE ~On(i, j)
      <4>1. matr'[i][j] = matr[i][j] /\ D[i][j] = 0
        BY <1>5, <3>3, <3>5
      <4>2. matr[i][j].w = matr[i][j].w + D[i][j]
        BY <3>2, <4>1
      <4>3. QED
        BY <3>2, <4>1, <4>2
    <3>6. QED
      BY <3>4, <3>5
  <2> HIDE DEF D
  <2>2. QED
    BY <1>2, <1>5, <2>1, RaisedIs
<1>7. /\ weight' \in [Pairs -> Int]
      /\ \A y, x \in Names : weight'[<<y, x>>] = weight[<<y, x>>] + (IF y = x /\ y \in met THEN 1 ELSE 0)
  BY <1>1, <1>2 DEF Pairs
<1>8. ASSUME ~columns_swapped, NEW i \in 1 .. size, NEW j \in 1 .. size
      PROVE  weight'[<<matr[i][j].y, matr[i][j].x>>]
                = weight[<<matr[i][j].y, matr[i][j].x>>] + D[i][j]
  <2>1. RowMap(y_vertex_names, matr, size) /\ ColumnsMap(x_vertex_names, matr, size)
    BY <1>2, <1>8 DEF AdjIInv, Right
  <2>2. ASSUME NEW n \in met
        PROVE  matr[i][j].y = n /\ matr[i][j].x = n
                  <=> i = y_vertex_names[n] /\ j = x_vertex_names[n]
    <3>1. n \in DOMAIN y_vertex_names /\ n \in DOMAIN x_vertex_names
      BY <1>1 DEF InMatrix, Found
    <3>2. QED
      BY <1>2, <2>1, <3>1, PlaceOfNames
  <2>3. On(i, j) <=> matr[i][j].y = matr[i][j].x /\ matr[i][j].y \in met
    BY <2>2
  <2>4. matr[i][j].y \in Names /\ matr[i][j].x \in Names
    BY <1>4 DEF Cells
  <2> HIDE DEF On
  <2>5. D[i][j] = IF On(i, j) THEN 1 ELSE 0
    BY Zenon
  <2> HIDE DEF D
  <2>6. QED
    BY <1>7, <2>3, <2>4, <2>5
<1>9. UNCHANGED <<x_vertex_names, y_vertex_names, columns_swapped, asserted>>
  BY DEF AdjPlus
<1> HIDE DEF D
<1>10. QED
  BY <1>3, <1>6, <1>7, <1>8, <1>9, RaisedStep

-----------------------------------------------------------------------------
(* Sorting keeps the cells with their weights and the names where they lead. *)
LEMMA SortedRowsRight ==
  ASSUME NEW n \in Nat, n > 0, NEW m, Formed(m, n), NEW q \in RowsSorted(m), NEW sums,
         NEW rows, NEW columns, Right(m, n, sums, rows, columns)
  PROVE  Right(q, n, sums, Position(RowNames(q)), columns)
<1>1. Formed(q, n) /\ Len(q) = n /\ \A k \in 1 .. n : \E h \in 1 .. n : q[k] = m[h]
  BY RowsSortedFormed
<1>2. RowMap(Position(RowNames(q)), q, n)
  BY <1>1, MapsMade
<1>3. Weighed(q, n, sums)
  <2>1. \A k, l \in 1 .. n : q[k][l].w = sums[<<q[k][l].y, q[k][l].x>>]
    <3> TAKE k, l \in 1 .. n
    <3>1. PICK h \in 1 .. n : q[k] = m[h]
      BY <1>1
    <3>2. QED
      BY <3>1 DEF Right, Weighed
  <2>2. QED
    BY <2>1 DEF Weighed
<1>4. ColumnsMap(columns, q, n)
  <2>1. 1 \in 1 .. n
    OBVIOUS
  <2>2. PICK h \in 1 .. n : q[1] = m[h]
    BY <1>1, <2>1
  <2>3. \A j \in 1 .. n : q[1][j].x = m[1][j].x
    BY <2>2 DEF Formed
  <2>4. QED
    BY <2>3 DEF Right, ColumnsMap
<1>5. QED
  BY <1>2, <1>3, <1>4 DEF Right

(* Sorting the columns keeps the shape of the matrix. *)
LEMMA ColumnsSortedFormed ==
  ASSUME NEW n \in Nat, NEW m, Formed(m, n)
  PROVE  Formed(ColumnsSorted(m), n) /\ Len(ColumnsSorted(m)) = n
<1> DEFINE q == ColumnsSorted(m)
<1>1. Formed(q, n)
  BY ColumnsSortedAlike DEF Alike
<1> HIDE DEF q
<1>2. q \in [1 .. n -> [1 .. n -> Cells]]
  BY <1>1 DEF Formed
<1>3. Len(q) = n
  BY <1>2, LengthOf
<1>4. QED
  BY <1>1, <1>3 DEF q

(* After the sort the columns' names are those of the first row's cells. *)
LEMMA SortedColumnsRight ==
  ASSUME NEW n \in Nat, n > 0, NEW m, Formed(m, n), NEW sums,
         NEW rows, NEW columns, Right(m, n, sums, rows, columns)
  PROVE  Right(ColumnsSorted(m), n, sums, rows, Position(ColumnNames(ColumnsSorted(m))))
<1> DEFINE q == ColumnsSorted(m)
<1>1. Alike(q, m, n)
  BY ColumnsSortedAlike
<1> HIDE DEF q
<1>2. Formed(q, n) /\ Len(q) = n
  BY <1>1, LengthOf DEF Alike, Formed
<1>3. ColumnsMap(Position(ColumnNames(q)), q, n)
  BY <1>2, MapsMade
<1>4. Weighed(q, n, sums)
  <2>1. \A k, l \in 1 .. n : q[k][l].w = sums[<<q[k][l].y, q[k][l].x>>]
    <3> TAKE k, l \in 1 .. n
    <3>1. PICK h \in 1 .. n : q[k][l] = m[k][h]
      BY <1>1 DEF Alike
    <3>2. QED
      BY <3>1 DEF Right, Weighed
  <2>2. QED
    BY <2>1 DEF Weighed
<1>5. RowMap(rows, q, n)
  BY <1>1 DEF Right, RowMap, Alike
<1>6. QED
  BY <1>3, <1>4, <1>5 DEF Right, q

(* The rows and their names are sorted together. *)
LEMMA SortRowsStep ==
  ASSUME AdjIInv, ~asserted, SortRows
  PROVE  AdjIInv'
<1>1. size \in Nat /\ Formed(matr, size) /\ weight \in [Pairs -> Int] /\ Positive(x_vertex_names)
  BY DEF AdjIInv
<1>2. /\ matr' \in RowsSorted(matr) /\ y_vertex_names' = Position(RowNames(matr'))
      /\ UNCHANGED <<x_vertex_names, weight, columns_swapped, asserted>>
  BY DEF SortRows
<1>3. Formed(matr', size) /\ Len(matr') = size
  BY <1>1, <1>2, RowsSortedFormed
<1>4. size' = size
  BY <1>3 DEF size
<1>5. Positive(y_vertex_names')
  BY <1>1, <1>2, <1>3, MapsMade
<1>6. ASSUME ~columns_swapped, size > 0
      PROVE  Right(matr', size, weight, y_vertex_names', x_vertex_names)
  <2>1. Right(matr, size, weight, y_vertex_names, x_vertex_names)
    BY <1>6 DEF AdjIInv
  <2>2. QED
    BY <1>1, <1>2, <1>6, <2>1, SortedRowsRight
<1>7. QED
  BY <1>1, <1>2, <1>3, <1>4, <1>5, <1>6 DEF AdjIInv

(* The columns are sorted, and their names are written anew. *)
LEMMA SortColumnsStep ==
  ASSUME AdjIInv, ~asserted, SortColumns
  PROVE  AdjIInv'
<1>1. size \in Nat /\ Formed(matr, size) /\ weight \in [Pairs -> Int] /\ Positive(y_vertex_names)
  BY DEF AdjIInv
<1>2. /\ matr' = ColumnsSorted(matr) /\ x_vertex_names' = Position(ColumnNames(matr'))
      /\ UNCHANGED <<y_vertex_names, weight, columns_swapped, asserted>>
  BY DEF SortColumns, ColumnMap
<1>3. Formed(matr', size) /\ Len(matr') = size
  BY <1>1, <1>2, ColumnsSortedFormed
<1>4. size' = size
  BY <1>3 DEF size
<1>5. Positive(x_vertex_names')
  BY <1>1, <1>2, <1>3, MapsMade
<1>6. ASSUME ~columns_swapped, size > 0
      PROVE  Right(matr', size, weight, y_vertex_names, x_vertex_names')
  <2>1. Right(matr, size, weight, y_vertex_names, x_vertex_names)
    BY <1>6 DEF AdjIInv
  <2>2. QED
    BY <1>1, <1>2, <1>6, <2>1, SortedColumnsRight
<1>7. QED
  BY <1>1, <1>2, <1>3, <1>4, <1>5, <1>6 DEF AdjIInv

(* sort() is both sorts, one after the other. *)
LEMMA SortStep ==
  ASSUME AdjIInv, ~asserted, Sort
  PROVE  AdjIInv'
<1>1. size \in Nat /\ Formed(matr, size) /\ weight \in [Pairs -> Int]
  BY DEF AdjIInv
<1>2. PICK rows \in RowsSorted(matr) :
        /\ matr' = ColumnsSorted(rows)
        /\ y_vertex_names' = Position(RowNames(rows))
        /\ x_vertex_names' = Position(ColumnNames(matr'))
        /\ UNCHANGED <<weight, columns_swapped, asserted>>
  BY DEF Sort, ColumnMap
<1>3. Formed(rows, size) /\ Len(rows) = size
  BY <1>1, RowsSortedFormed
<1>4. Formed(matr', size) /\ Len(matr') = size
  BY <1>1, <1>2, <1>3, ColumnsSortedFormed
<1>5. size' = size
  BY <1>4 DEF size
<1>6. Positive(x_vertex_names') /\ Positive(y_vertex_names')
  BY <1>1, <1>2, <1>3, <1>4, MapsMade
<1>7. ASSUME ~columns_swapped, size > 0
      PROVE  Right(matr', size, weight, y_vertex_names', x_vertex_names')
  <2>1. Right(matr, size, weight, y_vertex_names, x_vertex_names)
    BY <1>7 DEF AdjIInv
  <2>2. Right(rows, size, weight, y_vertex_names', x_vertex_names)
    BY <1>1, <1>2, <1>7, <2>1, SortedRowsRight
  <2>3. QED
    BY <1>1, <1>2, <1>3, <1>7, <2>2, SortedColumnsRight
<1>8. QED
  BY <1>1, <1>2, <1>4, <1>5, <1>6, <1>7 DEF AdjIInv

(* A swap made on the matrix itself only marks it: no lookup is promised. *)
LEMMA SwapOutsideStep ==
  ASSUME AdjIInv, ~asserted, NEW i \in 1 .. size, NEW j \in 1 .. size, SwapOutside(i, j)
  PROVE  AdjIInv'
<1>1. size \in Nat /\ Formed(matr, size)
  BY DEF AdjIInv
<1>2. Alike(matr', matr, size)
  BY <1>1, SwapFormed DEF SwapOutside
<1>3. Formed(matr', size) /\ Len(matr') = size
  BY <1>1, <1>2, LengthOf DEF Alike, Formed
<1>4. QED
  BY <1>1, <1>3 DEF AdjIInv, SwapOutside, size

-----------------------------------------------------------------------------
(* Every step keeps the invariant. *)
LEMMA AdjKeeps ==
  ASSUME AdjIInv, [AdjNext]_adjVars
  PROVE  AdjIInv'
<1>1. CASE UNCHANGED adjVars
  BY <1>1 DEF adjVars, AdjIInv, size
<1>2. CASE AdjNext
  <2>1. ~asserted
    BY <1>2 DEF AdjNext
  <2>2. CASE \E names \in VERTEX_LISTS : AdjReset(names)
    BY <2>1, <2>2, ResetStep
  <2>3. CASE \E names \in VERTEX_LISTS : AdjPlus(names)
    BY <2>1, <2>3, PlusStep
  <2>4. CASE AdjClear
    BY <2>1, <2>4, ClearStep
  <2>5. CASE \E p \in Pairs : AdjIncrease(p[1], p[2])
    BY <2>1, <2>5, IncreaseStep
  <2>6. CASE SortRows
    BY <2>1, <2>6, SortRowsStep
  <2>7. CASE SortColumns
    BY <2>1, <2>7, SortColumnsStep
  <2>8. CASE Sort
    BY <2>1, <2>8, SortStep
  <2>9. CASE \E i, j \in 1 .. size : i < j /\ SwapOutside(i, j)
    BY <2>1, <2>9, SwapOutsideStep
  <2>10. QED
    BY <1>2, <2>2, <2>3, <2>4, <2>5, <2>6, <2>7, <2>8, <2>9 DEF AdjNext
<1>3. QED
  BY <1>1, <1>2

(* The cell a lookup finds carries both names, so its weight is theirs. *)
LEMMA AdjGives == AdjIInv => LookupFindsEdge
<1> SUFFICES ASSUME AdjIInv, ~columns_swapped, ~asserted, NEW p \in Pairs, InMatrix(p[1], p[2])
             PROVE  CellOf(p[1], p[2]) = [y |-> p[1], x |-> p[2], w |-> weight[p]]
  BY DEF LookupFindsEdge
<1> DEFINE y == p[1]
           x == p[2]
           a == y_vertex_names[y]
           b == x_vertex_names[x]
<1>1. size \in Nat /\ Formed(matr, size) /\ Positive(y_vertex_names) /\ Positive(x_vertex_names)
  BY DEF AdjIInv
<1>2. /\ y \in DOMAIN y_vertex_names /\ x \in DOMAIN x_vertex_names
      /\ a \in 1 .. size /\ b \in 1 .. size
  BY <1>1 DEF InMatrix, Found, Positive
<1>3. size > 0
  BY <1>1, <1>2
<1>4. Right(matr, size, weight, y_vertex_names, x_vertex_names)
  BY <1>3 DEF AdjIInv
<1>5. matr[a][b].y = y /\ matr[a][b].x = x
  BY <1>1, <1>2, <1>4, PlaceOfNames DEF Right
<1>6. matr[a][b].w = weight[<<y, x>>]
  BY <1>2, <1>4, <1>5 DEF Right, Weighed
<1>7. p = <<y, x>>
  BY DEF Pairs
<1>8. matr[a][b] = [y |-> matr[a][b].y, x |-> matr[a][b].x, w |-> matr[a][b].w]
  <2>1. matr[a][b] \in Cells
    BY <1>1, <1>2 DEF Formed
  <2>2. QED
    BY <2>1, CellPlus
<1>9. QED
  BY <1>5, <1>6, <1>7, <1>8 DEF CellOf

(* The weight found under two names is what was added under them, in a cell  *)
(* that carries them, after any sequence of init(), clear(), additions and   *)
(* sorts of matrices of any size, unless columns were swapped from outside.  *)
THEOREM LookupsFindEdges == AdjSpec => []LookupFindsEdge
<1>1. AdjInit => AdjIInv
  BY AdjStart
<1>2. AdjIInv /\ [AdjNext]_adjVars => AdjIInv'
  BY AdjKeeps
<1>3. AdjIInv => LookupFindsEdge
  BY AdjGives
<1>4. QED
  BY <1>1, <1>2, <1>3, PTL DEF AdjSpec

-----------------------------------------------------------------------------
(*                              State records                              *)

Params ==
    [type: {"COUNTER", "INT_VALUE", "DOUBLE_VALUE", "UTC_TIMESTAMP"}, is_null: BOOLEAN,
     value: 0 .. WIDTH - 1, low: Int, high: Int]

(* A counter is never below its threshold. *)
ParamOK(p) == p \in Params /\ (p.type = "COUNTER" => p.low <= 0)

(* The parameters hold what the completed calls amount to. *)
RecordsInv ==
    /\ utc_time \in 0 .. WIDTH - 1
    /\ records \in [DOMAIN records -> Params] /\ called \in [DOMAIN records -> Nat]
    /\ \A c \in DOMAIN records : ParamOK(records[c]) /\ records[c].value = called[c] % WIDTH

(* A call between find_param() and its end has the mutex, and its parameter   *)
(* is there and as it was read; add_parameter(), without the mutex, is alone. *)
CallsInv ==
    /\ updating = [t \in UPDATERS |-> updating[t]]
    /\ \A t \in UPDATERS : updating[t].at \in {"idle", "adding", "found", "read"}
    /\ \A t \in UPDATERS : updating[t].at = "adding" =>
          Alone(t) /\ ParamOK(updating[t].param) /\ updating[t].param.value = 0
    /\ \A t \in UPDATERS : updating[t].at \in {"found", "read"} =>
          /\ records_mutex = t
          /\ updating[t].code \in DOMAIN records /\ updating[t].arg \in 0 .. WIDTH - 1
    /\ \A t \in UPDATERS : updating[t].at = "read" =>
          /\ updating[t].value = records[updating[t].code].value
          /\ updating[t].op \in {"increment", "set_int", "set_double", "update"}

RecordsIInv == broken = "no" => RecordsInv /\ CallsInv

-----------------------------------------------------------------------------
(* A parameter has no operations but the four of the source. *)
LEMMA HasOnlyOps ==
  ASSUME NEW p \in Params, NEW op, Has(p.type, op)
  PROVE  op \in {"increment", "set_int", "set_double", "update"}
BY DEF Has, Params

(* A record starts with parameters of the declared types, all zero. *)
LEMMA BuiltIsOK ==
  ASSUME NEW code \in DESCRIPTORS, NEW p \in Built(code)
  PROVE  ParamOK(p) /\ p.value = 0
<1>1. TYPE_OF[code] \in {"COUNTER", "INT_VALUE", "DOUBLE_VALUE", "UTC_TIMESTAMP"}
  BY RecordsAssumption
<1>2. Lowest(TYPE_OF[code]) \in Int /\ Highest(TYPE_OF[code]) \in Int
  BY RecordsAssumption DEF Lowest, Highest, size_t_max, int64_max
<1>3. TYPE_OF[code] = "COUNTER" => Lowest(TYPE_OF[code]) <= 0
  BY RecordsAssumption DEF Lowest
<1>4. HIGH_THRESHOLD \in Int /\ 0 \in 0 .. WIDTH - 1
  BY RecordsAssumption
<1>5. PICK n \in BOOLEAN, above \in Int : p = Param(code, n, above)
  BY <1>2, <1>4 DEF Built
<1>6. QED
  BY <1>1, <1>2, <1>3, <1>4, <1>5 DEF Param, ParamOK, Params

(* At first there are no records and no calls. *)
LEMMA RecordsStart == RecordsInit => RecordsIInv
BY RecordsAssumption DEF RecordsInit, RecordsIInv, RecordsInv, CallsInv, Idle

(* add_parameter() *)
LEMMA RecordAddStep ==
  ASSUME RecordsInv, CallsInv, NEW t \in UPDATERS, NEW code \in DESCRIPTORS,
         NEW p \in Built(code), AddParameter(t, code, p)
  PROVE  RecordsIInv'
<1> SUFFICES ASSUME broken' = "no"
             PROVE  RecordsInv' /\ CallsInv'
  BY DEF RecordsIInv
<1>1. Alone(t)
  BY DEF AddParameter
<1>2. RecordsInv'
  BY DEF RecordsInv, AddParameter, ParamOK, Params
<1>3. ParamOK(p) /\ p.value = 0
  BY BuiltIsOK
<1>4. \A u \in UPDATERS : updating'[u] =
          IF u = t THEN [at |-> "adding", code |-> code, param |-> p] ELSE updating[u]
  BY DEF AddParameter, CallsInv
<1>5. Alone(t)'
  BY <1>1, <1>4 DEF Alone
<1>6. CallsInv'
  BY <1>1, <1>3, <1>4, <1>5 DEF CallsInv, AddParameter, Alone, ParamOK, Params
<1>7. QED
  BY <1>2, <1>6

(* A parameter added to a record is one nobody has updated yet. *)
LEMMA RecordAddedStep ==
  ASSUME RecordsInv, CallsInv, NEW t \in UPDATERS, AddedParameter(t)
  PROVE  RecordsInv' /\ CallsInv'
<1> DEFINE code == updating[t].code
           old == DOMAIN records
<1>1. /\ updating[t].at = "adding" /\ Alone(t) /\ ParamOK(updating[t].param)
      /\ updating[t].param.value = 0
  BY DEF AddedParameter, CallsInv
<1>2. /\ DOMAIN records' = old \cup {code} /\ DOMAIN called' = old \cup {code}
      /\ \A c \in old : records'[c] = records[c] /\ called'[c] = called[c]
      /\ code \notin old => records'[code] = updating[t].param /\ called'[code] = 0
      /\ records' = [c \in old \cup {code} |-> records'[c]]
      /\ called' = [c \in old \cup {code} |-> called'[c]]
      /\ utc_time' = utc_time
  BY DEF AddedParameter, InsertedParam
<1>3. 0 % WIDTH = 0
  BY RecordsAssumption
<1>4. \A c \in old \cup {code} : ParamOK(records'[c]) /\ records'[c].value = called'[c] % WIDTH
                                 /\ called'[c] \in Nat
  BY <1>1, <1>2, <1>3 DEF RecordsInv
<1>5. RecordsInv'
  BY <1>2, <1>4 DEF RecordsInv, ParamOK, Params
<1>6. \A u \in UPDATERS : updating'[u].at = "idle"
  BY <1>1 DEF AddedParameter, Alone, CallsInv, Idle
<1>7. updating' = [u \in UPDATERS |-> updating'[u]]
  BY DEF AddedParameter, CallsInv
<1>8. QED
  BY <1>5, <1>6, <1>7 DEF CallsInv

(* Every other call: the mutex and find_param(), ... *)
LEMMA RecordCallStep ==
  ASSUME RecordsInv, CallsInv, NEW t \in UPDATERS, NEW op, NEW code, NEW arg \in STEPS,
         Call(t, op, code, arg)
  PROVE  RecordsIInv'
<1> SUFFICES ASSUME broken' = "no"
             PROVE  RecordsInv' /\ CallsInv'
  BY DEF RecordsIInv
<1>1. ~Adding /\ code \in DOMAIN records
  BY DEF Call
<1>2. RecordsInv'
  BY DEF RecordsInv, Call, ParamOK, Params
<1>3. \A u \in UPDATERS : updating'[u] =
          IF u = t THEN [at |-> "found", op |-> op, code |-> code, arg |-> arg] ELSE updating[u]
  BY DEF Call, CallsInv
<1>4. updating' = [u \in UPDATERS |-> updating'[u]] /\ records' = records /\ records_mutex' = t
  BY DEF Call, CallsInv, Locks
<1>5. \A u \in UPDATERS : updating[u].at = "idle"
  BY <1>1, RecordsAssumption DEF Call, Locks, Adding, CallsInv
<1>6. arg \in 0 .. WIDTH - 1
  BY RecordsAssumption
<1>7. CallsInv'
  BY <1>1, <1>3, <1>4, <1>5, <1>6 DEF CallsInv
<1>8. QED
  BY <1>2, <1>7

(* ... a method its parameter does not have, ... *)
LEMMA RecordThrowsStep ==
  ASSUME RecordsInv, CallsInv, NEW t \in UPDATERS, CallThrows(t)
  PROVE  RecordsInv' /\ CallsInv'
<1>1. RecordsInv'
  BY DEF RecordsInv, CallThrows, ParamOK, Params
<1>2. \A u \in UPDATERS : updating'[u] = IF u = t THEN Idle ELSE updating[u]
  BY DEF CallThrows, Unlocks, CallsInv
<1>3. updating' = [u \in UPDATERS |-> updating'[u]] /\ records' = records
  BY DEF CallThrows, Unlocks, CallsInv
<1>4. \A u \in UPDATERS : updating'[u].at = "idle"
  BY <1>2 DEF CallThrows, CallsInv, Alone, Idle
<1>5. QED
  BY <1>1, <1>3, <1>4 DEF CallsInv

(* ... the reading of the value ... *)
LEMMA RecordReadsStep ==
  ASSUME RecordsInv, CallsInv, NEW t \in UPDATERS, CallReads(t)
  PROVE  RecordsInv' /\ CallsInv'
<1>1. RecordsInv'
  BY DEF RecordsInv, CallReads, ParamOK, Params
<1>2. \A u \in UPDATERS : updating'[u] = IF u # t THEN updating[u] ELSE
          [at |-> "read", op |-> updating[t].op, code |-> updating[t].code,
           arg |-> updating[t].arg, value |-> records[updating[t].code].value]
  BY DEF CallReads, CallsInv
<1>3. /\ updating' = [u \in UPDATERS |-> updating'[u]]
      /\ records' = records /\ records_mutex' = records_mutex
  BY DEF CallReads, CallsInv
<1>4. updating[t].op \in {"increment", "set_int", "set_double", "update"}
  BY HasOnlyOps DEF CallReads, CallsInv, RecordsInv
<1>5. \A u \in UPDATERS \ {t} : updating[u].at = "idle"
  BY DEF CallReads, CallsInv, Alone
<1>6. /\ updating[t].at = "found" /\ records_mutex = t
      /\ updating[t].code \in DOMAIN records /\ updating[t].arg \in 0 .. WIDTH - 1
  BY DEF CallReads, CallsInv
<1>7. CallsInv'
  BY <1>2, <1>3, <1>4, <1>5, <1>6 DEF CallsInv
<1>8. QED
  BY <1>1, <1>7

(* ... and the writing of the new one. *)
LEMMA RecordWritesStep ==
  ASSUME RecordsInv, CallsInv, NEW t \in UPDATERS, CallWrites(t)
  PROVE  RecordsInv' /\ CallsInv'
<1> DEFINE u == updating[t]
           new == IF u.op = "increment" THEN called[u.code] + u.arg ELSE Stored(u)
<1>1. /\ u.at = "read" /\ u.code \in DOMAIN records /\ u.arg \in 0 .. WIDTH - 1
      /\ records_mutex = t /\ u.value = records[u.code].value
      /\ u.op \in {"increment", "set_int", "set_double", "update"}
  BY DEF CallWrites, CallsInv
<1>2. /\ DOMAIN records' = DOMAIN records /\ DOMAIN called' = DOMAIN records
      /\ \A c \in DOMAIN records \ {u.code} : records'[c] = records[c] /\ called'[c] = called[c]
      /\ records'[u.code] = [records[u.code] EXCEPT !.value = Stored(u), !.is_null = FALSE]
      /\ called'[u.code] = new
      /\ records' = [c \in DOMAIN records |-> records'[c]]
      /\ called' = [c \in DOMAIN records |-> called'[c]]
      /\ utc_time' = utc_time
  BY <1>1 DEF CallWrites, RecordsInv
<1>3. new \in Nat /\ Stored(u) = new % WIDTH /\ Stored(u) \in 0 .. WIDTH - 1
  <2>1. WIDTH \in Nat \ {0} /\ called[u.code] \in Nat /\ u.value = called[u.code] % WIDTH
    BY <1>1, RecordsAssumption DEF RecordsInv
  <2>2. CASE u.op = "increment"
    <3>1. Stored(u) = ((called[u.code] % WIDTH) + u.arg) % WIDTH
      BY <2>1, <2>2 DEF Stored
    <3>2. Stored(u) = (called[u.code] + u.arg) % WIDTH
      BY <1>1, <2>1, <3>1, RemainderOfSum
    <3>3. QED
      BY <1>1, <2>1, <2>2, <3>2
  <2>3. CASE u.op \in {"set_int", "set_double"}
    BY <1>1, <2>1, <2>3, SmallRemainder DEF Stored
  <2>4. CASE u.op = "update"
    BY <1>1, <2>1, <2>4, SmallRemainder DEF Stored, RecordsInv
  <2>5. QED
    BY <1>1, <2>2, <2>3, <2>4
<1> HIDE DEF new
<1>4. ParamOK(records'[u.code])
  BY <1>1, <1>2, <1>3 DEF RecordsInv, ParamOK, Params
<1>5. records'[u.code].value = Stored(u)
  BY <1>1, <1>2 DEF RecordsInv, Params
<1>6. RecordsInv'
  BY <1>1, <1>2, <1>3, <1>4, <1>5 DEF RecordsInv, ParamOK
<1>7. \A v \in UPDATERS : updating'[v].at = "idle"
  BY <1>1 DEF CallWrites, Unlocks, CallsInv, Alone, Idle
<1>8. updating' = [v \in UPDATERS |-> updating'[v]]
  BY DEF CallWrites, Unlocks, CallsInv
<1>9. QED
  BY <1>6, <1>7, <1>8 DEF CallsInv

(* Every step keeps the invariant. *)
LEMMA RecordsStep == RecordsIInv /\ [RecordsNext]_recordsVars => RecordsIInv'
<1> SUFFICES ASSUME RecordsIInv, [RecordsNext]_recordsVars
             PROVE  RecordsIInv'
  OBVIOUS
<1>1. CASE UNCHANGED recordsVars
  BY <1>1 DEF RecordsIInv, RecordsInv, CallsInv, recordsVars, Alone, ParamOK, Params
<1>2. CASE RecordsNext
  <2>1. broken = "no" /\ RecordsInv /\ CallsInv
    BY <1>2 DEF RecordsNext, RecordsIInv
  <2>2. CASE \E t \in UPDATERS, code \in DESCRIPTORS : \E p \in Built(code) : AddParameter(t, code, p)
    BY <2>1, <2>2, RecordAddStep
  <2>3. CASE \E t \in UPDATERS, code \in DESCRIPTORS, arg \in STEPS :
                 \E op \in {"increment", "set_int", "set_double", "update"} : Call(t, op, code, arg)
    BY <2>1, <2>3, RecordCallStep
  <2>4. CASE \E t \in UPDATERS : AddedParameter(t)
    BY <2>1, <2>4, RecordAddedStep DEF RecordsIInv
  <2>5. CASE \E t \in UPDATERS : CallThrows(t)
    BY <2>1, <2>5, RecordThrowsStep DEF RecordsIInv
  <2>6. CASE \E t \in UPDATERS : CallReads(t)
    BY <2>1, <2>6, RecordReadsStep DEF RecordsIInv
  <2>7. CASE \E t \in UPDATERS : CallWrites(t)
    BY <2>1, <2>7, RecordWritesStep DEF RecordsIInv
  <2>8. CASE \E t \in UPDATERS : ClearRecords(t)
    <3>1. \A u \in UPDATERS : updating[u].at \in {"idle", "adding"}
      BY <2>1, <2>8, RecordsAssumption DEF ClearRecords, CallsInv
    <3>2. CASE Adding
      BY <2>8, <3>2 DEF ClearRecords, RecordsIInv
    <3>3. CASE ~Adding
      BY <2>1, <2>8, <3>1, <3>3 DEF ClearRecords, RecordsIInv, RecordsInv, CallsInv, Adding
    <3>4. QED
      BY <3>2, <3>3
  <2>9. CASE Tick
    <3>1. utc_time' \in 0 .. WIDTH - 1
      BY <2>1, <2>9, RecordsAssumption DEF Tick, RecordsInv, int64_max
    <3>2. QED
      BY <2>1, <2>9, <3>1 DEF Tick, RecordsIInv, RecordsInv, CallsInv, Alone, ParamOK, Params
  <2>10. QED
    BY <1>2, <2>2, <2>3, <2>4, <2>5, <2>6, <2>7, <2>8, <2>9 DEF RecordsNext
<1>3. QED
  BY <1>1, <1>2

(* With no call under way the value is what the completed updates make. *)
LEMMA RecordsInvIsEnough == RecordsIInv => NoUpdateIsLost
<1> SUFFICES ASSUME RecordsIInv, broken = "no", NEW code \in DOMAIN records
             PROVE  LET p == records[code] IN
                    /\ p.value = called[code] % WIDTH
                    /\ p.type = "COUNTER" /\ called[code] < WIDTH /\ ~p.is_null =>
                           (AnyThresholdReached(p) <=> called[code] > p.high)
  BY DEF NoUpdateIsLost
<1> DEFINE p == records[code]
<1>1. p.value = called[code] % WIDTH /\ ParamOK(p) /\ called[code] \in Nat
  BY DEF RecordsIInv, RecordsInv
<1>2. ASSUME p.type = "COUNTER", called[code] < WIDTH, ~p.is_null
      PROVE  AnyThresholdReached(p) <=> called[code] > p.high
  <2>1. p.value = called[code]
    BY <1>1, <1>2, SmallRemainder, RecordsAssumption
  <2>2. QED
    BY <1>1, <1>2, <2>1 DEF AnyThresholdReached, ParamOK, Params
<1>3. QED
  BY <1>1, <1>2

(* No update of a state record is lost: whatever the threads call and in *)
(* whatever order they take the mutex, a value is what all the completed *)
(* updates make of it, wrapped at the width of its type.                 *)
THEOREM NoUpdateLost == RecordsSpec => []NoUpdateIsLost
BY RecordsStart, RecordsStep, RecordsInvIsEnough, PTL DEF RecordsSpec

-----------------------------------------------------------------------------
(*                          The median of a stream                         *)

(* How many elements of s are in A. *)
Count(s, A) == Cardinality({i \in DOMAIN s : s[i] \in A})

(* All the numbers that were not forgotten: the list between those dropped.   *)
AllKept == low \o nums \o high

(* The middle one of them. *)
MiddleOf(s) == s[(Len(s) \div 2) + 1]

MedianIInv ==
    /\ nums \in Seq(Int) /\ low \in Seq(Int) /\ high \in Seq(Int) /\ pushed \in Seq(Int)
    /\ set_size \in Int
    /\ Len(AllKept) = Len(pushed)
    /\ \A A \in SUBSET Int : Count(AllKept, A) = Count(pushed, A)
    /\ Len(low) <= Len(high)
    /\ pushed # <<>> /\ Len(low) = Len(high) => median = MiddleOf(AllKept)
-----------------------------------------------------------------------------
(* How many numbers of a sequence lie in a set is a natural number. *)
LEMMA CountIsNumber ==
  ASSUME NEW s \in Seq(Int), NEW A
  PROVE  Count(s, A) \in Nat /\ IsFiniteSet({i \in DOMAIN s : s[i] \in A})
<1>1. DOMAIN s = 1 .. Len(s) /\ Len(s) \in Nat
  BY LenProperties
<1>2. IsFiniteSet(1 .. Len(s))
  BY <1>1, FS_Interval
<1>3. IsFiniteSet({i \in DOMAIN s : s[i] \in A})
  BY <1>1, <1>2, FS_Subset
<1>4. QED
  BY <1>3, FS_CardinalityType DEF Count

(* Counts of two sequences put together add up. *)
LEMMA CountConcat ==
  ASSUME NEW s \in Seq(Int), NEW t \in Seq(Int), NEW A
  PROVE  Count(s \o t, A) = Count(s, A) + Count(t, A)
<1> DEFINE u == s \o t
           X == {i \in DOMAIN s : s[i] \in A}
           Y == {i \in DOMAIN t : t[i] \in A}
           Z == {i \in DOMAIN u : u[i] \in A}
           W == Z \ X
           f == [i \in Y |-> i + Len(s)]
<1>1. /\ DOMAIN s = 1 .. Len(s) /\ DOMAIN t = 1 .. Len(t) /\ Len(s) \in Nat /\ Len(t) \in Nat
      /\ u \in Seq(Int) /\ DOMAIN u = 1 .. Len(s) + Len(t)
      /\ \A i \in 1 .. Len(s) + Len(t) : u[i] = IF i <= Len(s) THEN s[i] ELSE t[i - Len(s)]
  BY ConcatProperties, LenProperties
<1>2. /\ IsFiniteSet(X) /\ IsFiniteSet(Y) /\ IsFiniteSet(Z)
      /\ Cardinality(X) = Count(s, A) /\ Cardinality(Y) = Count(t, A) /\ Cardinality(Z) = Count(u, A)
      /\ Count(s, A) \in Nat /\ Count(t, A) \in Nat
  BY <1>1, CountIsNumber DEF Count
<1> HIDE DEF u
<1>3. f \in Bijection(Y, W)
  <2>1. f \in [Y -> W]
    <3> SUFFICES ASSUME NEW i \in Y PROVE i + Len(s) \in W
      OBVIOUS
    <3>1. i + Len(s) \in 1 .. Len(s) + Len(t) /\ ~(i + Len(s) <= Len(s)) /\ (i + Len(s)) - Len(s) = i
      BY <1>1
    <3>2. QED
      BY <1>1, <3>1
  <2>2. \A i, j \in Y : f[i] = f[j] => i = j
    BY <1>1
  <2>3. \A k \in W : \E i \in Y : f[i] = k
    <3> TAKE k \in W
    <3>1. k \in 1 .. Len(s) + Len(t) /\ u[k] \in A /\ ~(k <= Len(s))
      BY <1>1
    <3>2. k - Len(s) \in Y
      <4>1. k - Len(s) \in 1 .. Len(t) /\ u[k] = t[k - Len(s)]
        BY <1>1, <3>1
      <4>2. QED
        BY <1>1, <3>1, <4>1
    <3>3. QED
      BY <1>1, <3>1, <3>2
  <2> HIDE DEF Y, W, f
  <2>4. QED
    BY <2>1, <2>2, <2>3 DEF Bijection, Injection, Surjection, IsInjective
<1>4. IsFiniteSet(W) /\ Cardinality(W) = Cardinality(Y)
  BY <1>2, <1>3, FS_Bijection DEF ExistsBijection
<1>5. Z = X \cup W /\ X \cap W = {}
  BY <1>1
<1> HIDE DEF X, Y, Z, W
<1>6. Cardinality(X \cup W) = Cardinality(X) + Cardinality(W) - Cardinality(X \cap W)
  BY <1>2, <1>4, FS_Union
<1>7. Cardinality(Z) = Cardinality(X) + Cardinality(Y)
  <2>1. Cardinality(X \cap W) = 0
    BY <1>5, FS_EmptySet
  <2>2. Cardinality(Z) = Cardinality(X \cup W)
    BY <1>5, Zenon
  <2>3. QED
    BY <1>2, <1>4, <1>6, <2>1, <2>2
<1>8. QED
  BY <1>2, <1>7 DEF u

(* A single number counts once, in a set that has it. *)
LEMMA CountOne ==
  ASSUME NEW x \in Int, NEW A
  PROVE  Count(<<x>>, A) = IF x \in A THEN 1 ELSE 0
<1>1. CASE x \in A
  <2>1. {i \in DOMAIN <<x>> : <<x>>[i] \in A} = {1}
    BY <1>1
  <2>2. QED
    BY <1>1, <2>1, FS_Singleton DEF Count
<1>2. CASE x \notin A
  <2>1. {i \in DOMAIN <<x>> : <<x>>[i] \in A} = {}
    BY <1>2
  <2>2. QED
    BY <1>2, <2>1, FS_EmptySet DEF Count
<1>3. QED
  BY <1>1, <1>2

(* A sequence is what comes before a place and what comes behind it. *)
LEMMA SplitAnywhere ==
  ASSUME NEW s \in Seq(Int), NEW k \in 0 .. Len(s)
  PROVE  /\ SubSeq(s, 1, k) \in Seq(Int) /\ Len(SubSeq(s, 1, k)) = k
         /\ SubSeq(s, k + 1, Len(s)) \in Seq(Int) /\ Len(SubSeq(s, k + 1, Len(s))) = Len(s) - k
         /\ SubSeq(s, 1, k) \o SubSeq(s, k + 1, Len(s)) = s
<1>1. Len(s) \in Nat /\ k \in Nat /\ k <= Len(s) /\ \A i \in 1 .. Len(s) : s[i] \in Int
  BY LenProperties, ElementOfSeq
<1>2. /\ SubSeq(s, 1, k) \in Seq(Int)
      /\ Len(SubSeq(s, 1, k)) = IF 1 <= k THEN k - 1 + 1 ELSE 0
  <2>1. 1 \in Int /\ k \in Int /\ \A i \in 1 .. k : s[i] \in Int
    BY <1>1
  <2>2. QED
    BY <2>1, SubSeqProperties
<1>3. /\ SubSeq(s, k + 1, Len(s)) \in Seq(Int)
      /\ Len(SubSeq(s, k + 1, Len(s))) = IF k + 1 <= Len(s) THEN Len(s) - (k + 1) + 1 ELSE 0
  <2>1. k + 1 \in Int /\ Len(s) \in Int /\ \A i \in k + 1 .. Len(s) : s[i] \in Int
    BY <1>1
  <2>2. QED
    BY <2>1, SubSeqProperties
<1>4. SubSeq(s, 1, k) \o SubSeq(s, k + 1, Len(s)) = SubSeq(s, 1, Len(s))
  <2>1. 1 \in 1 .. Len(s) + 1 /\ k \in 1 - 1 .. Len(s) /\ Len(s) \in k .. Len(s)
    BY <1>1
  <2>2. QED
    BY <2>1, ConcatAdjacentSubSeq
<1>5. QED
  <2>1. SubSeq(s, 1, Len(s)) = s
    BY SubSeqFull
  <2>2. Len(SubSeq(s, 1, k)) = k
    BY <1>1, <1>2
  <2>3. Len(SubSeq(s, k + 1, Len(s))) = Len(s) - k
    BY <1>1, <1>3
  <2>4. QED
    BY <1>2, <1>3, <1>4, <2>1, <2>2, <2>3, Zenon

(* The multiset's insert adds one number and keeps the others. *)
LEMMA InsertedCount ==
  ASSUME NEW s \in Seq(Int), NEW x \in Int
  PROVE  /\ Inserted(s, x) \in Seq(Int) /\ Len(Inserted(s, x)) = Len(s) + 1
         /\ \A A \in SUBSET Int : Count(Inserted(s, x), A) = Count(s, A) + (IF x \in A THEN 1 ELSE 0)
<1> DEFINE k == Cardinality({i \in DOMAIN s : s[i] <= x})
           a == SubSeq(s, 1, k)
           b == SubSeq(s, k + 1, Len(s))
<1>1. DOMAIN s = 1 .. Len(s) /\ Len(s) \in Nat /\ \A i \in 1 .. Len(s) : s[i] \in Int
  BY LenProperties, ElementOfSeq
<1>2. k \in 0 .. Len(s)
  <2>1. {i \in DOMAIN s : s[i] <= x} \in SUBSET (1 .. Len(s))
    BY <1>1
  <2>2. IsFiniteSet(1 .. Len(s)) /\ Cardinality(1 .. Len(s)) = Len(s)
    <3>1. 1 \in Int /\ Len(s) \in Int
      BY <1>1
    <3>2. IsFiniteSet(1 .. Len(s)) /\ Cardinality(1 .. Len(s)) = IF 1 > Len(s) THEN 0 ELSE Len(s) - 1 + 1
      BY <3>1, FS_Interval
    <3>3. QED
      BY <1>1, <3>2
  <2>3. QED
    BY <1>1, <2>1, <2>2, FS_Subset, FS_CardinalityType
<1> HIDE DEF k
<1>3. Inserted(s, x) = a \o <<x>> \o b
  <2>1. (k + 1) - 1 = k
    BY <1>2
  <2>2. QED
    BY <2>1, Zenon DEF Inserted, InsertAt, k
<1>4. /\ a \in Seq(Int) /\ b \in Seq(Int) /\ Len(a) = k /\ Len(b) = Len(s) - k
      /\ <<x>> \in Seq(Int) /\ Len(<<x>>) = 1
  BY <1>2, SplitAnywhere
<1>5. a \o b = s
  BY <1>2, SplitAnywhere
<1> HIDE DEF a, b
<1>6. a \o <<x>> \in Seq(Int) /\ Len(a \o <<x>>) = k + 1
  BY <1>4, ConcatProperties
<1>7. Inserted(s, x) \in Seq(Int) /\ Len(Inserted(s, x)) = (k + 1) + (Len(s) - k)
  BY <1>3, <1>4, <1>6, ConcatProperties
<1> DEFINE c == a \o <<x>>
<1> HIDE DEF c
<1>8. ASSUME NEW A \in SUBSET Int
      PROVE  Count(Inserted(s, x), A) = Count(s, A) + (IF x \in A THEN 1 ELSE 0)
  <2> SUFFICES ASSUME \A u, v \in Seq(Int) : Count(u \o v, A) = Count(u, A) + Count(v, A)
               PROVE  Count(Inserted(s, x), A) = Count(s, A) + (IF x \in A THEN 1 ELSE 0)
    BY CountConcat
  <2>1. Count(Inserted(s, x), A) = Count(a \o <<x>>, A) + Count(b, A)
    <3>1. c \in Seq(Int) /\ Inserted(s, x) = c \o b
      BY <1>3, <1>6 DEF c
    <3>2. Count(c \o b, A) = Count(c, A) + Count(b, A)
      BY <1>4, <3>1, Zenon
    <3>3. QED
      BY <3>1, <3>2, Zenon DEF c
  <2>2. Count(a \o <<x>>, A) = Count(a, A) + Count(<<x>>, A)
    BY <1>4, Zenon
  <2>3. Count(s, A) = Count(a, A) + Count(b, A)
    BY <1>4, <1>5, Zenon
  <2>4. Count(a, A) \in Nat /\ Count(b, A) \in Nat
    BY <1>4, CountIsNumber
  <2>5. QED
    BY <2>1, <2>2, <2>3, <2>4, CountOne
<1>9. QED
  BY <1>1, <1>2, <1>7, <1>8

(* A list between two others, and a number more in it. *)
LEMMA InsertedBetween ==
  ASSUME NEW l \in Seq(Int), NEW s \in Seq(Int), NEW h \in Seq(Int), NEW x \in Int
  PROVE  /\ l \o Inserted(s, x) \o h \in Seq(Int)
         /\ Len(l \o Inserted(s, x) \o h) = Len(l \o s \o h) + 1
         /\ \A A \in SUBSET Int : Count(l \o Inserted(s, x) \o h, A)
                                  = Count(l \o s \o h, A) + (IF x \in A THEN 1 ELSE 0)
<1> DEFINE t == Inserted(s, x)
<1>1. /\ t \in Seq(Int) /\ Len(t) = Len(s) + 1
      /\ \A A \in SUBSET Int : Count(t, A) = Count(s, A) + (IF x \in A THEN 1 ELSE 0)
  BY InsertedCount
<1> HIDE DEF t
<1>2. ASSUME NEW u \in Seq(Int)
      PROVE  /\ l \o u \o h \in Seq(Int) /\ Len(l \o u \o h) = Len(l) + Len(u) + Len(h)
             /\ \A A \in SUBSET Int : Count(l \o u \o h, A) = Count(l, A) + Count(u, A) + Count(h, A)
  <2> DEFINE c == l \o u
  <2>1. c \in Seq(Int) /\ Len(c) = Len(l) + Len(u) /\ \A A : Count(c, A) = Count(l, A) + Count(u, A)
    BY ConcatProperties, CountConcat
  <2> HIDE DEF c
  <2>2. /\ c \o h \in Seq(Int) /\ Len(c \o h) = Len(c) + Len(h)
        /\ \A A : Count(c \o h, A) = Count(c, A) + Count(h, A)
    BY <2>1, ConcatProperties, CountConcat
  <2>3. QED
    BY <2>1, <2>2, Zenon DEF c
<1>3. /\ Len(l) \in Nat /\ Len(s) \in Nat /\ Len(h) \in Nat
      /\ \A A : Count(l, A) \in Nat /\ Count(s, A) \in Nat /\ Count(h, A) \in Nat
  BY CountIsNumber, LenProperties
<1>4. Len(l \o t \o h) = Len(l \o s \o h) + 1
  <2>1. Len(l \o t \o h) = Len(l) + Len(t) + Len(h) /\ Len(l \o s \o h) = Len(l) + Len(s) + Len(h)
    BY <1>1, <1>2, Zenon
  <2>2. QED
    BY <1>1, <1>3, <2>1
<1>5. ASSUME NEW A \in SUBSET Int
      PROVE  Count(l \o t \o h, A) = Count(l \o s \o h, A) + (IF x \in A THEN 1 ELSE 0)
  <2>1. /\ Count(l \o t \o h, A) = Count(l, A) + Count(t, A) + Count(h, A)
        /\ Count(l \o s \o h, A) = Count(l, A) + Count(s, A) + Count(h, A)
    BY <1>1, <1>2, Zenon
  <2>2. QED
    BY <1>1, <1>3, <2>1
<1>6. QED
  BY <1>1, <1>2, <1>4, <1>5, Zenon DEF t

(* Three parts of a sequence may be put together in either order. *)
LEMMA Associative ==
  ASSUME NEW l \in Seq(Int), NEW s \in Seq(Int), NEW h \in Seq(Int)
  PROVE  (l \o s) \o h = l \o (s \o h)
BY ConcatAssociative, SMTT(60)

(* What is erased at the ends and recorded is not lost. *)
NothingLost(l, s, h, a, b) ==
    LET p == SubSeq(s, 1, a)
        m == SubSeq(s, a + 1, Len(s) - b)
        q == SubSeq(s, Len(s) - b + 1, Len(s))
    IN  /\ m \in Seq(Int) /\ l \o p \in Seq(Int) /\ q \o h \in Seq(Int)
        /\ Len(l \o p) = Len(l) + a /\ Len(q \o h) = Len(h) + b
        /\ (l \o p) \o m \o (q \o h) = l \o s \o h

(* Numbers erased at both ends and kept there in the history: nothing is lost. *)
LEMMA EraseKeeps ==
  ASSUME NEW l \in Seq(Int), NEW s \in Seq(Int), NEW h \in Seq(Int),
         NEW a \in Nat, NEW b \in Nat, a + b <= Len(s)
  PROVE  NothingLost(l, s, h, a, b)
<1> DEFINE p == SubSeq(s, 1, a)
           m == SubSeq(s, a + 1, Len(s) - b)
           q == SubSeq(s, Len(s) - b + 1, Len(s))
           f == SubSeq(s, 1, Len(s) - b)
<1>1. /\ Len(s) \in Nat /\ a \in 0 .. Len(s) /\ Len(s) - b \in a .. Len(s) /\ Len(s) - b \in 0 .. Len(s)
      /\ Len(s) - (Len(s) - b) = b /\ Len(h) \in Nat
      /\ \A i \in 1 .. Len(s) : s[i] \in Int
  BY LenProperties, ElementOfSeq
<1>2. p \in Seq(Int) /\ Len(p) = a
  BY <1>1, SplitAnywhere
<1>3. f \in Seq(Int) /\ q \in Seq(Int) /\ Len(q) = b /\ f \o q = s
  BY <1>1, SplitAnywhere
<1>4. m \in Seq(Int)
  <2>1. a + 1 \in Int /\ Len(s) - b \in Int /\ \A i \in a + 1 .. Len(s) - b : s[i] \in Int
    BY <1>1
  <2>2. QED
    BY <2>1, SubSeqProperties
<1>5. p \o m = f
  <2>1. 1 \in 1 .. Len(s) + 1 /\ a \in 1 - 1 .. Len(s)
    BY <1>1
  <2>2. QED
    BY <1>1, <2>1, ConcatAdjacentSubSeq
<1> HIDE DEF p, m, q, f
<1>6. (l \o p) \o m = l \o f
  <2>1. (l \o p) \o m = l \o (p \o m)
    BY <1>2, <1>4, Associative, ZenonT(60)
  <2>2. QED
    BY <1>5, <2>1, Zenon
<1>7. (l \o f) \o (q \o h) = ((l \o f) \o q) \o h
  <2>1. l \o f \in Seq(Int)
    BY <1>3, ConcatProperties
  <2>2. QED
    BY <1>3, <2>1, Associative, ZenonT(60)
<1>8. (l \o f) \o q = l \o s
  <2>1. (l \o f) \o q = l \o (f \o q)
    BY <1>3, Associative, ZenonT(60)
  <2>2. QED
    BY <1>3, <2>1, Zenon
<1>9. l \o p \in Seq(Int) /\ q \o h \in Seq(Int) /\ Len(l \o p) = Len(l) + Len(p) /\ Len(q \o h) = Len(q) + Len(h)
  BY <1>2, <1>3, ConcatProperties
<1>10. Len(q \o h) = Len(h) + b
  BY <1>1, <1>3, <1>9
<1>11. (l \o p) \o m \o (q \o h) = l \o s \o h
  BY <1>6, <1>7, <1>8, Zenon
<1>12. QED
  BY <1>2, <1>4, <1>9, <1>10, <1>11, Zenon DEF NothingLost, p, m, q

(* Half of a length and what remains. *)
LEMMA Halves ==
  ASSUME NEW n \in Nat
  PROVE  n \div 2 \in Nat /\ n - n \div 2 \in Nat /\ n \div 2 <= n - n \div 2
         /\ n \div 2 + (n - n \div 2) = n
<1>1. n \div 2 \in Nat /\ 2 * (n \div 2) <= n
  BY DivMod
<1> DEFINE h == n \div 2
<1> HIDE DEF h
<1>2. h \in Nat /\ 2 * h <= n
  BY <1>1 DEF h
<1>3. h \in Nat /\ n - h \in Nat /\ h <= n - h /\ h + (n - h) = n
  BY <1>2
<1>4. QED
  BY <1>3, Zenon DEF h

(* Numbers dropped equally on both sides leave the middle in the middle. *)
LEMMA TwiceAndHalf ==
  ASSUME NEW n \in Nat, NEW l \in Nat
  PROVE  (2 * l + n) \div 2 + 1 = l + (n \div 2 + 1)
OBVIOUS

(* What is equal after the same addition was equal before. *)
LEMMA EqualRise ==
  ASSUME NEW l \in Nat, NEW h \in Nat, NEW a \in Nat, l + a = h + a
  PROVE  l = h
OBVIOUS

(* Between two lists of one length the middle stays where it is. *)
LEMMA MiddleBetween ==
  ASSUME NEW l \in Seq(Int), NEW s \in Seq(Int), NEW h \in Seq(Int), s # <<>>, Len(l) = Len(h)
  PROVE  MiddleOf(l \o s \o h) = Middle(s)
<1> DEFINE c == l \o s
           k == Len(s) \div 2 + 1
<1>1. Len(l) \in Nat /\ Len(s) \in Nat \ {0} /\ Len(h) \in Nat
  BY LenProperties, EmptySeq
<1>2. k \in 1 .. Len(s)
  BY <1>1
<1>3. /\ c \in Seq(Int) /\ Len(c) = Len(l) + Len(s)
      /\ \A i \in 1 .. Len(l) + Len(s) : c[i] = IF i <= Len(l) THEN l[i] ELSE s[i - Len(l)]
  BY ConcatProperties
<1> HIDE DEF c, k
<1>4. /\ Len(c \o h) = Len(c) + Len(h)
      /\ \A i \in 1 .. Len(c) + Len(h) : (c \o h)[i] = IF i <= Len(c) THEN c[i] ELSE h[i - Len(c)]
  <2>1. c \in Seq(Int)
    BY <1>3
  <2>2. QED
    BY <2>1, ConcatProperties, SMTT(60)
<1>5. Len(c \o h) \div 2 + 1 = Len(l) + k
  <2>1. Len(c \o h) = 2 * Len(l) + Len(s)
    BY <1>1, <1>3, <1>4
  <2>2. (2 * Len(l) + Len(s)) \div 2 + 1 = Len(l) + (Len(s) \div 2 + 1)
    BY <1>1, TwiceAndHalf
  <2>3. QED
    BY <2>1, <2>2, Zenon DEF k
<1>6. (c \o h)[Len(l) + k] = c[Len(l) + k]
  <2>1. Len(l) + k \in 1 .. Len(c) + Len(h) /\ Len(l) + k <= Len(c)
    BY <1>1, <1>2, <1>3
  <2>2. QED
    BY <1>4, <2>1, Zenon
<1>7. c[Len(l) + k] = s[k]
  <2>1. Len(l) + k \in 1 .. Len(l) + Len(s) /\ ~(Len(l) + k <= Len(l)) /\ (Len(l) + k) - Len(l) = k
    BY <1>1, <1>2
  <2>2. QED
    BY <1>3, <2>1
<1>8. QED
  BY <1>5, <1>6, <1>7, Zenon DEF MiddleOf, Middle, c, k

(* In a list in order the middle element has half of the others on each side. *)
LEMMA MiddleCounts ==
  ASSUME NEW C \in Seq(Int), C # <<>>, InOrder(C)
  PROVE  /\ MiddleOf(C) \in Int
         /\ Count(C, {v \in Int : v < MiddleOf(C)}) <= Len(C) \div 2
         /\ Count(C, {v \in Int : v <= MiddleOf(C)}) > Len(C) \div 2
<1> DEFINE k == Len(C) \div 2 + 1
           m == C[k]
           B == {i \in DOMAIN C : C[i] \in {v \in Int : v < m}}
           U == {i \in DOMAIN C : C[i] \in {v \in Int : v <= m}}
<1>1. Len(C) \in Nat \ {0} /\ DOMAIN C = 1 .. Len(C) /\ \A i \in 1 .. Len(C) : C[i] \in Int
  BY LenProperties, EmptySeq, ElementOfSeq
<1>2. k \in 1 .. Len(C) /\ m \in Int /\ k - 1 = Len(C) \div 2
  BY <1>1
<1> HIDE DEF k
<1>3. B \in SUBSET (1 .. k - 1)
  <2> SUFFICES ASSUME NEW i \in 1 .. Len(C), C[i] < m PROVE i < k
    BY <1>1, <1>2
  <2>1. i # k
    BY <1>1, <1>2
  <2>2. ~(k < i)
    <3>1. k < i => C[k] <= C[i]
      BY <1>1, <1>2 DEF InOrder
    <3>2. QED
      BY <1>1, <1>2, <3>1
  <2>3. QED
    BY <1>2, <2>1, <2>2
<1>4. 1 .. k \in SUBSET U
  <2> SUFFICES ASSUME NEW i \in 1 .. k PROVE i \in 1 .. Len(C) /\ C[i] <= m
    BY <1>1
  <2>1. i \in 1 .. Len(C)
    BY <1>1, <1>2
  <2>2. i < k => C[i] <= C[k]
    BY <1>1, <1>2, <2>1 DEF InOrder
  <2>3. QED
    BY <1>1, <1>2, <2>1, <2>2
<1>5. IsFiniteSet(U) /\ Cardinality(U) = Count(C, {v \in Int : v <= m}) /\ Cardinality(U) \in Nat
  BY CountIsNumber DEF Count
<1>6. Cardinality(B) = Count(C, {v \in Int : v < m})
  BY DEF Count
<1> HIDE DEF B, U, m
<1>7. Cardinality(B) <= k - 1
  <2>1. 1 \in Int /\ k - 1 \in Int /\ k - 1 >= 0
    BY <1>1, <1>2
  <2>2. IsFiniteSet(1 .. k - 1) /\ Cardinality(1 .. k - 1) = IF 1 > k - 1 THEN 0 ELSE (k - 1) - 1 + 1
    BY <2>1, FS_Interval
  <2>3. Cardinality(1 .. k - 1) = k - 1
    BY <2>1, <2>2
  <2>4. QED
    BY <1>3, <2>2, <2>3, FS_Subset
<1>8. Cardinality(U) >= k
  <2>1. 1 \in Int /\ k \in Int /\ k >= 1
    BY <1>1, <1>2
  <2>2. Cardinality(1 .. k) = IF 1 > k THEN 0 ELSE k - 1 + 1
    BY <2>1, FS_Interval
  <2>3. Cardinality(1 .. k) = k
    BY <2>1, <2>2
  <2>4. Cardinality(1 .. k) <= Cardinality(U)
    BY <1>4, <1>5, FS_Subset
  <2>5. QED
    BY <1>5, <2>1, <2>3, <2>4
<1>9. MiddleOf(C) = m
  BY Zenon DEF MiddleOf, m, k
<1>10. /\ Count(C, {v \in Int : v < m}) <= Len(C) \div 2
       /\ Count(C, {v \in Int : v <= m}) > Len(C) \div 2
  BY <1>1, <1>2, <1>5, <1>6, <1>7, <1>8
<1>11. QED
  BY <1>2, <1>9, <1>10

-----------------------------------------------------------------------------
(* A new list is empty and has dropped nothing. *)
LEMMA MedianStart == MedianInit => MedianIInv
<1> SUFFICES ASSUME MedianInit PROVE MedianIInv
  OBVIOUS
<1>1. <<>> \in Seq(Int) /\ Len(<<>>) = 0
  BY EmptySeq
<1>2. low \o nums \o high = <<>>
  <2>1. <<>> \o <<>> \o <<>> = <<>>
    BY <1>1, ConcatEmptySeq
  <2>2. QED
    BY <2>1 DEF MedianInit
<1>3. QED
  BY <1>1, <1>2 DEF MedianInit, MedianIInv, AllKept, MIN_AVAILABLE_SET_SIZE

(* The list s, of which a elements are dropped below and b above, takes the   *)
(* place of nums: what is kept is what was between the ends before.           *)
LEMMA ErasedStep ==
  ASSUME MedianIInv, NEW s \in Seq(Int), NEW a \in Nat, NEW b \in Nat, a + b <= Len(s),
         Erase(s, a, b)
  PROVE  /\ nums' \in Seq(Int) /\ low' \in Seq(Int) /\ high' \in Seq(Int)
         /\ Len(low') = Len(low) + a /\ Len(high') = Len(high) + b
         /\ AllKept' = low \o s \o high
<1>1. low \in Seq(Int) /\ high \in Seq(Int)
  BY DEF MedianIInv
<1>2. /\ nums' = SubSeq(s, a + 1, Len(s) - b)
      /\ low' = low \o SubSeq(s, 1, a)
      /\ high' = SubSeq(s, Len(s) - b + 1, Len(s)) \o high
  BY DEF Erase
<1>3. AllKept' = low' \o nums' \o high'
  BY DEF AllKept
<1>4. QED
  <2>1. NothingLost(low, s, high, a, b)
    BY <1>1, EraseKeeps
  <2>2. QED
    BY <1>2, <1>3, <2>1, Zenon DEF NothingLost

(* push() inserts in order and drops at the ends what is too much. *)
LEMMA MedianPushStep ==
  ASSUME MedianIInv, NEW num \in NUMBERS, MedianPush(num)
  PROVE  MedianIInv'
<1> DEFINE all == Inserted(nums, num)
           new == Inserted(pushed, num)
<1>1. num \in Int
  BY MedianAssumption
<1>2. /\ nums \in Seq(Int) /\ low \in Seq(Int) /\ high \in Seq(Int) /\ pushed \in Seq(Int)
      /\ set_size \in Int /\ Len(AllKept) = Len(pushed) /\ Len(low) <= Len(high)
      /\ \A A \in SUBSET Int : Count(AllKept, A) = Count(pushed, A)
  BY DEF MedianIInv
<1>3. /\ all \in Seq(Int) /\ Len(all) = Len(nums) + 1
      /\ new \in Seq(Int) /\ Len(new) = Len(pushed) + 1
      /\ \A A \in SUBSET Int : Count(new, A) = Count(pushed, A) + (IF num \in A THEN 1 ELSE 0)
  BY <1>1, <1>2, InsertedCount
<1>4. /\ Len(low \o all \o high) = Len(AllKept) + 1
      /\ \A A \in SUBSET Int : Count(low \o all \o high, A) = Count(AllKept, A) + (IF num \in A THEN 1 ELSE 0)
  <2>1. /\ Len(low \o all \o high) = Len(low \o nums \o high) + 1
        /\ \A A \in SUBSET Int : Count(low \o all \o high, A)
                                 = Count(low \o nums \o high, A) + (IF num \in A THEN 1 ELSE 0)
    BY <1>1, <1>2, InsertedBetween, SMTT(60)
  <2> HIDE DEF all, new
  <2>2. QED
    BY <2>1, Zenon DEF AllKept
<1>5. /\ pushed' = new /\ median' = Middle(all) /\ set_size' = set_size
      /\ \E a \in {0, 1} : a + a <= Len(all) /\ Erase(all, a, a)
  <2>1. Len(nums) \in Nat /\ Len(all) \in Nat
    BY <1>2, <1>3, LenProperties
  <2> HIDE DEF all, new
  <2>2. pushed' = new /\ median' = Middle(all) /\ set_size' = set_size
    BY Zenon DEF MedianPush, all, new
  <2>3. \/ Erase(all, 0, 0)
        \/ Erase(all, 1, 1) /\ Len(all) >= set_size /\ ~(Len(all) >= set_size /\ Len(all) < 2)
    BY Zenon DEF MedianPush, all
  <2>4. QED
    BY <2>1, <2>2, <2>3
<1> HIDE DEF all, new
<1>6. PICK a \in {0, 1} : a + a <= Len(all) /\ Erase(all, a, a)
  BY <1>5
<1>7. /\ nums' \in Seq(Int) /\ low' \in Seq(Int) /\ high' \in Seq(Int)
      /\ Len(low') = Len(low) + a /\ Len(high') = Len(high) + a
      /\ AllKept' = low \o all \o high
  <2>1. a \in Nat
    OBVIOUS
  <2>2. QED
    BY <1>3, <1>6, <2>1, ErasedStep
<1>8. Len(low) \in Nat /\ Len(high) \in Nat /\ a \in Nat
  BY <1>2, LenProperties
<1>9. all # <<>>
  <2>1. Len(nums) \in Nat
    BY <1>2, LenProperties
  <2>2. Len(all) # 0
    BY <1>3, <2>1
  <2>3. QED
    BY <1>3, <2>2, EmptySeq
<1>10. Len(low') = Len(high') => median' = MiddleOf(AllKept')
  <2> SUFFICES ASSUME Len(low') = Len(high') PROVE median' = MiddleOf(AllKept')
    OBVIOUS
  <2>1. Len(low) = Len(high)
    <3>1. Len(low) + a = Len(high) + a
      BY <1>7, Zenon
    <3>2. QED
      BY <1>8, <3>1, EqualRise, Zenon
  <2>2. MiddleOf(low \o all \o high) = Middle(all)
    BY <1>2, <1>3, <1>9, <2>1, MiddleBetween
  <2>3. QED
    BY <1>5, <1>7, <2>2, Zenon
<1>11. Len(low') <= Len(high')
  BY <1>2, <1>7, <1>8
<1>12. Len(AllKept') = Len(pushed')
  BY <1>2, <1>3, <1>4, <1>5, <1>7, Zenon
<1>13. \A A \in SUBSET Int : Count(AllKept', A) = Count(pushed', A)
  <2> TAKE A \in SUBSET Int
  <2>1. Count(low \o all \o high, A) = Count(new, A)
    BY <1>2, <1>3, <1>4, Zenon
  <2>2. QED
    BY <1>5, <1>7, <2>1, Zenon
<1>14. pushed' \in Seq(Int) /\ set_size' \in Int
  BY <1>2, <1>3, <1>5, Zenon
<1>15. QED
  BY <1>7, <1>10, <1>11, <1>12, <1>13, <1>14, Zenon DEF MedianIInv, AllKept, Count, MiddleOf

(* reset() empties the list; nothing is dropped. *)
LEMMA MedianResetStep ==
  ASSUME MedianIInv, MedianReset
  PROVE  MedianIInv'
<1>1. <<>> \in Seq(Int) /\ Len(<<>>) = 0
  BY EmptySeq
<1>2. (low \o nums \o high)' = <<>>
  <2>1. <<>> \o <<>> \o <<>> = <<>>
    BY <1>1, ConcatEmptySeq
  <2>2. QED
    BY <2>1 DEF MedianReset
<1>3. QED
  BY <1>1, <1>2 DEF MedianReset, MedianIInv, AllKept

(* A smaller size drops as many numbers below as above, or one more above. *)
LEMMA MedianSetSizeStep ==
  ASSUME MedianIInv, NEW k \in SET_SIZES, MedianSetSize(k)
  PROVE  MedianIInv'
<1> DEFINE n == set_size - k
<1>1. /\ nums \in Seq(Int) /\ low \in Seq(Int) /\ high \in Seq(Int) /\ pushed \in Seq(Int)
      /\ set_size \in Int /\ k \in Nat /\ Len(nums) \in Nat /\ Len(low) \in Nat /\ Len(high) \in Nat
      /\ Len(low) <= Len(high)
  BY MedianAssumption, LenProperties DEF MedianIInv
<1>2. /\ set_size' = k /\ median' = median /\ pushed' = pushed
      /\ \/ Erase(nums, 0, 0)
         \/ Erase(nums, n \div 2, n - n \div 2) /\ n > 0 /\ ~(Len(nums) < n)
  <2>1. set_size' = k /\ median' = median /\ pushed' = pushed
    BY DEF MedianSetSize
  <2> HIDE DEF n
  <2>2. \/ Erase(nums, 0, 0)
        \/ Erase(nums, n \div 2, n - n \div 2) /\ n > 0 /\ ~(Len(nums) < n)
    BY Zenon DEF MedianSetSize, n
  <2>3. QED
    BY <2>1, <2>2
<1>3. PICK a \in Nat, b \in Nat : a <= b /\ a + b <= Len(nums) /\ Erase(nums, a, b)
  <2>1. CASE Erase(nums, 0, 0)
    BY <1>1, <2>1
  <2>2. CASE Erase(nums, n \div 2, n - n \div 2) /\ n > 0 /\ ~(Len(nums) < n)
    <3>1. n \in Nat
      BY <1>1, <2>2
    <3> HIDE DEF n
    <3>2. /\ n \div 2 \in Nat /\ n - n \div 2 \in Nat /\ n \div 2 <= n - n \div 2
          /\ n \div 2 + (n - n \div 2) = n
      BY <3>1, Halves
    <3>3. n <= Len(nums)
      BY <1>1, <2>2, <3>1
    <3>4. QED
      BY <2>2, <3>2, <3>3, Zenon
  <2>3. QED
    BY <1>2, <2>1, <2>2
<1> HIDE DEF n
<1>4. /\ nums' \in Seq(Int) /\ low' \in Seq(Int) /\ high' \in Seq(Int)
      /\ Len(low') = Len(low) + a /\ Len(high') = Len(high) + b
      /\ AllKept' = AllKept
  BY <1>1, <1>3, ErasedStep, Zenon DEF AllKept
<1>5. Len(low') <= Len(high') /\ (Len(low') = Len(high') => Len(low) = Len(high))
  BY <1>1, <1>3, <1>4
<1>6. k \in Int
  BY <1>1
<1>7. QED
  BY <1>1, <1>2, <1>4, <1>5, <1>6, Zenon DEF MedianIInv, AllKept, Count, MiddleOf

(* The middle of the list is the upper median of all that was pushed. *)
LEMMA MedianGives == MedianIInv => MedianIsExact
<1> SUFFICES ASSUME MedianIInv, pushed # <<>>, Len(low) = Len(high), InOrder(low \o nums \o high)
             PROVE  IsUpperMedian(median, pushed)
  BY DEF MedianIsExact
<1>1. /\ pushed \in Seq(Int) /\ AllKept \in Seq(Int) /\ Len(AllKept) = Len(pushed)
      /\ median = MiddleOf(AllKept) /\ InOrder(AllKept)
      /\ \A A \in SUBSET Int : Count(AllKept, A) = Count(pushed, A)
  <2>1. low \o nums \in Seq(Int)
    BY ConcatProperties DEF MedianIInv
  <2>2. AllKept \in Seq(Int)
    BY <2>1, ConcatProperties DEF AllKept, MedianIInv
  <2>3. QED
    BY <2>2, Zenon DEF MedianIInv, AllKept
<1>2. AllKept # <<>>
  <2>1. Len(pushed) # 0
    BY <1>1, EmptySeq
  <2>2. QED
    BY <1>1, <2>1, EmptySeq
<1>3. /\ median \in Int
      /\ Count(AllKept, {v \in Int : v < median}) <= Len(AllKept) \div 2
      /\ Count(AllKept, {v \in Int : v <= median}) > Len(AllKept) \div 2
  BY <1>1, <1>2, MiddleCounts
<1>4. /\ Count(pushed, {v \in Int : v < median}) <= Len(pushed) \div 2
      /\ Count(pushed, {v \in Int : v <= median}) > Len(pushed) \div 2
  <2>1. {v \in Int : v < median} \in SUBSET Int /\ {v \in Int : v <= median} \in SUBSET Int
    OBVIOUS
  <2>2. QED
    BY <1>1, <1>3, <2>1
<1>5. \A i \in DOMAIN pushed : pushed[i] \in Int
  BY <1>1, LenProperties, ElementOfSeq
<1>6. /\ {i \in DOMAIN pushed : pushed[i] \in {v \in Int : v < median}}
           = {i \in DOMAIN pushed : pushed[i] < median}
      /\ {i \in DOMAIN pushed : pushed[i] \in {v \in Int : v <= median}}
           = {i \in DOMAIN pushed : pushed[i] <= median}
  BY <1>5
<1>7. QED
  BY <1>4, <1>6, Zenon DEF IsUpperMedian, Count

(* IntStreamMedian's value is the upper median of every number pushed since   *)
(* the last reset, as long as as many numbers were dropped above as below and *)
(* none of them would be back in the middle, whatever numbers are pushed and  *)
(* whatever sizes are set: the list of bounded length stands for the stream.  *)
THEOREM MediansAreExact == MedianSpec => []MedianIsExact
<1>1. MedianIInv /\ [MedianNext]_medianVars => MedianIInv'
  <2> SUFFICES ASSUME MedianIInv, [MedianNext]_medianVars PROVE MedianIInv'
    OBVIOUS
  <2>1. ASSUME NEW num \in NUMBERS, MedianPush(num) PROVE MedianIInv'
    BY <2>1, MedianPushStep
  <2>2. CASE MedianReset
    BY <2>2, MedianResetStep
  <2>3. ASSUME NEW k \in SET_SIZES, MedianSetSize(k) PROVE MedianIInv'
    BY <2>3, MedianSetSizeStep
  <2>4. CASE UNCHANGED medianVars
    BY <2>4, Zenon DEF MedianIInv, AllKept, Count, MiddleOf, medianVars
  <2>5. QED
    BY <2>1, <2>2, <2>3, <2>4 DEF MedianNext
<1>2. QED
  BY <1>1, MedianStart, MedianGives, PTL DEF MedianSpec

-----------------------------------------------------------------------------
(*                           Configuration files                           *)

(* What is left of a text, behind each of its parts. *)
Remains(rest, parts, S) ==
    /\ rest \in [0 .. Len(parts) -> Seq(S)]
    /\ rest[0] = FlattenSeq(parts) /\ rest[Len(parts)] = <<>>
    /\ \A i \in 1 .. Len(parts) : rest[i - 1] = parts[i] \o rest[i]

(* FlattenSeq joins the parts one after the other. *)
LEMMA FlattenIs ==
  ASSUME NEW S, NEW parts \in Seq(Seq(S)), parts # <<>>
  PROVE  \E f : /\ f \in [1 .. Len(parts) -> Seq(S)] /\ f[1] = parts[1]
                /\ \A i \in 2 .. Len(parts) : f[i] = f[i - 1] \o parts[i]
                /\ FlattenSeq(parts) = f[Len(parts)]
<1> DEFINE n == Len(parts)
           Body(f) == [i \in 1 .. n |-> IF i = 1 THEN parts[i] ELSE f[i - 1] \o parts[i]]
           F == [p \in (1 .. n - 1) \X Seq(S) |-> p[2] \o parts[p[1] + 1]]
<1>1. n \in Nat /\ n # 0 /\ \A i \in 1 .. n : parts[i] \in Seq(S)
  BY EmptySeq, LenProperties, ElementOfSeq
<1>2. FlattenSeq(parts) = (CHOOSE f : f = Body(f))[n]
  BY <1>1, Zenon DEF FlattenSeq
<1> HIDE DEF n
<1>3. \E g : Walks(g, n - 1, Seq(S), parts[1], F)
  <2>1. n - 1 \in Nat /\ parts[1] \in Seq(S)
    BY <1>1
  <2>2. \A i \in 1 .. n - 1, s \in Seq(S) : s \o parts[i + 1] \in Seq(S)
    <3> TAKE i \in 1 .. n - 1, s \in Seq(S)
    <3>1. parts[i + 1] \in Seq(S)
      BY <1>1
    <3>2. QED
      BY <3>1, ConcatProperties
  <2>3. F \in [(1 .. n - 1) \X Seq(S) -> Seq(S)]
    BY <2>2
  <2> HIDE DEF F
  <2>4. QED
    BY <2>1, <2>3, Iterated
<1>4. PICK g : Walks(g, n - 1, Seq(S), parts[1], F)
  BY <1>3
<1>5. /\ g \in [0 .. n - 1 -> Seq(S)] /\ g[0] = parts[1]
      /\ \A i \in 1 .. n - 1 : g[i] = g[i - 1] \o parts[i + 1]
  <2>1. g \in [0 .. n - 1 -> Seq(S)] /\ g[0] = parts[1] /\ \A i \in 1 .. n - 1 : g[i] = F[<<i, g[i - 1]>>]
    BY <1>4 DEF Walks
  <2>2. \A i \in 1 .. n - 1 : g[i - 1] \in Seq(S)
    BY <1>1, <2>1
  <2>3. \A i \in 1 .. n - 1 : F[<<i, g[i - 1]>>] = g[i - 1] \o parts[i + 1]
    BY <2>2
  <2>4. QED
    BY <2>1, <2>3
<1> HIDE DEF F
<1> DEFINE h == [i \in 1 .. n |-> g[i - 1]]
<1>6. \A i \in 1 .. n : h[i] \in Seq(S)
  BY <1>1, <1>5
<1>7. \A i \in 2 .. n : h[i] = h[i - 1] \o parts[i]
  <2> TAKE i \in 2 .. n
  <2>1. i \in 1 .. n /\ i - 1 \in 1 .. n /\ i - 1 \in 1 .. n - 1 /\ (i - 1) + 1 = i
    BY <1>1
  <2>2. g[i - 1] = g[(i - 1) - 1] \o parts[i]
    BY <1>5, <2>1
  <2>3. QED
    BY <2>1, <2>2
<1>8. h[1] = parts[1] /\ h \in [1 .. n -> Seq(S)]
  BY <1>1, <1>5, <1>6
<1> HIDE DEF h
<1>9. h = Body(h)
  <2>1. \A i \in 1 .. n : h[i] = Body(h)[i]
    <3> TAKE i \in 1 .. n
    <3>1. CASE i = 1
      BY <1>8, <3>1
    <3>2. CASE i # 1
      <4>1. i \in 2 .. n
        BY <1>1, <3>2
      <4>2. QED
        BY <1>7, <3>2, <4>1
    <3>3. QED
      BY <3>1, <3>2
  <2>2. h = [i \in 1 .. n |-> h[i]]
    BY <1>8
  <2>3. QED
    BY <2>1, <2>2
<1>10. PICK f : f = (CHOOSE k : k = Body(k)) /\ f = Body(f)
  <2> HIDE DEF Body
  <2>1. QED
    BY <1>9
<1>11. f[1] = parts[1] /\ \A i \in 2 .. n : f[i] = f[i - 1] \o parts[i]
  <2>1. f[1] = parts[1]
    <3>1. Body(f)[1] = parts[1]
      BY <1>1
    <3> HIDE DEF Body
    <3>2. QED
      BY <1>10, <3>1, Zenon
  <2>2. \A i \in 2 .. n : i \in 1 .. n /\ i # 1
    BY <1>1
  <2>3. QED
    BY <2>1, <2>2, <1>10
<1>12. f \in [1 .. n -> Seq(S)]
  <2> DEFINE e == [i \in 0 .. n - 1 |-> f[i + 1]]
  <2>1. e[0] \in Seq(S)
    BY <1>1, <1>11
  <2>2. \A i \in 1 .. n - 1 : e[i - 1] \in Seq(S) => e[i] \in Seq(S)
    <3> TAKE i \in 1 .. n - 1
    <3> HAVE e[i - 1] \in Seq(S)
    <3>1. i + 1 \in 2 .. n /\ i + 1 \in 1 .. n /\ i - 1 \in 0 .. n - 1 /\ i \in 0 .. n - 1
          /\ (i - 1) + 1 = i /\ (i + 1) - 1 = i
      BY <1>1
    <3>2. e[i - 1] = f[i] /\ e[i] = f[i + 1]
      BY <3>1
    <3>3. f[i + 1] = f[i] \o parts[i + 1] /\ parts[i + 1] \in Seq(S)
      BY <1>1, <1>11, <3>1
    <3> HIDE DEF e
    <3>4. QED
      BY <3>2, <3>3, ConcatProperties
  <2> HIDE DEF e
  <2>3. n - 1 \in Nat
    BY <1>1
  <2>4. \A i \in 0 .. n - 1 : e[i] \in Seq(S)
    BY <2>1, <2>2, <2>3, Kept
  <2>5. ASSUME NEW i \in 1 .. n PROVE f[i] \in Seq(S)
    <3>1. i - 1 \in 0 .. n - 1 /\ (i - 1) + 1 = i
      BY <1>1
    <3>2. e[i - 1] = f[i]
      BY <3>1 DEF e
    <3>3. QED
      BY <2>4, <3>1, <3>2
  <2>6. f = [i \in 1 .. n |-> f[i]]
    BY <1>10
  <2>7. QED
    BY <2>5, <2>6
<1>13. QED
  <2>1. f \in [1 .. Len(parts) -> Seq(S)] /\ f[1] = parts[1]
        /\ (\A i \in 2 .. Len(parts) : f[i] = f[i - 1] \o parts[i])
        /\ FlattenSeq(parts) = f[Len(parts)]
    BY <1>2, <1>10, <1>11, <1>12 DEF n
  <2>2. QED
    BY <2>1

(* Every text of parts has what remains behind each of them. *)
LEMMA RemainsExist ==
  ASSUME NEW S, NEW parts \in Seq(Seq(S))
  PROVE  \E rest : Remains(rest, parts, S)
<1>1. Len(parts) \in Nat /\ \A i \in 1 .. Len(parts) : parts[i] \in Seq(S)
  BY LenProperties, ElementOfSeq
<1>2. PICK n \in Nat : n = Len(parts)
  BY <1>1
<1>3. <<>> \in Seq(S)
  BY EmptySeq
<1> DEFINE F == [p \in (1 .. n) \X Seq(S) |-> parts[n - p[1] + 1] \o p[2]]
<1>4. \E g : Walks(g, n, Seq(S), <<>>, F)
  <2>1. \A i \in 1 .. n, s \in Seq(S) : parts[n - i + 1] \o s \in Seq(S)
    <3> TAKE i \in 1 .. n, s \in Seq(S)
    <3>1. n - i + 1 \in 1 .. Len(parts)
      BY <1>2
    <3>2. parts[n - i + 1] \in Seq(S)
      BY <1>1, <3>1
    <3>3. QED
      BY <3>2, ConcatProperties
  <2>2. F \in [(1 .. n) \X Seq(S) -> Seq(S)]
    BY <2>1
  <2> HIDE DEF F
  <2>3. QED
    BY <1>3, <2>2, Iterated
<1>5. PICK g : Walks(g, n, Seq(S), <<>>, F)
  BY <1>4
<1>6. /\ g \in [0 .. n -> Seq(S)] /\ g[0] = <<>>
      /\ \A i \in 1 .. n : g[i] = parts[n - i + 1] \o g[i - 1]
  <2>1. g \in [0 .. n -> Seq(S)] /\ g[0] = <<>> /\ \A i \in 1 .. n : g[i] = F[<<i, g[i - 1]>>]
    BY <1>5 DEF Walks
  <2>2. \A i \in 1 .. n : g[i - 1] \in Seq(S)
    BY <2>1
  <2>3. \A i \in 1 .. n : F[<<i, g[i - 1]>>] = parts[n - i + 1] \o g[i - 1]
    BY <2>2
  <2>4. QED
    BY <2>1, <2>3
<1> HIDE DEF F
<1> DEFINE rest == [i \in 0 .. n |-> g[n - i]]
<1>7. \A i \in 0 .. n : n - i \in 0 .. n /\ rest[i] = g[n - i]
  OBVIOUS
<1>8. rest \in [0 .. n -> Seq(S)] /\ rest[n] = <<>>
  BY <1>6
<1>9. \A i \in 1 .. n : rest[i - 1] = parts[i] \o rest[i]
  <2> TAKE i \in 1 .. n
  <2>1. i \in 0 .. n /\ i - 1 \in 0 .. n /\ n - (i - 1) \in 1 .. n /\ n - (n - (i - 1)) + 1 = i
        /\ (n - (i - 1)) - 1 = n - i
    OBVIOUS
  <2>2. g[n - (i - 1)] = parts[i] \o g[n - i]
    BY <1>6, <2>1
  <2>3. QED
    BY <1>7, <2>1, <2>2
<1> HIDE DEF rest
<1>10. rest[0] = FlattenSeq(parts)
  <2>1. CASE n = 0
    <3>1. parts = <<>> /\ FlattenSeq(parts) = parts
      BY <1>2, <2>1, Zenon, EmptySeq DEF FlattenSeq
    <3>2. QED
      BY <1>8, <2>1, <3>1
  <2>2. CASE n # 0
    <3>1. parts # <<>>
      BY <1>2, <2>2
    <3>2. PICK f : /\ f \in [1 .. n -> Seq(S)] /\ f[1] = parts[1]
                   /\ \A i \in 2 .. n : f[i] = f[i - 1] \o parts[i]
                   /\ FlattenSeq(parts) = f[n]
      BY <1>2, <3>1, FlattenIs
    <3> DEFINE Whole == {rest[0]}
               c == [i \in 0 .. n - 1 |-> f[i + 1] \o rest[i + 1]]
    <3>3. \A i \in 1 .. n : c[i - 1] = f[i] \o rest[i]
      <4> TAKE i \in 1 .. n
      <4>1. i - 1 \in 0 .. n - 1 /\ (i - 1) + 1 = i
        OBVIOUS
      <4>2. QED
        BY <4>1
    <3> HIDE DEF c
    <3>4. c[0] = rest[0]
      <4>1. 1 \in 1 .. n /\ 1 - 1 = 0
        BY <2>2
      <4>2. rest[0] = parts[1] \o rest[1]
        BY <1>9, <4>1
      <4>3. QED
        BY <3>2, <3>3, <4>1, <4>2
    <3>5. \A i \in 1 .. n - 1 : c[i] = c[i - 1]
      <4> TAKE i \in 1 .. n - 1
      <4>1. i \in 1 .. n /\ i + 1 \in 1 .. n /\ i + 1 \in 2 .. n /\ (i + 1) - 1 = i /\ i + 1 \in 0 .. n
        OBVIOUS
      <4>2. c[i] = f[i + 1] \o rest[i + 1] /\ c[i - 1] = f[i] \o rest[i]
        BY <3>3, <4>1
      <4>3. f[i + 1] = f[i] \o parts[i + 1] /\ rest[i] = parts[i + 1] \o rest[i + 1]
        BY <1>9, <3>2, <4>1
      <4>4. f[i] \in Seq(S) /\ parts[i + 1] \in Seq(S) /\ rest[i + 1] \in Seq(S)
        BY <1>1, <1>2, <1>8, <3>2, <4>1
      <4>5. \A a, b, e \in Seq(S) : (a \o b) \o e = a \o (b \o e)
        BY ConcatAssociative
      <4>6. (f[i] \o parts[i + 1]) \o rest[i + 1] = f[i] \o (parts[i + 1] \o rest[i + 1])
        BY <4>4, <4>5, Zenon
      <4>7. QED
        BY <4>2, <4>3, <4>6
    <3>6. n - 1 \in Nat
      BY <2>2
    <3>7. c[0] \in Whole
      BY <3>4
    <3>8. \A i \in 1 .. n - 1 : c[i - 1] \in Whole => c[i] \in Whole
      BY <3>5
    <3> HIDE DEF Whole
    <3>9. \A i \in 0 .. n - 1 : c[i] \in Whole
      BY <3>6, <3>7, <3>8, Kept
    <3>10. c[n - 1] = rest[0]
      BY <3>6, <3>9 DEF Whole
    <3>11. c[n - 1] = f[n] \o rest[n] /\ f[n] \in Seq(S)
      <4>1. n \in 1 .. n
        BY <2>2
      <4>2. QED
        BY <3>2, <3>3, <4>1
    <3>12. f[n] \o <<>> = f[n]
      BY <3>11, ConcatEmptySeq
    <3>13. QED
      BY <1>8, <3>2, <3>10, <3>11, <3>12
  <2>3. QED
    BY <2>1, <2>2
<1>11. Remains(rest, parts, S)
  BY <1>2, <1>8, <1>9, <1>10 DEF Remains
<1>12. QED
  BY <1>11

-----------------------------------------------------------------------------
(* A line of a file: the parameter set by it, the text it includes.          *)
Lines == (DOMAIN FILES) \X Nat

Part(text, name, i) ==
    LET line == FILES[name][i] IN
    IF Includes(line) THEN text[line.of]
    ELSE IF line.kind = "set" THEN << <<name, i>> >> ELSE <<>>

Parts(text, name) == [i \in DOMAIN FILES[name] |-> Part(text, name, i)]

(* A file is a sequence of lines, each of one of four kinds. *)
LEMMA FileIs ==
  ASSUME NEW name \in DOMAIN FILES
  PROVE  /\ FILES[name] \in Seq(ConfFileLine) /\ Len(FILES[name]) \in Nat
         /\ DOMAIN FILES[name] = 1 .. Len(FILES[name])
         /\ \A i \in 1 .. Len(FILES[name]) :
                FILES[name][i].kind \in {"blank", "set", "bad", "include"}
<1>1. FILES[name] \in Seq(ConfFileLine)
  BY ConfAssumption
<1>2. Len(FILES[name]) \in Nat /\ DOMAIN FILES[name] = 1 .. Len(FILES[name])
  BY <1>1, LenProperties
<1>3. \A i \in 1 .. Len(FILES[name]) : FILES[name][i] \in ConfFileLine
  BY <1>1, ElementOfSeq
<1>4. \A line \in ConfFileLine : line.kind \in {"blank", "set", "bad", "include"}
  BY DEF ConfFileLine
<1>5. QED
  BY <1>1, <1>2, <1>3, <1>4

(* The text of every file that is included is there. *)
Given(text, name) ==
    \A i \in DOMAIN FILES[name] :
        Includes(FILES[name][i]) => text[FILES[name][i].of] \in Seq(Lines)

(* The text of a line is a sequence of lines, ... *)
LEMMA PartIs ==
  ASSUME NEW name \in DOMAIN FILES, NEW i \in 1 .. Len(FILES[name]),
         NEW text, Given(text, name)
  PROVE  Part(text, name, i) \in Seq(Lines)
<1>1. <<name, i>> \in Lines
  <2>1. Len(FILES[name]) \in Nat
    BY FileIs
  <2>2. i \in Nat
    BY <2>1
  <2>3. QED
    BY <2>2 DEF Lines
<1>2. << <<name, i>> >> \in Seq(Lines) /\ <<>> \in Seq(Lines)
  BY <1>1
<1> DEFINE line == FILES[name][i]
<1>3. Includes(line) => text[line.of] \in Seq(Lines)
  BY FileIs DEF Given
<1> HIDE DEF line
<1>4. (IF Includes(line) THEN text[line.of]
       ELSE IF line.kind = "set" THEN << <<name, i>> >> ELSE <<>>) \in Seq(Lines)
  BY <1>2, <1>3, Zenon
<1>5. QED
  BY <1>4 DEF Part, line

(* ... and that of a file a sequence of such texts. *)
LEMMA PartsAre ==
  ASSUME NEW name \in DOMAIN FILES, NEW text, Given(text, name)
  PROVE  /\ Parts(text, name) \in Seq(Seq(Lines))
         /\ Len(Parts(text, name)) = Len(FILES[name])
         /\ \A i \in 1 .. Len(FILES[name]) : Parts(text, name)[i] = Part(text, name, i)
<1>1. DOMAIN FILES[name] = 1 .. Len(FILES[name]) /\ Len(FILES[name]) \in Nat
  BY FileIs
<1>2. Parts(text, name) \in [1 .. Len(FILES[name]) -> Seq(Lines)]
  BY <1>1, PartIs DEF Parts
<1>3. \A s, n : n \in Nat /\ s \in [1 .. n -> Seq(Lines)] => s \in Seq(Seq(Lines)) /\ Len(s) = n
  OBVIOUS
<1>4. QED
  BY <1>1, <1>2, <1>3 DEF Parts

(* The definition of Inlined by recursion defines it: includes end. *)
LEMMA InlinedIs ==
  /\ Inlined \in [DOMAIN FILES -> Seq(Lines)]
  /\ \A name \in DOMAIN FILES : Inlined[name] = FlattenSeq(Parts(Inlined, name))
<1> DEFINE S == DOMAIN FILES
           T == [S -> Seq(Lines)]
           Body(text) == [name \in S |-> FlattenSeq(Parts(text, name))]
           body == [text \in T |-> Body(text)]
           n == Cardinality(S)
<1>1. Inlined = CHOOSE text : text = Body(text)
  BY Zenon DEF Inlined, Parts, Part
<1>2. \A text : \A name \in S : Given(text, name) => FlattenSeq(Parts(text, name)) \in Seq(Lines)
  <2> TAKE text
  <2> TAKE name \in S
  <2> HAVE Given(text, name)
  <2>1. Parts(text, name) \in Seq(Seq(Lines))
    BY PartsAre
  <2>2. PICK rest : Remains(rest, Parts(text, name), Lines)
    BY <2>1, RemainsExist
  <2>3. Len(Parts(text, name)) \in Nat
    BY <2>1, LenProperties
  <2>4. QED
    BY <2>2, <2>3 DEF Remains
<1>3. body \in [T -> T]
  <2>1. \A text \in T, name \in S : Given(text, name)
    BY DEF Given, Includes
  <2>2. QED
    BY <1>2, <2>1
<1>4. n \in Nat
  BY ConfAssumption, FS_CardinalityType
<1>5. PICK depth \in [S -> 0 .. n] :
          \A name \in DOMAIN FILES : \A i \in DOMAIN FILES[name] :
              Includes(FILES[name][i]) => depth[FILES[name][i].of] < depth[name]
  BY ConfAssumption DEF IncludesEnd
<1>6. ASSUME NEW f \in T, NEW g \in T, NEW x \in S, \A y \in S : depth[y] < depth[x] => f[y] = g[y]
      PROVE  body[f][x] = body[g][x]
  <2>1. \A i \in DOMAIN FILES[x] : Part(f, x, i) = Part(g, x, i)
    <3> TAKE i \in DOMAIN FILES[x]
    <3>1. Includes(FILES[x][i]) => f[FILES[x][i].of] = g[FILES[x][i].of]
      BY <1>5, <1>6 DEF Includes
    <3>2. QED
      BY <3>1 DEF Part
  <2>2. Parts(f, x) = Parts(g, x)
    BY <2>1 DEF Parts
  <2>3. body[f][x] = FlattenSeq(Parts(f, x)) /\ body[g][x] = FlattenSeq(Parts(g, x))
    OBVIOUS
  <2>4. QED
    BY <2>2, <2>3
<1>7. <<>> \in Seq(Lines)
  OBVIOUS
<1>8. PICK text \in T : text = body[text]
  <2>1. \A f, g \in T : \A x \in S :
            (\A y \in S : depth[y] < depth[x] => f[y] = g[y]) => body[f][x] = body[g][x]
    BY <1>6
  <2>2. Descends(body, depth, n, S, Seq(Lines))
    BY <1>3, <1>4, <1>5, <1>7, <2>1 DEF Descends
  <2> HIDE DEF body, n, S, T
  <2>3. Settles(body, S, Seq(Lines))
    BY <2>2, RecursionEnds, Zenon
  <2>4. QED
    BY <2>3 DEF T, Settles
<1>9. \E k : k = Body(k)
  BY <1>8
<1>10. Inlined = Body(Inlined)
  <2> HIDE DEF Body
  <2>1. QED
    BY <1>1, <1>9, Zenon
<1>11. \A name \in S : Inlined[name] = FlattenSeq(Parts(Inlined, name))
  BY <1>10
<1>12. \A name \in S : Inlined[name] \in Seq(Lines)
  <2> DEFINE bad == {k \in 0 .. n : \E name \in S : depth[name] = k /\ Inlined[name] \notin Seq(Lines)}
  <2>1. SUFFICES ASSUME bad # {} PROVE FALSE
    <3>1. \A name \in S : depth[name] \in 0 .. n
      OBVIOUS
    <3>2. QED
      BY <3>1
  <2>2. bad \in SUBSET Nat
    BY <1>4
  <2>3. PICK k \in bad : \A l \in bad : k <= l
    <3> HIDE DEF bad
    <3>1. QED
      BY <2>1, <2>2, LeastOf
  <2>4. PICK name \in S : depth[name] = k /\ Inlined[name] \notin Seq(Lines)
    BY <2>3
  <2>5. \A y \in S : depth[y] < depth[name] => Inlined[y] \in Seq(Lines)
    <3> TAKE y \in S
    <3> HAVE depth[y] < depth[name]
    <3>1. depth[y] \in 0 .. n
      OBVIOUS
    <3>2. depth[y] \notin bad
      BY <1>4, <2>2, <2>3, <2>4, <3>1
    <3>3. QED
      BY <3>1, <3>2
  <2>6. Given(Inlined, name)
    BY <1>5, <2>5 DEF Given, Includes
  <2>7. QED
    BY <1>2, <1>11, <2>4, <2>6
<1>13. Inlined = [name \in S |-> Inlined[name]]
  BY <1>10
<1>14. QED
  BY <1>11, <1>12, <1>13
(* And so does that of Regular. *)
LEMMA RegularIs ==
  \A name \in DOMAIN FILES : Regular[name] <=>
      /\ name \in UNTERMINATED /\ Len(FILES[name]) > 1 =>
              FILES[name][Len(FILES[name]) - 1].kind # "include"
      /\ \A i \in DOMAIN FILES[name] :
              Includes(FILES[name][i]) => Regular[FILES[name][i].of]
<1> DEFINE S == DOMAIN FILES
           Body(reg) == [name \in S |->
               /\ name \in UNTERMINATED /\ Len(FILES[name]) > 1 =>
                       FILES[name][Len(FILES[name]) - 1].kind # "include"
               /\ \A i \in DOMAIN FILES[name] :
                       Includes(FILES[name][i]) => reg[FILES[name][i].of]]
           T == [S -> BOOLEAN]
           body == [reg \in T |-> Body(reg)]
           n == Cardinality(S)
<1>1. Regular = CHOOSE reg : reg = Body(reg)
  BY Zenon DEF Regular
<1>2. \A reg : \A name \in S : Body(reg)[name] \in BOOLEAN
  BY Zenon
<1>3. body \in [T -> T]
  <2>1. \A reg : Body(reg) \in T
    BY <1>2
  <2> HIDE DEF Body, T
  <2>2. QED
    BY <2>1
<1>4. n \in Nat
  BY ConfAssumption, FS_CardinalityType
<1>5. PICK depth \in [S -> 0 .. n] :
          \A name \in DOMAIN FILES : \A i \in DOMAIN FILES[name] :
              Includes(FILES[name][i]) => depth[FILES[name][i].of] < depth[name]
  BY ConfAssumption DEF IncludesEnd
<1>6. ASSUME NEW f \in T, NEW g \in T, NEW x \in S, \A y \in S : depth[y] < depth[x] => f[y] = g[y]
      PROVE  body[f][x] = body[g][x]
  <2>1. \A i \in DOMAIN FILES[x] : Includes(FILES[x][i]) =>
            f[FILES[x][i].of] = g[FILES[x][i].of]
    BY <1>5, <1>6 DEF Includes
  <2>2. Body(f)[x] = Body(g)[x]
    BY <2>1, Zenon
  <2>3. body[f] = Body(f) /\ body[g] = Body(g)
    OBVIOUS
  <2> HIDE DEF Body, body
  <2>4. QED
    BY <2>2, <2>3
<1>7. \E k : k = Body(k)
  <2>1. \A f, g \in T : \A x \in S :
            (\A y \in S : depth[y] < depth[x] => f[y] = g[y]) => body[f][x] = body[g][x]
    BY <1>6
  <2> HIDE DEF body
  <2>2. Descends(body, depth, n, S, BOOLEAN)
    BY <1>3, <1>4, <1>5, <2>1 DEF Descends
  <2> HIDE DEF n, S, T
  <2>3. Settles(body, S, BOOLEAN)
    BY <2>2, RecursionEnds, Zenon
  <2>4. \E k \in T : k = body[k]
    BY <2>3 DEF T, Settles
  <2> HIDE DEF Body
  <2>5. QED
    BY <2>4 DEF body
<1>8. Regular = Body(Regular)
  <2> HIDE DEF Body
  <2>1. QED
    BY <1>1, <1>7, Zenon
<1>9. \A name \in S : Body(Regular)[name] <=>
          /\ name \in UNTERMINATED /\ Len(FILES[name]) > 1 =>
                  FILES[name][Len(FILES[name]) - 1].kind # "include"
          /\ \A i \in DOMAIN FILES[name] :
                  Includes(FILES[name][i]) => Regular[FILES[name][i].of]
  BY Zenon
<1> HIDE DEF Body
<1>10. QED
  BY <1>8, <1>9, Zenon

-----------------------------------------------------------------------------
(* The inlined text of a file behind its line i. *)
After(name, i) == (CHOOSE rest : Remains(rest, Parts(Inlined, name), Lines))[i]

(* Behind line 0 is the whole text, behind the last one nothing, and behind  *)
(* line i - 1 the text of line i and what is behind it.                       *)
LEMMA AfterIs ==
  ASSUME NEW name \in DOMAIN FILES
  PROVE  /\ \A i \in 0 .. Len(FILES[name]) : After(name, i) \in Seq(Lines)
         /\ After(name, 0) = Inlined[name] /\ After(name, Len(FILES[name])) = <<>>
         /\ \A i \in 1 .. Len(FILES[name]) :
                After(name, i - 1) = Part(Inlined, name, i) \o After(name, i)
<1>1. Given(Inlined, name)
  BY InlinedIs DEF Given, Includes
<1> DEFINE parts == Parts(Inlined, name)
<1>2. /\ parts \in Seq(Seq(Lines)) /\ Len(parts) = Len(FILES[name])
      /\ \A i \in 1 .. Len(FILES[name]) : parts[i] = Part(Inlined, name, i)
  BY <1>1, PartsAre
<1>3. Remains(CHOOSE rest : Remains(rest, parts, Lines), parts, Lines)
  <2>1. \E rest : Remains(rest, parts, Lines)
    BY <1>2, RemainsExist
  <2> HIDE DEF parts
  <2>2. QED
    BY <2>1, Zenon
<1>4. PICK rest : /\ Remains(rest, parts, Lines) /\ \A i : After(name, i) = rest[i]
  BY <1>3, Zenon DEF After
<1>5. /\ rest \in [0 .. Len(FILES[name]) -> Seq(Lines)]
      /\ rest[0] = FlattenSeq(parts) /\ rest[Len(FILES[name])] = <<>>
      /\ \A i \in 1 .. Len(FILES[name]) : rest[i - 1] = parts[i] \o rest[i]
  BY <1>2, <1>4 DEF Remains
<1>6. Inlined[name] = FlattenSeq(parts)
  BY InlinedIs
<1> HIDE DEF parts
<1>7. \A i \in 1 .. Len(FILES[name]) : rest[i - 1] = Part(Inlined, name, i) \o rest[i]
  BY <1>2, <1>5
<1>8. \A i \in 0 .. Len(FILES[name]) : rest[i] \in Seq(Lines)
  BY <1>5
<1>9. QED
  BY <1>4, <1>5, <1>6, <1>7, <1>8, Zenon

(* What the text of a line is. *)
LEMMA PartOfLine ==
  ASSUME NEW name \in DOMAIN FILES, NEW i \in 1 .. Len(FILES[name])
  PROVE  /\ FILES[name][i].kind = "set" => Part(Inlined, name, i) = << <<name, i>> >>
         /\ FILES[name][i].kind \in {"blank", "bad"} => Part(Inlined, name, i) = <<>>
         /\ FILES[name][i].kind = "include" =>
                Part(Inlined, name, i) = IF FILES[name][i].of \in DOMAIN FILES
                                         THEN Inlined[FILES[name][i].of] ELSE <<>>
BY DEF Part, Includes

-----------------------------------------------------------------------------
(* The number a line has when it was read: line_num after it.                *)
NumberOf(name, i) == IF LastLine(name, i) /\ name \in UNTERMINATED THEN i ELSE i + 1

(* Of the lines of a file, those with a number up to num are those to j. *)
SkipsTo(num, name, j) ==
    \A i \in 1 .. Len(FILES[name]) : NumberOf(name, i) <= num <=> i <= j

(* The first time a file is read, no line is skipped. *)
LEMMA NothingSkipped ==
  ASSUME NEW name \in DOMAIN FILES
  PROVE  SkipsTo(0, name, 0)
<1>1. Len(FILES[name]) \in Nat
  BY FileIs
<1>2. QED
  BY <1>1 DEF SkipsTo, NumberOf

(* The lines to the include, and it, are skipped the second time, no other. *)
LEMMA IncludeSkipped ==
  ASSUME NEW name \in DOMAIN FILES, Regular[name], NEW j \in 1 .. Len(FILES[name]),
         FILES[name][j].kind = "include"
  PROVE  SkipsTo(NumberOf(name, j), name, j)
<1>1. Len(FILES[name]) \in Nat
  BY FileIs
<1>2. name \in UNTERMINATED /\ Len(FILES[name]) > 1 => j # Len(FILES[name]) - 1
  BY RegularIs
<1>3. QED
  BY <1>1, <1>2 DEF SkipsTo, NumberOf, LastLine

-----------------------------------------------------------------------------
(* The calls of include_parse() under way, and the text that is left when    *)
(* the innermost file has been read: the rest of each of the other files.    *)
Calls == [line : Nat, name : DOMAIN FILES, rest : BOOLEAN]

IncludeAt(call, j) ==
    /\ j \in 1 .. Len(FILES[call.name]) /\ FILES[call.name][j].kind = "include"
    /\ call.line = NumberOf(call.name, j) /\ Regular[call.name]

Owed(t, calls) ==
    /\ t \in [0 .. Len(calls) -> Seq(Lines)] /\ t[0] = <<>>
    /\ \A k \in 1 .. Len(calls) :
          IF calls[k].rest THEN t[k] = t[k - 1]
          ELSE \E j : IncludeAt(calls[k], j) /\ t[k] = After(calls[k].name, j) \o t[k - 1]

Left(calls, text) == \E t : Owed(t, calls) /\ t[Len(calls)] = text

(* What is left is a text. *)
LEMMA LeftIsText ==
  ASSUME NEW calls \in Seq(Calls), NEW text, Left(calls, text)
  PROVE  text \in Seq(Lines)
<1>1. Len(calls) \in Nat
  BY LenProperties
<1>2. QED
  BY <1>1 DEF Left, Owed

(* Without a call under way, nothing is left. *)
LEMMA NothingLeft ==
  ASSUME NEW text
  PROVE  Left(<<>>, text) <=> text = <<>>
<1>1. Len(<<>>) = 0
  OBVIOUS
<1>2. Owed([k \in 0 .. 0 |-> <<>>], <<>>)
  <2>1. <<>> \in Seq(Lines)
    OBVIOUS
  <2> DEFINE t == [k \in 0 .. 0 |-> <<>>]
  <2>2. t \in [0 .. 0 -> Seq(Lines)] /\ t[0] = <<>>
    BY <2>1
  <2> HIDE DEF t
  <2>3. \A k : k \notin 1 .. 0
    OBVIOUS
  <2>4. Owed(t, <<>>)
    BY <1>1, <2>2, <2>3 DEF Owed
  <2>5. QED
    BY <2>4 DEF t
<1>3. [k \in 0 .. 0 |-> <<>>][0] = <<>>
  OBVIOUS
<1>4. Left(<<>>, <<>>)
  BY <1>1, <1>2, <1>3 DEF Left
<1>5. Left(<<>>, text) => text = <<>>
  BY <1>1 DEF Left, Owed
<1>6. QED
  BY <1>4, <1>5

(* An include adds the rest of its file. *)
LEMMA LeftPush ==
  ASSUME NEW calls \in Seq(Calls), NEW text, Left(calls, text), NEW call \in Calls,
         ~call.rest, NEW j, IncludeAt(call, j)
  PROVE  Left(Append(calls, call), After(call.name, j) \o text)
<1>1. PICK t : Owed(t, calls) /\ t[Len(calls)] = text
  BY DEF Left
<1>2. PICK n \in Nat : n = Len(calls)
  BY LenProperties
<1> DEFINE more == Append(calls, call)
           new == After(call.name, j) \o text
           u == [k \in 0 .. n + 1 |-> IF k = n + 1 THEN new ELSE t[k]]
<1>3. /\ Len(more) = n + 1 /\ more[n + 1] = call
      /\ \A k \in 1 .. n : more[k] = calls[k]
  BY <1>2, AppendProperties
<1>4. text \in Seq(Lines) /\ After(call.name, j) \in Seq(Lines)
  <2>1. call.name \in DOMAIN FILES /\ j \in 1 .. Len(FILES[call.name])
    BY DEF Calls, IncludeAt
  <2>2. Len(FILES[call.name]) \in Nat
    BY <2>1, FileIs
  <2>3. j \in 0 .. Len(FILES[call.name])
    BY <2>1, <2>2
  <2>4. QED
    BY <2>1, <2>3, AfterIs, LeftIsText
<1>5. new \in Seq(Lines)
  BY <1>4, ConcatProperties
<1> HIDE DEF more, new
<1>6. t \in [0 .. n -> Seq(Lines)] /\ t[0] = <<>> /\ t[n] = text
  BY <1>1, <1>2 DEF Owed
<1>7. u \in [0 .. n + 1 -> Seq(Lines)] /\ u[0] = <<>> /\ u[n + 1] = new
  BY <1>5, <1>6
<1>8. \A k \in 0 .. n : u[k] = t[k]
  OBVIOUS
<1> HIDE DEF u
<1>9. ASSUME NEW k \in 1 .. n + 1
      PROVE  IF more[k].rest THEN u[k] = u[k - 1]
             ELSE \E i : IncludeAt(more[k], i) /\ u[k] = After(more[k].name, i) \o u[k - 1]
  <2>1. CASE k = n + 1
    <3>1. more[k] = call /\ u[k] = new /\ k - 1 \in 0 .. n /\ k - 1 = n
      BY <1>3, <1>7, <2>1
    <3>2. u[k - 1] = text
      BY <1>6, <1>8, <3>1
    <3>3. QED
      BY <3>1, <3>2 DEF new
  <2>2. CASE k # n + 1
    <3>1. k \in 1 .. n /\ k - 1 \in 0 .. n /\ k \in 0 .. n
      BY <2>2
    <3>2. more[k] = calls[k] /\ u[k] = t[k] /\ u[k - 1] = t[k - 1]
      BY <1>3, <1>8, <3>1
    <3>3. QED
      BY <1>1, <1>2, <3>1, <3>2 DEF Owed
  <2>3. QED
    BY <2>1, <2>2
<1>10. Owed(u, more)
  BY <1>3, <1>7, <1>9 DEF Owed
<1>11. Left(more, new)
  BY <1>3, <1>7, <1>10 DEF Left
<1>12. QED
  BY <1>11 DEF more, new

(* The calls but the innermost. *)
LEMMA FrontIs ==
  ASSUME NEW S, NEW s \in Seq(S), s # <<>>
  PROVE  /\ Front(s) \in Seq(S) /\ Len(Front(s)) = Len(s) - 1
         /\ Len(s) \in Nat \ {0} /\ \A k \in 1 .. Len(s) - 1 : Front(s)[k] = s[k]
<1>1. Len(s) \in Nat \ {0}
  BY EmptySeq
<1>2. PICK n \in Nat : n = Len(s) - 1
  BY <1>1
<1>3. \A i \in 1 .. n : s[i] \in S
  BY <1>1, <1>2, ElementOfSeq
<1>4. /\ SubSeq(s, 1, n) \in Seq(S) /\ Len(SubSeq(s, 1, n)) = IF 1 <= n THEN n - 1 + 1 ELSE 0
      /\ \A i \in 1 .. n - 1 + 1 : SubSeq(s, 1, n)[i] = s[1 + i - 1]
  BY <1>3, SubSeqProperties
<1> DEFINE f == SubSeq(s, 1, n)
<1>5. Front(s) = f
  BY <1>2 DEF Front
<1>6. f \in Seq(S) /\ Len(f) = IF 1 <= n THEN n - 1 + 1 ELSE 0
  BY <1>4
<1>7. \A i \in 1 .. n : f[i] = s[i]
  <2>1. \A i \in 1 .. n : i \in 1 .. n - 1 + 1 /\ 1 + i - 1 = i
    OBVIOUS
  <2>2. QED
    BY <1>4, <2>1
<1> HIDE DEF f
<1>8. Len(f) = n
  BY <1>6
<1>9. QED
  BY <1>1, <1>2, <1>5, <1>6, <1>7, <1>8

(* A call that has read the rest of its file leaves as much. *)
LEMMA LeftPop ==
  ASSUME NEW calls \in Seq(Calls), calls # <<>>, Last(calls).rest, NEW text, Left(calls, text)
  PROVE  Left(Front(calls), text)
<1>1. PICK t : Owed(t, calls) /\ t[Len(calls)] = text
  BY DEF Left
<1>2. PICK n \in Nat : n = Len(calls) /\ n # 0
  BY FrontIs
<1>3. /\ Front(calls) \in Seq(Calls) /\ Len(Front(calls)) = n - 1
      /\ \A k \in 1 .. n - 1 : Front(calls)[k] = calls[k]
  BY <1>2, FrontIs
<1> DEFINE u == [k \in 0 .. n - 1 |-> t[k]]
<1>4. t \in [0 .. n -> Seq(Lines)] /\ t[0] = <<>> /\ t[n] = text
  BY <1>1, <1>2 DEF Owed
<1>5. u \in [0 .. n - 1 -> Seq(Lines)] /\ u[0] = <<>> /\ \A k \in 0 .. n - 1 : u[k] = t[k]
  BY <1>2, <1>4
<1> HIDE DEF u
<1>6. t[n] = t[n - 1]
  <2>1. n \in 1 .. n
    BY <1>2
  <2>2. QED
    BY <1>1, <1>2, <2>1 DEF Owed, Last
<1>7. ASSUME NEW k \in 1 .. n - 1
      PROVE  IF Front(calls)[k].rest THEN u[k] = u[k - 1]
             ELSE \E i : IncludeAt(Front(calls)[k], i)
                         /\ u[k] = After(Front(calls)[k].name, i) \o u[k - 1]
  <2>1. k \in 1 .. n /\ k - 1 \in 0 .. n - 1 /\ k \in 0 .. n - 1
    BY <1>2
  <2>2. Front(calls)[k] = calls[k] /\ u[k] = t[k] /\ u[k - 1] = t[k - 1]
    BY <1>3, <1>5, <2>1
  <2>3. QED
    BY <1>1, <1>2, <2>1, <2>2 DEF Owed
<1>8. Owed(u, Front(calls))
  BY <1>3, <1>5, <1>7 DEF Owed
<1>9. u[n - 1] = text
  <2>1. n - 1 \in 0 .. n - 1
    BY <1>2
  <2>2. QED
    BY <1>4, <1>5, <1>6, <2>1
<1>10. QED
  BY <1>3, <1>8, <1>9 DEF Left

(* A call that begins the rest of its file takes it from what is left. *)
LEMMA LeftResume ==
  ASSUME NEW calls \in Seq(Calls), calls # <<>>, ~Last(calls).rest, NEW text, Left(calls, text)
  PROVE  \E j, rest :
             /\ IncludeAt(Last(calls), j) /\ text = After(Last(calls).name, j) \o rest
             /\ Left([calls EXCEPT ![Len(calls)].rest = TRUE], rest)
<1>1. PICK t : Owed(t, calls) /\ t[Len(calls)] = text
  BY DEF Left
<1>2. PICK n \in Nat : n = Len(calls) /\ n # 0
  BY FrontIs
<1> DEFINE again == [calls EXCEPT ![Len(calls)].rest = TRUE]
           u == [t EXCEPT ![n] = t[n - 1]]
<1>3. calls \in [1 .. n -> Calls]
  BY <1>2, LenProperties
<1>4. /\ Len(again) = n /\ again[n].rest = TRUE
      /\ \A k \in 1 .. n : k # n => again[k] = calls[k]
  <2>1. calls[n] \in Calls
    BY <1>2, <1>3
  <2>2. [calls[n] EXCEPT !.rest = TRUE] \in Calls /\ [calls[n] EXCEPT !.rest = TRUE].rest = TRUE
    BY <2>1 DEF Calls
  <2>3. again = [calls EXCEPT ![n] = [calls[n] EXCEPT !.rest = TRUE]]
    BY <1>2
  <2> DEFINE c == [calls[n] EXCEPT !.rest = TRUE]
  <2> HIDE DEF c, again
  <2>4. again = [calls EXCEPT ![n] = c] /\ c \in Calls /\ c.rest = TRUE
    BY <2>2, <2>3 DEF c
  <2>5. again \in [1 .. n -> Calls] /\ again[n] = c /\ \A k \in 1 .. n : k # n => again[k] = calls[k]
    BY <1>2, <1>3, <2>4
  <2>6. Len(again) = n
    BY <2>5
  <2>7. QED
    BY <2>4, <2>5, <2>6
<1> HIDE DEF again
<1>5. t \in [0 .. n -> Seq(Lines)] /\ t[0] = <<>> /\ t[n] = text
  BY <1>1, <1>2 DEF Owed
<1>6. n \in 1 .. n /\ n \in 0 .. n /\ n - 1 \in 0 .. n /\ n - 1 # n
  BY <1>2
<1>7. PICK j : IncludeAt(calls[n], j) /\ t[n] = After(calls[n].name, j) \o t[n - 1]
  BY <1>1, <1>2, <1>6 DEF Owed, Last
<1>8. /\ u \in [0 .. n -> Seq(Lines)] /\ u[0] = <<>> /\ u[n] = t[n - 1]
      /\ \A k \in 0 .. n : k # n => u[k] = t[k]
  BY <1>2, <1>5, <1>6
<1> HIDE DEF u
<1>9. ASSUME NEW k \in 1 .. n
      PROVE  IF again[k].rest THEN u[k] = u[k - 1]
             ELSE \E i : IncludeAt(again[k], i) /\ u[k] = After(again[k].name, i) \o u[k - 1]
  <2>1. CASE k = n
    <3>1. u[n - 1] = t[n - 1]
      BY <1>6, <1>8
    <3>2. QED
      BY <1>4, <1>8, <2>1, <3>1
  <2>2. CASE k # n
    <3>1. k \in 0 .. n /\ k - 1 \in 0 .. n /\ k - 1 # n
      OBVIOUS
    <3>2. again[k] = calls[k] /\ u[k] = t[k] /\ u[k - 1] = t[k - 1]
      BY <1>4, <1>8, <2>2, <3>1
    <3>3. QED
      BY <1>1, <1>2, <3>2 DEF Owed
  <2>3. QED
    BY <2>1, <2>2
<1>10. Owed(u, again)
  BY <1>4, <1>8, <1>9 DEF Owed
<1>11. Left(again, t[n - 1])
  BY <1>4, <1>8, <1>10 DEF Left
<1>12. Last(calls) = calls[n]
  BY <1>2 DEF Last
<1>13. QED
  BY <1>5, <1>7, <1>11, <1>12 DEF again

-----------------------------------------------------------------------------
(* Sequences of lines. *)
LEMMA LinesAssociative ==
  ASSUME NEW a \in Seq(Lines), NEW b \in Seq(Lines), NEW c \in Seq(Lines)
  PROVE  (a \o b) \o c = a \o (b \o c)
BY ConcatAssociative, SMTT(60)

(* One more line at the end, or in front of the rest. *)
LEMMA LineAdded ==
  ASSUME NEW a \in Seq(Lines), NEW e \in Lines, NEW b \in Seq(Lines)
  PROVE  /\ Append(a, e) \in Seq(Lines) /\ <<e>> \in Seq(Lines)
         /\ Append(a, e) \o b = a \o (<<e>> \o b)
<1>1. Append(a, e) = a \o <<e>>
  OBVIOUS
<1>2. <<e>> \in Seq(Lines)
  OBVIOUS
<1>3. (a \o <<e>>) \o b = a \o (<<e>> \o b)
  BY <1>2, LinesAssociative
<1>4. Append(a, e) \in Seq(Lines)
  BY AppendProperties
<1>5. QED
  BY <1>1, <1>2, <1>3, <1>4

(* A text and no lines. *)
LEMMA NoLines ==
  ASSUME NEW a \in Seq(Lines)
  PROVE  a \o <<>> = a /\ <<>> \o a = a /\ <<>> \in Seq(Lines)
BY ConcatEmptySeq, EmptySeq

(* A text is a prefix of any that goes on from it. *)
LEMMA PrefixOfText ==
  ASSUME NEW a \in Seq(Lines), NEW b \in Seq(Lines)
  PROVE  IsPrefix(a, a \o b) /\ IsPrefix(a, a)
<1>1. Len(a) \in Nat /\ Len(b) \in Nat
  BY LenProperties
<1>2. /\ a \o b \in Seq(Lines) /\ Len(a \o b) = Len(a) + Len(b)
      /\ \A i \in 1 .. Len(a) + Len(b) :
             (a \o b)[i] = IF i <= Len(a) THEN a[i] ELSE b[i - Len(a)]
  BY ConcatProperties
<1> DEFINE c == a \o b
<1>3. c \in Seq(Lines) /\ Len(a) <= Len(c) /\ \A i \in 1 .. Len(a) : c[i] = a[i]
  BY <1>1, <1>2
<1> HIDE DEF c
<1>4. SubSeq(a, 1, Len(a)) = SubSeq(c, 1, Len(a))
  BY <1>1, <1>3
<1>5. IsPrefix(a, c)
  BY <1>3, <1>4 DEF IsPrefix
<1>6. IsPrefix(a, a)
  BY <1>1 DEF IsPrefix
<1>7. QED
  BY <1>5, <1>6 DEF c

-----------------------------------------------------------------------------
(* Type invariant of the parser. *)
ConfTypeOK ==
    /\ exceptions_enabled \in BOOLEAN /\ eof \in BOOLEAN /\ fresh \in BOOLEAN
    /\ conf_file = <<>> \/ conf_file \in (DOMAIN FILES) \X Nat
    /\ line_num \in Nat /\ skip_lines \in Nat
    /\ includes \in Seq(Calls) /\ handled \in Seq(Lines)
    /\ reading \in {"no", "yes", "opening", "throwing"}
    /\ reading = "no" => includes = <<>>

(* Line i of the open file was the last one read; behind it, or behind the   *)
(* include whose file has been read, is what makes the handled lines the     *)
(* whole text, together with what is left to the calls under way.            *)
Reads(name, i, text) ==
    /\ name \in DOMAIN FILES /\ i \in 0 .. Len(FILES[name]) /\ Regular[name]
    /\ IF eof THEN i = Len(FILES[name]) ELSE line_num = i + 1
    /\ \E j \in 0 .. Len(FILES[name]) :
          /\ SkipsTo(skip_lines, name, j)
          /\ handled \o (After(name, IF i < j THEN j ELSE i) \o text) = Inlined[root]

Opens(text) ==
    /\ includes # <<>> /\ ~Frame.rest /\ skip_lines = 0
    /\ my_filename \in DOMAIN FILES => Regular[my_filename]
    /\ handled \o ((IF my_filename \in DOMAIN FILES THEN Inlined[my_filename] ELSE <<>>)
                   \o text) = Inlined[root]

(* Unless an exception passes all the calls, they go on with what is left.   *)
Going == reading \in {"yes", "opening"} \/ (reading = "throwing" /\ ~exceptions_enabled)

TextInv(text) ==
    /\ root \in DOMAIN FILES
    /\ Going => Left(includes, text)
    /\ reading = "yes" =>
          IF conf_file = <<>> THEN handled \o text = Inlined[root]
          ELSE Reads(conf_file[1], conf_file[2], text)
    /\ reading = "opening" => Opens(text)
    /\ reading = "throwing" =>
          IF exceptions_enabled THEN IsPrefix(handled, Inlined[root])
          ELSE includes # <<>> /\ ~Frame.rest /\ handled \o text = Inlined[root]
    /\ reading = "no" =>
          IsPrefix(handled, Inlined[root]) /\ (~exceptions_enabled => handled = Inlined[root])

ConfInv ==
    /\ ConfTypeOK
    /\ fresh /\ Regular[root] => \E text : TextInv(text)

(* The innermost call, and the calls without it and with its second half. *)
LEMMA CallsFrame ==
  ASSUME ConfTypeOK, includes # <<>>
  PROVE  /\ Frame \in Calls /\ Frame.name \in DOMAIN FILES /\ Frame.line \in Nat
         /\ Front(includes) \in Seq(Calls)
         /\ [includes EXCEPT ![Len(includes)].rest = TRUE] \in Seq(Calls)
<1>1. includes \in Seq(Calls)
  BY DEF ConfTypeOK
<1>2. PICK n \in Nat : n = Len(includes) /\ n # 0
  BY <1>1, FrontIs
<1>3. n \in 1 .. n /\ includes \in [1 .. n -> Calls]
  BY <1>1, <1>2, LenProperties
<1>4. includes[n] \in Calls
  BY <1>3
<1>5. Frame = includes[n]
  BY <1>2 DEF Frame, Last
<1>6. [includes[n] EXCEPT !.rest = TRUE] \in Calls
  BY <1>4 DEF Calls
<1>7. [includes EXCEPT ![n] = [includes[n] EXCEPT !.rest = TRUE]] \in [1 .. n -> Calls]
  BY <1>3, <1>6
<1>8. [includes EXCEPT ![Len(includes)].rest = TRUE]
          = [includes EXCEPT ![n] = [includes[n] EXCEPT !.rest = TRUE]]
  BY <1>2
<1>9. \A s : s \in [1 .. n -> Calls] => s \in Seq(Calls)
  OBVIOUS
<1>10. [includes EXCEPT ![Len(includes)].rest = TRUE] \in Seq(Calls)
  BY <1>7, <1>8, <1>9, Zenon
<1>11. includes[n].name \in DOMAIN FILES /\ includes[n].line \in Nat
  BY <1>4 DEF Calls
<1>12. QED
  BY <1>1, <1>4, <1>5, <1>10, <1>11, FrontIs

(* A turn of the loop, for line i of the file: it fails, includes a file, or  *)
(* goes on to the next line.                                                 *)
LineFails ==
    /\ Fail /\ exceptions_enabled
    /\ UNCHANGED <<handled, includes, my_filename, skip_lines>>

LineIncludes(name, i) ==
    /\ FILES[name][i].kind = "include" /\ ~Skipped(NumberAfter(name, i))
    /\ includes' = Append(includes, [line |-> NumberAfter(name, i), name |-> name,
                                     rest |-> FALSE])
    /\ my_filename' = FILES[name][i].of
    /\ skip_lines' = 0 /\ conf_file' = <<>> /\ eof' = eof
    /\ reading' = "opening" /\ UNCHANGED handled

LineDone(name, i) ==
    /\ FILES[name][i].kind = "include" => Skipped(NumberAfter(name, i))
    /\ conf_file' = <<name, i>>
    /\ eof' = (LastLine(name, i) /\ name \in UNTERMINATED)
    /\ handled' = IF FILES[name][i].kind # "set" \/ Skipped(NumberAfter(name, i))
                  THEN handled ELSE Append(handled, <<name, i>>)
    /\ UNCHANGED <<reading, includes, my_filename, skip_lines>>

Turn(name, i) ==
    /\ conf_file = <<name, i - 1>> /\ conf_file[1] = name /\ conf_file[2] = i - 1
    /\ conf_file # <<>> /\ ~eof /\ reading = "yes"
    /\ i \in Nat /\ <<name, i>> \in Lines
    /\ FILES[name][i].kind \in {"blank", "set", "bad", "include"}
    /\ NumberAfter(name, i) \in Nat /\ line_num' = NumberAfter(name, i)
    /\ UNCHANGED <<exceptions_enabled, root, fresh, read_calls>>
    /\ LineFails \/ LineIncludes(name, i) \/ LineDone(name, i)

(* Every step of the loop is such a turn. *)
LEMMA TurnIs ==
  ASSUME ConfTypeOK, ConfLine
  PROVE  \E name \in DOMAIN FILES : \E i \in 1 .. Len(FILES[name]) : Turn(name, i)
<1>1. conf_file \in (DOMAIN FILES) \X Nat /\ line_num \in Nat /\ exceptions_enabled \in BOOLEAN
  BY DEF ConfTypeOK, ConfLine
<1>2. PICK name \in DOMAIN FILES, m \in Nat : conf_file = <<name, m>>
  BY <1>1
<1>3. conf_file[1] = name /\ conf_file[2] = m
  BY <1>2
<1>4. PICK i \in Nat : i = m + 1
  OBVIOUS
<1>5. i \in 1 .. Len(FILES[name])
  <2>1. Len(FILES[name]) \in Nat
    BY FileIs
  <2>2. QED
    BY <1>3, <1>4, <2>1 DEF ConfLine
<1>6. i - 1 = m /\ <<name, i>> \in Lines
  BY <1>4 DEF Lines
<1>7. NumberAfter(name, i) \in Nat
  BY <1>1 DEF NumberAfter
<1> DEFINE line == FILES[name][i]
           ignored == line.kind = "blank" \/ Skipped(NumberAfter(name, i))
<1>8. line.kind \in {"blank", "set", "bad", "include"}
  BY <1>5, FileIs
<1>9. /\ reading = "yes" /\ conf_file # <<>> /\ ~eof
      /\ line_num' = NumberAfter(name, i)
      /\ UNCHANGED <<exceptions_enabled, root, fresh, read_calls>>
      /\ IF ~ignored /\ line.kind = "bad" /\ Throws(FALSE)
         THEN Fail /\ UNCHANGED <<handled, includes, my_filename, skip_lines>>
         ELSE IF ~ignored /\ line.kind = "include"
         THEN /\ includes' = Append(includes, [line |-> NumberAfter(name, i), name |-> name,
                                               rest |-> FALSE])
              /\ my_filename' = line.of
              /\ skip_lines' = 0
              /\ conf_file' = <<>> /\ eof' = eof
              /\ reading' = "opening"
              /\ UNCHANGED handled
         ELSE /\ conf_file' = <<name, i>>
              /\ eof' = (LastLine(name, i) /\ name \in UNTERMINATED)
              /\ handled' = IF ignored \/ line.kind = "bad" THEN handled
                            ELSE Append(handled, <<name, i>>)
              /\ UNCHANGED <<reading, includes, my_filename, skip_lines>>
  BY <1>3, <1>4, Zenon DEF ConfLine
<1>10. CASE ~ignored /\ line.kind = "bad" /\ Throws(FALSE)
  <2>1. exceptions_enabled
    BY <1>10 DEF Throws
  <2>2. QED
    BY <1>2, <1>3, <1>5, <1>6, <1>7, <1>8, <1>9, <1>10, <2>1, Zenon DEF Turn, LineFails
<1>11. CASE ~(~ignored /\ line.kind = "bad" /\ Throws(FALSE)) /\ ~ignored /\ line.kind = "include"
  <2>1. ~Skipped(NumberAfter(name, i))
    BY <1>11
  <2>2. QED
    BY <1>2, <1>3, <1>5, <1>6, <1>7, <1>8, <1>9, <1>11, <2>1, Zenon DEF Turn, LineIncludes
<1>12. CASE /\ ~(~ignored /\ line.kind = "bad" /\ Throws(FALSE))
            /\ ~(~ignored /\ line.kind = "include")
  <2>1. ignored \/ line.kind = "bad" <=> line.kind # "set" \/ Skipped(NumberAfter(name, i))
    BY <1>8, <1>12
  <2>2. handled' = IF line.kind # "set" \/ Skipped(NumberAfter(name, i))
                   THEN handled ELSE Append(handled, <<name, i>>)
    BY <1>9, <1>12, <2>1, Zenon
  <2>3. line.kind = "include" => Skipped(NumberAfter(name, i))
    BY <1>12
  <2>4. QED
    BY <1>2, <1>3, <1>5, <1>6, <1>7, <1>8, <1>9, <1>12, <2>2, <2>3, Zenon DEF Turn, LineDone
<1>13. QED
  BY <1>10, <1>11, <1>12

(* Type correctness of the parser: at the start, ... *)
LEMMA ConfTypeInit == ConfInit => ConfTypeOK
<1> SUFFICES ASSUME ConfInit PROVE ConfTypeOK
  OBVIOUS
<1>1. <<>> \in Seq(Calls) /\ <<>> \in Seq(Lines)
  OBVIOUS
<1>2. includes \in Seq(Calls) /\ handled \in Seq(Lines)
  BY <1>1 DEF ConfInit
<1>3. exceptions_enabled \in BOOLEAN /\ eof \in BOOLEAN /\ fresh \in BOOLEAN
  BY Zenon DEF ConfInit
<1>4. line_num \in Nat /\ skip_lines \in Nat /\ reading = "no" /\ conf_file = <<>>
      /\ includes = <<>>
  BY DEF ConfInit
<1>5. QED
  BY <1>2, <1>3, <1>4 DEF ConfTypeOK

(* ... and kept by every step. *)
LEMMA ConfTypeStep == ConfTypeOK /\ [ConfNext]_confVars => ConfTypeOK'
<1> SUFFICES ASSUME ConfTypeOK, [ConfNext]_confVars PROVE ConfTypeOK'
  OBVIOUS
<1>1. <<>> \in Seq(Calls) /\ <<>> \in Seq(Lines)
  OBVIOUS
<1>2. ASSUME NEW name \in MAIN_FILES, NEW again \in BOOLEAN, NEW exceptions \in BOOLEAN,
             ConfRead(name, again, exceptions)
      PROVE  ConfTypeOK'
  <2>1. name \in DOMAIN FILES
    BY ConfAssumption
  <2>2. /\ conf_file' = <<name, 0>> /\ line_num' = 1 /\ eof' = FALSE /\ reading' = "yes"
    BY <1>2, <2>1 DEF ConfRead, Open
  <2>3. conf_file' \in (DOMAIN FILES) \X Nat
    BY <2>1, <2>2
  <2>4. /\ exceptions_enabled' \in BOOLEAN /\ fresh' \in BOOLEAN /\ handled' = <<>>
        /\ UNCHANGED <<skip_lines, includes>>
    BY <1>2 DEF ConfRead
  <2>5. QED
    BY <1>1, <2>2, <2>3, <2>4 DEF ConfTypeOK
<1>3. CASE ConfLine
  <2>1. PICK name \in DOMAIN FILES : \E i \in 1 .. Len(FILES[name]) : Turn(name, i)
    BY <1>3, TurnIs
  <2>2. PICK i \in 1 .. Len(FILES[name]) : Turn(name, i)
    BY <2>1
  <2>3. CASE LineFails
    BY <2>2, <2>3 DEF ConfTypeOK, Fail, LineFails, Turn
  <2>4. CASE LineIncludes(name, i)
    <3>1. [line |-> NumberAfter(name, i), name |-> name, rest |-> FALSE] \in Calls
      BY <2>2 DEF Calls, Turn
    <3>2. includes' \in Seq(Calls)
      BY <2>4, <3>1, AppendProperties DEF ConfTypeOK, LineIncludes
    <3>3. QED
      BY <2>2, <2>4, <3>2 DEF ConfTypeOK, LineIncludes, Turn
  <2>5. CASE LineDone(name, i)
    <3>1. handled' \in Seq(Lines)
      BY <2>2, <2>5, LineAdded DEF ConfTypeOK, LineDone, Turn
    <3>2. eof' \in BOOLEAN
      BY <2>5, Zenon DEF LineDone
    <3>3. conf_file' \in (DOMAIN FILES) \X Nat
      BY <2>2, <2>5 DEF LineDone, Turn
    <3>4. reading' = reading /\ includes' = includes /\ skip_lines' = skip_lines
      BY <2>5 DEF LineDone
    <3>5. QED
      BY <2>2, <3>1, <3>2, <3>3, <3>4 DEF ConfTypeOK, Turn
  <2>6. QED
    BY <2>2, <2>3, <2>4, <2>5 DEF Turn
<1>4. CASE ConfInclude
  <2>1. CASE my_filename \in DOMAIN FILES
    <3>1. conf_file' = <<my_filename, 0>> /\ line_num' = 1 /\ eof' = FALSE /\ reading' = "yes"
          /\ UNCHANGED <<exceptions_enabled, skip_lines, includes, fresh, handled>>
      BY <1>4, <2>1 DEF ConfInclude, Open
    <3>2. conf_file' \in (DOMAIN FILES) \X Nat
      BY <2>1, <3>1
    <3>3. QED
      BY <3>1, <3>2 DEF ConfTypeOK
  <2>2. CASE my_filename \notin DOMAIN FILES
    BY <1>4, <2>2 DEF ConfInclude, Open, Fail, ConfTypeOK
  <2>3. QED
    BY <2>1, <2>2
<1>5. CASE ConfEof
  BY <1>5 DEF ConfEof, ConfTypeOK
<1>6. ASSUME includes # <<>>, Resume,
             UNCHANGED <<exceptions_enabled, root, fresh, handled, read_calls>>
      PROVE  ConfTypeOK'
  <2>1. Frame.name \in DOMAIN FILES /\ Frame.line \in Nat
        /\ [includes EXCEPT ![Len(includes)].rest = TRUE] \in Seq(Calls)
    BY <1>6, CallsFrame
  <2>2. /\ conf_file' = <<Frame.name, 0>> /\ line_num' = 1 /\ eof' = FALSE /\ reading' = "yes"
        /\ skip_lines' = Frame.line /\ includes' \in Seq(Calls)
    BY <1>6, <2>1 DEF Resume, Open
  <2>3. conf_file' \in (DOMAIN FILES) \X Nat
    BY <2>1, <2>2
  <2>4. QED
    BY <1>6, <2>1, <2>2, <2>3 DEF ConfTypeOK
<1>7. CASE ConfReturn
  <2>1. CASE includes = <<>>
    BY <1>7, <2>1 DEF ConfReturn, ConfTypeOK
  <2>2. CASE includes # <<>> /\ Frame.rest
    <3>1. /\ conf_file' = <<>> /\ includes' = Front(includes)
          /\ UNCHANGED <<line_num, skip_lines, eof, reading, exceptions_enabled, fresh, handled>>
          /\ reading = "yes"
      BY <1>7, <2>2 DEF ConfReturn
    <3>2. Front(includes) \in Seq(Calls)
      BY <2>2, CallsFrame
    <3>3. QED
      BY <3>1, <3>2 DEF ConfTypeOK
  <2>3. CASE includes # <<>> /\ ~Frame.rest
    BY <1>6, <1>7, <2>3 DEF ConfReturn
  <2>4. QED
    BY <2>1, <2>2, <2>3
<1>8. CASE ConfUnwind
  <2>1. CASE includes = <<>>
    BY <1>8, <2>1 DEF ConfUnwind, ConfTypeOK
  <2>2. CASE includes # <<>> /\ (Frame.rest \/ Throws(FALSE))
    <3>1. /\ includes' = Front(includes) /\ reading = "throwing"
          /\ UNCHANGED <<conf_file, line_num, skip_lines, eof, reading, exceptions_enabled, fresh,
                         handled>>
      BY <1>8, <2>2 DEF ConfUnwind
    <3>2. Front(includes) \in Seq(Calls)
      BY <2>2, CallsFrame
    <3>3. QED
      BY <3>1, <3>2 DEF ConfTypeOK
  <2>3. CASE includes # <<>> /\ ~(Frame.rest \/ Throws(FALSE))
    BY <1>6, <1>8, <2>3 DEF ConfUnwind
  <2>4. QED
    BY <2>1, <2>2, <2>3
<1>9. CASE UNCHANGED confVars
  BY <1>9 DEF confVars, ConfTypeOK
<1>10. QED
  BY <1>2, <1>3, <1>4, <1>5, <1>7, <1>8, <1>9 DEF ConfNext

(* The file of an include_parse() is read again, behind the include. *)
LEMMA ResumeText ==
  ASSUME ConfTypeOK, NEW text, Left(includes, text), root \in DOMAIN FILES,
         includes # <<>>, ~Frame.rest, handled \o text = Inlined[root],
         Resume, UNCHANGED <<root, handled>>
  PROVE  (\E new : TextInv(new))'
<1>1. PICK j, rest : /\ IncludeAt(Frame, j) /\ text = After(Frame.name, j) \o rest
                     /\ Left([includes EXCEPT ![Len(includes)].rest = TRUE], rest)
  BY LeftResume DEF ConfTypeOK, Frame
<1>2. PICK name : name = Frame.name
  OBVIOUS
<1>3. name \in DOMAIN FILES
  BY <1>2, CallsFrame
<1>4. /\ conf_file' = <<name, 0>> /\ line_num' = 1 /\ eof' = FALSE /\ reading' = "yes"
      /\ skip_lines' = Frame.line
      /\ includes' = [includes EXCEPT ![Len(includes)].rest = TRUE]
  BY <1>2, <1>3 DEF Resume, Open
<1>5. /\ j \in 1 .. Len(FILES[name]) /\ FILES[name][j].kind = "include"
      /\ Frame.line = NumberOf(name, j) /\ Regular[name]
  BY <1>1, <1>2 DEF IncludeAt
<1>6. SkipsTo(skip_lines', name, j)
  BY <1>3, <1>4, <1>5, IncludeSkipped
<1>7. Len(FILES[name]) \in Nat
  BY <1>3, FileIs
<1>8. 0 < j /\ j \in 0 .. Len(FILES[name]) /\ 0 \in 0 .. Len(FILES[name])
  BY <1>5, <1>7
<1>9. handled' \o (After(name, IF 0 < j THEN j ELSE 0) \o rest) = Inlined[root']
  BY <1>1, <1>2, <1>8
<1>10. Reads(name, 0, rest)'
  <2>1. \E k \in 0 .. Len(FILES[name]) :
            /\ SkipsTo(skip_lines', name, k)
            /\ handled' \o (After(name, IF 0 < k THEN k ELSE 0) \o rest) = Inlined[root']
    BY <1>6, <1>8, <1>9, Zenon
  <2>2. line_num' = 0 + 1 /\ ~eof'
    BY <1>4
  <2>3. QED
    BY <1>3, <1>5, <1>8, <2>1, <2>2, Zenon DEF Reads
<1>11. conf_file'[1] = name /\ conf_file'[2] = 0 /\ conf_file' # <<>>
  BY <1>4
<1>12. TextInv(rest)'
  BY <1>1, <1>4, <1>10, <1>11 DEF TextInv
<1>13. QED
  BY <1>12

(* The texts of the invariant are sequences of lines. *)
LEMMA TextTyped ==
  ASSUME ConfTypeOK, NEW text, TextInv(text), Going
  PROVE  text \in Seq(Lines) /\ handled \in Seq(Lines) /\ Inlined[root] \in Seq(Lines)
BY LeftIsText, InlinedIs DEF ConfTypeOK, TextInv

(* read() is called from outside. *)
LEMMA ReadText ==
  ASSUME ConfTypeOK, NEW name \in MAIN_FILES, NEW again \in BOOLEAN, NEW exceptions \in BOOLEAN,
         ConfRead(name, again, exceptions), fresh', Regular[root']
  PROVE  (\E new : TextInv(new))'
<1>1. name \in DOMAIN FILES
  BY ConfAssumption
<1>2. /\ conf_file' = <<name, 0>> /\ line_num' = 1 /\ eof' = FALSE /\ reading' = "yes"
  BY <1>1 DEF ConfRead, Open
<1>3. /\ root' = name /\ handled' = <<>> /\ includes' = <<>> /\ skip_lines' = 0
  BY DEF ConfRead, ConfTypeOK
<1>4. SkipsTo(skip_lines', name, 0) /\ Left(includes', <<>>)
  BY <1>1, <1>3, NothingSkipped, NothingLeft
<1>5. Len(FILES[name]) \in Nat /\ After(name, 0) = Inlined[name] /\ Inlined[name] \in Seq(Lines)
  BY <1>1, FileIs, AfterIs, InlinedIs
<1>6. <<>> \o (After(name, 0) \o <<>>) = Inlined[name]
  BY <1>5, NoLines
<1>7. 0 \in 0 .. Len(FILES[name]) /\ ~(0 < 0)
  BY <1>5
<1>8. Reads(name, 0, <<>>)'
  BY <1>1, <1>2, <1>3, <1>4, <1>6, <1>7 DEF Reads
<1>9. conf_file'[1] = name /\ conf_file'[2] = 0 /\ conf_file' # <<>>
  BY <1>2
<1>10. TextInv(<<>>)'
  BY <1>1, <1>2, <1>3, <1>4, <1>8, <1>9 DEF TextInv
<1>11. QED
  BY <1>10

(* The file included is opened, or is missing. *)
LEMMA IncludeText ==
  ASSUME ConfTypeOK, NEW text, TextInv(text), ConfInclude
  PROVE  (\E new : TextInv(new))'
<1>1. Opens(text)
  BY DEF ConfInclude, TextInv
<1>2. text \in Seq(Lines) /\ handled \in Seq(Lines)
  BY TextTyped DEF Going, ConfInclude
<1>3. UNCHANGED <<exceptions_enabled, my_filename, skip_lines, includes, root, fresh, handled>>
  BY DEF ConfInclude
<1>4. CASE my_filename \in DOMAIN FILES
  <2>1. PICK name : name = my_filename
    OBVIOUS
  <2>2. conf_file' = <<name, 0>> /\ line_num' = 0 + 1 /\ ~eof' /\ reading' = "yes"
    BY <1>4, <2>1 DEF ConfInclude, Open
  <2>3. SkipsTo(skip_lines', name, 0)
    BY <1>1, <1>3, <1>4, <2>1, NothingSkipped DEF Opens
  <2>4. Len(FILES[name]) \in Nat /\ After(name, 0) = Inlined[name]
    BY <1>4, <2>1, FileIs, AfterIs
  <2>5. handled \o (Inlined[name] \o text) = Inlined[root] /\ Regular[name]
    BY <1>1, <1>4, <2>1 DEF Opens
  <2>6. 0 \in 0 .. Len(FILES[name]) /\ ~(0 < 0)
    BY <2>4
  <2>7. handled' \o (After(name, IF 0 < 0 THEN 0 ELSE 0) \o text) = Inlined[root']
    BY <1>3, <2>4, <2>5, <2>6
  <2>8. Reads(name, 0, text)'
    BY <1>4, <2>1, <2>2, <2>3, <2>5, <2>6, <2>7, Zenon DEF Reads
  <2>9. conf_file'[1] = name /\ conf_file'[2] = 0 /\ conf_file' # <<>>
    BY <2>2
  <2>10. TextInv(text)'
    BY <1>3, <2>2, <2>8, <2>9 DEF TextInv, Going, ConfInclude
  <2>11. QED
    BY <2>10
<1>5. CASE my_filename \notin DOMAIN FILES
  <2>1. reading' = "throwing"
    BY <1>5 DEF ConfInclude, Open, Fail
  <2>2. handled \o (<<>> \o text) = Inlined[root] /\ includes # <<>> /\ ~Frame.rest
    BY <1>1, <1>5 DEF Opens
  <2>3. handled \o text = Inlined[root]
    BY <1>2, <2>2, NoLines
  <2>4. IsPrefix(handled, Inlined[root])
    BY <1>2, <2>3, PrefixOfText
  <2>5. Frame' = Frame
    BY <1>3 DEF Frame
  <2>6. TextInv(text)'
    BY <1>3, <2>1, <2>2, <2>3, <2>4, <2>5 DEF TextInv, Going, ConfInclude
  <2>7. QED
    BY <2>6
<1>6. QED
  BY <1>4, <1>5

(* The end of the file is noticed. *)
LEMMA EofText ==
  ASSUME ConfTypeOK, NEW text, TextInv(text), ConfEof
  PROVE  (\E new : TextInv(new))'
<1>1. /\ UNCHANGED <<my_filename, conf_file, line_num, skip_lines, includes, reading, root,
                     handled>>
      /\ reading = "yes" /\ conf_file # <<>> /\ eof'
      /\ conf_file[2] = Len(FILES[conf_file[1]])
  BY DEF ConfEof
<1>2. Reads(conf_file[1], conf_file[2], text)
  BY <1>1 DEF TextInv
<1>3. Reads(conf_file[1], conf_file[2], text)'
  BY <1>1, <1>2 DEF Reads
<1>4. TextInv(text)'
  BY <1>1, <1>3 DEF TextInv, Going
<1>5. QED
  BY <1>4

(* At the end of a file, what is left to the calls is what remains. *)
LEMMA EndText ==
  ASSUME ConfTypeOK, NEW text, TextInv(text), reading = "yes", conf_file = <<>> \/ eof
  PROVE  handled \o text = Inlined[root]
<1>1. CASE conf_file = <<>>
  BY <1>1 DEF TextInv
<1>2. CASE conf_file # <<>>
  <2>1. Reads(conf_file[1], conf_file[2], text) /\ eof
    BY <1>2 DEF TextInv
  <2>2. PICK name \in DOMAIN FILES : name = conf_file[1]
    BY <2>1 DEF Reads
  <2>3. Len(FILES[name]) \in Nat /\ After(name, Len(FILES[name])) = <<>>
    BY FileIs, AfterIs
  <2>4. PICK j \in 0 .. Len(FILES[name]) :
            handled \o (After(name, IF Len(FILES[name]) < j THEN j ELSE Len(FILES[name])) \o text)
                = Inlined[root]
    BY <2>1, <2>2 DEF Reads
  <2>5. ~(Len(FILES[name]) < j)
    BY <2>3, <2>4
  <2>6. handled \o (<<>> \o text) = Inlined[root]
    BY <2>3, <2>4, <2>5
  <2>7. QED
    BY <2>6, TextTyped, NoLines DEF Going
<1>3. QED
  BY <1>1, <1>2

(* read() returns. *)
LEMMA ReturnText ==
  ASSUME ConfTypeOK, NEW text, TextInv(text), ConfReturn
  PROVE  (\E new : TextInv(new))'
<1>1. /\ reading = "yes" /\ (conf_file = <<>> \/ eof)
      /\ UNCHANGED <<exceptions_enabled, root, fresh, handled>>
  BY DEF ConfReturn
<1>2. handled \o text = Inlined[root]
  BY <1>1, EndText DEF ConfReturn
<1>3. text \in Seq(Lines) /\ handled \in Seq(Lines) /\ Left(includes, text) /\ root \in DOMAIN FILES
  <2>1. Going
    BY <1>1 DEF Going
  <2>2. QED
    BY <2>1, TextTyped DEF TextInv
<1>4. CASE includes = <<>>
  <2>1. reading' = "no" /\ includes' = includes
    BY <1>4 DEF ConfReturn
  <2>2. text = <<>>
    BY <1>3, <1>4, NothingLeft
  <2>3. handled = Inlined[root] /\ IsPrefix(handled, Inlined[root])
    BY <1>2, <1>3, <2>2, NoLines, PrefixOfText
  <2>4. TextInv(text)'
    BY <1>1, <1>3, <2>1, <2>3 DEF TextInv
  <2>5. QED
    BY <2>4
<1>5. CASE includes # <<>> /\ Frame.rest
  <2>1. conf_file' = <<>> /\ includes' = Front(includes) /\ reading' = "yes"
    BY <1>1, <1>5 DEF ConfReturn
  <2>2. Left(includes', text)
    BY <1>3, <1>5, <2>1, LeftPop DEF ConfTypeOK, Frame
  <2>3. TextInv(text)'
    BY <1>1, <1>2, <1>3, <2>1, <2>2 DEF TextInv
  <2>4. QED
    BY <2>3
<1>6. CASE includes # <<>> /\ ~Frame.rest
  <2>1. Resume
    BY <1>6 DEF ConfReturn
  <2>2. QED
    BY <1>1, <1>2, <1>3, <1>6, <2>1, ResumeText
<1>7. QED
  BY <1>4, <1>5, <1>6

Completes(h, text, rest, whole) == h \o (text \o rest) = whole

(* The text behind a line is that of the next line and what is behind it. *)
LEMMA NextLine ==
  ASSUME NEW name \in DOMAIN FILES, NEW i \in 1 .. Len(FILES[name]), NEW h \in Seq(Lines),
         NEW text \in Seq(Lines), NEW whole, Completes(h, After(name, i - 1), text, whole)
  PROVE  /\ FILES[name][i].kind = "set" =>
                Completes(Append(h, <<name, i>>), After(name, i), text, whole)
         /\ FILES[name][i].kind \in {"blank", "bad"} => Completes(h, After(name, i), text, whole)
         /\ FILES[name][i].kind = "include" =>
                Completes(h, IF FILES[name][i].of \in DOMAIN FILES
                             THEN Inlined[FILES[name][i].of] ELSE <<>>,
                          After(name, i) \o text, whole)
<1>1. Len(FILES[name]) \in Nat
  BY FileIs
<1>2. After(name, i) \in Seq(Lines) /\ After(name, i - 1) = Part(Inlined, name, i) \o After(name, i)
  <2>1. i \in 0 .. Len(FILES[name])
    BY <1>1
  <2>2. QED
    BY <2>1, AfterIs
<1>3. Part(Inlined, name, i) \in Seq(Lines)
  <2>1. Given(Inlined, name)
    BY InlinedIs DEF Given, Includes
  <2>2. QED
    BY <2>1, PartIs
<1>4. PICK part \in Seq(Lines) : part = Part(Inlined, name, i)
  BY <1>3
<1>5. PICK rest \in Seq(Lines) : rest = After(name, i)
  BY <1>2
<1>6. rest \o text \in Seq(Lines)
  BY <1>5, ConcatProperties
<1>7. h \o ((part \o rest) \o text) = whole
  BY <1>2, <1>4, <1>5 DEF Completes
<1>8. h \o (part \o (rest \o text)) = whole
  BY <1>7, LinesAssociative
<1>9. CASE FILES[name][i].kind = "set"
  <2>1. <<name, i>> \in Lines
    BY <1>1 DEF Lines
  <2>2. part = << <<name, i>> >>
    BY <1>4, <1>9, PartOfLine
  <2>3. PICK e \in Lines : e = <<name, i>>
    BY <2>1
  <2>4. Append(h, e) \o (rest \o text) = h \o (<<e>> \o (rest \o text))
    BY <1>6, LineAdded
  <2>5. Append(h, e) \o (rest \o text) = whole
    BY <1>8, <2>2, <2>3, <2>4
  <2>6. QED
    BY <1>5, <1>9, <2>3, <2>5 DEF Completes
<1>10. CASE FILES[name][i].kind \in {"blank", "bad"}
  <2>1. part = <<>>
    BY <1>4, <1>10, PartOfLine
  <2>2. h \o (rest \o text) = whole
    BY <1>6, <1>8, <2>1, NoLines
  <2>3. QED
    BY <1>5, <1>10, <2>2 DEF Completes
<1>11. CASE FILES[name][i].kind = "include"
  <2>1. part = IF FILES[name][i].of \in DOMAIN FILES THEN Inlined[FILES[name][i].of] ELSE <<>>
    BY <1>4, <1>11, PartOfLine
  <2>2. QED
    BY <1>5, <1>8, <1>11, <2>1 DEF Completes
<1>12. QED
  BY <1>9, <1>10, <1>11

(* A turn of the loop. *)
LEMMA LineText ==
  ASSUME ConfTypeOK, NEW text, TextInv(text), ConfLine
  PROVE  (\E new : TextInv(new))'
<1>1. PICK name \in DOMAIN FILES : \E i \in 1 .. Len(FILES[name]) : Turn(name, i)
  BY TurnIs
<1>2. PICK i \in 1 .. Len(FILES[name]) : Turn(name, i)
  BY <1>1
<1>3. PICK n \in Nat : n = Len(FILES[name])
  BY FileIs
<1>4. Reads(name, i - 1, text) /\ ~eof
  BY <1>2 DEF TextInv, Turn
<1>5. PICK num : num = NumberOf(name, i)
  OBVIOUS
<1>6. NumberAfter(name, i) = num
  <2>1. line_num = i - 1 + 1
    BY <1>4 DEF Reads
  <2>2. line_num = i
    BY <1>3, <2>1
  <2>3. QED
    BY <1>5, <2>2 DEF NumberAfter, NumberOf
<1>7. Regular[name]
  BY <1>4 DEF Reads
<1>8. PICK j \in 0 .. n :
          /\ SkipsTo(skip_lines, name, j)
          /\ handled \o (After(name, IF i - 1 < j THEN j ELSE i - 1) \o text) = Inlined[root]
  BY <1>3, <1>4 DEF Reads
<1>9. Skipped(num) <=> i <= j
  BY <1>2, <1>5, <1>8 DEF SkipsTo, Skipped
<1>10. text \in Seq(Lines) /\ handled \in Seq(Lines) /\ Left(includes, text) /\ root \in DOMAIN FILES
  BY <1>2, TextTyped DEF TextInv, Going, Turn
<1>11. UNCHANGED <<exceptions_enabled, root>> /\ line_num' = num /\ num \in Nat
  BY <1>2, <1>6 DEF Turn
<1>12. CASE LineFails
  <2>1. reading' = "throwing" /\ exceptions_enabled /\ UNCHANGED <<handled, includes>>
    BY <1>12 DEF LineFails, Fail
  <2>2. PICK k \in 0 .. n : k = IF i - 1 < j THEN j ELSE i - 1
    BY <1>3
  <2>3. After(name, k) \in Seq(Lines)
    BY <1>3, AfterIs
  <2>4. After(name, k) \o text \in Seq(Lines)
    BY <1>10, <2>3, ConcatProperties
  <2>5. handled \o (After(name, k) \o text) = Inlined[root]
    BY <1>8, <2>2
  <2>6. IsPrefix(handled, Inlined[root])
    BY <1>10, <2>4, <2>5, PrefixOfText
  <2>7. TextInv(text)'
    BY <1>10, <1>11, <2>1, <2>6 DEF TextInv, Going
  <2>8. QED
    BY <2>7
<1>13. CASE LineIncludes(name, i)
  <2> DEFINE call == [line |-> num, name |-> name, rest |-> FALSE]
             rest == After(name, i) \o text
  <2>1. /\ FILES[name][i].kind = "include" /\ ~Skipped(num)
        /\ includes' = Append(includes, call) /\ my_filename' = FILES[name][i].of
        /\ skip_lines' = 0 /\ reading' = "opening" /\ handled' = handled
    BY <1>6, <1>13 DEF LineIncludes
  <2>2. call \in Calls /\ call.line = num /\ call.name = name /\ call.rest = FALSE
    BY <1>11 DEF Calls
  <2> HIDE DEF call
  <2>3. IncludeAt(call, i)
    BY <1>2, <1>5, <1>7, <2>1, <2>2 DEF IncludeAt
  <2>4. Left(includes', rest)
    BY <1>10, <2>1, <2>2, <2>3, LeftPush DEF ConfTypeOK
  <2>5. includes' # <<>> /\ Last(includes') = call
    BY <2>1, <2>2, AppendProperties DEF ConfTypeOK, Last
  <2>6. ~(i - 1 < j)
    BY <1>3, <1>9, <2>1
  <2>7. handled \o (After(name, i - 1) \o text) = Inlined[root]
    BY <1>8, <2>6
  <2>8. handled \o ((IF FILES[name][i].of \in DOMAIN FILES THEN Inlined[FILES[name][i].of]
                     ELSE <<>>) \o rest) = Inlined[root]
    <3>1. Completes(handled, After(name, i - 1), text, Inlined[root])
      BY <2>7 DEF Completes
    <3>2. Completes(handled, IF FILES[name][i].of \in DOMAIN FILES
                             THEN Inlined[FILES[name][i].of] ELSE <<>>, rest, Inlined[root])
      BY <1>10, <2>1, <3>1, NextLine, Zenon
    <3>3. QED
      BY <3>2 DEF Completes
  <2> HIDE DEF rest
  <2>9. FILES[name][i].of \in DOMAIN FILES => Regular[FILES[name][i].of]
    <3>1. i \in DOMAIN FILES[name]
      BY <1>2, FileIs
    <3>2. QED
      BY <1>7, <2>1, <3>1, RegularIs DEF Includes
  <2>10. Opens(rest)'
    BY <1>11, <2>1, <2>2, <2>5, <2>8, <2>9 DEF Opens, Frame
  <2>11. TextInv(rest)'
    BY <1>10, <1>11, <2>1, <2>4, <2>10 DEF TextInv
  <2>12. QED
    BY <2>11
<1>14. CASE LineDone(name, i)
  <2>1. /\ FILES[name][i].kind = "include" => Skipped(num)
        /\ conf_file' = <<name, i>>
        /\ eof' = (LastLine(name, i) /\ name \in UNTERMINATED)
        /\ handled' = IF FILES[name][i].kind # "set" \/ Skipped(num)
                      THEN handled ELSE Append(handled, <<name, i>>)
        /\ UNCHANGED <<reading, includes, my_filename, skip_lines>>
    BY <1>6, <1>14 DEF LineDone
  <2>2. IF eof' THEN i = Len(FILES[name]) ELSE line_num' = i + 1
    BY <1>5, <1>11, <2>1 DEF NumberOf, LastLine
  <2>3. handled' \o (After(name, IF i < j THEN j ELSE i) \o text) = Inlined[root]
    <3>1. CASE i <= j
      <4>1. handled' = handled
        BY <1>9, <2>1, <3>1
      <4>2. (IF i < j THEN j ELSE i) = j /\ (IF i - 1 < j THEN j ELSE i - 1) = j
        BY <1>3, <3>1
      <4>3. QED
        BY <1>8, <4>1, <4>2
    <3>2. CASE ~(i <= j)
      <4>1. (IF i < j THEN j ELSE i) = i /\ (IF i - 1 < j THEN j ELSE i - 1) = i - 1
        BY <1>3, <3>2
      <4>2. handled \o (After(name, i - 1) \o text) = Inlined[root]
        BY <1>8, <4>1
      <4>3. FILES[name][i].kind \in {"blank", "set", "bad"} /\ ~Skipped(num)
        BY <1>2, <1>9, <2>1, <3>2 DEF Turn
      <4>4. /\ FILES[name][i].kind = "set" =>
                   Append(handled, <<name, i>>) \o (After(name, i) \o text) = Inlined[root]
            /\ FILES[name][i].kind \in {"blank", "bad"} =>
                   handled \o (After(name, i) \o text) = Inlined[root]
        <5>1. Completes(handled, After(name, i - 1), text, Inlined[root])
          BY <4>2 DEF Completes
        <5>2. /\ FILES[name][i].kind = "set" =>
                     Completes(Append(handled, <<name, i>>), After(name, i), text, Inlined[root])
              /\ FILES[name][i].kind \in {"blank", "bad"} =>
                     Completes(handled, After(name, i), text, Inlined[root])
          BY <1>10, <5>1, NextLine, Zenon
        <5>3. QED
          BY <5>2 DEF Completes
      <4>5. handled' \o (After(name, i) \o text) = Inlined[root]
        <5>1. CASE FILES[name][i].kind = "set"
          <6>1. handled' = Append(handled, <<name, i>>)
            BY <2>1, <4>3, <5>1
          <6>2. QED
            BY <4>4, <5>1, <6>1
        <5>2. CASE FILES[name][i].kind \in {"blank", "bad"}
          <6>1. handled' = handled
            BY <2>1, <5>2
          <6>2. QED
            BY <4>4, <5>2, <6>1
        <5>3. QED
          BY <4>3, <5>1, <5>2
      <4>6. QED
        BY <4>1, <4>5
    <3>3. QED
      BY <3>1, <3>2
  <2>4. Reads(name, i, text)'
    <3>1. i \in 0 .. Len(FILES[name])
      BY <1>2, <1>3
    <3>2. \E k \in 0 .. Len(FILES[name]) :
              /\ SkipsTo(skip_lines', name, k)
              /\ handled' \o (After(name, IF i < k THEN k ELSE i) \o text) = Inlined[root']
      <4>1. skip_lines' = skip_lines /\ root' = root
        BY <1>11, <2>1
      <4>2. QED
        BY <1>3, <1>8, <2>3, <4>1, Zenon
    <3>3. QED
      BY <1>7, <2>2, <3>1, <3>2, Zenon DEF Reads
  <2>5. conf_file'[1] = name /\ conf_file'[2] = i /\ conf_file' # <<>> /\ reading' = "yes"
    BY <1>2, <2>1 DEF Turn
  <2>6. TextInv(text)'
    BY <1>10, <1>11, <2>1, <2>4, <2>5 DEF TextInv
  <2>7. QED
    BY <2>6
<1>15. QED
  BY <1>2, <1>12, <1>13, <1>14 DEF Turn

(* An exception goes on, or is caught. *)
LEMMA UnwindText ==
  ASSUME ConfTypeOK, NEW text, TextInv(text), ConfUnwind
  PROVE  (\E new : TextInv(new))'
<1>1. reading = "throwing" /\ UNCHANGED <<exceptions_enabled, root, fresh, handled>>
  BY DEF ConfUnwind
<1>2. root \in DOMAIN FILES
  BY DEF TextInv
<1>3. CASE includes = <<>>
  <2>1. reading' = "no" /\ includes' = includes
    BY <1>3 DEF ConfUnwind
  <2>2. exceptions_enabled /\ IsPrefix(handled, Inlined[root])
    BY <1>1, <1>3 DEF TextInv
  <2>3. TextInv(text)'
    BY <1>1, <1>2, <2>1, <2>2 DEF TextInv, Going
  <2>4. QED
    BY <2>3
<1>4. CASE includes # <<>> /\ (Frame.rest \/ Throws(FALSE))
  <2>1. exceptions_enabled /\ IsPrefix(handled, Inlined[root])
    BY <1>1, <1>4 DEF TextInv, Throws
  <2>2. includes' = Front(includes) /\ reading' = "throwing"
    BY <1>1, <1>4 DEF ConfUnwind
  <2>3. TextInv(text)'
    BY <1>1, <1>2, <2>1, <2>2 DEF TextInv, Going
  <2>4. QED
    BY <2>3
<1>5. CASE includes # <<>> /\ ~(Frame.rest \/ Throws(FALSE))
  <2>1. Resume /\ ~exceptions_enabled /\ ~Frame.rest
    BY <1>5 DEF ConfUnwind, Throws
  <2>2. handled \o text = Inlined[root] /\ Left(includes, text)
    BY <1>1, <2>1 DEF TextInv, Going
  <2>3. QED
    BY <1>1, <1>2, <1>5, <2>1, <2>2, ResumeText
<1>6. QED
  BY <1>3, <1>4, <1>5

-----------------------------------------------------------------------------
(* The invariant holds at the start, ... *)
LEMMA ConfInvInit == ConfInit => ConfInv
<1> SUFFICES ASSUME ConfInit PROVE ConfInv
  OBVIOUS
<1>1. ~fresh
  BY DEF ConfInit
<1>2. QED
  BY <1>1, ConfTypeInit DEF ConfInv

(* ... is kept by every step, ... *)
LEMMA ConfInvStep == ConfInv /\ [ConfNext]_confVars => ConfInv'
<1> SUFFICES ASSUME ConfInv, [ConfNext]_confVars PROVE ConfInv'
  OBVIOUS
<1>1. ConfTypeOK /\ ConfTypeOK'
  BY ConfTypeStep DEF ConfInv
<1>2. SUFFICES ASSUME fresh', Regular[root'] PROVE (\E new : TextInv(new))'
  BY <1>1 DEF ConfInv
<1>3. CASE \E name \in MAIN_FILES : \E again, exceptions \in BOOLEAN :
               ConfRead(name, again, exceptions)
  BY <1>1, <1>2, <1>3, ReadText
<1>4. CASE UNCHANGED <<fresh, root>> /\ (ConfLine \/ ConfInclude \/ ConfEof \/ ConfReturn
                                        \/ ConfUnwind)
  <2>1. PICK text : TextInv(text)
    BY <1>2, <1>4 DEF ConfInv
  <2>2. QED
    BY <1>1, <1>4, <2>1, LineText, IncludeText, EofText, ReturnText, UnwindText
<1>5. CASE UNCHANGED confVars
  <2>1. PICK text : TextInv(text)
    BY <1>2, <1>5 DEF ConfInv, confVars
  <2>2. TextInv(text)'
    BY <1>5, <2>1 DEF confVars, TextInv, Going, Reads, Opens, Frame
  <2>3. QED
    BY <2>2
<1>6. ConfLine \/ ConfInclude \/ ConfEof \/ ConfReturn \/ ConfUnwind => UNCHANGED <<fresh, root>>
  BY DEF ConfLine, ConfInclude, ConfEof, ConfReturn, ConfUnwind
<1>7. QED
  BY <1>3, <1>4, <1>5, <1>6 DEF ConfNext

(* ... and says that what was handled is a prefix of the inlined text, and   *)
(* all of it at the end.                                                     *)
LEMMA ConfInvInlined == ConfInv => IncludesAreInlined
<1> SUFFICES ASSUME ConfInv, fresh, Regular[root]
             PROVE  /\ IsPrefix(handled, Inlined[root])
                    /\ reading = "no" /\ ~exceptions_enabled => handled = Inlined[root]
  BY DEF IncludesAreInlined
<1>1. PICK text : TextInv(text)
  BY DEF ConfInv
<1>2. ConfTypeOK
  BY DEF ConfInv
<1>3. CASE reading = "no" \/ (reading = "throwing" /\ exceptions_enabled)
  BY <1>1, <1>3 DEF TextInv
<1>4. CASE Going
  <2>1. text \in Seq(Lines) /\ handled \in Seq(Lines) /\ root \in DOMAIN FILES
    BY <1>1, <1>2, <1>4, TextTyped DEF TextInv
  <2>2. reading # "no"
    BY <1>4 DEF Going
  <2>3. \E rest \in Seq(Lines) : handled \o rest = Inlined[root]
    <3>1. CASE handled \o text = Inlined[root]
      BY <2>1, <3>1
    <3>2. CASE reading = "yes" /\ conf_file # <<>>
      <4>1. Reads(conf_file[1], conf_file[2], text)
        BY <1>1, <3>2 DEF TextInv
      <4>2. PICK name \in DOMAIN FILES : name = conf_file[1]
        BY <4>1 DEF Reads
      <4>3. PICK i \in 0 .. Len(FILES[name]) : i = conf_file[2]
        BY <4>1, <4>2 DEF Reads
      <4>4. PICK j \in 0 .. Len(FILES[name]) :
                handled \o (After(name, IF i < j THEN j ELSE i) \o text) = Inlined[root]
        BY <4>1, <4>2, <4>3 DEF Reads
      <4>5. PICK k \in 0 .. Len(FILES[name]) : k = IF i < j THEN j ELSE i
        OBVIOUS
      <4>6. After(name, k) \o text \in Seq(Lines)
        BY <2>1, AfterIs, ConcatProperties
      <4>7. QED
        BY <4>4, <4>5, <4>6
    <3>3. CASE reading = "opening"
      <4>1. PICK s : /\ s = IF my_filename \in DOMAIN FILES THEN Inlined[my_filename] ELSE <<>>
                     /\ handled \o (s \o text) = Inlined[root]
        BY <1>1, <3>3 DEF TextInv, Opens
      <4>2. <<>> \in Seq(Lines)
        OBVIOUS
      <4>3. s \in Seq(Lines)
        BY <4>1, <4>2, InlinedIs, Zenon
      <4>4. s \o text \in Seq(Lines)
        BY <2>1, <4>3, ConcatProperties
      <4>5. QED
        BY <4>1, <4>4
    <3>4. QED
      BY <1>1, <1>4, <3>1, <3>2, <3>3 DEF TextInv, Going
  <2>4. QED
    BY <2>1, <2>2, <2>3, PrefixOfText
<1>5. reading \in {"no", "yes", "opening", "throwing"} /\ exceptions_enabled \in BOOLEAN
  BY <1>2 DEF ConfTypeOK
<1>6. QED
  BY <1>3, <1>4, <1>5 DEF Going

(* read() handles the lines of a file and of those it includes, in the order *)
(* of the inlined text, each once, though it reads every file with an include *)
(* again from its beginning: for any files, to any depth of includes.         *)
THEOREM IncludesInlined == ConfSpec => []IncludesAreInlined
<1>1. ConfInit => ConfInv
  BY ConfInvInit
<1>2. ConfInv /\ [ConfNext]_confVars => ConfInv'
  BY ConfInvStep
<1>3. ConfInv => IncludesAreInlined
  BY ConfInvInlined
<1>4. QED
  BY <1>1, <1>2, <1>3, PTL DEF ConfSpec
=============================================================================
