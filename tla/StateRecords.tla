---------------------------- MODULE StateRecords ----------------------------
(***************************************************************************)
(* Monitorable, MonitoredRecords and the parameters they hold              *)
(* (state-records.hpp, state-records.cpp): values that several threads     *)
(* update under one mutex. add_parameter() alone does not take it.         *)
(***************************************************************************)
EXTENDS Integers, FiniteSets

CONSTANTS
    UPDATERS,       \* threads
    DESCRIPTORS,    \* codes of parameters
    TYPE_OF,        \* what each code was built as
    WIDTH,          \* size_t holds 0 .. WIDTH - 1, int64_t -WIDTH \div 2 .. WIDTH \div 2 - 1
    STEPS,          \* the numbers increment(), set_int() and set_double() are called with
    HIGH_THRESHOLD, \* of the parameters built with a threshold
    MAX_TOTAL       \* bound: what a counter was incremented by

ASSUME RecordsAssumption ==
    /\ "free" \notin UPDATERS
    /\ WIDTH \in Nat \ {0, 1} /\ STEPS \subseteq 0..(WIDTH - 1)
    /\ TYPE_OF \in [DESCRIPTORS ->
                       {"COUNTER", "INT_VALUE", "DOUBLE_VALUE", "UTC_TIMESTAMP"}]
    /\ HIGH_THRESHOLD \in 0..(WIDTH - 1)

VARIABLES
    records,        \* code -> parameter
    records_mutex,  \* its holder, or "free"
    updating,       \* thread -> its call: [at, op, code, arg, value]
    called,         \* code -> what the completed calls amount to (history)
    utc_time,
    broken          \* "no", "assert" (SIGABRT) or "race" (undefined from here)

recordsVars == <<records, records_mutex, updating, called, utc_time, broken>>

int64_max == (WIDTH \div 2) - 1
size_t_max == WIDTH - 1
Idle == [at |-> "idle"]
Wrapped(x) == ((x + WIDTH \div 2) % WIDTH) - WIDTH \div 2

Highest(type) == IF type = "COUNTER" THEN size_t_max ELSE int64_max

(* Nothing is below a counter or a timestamp; a double's lowest default is   *)
(* numeric_limits::min(), the smallest number above zero.                    *)
Lowest(type) == IF type = "DOUBLE_VALUE" THEN 1 ELSE -(WIDTH \div 2)

Param(code, null, high) ==
    [type |-> TYPE_OF[code], is_null |-> null, value |-> 0,
     low |-> Lowest(TYPE_OF[code]), high |-> high]

(* MonParamBuilder: without a value, with one, with one and its thresholds.  *)
Built(code) ==
    {Param(code, n, Highest(TYPE_OF[code])) : n \in BOOLEAN}
        \cup {Param(code, FALSE, HIGH_THRESHOLD)}

(* any_threshold_reached(): a timestamp's threshold is a timeout, added to   *)
(* the time with int64_t's overflow.                                         *)
AnyThresholdReached(p) ==
    /\ ~p.is_null
    /\ \/ p.value < p.low
       \/ p.value > IF p.type = "UTC_TIMESTAMP" THEN Wrapped(utc_time + p.high) ELSE p.high

RecordsInit ==
    /\ records = <<>> /\ called = <<>>
    /\ records_mutex = "free"
    /\ updating = [t \in UPDATERS |-> Idle]
    /\ utc_time = 0 /\ broken = "no"

Alone(t) == \A u \in UPDATERS \ {t} : updating[u].at = "idle"
Adding == \E u \in UPDATERS : updating[u].at = "adding"

(* Without the mutex: a data race if any other call is under way.            *)
AddParameter(t, code, p) ==
    /\ updating[t].at = "idle"
    /\ updating' = [updating EXCEPT ![t] = [at |-> "adding", code |-> code, param |-> p]]
    /\ broken' = IF Alone(t) THEN "no" ELSE "race"
    /\ UNCHANGED <<records, records_mutex, called, utc_time>>

(* Bug: records[code] = param. *)
MutantInsertedParam(code, p) == [c \in DOMAIN records \cup {code} |->
                               IF c = code THEN p ELSE records[c]]

(* insert(): a parameter that is there already stays.                        *)
InsertedParam(code, p) == [c \in DOMAIN records \cup {code} |->
                         IF c \in DOMAIN records THEN records[c] ELSE p]

AddedParameter(t) ==
    LET code == updating[t].code IN
    /\ updating[t].at = "adding"
    /\ records' = InsertedParam(code, updating[t].param)
    /\ called' = [c \in DOMAIN records \cup {code} |->
                      IF c \in DOMAIN records THEN called[c] ELSE 0]
    /\ updating' = [updating EXCEPT ![t] = Idle]
    /\ UNCHANGED <<records_mutex, utc_time, broken>>

Locks(t) ==
    /\ records_mutex = "free" /\ updating[t].at = "idle"
    /\ records_mutex' = t

Unlocks(t) == records_mutex' = "free" /\ updating' = [updating EXCEPT ![t] = Idle]

(* A method of a parameter that its type does not have throws.               *)
Has(type, op) ==
    CASE type = "COUNTER" -> op = "increment"
      [] type = "INT_VALUE" -> op = "set_int"
      [] type = "DOUBLE_VALUE" -> op = "set_double"
      [] type = "UTC_TIMESTAMP" -> op \in {"set_int", "update"}

(* increment(), set_int() and so on: the mutex, find_param(), the assertion. *)
Call(t, op, code, arg) ==
    /\ Locks(t)
    /\ broken' = IF Adding THEN "race"
                 ELSE IF code \notin DOMAIN records THEN "assert" ELSE "no"
    /\ updating' = [updating EXCEPT ![t] =
                       [at |-> "found", op |-> op, code |-> code, arg |-> arg]]
    /\ UNCHANGED <<records, called, utc_time>>

CallThrows(t) ==
    /\ updating[t].at = "found"
    /\ ~Has(records[updating[t].code].type, updating[t].op)
    /\ Unlocks(t)
    /\ UNCHANGED <<records, called, utc_time, broken>>

(* value += step reads and writes: two steps.                                *)
CallReads(t) ==
    LET u == updating[t] IN
    /\ u.at = "found" /\ Has(records[u.code].type, u.op)
    /\ updating' = [updating EXCEPT ![t] =
           [at |-> "read", op |-> u.op, code |-> u.code, arg |-> u.arg,
            value |-> records[u.code].value]]
    /\ UNCHANGED <<records, records_mutex, called, utc_time, broken>>

Stored(u) ==
    CASE u.op = "increment" -> (u.value + u.arg) % WIDTH
      [] u.op \in {"set_int", "set_double"} -> u.arg
      [] u.op = "update" -> utc_time

CallWrites(t) ==
    LET u == updating[t] IN
    /\ u.at = "read"
    /\ records' = [records EXCEPT ![u.code].value = Stored(u), ![u.code].is_null = FALSE]
    /\ called' = [called EXCEPT ![u.code] =
                     IF u.op = "increment" THEN @ + u.arg ELSE Stored(u)]
    /\ Unlocks(t)
    /\ UNCHANGED <<utc_time, broken>>

(* clear(), under the mutex.                                                 *)
ClearRecords(t) ==
    /\ updating[t].at = "idle" /\ records_mutex = "free"
    /\ records' = <<>> /\ called' = <<>>
    /\ broken' = IF Adding THEN "race" ELSE "no"
    /\ UNCHANGED <<records_mutex, updating, utc_time>>

Tick ==
    /\ utc_time' = (utc_time + 1) % (int64_max + 1)
    /\ UNCHANGED <<records, records_mutex, updating, called, broken>>

Running(code) ==
    Cardinality({t \in UPDATERS : updating[t].at # "idle" /\ updating[t].code = code})
Bounded(code) == code \in DOMAIN called => called[code] + 2 * Running(code) < MAX_TOTAL

RecordsNext ==
    /\ broken = "no"
    /\ \/ \E t \in UPDATERS, code \in DESCRIPTORS :
            \/ \E p \in Built(code) : AddParameter(t, code, p)
            \/ \E op \in {"increment", "set_int", "set_double", "update"}, arg \in STEPS :
                   Bounded(code) /\ Call(t, op, code, arg)
       \/ \E t \in UPDATERS :
            AddedParameter(t) \/ CallThrows(t) \/ CallReads(t) \/ CallWrites(t) \/ ClearRecords(t)
       \/ Tick

RecordsSpec == RecordsInit /\ [][RecordsNext]_recordsVars

-----------------------------------------------------------------------------
(* No update is lost between threads: a counter holds the sum of the steps   *)
(* of every completed call, as far as size_t does, and its threshold is      *)
(* reached exactly when that sum is above it; a value holds the last one set.*)
NoUpdateIsLost ==
    broken = "no" =>
        \A code \in DOMAIN records :
            LET p == records[code] IN
            /\ p.value = called[code] % WIDTH
            /\ p.type = "COUNTER" /\ called[code] < WIDTH /\ ~p.is_null =>
                   (AnyThresholdReached(p) <=> called[code] > p.high)
=============================================================================
