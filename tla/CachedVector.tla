---------------------------- MODULE CachedVector ----------------------------
(***************************************************************************)
(* CacheManager (cached-vector.cpp): a vector whose elements live in a     *)
(* temporary file; a window of it is kept in memory. Sizes and positions   *)
(* are in elements; the program keeps its own idea of the position of the  *)
(* FILE, which fread() moves and the program does not.                     *)
(***************************************************************************)
EXTENDS Integers, Sequences, FiniteSets, SequencesExt

CONSTANTS
    CACHED_VEC_MAX_SIZE,    \* elements the file may hold
    CACHED_VEC_MAX_CACHE,   \* elements the window may hold
    MAX_ADDED               \* bound: elements added since the last clear()

ASSUME CacheAssumption ==
    /\ CACHED_VEC_MAX_SIZE \in Nat \ {0}
    /\ CACHED_VEC_MAX_CACHE \in Nat \ {0}
    /\ MAX_ADDED \in Nat

VARIABLES
    file,               \* "none", "new" (wb+) or "existing" (ab+)
    dump,               \* the elements in the file
    offset,             \* where the FILE really stands
    file_pos,           \* where the program believes it stands
    writing_pos,
    samples_num,
    can_increase_file,
    cache_data, cache_pos_in_dump,
    added,              \* every element since init() or clear() (history)
    sample              \* the last answer: <<index, element>>, or <<>>

cacheVars == <<file, dump, offset, file_pos, writing_pos, samples_num,
               can_increase_file, cache_data, cache_pos_in_dump, added, sample>>

cache_size == Len(cache_data)
cache_max_size == CACHED_VEC_MAX_CACHE
Least2(a, b) == IF a <= b THEN a ELSE b

(* Opened empty, or a dump left behind that holds k elements. *)
OpenedCache(how, k) ==
    /\ file' = how
    /\ dump' = [i \in 1..k |-> i] /\ added' = dump'
    /\ offset' = k /\ file_pos' = k /\ writing_pos' = k /\ samples_num' = k
    /\ can_increase_file' = TRUE
    /\ cache_data' = <<>> /\ cache_pos_in_dump' = 0
    /\ sample' = <<>>

CacheInit ==
    /\ file = "none" /\ dump = <<>> /\ added = <<>>
    /\ offset = 0 /\ file_pos = 0 /\ writing_pos = 0 /\ samples_num = 0
    /\ can_increase_file = TRUE
    /\ cache_data = <<>> /\ cache_pos_in_dump = 0
    /\ sample = <<>>

CacheOpen(existing) ==
    OpenedCache(IF existing > 0 THEN "existing" ELSE "new", existing)

CacheClear == file # "none" /\ OpenedCache("new", 0)

(* Bug: seeks backwards only. *)
MutantSeekSample(pos) == IF file_pos > pos THEN pos ELSE offset

(* fseek64() unless the program believes the file stands there. *)
SeekSample(pos) == IF file_pos # pos THEN pos ELSE offset

(* fwrite(): at the position, or at the end of a file opened for appending. *)
Written(x, at) ==
    IF at < Len(dump) THEN [dump EXCEPT ![at + 1] = x] ELSE Append(dump, x)

CacheAdd ==
    LET wraps == writing_pos + 1 > CACHED_VEC_MAX_SIZE
        pos == IF wraps THEN 0 ELSE writing_pos
        at == IF file = "existing" THEN Len(dump) ELSE SeekSample(pos)
        x == Len(added) + 1
    IN  /\ file # "none" /\ Len(added) < MAX_ADDED
        /\ can_increase_file' = (can_increase_file /\ ~wraps)
        /\ dump' = Written(x, at)
        /\ offset' = at + 1
        /\ file_pos' = pos + 1 /\ writing_pos' = pos + 1
        /\ samples_num' = samples_num + (IF can_increase_file' THEN 1 ELSE 0)
        /\ added' = Append(added, x)
        /\ UNCHANGED <<file, cache_data, cache_pos_in_dump, sample>>

InWindow(index) ==
    index >= cache_pos_in_dump /\ index < cache_pos_in_dump + cache_size

(* A read that falls short fails an assertion: there is no such step. *)
CacheGet(index) ==
    /\ file # "none" /\ index < samples_num
    /\ IF InWindow(index)
       THEN UNCHANGED <<offset, file_pos, cache_data, cache_pos_in_dump>>
       ELSE LET at == SeekSample(index)
                count == Least2(samples_num - index, cache_max_size)
            IN  /\ at + count <= Len(dump)
                /\ file_pos' = index
                /\ offset' = at + count
                /\ cache_data' = SubSeq(dump, at + 1, at + count)
                /\ cache_pos_in_dump' = index
    /\ sample' = <<index, cache_data'[index - cache_pos_in_dump' + 1]>>
    /\ UNCHANGED <<file, dump, writing_pos, samples_num, can_increase_file, added>>

CacheNext ==
    \/ \E k \in 0..1 : CacheOpen(k)
    \/ CacheClear
    \/ CacheAdd
    \/ \E index \in 0..(samples_num - 1) : CacheGet(index)

CacheSpec == CacheInit /\ [][CacheNext]_cacheVars

-----------------------------------------------------------------------------
(* An element is read back as it was added, from the window or the file, in  *)
(* whatever order elements were added and read before, although the          *)
(* program's idea of the file position is wrong after every read; until the  *)
(* file has reached its limit and is written from its start again.           *)
SampleIsTheOneAdded ==
    can_increase_file /\ sample # <<>> => sample[2] = added[sample[1] + 1]
=============================================================================
