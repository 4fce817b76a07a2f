---------------------------- MODULE StreamMedian ----------------------------
(***************************************************************************)
(* IntStreamMedian (stream-median.cpp): the typical value of a stream of   *)
(* numbers, taken from a sorted list of bounded length from which the      *)
(* largest and the smallest number are dropped whenever it is full.        *)
(***************************************************************************)
EXTENDS Integers, Sequences, FiniteSets, SequencesExt

CONSTANTS
    NUMBERS,        \* the numbers that may be pushed
    SET_SIZES,      \* the sizes the caller may ask for
    MAX_PUSHED      \* bound: numbers pushed since the last reset

MIN_AVAILABLE_SET_SIZE == 3

ASSUME MedianAssumption ==
    NUMBERS \subseteq Int /\ SET_SIZES \subseteq Nat /\ MAX_PUSHED \in Nat

VARIABLES
    nums,           \* the multiset, as a sorted sequence
    set_size,
    median,
    pushed,         \* every number since the last reset, sorted (history)
    low, high,      \* the numbers dropped below and above since then (history)
    undefined       \* an empty multiset was erased from: anything may follow

medianVars == <<nums, set_size, median, pushed, low, high, undefined>>

(* The multiset's insert: behind the elements that are not larger. *)
Inserted(s, x) ==
    InsertAt(s, Cardinality({i \in DOMAIN s : s[i] <= x}) + 1, x)

(* Bug: a list of even length gives the lower one of the two middle elements. *)
MutantMiddle(s) == s[(Len(s) + 1) \div 2]

(* The element at half the size: the upper one of the two middle ones. *)
Middle(s) == s[(Len(s) \div 2) + 1]

(* Erases a elements at the front and b at the back, and records them. *)
Erase(s, a, b) ==
    /\ nums' = SubSeq(s, a + 1, Len(s) - b)
    /\ low' = low \o SubSeq(s, 1, a)
    /\ high' = SubSeq(s, Len(s) - b + 1, Len(s)) \o high

MedianInit ==
    /\ nums = <<>> /\ median = 0
    /\ set_size = MIN_AVAILABLE_SET_SIZE
    /\ pushed = <<>> /\ low = <<>> /\ high = <<>>
    /\ undefined = FALSE

MedianPush(num) ==
    LET all == Inserted(nums, num)
        full == Len(all) >= set_size
    IN  /\ Len(pushed) < MAX_PUSHED
        /\ pushed' = Inserted(pushed, num)
        /\ median' = Middle(all)
        /\ undefined' = (full /\ Len(all) < 2)
        /\ IF full /\ ~undefined' THEN Erase(all, 1, 1) ELSE Erase(all, 0, 0)
        /\ UNCHANGED set_size

MedianReset ==
    /\ nums' = <<>> /\ median' = 0
    /\ pushed' = <<>> /\ low' = <<>> /\ high' = <<>>
    /\ UNCHANGED <<set_size, undefined>>

(* set_nums_set_size(): the size is stored before it is looked at, one that  *)
(* is refused with an exception stays. The difference to the former size,    *)
(* not the number of elements, says how many are erased.                     *)
MedianSetSize(k) ==
    LET n == set_size - k
        shrinks == k >= MIN_AVAILABLE_SET_SIZE /\ n > 0
    IN  /\ set_size' = k
        /\ undefined' = (shrinks /\ Len(nums) < n)
        /\ IF shrinks /\ ~undefined' THEN Erase(nums, n \div 2, n - n \div 2)
                                     ELSE Erase(nums, 0, 0)
        /\ UNCHANGED <<median, pushed>>

MedianNext ==
    /\ ~undefined
    /\ \/ \E num \in NUMBERS : MedianPush(num)
       \/ MedianReset
       \/ \E k \in SET_SIZES : MedianSetSize(k)

MedianSpec == MedianInit /\ [][MedianNext]_medianVars

-----------------------------------------------------------------------------
(* What the list stands for: half of the numbers are not above m, and half   *)
(* are not below.                                                            *)
IsUpperMedian(m, s) ==
    /\ Cardinality({i \in DOMAIN s : s[i] < m}) <= Len(s) \div 2
    /\ Cardinality({i \in DOMAIN s : s[i] <= m}) > Len(s) \div 2

InOrder(s) == \A i, j \in DOMAIN s : i < j => s[i] <= s[j]

(* The median of the short list is the median of the whole stream, although  *)
(* most of the stream was dropped, as long as as many numbers were dropped   *)
(* above as below and none of them would be back in the middle now. Only a   *)
(* change of the size by an odd number, and a stream that drifts past the    *)
(* numbers dropped, make it wrong.                                           *)
MedianIsExact ==
    (/\ pushed # <<>> /\ ~undefined
     /\ Len(low) = Len(high)
     /\ InOrder(low \o nums \o high))
    => IsUpperMedian(median, pushed)
=============================================================================
