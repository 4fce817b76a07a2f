----------------------------- MODULE SseIntegral -----------------------------
(***************************************************************************)
(* sse_integral_c10_32s() and sse_integral_c10_64f() (imgproc/sse), behind *)
(* integrate(): the integral image of a picture with ten channels, written *)
(* four numbers at a time into memory that was never cleared.              *)
(*                                                                         *)
(* The integral is linear, so the picture is 1 in one place, 0 elsewhere.  *)
(***************************************************************************)
EXTENDS Integers, FiniteSets

CONSTANTS
    MAX_WIDTH, MAX_HEIGHT,  \* bounds of the pictures
    LIT_CHANNELS,           \* channels the 1 may be in
    JUNK                    \* what the memory holds before

ASSUME SseAssumption ==
    /\ MAX_WIDTH \in Nat \ {0} /\ MAX_HEIGHT \in Nat \ {0}
    /\ LIT_CHANNELS \subseteq 0..9 /\ JUNK \in Int

channels == 10
lanes == 12         \* of the three registers of four numbers

VARIABLES
    variant,            \* "none", "32s" or "64f"
    width, height,
    lit,                \* the place of the 1 in src
    memory,             \* the numbers at dst, from the call's pointer on
    dst_at,             \* where dst points to in it now
    x, y,               \* the next column, "row" and "end" beside them, and row
    sums                \* sum_x0, sum_x1, sum_x2: the numbers of the row so far

sseVars == <<variant, width, height, lit, memory, dst_at, x, y, sums>>

NO_SUMS == [l \in 0..lanes - 1 |-> 0]

src_step == width * channels
sum_step == (width + 1) * channels

(* The picture's rows have a sum more than pixels, and there is a row more.    *)
Size(w, h) == (w + 1) * (h + 1) * channels

SseInit ==
    /\ variant = "none" /\ width = 0 /\ height = 0 /\ lit = 0
    /\ memory = <<>> /\ dst_at = 0 /\ x = 0 /\ y = 0 /\ sums = NO_SUMS

(* integrate() allocates the sums; the first row of them is cleared.           *)
StartIntegral(v, w, h, place) ==
    /\ variant = "none" /\ variant' = v
    /\ width' = w /\ height' = h /\ lit' = place
    /\ memory' = [i \in 0..Size(w, h) - 1 |-> IF i < (w + 1) * channels THEN 0 ELSE JUNK]
    /\ dst_at' = (w + 1) * channels
    /\ x' = -1 /\ y' = 0 /\ sums' = NO_SUMS

(* A row, the last one too, begins with ten sums cleared.                      *)
BeginRow ==
    /\ variant # "none" /\ x = -1 /\ y < height
    /\ memory' = [i \in DOMAIN memory |-> IF i \in dst_at..dst_at + channels - 1 THEN 0
                                          ELSE memory[i]]
    /\ dst_at' = dst_at + channels
    /\ x' = 0 /\ sums' = NO_SUMS
    /\ UNCHANGED <<variant, width, height, lit, y>>

LastColumn == y = height - 1 /\ x = width - 1

(* What the registers read: ten numbers of this pixel and two of the next one, *)
(* which the last row of the 32s variant leaves out, as both do at the end.    *)
Loaded(l) ==
    LET i == y * src_step + x * channels + l
    IN  IF l >= channels /\ (LastColumn \/ (variant = "32s" /\ y = height - 1)) THEN 0
        ELSE IF i = lit THEN 1 ELSE 0

(* The 64f variant stores ten numbers; the other one stores twelve, two of     *)
(* them where the next pixel or the next row will be written, but for the last *)
(* pixel of all.                                                              *)
StoredLanes == IF variant = "64f" \/ LastColumn THEN 0..channels - 1 ELSE 0..lanes - 1

AddPixel ==
    LET here == dst_at + x * channels
        sum == [l \in 0..lanes - 1 |-> sums[l] + Loaded(l)]
    IN  /\ x \in 0..width - 1
        /\ sums' = sum
        /\ memory' = [i \in DOMAIN memory |->
              IF i - here \in StoredLanes THEN memory[i - sum_step] + sum[i - here] ELSE memory[i]]
        /\ x' = x + 1
        /\ UNCHANGED <<variant, width, height, lit, dst_at, y>>

(* Bug: the pointer goes on by a whole row, as in the unused 32f variant. *)
MutantAdvance == sum_step

Advance == sum_step - channels

EndRow ==
    /\ variant # "none" /\ x = width /\ y < height
    /\ dst_at' = IF y < height - 1 THEN dst_at + Advance ELSE dst_at
    /\ x' = -1 /\ y' = y + 1
    /\ UNCHANGED <<variant, width, height, lit, memory, sums>>

SseReturn ==
    /\ variant # "none" /\ y = height
    /\ variant' = "none" /\ width' = 0 /\ height' = 0 /\ lit' = 0
    /\ memory' = <<>> /\ dst_at' = 0 /\ x' = 0 /\ y' = 0 /\ sums' = NO_SUMS

SseNext ==
    \/ \E v \in {"32s", "64f"}, w \in 1..MAX_WIDTH, h \in 1..MAX_HEIGHT, c \in LIT_CHANNELS :
          \E p \in 0..w * h - 1 : StartIntegral(v, w, h, p * channels + c)
    \/ BeginRow \/ AddPixel \/ EndRow \/ SseReturn

SseSpec == SseInit /\ [][SseNext]_sseVars

-----------------------------------------------------------------------------
(* The 1 counts for the sums of its channel below it and to its right.         *)
Expected(col, row, c) ==
    LET pixel == lit \div channels
    IN  IF c = lit % channels /\ pixel % width < col /\ pixel \div width < row THEN 1 ELSE 0

(* integrate() gives the integral image: each sum counts the pixels above it   *)
(* and to its left, in its own channel, although every store of the 32s        *)
(* variant also overwrites a part of the next pixel's sums and some of the     *)
(* next row's; and no store is beside the picture's sums.                      *)
IntegralIsExact ==
    /\ variant # "none" /\ x \in 0..width - 1 =>
          \A l \in StoredLanes : dst_at + x * channels + l \in DOMAIN memory
    /\ variant # "none" /\ y = height =>
          \A col \in 0..width, row \in 0..height, c \in 0..channels - 1 :
              memory[row * sum_step + col * channels + c] = Expected(col, row, c)
=============================================================================
