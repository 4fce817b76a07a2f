------------------------------- MODULE Contrast -------------------------------
(***************************************************************************)
(* The histograms behind the contrast filters (filter.cpp): the local      *)
(* histogram of adaptive equalisation, whose window is mirrored at the     *)
(* borders of the image, the area around a peak that holds a number of     *)
(* pixels, and the scans that look for the colours worth stretching.       *)
(***************************************************************************)
EXTENDS Integers, FiniteSets, FiniteSetsExt

CONSTANTS
    LOCAL_SIZES,    \* <<columns, rows>> of the images of the local histogram
    WINDOWS,        \* sizes of its window
    COLORS,         \* colours: 256 in the code
    COUNTS,         \* pixels a histogram has of a colour
    RUN,            \* a run is longer than this: a fiftieth of the colours, 5
    EDGE,           \* a hump ends with more low colours than this: 3
    STEEP,          \* and its bounds have a run of more high ones than this: 2
    THRESHOLDS,     \* pixels that make a colour count
    PART,           \* min_peak_part is 1 / PART: 10
    CLIPS           \* limits of the adaptive equalisation, -1: none

ASSUME ContrastAssumption ==
    /\ COLORS \in Nat /\ COLORS > 2
    /\ PART \in Nat \ {0} /\ COUNTS \subseteq Nat
    /\ RUN \in Nat /\ EDGE \in Nat \ {0} /\ STEEP \in Nat
    /\ THRESHOLDS \subseteq Nat /\ CLIPS \subseteq Nat \cup {-1}
    /\ WINDOWS \subseteq Nat /\ LOCAL_SIZES \subseteq (Nat \ {0}) \X (Nat \ {0})
    \* windows reach over the border by no more than the image: the code reads
    \* beside the image otherwise
    /\ \A s \in LOCAL_SIZES, window \in WINDOWS :
          window \div 2 <= s[1] /\ window \div 2 <= s[2]

SHADE == 0..COLORS - 1

VARIABLES
    task,           \* "none", "local", "rel", "abs", "square", "stretch", "equalize"
    image_size,     \* of the image
    rect,           \* the window: [x, y, width, height]
    line,           \* the next line of the window's loops: [part, y]
    counted,        \* pixel -> how often it was counted (in hists)
    hist,           \* a whole histogram
    wanted,         \* height, threshold, square or limit the task is given
    peak,           \* of the histogram
    bounds,         \* <<left, right>>
    pixel_sum,      \* pixels between them
    levels          \* colour -> its new colour

contrastVars == <<task, image_size, rect, line, counted, hist, wanted, peak, bounds,
                  pixel_sum, levels>>

NO_RECT == [x |-> 0, y |-> 0, width |-> 0, height |-> 0]
NO_LINE == [part |-> "inside", y |-> 0]

ContrastInit ==
    /\ task = "none"
    /\ image_size = <<0, 0>> /\ rect = NO_RECT /\ line = NO_LINE /\ counted = <<>>
    /\ hist = <<>> /\ wanted = 0 /\ peak = 0 /\ bounds = <<0, 0>> /\ pixel_sum = 0
    /\ levels = <<>>

SameLocal == UNCHANGED <<image_size, rect, line, counted>>
SameBounds == UNCHANGED <<hist, wanted, peak, bounds, pixel_sum, levels>>

-----------------------------------------------------------------------------
(* histogram_local() *)
LargerOf(a, b) == IF a > b THEN a ELSE b
SmallerOf(a, b) == IF a < b THEN a ELSE b

Yl == LargerOf(rect.y, 0)
Yr == SmallerOf(rect.y + rect.height - 1, image_size[2] - 1)
Xl == LargerOf(rect.x, 0)
Xr == SmallerOf(rect.x + rect.width - 1, image_size[1] - 1)

(* The three loops over the columns of a line: those in the window, those      *)
(* mirrored at the left border and those mirrored at the right one.            *)
Columns(x) ==
    <<x \in Xl..Xr, x \in Xl..(-rect.x - 1),
      x \in (2 * image_size[1] - 1 - (rect.x + rect.width))..image_size[1] - 1>>

CountLine(y) ==
    counted' = [p \in DOMAIN counted |->
        IF p[2] # y THEN counted[p]
        ELSE counted[p] + Cardinality({i \in 1..3 : Columns(p[1])[i]})]

(* The adaptive filters centre the window on a pixel of the shrunken image.    *)
StartLocal(image, window, x, y) ==
    /\ task = "none" /\ task' = "local"
    /\ image_size' = image
    /\ rect' = [x |-> x - window \div 2, y |-> y - window \div 2,
                width |-> window, height |-> window]
    /\ counted' = [p \in (0..image[1] - 1) \X (0..image[2] - 1) |-> 0]
    /\ line' = [part |-> "inside", y |-> LargerOf(rect'.y, 0)]
    /\ SameBounds

(* The lines in the window, then those mirrored at the upper border, then,     *)
(* upwards, those mirrored at the lower one.                                  *)
LineInside ==
    /\ task = "local" /\ line.part = "inside"
    /\ IF line.y <= Yr
       THEN CountLine(line.y) /\ line' = [line EXCEPT !.y = @ + 1]
       ELSE line' = [part |-> "upper", y |-> 0] /\ UNCHANGED counted
    /\ UNCHANGED <<task, image_size, rect>> /\ SameBounds

LineUpper ==
    /\ task = "local" /\ line.part = "upper"
    /\ IF line.y < -rect.y
       THEN CountLine(line.y) /\ line' = [line EXCEPT !.y = @ + 1]
       ELSE line' = [part |-> "lower", y |-> image_size[2] - 1] /\ UNCHANGED counted
    /\ UNCHANGED <<task, image_size, rect>> /\ SameBounds

LineLower ==
    /\ task = "local" /\ line.part = "lower"
    /\ IF line.y >= 2 * image_size[2] - 1 - (rect.y + rect.height)
       THEN CountLine(line.y) /\ line' = [line EXCEPT !.y = @ - 1]
       ELSE line' = [part |-> "done", y |-> 0] /\ UNCHANGED counted
    /\ UNCHANGED <<task, image_size, rect>> /\ SameBounds

-----------------------------------------------------------------------------
(* The scans run over colours and count those in a row that belong to `good`;  *)
(* they differ in where they start, in the direction, and in what they do with *)
(* a run that is long enough. The count after each of the colours, one by one: *)
(* from first to last, with `accum` counted before the first.                  *)
RunCounts(good, first, last, accum) ==
    LET up == first <= last
        count[c \in (IF up THEN first..last ELSE last..first)] ==
            LET before == IF c = first THEN accum
                          ELSE count[IF up THEN c - 1 ELSE c + 1]
            IN  IF c \in good THEN before + 1 ELSE 0
    IN  count

(* The colours at which a count exceeds the length.                           *)
Long(count, length) == {c \in DOMAIN count : count[c] > length}

FirstUp(colors, none) == IF colors = {} THEN none ELSE Min(colors)
FirstDown(colors, none) == IF colors = {} THEN none ELSE Max(colors)

AtLeast(h, n) == {c \in SHADE : h[c] >= n}
Below(h, n) == SHADE \ AtLeast(h, n)

(* histogram_bounds(): the first colour on each side that makes a run of large *)
(* ones long enough. The scan from the right goes on with the count of the one *)
(* from the left, so a large colour at its start is the bound at once.         *)
HistogramBounds(h, threshold, start_left, start_right) ==
    LET min == FirstUp(Long(RunCounts(AtLeast(h, threshold), start_left, COLORS - 1, 0), RUN), COLORS)
        max == FirstDown(Long(RunCounts(AtLeast(h, threshold), start_right, 0, RUN + 1), RUN), -1)
    IN  IF min = COLORS THEN <<0, COLORS - 1>> ELSE <<min, LargerOf(min, max)>>

(* histogram_bounds_from_peak_height_abs(): the first colour on each side with *)
(* which enough low ones have followed each other, -1 if there is none.        *)
BoundsAbs(h, p, height) ==
    <<FirstDown(Long(RunCounts(Below(h, height), p, 0, 0), EDGE), -1),
      FirstUp(Long(RunCounts(Below(h, height), p, COLORS - 1, 0), EDGE), -1)>>

(* histogram_bounds_from_peak_height_rel() with its default limits: the        *)
(* outermost colour that completes a run of high ones; the last colour of all  *)
(* is not looked at.                                                           *)
BoundsRel(h, p, height) ==
    LET right == IF p > COLORS - 2 THEN {}
                 ELSE Long(RunCounts(AtLeast(h, height + 1), p, COLORS - 2, 0), STEEP)
    IN  <<FirstUp(Long(RunCounts(AtLeast(h, height + 1), p, 0, 0), STEEP), -1),
          FirstDown(right, -1)>>

(* Bug: the peak is the highest colour itself. *)
MutantHistogramPeak(h, threshold) ==
    LET runs == Long(RunCounts(AtLeast(h, threshold), 0, COLORS - 1, 0), RUN)
    IN  FirstUp({c \in runs : \A d \in runs : h[d] <= h[c]}, 0)

(* historgam_peak(): the middle of the hump around the highest colour of the   *)
(* runs that are long enough, a hump that ends where enough colours are less   *)
(* than half as high.                                                          *)
HistogramPeak(h, threshold) ==
    LET runs == {c \in Long(RunCounts(AtLeast(h, threshold), 0, COLORS - 1, 0), RUN) : h[c] > 0}
        top == FirstUp({c \in runs : \A d \in runs : h[d] <= h[c]}, 0)
        ends == BoundsAbs(h, top, (IF runs = {} THEN 0 ELSE h[top]) \div 2)
        start == IF ends[1] = -1 THEN 0 ELSE ends[1]
        finish == IF ends[2] = -1 THEN COLORS - 1 ELSE ends[2]
    IN  (start + finish) \div 2

-----------------------------------------------------------------------------
(* contrast_histogram_shift_stretch() looks for the peak and then, in one of   *)
(* three ways, for the bounds of the colours around it.                        *)
Pixels(h, colors) == MapThenSumSet(LAMBDA c : h[c], colors)

StartShift(method, h, height) ==
    LET p == HistogramPeak(h, 1)
    IN  /\ task = "none" /\ task' = method
        /\ hist' = h /\ peak' = p
        /\ CASE method = "rel" ->
                    /\ wanted' = h[p] \div PART
                    /\ bounds' = BoundsRel(h, p, wanted')
                    /\ pixel_sum' = 0
             [] method = "abs" ->
                    /\ wanted' = height
                    /\ bounds' = BoundsAbs(h, p, height)
                    /\ pixel_sum' = 0
             [] method = "square" ->
                    /\ wanted' = (Pixels(h, SHADE \ {0}) * (PART - 1)) \div PART
                    /\ bounds' = <<p - 1, p + 1>>
                    /\ pixel_sum' = h[p]
        /\ SameLocal /\ UNCHANGED levels

(* histogram_bounds_from_peak_square(): the larger one of the two neighbours   *)
(* joins until there are pixels enough. It stops at two equal neighbours.      *)
GrowsLeft == bounds[1] > 0 /\ hist[bounds[1]] > hist[bounds[2]]
GrowsRight == bounds[2] < COLORS - 1 /\ hist[bounds[2]] > hist[bounds[1]]

GrowSquare ==
    /\ task = "square" /\ pixel_sum < wanted
    /\ \/ /\ GrowsLeft
          /\ pixel_sum' = pixel_sum + hist[bounds[1]]
          /\ bounds' = [bounds EXCEPT ![1] = @ - 1]
       \/ /\ GrowsRight
          /\ pixel_sum' = pixel_sum + hist[bounds[2]]
          /\ bounds' = [bounds EXCEPT ![2] = @ + 1]
    /\ UNCHANGED <<task, hist, wanted, peak, levels>> /\ SameLocal

-----------------------------------------------------------------------------
(* channel_linear_stretch() to the whole range: the bounds become its ends and *)
(* the colours beside them are cut off. Equal bounds divide by zero and are    *)
(* left out; fractions are rounded down once, at the end.                      *)
Stretched(c, ends) ==
    LET level == ((COLORS - 1) * (c - ends[1])) \div (ends[2] - ends[1])
    IN  LargerOf(0, SmallerOf(COLORS - 1, level))

StartStretch(h, threshold) ==
    LET ends == HistogramBounds(h, threshold, 1, COLORS - 2)
    IN  /\ task = "none" /\ task' = "stretch"
        /\ ends[1] # ends[2]
        /\ hist' = h /\ wanted' = threshold /\ bounds' = ends
        /\ levels' = [c \in SHADE |-> Stretched(c, ends)]
        /\ SameLocal /\ UNCHANGED <<peak, pixel_sum>>

(* histogram_truncate(), in parts of a pixel, COLORS to each: what exceeds the *)
(* limit is shared out among all the colours.                                  *)
Truncated(h, limit) ==
    LET excess == Pixels([c \in SHADE |-> LargerOf(h[c] - limit, 0)], SHADE)
    IN  [c \in SHADE |-> COLORS * SmallerOf(h[c], limit) + excess]

(* contrast_histogram_equalize() and, with the histogram around a pixel, the   *)
(* adaptive ones: a colour becomes the share of the pixels that are not        *)
(* lighter.                                                                    *)
StartEqualize(h, limit) ==
    LET parts == IF limit = -1 THEN [c \in SHADE |-> COLORS * h[c]] ELSE Truncated(h, limit)
        total == COLORS * Pixels(h, SHADE)
    IN  /\ task = "none" /\ task' = "equalize"
        /\ total > 0
        /\ hist' = h /\ wanted' = limit
        /\ levels' = [c \in SHADE |-> ((COLORS - 1) * Pixels(parts, 0..c)) \div total]
        /\ SameLocal /\ UNCHANGED <<peak, bounds, pixel_sum>>

ContrastReturn ==
    /\ \/ task \in {"rel", "abs", "stretch", "equalize"}
       \/ task = "local" /\ line.part = "done"
       \/ task = "square" /\ (pixel_sum >= wanted \/ (~GrowsLeft /\ ~GrowsRight))
    /\ task' = "none"
    /\ image_size' = <<0, 0>> /\ rect' = NO_RECT /\ line' = NO_LINE /\ counted' = <<>>
    /\ hist' = <<>> /\ wanted' = 0 /\ peak' = 0 /\ bounds' = <<0, 0>> /\ pixel_sum' = 0
    /\ levels' = <<>>

ContrastNext ==
    \/ \E s \in LOCAL_SIZES, window \in WINDOWS :
          \E x \in 0..s[1] - 1, y \in 0..s[2] - 1 : StartLocal(s, window, x, y)
    \/ LineInside \/ LineUpper \/ LineLower
    \/ \E h \in [SHADE -> COUNTS] :
          \/ StartShift("rel", h, 0)
          \/ \E height \in THRESHOLDS : StartShift("abs", h, height)
          \/ StartShift("square", h, 0)
          \/ \E threshold \in THRESHOLDS : StartStretch(h, threshold)
          \/ \E limit \in CLIPS : StartEqualize(h, limit)
    \/ GrowSquare
    \/ ContrastReturn

ContrastSpec == ContrastInit /\ [][ContrastNext]_contrastVars

-----------------------------------------------------------------------------
(* The pixel that a position beside the image stands for.                      *)
Mirrored(i, n) == IF i < 0 THEN -i - 1 ELSE IF i >= n THEN 2 * n - 1 - i ELSE i

WindowIsCounted ==
    \A p \in DOMAIN counted :
        counted[p] = Cardinality({q \in
            (rect.x..rect.x + rect.width - 1) \X (rect.y..rect.y + rect.height - 1) :
                p = <<Mirrored(q[1], image_size[1]), Mirrored(q[2], image_size[2])>>})

(* When the loops of histogram_local() are through, each pixel was counted as  *)
(* often as the window, mirrored at the borders, covers it: the histogram has  *)
(* the window's full number of pixels, by which the equalisation divides. The  *)
(* code's comments have the mirrors at the right and the lower border for      *)
(* windows that reach over them (filter.cpp:534, 551); its loops also run for  *)
(* windows that only touch them, and take a line too much of the others.       *)
LocalHistogramIsMirrored == task = "local" /\ line.part = "done" => WindowIsCounted

(* So it is for the windows that end before these two borders.                 *)
InnerHistogramIsMirrored ==
    rect.x + rect.width < image_size[1] /\ rect.y + rect.height < image_size[2]
        => LocalHistogramIsMirrored

(* Each way to find bounds finds what it is meant to: the widest area with     *)
(* steep ends, the narrowest one between two flat stretches, or an area that   *)
(* grew from inside the histogram without reading beside it and holds the      *)
(* pixels it counted.                                                          *)
BoundsFollowTheRuns ==
    LET steep == {c \in 0..COLORS - 1 - STEEP :
                      c..c + STEEP \subseteq AtLeast(hist, wanted + 1)}
        flat == {c \in 0..COLORS - 1 - EDGE : c..c + EDGE \subseteq Below(hist, wanted)}
    IN  /\ task = "rel" => bounds =
              <<FirstUp({c \in steep : c + STEEP <= peak}, -1),
                FirstDown({c + STEEP : c \in {d \in steep : d >= peak
                                                  /\ d + STEEP < COLORS - 1}}, -1)>>
        /\ task = "abs" => bounds =
              <<FirstDown({c \in flat : c + EDGE <= peak}, -1),
                FirstUp({c + EDGE : c \in {d \in flat : d >= peak}}, -1)>>
        /\ task = "square" =>
              /\ 0 <= bounds[1] /\ bounds[1] < peak
              /\ peak < bounds[2] /\ bounds[2] < COLORS
              /\ pixel_sum = Pixels(hist, bounds[1] + 1..bounds[2] - 1)

(* A new colour is a colour, darker ones stay darker, the bounds of a stretch  *)
(* become black and white, and an equalised image reaches white, whether or    *)
(* not its histogram was truncated.                                            *)
LevelsReachTheEnds ==
    task \in {"stretch", "equalize"} =>
        /\ \A c \in SHADE : levels[c] \in SHADE
        /\ \A c, d \in SHADE : c <= d => levels[c] <= levels[d]
        /\ levels[COLORS - 1] = COLORS - 1
        /\ task = "stretch" => levels[bounds[1]] = 0 /\ levels[bounds[2]] = COLORS - 1

(* The histogram helpers of the contrast filters do what the filters divide    *)
(* and index by.                                                               *)
HistogramsAreRight ==
    InnerHistogramIsMirrored /\ BoundsFollowTheRuns /\ LevelsReachTheEnds
=============================================================================
