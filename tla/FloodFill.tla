------------------------------ MODULE FloodFill ------------------------------
(***************************************************************************)
(* The connected areas of an image (imgproc.cpp): floodfill() recolours    *)
(* them one after the other and erases the small ones, find_rects() takes  *)
(* the rectangle around each. Both scan the image and grow an area from    *)
(* the first pixel they meet with a stack of their own, which has room for *)
(* as many pixels as the image.                                            *)
(***************************************************************************)
EXTENDS Integers, Sequences, FiniteSets, FiniteSetsExt

CONSTANTS
    MASK_WIDTH, MASK_HEIGHT, \* of the images
    MASKS,          \* images for floodfill(): <<x, y>> -> 0 or COLOR
    SHADES,         \* images for find_rects(): <<x, y>> -> 0..START_COLOR
    MIN_SIZES,      \* sizes under which an area is erased
    GAPS            \* gaps allowed within an object

COLOR == 1          \* `background': the colour of the areas to fill
FILL_WITH == 2
RESULT_COLOR == 0   \* find_rects() paints the objects it has found with it
MIN_COLOR == 1
START_COLOR == 2

PIXELS == (0..MASK_WIDTH - 1) \X (0..MASK_HEIGHT - 1)

ASSUME FillAssumption ==
    /\ MASK_WIDTH \in Nat \ {0} /\ MASK_HEIGHT \in Nat \ {0}
    /\ \A mask \in MASKS : mask \in [PIXELS -> {0, COLOR}]
    /\ \A shade \in SHADES : shade \in [PIXELS -> 0..START_COLOR]
    /\ MIN_SIZES \subseteq Int /\ GAPS \subseteq Int

VARIABLES
    fill_pc,        \* "idle", "scan", "grow", "erase" or "done"
    algorithm,      \* "floodfill" or "find_rects"
    image,          \* the pixels
    before,         \* the image at the call (history)
    limit,          \* min_cont_size, or allowed_gap
    at,             \* index of the pixel the scan is at
    stack,          \* of pixels
    grown,          \* pixels of the area so far
    rects           \* find_rects(): the corners of each area found

fillVars == <<fill_pc, algorithm, image, before, limit, at, stack, grown, rects>>

NO_IMAGE == [p \in PIXELS |-> 0]

FillInit ==
    /\ fill_pc = "idle" /\ algorithm = "floodfill"
    /\ image = NO_IMAGE /\ before = NO_IMAGE
    /\ limit = 0 /\ at = 0 /\ stack = <<>> /\ grown = {} /\ rects = <<>>

-----------------------------------------------------------------------------
Pixel(index) == <<index % MASK_WIDTH, index \div MASK_WIDTH>>

(* The offsets of the neighbours that are looked at: the eight around a pixel, *)
(* one after the other, or all within the gap, column by column.              *)
Around == <<<<-1, 0>>, <<-1, -1>>, <<0, -1>>, <<1, -1>>, <<1, 0>>, <<1, 1>>, <<0, 1>>, <<-1, 1>>>>

Offsets ==
    IF algorithm = "floodfill" THEN {Around[i] : i \in DOMAIN Around}
                               ELSE (-limit..limit) \X (-limit..limit)

NotAfter(o, u) ==
    IF algorithm = "floodfill"
    THEN \E i, j \in DOMAIN Around : i <= j /\ Around[i] = o /\ Around[j] = u
    ELSE o[1] < u[1] \/ (o[1] = u[1] /\ o[2] <= u[2])

Offset(p, q) == <<q[1] - p[1], q[2] - p[2]>>

(* Bug: the pixels on the right border do not belong to the image. *)
MutantJoins(q) ==
    q[1] < MASK_WIDTH - 1 /\ (IF algorithm = "floodfill"
    THEN image[q] = (IF fill_pc = "erase" THEN FILL_WITH ELSE COLOR)
    ELSE image[q] >= MIN_COLOR)

(* Which pixels the area that is grown takes in. *)
Joins(q) ==
    IF algorithm = "floodfill"
    THEN image[q] = (IF fill_pc = "erase" THEN FILL_WITH ELSE COLOR)
    ELSE image[q] >= MIN_COLOR

Paint ==
    IF algorithm = "find_rects" THEN RESULT_COLOR
    ELSE IF fill_pc = "erase" THEN 0 ELSE FILL_WITH

(* The neighbours of p inside the image that join, in the order of their turn. *)
Joining(p) == {q \in PIXELS : Offset(p, q) \in Offsets /\ Joins(q)}

InTurn(p) ==
    LET turn == [q \in Joining(p) |->
                    Cardinality({r \in Joining(p) : NotAfter(Offset(p, r), Offset(p, q))})]
    IN  [i \in 1..Cardinality(Joining(p)) |-> CHOOSE q \in Joining(p) : turn[q] = i]

-----------------------------------------------------------------------------
Start(how, picture, bound) ==
    /\ fill_pc = "idle"
    /\ fill_pc' = "scan" /\ algorithm' = how
    /\ image' = picture /\ before' = picture
    /\ limit' = bound
    /\ at' = 0 /\ stack' = <<>> /\ grown' = {} /\ rects' = <<>>

Starts(p) ==
    IF algorithm = "floodfill" THEN image[p] # 0 /\ image[p] # FILL_WITH
                               ELSE image[p] >= START_COLOR

(* The scan goes on to the next pixel an area can start from. *)
Scan ==
    /\ fill_pc = "scan"
    /\ LET starts == {i \in at..MASK_WIDTH * MASK_HEIGHT - 1 : Starts(Pixel(i))}
       IN  IF starts = {}
           THEN fill_pc' = "done" /\ UNCHANGED <<image, at, stack, grown>>
           ELSE /\ at' = Min(starts)
                /\ fill_pc' = "grow"
                /\ image' = [image EXCEPT ![Pixel(at')] =
                                IF algorithm = "floodfill" THEN FILL_WITH ELSE RESULT_COLOR]
                /\ stack' = <<Pixel(at')>>
                /\ grown' = {Pixel(at')}
    /\ UNCHANGED <<algorithm, before, limit, rects>>

(* A pixel is taken off the stack; its neighbours that join are painted at     *)
(* once, so that none is pushed twice.                                        *)
Grow ==
    /\ fill_pc \in {"grow", "erase"} /\ stack # <<>>
    /\ LET p == stack[Len(stack)]
       IN  /\ image' = [q \in PIXELS |-> IF q \in Joining(p) THEN Paint ELSE image[q]]
           /\ stack' = SubSeq(stack, 1, Len(stack) - 1) \o InTurn(p)
           /\ grown' = grown \cup Joining(p)
    /\ UNCHANGED <<fill_pc, algorithm, before, limit, at, rects>>

(* floodfill(): an area that is too small is filled once more, with zero. *)
EraseSmall ==
    /\ algorithm = "floodfill" /\ fill_pc = "grow" /\ stack = <<>>
    /\ Cardinality(grown) < limit
    /\ fill_pc' = "erase"
    /\ image' = [image EXCEPT ![Pixel(at)] = 0]
    /\ stack' = <<Pixel(at)>>
    /\ grown' = {Pixel(at)}
    /\ UNCHANGED <<algorithm, before, limit, at, rects>>

(* find_bounding_rect(): the two corners; the size is their difference. *)
Corners(area) ==
    [left |-> Min({p[1] : p \in area}), top |-> Min({p[2] : p \in area}),
     width |-> Max({p[1] : p \in area}) - Min({p[1] : p \in area}),
     height |-> Max({p[2] : p \in area}) - Min({p[2] : p \in area})]

(* The area is done. A rectangle is kept when a side of it is above the limit  *)
(* for objects (0 here); the largest of them, which is returned, is left out.  *)
Finish ==
    /\ fill_pc \in {"grow", "erase"} /\ stack = <<>>
    /\ (algorithm = "floodfill" /\ fill_pc = "grow") => Cardinality(grown) >= limit
    /\ fill_pc' = "scan"
    /\ LET rect == Corners(grown)
           kept == algorithm = "find_rects" /\ (rect.width > 0 \/ rect.height > 0)
       IN  rects' = IF kept THEN Append(rects, rect) ELSE rects
    /\ grown' = {}
    /\ UNCHANGED <<algorithm, image, before, limit, at, stack>>

ReturnImage ==
    /\ fill_pc = "done"
    /\ fill_pc' = "idle" /\ algorithm' = "floodfill"
    /\ image' = NO_IMAGE /\ before' = NO_IMAGE
    /\ limit' = 0 /\ at' = 0 /\ rects' = <<>>
    /\ UNCHANGED <<stack, grown>>

FillNext ==
    \/ \E mask \in MASKS, size \in MIN_SIZES : Start("floodfill", mask, size)
    \/ \E shade \in SHADES, gap \in GAPS : Start("find_rects", shade, gap)
    \/ Scan \/ Grow \/ EraseSmall \/ Finish \/ ReturnImage

FillSpec == FillInit /\ [][FillNext]_fillVars

-----------------------------------------------------------------------------
(* The area of p: the least set of pixels of the areas that has p and, with a  *)
(* pixel, those at most d beside it to each side.                              *)
Near(p, q, d) ==
    p[1] - q[1] \in -d..d /\ p[2] - q[2] \in -d..d

Closed(inside, d) ==
    {part \in SUBSET inside : \A p \in part, q \in inside : Near(p, q, d) => q \in part}

Area(p, closed) == {q \in PIXELS : \A part \in closed : p \in part => q \in part}

(* At the end of floodfill() an area has one colour: erased when it has fewer  *)
(* pixels than asked for, filled otherwise; nothing else has changed.          *)
AreasAreFilled ==
    (fill_pc = "done" /\ algorithm = "floodfill") =>
        LET inside == {p \in PIXELS : before[p] = COLOR}
            closed == Closed(inside, 1)
        IN  \A p \in PIXELS :
                image[p] = IF p \notin inside \/ Cardinality(Area(p, closed)) < limit
                           THEN 0 ELSE FILL_WITH

(* At the end of find_rects() the areas with a pixel of the start colour, no   *)
(* other, are painted over, and each that is more than a point gave the one    *)
(* rectangle between its corners.                                              *)
RectsEncloseObjects ==
    (fill_pc = "done" /\ algorithm = "find_rects") =>
        LET inside == {p \in PIXELS : before[p] >= MIN_COLOR}
            closed == Closed(inside, limit)
            objects == {Area(p, closed) : p \in {q \in PIXELS : before[q] >= START_COLOR}}
            large == {object \in objects : Cardinality(object) > 1}
        IN  /\ \A p \in PIXELS :
                  image[p] = IF p \in UNION objects THEN RESULT_COLOR ELSE before[p]
            /\ {rects[i] : i \in DOMAIN rects} = {Corners(object) : object \in large}
            /\ Len(rects) = Cardinality(large)

(* The stack has room for what is pushed, although its pixels may come from    *)
(* several places of the area; and both algorithms do what they are asked for. *)
AreasAreFound ==
    Len(stack) <= MASK_WIDTH * MASK_HEIGHT /\ AreasAreFilled /\ RectsEncloseObjects
=============================================================================
