------------------------------- MODULE Kernels -------------------------------
(***************************************************************************)
(* The kernels of imgproc.cpp and filter.cpp that walk over an image with  *)
(* pointers: which elements each step reads and writes. Pointers are       *)
(* offsets into a matrix, row after row, and a step is one turn of the     *)
(* inner loop. What is computed from the elements read is left out.        *)
(***************************************************************************)
EXTENDS Integers, FiniteSets

CONSTANTS
    IMAGE_SIZES,    \* <<rows, columns>> of the images
    CH,             \* channels of the image of gradient() and flatten()
    KSIZE,          \* window of hog_kernel() (5 in the code)
    HALF,           \* half of the window of convolution() and filter_median()
    BINS,           \* bins of the histograms
    DST_CH          \* channels of the matrix that holds them

ASSUME KernelAssumption ==
    /\ IMAGE_SIZES \subseteq (Nat \X Nat)
    /\ CH \in Nat \ {0} /\ KSIZE \in Nat \ {0} /\ HALF \in Nat
    /\ BINS \in Nat \ {0} /\ DST_CH \in Nat
    /\ BINS + 1 <= DST_CH     \* quantize() asserts it, quantize_soft() less

KERNELS == {"sobel_v2", "gradient", "gradient2", "flatten", "convolution",
            "quantize", "hog_classic", "hog_kernel"}

VARIABLES
    kernel,         \* the one that runs, or "none"
    rows, cols,
    row, col,       \* the loop variables
    src, dst,       \* the pointers
    reads, writes   \* the elements the last step has used (history)

kernelVars == <<kernel, rows, cols, row, col, src, dst, reads, writes>>

KernelInit ==
    /\ kernel = "none"
    /\ rows = 0 /\ cols = 0 /\ row = 0 /\ col = 0 /\ src = 0 /\ dst = 0
    /\ reads = {} /\ writes = {}

-----------------------------------------------------------------------------
(* The loops. gradient2() runs over the columns outside, the rows inside.     *)
Border(k) == IF k \in {"sobel_v2", "gradient2", "hog_classic"} THEN 1 ELSE 0

LastRow(k, r) == IF k = "hog_kernel" THEN r - KSIZE - 1 ELSE r - 1 - Border(k)
LastCol(k, c) == IF k = "hog_kernel" THEN c - KSIZE - 1 ELSE c - 1 - Border(k)

(* sobel_v2(): the pointers are set anew for each row, behind its first pixel, *)
(* and move with every channel.                                               *)
SobelReads == {src + ch + d : ch \in 0..2, d \in {-3, 3, -3 * cols, 3 * cols}}
SobelWrites == {dst + ch : ch \in 0..2}

(* gradient(): all pixels in one go; the channel with the largest magnitude.  *)
GradientReads == {src + ch : ch \in 0..CH - 1}

(* gradient2(): the eight neighbours by their index; the target pointer starts *)
(* over with every column and moves with every row: it is not the pixel's.     *)
Gradient2Addr == {1, cols + 1, cols, cols - 1, -1, -cols - 1, -cols, -cols + 1}
Gradient2Reads == {cols * row + col + a : a \in Gradient2Addr}

(* flatten(): the pointers are those of the row. *)
FlattenReads == {src + col * CH + ch : ch \in 0..CH - 1}

(* convolution() and filter_median(): a window of the image with its border.  *)
Expanded == cols + 2 * HALF
ConvolutionReads ==
    {(row + y) * Expanded + col + x : x \in 0..2 * HALF, y \in 0..2 * HALF}

(* quantize(), quantize_soft_32f(), quantize_soft_8u(): the weight and BINS    *)
(* bins of one pixel are cleared and set.                                     *)
QuantizeWrites == {dst + b : b \in 0..BINS}

(* hog_classic(), the normalisation: a cell and its eight neighbours, four by *)
(* four, around the pointers that skip the cells of the border. The numbers of *)
(* elements are those of a normaliser, one to a cell; the code starts its     *)
(* pointer in cn, the histograms, and never reads the normalisers it computed *)
(* in ca: which matrix the elements are taken from is not modelled.           *)
HogClassicReads ==
    {src + d : d \in {0, 1, cols, cols + 1, -cols, -cols + 1, -1, cols - 1, -cols - 1}}
HogClassicWrites == {dst + b : b \in 0..3 * BINS + 3}

(* hog_kernel(): the window at the pointers, which no row's end moves on. *)
HogKernelReads == {src + y * cols + x : x \in 0..KSIZE - 1, y \in 0..KSIZE - 1}
HogKernelWrites == {dst + b : b \in 0..BINS - 1}

Reads ==
    CASE kernel = "sobel_v2" -> SobelReads
      [] kernel = "gradient" -> GradientReads
      [] kernel = "gradient2" -> Gradient2Reads
      [] kernel = "flatten" -> FlattenReads
      [] kernel = "convolution" -> ConvolutionReads
      [] kernel = "quantize" -> {src}
      [] kernel = "hog_classic" -> HogClassicReads
      [] kernel = "hog_kernel" -> HogKernelReads

Writes ==
    CASE kernel = "sobel_v2" -> SobelWrites
      [] kernel \in {"gradient", "gradient2"} -> {dst}
      [] kernel = "flatten" -> {dst + col}
      [] kernel = "convolution" -> {row * cols + col}
      [] kernel = "quantize" -> QuantizeWrites
      [] kernel = "hog_classic" -> HogClassicWrites
      [] kernel = "hog_kernel" -> HogKernelWrites

(* How a turn of the inner loop moves the pointers. *)
SrcStep == CASE kernel = "sobel_v2" -> 3 [] kernel = "gradient" -> CH
             [] kernel \in {"quantize", "hog_classic", "hog_kernel"} -> 1 [] OTHER -> 0
DstStep == CASE kernel = "sobel_v2" -> 3 [] kernel \in {"gradient", "gradient2"} -> 1
             [] kernel \in {"quantize", "hog_kernel"} -> DST_CH
             [] kernel = "hog_classic" -> 3 * BINS + 4 [] OTHER -> 0

(* Where they are at the start of row r, having come to s (the source) and d   *)
(* (the target) at the end of the row before; the first row starts at 0.       *)
SrcAtRow(k, c, r, s) ==
    CASE k = "sobel_v2" -> r * 3 * c + 3
      [] k = "flatten" -> r * c * CH
      [] k = "hog_classic" -> IF r = 1 THEN c + 1 ELSE s + 2
      [] OTHER -> s

(* Bug: the cells of the right border are not skipped. *)
MutantDstAtRow(k, c, r, d) ==
    CASE k = "sobel_v2" -> r * 3 * c + 3
      [] k = "flatten" -> r * c
      [] k = "hog_classic" -> IF r = 1 THEN (c + 1) * (3 * BINS + 4) ELSE d + 3 * BINS + 4
      [] OTHER -> d

DstAtRow(k, c, r, d) ==
    CASE k = "sobel_v2" -> r * 3 * c + 3
      [] k = "flatten" -> r * c
      [] k = "hog_classic" -> IF r = 1 THEN (c + 1) * (3 * BINS + 4)
                                       ELSE d + 2 * (3 * BINS + 4)
      [] OTHER -> d

-----------------------------------------------------------------------------
(* A call; an image too small for the loops is left at once. *)
CallKernel(k, size) ==
    /\ kernel = "none"
    /\ Border(k) <= LastRow(k, size[1]) /\ Border(k) <= LastCol(k, size[2])
    /\ kernel' = k
    /\ rows' = size[1] /\ cols' = size[2]
    /\ row' = Border(k) /\ col' = Border(k)
    /\ src' = SrcAtRow(k, size[2], Border(k), 0)
    /\ dst' = DstAtRow(k, size[2], Border(k), 0)
    /\ reads' = {} /\ writes' = {}

(* One turn of the inner loop, and of the outer one at its end. *)
Turn ==
    /\ kernel \notin {"none", "gradient2"}
    /\ row <= LastRow(kernel, rows)
    /\ reads' = Reads /\ writes' = Writes
    /\ LET s == src + SrcStep
           d == dst + DstStep
       IN  IF col < LastCol(kernel, cols)
           THEN col' = col + 1 /\ src' = s /\ dst' = d /\ UNCHANGED row
           ELSE /\ row' = row + 1 /\ col' = Border(kernel)
                /\ src' = SrcAtRow(kernel, cols, row', s)
                /\ dst' = DstAtRow(kernel, cols, row', d)
    /\ UNCHANGED <<kernel, rows, cols>>

TurnGradient2 ==
    /\ kernel = "gradient2"
    /\ col <= LastCol(kernel, cols)
    /\ reads' = Reads /\ writes' = Writes
    /\ IF row < LastRow(kernel, rows)
       THEN row' = row + 1 /\ dst' = dst + DstStep /\ UNCHANGED col
       ELSE row' = Border(kernel) /\ col' = col + 1 /\ dst' = 0
    /\ UNCHANGED <<kernel, rows, cols, src>>

(* The image is done. *)
Return ==
    /\ kernel # "none"
    /\ IF kernel = "gradient2" THEN col > LastCol(kernel, cols)
                               ELSE row > LastRow(kernel, rows)
    /\ kernel' = "none"
    /\ rows' = 0 /\ cols' = 0 /\ row' = 0 /\ col' = 0 /\ src' = 0 /\ dst' = 0
    /\ reads' = {} /\ writes' = {}

KernelNext ==
    \/ \E k \in KERNELS, size \in IMAGE_SIZES : CallKernel(k, size)
    \/ Turn \/ TurnGradient2 \/ Return

KernelSpec == KernelInit /\ [][KernelNext]_kernelVars

-----------------------------------------------------------------------------
(* The pixel or cell at the loop variables. *)
Here == row * cols + col

(* The pointers of a kernel that moves them are those of the pixel the loops   *)
(* are at, and remain so from row to row. (Those of gradient2() and            *)
(* hog_kernel() are not: their results lie beside the pixel they belong to;    *)
(* hog_classic()'s number the right cell, in the matrix of another quantity.)  *)
PointersFollowLoops ==
    /\ kernel = "sobel_v2" => src = 3 * Here /\ dst = 3 * Here
    /\ kernel = "gradient" => src = CH * Here /\ dst = Here
    /\ kernel = "flatten" => src + col * CH = CH * Here /\ dst + col = Here
    /\ kernel = "quantize" => src = Here /\ dst = DST_CH * Here
    /\ kernel = "hog_classic" => src = Here /\ dst = (3 * BINS + 4) * Here

(* How many elements the matrices have. *)
SourceSize ==
    CASE kernel = "sobel_v2" -> 3 * rows * cols
      [] kernel \in {"gradient", "flatten"} -> CH * rows * cols
      [] kernel = "convolution" -> (rows + 2 * HALF) * Expanded
      [] OTHER -> rows * cols
TargetSize ==
    CASE kernel = "sobel_v2" -> 3 * rows * cols
      [] kernel \in {"quantize", "hog_kernel"} -> DST_CH * rows * cols
      [] kernel = "hog_classic" -> (3 * BINS + 4) * rows * cols
      [] OTHER -> rows * cols

(* No step of any kernel leaves the matrix it reads or the one it writes. *)
StepsStayInside ==
    kernel # "none" =>
        reads \subseteq 0..SourceSize - 1 /\ writes \subseteq 0..TargetSize - 1

(* Every result belongs to the pixel it is computed from, up to the borders    *)
(* of images of every size the loops run on, and nothing beside them is read   *)
(* or written.                                                                 *)
WindowsAreRight == PointersFollowLoops /\ StepsStayInside
=============================================================================
