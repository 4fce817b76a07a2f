--------------------------- MODULE ImgprocProofs ----------------------------
(***************************************************************************)
(* Theorems about the image processing: the caches of derived images, the  *)
(* loops of the filters, the areas that are filled, the SSE integral image,*)
(* the histograms behind the contrast filters.                             *)
(***************************************************************************)
EXTENDS ImageCaches, Kernels, SseIntegral, FloodFill, Contrast, Lemmas,
        SequenceTheorems, FiniteSetTheorems

-----------------------------------------------------------------------------
(*                               Image caches                              *)

Entries == [ready: BOOLEAN, from: SUBSET Nat]

(* What a size that the last invalidate() has reached, or that got its image  *)
(* since, holds: of the frame being processed what was put in and what was    *)
(* derived from it, of earlier frames nothing that is ready.                  *)
OfFrame(s, n) == images[s][n].from = {frame}

FreshSize(s) ==
    /\ put_in[s] = "none" => \A n \in DOMAIN images[s] : ~images[s][n].ready
    /\ put_in[s] = "gray" => Ready(s, "gray_8u") /\ OfFrame(s, "gray_8u")
    /\ put_in[s] = "rgb" => /\ Ready(s, "rgb_8u") /\ OfFrame(s, "rgb_8u")
                            /\ Ready(s, "gray_8u") => OfFrame(s, "gray_8u")
    /\ put_in[s] = "yuv" =>
            /\ Ready(s, "gray_8u")
            /\ \A n \in Given.yuv : n \in DOMAIN images[s] /\ OfFrame(s, n)
            /\ Ready(s, "rgb_8u") => OfFrame(s, "rgb_8u")

ImagesTypeOK ==
    /\ owned \in SUBSET SIZES /\ frame \in Nat
    /\ put_in \in [SIZES -> {"none", "gray", "rgb", "yuv"}]
    /\ images = [s \in SIZES |-> images[s]]
    /\ \A s \in SIZES : images[s] \in [DOMAIN images[s] -> Entries]

FreshInv ==
    /\ \A s \in SIZES \ owned : DOMAIN images[s] = {} /\ put_in[s] = "none"
    /\ \A s \in owned \ skipped : FreshSize(s)

ReturnedInv ==
    returned # <<>> => /\ returned = <<returned[1], returned[2], returned[3]>>
                       /\ ImagesAreCurrent

ImagesIInv == ImagesTypeOK /\ FreshInv /\ ReturnedInv

-----------------------------------------------------------------------------
(* An empty cache has no image to be out of date. *)
LEMMA ImagesStart == ImagesInit => ImagesIInv
BY DEF ImagesInit, ImagesIInv, ImagesTypeOK, FreshInv, ReturnedInv, FreshSize, Entries

(* Marking all images of a size as not ready changes nothing else. *)
LEMMA NotReadyEntries ==
  ASSUME NEW set, set \in [DOMAIN set -> Entries]
  PROVE  /\ DOMAIN NotReady(set) = DOMAIN set
         /\ \A n \in DOMAIN set : NotReady(set)[n] = [ready |-> FALSE, from |-> set[n].from]
         /\ NotReady(set) \in [DOMAIN set -> Entries]
<1>1. \A e \in Entries : [ready |-> FALSE, from |-> e.from] \in Entries
  BY DEF Entries
<1>2. \A n \in DOMAIN set : set[n] \in Entries
  OBVIOUS
<1>3. NotReady(set) = [n \in DOMAIN set |-> [ready |-> FALSE, from |-> set[n].from]]
  BY DEF NotReady
<1>4. QED
  BY <1>1, <1>2, <1>3

(* A size is added with no image ready. *)
LEMMA ScaleFindStep ==
  ASSUME ImagesIInv, NEW s \in SIZES, ScaleFind(s)
  PROVE  ImagesIInv'
<1>1. /\ UNCHANGED <<images, put_in, frame, skipped, returned>> /\ owned' = owned \cup {s}
  BY DEF ScaleFind
<1>2. ImagesTypeOK' /\ ReturnedInv'
  BY <1>1 DEF ImagesIInv, ImagesTypeOK, ReturnedInv, ImagesAreCurrent
<1>3. \A r \in SIZES : FreshSize(r) <=> FreshSize(r)'
  BY <1>1 DEF FreshSize, Ready, OfFrame
<1>4. s \notin owned => FreshSize(s)
  BY DEF ImagesIInv, FreshInv, FreshSize
<1>5. FreshInv'
  BY <1>1, <1>3, <1>4 DEF ImagesIInv, FreshInv, ImagesTypeOK
<1>6. QED
  BY <1>2, <1>5 DEF ImagesIInv

(* A size that is released has no image left. *)
LEMMA ReleaseStep ==
  ASSUME ImagesIInv, NEW s \in SIZES, Release(s)
  PROVE  ImagesIInv'
<1>1. /\ \A r \in SIZES \ {s} : images'[r] = images[r] /\ put_in'[r] = put_in[r]
      /\ images'[s] = <<>> /\ put_in'[s] = "none" /\ returned' = <<>>
      /\ images' = [r \in SIZES |-> images'[r]] /\ put_in' \in [SIZES -> {"none", "gray", "rgb", "yuv"}]
      /\ owned' = owned \ {s} /\ frame' = frame /\ skipped' = skipped
  BY DEF Release, ImagesIInv, ImagesTypeOK
<1>2. ImagesTypeOK'
  <2>1. images'[s] \in [DOMAIN images'[s] -> Entries]
    BY <1>1
  <2>2. QED
    BY <1>1, <2>1 DEF ImagesIInv, ImagesTypeOK
<1>3. \A r \in SIZES \ {s} : FreshSize(r) <=> FreshSize(r)'
  BY <1>1 DEF FreshSize, Ready, OfFrame
<1>4. FreshInv'
  BY <1>1, <1>3 DEF ImagesIInv, FreshInv, ImagesTypeOK
<1>5. QED
  BY <1>1, <1>2, <1>4 DEF ImagesIInv, ReturnedInv

(* The next frame makes every image of every size not ready. *)
LEMMA ProcessStep ==
  ASSUME ImagesIInv, Process
  PROVE  ImagesIInv'
<1> DEFINE reached == Walk[scales, 1, {}].reached
<1>1. /\ \A s \in SIZES : images'[s] = IF s \in reached THEN NotReady(images[s]) ELSE images[s]
      /\ \A s \in SIZES : put_in'[s] = "none"
      /\ images' = [s \in SIZES |-> images'[s]] /\ put_in' \in [SIZES -> {"none", "gray", "rgb", "yuv"}]
      /\ skipped' = owned \ reached /\ owned' = owned /\ frame' = frame + 1 /\ returned' = <<>>
  BY DEF Process
<1> HIDE DEF reached
<1>2. \A s \in SIZES : /\ DOMAIN NotReady(images[s]) = DOMAIN images[s]
                       /\ NotReady(images[s]) \in [DOMAIN images[s] -> Entries]
                       /\ \A n \in DOMAIN images[s] : ~NotReady(images[s])[n].ready
  <2> TAKE s \in SIZES
  <2> DEFINE set == images[s]
  <2>1. set \in [DOMAIN set -> Entries]
    BY DEF ImagesIInv, ImagesTypeOK
  <2> HIDE DEF set
  <2>2. /\ DOMAIN NotReady(set) = DOMAIN set
        /\ \A n \in DOMAIN set : NotReady(set)[n] = [ready |-> FALSE, from |-> set[n].from]
        /\ NotReady(set) \in [DOMAIN set -> Entries]
    BY <2>1, NotReadyEntries
  <2>3. \A n \in DOMAIN set : ~NotReady(set)[n].ready
    BY <2>2
  <2>4. QED
    BY <2>2, <2>3 DEF set
<1>3. ImagesTypeOK'
  BY <1>1, <1>2 DEF ImagesIInv, ImagesTypeOK
<1>4. FreshInv'
  BY <1>1, <1>2 DEF ImagesIInv, ImagesTypeOK, FreshInv, FreshSize
<1>5. QED
  BY <1>1, <1>3, <1>4 DEF ImagesIInv, ReturnedInv

(* What the owner puts in is of the frame; of the rest no image is ready. *)
LEMMA SetImageStep ==
  ASSUME ImagesIInv, NEW s \in SIZES, NEW kind \in DOMAIN Given, SetImage(s, kind)
  PROVE  ImagesIInv'
<1> DEFINE new == Updated(images[s], Given[kind])
<1>1. /\ \A r \in SIZES \ {s} : images'[r] = images[r] /\ put_in'[r] = put_in[r]
      /\ images'[s] = new /\ put_in'[s] = kind /\ returned' = <<>>
      /\ images' = [r \in SIZES |-> images'[r]]
      /\ owned' = owned /\ frame' = frame /\ skipped' = skipped \ {s} /\ s \in owned
  BY DEF SetImage, ImagesIInv, ImagesTypeOK
<1>2. kind \in {"gray", "rgb", "yuv"} /\ put_in' \in [SIZES -> {"none", "gray", "rgb", "yuv"}]
  BY DEF SetImage, ImagesIInv, ImagesTypeOK, Given
<1>3. /\ new \in [DOMAIN new -> Entries]
      /\ DOMAIN new = DOMAIN images[s] \cup Given[kind]
      /\ \A n \in Given[kind] : new[n].ready /\ new[n].from = {frame}
      /\ \A n \in DOMAIN images[s] \ Given[kind] : ~new[n].ready
  <2>1. DOMAIN new = DOMAIN images[s] \cup Given[kind]
    BY DEF Updated
  <2>2. \A n \in DOMAIN new : new[n] = IF n \in Given[kind] THEN [ready |-> TRUE, from |-> {frame}]
                                                          ELSE NotReady(images[s])[n]
    BY DEF Updated
  <2>3. \A n \in DOMAIN images[s] : /\ NotReady(images[s])[n] \in Entries
                                     /\ NotReady(images[s])[n].ready = FALSE
    <3> DEFINE set == images[s]
    <3>1. set \in [DOMAIN set -> Entries]
      BY DEF ImagesIInv, ImagesTypeOK
    <3> HIDE DEF set
    <3>2. /\ \A n \in DOMAIN set : NotReady(set)[n] = [ready |-> FALSE, from |-> set[n].from]
          /\ NotReady(set) \in [DOMAIN set -> Entries]
      BY <3>1, NotReadyEntries
    <3>3. \A n \in DOMAIN set : /\ NotReady(set)[n] \in Entries
                                /\ NotReady(set)[n].ready = FALSE
      BY <3>2
    <3>4. QED
      BY <3>3 DEF set
  <2>4. [ready |-> TRUE, from |-> {frame}] \in Entries
    BY DEF Entries, ImagesIInv, ImagesTypeOK
  <2>5. new = [n \in DOMAIN new |-> new[n]]
    BY DEF Updated
  <2> HIDE DEF new
  <2>6. \A n \in DOMAIN new : new[n] \in Entries
    BY <2>1, <2>2, <2>3, <2>4
  <2>7. QED
    BY <2>1, <2>2, <2>3, <2>5, <2>6
<1> HIDE DEF new
<1>4. ImagesTypeOK'
  BY <1>1, <1>2, <1>3 DEF ImagesIInv, ImagesTypeOK
<1>5. \A r \in SIZES \ {s} : FreshSize(r) <=> FreshSize(r)'
  BY <1>1 DEF FreshSize, Ready, OfFrame
<1>6. FreshSize(s)'
  BY <1>1, <1>2, <1>3 DEF FreshSize, Ready, OfFrame, Given
<1>7. FreshInv'
  BY <1>1, <1>5, <1>6 DEF ImagesIInv, FreshInv, ImagesTypeOK
<1>8. QED
  BY <1>1, <1>4, <1>7 DEF ImagesIInv, ReturnedInv

(* What deriving an image changes. *)
LEMMA DeriveChanges ==
  ASSUME ImagesIInv, NEW s \in owned, NEW n, NEW from \in SUBSET Nat, Derive(s, n, from),
         UNCHANGED <<owned, put_in, frame, skipped>>
  PROVE  /\ ImagesTypeOK'
         /\ DOMAIN images'[s] = DOMAIN images[s] \cup {n}
         /\ images'[s][n] = [ready |-> TRUE, from |-> from]
         /\ \A m \in DOMAIN images[s] \ {n} : images'[s][m] = images[s][m]
         /\ \A r \in SIZES \ {s} : images'[r] = images[r] /\ (FreshSize(r) <=> FreshSize(r)')
         /\ returned' = <<s, n, from>>
<1>1. s \in SIZES
  BY DEF ImagesIInv, ImagesTypeOK
<1>2. /\ DOMAIN images'[s] = DOMAIN images[s] \cup {n}
      /\ images'[s][n] = [ready |-> TRUE, from |-> from]
      /\ \A m \in DOMAIN images[s] \ {n} : images'[s][m] = images[s][m]
      /\ \A r \in SIZES \ {s} : images'[r] = images[r]
      /\ images'[s] = [m \in DOMAIN images[s] \cup {n} |-> images'[s][m]]
      /\ images' = [r \in SIZES |-> images'[r]]
      /\ returned' = <<s, n, from>>
  BY <1>1 DEF Derive, ImagesIInv, ImagesTypeOK
<1>3. images'[s] \in [DOMAIN images'[s] -> Entries]
  <2>1. \A m \in DOMAIN images'[s] : images'[s][m] \in Entries
    <3> TAKE m \in DOMAIN images'[s]
    <3>1. CASE m = n
      <4>1. [ready |-> TRUE, from |-> from] \in Entries
        BY DEF Entries
      <4>2. QED
        BY <1>2, <3>1, <4>1
    <3>2. CASE m # n
      BY <1>1, <1>2, <3>2 DEF ImagesIInv, ImagesTypeOK
    <3>3. QED
      BY <3>1, <3>2
  <2>2. QED
    BY <1>2, <2>1
<1>4. ImagesTypeOK'
  BY <1>1, <1>2, <1>3 DEF ImagesIInv, ImagesTypeOK
<1>5. \A r \in SIZES \ {s} : FreshSize(r) <=> FreshSize(r)'
  BY <1>2 DEF FreshSize, Ready, OfFrame
<1>6. QED
  BY <1>2, <1>4, <1>5

(* An image is returned only when it is ready. *)
LEMMA ShowStep ==
  ASSUME ImagesIInv, NEW s \in owned, NEW n \in {"gray_8u", "rgb_8u"}, ShowImage(s, n),
         UNCHANGED <<owned, put_in, frame, skipped>>
  PROVE  ImagesIInv'
<1>1. images' = images /\ returned' = IF Ready(s, n) THEN <<s, n, images[s][n].from>> ELSE <<>>
  BY DEF ShowImage
<1>2. \A r \in SIZES : FreshSize(r) <=> FreshSize(r)'
  BY <1>1 DEF FreshSize, Ready, OfFrame
<1>3. ImagesTypeOK' /\ FreshInv'
  BY <1>1, <1>2 DEF ImagesIInv, ImagesTypeOK, FreshInv
<1>4. ASSUME Ready(s, n), s \notin skipped
      PROVE  (n = "rgb_8u" /\ put_in[s] = "gray") \/ images[s][n].from = {frame}
  BY <1>4 DEF ImagesIInv, ImagesTypeOK, FreshInv, FreshSize, Ready, OfFrame, Given
<1>5. ReturnedInv'
  BY <1>1, <1>4 DEF ReturnedInv, ImagesAreCurrent
<1>6. QED
  BY <1>3, <1>5 DEF ImagesIInv

(* A grey image is computed from the colours when they are ready, ... *)
LEMMA GetGrayStep ==
  ASSUME ImagesIInv, NEW s \in SIZES, GetGray(s)
  PROVE  ImagesIInv'
<1>1. s \in owned /\ UNCHANGED <<owned, put_in, frame, skipped>>
  BY DEF GetGray
<1>2. CASE ~Ready(s, "gray_8u") /\ Ready(s, "rgb_8u")
  <2> DEFINE from == images[s]["rgb_8u"].from
  <2>1. Derive(s, "gray_8u", from) /\ from \in SUBSET Nat
    BY <1>2 DEF GetGray, Ready, ImagesIInv, ImagesTypeOK, Entries
  <2>2. s \notin skipped => put_in[s] = "rgb" /\ from = {frame}
    BY <1>1, <1>2 DEF ImagesIInv, ImagesTypeOK, FreshInv, FreshSize, Ready, OfFrame
  <2>3. s \notin skipped => FreshSize(s)
    BY <1>1 DEF ImagesIInv, FreshInv
  <2> HIDE DEF from
  <2>4. /\ ImagesTypeOK'
        /\ DOMAIN images'[s] = DOMAIN images[s] \cup {"gray_8u"}
        /\ images'[s]["gray_8u"] = [ready |-> TRUE, from |-> from]
        /\ \A m \in DOMAIN images[s] \ {"gray_8u"} : images'[s][m] = images[s][m]
        /\ \A r \in SIZES \ {s} : images'[r] = images[r] /\ (FreshSize(r) <=> FreshSize(r)')
        /\ returned' = <<s, "gray_8u", from>>
    BY <1>1, <2>1, DeriveChanges
  <2>5. s \notin skipped => FreshSize(s)'
    BY <1>1, <2>2, <2>3, <2>4 DEF FreshSize, Ready, OfFrame
  <2>6. FreshInv'
    BY <1>1, <2>4, <2>5 DEF ImagesIInv, ImagesTypeOK, FreshInv
  <2>7. ReturnedInv'
    BY <1>1, <2>2, <2>4 DEF ReturnedInv, ImagesAreCurrent
  <2>8. QED
    BY <2>4, <2>6, <2>7 DEF ImagesIInv
<1>3. CASE ~(~Ready(s, "gray_8u") /\ Ready(s, "rgb_8u"))
  BY <1>1, <1>3, ShowStep DEF GetGray
<1>4. QED
  BY <1>2, <1>3

(* ... a colour image from the planes when the first is ready. *)
LEMMA GetRgbStep ==
  ASSUME ImagesIInv, NEW s \in SIZES, GetRgb(s)
  PROVE  ImagesIInv'
<1> DEFINE derives == ~Ready(s, "rgb_8u") /\ Ready(s, "gray_8u") /\ Given.yuv \subseteq DOMAIN images[s]
<1>1. s \in owned /\ UNCHANGED <<owned, put_in, frame, skipped>>
  BY DEF GetRgb
<1>2. CASE derives
  <2> DEFINE from == UNION {images[s][n].from : n \in Given.yuv}
  <2>1. Derive(s, "rgb_8u", from)
    BY <1>2 DEF GetRgb
  <2>2. from \in SUBSET Nat
    BY <1>2 DEF ImagesIInv, ImagesTypeOK, Entries
  <2>3. s \notin skipped => put_in[s] \in {"gray", "yuv"}
    BY <1>1, <1>2 DEF ImagesIInv, ImagesTypeOK, FreshInv, FreshSize, Ready
  <2>4. s \notin skipped => FreshSize(s)
    BY <1>1 DEF ImagesIInv, FreshInv
  <2>5. s \notin skipped /\ put_in[s] = "yuv" => from = {frame}
    <3> SUFFICES ASSUME s \notin skipped, put_in[s] = "yuv"
                 PROVE  from = {frame}
      OBVIOUS
    <3>1. \A n \in Given.yuv : images[s][n].from = {frame}
      BY <2>4 DEF FreshSize, OfFrame
    <3>2. "gray_8u" \in Given.yuv
      BY DEF Given
    <3>3. QED
      BY <3>1, <3>2
  <2> HIDE DEF from
  <2>6. /\ ImagesTypeOK'
        /\ DOMAIN images'[s] = DOMAIN images[s] \cup {"rgb_8u"}
        /\ images'[s]["rgb_8u"] = [ready |-> TRUE, from |-> from]
        /\ \A m \in DOMAIN images[s] \ {"rgb_8u"} : images'[s][m] = images[s][m]
        /\ \A r \in SIZES \ {s} : images'[r] = images[r] /\ (FreshSize(r) <=> FreshSize(r)')
        /\ returned' = <<s, "rgb_8u", from>>
    BY <1>1, <2>1, <2>2, DeriveChanges
  <2>7. s \notin skipped => FreshSize(s)'
    BY <1>1, <2>3, <2>4, <2>5, <2>6 DEF FreshSize, Ready, OfFrame, Given
  <2>8. FreshInv'
    BY <1>1, <2>6, <2>7 DEF ImagesIInv, ImagesTypeOK, FreshInv
  <2>9. ReturnedInv'
    BY <1>1, <2>3, <2>5, <2>6 DEF ReturnedInv, ImagesAreCurrent
  <2>10. QED
    BY <2>6, <2>8, <2>9 DEF ImagesIInv
<1>3. CASE ~derives
  BY <1>1, <1>3, ShowStep DEF GetRgb
<1>4. QED
  BY <1>2, <1>3

(* Every step keeps the invariant. *)
LEMMA ImagesStep == ImagesIInv /\ [ImagesNext]_imageVars => ImagesIInv'
<1> SUFFICES ASSUME ImagesIInv, [ImagesNext]_imageVars
             PROVE  ImagesIInv'
  OBVIOUS
<1>1. CASE /\ UNCHANGED <<owned, images, put_in, frame, skipped>>
           /\ returned' \in {returned, <<>>}
  <2>1. \A s \in SIZES : FreshSize(s) <=> FreshSize(s)'
    BY <1>1 DEF FreshSize, Ready, OfFrame
  <2>2. QED
    BY <1>1, <2>1 DEF ImagesIInv, ImagesTypeOK, FreshInv, ReturnedInv, ImagesAreCurrent
<1>2. CASE UNCHANGED imageVars
  BY <1>1, <1>2 DEF imageVars
<1>3. CASE Process
  BY <1>3, ProcessStep
<1>4. ASSUME NEW s \in SIZES, ScaleFind(s)
      PROVE  ImagesIInv'
  BY <1>4, ScaleFindStep
<1>5. ASSUME NEW s \in SIZES, Release(s)
      PROVE  ImagesIInv'
  BY <1>5, ReleaseStep
<1>6. ASSUME NEW s \in SIZES, NEW kind \in DOMAIN Given, SetImage(s, kind)
      PROVE  ImagesIInv'
  BY <1>6, SetImageStep
<1>7. ASSUME NEW s \in SIZES, GetGray(s) \/ GetRgb(s)
      PROVE  ImagesIInv'
  BY <1>7, GetGrayStep, GetRgbStep
<1>8. ASSUME NEW s \in SIZES, GetNone(s)
      PROVE  ImagesIInv'
  BY <1>1, <1>8 DEF GetNone
<1>9. QED
  BY <1>2, <1>3, <1>4, <1>5, <1>6, <1>7, <1>8 DEF ImagesNext

(* An image got from a cache was computed from the frame that was put in last, *)
(* whichever way it was derived; unless invalidate() has passed its size over, *)
(* or colour is asked of a grey frame.                                         *)
THEOREM ReturnedImagesAreCurrent == ImagesSpec => []ImagesAreCurrent
<1>1. ImagesIInv => ImagesAreCurrent
  BY DEF ImagesIInv, ReturnedInv, ImagesAreCurrent
<1>2. QED
  BY <1>1, ImagesStart, ImagesStep, PTL DEF ImagesSpec

-----------------------------------------------------------------------------
(*                                 Kernels                                 *)

(* The loop variables stay in their loops, ... *)
LoopInv ==
    LET last_row == LastRow(kernel, rows)
        last_col == LastCol(kernel, cols)
    IN  /\ Border(kernel) <= last_row /\ Border(kernel) <= last_col
        /\ Border(kernel) <= row /\ Border(kernel) <= col
        /\ IF kernel = "gradient2" THEN row <= last_row /\ col <= last_col + 1
                                   ELSE row <= last_row + 1 /\ col <= last_col

(* ... and the pointers that are not those of the pixel have their own rule.  *)
StrayPointers ==
    /\ kernel = "gradient2" => dst = row - 1
    /\ kernel = "hog_kernel" => src = row * (cols - KSIZE) + col /\ dst = DST_CH * src

KernelTypeOK ==
    /\ kernel \in KERNELS \cup {"none"}
    /\ rows \in Int /\ cols \in Int /\ row \in Int /\ col \in Int /\ src \in Int /\ dst \in Int

KernelIInv ==
    /\ KernelTypeOK
    /\ kernel # "none" => LoopInv /\ PointersFollowLoops /\ StrayPointers
    /\ StepsStayInside

-----------------------------------------------------------------------------
(* The windows of sobel_v2() lie in the matrices, ... *)
LEMMA InsideSobel ==
  ASSUME KernelIInv, kernel = "sobel_v2", row <= LastRow(kernel, rows), col <= LastCol(kernel, cols)
  PROVE  Reads \subseteq 0 .. SourceSize - 1 /\ Writes \subseteq 0 .. TargetSize - 1
<1> USE KernelAssumption
<1>1. /\ row \in 1 .. rows - 2 /\ col \in 1 .. cols - 2 /\ rows \in Int /\ cols \in Int
      /\ src = 3 * (row * cols + col) /\ dst = 3 * (row * cols + col)
  BY DEF KernelIInv, KernelTypeOK, LoopInv, LastRow, LastCol, Border, PointersFollowLoops, Here
<1>2. /\ Reads = SobelReads /\ Writes = SobelWrites
      /\ SourceSize = 3 * rows * cols /\ TargetSize = 3 * rows * cols
  BY DEF Reads, Writes, SourceSize, TargetSize
<1>3. \A i, j \in {-1, 0, 1} : cols * (row + i) + (col + j) \in 0 .. cols * rows - 1
  BY <1>1, Flat
<1>4. \A p \in 0 .. cols * rows - 1, ch \in 0 .. 2 : 3 * p + ch \in 0 .. 3 * rows * cols - 1
  <2> TAKE p \in 0 .. cols * rows - 1, ch \in 0 .. 2
  <2>1. cols * rows \in Int /\ 3 * rows * cols = 3 * (cols * rows)
    BY <1>1
  <2>2. QED
    BY <2>1
<1>5. ASSUME NEW ch \in 0 .. 2
      PROVE  /\ \A d \in {-3, 3, -3 * cols, 3 * cols} : src + ch + d \in 0 .. 3 * rows * cols - 1
             /\ dst + ch \in 0 .. 3 * rows * cols - 1
  <2>1. \A i, j \in {-1, 0, 1} :
            3 * (cols * (row + i) + (col + j)) + ch \in 0 .. 3 * rows * cols - 1
    BY <1>3, <1>4
  <2>2. /\ src + ch - 3 = 3 * (cols * (row + 0) + (col + -1)) + ch
        /\ src + ch + 3 = 3 * (cols * (row + 0) + (col + 1)) + ch
        /\ src + ch + -3 * cols = 3 * (cols * (row + -1) + (col + 0)) + ch
        /\ src + ch + 3 * cols = 3 * (cols * (row + 1) + (col + 0)) + ch
        /\ dst + ch = 3 * (cols * (row + 0) + (col + 0)) + ch
    BY <1>1
  <2>3. /\ src + ch + -3 \in 0 .. 3 * rows * cols - 1
        /\ src + ch + 3 \in 0 .. 3 * rows * cols - 1
        /\ src + ch + -3 * cols \in 0 .. 3 * rows * cols - 1
        /\ src + ch + 3 * cols \in 0 .. 3 * rows * cols - 1
        /\ dst + ch \in 0 .. 3 * rows * cols - 1
    <3>1. src + ch - 3 = src + ch + -3
      BY <1>1
    <3>2. QED
      BY <2>1, <2>2, <3>1
  <2>4. QED
    BY <2>3
<1>6. QED
  BY <1>2, <1>5 DEF SobelReads, SobelWrites

(* ... those of gradient(), ... *)
LEMMA InsideGradient ==
  ASSUME KernelIInv, kernel = "gradient", row <= LastRow(kernel, rows), col <= LastCol(kernel, cols)
  PROVE  Reads \subseteq 0 .. SourceSize - 1 /\ Writes \subseteq 0 .. TargetSize - 1
<1> USE KernelAssumption
<1>1. /\ row \in 0 .. rows - 1 /\ col \in 0 .. cols - 1 /\ rows \in Int /\ cols \in Int
      /\ src = CH * (row * cols + col) /\ dst = row * cols + col
  BY DEF KernelIInv, KernelTypeOK, LoopInv, LastRow, LastCol, Border, PointersFollowLoops, Here
<1>2. /\ Reads = GradientReads /\ Writes = {dst}
      /\ SourceSize = CH * rows * cols /\ TargetSize = rows * cols
  BY DEF Reads, Writes, SourceSize, TargetSize
<1>3. cols * row + col \in 0 .. cols * rows - 1
  BY <1>1, Flat
<1>4. \A ch \in 0 .. CH - 1 : CH * (cols * row + col) + ch \in 0 .. CH * (cols * rows) - 1
  <2>1. cols * rows \in Int
    BY <1>1
  <2>2. QED
    BY <1>3, <2>1, Flat
<1>5. /\ CH * (cols * rows) = CH * rows * cols /\ cols * rows = rows * cols
      /\ CH * (cols * row + col) = src /\ cols * row + col = dst
  BY <1>1
<1>6. QED
  BY <1>2, <1>3, <1>4, <1>5 DEF GradientReads

(* ... of gradient2(), ... *)
LEMMA InsideGradient2 ==
  ASSUME KernelIInv, kernel = "gradient2", row <= LastRow(kernel, rows), col <= LastCol(kernel, cols)
  PROVE  Reads \subseteq 0 .. SourceSize - 1 /\ Writes \subseteq 0 .. TargetSize - 1
<1> USE KernelAssumption
<1>1. /\ row \in 1 .. rows - 2 /\ col \in 1 .. cols - 2 /\ rows \in Int /\ cols \in Int
      /\ dst = row - 1
  BY DEF KernelIInv, KernelTypeOK, LoopInv, LastRow, LastCol, Border, StrayPointers
<1>2. /\ Reads = Gradient2Reads /\ Writes = {dst}
      /\ SourceSize = rows * cols /\ TargetSize = rows * cols
  BY DEF Reads, Writes, SourceSize, TargetSize
<1>3. \A i, j \in {-1, 0, 1} : cols * (row + i) + (col + j) \in 0 .. rows * cols - 1
  <2>1. cols * rows = rows * cols
    BY <1>1
  <2>2. QED
    BY <1>1, <2>1, Flat
<1>4. Reads \subseteq 0 .. rows * cols - 1
  <2>1. ASSUME NEW a \in Gradient2Addr
        PROVE  \E i, j \in {-1, 0, 1} : cols * row + col + a = cols * (row + i) + (col + j)
    BY <1>1 DEF Gradient2Addr
  <2>2. QED
    BY <1>2, <1>3, <2>1 DEF Gradient2Reads
<1>5. dst \in 0 .. rows * cols - 1
  <2>1. cols * 0 + (row - 1) \in Int
    BY <1>1
  <2>2. rows * 0 + (row - 1) \in 0 .. rows * cols - 1
    BY <1>1, Flat
  <2>3. QED
    BY <1>1, <2>2
<1>6. QED
  BY <1>2, <1>4, <1>5

(* ... of flatten(), ... *)
LEMMA InsideFlatten ==
  ASSUME KernelIInv, kernel = "flatten", row <= LastRow(kernel, rows), col <= LastCol(kernel, cols)
  PROVE  Reads \subseteq 0 .. SourceSize - 1 /\ Writes \subseteq 0 .. TargetSize - 1
<1> USE KernelAssumption
<1>1. /\ row \in 0 .. rows - 1 /\ col \in 0 .. cols - 1 /\ rows \in Int /\ cols \in Int
      /\ src + col * CH = CH * (row * cols + col) /\ dst + col = row * cols + col
  BY DEF KernelIInv, KernelTypeOK, LoopInv, LastRow, LastCol, Border, PointersFollowLoops, Here
<1>2. /\ Reads = FlattenReads /\ Writes = {dst + col}
      /\ SourceSize = CH * rows * cols /\ TargetSize = rows * cols
  BY DEF Reads, Writes, SourceSize, TargetSize
<1>3. cols * row + col \in 0 .. cols * rows - 1
  BY <1>1, Flat
<1>4. \A ch \in 0 .. CH - 1 : CH * (cols * row + col) + ch \in 0 .. CH * (cols * rows) - 1
  <2>1. cols * rows \in Int
    BY <1>1
  <2>2. QED
    BY <1>3, <2>1, Flat
<1>5. /\ CH * (cols * rows) = CH * rows * cols /\ cols * rows = rows * cols
      /\ CH * (cols * row + col) = src + col * CH /\ cols * row + col = dst + col
  BY <1>1
<1>6. QED
  BY <1>2, <1>3, <1>4, <1>5 DEF FlattenReads

(* ... of the convolution, ... *)
LEMMA InsideConvolution ==
  ASSUME KernelIInv, kernel = "convolution", row <= LastRow(kernel, rows), col <= LastCol(kernel, cols)
  PROVE  Reads \subseteq 0 .. SourceSize - 1 /\ Writes \subseteq 0 .. TargetSize - 1
<1> USE KernelAssumption
<1>1. row \in 0 .. rows - 1 /\ col \in 0 .. cols - 1 /\ rows \in Int /\ cols \in Int
  BY DEF KernelIInv, KernelTypeOK, LoopInv, LastRow, LastCol, Border
<1>2. /\ Reads = ConvolutionReads /\ Writes = {row * cols + col}
      /\ SourceSize = (rows + 2 * HALF) * Expanded /\ TargetSize = rows * cols
  BY DEF Reads, Writes, SourceSize, TargetSize
<1>3. cols * row + col \in 0 .. cols * rows - 1
  BY <1>1, Flat
<1>4. \A i, j \in 0 .. 2 * HALF :
          Expanded * (row + i) + (col + j) \in 0 .. Expanded * (rows + 2 * HALF) - 1
  <2>1. Expanded \in Int /\ \A j \in 0 .. 2 * HALF : col + j \in 0 .. Expanded - 1
    BY <1>1 DEF Expanded
  <2>2. rows + 2 * HALF \in Int /\ \A i \in 0 .. 2 * HALF : row + i \in 0 .. (rows + 2 * HALF) - 1
    BY <1>1
  <2>3. QED
    BY <2>1, <2>2, Flat
<1>5. /\ Expanded * (rows + 2 * HALF) = (rows + 2 * HALF) * Expanded
      /\ \A i, j \in 0 .. 2 * HALF :
            (row + i) * Expanded + col + j = Expanded * (row + i) + (col + j)
      /\ row * cols + col = cols * row + col /\ rows * cols = cols * rows
  BY <1>1 DEF Expanded
<1>6. QED
  BY <1>2, <1>3, <1>4, <1>5 DEF ConvolutionReads

(* ... of the quantization, ... *)
LEMMA InsideQuantize ==
  ASSUME KernelIInv, kernel = "quantize", row <= LastRow(kernel, rows), col <= LastCol(kernel, cols)
  PROVE  Reads \subseteq 0 .. SourceSize - 1 /\ Writes \subseteq 0 .. TargetSize - 1
<1> USE KernelAssumption
<1>1. /\ row \in 0 .. rows - 1 /\ col \in 0 .. cols - 1 /\ rows \in Int /\ cols \in Int
      /\ src = row * cols + col /\ dst = DST_CH * (row * cols + col)
  BY DEF KernelIInv, KernelTypeOK, LoopInv, LastRow, LastCol, Border, PointersFollowLoops, Here
<1>2. /\ Reads = {src} /\ Writes = QuantizeWrites
      /\ SourceSize = rows * cols /\ TargetSize = DST_CH * rows * cols
  BY DEF Reads, Writes, SourceSize, TargetSize
<1>3. cols * row + col \in 0 .. cols * rows - 1
  BY <1>1, Flat
<1>4. \A b \in 0 .. DST_CH - 1 :
          DST_CH * (cols * row + col) + b \in 0 .. DST_CH * (cols * rows) - 1
  <2>1. cols * rows \in Int
    BY <1>1
  <2>2. QED
    BY <1>3, <2>1, Flat
<1>5. /\ DST_CH * (cols * rows) = DST_CH * rows * cols /\ cols * rows = rows * cols
      /\ DST_CH * (cols * row + col) = dst /\ cols * row + col = src
  BY <1>1
<1>6. 0 .. BINS \subseteq 0 .. DST_CH - 1
  OBVIOUS
<1>7. QED
  BY <1>2, <1>3, <1>4, <1>5, <1>6 DEF QuantizeWrites

(* ... of hog_classic() ... *)
LEMMA InsideHogClassic ==
  ASSUME KernelIInv, kernel = "hog_classic", row <= LastRow(kernel, rows), col <= LastCol(kernel, cols)
  PROVE  Reads \subseteq 0 .. SourceSize - 1 /\ Writes \subseteq 0 .. TargetSize - 1
<1> DEFINE bins == 3 * BINS + 4
<1> USE KernelAssumption
<1>1. /\ row \in 1 .. rows - 2 /\ col \in 1 .. cols - 2 /\ rows \in Int /\ cols \in Int
      /\ src = row * cols + col /\ dst = bins * (row * cols + col)
  BY DEF KernelIInv, KernelTypeOK, LoopInv, LastRow, LastCol, Border, PointersFollowLoops, Here
<1>2. /\ Reads = HogClassicReads /\ Writes = HogClassicWrites
      /\ SourceSize = rows * cols /\ TargetSize = bins * rows * cols
  BY DEF Reads, Writes, SourceSize, TargetSize
<1>3. \A i, j \in {-1, 0, 1} : cols * (row + i) + (col + j) \in 0 .. rows * cols - 1
  <2>1. cols * rows = rows * cols
    BY <1>1
  <2>2. QED
    BY <1>1, <2>1, Flat
<1>4. Reads \subseteq 0 .. rows * cols - 1
  <2>1. ASSUME NEW d \in {0, 1, cols, cols + 1, -cols, -cols + 1, -1, cols - 1, -cols - 1}
        PROVE  \E i, j \in {-1, 0, 1} : src + d = cols * (row + i) + (col + j)
    BY <1>1
  <2>2. QED
    BY <1>2, <1>3, <2>1 DEF HogClassicReads
<1>5. bins \in Int /\ HogClassicWrites = {dst + b : b \in 0 .. bins - 1}
  <2>1. 3 * BINS + 3 = bins - 1
    OBVIOUS
  <2>2. QED
    BY <2>1 DEF HogClassicWrites
<1> HIDE DEF bins
<1>6. cols * row + col \in 0 .. cols * rows - 1
  BY <1>1, Flat
<1>7. \A b \in 0 .. bins - 1 : bins * (cols * row + col) + b \in 0 .. bins * (cols * rows) - 1
  <2>1. cols * rows \in Int
    BY <1>1
  <2>2. QED
    BY <1>5, <1>6, <2>1, Flat
<1>8. bins * (cols * rows) = bins * rows * cols /\ bins * (cols * row + col) = dst
  BY <1>1, <1>5
<1>9. QED
  BY <1>2, <1>4, <1>5, <1>7, <1>8

(* ... and of hog_kernel(), ... *)
LEMMA InsideHogKernel ==
  ASSUME KernelIInv, kernel = "hog_kernel", row <= LastRow(kernel, rows), col <= LastCol(kernel, cols)
  PROVE  Reads \subseteq 0 .. SourceSize - 1 /\ Writes \subseteq 0 .. TargetSize - 1
<1> DEFINE cells == cols - KSIZE
<1> USE KernelAssumption
<1>1. /\ row \in 0 .. rows - KSIZE - 1 /\ col \in 0 .. cells - 1 /\ rows \in Int /\ cols \in Int
      /\ src = row * cells + col /\ dst = DST_CH * src
  BY DEF KernelIInv, KernelTypeOK, LoopInv, LastRow, LastCol, Border, StrayPointers
<1>2. /\ Reads = HogKernelReads /\ Writes = HogKernelWrites
      /\ SourceSize = rows * cols /\ TargetSize = DST_CH * rows * cols
  BY DEF Reads, Writes, SourceSize, TargetSize
<1>3. src \in 0 .. cols * row + col
  <2>1. src = cols * row + col - KSIZE * row
    BY <1>1
  <2>2. cells * row >= 0 /\ KSIZE * row >= 0
    <3>1. \A a, b \in Nat : a * b >= 0
      OBVIOUS
    <3>2. cells \in Nat /\ KSIZE \in Nat /\ row \in Nat
      BY <1>1
    <3>3. QED
      BY <3>1, <3>2
  <2>3. src >= 0
    BY <1>1, <2>2
  <2>4. KSIZE * row \in Int /\ cols * row \in Int /\ col \in Int
    BY <1>1
  <2>5. QED
    BY <2>1, <2>2, <2>3, <2>4
<1>4. ASSUME NEW i \in 0 .. KSIZE - 1, NEW j \in 0 .. KSIZE - 1
      PROVE  src + j * cols + i \in 0 .. rows * cols - 1
  <2>1. cols * (row + j) + (col + i) \in 0 .. cols * rows - 1
    <3>1. row + j \in 0 .. rows - 1 /\ col + i \in 0 .. cols - 1
      BY <1>1
    <3>2. QED
      BY <1>1, <3>1, Flat
  <2>2. cols * j >= 0
    <3>1. \A a, b \in Nat : a * b >= 0
      OBVIOUS
    <3>2. cols \in Nat /\ j \in Nat
      BY <1>1
    <3>3. QED
      BY <3>1, <3>2
  <2>3. cols * (row + j) + (col + i) = (cols * row + col) + (cols * j + i)
    BY <1>1
  <2>4. /\ cols * rows = rows * cols /\ j * cols = cols * j /\ cols * j \in Int /\ cols * rows \in Int
        /\ cols * row + col \in Int
    BY <1>1
  <2>5. QED
    BY <1>3, <2>1, <2>2, <2>3, <2>4
<1>5. \A b \in 0 .. DST_CH - 1 : DST_CH * src + b \in 0 .. DST_CH * (rows * cols) - 1
  <2>1. src \in 0 .. rows * cols - 1
    <3>1. src + 0 * cols + 0 \in 0 .. rows * cols - 1
      BY <1>4
    <3>2. src \in Int
      BY <1>3
    <3>3. QED
      BY <1>1, <3>1, <3>2
  <2>2. rows * cols \in Int
    BY <1>1
  <2>3. QED
    BY <2>1, <2>2, Flat
<1>6. DST_CH * (rows * cols) = DST_CH * rows * cols /\ 0 .. BINS - 1 \subseteq 0 .. DST_CH - 1
  BY <1>1
<1>7. Reads \subseteq 0 .. SourceSize - 1
  BY <1>2, <1>4 DEF HogKernelReads
<1>8. Writes \subseteq 0 .. TargetSize - 1
  BY <1>1, <1>2, <1>5, <1>6 DEF HogKernelWrites
<1>9. QED
  BY <1>7, <1>8

(* ... so that no loop reads or writes outside. *)
LEMMA InsideAll ==
  ASSUME KernelIInv, kernel # "none", row <= LastRow(kernel, rows), col <= LastCol(kernel, cols)
  PROVE  Reads \subseteq 0 .. SourceSize - 1 /\ Writes \subseteq 0 .. TargetSize - 1
BY InsideSobel, InsideGradient, InsideGradient2, InsideFlatten, InsideConvolution, InsideQuantize,
   InsideHogClassic, InsideHogKernel DEF KernelIInv, KernelTypeOK, KERNELS

-----------------------------------------------------------------------------
(* Before a call there are no pointers. *)
LEMMA KernelStart == KernelInit => KernelIInv
BY DEF KernelInit, KernelIInv, KernelTypeOK, StepsStayInside

(* A call sets its pointers to the first row and column. *)
LEMMA KernelCallStep ==
  ASSUME KernelIInv, NEW k \in KERNELS, NEW size \in IMAGE_SIZES, CallKernel(k, size)
  PROVE  KernelIInv'
<1> DEFINE r == size[1]
           c == size[2]
           b == Border(k)
<1> USE KernelAssumption
<1>1. r \in Nat /\ c \in Nat /\ b \in {0, 1} /\ k # "none"
  BY DEF Border, KERNELS
<1>2. /\ b <= LastRow(k, r) /\ b <= LastCol(k, c)
      /\ kernel' = k /\ rows' = r /\ cols' = c /\ row' = b /\ col' = b
      /\ src' = SrcAtRow(k, c, b, 0) /\ dst' = DstAtRow(k, c, b, 0)
      /\ reads' = {} /\ writes' = {}
  BY DEF CallKernel
<1> HIDE DEF r, c
<1>3. /\ k = "sobel_v2" => b = 1 /\ src' = 1 * 3 * c + 3 /\ dst' = 1 * 3 * c + 3
      /\ k = "gradient" => b = 0 /\ src' = 0 /\ dst' = 0
      /\ k = "gradient2" => b = 1 /\ src' = 0 /\ dst' = 0
      /\ k = "flatten" => b = 0 /\ src' = 0 * c * CH /\ dst' = 0 * c
      /\ k = "convolution" => b = 0 /\ src' = 0 /\ dst' = 0
      /\ k = "quantize" => b = 0 /\ src' = 0 /\ dst' = 0
      /\ k = "hog_classic" => b = 1 /\ src' = c + 1 /\ dst' = (c + 1) * (3 * BINS + 4)
      /\ k = "hog_kernel" => b = 0 /\ src' = 0 /\ dst' = 0
  <2>1. /\ k \in {"sobel_v2", "gradient2", "hog_classic"} => b = 1
        /\ k \in {"gradient", "flatten", "convolution", "quantize", "hog_kernel"} => b = 0
    BY DEF Border
  <2>2. QED
    BY <1>2, <2>1 DEF SrcAtRow, DstAtRow
<1> HIDE DEF b
<1>4. src' \in Int /\ dst' \in Int
  BY <1>1, <1>3 DEF KERNELS
<1>5. KernelTypeOK'
  BY <1>1, <1>2, <1>4 DEF KernelTypeOK
<1>6. LoopInv'
  <2>1. LastRow(k, r) \in Int /\ LastCol(k, c) \in Int
    BY <1>1 DEF LastRow, LastCol, Border
  <2>2. QED
    BY <1>1, <1>2, <2>1 DEF LoopInv, b
<1>7. PointersFollowLoops' /\ StrayPointers'
  BY <1>1, <1>2, <1>3 DEF PointersFollowLoops, StrayPointers, Here
<1>8. QED
  BY <1>2, <1>5, <1>6, <1>7 DEF KernelIInv, StepsStayInside

(* A turn that goes on in the row, and one that ends it. *)
LEMMA TurnStep ==
  ASSUME KernelIInv, Turn
  PROVE  KernelIInv'
<1> USE KernelAssumption
<1> DEFINE k == kernel
           last_row == LastRow(kernel, rows)
           last_col == LastCol(kernel, cols)
<1>1. /\ k \in KERNELS \ {"gradient2"} /\ k # "none" /\ row <= last_row
      /\ LoopInv /\ PointersFollowLoops /\ StrayPointers /\ KernelTypeOK
      /\ UNCHANGED <<kernel, rows, cols>> /\ reads' = Reads /\ writes' = Writes
  BY DEF Turn, KernelIInv, KernelTypeOK
<1>2. /\ last_row \in Int /\ last_col \in Int /\ last_row < rows /\ Border(k) \in {0, 1}
      /\ row \in Int /\ col \in Int /\ col <= last_col
      /\ Border(k) <= last_row /\ Border(k) <= last_col
      /\ Border(k) <= row /\ Border(k) <= col
  BY <1>1 DEF KernelTypeOK, LastRow, LastCol, Border, LoopInv
<1>3. StepsStayInside'
  <2>1. Reads \subseteq 0 .. SourceSize - 1 /\ Writes \subseteq 0 .. TargetSize - 1
    BY <1>1, <1>2, InsideAll
  <2>2. SourceSize' = SourceSize /\ TargetSize' = TargetSize
    BY <1>1 DEF SourceSize, TargetSize, Expanded
  <2>3. QED
    BY <1>1, <2>1, <2>2 DEF StepsStayInside
<1>4. /\ k = "sobel_v2" => SrcStep = 3 /\ DstStep = 3
      /\ k = "gradient" => SrcStep = CH /\ DstStep = 1
      /\ k = "flatten" => SrcStep = 0 /\ DstStep = 0
      /\ k = "convolution" => SrcStep = 0 /\ DstStep = 0
      /\ k = "quantize" => SrcStep = 1 /\ DstStep = DST_CH
      /\ k = "hog_classic" => SrcStep = 1 /\ DstStep = 3 * BINS + 4
      /\ k = "hog_kernel" => SrcStep = 1 /\ DstStep = DST_CH
  BY DEF SrcStep, DstStep
<1> DEFINE s == src + SrcStep
           d == dst + DstStep
<1>5. s \in Int /\ d \in Int
  BY <1>1, <1>4 DEF KernelTypeOK, KERNELS
<1>6. CASE col < last_col
  <2>1. row' = row /\ col' = col + 1 /\ src' = s /\ dst' = d
    BY <1>6 DEF Turn
  <2>2. KernelTypeOK'
    BY <1>1, <1>2, <1>5, <2>1 DEF KernelTypeOK
  <2>3. LoopInv'
    <3>1. col + 1 <= last_col /\ Border(k) <= col + 1 /\ row <= last_row + 1
      BY <1>1, <1>2, <1>6
    <3>2. QED
      BY <1>1, <1>2, <2>1, <3>1 DEF LoopInv
  <2>4. PointersFollowLoops' /\ StrayPointers'
    BY <1>1, <1>2, <1>4, <2>1 DEF KernelTypeOK, PointersFollowLoops, StrayPointers, Here
  <2>5. QED
    BY <1>1, <1>3, <2>2, <2>3, <2>4 DEF KernelIInv
<1>7. CASE ~(col < last_col)
  <2>1. /\ row' = row + 1 /\ col' = Border(k)
        /\ src' = SrcAtRow(k, cols, row + 1, s) /\ dst' = DstAtRow(k, cols, row + 1, d)
    BY <1>7 DEF Turn
  <2>2. col = last_col
    BY <1>2, <1>7
  <2>3. /\ k = "sobel_v2" => src' = (row + 1) * 3 * cols + 3 /\ dst' = (row + 1) * 3 * cols + 3
        /\ k \in {"gradient", "convolution", "quantize", "hog_kernel"} => src' = s /\ dst' = d
        /\ k = "flatten" => src' = (row + 1) * cols * CH /\ dst' = (row + 1) * cols
        /\ k = "hog_classic" => src' = s + 2 /\ dst' = d + 2 * (3 * BINS + 4)
    <3>1. k = "hog_classic" => row + 1 # 1
      BY <1>2 DEF Border
    <3>2. QED
      BY <2>1, <3>1 DEF SrcAtRow, DstAtRow
  <2>4. /\ k \in {"sobel_v2", "hog_classic"} => Border(k) = 1 /\ col = cols - 2
        /\ k \in {"gradient", "flatten", "convolution", "quantize"} => Border(k) = 0 /\ col = cols - 1
        /\ k = "hog_kernel" => Border(k) = 0 /\ col = cols - KSIZE - 1
    BY <1>1, <2>2 DEF Border, LastCol, KernelTypeOK
  <2>5. KernelTypeOK'
    <3>1. src' \in Int /\ dst' \in Int
      BY <1>1, <1>5, <2>3 DEF KernelTypeOK, KERNELS
    <3>2. QED
      BY <1>1, <1>2, <2>1, <3>1 DEF KernelTypeOK
  <2>6. LoopInv'
    <3>1. Border(k) <= row + 1 /\ row + 1 <= last_row + 1
      BY <1>1, <1>2
    <3>2. QED
      BY <1>1, <1>2, <2>1, <3>1 DEF LoopInv
  <2>7. PointersFollowLoops' /\ StrayPointers'
    BY <1>1, <1>2, <1>4, <2>1, <2>3, <2>4 DEF KernelTypeOK, PointersFollowLoops, StrayPointers, Here
  <2>8. QED
    BY <1>1, <1>3, <2>5, <2>6, <2>7 DEF KernelIInv
<1>8. QED
  BY <1>6, <1>7

(* gradient2() moves its pointers as the others do, at its borders too. *)
LEMMA TurnGradient2Step ==
  ASSUME KernelIInv, TurnGradient2
  PROVE  KernelIInv'
<1> USE KernelAssumption
<1>1. /\ kernel = "gradient2" /\ row <= LastRow(kernel, rows) /\ col <= LastCol(kernel, cols)
      /\ LoopInv /\ StrayPointers /\ KernelTypeOK
      /\ UNCHANGED <<kernel, rows, cols, src>> /\ reads' = Reads /\ writes' = Writes
  BY DEF TurnGradient2, KernelIInv, LoopInv
<1>2. StepsStayInside'
  <2>1. Reads \subseteq 0 .. SourceSize - 1 /\ Writes \subseteq 0 .. TargetSize - 1
    BY <1>1, InsideAll
  <2>2. SourceSize' = SourceSize /\ TargetSize' = TargetSize
    BY <1>1 DEF SourceSize, TargetSize, Expanded
  <2>3. QED
    BY <1>1, <2>1, <2>2 DEF StepsStayInside
<1>3. /\ Border(kernel) = 1 /\ DstStep = 1 /\ dst = row - 1
      /\ LastRow(kernel, rows) = rows - 1 - 1 /\ LastCol(kernel, cols) = cols - 1 - 1
  BY <1>1 DEF Border, DstStep, StrayPointers, LastRow, LastCol
<1>4. \/ row < LastRow(kernel, rows) /\ row' = row + 1 /\ dst' = dst + 1 /\ col' = col
      \/ row' = 1 /\ col' = col + 1 /\ dst' = 0
  BY <1>3 DEF TurnGradient2
<1>5. KernelTypeOK'
  BY <1>1, <1>4 DEF KernelTypeOK
<1>6. LoopInv' /\ StrayPointers' /\ PointersFollowLoops'
  <2>1. /\ 1 <= rows - 1 - 1 /\ 1 <= cols - 1 - 1 /\ 1 <= row /\ 1 <= col
        /\ row <= rows - 1 - 1 /\ col <= cols - 1 - 1
    BY <1>1, <1>3 DEF LoopInv
  <2>2. LastRow(kernel', rows') = rows - 1 - 1 /\ LastCol(kernel', cols') = cols - 1 - 1 /\ Border(kernel') = 1
    BY <1>1, <1>3
  <2>3. StrayPointers' /\ PointersFollowLoops'
    BY <1>1, <1>3, <1>4 DEF KernelTypeOK, StrayPointers, PointersFollowLoops
  <2>4. 1 <= row' /\ 1 <= col' /\ row' <= rows - 1 - 1 /\ col' <= cols - 1 - 1 + 1
    BY <1>1, <1>3, <1>4, <2>1 DEF KernelTypeOK
  <2>5. LoopInv'
    BY <1>1, <2>1, <2>2, <2>4 DEF LoopInv
  <2>6. QED
    BY <2>3, <2>5
<1>7. QED
  BY <1>1, <1>2, <1>5, <1>6 DEF KernelIInv

(* Every step keeps the invariant. *)
LEMMA KernelStep == KernelIInv /\ [KernelNext]_kernelVars => KernelIInv'
<1> SUFFICES ASSUME KernelIInv, [KernelNext]_kernelVars
             PROVE  KernelIInv'
  OBVIOUS
<1>1. ASSUME NEW k \in KERNELS, NEW size \in IMAGE_SIZES, CallKernel(k, size)
      PROVE  KernelIInv'
  BY <1>1, KernelCallStep
<1>2. CASE Turn
  BY <1>2, TurnStep
<1>3. CASE TurnGradient2
  BY <1>3, TurnGradient2Step
<1>4. CASE Return
  BY <1>4 DEF Return, KernelIInv, KernelTypeOK, StepsStayInside
<1>5. CASE UNCHANGED kernelVars
  BY <1>5 DEF kernelVars, KernelIInv, KernelTypeOK, LoopInv, PointersFollowLoops, StrayPointers,
     StepsStayInside, SourceSize, TargetSize, Expanded, Here
<1>6. QED
  BY <1>1, <1>2, <1>3, <1>4, <1>5 DEF KernelNext

(* The pointers of the pixel loops, which only ever are incremented, are    *)
(* where row and column say, and what is read and written through them lies *)
(* in the matrices.                                                         *)
THEOREM KernelWindowsAreRight == KernelSpec => []WindowsAreRight
<1>1. KernelIInv => WindowsAreRight
  BY DEF KernelIInv, WindowsAreRight, PointersFollowLoops
<1>2. QED
  BY <1>1, KernelStart, KernelStep, PTL DEF KernelSpec

-----------------------------------------------------------------------------
(*                          The SSE integral image                         *)

(* The place in memory of a sum, and of the pixel the 1 is in. *)
At(i, j, c) == i * sum_step + j * channels + c

LitColumn == (lit \div channels) % width
LitRow == (lit \div channels) \div width
LitChannel == lit % channels

(* The sums that are done are those before the next one to be stored; the     *)
(* registers hold what the row has counted so far, but for their last two     *)
(* numbers.                                                                   *)
Frontier == At(y + 1, x + 1, 0)

SseTypeOK ==
    /\ width \in Nat \ {0} /\ height \in Nat \ {0} /\ lit \in Nat
    /\ y \in 0 .. height /\ x \in -1 .. width /\ (y = height => x = -1)
    /\ y < height => dst_at = (y + 1) * sum_step + (IF x = -1 THEN 0 ELSE channels)
    /\ memory = [i \in 0 .. Size(width, height) - 1 |-> memory[i]]

SumsDone ==
    \A i \in 0 .. height, j \in 0 .. width, c \in 0 .. channels - 1 :
        At(i, j, c) < Frontier => memory[At(i, j, c)] = Expected(j, i, c)

RowSoFar ==
    x # -1 =>
        \A c \in 0 .. channels - 1 :
            sums[c] = IF c = LitChannel /\ LitColumn < x /\ LitRow = y THEN 1 ELSE 0

SseIInv == IF variant = "none" THEN width = 0 ELSE SseTypeOK /\ SumsDone /\ RowSoFar

-----------------------------------------------------------------------------
(* A place is a place of the sums, ... *)
LEMMA PlaceInside ==
  ASSUME NEW w \in Nat, NEW h \in Nat, NEW i \in 0 .. h, NEW j \in 0 .. w, NEW c \in 0 .. channels - 1
  PROVE  i * ((w + 1) * channels) + j * channels + c \in 0 .. Size(w, h) - 1
<1>1. w + 1 \in Int /\ h + 1 \in Int /\ i \in 0 .. (h + 1) - 1 /\ j \in 0 .. (w + 1) - 1
  OBVIOUS
<1>2. (w + 1) * i + j \in 0 .. (w + 1) * (h + 1) - 1
  BY <1>1, Flat
<1>3. channels * ((w + 1) * i + j) + c \in 0 .. channels * ((w + 1) * (h + 1)) - 1
  <2>1. channels \in Int /\ (w + 1) * (h + 1) \in Int
    BY <1>1 DEF channels
  <2>2. QED
    BY <1>2, <2>1, Flat
<1>4. /\ channels * ((w + 1) * i + j) + c = i * ((w + 1) * channels) + j * channels + c
      /\ channels * ((w + 1) * (h + 1)) = Size(w, h)
  BY <1>1 DEF Size, channels
<1>5. QED
  BY <1>3, <1>4

(* A sum has its place in the memory of the integral image. *)
LEMMA AtInside ==
  ASSUME SseTypeOK, NEW i \in 0 .. height, NEW j \in 0 .. width, NEW c \in 0 .. channels - 1
  PROVE  At(i, j, c) \in 0 .. Size(width, height) - 1
<1>1. width \in Nat /\ height \in Nat
  BY DEF SseTypeOK
<1>2. QED
  BY <1>1, PlaceInside DEF At, sum_step

(* The pixel the 1 is in. *)
LEMMA PixelPlace ==
  ASSUME NEW n \in Nat, NEW w \in Nat \ {0}
  PROVE  /\ (n \div channels) \div w \in Nat /\ (n \div channels) % w \in 0 .. w - 1
         /\ n % channels \in 0 .. channels - 1
         /\ n = channels * (w * ((n \div channels) \div w) + ((n \div channels) % w)) + (n % channels)
<1>1. channels \in Nat \ {0}
  BY DEF channels
<1>2. PICK p \in Nat, r \in 0 .. channels - 1 :
          n = channels * p + r /\ r = n % channels /\ p = n \div channels
  BY <1>1, DivMod
<1>3. PICK q \in Nat, j \in 0 .. w - 1 : p = w * q + j /\ j = p % w /\ q = p \div w
  BY <1>2, DivMod
<1>4. (n \div channels) \div w = q /\ (n \div channels) % w = j /\ n % channels = r
  BY <1>2, <1>3
<1>5. n = channels * (w * q + j) + r
  <2>1. n = channels * p + r
    BY <1>2
  <2>2. p = w * q + j
    BY <1>3
  <2>3. QED
    BY <2>1, <2>2
<1>6. QED
  BY <1>4, <1>5

(* A place is that of one sum only. *)
LEMMA AtUnique ==
  ASSUME SseTypeOK, NEW i \in Int, NEW j \in 0 .. width, NEW c \in 0 .. channels - 1,
         NEW i2 \in Int, NEW j2 \in 0 .. width, NEW c2 \in 0 .. channels - 1,
         At(i, j, c) = At(i2, j2, c2)
  PROVE  i = i2 /\ j = j2 /\ c = c2
<1> DEFINE w == width + 1
<1>1. w \in Nat \ {0} /\ j \in 0 .. w - 1 /\ j2 \in 0 .. w - 1
  BY DEF SseTypeOK
<1>2. /\ At(i, j, c) = channels * (w * i + j) + c
      /\ At(i2, j2, c2) = channels * (w * i2 + j2) + c2
  BY <1>1 DEF At, sum_step, channels
<1> DEFINE p == w * i + j
           q == w * i2 + j2
<1>2a. p = w * i + j /\ q = w * i2 + j2
  OBVIOUS
<1>3. channels * p + c = channels * q + c2
  BY <1>2
<1>4. p \in Int /\ q \in Int /\ channels \in Nat \ {0}
  BY <1>1 DEF channels
<1> HIDE DEF w, p, q
<1>5. p = q /\ c = c2
  BY <1>3, <1>4, UniqueDivision
<1>6. i = i2 /\ j = j2
  BY <1>1, <1>2a, <1>5, UniqueDivision
<1>7. QED
  BY <1>5, <1>6

(* The sums before the next pixel's, and the ten of that pixel. *)
LEMMA NextSums ==
  ASSUME SseTypeOK, NEW i \in 0 .. height, NEW j \in 0 .. width, NEW c \in 0 .. channels - 1,
         x < width, At(i, j, c) < Frontier + channels, ~(At(i, j, c) < Frontier)
  PROVE  i = y + 1 /\ j = x + 1 /\ At(i, j, c) = Frontier + c
<1>1. PICK d \in 0 .. channels - 1 : At(i, j, c) = Frontier + d
  <2>1. At(i, j, c) \in Int /\ Frontier \in Int
    <3>1. sum_step \in Int /\ channels \in Int
      BY DEF SseTypeOK, sum_step, channels
    <3>2. i \in Int /\ j \in Int /\ c \in Int /\ y \in Int /\ x \in Int
      BY DEF SseTypeOK
    <3>3. QED
      BY <3>1, <3>2 DEF At, Frontier
  <2>2. At(i, j, c) - Frontier \in 0 .. channels - 1
    BY <2>1 DEF channels
  <2>3. At(i, j, c) = Frontier + (At(i, j, c) - Frontier)
    BY <2>1
  <2>4. QED
    BY <2>2, <2>3
<1>2. At(y + 1, x + 1, d) = Frontier + d
  BY DEF SseTypeOK, At, Frontier, sum_step, channels
<1>3. y + 1 \in Int /\ x + 1 \in 0 .. width /\ i \in Int
  BY DEF SseTypeOK
<1>4. i = y + 1 /\ j = x + 1 /\ c = d
  BY <1>1, <1>2, <1>3, AtUnique
<1>5. QED
  BY <1>1, <1>4

(* The row, column and channel of the one pixel that is not zero. *)
LEMMA LitPlace ==
  ASSUME SseTypeOK
  PROVE  /\ LitRow \in Nat /\ LitColumn \in 0 .. width - 1 /\ LitChannel \in 0 .. channels - 1
         /\ lit = channels * (width * LitRow + LitColumn) + LitChannel
<1>1. lit \in Nat /\ width \in Nat \ {0}
  BY DEF SseTypeOK
<1>2. QED
  BY <1>1, PixelPlace DEF LitRow, LitColumn, LitChannel

(* A number that is loaded counts the pixel it is of. *)
LEMMA LoadedNumber ==
  ASSUME SseTypeOK, x \in 0 .. width - 1, y < height, NEW c \in 0 .. channels - 1
  PROVE  Loaded(c) = IF c = LitChannel /\ LitColumn = x /\ LitRow = y THEN 1 ELSE 0
<1> DEFINE i == channels * (width * y + x) + c
<1>1. y * src_step + x * channels + c = i /\ ~(c >= channels) /\ y \in Int /\ width \in Nat \ {0}
  <2>1. y \in Int /\ x \in Int /\ c \in Int /\ c < 10 /\ width \in Nat \ {0}
    BY DEF SseTypeOK, channels
  <2>2. y * (width * 10) = 10 * (width * y)
    BY <2>1
  <2>3. width * y \in Int
    BY <2>1
  <2>4. QED
    BY <2>1, <2>2, <2>3 DEF src_step, channels
<1>2. Loaded(c) = IF i = lit THEN 1 ELSE 0
  BY <1>1 DEF Loaded
<1>3. i = lit => c = LitChannel /\ LitColumn = x /\ LitRow = y
  <2> SUFFICES ASSUME i = lit
               PROVE  c = LitChannel /\ LitColumn = x /\ LitRow = y
    OBVIOUS
  <2> DEFINE p == width * y + x
             q == width * LitRow + LitColumn
  <2>1. p = width * y + x /\ q = width * LitRow + LitColumn /\ channels * p + c = channels * q + LitChannel
    BY LitPlace
  <2>2. /\ LitRow \in Int /\ LitColumn \in 0 .. width - 1 /\ LitChannel \in 0 .. channels - 1
        /\ width \in Nat \ {0} /\ y \in Int
    BY <1>1, LitPlace
  <2>3. p \in Int /\ q \in Int /\ channels \in Nat \ {0}
    BY <2>2 DEF channels
  <2> HIDE DEF p, q, i
  <2>4. p = q /\ c = LitChannel
    BY <2>1, <2>2, <2>3, UniqueDivision
  <2>5. width * y + x = width * LitRow + LitColumn
    BY <2>1, <2>4
  <2>6. y = LitRow /\ x = LitColumn
    BY <2>2, <2>5, UniqueDivision
  <2>7. QED
    BY <2>4, <2>6
<1>4. c = LitChannel /\ LitColumn = x /\ LitRow = y => i = lit
  <2>1. lit = channels * (width * LitRow + LitColumn) + LitChannel
    BY LitPlace
  <2>2. QED
    BY <2>1
<1>5. QED
  BY <1>2, <1>3, <1>4

-----------------------------------------------------------------------------
(* Before a call nothing is computed. *)
LEMMA SseStart == SseInit => SseIInv
BY DEF SseInit, SseIInv

(* The call clears the first row of sums. *)
LEMMA StartStep ==
  ASSUME NEW v \in {"32s", "64f"}, NEW w \in 1 .. MAX_WIDTH, NEW h \in 1 .. MAX_HEIGHT,
         NEW c \in LIT_CHANNELS, NEW p \in 0 .. w * h - 1, StartIntegral(v, w, h, p * channels + c)
  PROVE  SseIInv'
<1> USE SseAssumption
<1>1. /\ variant' # "none" /\ width' = w /\ height' = h /\ lit' = p * channels + c
      /\ memory' = [i \in 0 .. Size(w, h) - 1 |-> IF i < (w + 1) * channels THEN 0 ELSE JUNK]
      /\ dst_at' = (w + 1) * channels /\ x' = -1 /\ y' = 0
  BY DEF StartIntegral
<1>2. w \in Nat \ {0} /\ h \in Nat \ {0}
  OBVIOUS
<1>3. lit' \in Nat
  <2>1. p \in Nat /\ c \in Nat
    <3>1. w * h \in Int
      BY <1>2
    <3>2. QED
      BY <3>1
  <2>2. QED
    BY <1>1, <2>1 DEF channels
<1>4. sum_step' = (w + 1) * channels /\ Size(width', height') = Size(w, h)
  BY <1>1 DEF sum_step, channels
<1>5. SseTypeOK'
  <2>1. dst_at' = (0 + 1) * ((w + 1) * channels) + 0
    BY <1>1, <1>2 DEF channels
  <2>2. memory' = [i \in 0 .. Size(w, h) - 1 |-> memory'[i]]
    BY <1>1
  <2>3. QED
    BY <1>1, <1>2, <1>3, <1>4, <2>1, <2>2 DEF SseTypeOK
<1>6. SumsDone'
  <2> SUFFICES ASSUME NEW i \in 0 .. h, NEW j \in 0 .. w, NEW d \in 0 .. channels - 1,
                      At(i, j, d)' < Frontier'
               PROVE  memory'[At(i, j, d)'] = Expected(j, i, d)'
    BY <1>1 DEF SumsDone, channels
  <2>1. At(i, j, d)' = i * ((w + 1) * channels) + j * channels + d
    BY <1>1, <1>4 DEF At, channels
  <2>2. Frontier' = (w + 1) * channels
    BY <1>1, <1>2, <1>4 DEF At, Frontier, channels
  <2>3. At(i, j, d)' \in 0 .. Size(w, h) - 1
    BY <1>2, <2>1, PlaceInside
  <2>4. memory'[At(i, j, d)'] = 0
    BY <1>1, <2>2, <2>3
  <2>5. i = 0
    <3>1. CASE i >= 1
      <4>1. (i - 1) * ((w + 1) * channels) >= 0
        <5>1. \A a, b \in Nat : a * b >= 0
          OBVIOUS
        <5>2. i - 1 \in Nat /\ (w + 1) * channels \in Nat
          BY <1>2, <3>1 DEF channels
        <5>3. QED
          BY <5>1, <5>2
      <4>2. i * ((w + 1) * channels) = (i - 1) * ((w + 1) * channels) + (w + 1) * channels
        BY <1>2 DEF channels
      <4>3. QED
        BY <2>1, <2>2, <4>1, <4>2 DEF channels
    <3>2. QED
      BY <3>1
  <2>6. Expected(j, i, d)' = 0
    <3>1. LitRow' \in Nat
      BY <1>1, <1>2, <1>3, PixelPlace DEF LitRow, channels
    <3>2. ~(LitRow' < 0)
      BY <3>1
    <3>3. QED
      BY <2>5, <3>2 DEF Expected, LitRow
  <2>7. QED
    BY <2>4, <2>6
<1>7. QED
  BY <1>1, <1>5, <1>6 DEF SseIInv, RowSoFar

(* A row begins with a column of zeros, ... *)
LEMMA BeginStep ==
  ASSUME SseIInv, BeginRow
  PROVE  SseIInv'
<1>1. /\ variant # "none" /\ x = -1 /\ y < height /\ x' = 0
      /\ memory' = [i \in DOMAIN memory |-> IF i \in dst_at .. dst_at + channels - 1 THEN 0
                                            ELSE memory[i]]
      /\ dst_at' = dst_at + channels /\ sums' = NO_SUMS
      /\ UNCHANGED <<variant, width, height, lit, y>>
  BY DEF BeginRow
<1>2. SseTypeOK /\ SumsDone
  BY <1>1 DEF SseIInv
<1>3. dst_at = Frontier /\ Frontier \in Int /\ Frontier' = Frontier + channels
  BY <1>1, <1>2 DEF SseTypeOK, Frontier, At, sum_step, channels
<1>4. SseTypeOK'
  <2>1. memory' = [i \in 0 .. Size(width, height) - 1 |-> memory'[i]]
    BY <1>1, <1>2 DEF SseTypeOK
  <2>2. dst_at' = (y + 1) * sum_step + channels /\ sum_step' = sum_step
    BY <1>1, <1>2 DEF SseTypeOK, sum_step, channels
  <2>3. QED
    BY <1>1, <1>2, <2>1, <2>2 DEF SseTypeOK
<1>5. SumsDone'
  <2> SUFFICES ASSUME NEW i \in 0 .. height, NEW j \in 0 .. width, NEW c \in 0 .. channels - 1,
                      At(i, j, c) < Frontier + channels
               PROVE  memory'[At(i, j, c)] = Expected(j, i, c)
    BY <1>1, <1>3 DEF SumsDone, At, sum_step, channels, Expected
  <2>1. At(i, j, c) \in 0 .. Size(width, height) - 1
    BY <1>2, AtInside
  <2>2. CASE At(i, j, c) < Frontier
    <3>1. memory'[At(i, j, c)] = memory[At(i, j, c)]
      BY <1>1, <1>2, <1>3, <2>1, <2>2 DEF SseTypeOK
    <3>2. QED
      BY <1>2, <2>2, <3>1 DEF SumsDone
  <2>3. CASE ~(At(i, j, c) < Frontier)
    <3>1. x < width
      BY <1>1, <1>2 DEF SseTypeOK
    <3>2. j = 0
      BY <1>1, <1>2, <2>3, <3>1, NextSums
    <3>3. memory'[At(i, j, c)] = 0
      BY <1>1, <1>2, <1>3, <2>1, <2>3 DEF SseTypeOK, channels
    <3>4. ~(LitColumn < 0)
      BY <1>2, LitPlace
    <3>5. QED
      BY <3>2, <3>3, <3>4 DEF Expected, LitColumn
  <2>4. QED
    BY <2>2, <2>3
<1>6. RowSoFar'
  <2>1. ~(LitColumn < 0)
    BY <1>2, LitPlace
  <2>2. \A c \in 0 .. channels - 1 : NO_SUMS[c] = 0
    BY DEF NO_SUMS, channels, lanes
  <2>3. QED
    BY <1>1, <2>1, <2>2 DEF RowSoFar, LitColumn, channels
<1>7. QED
  BY <1>1, <1>4, <1>5, <1>6 DEF SseIInv

(* ... and ends where the next one begins. *)
LEMMA EndStep ==
  ASSUME SseIInv, EndRow
  PROVE  SseIInv'
<1>1. /\ variant # "none" /\ x = width /\ y < height /\ x' = -1 /\ y' = y + 1
      /\ dst_at' = IF y < height - 1 THEN dst_at + Advance ELSE dst_at
      /\ UNCHANGED <<variant, width, height, lit, memory, sums>>
  BY DEF EndRow
<1>2. SseTypeOK /\ SumsDone
  BY <1>1 DEF SseIInv
<1>3. Frontier' = Frontier
  BY <1>1, <1>2 DEF SseTypeOK, Frontier, At, sum_step, channels
<1>4. SseTypeOK'
  <2>1. y + 1 < height => dst_at' = (y + 1 + 1) * sum_step + 0
    BY <1>1, <1>2 DEF SseTypeOK, sum_step, channels, Advance
  <2>2. sum_step' = sum_step
    BY <1>1 DEF sum_step, channels
  <2>3. QED
    BY <1>1, <1>2, <2>1, <2>2 DEF SseTypeOK
<1>5. SumsDone'
  BY <1>1, <1>2, <1>3 DEF SumsDone, At, sum_step, channels, Expected
<1>6. QED
  BY <1>1, <1>4, <1>5 DEF SseIInv, RowSoFar

(* A pixel's stores reach over its own ten sums, never over a later one's. *)
LEMMA PixelStep ==
  ASSUME SseIInv, AddPixel
  PROVE  SseIInv'
<1> DEFINE sum == [l \in 0 .. lanes - 1 |-> sums[l] + Loaded(l)]
<1>1. /\ variant # "none" /\ x \in 0 .. width - 1 /\ x' = x + 1 /\ sums' = sum
      /\ memory' = [i \in DOMAIN memory |->
             IF i - (dst_at + x * channels) \in StoredLanes
             THEN memory[i - sum_step] + sum[i - (dst_at + x * channels)] ELSE memory[i]]
      /\ UNCHANGED <<variant, width, height, lit, dst_at, y>>
  <2>1. x \in 0 .. width - 1
    BY DEF AddPixel
  <2>2. variant # "none"
    BY <2>1 DEF SseIInv
  <2>3. QED
    BY <2>1, <2>2 DEF AddPixel
<1>2. SseTypeOK /\ SumsDone /\ RowSoFar
  BY <1>1 DEF SseIInv
<1>3. y < height /\ x \in Nat /\ x + 1 \in 0 .. width
  BY <1>1, <1>2 DEF SseTypeOK
<1>4. /\ dst_at + x * channels = Frontier /\ Frontier \in Int /\ Frontier' = Frontier + channels
      /\ dst_at = (y + 1) * sum_step + channels
  <2> HIDE DEF sum
  <2>1. dst_at = (y + 1) * sum_step + channels /\ width \in Nat /\ y \in Nat
    BY <1>2, <1>3 DEF SseTypeOK
  <2>2. sum_step \in Int /\ channels = 10
    BY <2>1 DEF sum_step, channels
  <2>3. Frontier = (y + 1) * sum_step + (x + 1) * channels + 0
    BY DEF Frontier, At
  <2>4. Frontier' = (y + 1) * sum_step + (x + 1 + 1) * channels + 0
    BY <1>1 DEF Frontier, At, sum_step, channels
  <2>5. (y + 1) * sum_step \in Int
    BY <2>1, <2>2
  <2>6. QED
    BY <1>3, <2>1, <2>2, <2>3, <2>4, <2>5
<1>5. 0 .. channels - 1 \subseteq StoredLanes /\ StoredLanes \subseteq Nat
  BY DEF StoredLanes, channels, lanes
<1>6. \A c \in 0 .. channels - 1 :
          sum[c] = IF c = LitChannel /\ LitColumn < x + 1 /\ LitRow = y THEN 1 ELSE 0
  <2> TAKE c \in 0 .. channels - 1
  <2>1. sum[c] = sums[c] + Loaded(c)
    BY DEF channels, lanes
  <2>2. Loaded(c) = IF c = LitChannel /\ LitColumn = x /\ LitRow = y THEN 1 ELSE 0
    BY <1>1, <1>2, <1>3, LoadedNumber
  <2>3. sums[c] = IF c = LitChannel /\ LitColumn < x /\ LitRow = y THEN 1 ELSE 0
    BY <1>2, <1>3 DEF RowSoFar
  <2>4. LitColumn \in Int
    BY <1>2, LitPlace
  <2>5. QED
    BY <1>3, <2>1, <2>2, <2>3, <2>4
<1> HIDE DEF sum
<1>7. SseTypeOK'
  <2>1. memory' = [i \in 0 .. Size(width, height) - 1 |-> memory'[i]]
    BY <1>1, <1>2 DEF SseTypeOK
  <2>2. sum_step' = sum_step
    BY <1>1 DEF sum_step, channels
  <2>3. QED
    BY <1>1, <1>2, <1>3, <1>4, <2>1, <2>2 DEF SseTypeOK
<1>8. SumsDone'
  <2> SUFFICES ASSUME NEW i \in 0 .. height, NEW j \in 0 .. width, NEW c \in 0 .. channels - 1,
                      At(i, j, c) < Frontier + channels
               PROVE  memory'[At(i, j, c)] = Expected(j, i, c)
    BY <1>1, <1>4 DEF SumsDone, At, sum_step, channels, Expected
  <2>1. At(i, j, c) \in 0 .. Size(width, height) - 1
    BY <1>2, AtInside
  <2>2. CASE At(i, j, c) < Frontier
    <3>1. ~(At(i, j, c) - Frontier \in StoredLanes)
      <4>1. ~(At(i, j, c) - Frontier >= 0)
        BY <1>4, <2>1, <2>2
      <4>2. \A n \in StoredLanes : n >= 0
        BY <1>5
      <4>3. QED
        BY <4>1, <4>2
    <3>2. memory'[At(i, j, c)] = memory[At(i, j, c)]
      BY <1>1, <1>2, <1>4, <2>1, <3>1 DEF SseTypeOK
    <3>3. QED
      BY <1>2, <2>2, <3>2 DEF SumsDone
  <2>3. CASE ~(At(i, j, c) < Frontier)
    <3>1. i = y + 1 /\ j = x + 1 /\ At(i, j, c) = Frontier + c
      <4>1. x < width
        BY <1>1, <1>2 DEF SseTypeOK
      <4>2. QED
        BY <1>2, <2>3, <4>1, NextSums
    <3>2. At(i, j, c) - Frontier = c
      BY <1>4, <3>1 DEF channels
    <3>3. memory'[At(i, j, c)] = memory[At(i, j, c) - sum_step] + sum[c]
      BY <1>1, <1>2, <1>4, <1>5, <2>1, <3>2 DEF SseTypeOK
    <3>4. At(i, j, c) - sum_step = At(y, j, c) /\ At(y, j, c) < Frontier
      <4>1. sum_step \in Int /\ channels = 10 /\ sum_step = channels * width + channels /\ width \in Nat
        BY <1>2 DEF SseTypeOK, sum_step, channels
      <4>2. y \in Int /\ x \in Int /\ c \in 0 .. 9
        BY <1>2, <4>1 DEF SseTypeOK
      <4>3. At(i, j, c) = (y + 1) * sum_step + (x + 1) * channels + c
        BY <3>1 DEF At
      <4>4. At(y, j, c) = y * sum_step + (x + 1) * channels + c
        BY <3>1 DEF At
      <4>5. (y + 1) * sum_step = y * sum_step + sum_step /\ y * sum_step \in Int
        BY <4>1, <4>2
      <4>6. Frontier = (y + 1) * sum_step + (x + 1) * channels + 0
        BY DEF Frontier, At
      <4>7. sum_step >= 10
        BY <4>1
      <4>8. QED
        BY <4>1, <4>2, <4>3, <4>4, <4>5, <4>6, <4>7
    <3>5. memory[At(y, j, c)] = Expected(j, y, c)
      <4>1. y \in 0 .. height
        BY <1>2 DEF SseTypeOK
      <4>2. QED
        BY <1>2, <3>4, <4>1 DEF SumsDone
    <3>6. memory'[At(i, j, c)] = Expected(j, y, c) + sum[c]
      BY <3>3, <3>4, <3>5
    <3>7. /\ Expected(j, y, c) = IF c = LitChannel /\ LitColumn < x + 1 /\ LitRow < y THEN 1 ELSE 0
          /\ Expected(j, i, c) = IF c = LitChannel /\ LitColumn < x + 1 /\ LitRow < y + 1 THEN 1 ELSE 0
      BY <3>1 DEF Expected, LitChannel, LitColumn, LitRow
    <3>8. LitRow \in Int /\ y \in Int
      BY <1>2, LitPlace DEF SseTypeOK
    <3>9. QED
      BY <1>6, <3>6, <3>7, <3>8
  <2>4. QED
    BY <2>2, <2>3
<1>9. RowSoFar'
  BY <1>1, <1>6 DEF RowSoFar, LitColumn, LitRow, LitChannel, channels
<1>10. QED
  BY <1>1, <1>7, <1>8, <1>9 DEF SseIInv

-----------------------------------------------------------------------------
(* Every step keeps the invariant. *)
LEMMA SseStep == SseIInv /\ [SseNext]_sseVars => SseIInv'
<1> SUFFICES ASSUME SseIInv, [SseNext]_sseVars
             PROVE  SseIInv'
  OBVIOUS
<1>1. ASSUME NEW v \in {"32s", "64f"}, NEW w \in 1 .. MAX_WIDTH, NEW h \in 1 .. MAX_HEIGHT,
             NEW c \in LIT_CHANNELS, NEW p \in 0 .. w * h - 1, StartIntegral(v, w, h, p * channels + c)
      PROVE  SseIInv'
  BY <1>1, StartStep
<1>2. CASE BeginRow
  BY <1>2, BeginStep
<1>3. CASE AddPixel
  BY <1>3, PixelStep
<1>4. CASE EndRow
  BY <1>4, EndStep
<1>5. CASE SseReturn
  BY <1>5 DEF SseReturn, SseIInv
<1>6. CASE UNCHANGED sseVars
  BY <1>6 DEF sseVars, SseIInv, SseTypeOK, SumsDone, RowSoFar, Expected, At, Frontier,
     LitColumn, LitRow, LitChannel, sum_step
<1>7. QED
  BY <1>1, <1>2, <1>3, <1>4, <1>5, <1>6 DEF SseNext

(* No store is beside the picture's sums. *)
LEMMA StoresInside ==
  ASSUME SseIInv, variant # "none", x \in 0 .. width - 1, NEW l \in StoredLanes
  PROVE  dst_at + x * channels + l \in DOMAIN memory
<1>1. SseTypeOK
  BY DEF SseIInv
<1>2. /\ y < height /\ y \in Nat /\ x \in Nat /\ width \in Nat /\ height \in Nat
      /\ x + 1 \in 0 .. width /\ y + 1 \in 0 .. height
      /\ dst_at = (y + 1) * sum_step + channels
      /\ DOMAIN memory = 0 .. Size(width, height) - 1
  BY <1>1 DEF SseTypeOK
<1>3. dst_at + x * channels + l = At(y + 1, x + 1, l)
  BY <1>2 DEF At, StoredLanes, channels, lanes, sum_step
<1>4. CASE l \in 0 .. channels - 1
  BY <1>1, <1>2, <1>3, <1>4, AtInside
<1>5. CASE l \notin 0 .. channels - 1
  <2>1. l \in {10, 11} /\ ~LastColumn /\ l - channels \in 0 .. channels - 1
    BY <1>5 DEF StoredLanes, channels, lanes
  <2>2. CASE x + 1 < width
    <3>1. At(y + 1, x + 1, l) = At(y + 1, x + 2, l - channels)
      BY <1>2, <2>1 DEF At, channels, sum_step
    <3>2. x + 2 \in 0 .. width
      BY <1>2, <2>2
    <3>3. QED
      BY <1>1, <1>2, <1>3, <2>1, <3>1, <3>2, AtInside
  <2>3. CASE ~(x + 1 < width)
    <3>1. x = width - 1 /\ y + 2 \in 0 .. height
      BY <1>2, <2>1, <2>3 DEF LastColumn
    <3>2. At(y + 1, x + 1, l) = At(y + 2, 0, l - channels)
      BY <1>2, <2>1, <3>1 DEF At, channels, sum_step
    <3>3. 0 \in 0 .. width
      BY <1>2
    <3>4. QED
      BY <1>1, <1>2, <1>3, <2>1, <3>1, <3>2, <3>3, AtInside
  <2>4. QED
    BY <2>2, <2>3
<1>6. QED
  BY <1>4, <1>5

(* After the last row every place has its sum. *)
LEMMA AllSumsDone ==
  ASSUME SseIInv, variant # "none", y = height,
         NEW j \in 0 .. width, NEW i \in 0 .. height, NEW c \in 0 .. channels - 1
  PROVE  memory[i * sum_step + j * channels + c] = Expected(j, i, c)
<1>1. SseTypeOK /\ SumsDone /\ x = -1
  BY DEF SseIInv, SseTypeOK
<1>2. At(i, j, c) \in 0 .. Size(width, height) - 1
  BY <1>1, AtInside
<1>3. Frontier = Size(width, height) /\ Size(width, height) \in Int
  BY <1>1 DEF SseTypeOK, Frontier, At, Size, sum_step, channels
<1>4. At(i, j, c) < Frontier
  BY <1>2, <1>3
<1>5. QED
  BY <1>1, <1>4 DEF SumsDone, At

(* The integral image that the SSE loops compute has the exact sum of every *)
(* rectangle, although stores of four or two sums overlap what follows the  *)
(* tenth.                                                                   *)
THEOREM IntegralImageIsExact == SseSpec => []IntegralIsExact
<1>1. SseIInv => IntegralIsExact
  BY StoresInside, AllSumsDone DEF IntegralIsExact
<1>2. QED
  BY <1>1, SseStart, SseStep, PTL DEF SseSpec

-----------------------------------------------------------------------------
(*                                  Areas                                  *)

-----------------------------------------------------------------------------
(* There are as many pixels as width times height. *)
LEMMA PixelsCount == IsFiniteSet(PIXELS) /\ Cardinality(PIXELS) = MASK_WIDTH * MASK_HEIGHT
<1> DEFINE X == 0 .. MASK_WIDTH - 1
           Y == 0 .. MASK_HEIGHT - 1
<1>1. IsFiniteSet(X) /\ Cardinality(X) = MASK_WIDTH
  BY FS_Interval, FillAssumption
<1>2. IsFiniteSet(Y) /\ Cardinality(Y) = MASK_HEIGHT
  BY FS_Interval, FillAssumption
<1>3. PIXELS = X \X Y
  BY DEF PIXELS
<1> HIDE DEF X, Y
<1>4. QED
  BY <1>1, <1>2, <1>3, FS_Product

(* The scan meets every pixel. *)
LEMMA PixelsInRows ==
  /\ \A i \in 0 .. MASK_WIDTH * MASK_HEIGHT - 1 : Pixel(i) \in PIXELS
  /\ \A p \in PIXELS : \E i \in 0 .. MASK_WIDTH * MASK_HEIGHT - 1 : Pixel(i) = p
<1> USE FillAssumption
<1>1. ASSUME NEW i \in 0 .. MASK_WIDTH * MASK_HEIGHT - 1 PROVE Pixel(i) \in PIXELS
  <2>0. MASK_WIDTH * MASK_HEIGHT \in Nat
    OBVIOUS
  <2>1. i \in Nat /\ i < MASK_WIDTH * MASK_HEIGHT
    BY <2>0
  <2>2. PICK q \in Nat, r \in 0 .. MASK_WIDTH - 1 :
            i = MASK_WIDTH * q + r /\ r = i % MASK_WIDTH /\ q = i \div MASK_WIDTH
    BY <2>1, DivMod, Zenon
  <2>3. q < MASK_HEIGHT
    <3>1. SUFFICES ASSUME q >= MASK_HEIGHT PROVE FALSE
      BY <2>2
    <3>2. MASK_WIDTH * (q - MASK_HEIGHT) >= 0
      <4>1. \A a, b \in Nat : a * b >= 0
        OBVIOUS
      <4>2. q - MASK_HEIGHT \in Nat /\ MASK_WIDTH \in Nat
        BY <2>2, <3>1
      <4>3. QED
        BY <4>1, <4>2
    <3>3. MASK_WIDTH * (q - MASK_HEIGHT) = MASK_WIDTH * q - MASK_WIDTH * MASK_HEIGHT
      BY <2>2
    <3>4. MASK_WIDTH * q \in Int
      BY <2>2
    <3>5. QED
      BY <2>0, <2>1, <2>2, <3>2, <3>3, <3>4
  <2>4. QED
    BY <2>2, <2>3 DEF Pixel, PIXELS
<1>2. ASSUME NEW p \in PIXELS
      PROVE  \E i \in 0 .. MASK_WIDTH * MASK_HEIGHT - 1 : Pixel(i) = p
  <2>1. p = <<p[1], p[2]>> /\ p[1] \in 0 .. MASK_WIDTH - 1 /\ p[2] \in 0 .. MASK_HEIGHT - 1
    BY DEF PIXELS
  <2>2. MASK_WIDTH * p[2] + p[1] \in 0 .. MASK_WIDTH * MASK_HEIGHT - 1
    BY <2>1, Flat
  <2>3. /\ (MASK_WIDTH * p[2] + p[1]) % MASK_WIDTH = p[1]
        /\ (MASK_WIDTH * p[2] + p[1]) \div MASK_WIDTH = p[2]
    <3>1. MASK_WIDTH * p[2] + p[1] \in Nat /\ p[2] \in Int
      BY <2>1, <2>2
    <3>2. QED
      BY <2>1, <3>1, Division
  <2>4. Pixel(MASK_WIDTH * p[2] + p[1]) = p
    BY <2>1, <2>3 DEF Pixel
  <2>5. QED
    BY <2>2, <2>4
<1>3. QED
  BY <1>1, <1>2

-----------------------------------------------------------------------------
(* Areas. *)
LEMMA NearBoth ==
  ASSUME NEW p \in PIXELS, NEW q \in PIXELS, NEW d \in Int
  PROVE  Near(p, q, d) => Near(q, p, d)
<1>1. p[1] \in Int /\ p[2] \in Int /\ q[1] \in Int /\ q[2] \in Int
  BY FillAssumption DEF PIXELS
<1>2. QED
  BY <1>1 DEF Near

(* A closed set has, of the areas' pixels, all near its own. *)
LEMMA ClosedIs ==
  ASSUME NEW inside, NEW d, NEW part
  PROVE  part \in Closed(inside, d) <=>
            /\ part \subseteq inside
            /\ \A p \in part, q \in inside : Near(p, q, d) => q \in part
BY DEF Closed

(* An area has its pixel, is closed and is the least such set: ... *)
LEMMA AreaIsLeast ==
  ASSUME NEW inside \in SUBSET PIXELS, NEW d, NEW p \in inside
  PROVE  /\ p \in Area(p, Closed(inside, d))
         /\ Area(p, Closed(inside, d)) \in Closed(inside, d)
         /\ \A part \in Closed(inside, d) : p \in part => Area(p, Closed(inside, d)) \subseteq part
<1> DEFINE closed == Closed(inside, d)
<1>1. \A q : q \in Area(p, closed) <=> q \in PIXELS /\ \A part \in closed : p \in part => q \in part
  BY DEF Area
<1>2. inside \in closed
  BY ClosedIs
<1>3. Area(p, closed) \subseteq inside
  BY <1>1, <1>2
<1>4. ASSUME NEW r \in Area(p, closed), NEW q \in inside, Near(r, q, d)
      PROVE  q \in Area(p, closed)
  <2>1. ASSUME NEW part \in closed, p \in part PROVE q \in part
    <3>1. r \in part
      BY <1>1, <2>1
    <3>2. QED
      BY <1>4, <2>1, <3>1, ClosedIs
  <2>2. QED
    BY <1>1, <2>1
<1>5. Area(p, closed) \in closed
  BY <1>3, <1>4, ClosedIs
<1>6. p \in Area(p, closed)
  BY <1>1
<1>7. QED
  BY <1>1, <1>5, <1>6

(* ... two areas are the same or apart. *)
LEMMA AreasApart ==
  ASSUME NEW inside \in SUBSET PIXELS, NEW d \in Int, NEW p \in inside,
         NEW q \in Area(p, Closed(inside, d))
  PROVE  q \in inside /\ Area(q, Closed(inside, d)) = Area(p, Closed(inside, d))
<1> DEFINE A(r) == Area(r, Closed(inside, d))
<1>1. p \in A(p) /\ A(p) \in Closed(inside, d)
  BY AreaIsLeast
<1>2. q \in inside
  BY <1>1, ClosedIs
<1>3. /\ q \in A(q) /\ A(q) \in Closed(inside, d)
      /\ \A part \in Closed(inside, d) : q \in part => A(q) \subseteq part
  BY <1>2, AreaIsLeast
<1>4. A(q) \subseteq A(p)
  BY <1>1, <1>3
<1>5. /\ A(p) \subseteq inside /\ A(q) \subseteq inside
      /\ \A r \in A(p), s \in inside : Near(r, s, d) => s \in A(p)
      /\ \A r \in A(q), s \in inside : Near(r, s, d) => s \in A(q)
  BY <1>1, <1>3, ClosedIs
<1>6. A(p) \ A(q) \in Closed(inside, d)
  <2>1. ASSUME NEW r \in A(p) \ A(q), NEW s \in inside, Near(r, s, d)
        PROVE  s \in A(p) \ A(q)
    <3>1. s \in A(p)
      BY <1>5, <2>1
    <3>2. r \in PIXELS /\ s \in PIXELS /\ r \in inside
      BY <1>5
    <3>3. Near(s, r, d)
      BY <2>1, <3>2, NearBoth
    <3>4. s \notin A(q)
      BY <1>5, <3>2, <3>3
    <3>5. QED
      BY <3>1, <3>4
  <2>2. QED
    BY <1>5, <2>1, ClosedIs
<1>7. p \in A(q)
  <2>1. SUFFICES ASSUME p \notin A(q) PROVE FALSE
    OBVIOUS
  <2>2. A(p) \subseteq A(p) \ A(q)
    <3>1. p \in A(p) \ A(q)
      BY <1>1, <2>1
    <3>2. QED
      BY <1>6, <3>1, AreaIsLeast
  <2>3. QED
    BY <1>3, <2>2
<1>8. A(p) \subseteq A(q)
  BY <1>3, <1>7, AreaIsLeast
<1>9. QED
  BY <1>2, <1>4, <1>8

-----------------------------------------------------------------------------
(* Elements numbered by how many come before them are numbered one by one. *)
Numbered(J, number) == [i \in 1 .. Cardinality(J) |-> CHOOSE q \in J : number[q] = i]

(* The numbering lists every element, and none twice. *)
LEMMA Numbering ==
  ASSUME NEW J, IsFiniteSet(J), NEW below \in [J -> SUBSET J],
         \A q \in J : q \in below[q],
         \A q, r \in J : q # r => \/ below[q] \subseteq below[r] /\ r \notin below[q]
                                  \/ below[r] \subseteq below[q] /\ q \notin below[r]
  PROVE  /\ Cardinality(J) \in Nat /\ Numbered(J, [k \in J |-> Cardinality(below[k])]) \in Seq(J)
         /\ Len(Numbered(J, [k \in J |-> Cardinality(below[k])])) = Cardinality(J)
         /\ \A q \in J : \E i \in 1 .. Cardinality(J) : Numbered(J, [k \in J |-> Cardinality(below[k])])[i] = q
         /\ \A i, j \in 1 .. Cardinality(J) :
                Numbered(J, [k \in J |-> Cardinality(below[k])])[i] = Numbered(J, [k \in J |-> Cardinality(below[k])])[j] => i = j
<1> DEFINE n == Cardinality(J)
           number == [q \in J |-> Cardinality(below[q])]
           s == Numbered(J, number)
<1>1. n \in Nat
  BY FS_CardinalityType
<1>2. \A q \in J : IsFiniteSet(below[q]) /\ Cardinality(below[q]) \in 1 .. n
  <2> TAKE q \in J
  <2>1. IsFiniteSet(below[q]) /\ Cardinality(below[q]) <= n
    BY FS_Subset
  <2>2. Cardinality(below[q]) \in Nat
    BY <2>1, FS_CardinalityType
  <2>3. Cardinality(below[q]) # 0
    BY <2>1, FS_EmptySet
  <2>4. QED
    BY <1>1, <2>1, <2>2, <2>3
<1>3. ASSUME NEW q \in J, NEW r \in J, q # r PROVE Cardinality(below[q]) # Cardinality(below[r])
  <2>1. ASSUME NEW a \in J, NEW b \in J, below[a] \subseteq below[b], b \notin below[a]
        PROVE  Cardinality(below[a]) # Cardinality(below[b])
    <3>1. below[a] # below[b]
      BY <2>1
    <3>2. QED
      BY <1>2, <2>1, <3>1, FS_Subset
  <2>2. QED
    BY <1>3, <2>1
<1>4. number \in Injection(J, 1 .. n)
  <2>1. number \in [J -> 1 .. n]
    BY <1>2
  <2>2. \A q, r \in J : number[q] = number[r] => q = r
    BY <1>3
  <2>3. QED
    BY <2>1, <2>2 DEF Injection, IsInjective
<1>5. number \in Surjection(J, 1 .. n)
  <2>1. IsFiniteSet(1 .. n) /\ Cardinality(1 .. n) = n
    BY <1>1, FS_Interval
  <2>2. QED
    BY <1>4, <2>1, FS_Injection
<1>6. \A i \in 1 .. n : \E q \in J : Cardinality(below[q]) = i
  BY <1>5 DEF Surjection
<1>7. \A i \in 1 .. n : s[i] \in J /\ Cardinality(below[s[i]]) = i
  BY <1>6 DEF Numbered
<1>8. s \in [1 .. n -> J]
  BY <1>7 DEF Numbered
<1>9. s \in Seq(J) /\ Len(s) = n
  BY <1>1, <1>8
<1>10. \A q \in J : \E i \in 1 .. n : s[i] = q
  <2> TAKE q \in J
  <2>1. Cardinality(below[q]) \in 1 .. n
    BY <1>2
  <2>2. s[Cardinality(below[q])] = q
    BY <1>3, <1>7, <2>1
  <2>3. QED
    BY <2>1, <2>2
<1>11. \A i, j \in 1 .. n : s[i] = s[j] => i = j
  BY <1>7
<1>12. QED
  BY <1>1, <1>9, <1>10, <1>11

-----------------------------------------------------------------------------
(* Both parts of a sequence put together. *)
LEMMA Parts ==
  ASSUME NEW S, NEW a \in Seq(S), NEW b \in Seq(S)
  PROVE  /\ a \o b \in Seq(S) /\ Len(a \o b) = Len(a) + Len(b)
         /\ \A i \in 1 .. Len(a) : (a \o b)[i] = a[i]
         /\ \A i \in 1 .. Len(b) : (a \o b)[Len(a) + i] = b[i]
<1>1. Len(a) \in Nat /\ Len(b) \in Nat
  OBVIOUS
<1>2. /\ a \o b \in Seq(S) /\ Len(a \o b) = Len(a) + Len(b)
      /\ \A i \in 1 .. Len(a) + Len(b) : (a \o b)[i] =
              IF i <= Len(a) THEN a[i] ELSE b[i - Len(a)]
  BY ConcatProperties
<1>3. QED
  BY <1>1, <1>2

(* A stack without repetitions when an element is taken off it, ... *)
LEMMA TakenOff ==
  ASSUME NEW G, NEW old \in Seq(G), old # <<>>,
         \A i, j \in 1 .. Len(old) : old[i] = old[j] => i = j
  PROVE  LET f == SubSeq(old, 1, Len(old) - 1) IN
         /\ old[Len(old)] \in G
         /\ f \in Seq(G)
         /\ \A i, j \in 1 .. Len(f) : f[i] = f[j] => i = j
         /\ \A q \in G : (\A i \in 1 .. Len(f) : f[i] # q) =>
                (q = old[Len(old)] \/ \A i \in 1 .. Len(old) : old[i] # q)
<1> DEFINE n == Len(old) - 1
           f == SubSeq(old, 1, n)
<1>1. Len(old) \in Nat /\ Len(old) # 0 /\ \A i \in 1 .. Len(old) : old[i] \in G
  BY EmptySeq
<1>2. n \in Nat
  BY <1>1
<1>3. f \in Seq(G) /\ Len(f) = n /\ \A i \in 1 .. n : f[i] = old[i]
  <2>1. \A i \in 1 .. n : old[i] \in G
    BY <1>1
  <2> HIDE DEF n
  <2>2. /\ SubSeq(old, 1, n) \in Seq(G)
        /\ Len(SubSeq(old, 1, n)) = IF 1 <= n THEN n - 1 + 1 ELSE 0
        /\ \A i \in 1 .. n - 1 + 1 : SubSeq(old, 1, n)[i] = old[1 + i - 1]
    BY <1>2, <2>1, SubSeqProperties
  <2>3. QED
    BY <1>2, <2>2
<1>4. \A i, j \in 1 .. Len(f) : f[i] = f[j] => i = j
  <2> TAKE i \in 1 .. Len(f), j \in 1 .. Len(f)
  <2>1. i \in 1 .. n /\ j \in 1 .. n /\ i \in 1 .. Len(old) /\ j \in 1 .. Len(old)
    BY <1>1, <1>3
  <2> HIDE DEF n, f
  <2>2. f[i] = old[i] /\ f[j] = old[j]
    BY <1>3, <2>1
  <2>3. QED
    BY <2>1, <2>2
<1>5. old[Len(old)] \in G
  BY <1>1
<1>6. \A q \in G : (\A i \in 1 .. Len(f) : f[i] # q) =>
          (q = old[Len(old)] \/ \A i \in 1 .. Len(old) : old[i] # q)
  <2> SUFFICES ASSUME NEW q \in G, \A i \in 1 .. Len(f) : f[i] # q,
                      NEW k \in 1 .. Len(old), old[k] = q
               PROVE  q = old[Len(old)]
    OBVIOUS
  <2>1. k \in 1 .. n \/ k = Len(old)
    BY <1>1
  <2>2. k \in 1 .. n => f[k] = q /\ k \in 1 .. Len(f)
    <3> HIDE DEF f, n
    <3>1. QED
      BY <1>3
  <2> HIDE DEF f, n
  <2>3. QED
    BY <2>1, <2>2
<1>7. QED
  BY <1>3, <1>4, <1>5, <1>6

(* A stack that repeats nothing, that has all of a set, or all of another. *)
Once(s) == \A i, j \in 1 .. Len(s) : s[i] = s[j] => i = j
Has(s, J) == \A q \in J : \E i \in 1 .. Len(s) : s[i] = q
HasAll(s, f) == \A i \in 1 .. Len(f) : \E k \in 1 .. Len(s) : s[k] = f[i]

(* ... and when others are pushed on what is left, f. *)
LEMMA PushedOn ==
  ASSUME NEW G, NEW J, J \cap G = {}, NEW f \in Seq(G), NEW s \in Seq(J),
         Once(f), Once(s), Has(s, J)
  PROVE  f \o s \in Seq(G \cup J) /\ Once(f \o s) /\ Has(f \o s, J) /\ HasAll(f \o s, f)
<1>01. \A i, j \in 1 .. Len(f) : f[i] = f[j] => i = j
  BY DEF Once
<1>02. \A q \in J : \E i \in 1 .. Len(s) : s[i] = q
  BY DEF Has
<1>03. \A i, j \in 1 .. Len(s) : s[i] = s[j] => i = j
  BY DEF Once
<1> DEFINE new == f \o s
           n == Len(f)
<1>1. f \in Seq(G \cup J) /\ s \in Seq(G \cup J)
  OBVIOUS
<1>2. /\ new \in Seq(G \cup J) /\ Len(new) = n + Len(s)
      /\ \A i \in 1 .. n : new[i] = f[i]
      /\ \A i \in 1 .. Len(s) : new[n + i] = s[i]
  BY <1>1, Parts
<1>3. n \in Nat /\ Len(s) \in Nat
  OBVIOUS
<1>4. /\ \A i \in 1 .. n : f[i] \in G
      /\ \A i \in 1 .. Len(s) : s[i] \in J
  OBVIOUS
<1> HIDE DEF new, n
<1>5. \A i \in 1 .. Len(new) : i \in 1 .. n \/ \E k \in 1 .. Len(s) : i = n + k
  <2> TAKE i \in 1 .. Len(new)
  <2>1. CASE i <= n
    BY <1>3, <2>1
  <2>2. CASE i > n
    <3>1. i - n \in 1 .. Len(s) /\ i = n + (i - n)
      BY <1>2, <1>3, <2>2
    <3>2. QED
      BY <3>1
  <2>3. QED
    BY <1>3, <2>1, <2>2
<1>6. ASSUME NEW i \in 1 .. Len(new), NEW j \in 1 .. Len(new), new[i] = new[j]
      PROVE  i = j
  <2>1. CASE i \in 1 .. n /\ j \in 1 .. n
    BY <1>01, <1>2, <1>6, <2>1 DEF n
  <2>2. ASSUME NEW a \in 1 .. n, NEW k \in 1 .. Len(s), new[a] = new[n + k]
        PROVE  FALSE
    BY <1>2, <1>4, <2>2
  <2>3. CASE \E k, l \in 1 .. Len(s) : i = n + k /\ j = n + l
    <3>1. PICK k \in 1 .. Len(s), l \in 1 .. Len(s) : i = n + k /\ j = n + l
      BY <2>3
    <3>2. s[k] = s[l]
      BY <1>2, <1>6, <3>1
    <3>3. QED
      BY <1>03, <3>1, <3>2
  <2>4. CASE i \in 1 .. n /\ \E l \in 1 .. Len(s) : j = n + l
    BY <1>6, <2>2, <2>4
  <2>5. CASE j \in 1 .. n /\ \E k \in 1 .. Len(s) : i = n + k
    BY <1>6, <2>2, <2>5
  <2>6. QED
    BY <1>5, <2>1, <2>3, <2>4, <2>5
<1>7. \A i \in 1 .. n : \E k \in 1 .. Len(new) : new[k] = f[i]
  <2> TAKE i \in 1 .. n
  <2>1. i \in 1 .. Len(new)
    BY <1>2, <1>3
  <2>2. QED
    BY <1>2, <2>1
<1>8. \A q \in J : \E i \in 1 .. Len(new) : new[i] = q
  <2> TAKE q \in J
  <2>1. PICK i \in 1 .. Len(s) : s[i] = q
    BY <1>02
  <2>2. n + i \in 1 .. Len(new)
    BY <1>2, <1>3
  <2>3. new[n + i] = q
    BY <1>2, <2>1, Zenon
  <2>4. QED
    BY <2>2, <2>3, Zenon
<1>9. Once(new) /\ Has(new, J)
  BY <1>6, <1>8 DEF Once, Has
<1>10. HasAll(new, f)
  BY <1>7 DEF HasAll, n
<1>11. QED
  BY <1>2, <1>9, <1>10 DEF new

-----------------------------------------------------------------------------
(* The pixels of the areas in the image of the call, and how far apart those  *)
(* of one area may be. *)
Inside ==
    IF algorithm = "floodfill" THEN {p \in PIXELS : before[p] = COLOR}
                               ELSE {p \in PIXELS : before[p] >= MIN_COLOR}

(* How far apart neighbours may be. *)
Distance == IF algorithm = "floodfill" THEN 1 ELSE limit

AreaOf(p) == Area(p, Closed(Inside, Distance))

(* What has been painted, and of it all but the area that is being grown. *)
Touched == {p \in Inside : image[p] # before[p]}

(* An area is being grown. *)
Working == fill_pc \in {"grow", "erase"}

Complete == IF Working THEN Touched \ AreaOf(Pixel(at)) ELSE Touched

(* A painted pixel is as it will stay. *)
Settled(p) ==
    IF algorithm = "floodfill"
    THEN image[p] = IF Cardinality(AreaOf(p)) < limit THEN 0 ELSE FILL_WITH
    ELSE image[p] = RESULT_COLOR /\ \E q \in AreaOf(p) : before[q] >= START_COLOR

FillTypeOK ==
    /\ fill_pc \in {"idle", "scan", "grow", "erase", "done"}
    /\ algorithm \in {"floodfill", "find_rects"}
    /\ limit \in Int /\ at \in Nat
    /\ before \in [PIXELS -> IF algorithm = "floodfill" THEN {0, COLOR} ELSE 0 .. START_COLOR]
    /\ image \in [PIXELS -> 0 .. 2]
    /\ ~Working => stack = <<>>

(* Outside the areas nothing changes; the complete ones are whole and settled. *)
ImageInv ==
    /\ \A p \in PIXELS \ Inside : image[p] = before[p]
    /\ \A p \in Complete : Settled(p) /\ AreaOf(p) \subseteq Complete

(* No area starts before the place the scan is at, at the end none at all. *)
ScanInv ==
    /\ \A i \in 0 .. MASK_WIDTH * MASK_HEIGHT - 1 : i < at => ~Starts(Pixel(i))
    /\ fill_pc = "done" => \A p \in PIXELS : ~Starts(p)

(* While an area is grown, what it has is painted and what it has not joins; *)
(* it has every neighbour of its pixels that are not on the stack. *)
GrowInv ==
    Working =>
        /\ Pixel(at) \in grown /\ Pixel(at) \in Inside
        /\ algorithm = "find_rects" => before[Pixel(at)] >= START_COLOR
        /\ grown \subseteq AreaOf(Pixel(at))
        /\ \A q \in grown : image[q] = Paint
        /\ \A q \in AreaOf(Pixel(at)) \ grown : Joins(q)
        /\ stack \in Seq(grown) /\ \A i, j \in 1 .. Len(stack) : stack[i] = stack[j] => i = j
        /\ \A q \in grown : (\A i \in 1 .. Len(stack) : stack[i] # q) =>
                \A r \in Inside : Near(q, r, Distance) => r \in grown
        /\ fill_pc = "erase" =>
                algorithm = "floodfill" /\ Cardinality(AreaOf(Pixel(at))) < limit

(* The areas that find_rects() is through with and that have a rectangle. *)
Large == {area \in {AreaOf(p) : p \in Complete} : Cardinality(area) > 1}

(* The rectangles are those of the large areas, one for each. *)
RectsInv ==
    algorithm = "find_rects" =>
        /\ rects \in Seq({Corners(area) : area \in SUBSET PIXELS})
        /\ {rects[i] : i \in DOMAIN rects} = {Corners(area) : area \in Large}
        /\ Len(rects) = Cardinality(Large)

FillIInv == FillTypeOK /\ ImageInv /\ ScanInv /\ GrowInv /\ RectsInv

-----------------------------------------------------------------------------
(* Which pixels belong to areas. *)
LEMMA InsideIs ==
  ASSUME FillTypeOK
  PROVE  /\ Inside \in SUBSET PIXELS /\ Distance \in Int
         /\ \A p \in PIXELS : p \in Inside <=>
                IF algorithm = "floodfill" THEN before[p] = COLOR ELSE before[p] >= MIN_COLOR
BY DEF FillTypeOK, Inside, Distance

(* The area of a pixel is closed, the least such set, and finite. *)
LEMMA AreaOfIs ==
  ASSUME FillTypeOK, NEW p \in Inside
  PROVE  /\ p \in AreaOf(p) /\ AreaOf(p) \subseteq Inside
         /\ \A q \in AreaOf(p), r \in Inside : Near(q, r, Distance) => r \in AreaOf(p)
         /\ \A q \in AreaOf(p) : AreaOf(q) = AreaOf(p)
         /\ \A part \in SUBSET Inside :
                (p \in part /\ \A q \in part, r \in Inside : Near(q, r, Distance) => r \in part)
                    => AreaOf(p) \subseteq part
         /\ IsFiniteSet(AreaOf(p)) /\ Cardinality(AreaOf(p)) \in Nat
<1>1. Inside \in SUBSET PIXELS /\ Distance \in Int
  BY InsideIs
<1>2. AreaOf(p) \in Closed(Inside, Distance) /\ p \in AreaOf(p)
  BY <1>1, AreaIsLeast DEF AreaOf
<1>3. \A part \in Closed(Inside, Distance) : p \in part => AreaOf(p) \subseteq part
  BY <1>1, AreaIsLeast DEF AreaOf
<1>4. \A q \in AreaOf(p) : AreaOf(q) = AreaOf(p)
  BY <1>1, AreasApart DEF AreaOf
<1>5. /\ AreaOf(p) \subseteq Inside
      /\ \A q \in AreaOf(p), r \in Inside : Near(q, r, Distance) => r \in AreaOf(p)
  BY <1>2, ClosedIs
<1>6. IsFiniteSet(AreaOf(p)) /\ Cardinality(AreaOf(p)) \in Nat
  BY <1>1, <1>5, PixelsCount, FS_Subset, FS_CardinalityType
<1>7. ASSUME NEW part \in SUBSET Inside, p \in part,
             \A q \in part, r \in Inside : Near(q, r, Distance) => r \in part
      PROVE  AreaOf(p) \subseteq part
  <2>1. part \in Closed(Inside, Distance)
    BY <1>7, ClosedIs
  <2>2. QED
    BY <1>3, <1>7, <2>1
<1>8. QED
  BY <1>2, <1>4, <1>5, <1>6, <1>7

(* The neighbours looked at are those near; p itself may be left out. *)
LEMMA OffsetsAreNear ==
  ASSUME FillTypeOK, NEW p \in PIXELS, NEW q \in PIXELS
  PROVE  /\ Offset(p, q) \in Offsets => Near(p, q, Distance)
         /\ Near(p, q, Distance) /\ p # q => Offset(p, q) \in Offsets
<1>1. /\ p = <<p[1], p[2]>> /\ q = <<q[1], q[2]>>
      /\ p[1] \in Int /\ p[2] \in Int /\ q[1] \in Int /\ q[2] \in Int
  BY FillAssumption DEF PIXELS
<1>2. CASE algorithm = "floodfill"
  <2>1. Offsets = {<<-1, 0>>, <<-1, -1>>, <<0, -1>>, <<1, -1>>, <<1, 0>>, <<1, 1>>, <<0, 1>>, <<-1, 1>>}
    <3>1. DOMAIN Around = 1 .. 8
      BY DEF Around
    <3>2. Offsets = {Around[1], Around[2], Around[3], Around[4],
                     Around[5], Around[6], Around[7], Around[8]}
      BY <1>2, <3>1 DEF Offsets
    <3>3. QED
      BY <3>2 DEF Around
  <2>2. Distance = 1
    BY <1>2 DEF Distance
  <2>3. Offset(p, q) \in Offsets =>
            q[1] - p[1] \in -1 .. 1 /\ q[2] - p[2] \in -1 .. 1
    BY <1>1, <2>1 DEF Offset
  <2>4. (q[1] - p[1] \in -1 .. 1 /\ q[2] - p[2] \in -1 .. 1 /\ Offset(p, q) # <<0, 0>>)
            => Offset(p, q) \in Offsets
    <3>1. ASSUME NEW a \in -1 .. 1, NEW b \in -1 .. 1, <<a, b>> # <<0, 0>>
          PROVE  <<a, b>> \in Offsets
      <4>1. (a = -1 \/ a = 0 \/ a = 1) /\ (b = -1 \/ b = 0 \/ b = 1)
        OBVIOUS
      <4>2. QED
        BY <2>1, <3>1, <4>1
    <3>2. QED
      BY <3>1 DEF Offset
  <2>5. p # q => Offset(p, q) # <<0, 0>>
    BY <1>1 DEF Offset
  <2>6. Near(p, q, 1) <=> q[1] - p[1] \in -1 .. 1 /\ q[2] - p[2] \in -1 .. 1
    <3>1. p[1] \in Int /\ p[2] \in Int /\ q[1] \in Int /\ q[2] \in Int
      BY <1>1
    <3>2. \A a, b \in Int : a - b \in -1 .. 1 <=> b - a \in -1 .. 1
      OBVIOUS
    <3>3. QED
      BY <3>1, <3>2 DEF Near
  <2>7. QED
    BY <2>2, <2>3, <2>4, <2>5, <2>6
<1>3. CASE algorithm # "floodfill"
  <2>1. Offsets = (-limit .. limit) \X (-limit .. limit) /\ Distance = limit /\ limit \in Int
    BY <1>3 DEF Offsets, Distance, FillTypeOK
  <2>2. QED
    BY <1>1, <2>1 DEF Offset, Near
<1>4. QED
  BY <1>2, <1>3

(* The eight offsets are all different. *)
LEMMA AroundOnce ==
  /\ DOMAIN Around = 1 .. 8
  /\ \A i, j \in 1 .. 8 : Around[i] = Around[j] => i = j
<1>1. DOMAIN Around = 1 .. 8
  BY DEF Around
<1>2. ASSUME NEW i \in 1 .. 8, NEW j \in 1 .. 8, Around[i] = Around[j] PROVE i = j
  <2>1. \A k \in 1 .. 8 : \/ k = 1 \/ k = 2 \/ k = 3 \/ k = 4 \/ k = 5 \/ k = 6 \/ k = 7 \/ k = 8
    OBVIOUS
  <2>2. \A k \in 1 .. 8 : Around[k] = <<Around[k][1], Around[k][2]>>
    BY <2>1 DEF Around
  <2>3. /\ Around[i][1] = Around[j][1] /\ Around[i][2] = Around[j][2]
    BY <1>2
  <2>4. QED
    BY <2>1, <2>3 DEF Around
<1>3. QED
  BY <1>1, <1>2

(* The order of turns is one. *)
LEMMA TurnsInOrder ==
  ASSUME FillTypeOK, NEW o \in Offsets, NEW u \in Offsets
  PROVE  /\ NotAfter(o, o)
         /\ o # u => /\ NotAfter(o, u) \/ NotAfter(u, o)
                     /\ ~(NotAfter(o, u) /\ NotAfter(u, o))
         /\ \A v \in Offsets : NotAfter(v, o) /\ NotAfter(o, u) => NotAfter(v, u)
<1>1. CASE algorithm = "floodfill"
  <2>1. \A k \in Offsets : \E i \in 1 .. 8 : Around[i] = k
    BY <1>1, AroundOnce DEF Offsets
  <2>2. \A k, l : NotAfter(k, l) <=> \E i, j \in 1 .. 8 : i <= j /\ Around[i] = k /\ Around[j] = l
    BY <1>1, AroundOnce DEF NotAfter
  <2>3. PICK a \in 1 .. 8 : Around[a] = o
    BY <2>1
  <2>4. PICK b \in 1 .. 8 : Around[b] = u
    BY <2>1
  <2>5. \A k : NotAfter(k, o) <=> \E i \in 1 .. 8 : i <= a /\ Around[i] = k
    BY <2>2, <2>3, AroundOnce
  <2>6. \A k : NotAfter(k, u) <=> \E i \in 1 .. 8 : i <= b /\ Around[i] = k
    BY <2>2, <2>4, AroundOnce
  <2>7. NotAfter(o, u) <=> a <= b
    BY <2>3, <2>6, AroundOnce
  <2>8. NotAfter(u, o) <=> b <= a
    BY <2>4, <2>5, AroundOnce
  <2>9. o # u => a # b
    BY <2>3, <2>4
  <2>10. NotAfter(o, o)
    BY <2>3, <2>5
  <2>11. QED
    BY <2>5, <2>6, <2>7, <2>8, <2>9, <2>10
<1>2. CASE algorithm # "floodfill"
  <2>1. Offsets = (-limit .. limit) \X (-limit .. limit) /\ limit \in Int
    BY <1>2 DEF Offsets, FillTypeOK
  <2>2. \A k \in Offsets : k = <<k[1], k[2]>> /\ k[1] \in Int /\ k[2] \in Int
    BY <2>1
  <2>3. \A k, l : NotAfter(k, l) <=> (k[1] < l[1] \/ (k[1] = l[1] /\ k[2] <= l[2]))
    BY <1>2 DEF NotAfter
  <2>4. QED
    BY <2>2, <2>3
<1>3. QED
  BY <1>1, <1>2

(* The neighbours that join are pushed one by one. *)
LEMMA PushedInTurn ==
  ASSUME FillTypeOK, NEW p \in PIXELS
  PROVE  /\ InTurn(p) \in Seq(Joining(p))
         /\ \A q \in Joining(p) : \E i \in 1 .. Len(InTurn(p)) : InTurn(p)[i] = q
         /\ \A i, j \in 1 .. Len(InTurn(p)) : InTurn(p)[i] = InTurn(p)[j] => i = j
<1> DEFINE J == Joining(p)
           below == [q \in J |-> {r \in J : NotAfter(Offset(p, r), Offset(p, q))}]
           number == [q \in J |-> Cardinality({r \in J : NotAfter(Offset(p, r), Offset(p, q))})]
<1>1. \A q \in J : q \in PIXELS /\ Offset(p, q) \in Offsets
  BY DEF Joining
<1>2. IsFiniteSet(J)
  BY <1>1, PixelsCount, FS_Subset
<1>3. InTurn(p) = Numbered(J, number)
  BY DEF InTurn, Numbered
<1>31. number = [q \in J |-> Cardinality(below[q])]
  <2> HIDE DEF J
  <2>1. QED
    OBVIOUS
<1>4. \A q, r \in J : q # r => Offset(p, q) # Offset(p, r)
  <2>1. \A q \in PIXELS : q = <<q[1], q[2]>> /\ q[1] \in Int /\ q[2] \in Int
    BY FillAssumption DEF PIXELS
  <2>2. ASSUME NEW q \in PIXELS, NEW r \in PIXELS, Offset(p, q) = Offset(p, r)
        PROVE  q = r
    <3>1. q[1] - p[1] = r[1] - p[1] /\ q[2] - p[2] = r[2] - p[2]
      BY <2>2 DEF Offset
    <3>2. /\ p[1] \in Int /\ p[2] \in Int /\ q[1] \in Int /\ q[2] \in Int
          /\ r[1] \in Int /\ r[2] \in Int
      BY <2>1
    <3>3. q[1] = r[1] /\ q[2] = r[2]
      BY <3>1, <3>2
    <3>4. QED
      BY <2>1, <3>3
  <2>3. QED
    BY <1>1, <2>2
<1>5. \A q, r \in J : r \in below[q] <=> NotAfter(Offset(p, r), Offset(p, q))
  OBVIOUS
<1>6. below \in [J -> SUBSET J]
  OBVIOUS
<1>7. \A q \in J : q \in below[q]
  <2> TAKE q \in J
  <2>1. NotAfter(Offset(p, q), Offset(p, q))
    BY <1>1, TurnsInOrder
  <2>2. QED
    BY <1>5, <2>1
<1>8. ASSUME NEW q \in J, NEW r \in J, q # r
      PROVE  \/ below[q] \subseteq below[r] /\ r \notin below[q]
             \/ below[r] \subseteq below[q] /\ q \notin below[r]
  <2> HIDE DEF J, below
  <2>1. ASSUME NEW a \in J, NEW b \in J, a # b, NotAfter(Offset(p, a), Offset(p, b))
        PROVE  below[a] \subseteq below[b] /\ b \notin below[a]
    <3>1. ~NotAfter(Offset(p, b), Offset(p, a))
      BY <1>1, <1>4, <2>1, TurnsInOrder
    <3>2. ASSUME NEW c \in J, NotAfter(Offset(p, c), Offset(p, a))
          PROVE  NotAfter(Offset(p, c), Offset(p, b))
      BY <1>1, <2>1, <3>2, TurnsInOrder
    <3>3. QED
      BY <1>5, <1>6, <3>1, <3>2
  <2>2. NotAfter(Offset(p, q), Offset(p, r)) \/ NotAfter(Offset(p, r), Offset(p, q))
    BY <1>1, <1>4, <1>8, TurnsInOrder
  <2>3. QED
    BY <1>8, <2>1, <2>2
<1> HIDE DEF J, below, number
<1>9. /\ Cardinality(J) \in Nat /\ Numbered(J, [k \in J |-> Cardinality(below[k])]) \in Seq(J)
      /\ Len(Numbered(J, [k \in J |-> Cardinality(below[k])])) = Cardinality(J)
      /\ \A q \in J : \E i \in 1 .. Cardinality(J) : Numbered(J, [k \in J |-> Cardinality(below[k])])[i] = q
      /\ \A i, j \in 1 .. Cardinality(J) :
             Numbered(J, [k \in J |-> Cardinality(below[k])])[i] = Numbered(J, [k \in J |-> Cardinality(below[k])])[j] => i = j
  BY <1>2, <1>6, <1>7, <1>8, Numbering
<1>10. QED
  BY <1>3, <1>31, <1>9 DEF J

-----------------------------------------------------------------------------
(* Areas depend on the image at the call only. *)
LEMMA SameAreas ==
  ASSUME UNCHANGED <<algorithm, before, limit>>
  PROVE  Inside' = Inside /\ Distance' = Distance /\ \A p : AreaOf(p)' = AreaOf(p)
BY DEF Inside, Distance, AreaOf

(* A pixel has been painted when it has another colour than at the call. *)
LEMMA TouchedIs ==
  /\ \A p : p \in Touched <=> p \in Inside /\ image[p] # before[p]
  /\ \A p : p \in Complete <=> p \in Touched /\ (Working => p \notin AreaOf(Pixel(at)))
BY DEF Touched, Complete

(* The same after a step that leaves the call as it is. *)
LEMMA TouchedNext ==
  ASSUME UNCHANGED <<algorithm, before, limit>>
  PROVE  /\ \A p : p \in Touched' <=> p \in Inside /\ image'[p] # before[p]
         /\ \A p : p \in Complete' <=> p \in Touched' /\ (Working' => p \notin AreaOf(Pixel(at')))
<1>1. Inside' = Inside /\ AreaOf(Pixel(at))' = AreaOf(Pixel(at'))
  BY SameAreas DEF Inside, Distance, AreaOf, Pixel
<1>2. QED
  BY <1>1 DEF Touched, Complete

(* What is not painted keeps its state. *)
LEMMA KeptImage ==
  ASSUME FillTypeOK, ImageInv, UNCHANGED <<algorithm, before, limit>>, Complete' = Complete,
         \A p \in PIXELS \ Inside : image'[p] = image[p],
         \A p \in Complete : image'[p] = image[p]
  PROVE  ImageInv'
<1>1. Inside' = Inside /\ \A p : AreaOf(p)' = AreaOf(p)
  BY SameAreas
<1>2. \A p \in Complete : Settled(p)'
  <2> TAKE p \in Complete
  <2>1. Settled(p) /\ image'[p] = image[p]
    BY DEF ImageInv
  <2>2. AreaOf(p)' = AreaOf(p)
    BY <1>1
  <2>3. QED
    BY <2>1, <2>2 DEF Settled
<1>3. \A p \in Complete : AreaOf(p)' \subseteq Complete
  <2> TAKE p \in Complete
  <2>1. AreaOf(p) \subseteq Complete
    BY DEF ImageInv
  <2>2. QED
    BY <1>1, <2>1
<1>4. \A p \in PIXELS \ Inside' : image'[p] = before'[p]
  BY <1>1 DEF ImageInv
<1>5. QED
  BY <1>2, <1>3, <1>4 DEF ImageInv

(* Rectangles stay right as long as no area is completed. *)
LEMMA KeptRects ==
  ASSUME RectsInv, UNCHANGED <<algorithm, before, limit, rects>>, Complete' = Complete
  PROVE  RectsInv'
<1>1. \A p : AreaOf(p)' = AreaOf(p)
  BY SameAreas
<1>2. Large' = Large
  BY <1>1 DEF Large
<1>3. QED
  BY <1>2 DEF RectsInv

-----------------------------------------------------------------------------
(* Without areas there are no rectangles. *)
LEMMA EmptyRects ==
  ASSUME Complete = {}, rects = <<>>
  PROVE  RectsInv
<1>1. Large = {}
  BY DEF Large
<1>2. Cardinality({}) = 0 /\ Len(<<>>) = 0
  BY FS_EmptySet, EmptySeq
<1>3. rects \in Seq({Corners(area) : area \in SUBSET PIXELS}) /\ DOMAIN rects = {}
  OBVIOUS
<1>4. QED
  BY <1>1, <1>2, <1>3 DEF RectsInv

(* The image as it was at the call, ... *)
Unpainted == image = before /\ ~Working /\ fill_pc # "done" /\ at = 0 /\ rects = <<>>

(* ... of which the invariant holds, ... *)
LEMMA Untouched == Unpainted => ImageInv /\ ScanInv /\ GrowInv /\ RectsInv
<1> SUFFICES ASSUME image = before, ~Working, fill_pc # "done", at = 0, rects = <<>>
             PROVE  ImageInv /\ ScanInv /\ GrowInv /\ RectsInv
  BY DEF Unpainted
<1>1. Complete = {}
  BY DEF Complete, Touched
<1>2. RectsInv
  BY <1>1, EmptyRects
<1>3. QED
  BY <1>1, <1>2 DEF ImageInv, ScanInv, GrowInv

(* ... as before any call, ... *)
LEMMA FillStart == FillInit => FillIInv
<1> SUFFICES ASSUME FillInit PROVE FillIInv
  OBVIOUS
<1>1. NO_IMAGE \in [PIXELS -> {0, COLOR}] /\ NO_IMAGE \in [PIXELS -> 0 .. 2]
  BY DEF NO_IMAGE
<1>2. Unpainted
  BY DEF FillInit, Working, Unpainted
<1>3. FillTypeOK
  BY <1>1 DEF FillInit, FillTypeOK
<1>4. QED
  BY <1>2, <1>3, Untouched DEF FillIInv

(* ... and after a step that begins or ends one. *)
LEMMA UntouchedNext == Unpainted' => (ImageInv /\ ScanInv /\ GrowInv /\ RectsInv)'
BY Untouched, PTL

(* A call begins with its image untouched. *)
LEMMA FillCallStep ==
  ASSUME FillIInv, NEW how, NEW picture, NEW bound \in Int, Start(how, picture, bound),
         \/ how = "floodfill" /\ picture \in MASKS
         \/ how = "find_rects" /\ picture \in SHADES
  PROVE  FillIInv'
<1>1. Unpainted'
  BY DEF Start, Working, Unpainted
<1>2. FillTypeOK'
  BY FillAssumption DEF FillTypeOK, Start, COLOR, START_COLOR
<1>3. QED
  BY <1>1, <1>2, UntouchedNext DEF FillIInv

(* After the return there is no image. *)
LEMMA FillReturnStep ==
  ASSUME FillIInv, ReturnImage
  PROVE  FillIInv'
<1>1. NO_IMAGE \in [PIXELS -> {0, COLOR}] /\ NO_IMAGE \in [PIXELS -> 0 .. 2]
  BY DEF NO_IMAGE
<1>2. Unpainted'
  BY DEF ReturnImage, Working, Unpainted
<1>3. FillTypeOK'
  BY <1>1 DEF FillTypeOK, ReturnImage, FillIInv, Working
<1>4. QED
  BY <1>2, <1>3, UntouchedNext DEF FillIInv

-----------------------------------------------------------------------------
(* A pixel an area starts from is of none that is complete. *)
LEMMA ScanStep ==
  ASSUME FillIInv, Scan
  PROVE  FillIInv'
<1> DEFINE last == MASK_WIDTH * MASK_HEIGHT - 1
           starts == {i \in at .. last : Starts(Pixel(i))}
<1>0. FillTypeOK /\ ImageInv /\ ScanInv /\ RectsInv
  BY DEF FillIInv
<1>1. ~Working /\ fill_pc = "scan" /\ UNCHANGED <<algorithm, before, limit, rects>>
  BY DEF Scan, Working
<1>2. last \in Int
  BY FillAssumption
<1>3. CASE starts = {}
  <2>1. fill_pc' = "done" /\ UNCHANGED <<image, at, stack, grown>>
    BY <1>3 DEF Scan
  <2>2. ~Working'
    BY <2>1 DEF Working
  <2>3. FillTypeOK'
    BY <1>0, <1>1, <2>1, <2>2 DEF FillTypeOK
  <2>4. Complete' = Complete
    <3>1. \A p : p \in Touched' <=> p \in Touched
      BY <1>1, <2>1, TouchedIs, TouchedNext
    <3>2. \A p : p \in Complete' <=> p \in Complete
      BY <1>1, <2>2, <3>1, TouchedIs, TouchedNext
    <3>3. QED
      BY <3>2
  <2>5. ImageInv' /\ RectsInv'
    BY <1>0, <1>1, <2>1, <2>4, KeptImage, KeptRects
  <2>6. \A p : Starts(p)' <=> Starts(p)
    BY <1>1, <2>1 DEF Starts
  <2>7. \A p \in PIXELS : ~Starts(p)
    <3> TAKE p \in PIXELS
    <3>1. PICK i \in 0 .. last : Pixel(i) = p
      BY PixelsInRows
    <3>2. CASE i < at
      BY <1>0, <3>1, <3>2 DEF ScanInv
    <3>3. CASE ~(i < at)
      <4>1. i \in at .. last
        BY <1>0, <1>2, <3>3 DEF FillTypeOK
      <4>2. QED
        BY <1>3, <3>1, <4>1
    <3>4. QED
      BY <3>2, <3>3
  <2>8. ScanInv'
    <3>1. \A i : Pixel(i)' = Pixel(i)
      BY DEF Pixel
    <3>2. QED
      BY <1>0, <2>1, <2>6, <2>7, <3>1 DEF ScanInv
  <2>9. GrowInv'
    BY <2>2 DEF GrowInv
  <2>10. QED
    BY <2>3, <2>5, <2>8, <2>9 DEF FillIInv
<1>4. CASE starts # {}
  <2> DEFINE P == Pixel(at')
             colour == IF algorithm = "floodfill" THEN FILL_WITH ELSE RESULT_COLOR
  <2>1. /\ at' = Min(starts) /\ fill_pc' = "grow" /\ image' = [image EXCEPT ![P] = colour]
        /\ stack' = <<P>> /\ grown' = {P}
    BY <1>4 DEF Scan
  <2>2. at' \in starts /\ \A i \in starts : at' <= i
    <3>1. starts \in SUBSET Nat
      BY <1>0, <1>2 DEF FillTypeOK
    <3>2. \E k \in starts : \A l \in starts : k <= l
      <4> HIDE DEF starts
      <4>1. QED
        BY <1>4, <3>1, LeastOf
    <3> HIDE DEF starts
    <3>3. QED
      BY <2>1, <3>2 DEF Min
  <2>3. at' \in 0 .. last /\ at' \in Nat /\ at <= at' /\ Starts(P)
    BY <1>0, <1>2, <2>2 DEF FillTypeOK
  <2>4. P \in PIXELS
    BY <2>3, PixelsInRows
  <2> HIDE DEF starts
  <2>5. image[P] \in 0 .. 2 /\ before[P] \in 0 .. 2
    BY <1>0, <2>4 DEF FillTypeOK, COLOR, START_COLOR
  <2>6. P \in Inside /\ image[P] = before[P]
    <3>1. P \notin Inside => image[P] = before[P]
      BY <1>0, <2>4 DEF ImageInv
    <3>2. P \notin Touched
      <4> SUFFICES ASSUME P \in Touched PROVE FALSE
        OBVIOUS
      <4>1. P \in Complete
        BY <1>1, TouchedIs
      <4>2. Settled(P)
        BY <1>0, <4>1 DEF ImageInv
      <4>3. QED
        BY <2>3, <4>2 DEF Settled, Starts, START_COLOR, RESULT_COLOR
    <3>3. image[P] = before[P]
      BY <3>1, <3>2, TouchedIs
    <3>4. before[P] \in IF algorithm = "floodfill" THEN {0, COLOR} ELSE 0 .. START_COLOR
      BY <1>0, <2>4 DEF FillTypeOK
    <3>5. QED
      BY <1>0, <2>3, <2>4, <3>3, <3>4, InsideIs DEF Starts, START_COLOR, MIN_COLOR
  <2> DEFINE A == AreaOf(P)
  <2> HIDE DEF P
  <2>7. /\ P \in A /\ A \subseteq Inside /\ \A q \in A : AreaOf(q) = A
    BY <1>0, <2>6, AreaOfIs
  <2>8. \A q \in A : q \notin Touched
    <3> SUFFICES ASSUME NEW q \in A, q \in Touched PROVE FALSE
      OBVIOUS
    <3>1. q \in Complete
      BY <1>1, TouchedIs
    <3>2. AreaOf(q) \subseteq Touched
      BY <1>0, <3>1, TouchedIs DEF ImageInv
    <3>3. P \in Touched
      BY <2>7, <3>2
    <3>4. QED
      BY <2>6, <3>3, TouchedIs
  <2>9. \A q \in PIXELS : image'[q] = IF q = P THEN colour ELSE image[q]
    BY <1>0, <2>1, <2>4 DEF FillTypeOK
  <2>10. Working'
    BY <2>1 DEF Working
  <2>11. Inside \subseteq PIXELS
    BY <1>0, InsideIs
  <2>12. Complete' = Complete
    <3>1. \A q : q \in Complete' <=> q \in Inside /\ image'[q] # before[q] /\ q \notin A
      <4>1. Inside' = Inside /\ \A q : q \in Touched' <=> q \in Inside /\ image'[q] # before[q]
        BY <1>1, SameAreas, TouchedNext
      <4>2. QED
        BY <1>1, <2>10, <4>1, TouchedNext DEF P
    <3>2. \A q : q \in Complete <=> q \in Inside /\ image[q] # before[q]
      BY <1>1, TouchedIs
    <3>3. \A q : q \in Complete => q \notin A
      BY <1>1, <2>8, TouchedIs
    <3>4. \A q \in Inside : q \notin A => image'[q] = image[q]
      BY <2>7, <2>9, <2>11
    <3>5. \A q : q \in Complete' <=> q \in Complete
      BY <3>1, <3>2, <3>3, <3>4
    <3>6. QED
      BY <3>5
  <2>13. FillTypeOK'
    <3>1. image' \in [PIXELS -> 0 .. 2]
      <4>1. colour \in 0 .. 2
        BY DEF FILL_WITH, RESULT_COLOR
      <4>2. QED
        BY <1>0, <2>1, <4>1 DEF FillTypeOK
    <3>2. QED
      BY <1>0, <1>1, <2>1, <2>3, <2>10, <3>1 DEF FillTypeOK
  <2>14. ImageInv'
    <3>1. \A q \in PIXELS \ Inside : image'[q] = image[q]
      BY <2>6, <2>9
    <3>2. \A q \in Complete : image'[q] = image[q]
      BY <1>1, <2>7, <2>8, <2>9, <2>11, TouchedIs
    <3>3. QED
      BY <1>0, <1>1, <2>12, <3>1, <3>2, KeptImage
  <2>15. RectsInv'
    BY <1>0, <1>1, <2>12, KeptRects
  <2>16. ScanInv'
    <3>1. \A q \in PIXELS : ~Starts(q) => ~Starts(q)'
      BY <1>1, <2>9 DEF Starts, START_COLOR, RESULT_COLOR, FILL_WITH
    <3>2. ASSUME NEW i \in 0 .. last, i < at' PROVE ~Starts(Pixel(i))
      <4>1. CASE i < at
        BY <1>0, <4>1 DEF ScanInv
      <4>2. CASE ~(i < at)
        <5>1. i \notin starts
          BY <2>2, <2>3, <3>2
        <5>2. i \in at .. last
          BY <1>0, <1>2, <4>2 DEF FillTypeOK
        <5>3. QED
          BY <5>1, <5>2 DEF starts
      <4>3. QED
        BY <4>1, <4>2
    <3>3. \A i \in 0 .. last : Pixel(i)' = Pixel(i) /\ Pixel(i) \in PIXELS
      BY PixelsInRows DEF Pixel
    <3>4. QED
      BY <2>1, <3>1, <3>2, <3>3 DEF ScanInv
  <2>17. GrowInv'
    <3>1. Inside' = Inside /\ (\A q : AreaOf(q)' = AreaOf(q)) /\ AreaOf(Pixel(at))' = A
      BY <1>1, SameAreas DEF P, AreaOf, Pixel
    <3>2. Pixel(at)' = P
      BY DEF P, Pixel
    <3>3. \A q \in grown' : image'[q] = Paint'
      <4>1. Paint' = colour
        BY <1>0, <1>1, <2>1 DEF Paint, FillTypeOK
      <4>2. QED
        BY <2>1, <2>4, <2>9, <4>1
    <3>4. \A q \in A \ grown' : Joins(q)'
      <4> TAKE q \in A \ grown'
      <4>1. q \in PIXELS /\ q # P /\ q \in Inside /\ image[q] = before[q]
        BY <2>1, <2>7, <2>8, <2>11, TouchedIs
      <4>2. image'[q] = before[q]
        BY <2>9, <4>1
      <4>3. QED
        BY <1>0, <1>1, <2>1, <4>1, <4>2, InsideIs DEF Joins
    <3>5. algorithm = "find_rects" => before[P] >= START_COLOR
      BY <2>3, <2>6 DEF Starts, P
    <3>6. /\ stack' \in Seq(grown') /\ Len(stack') = 1 /\ stack'[1] = P
      BY <2>1
    <3>7. \A i, j \in 1 .. Len(stack') : stack'[i] = stack'[j] => i = j
      BY <3>6
    <3>8. \A q \in grown' : \E i \in 1 .. Len(stack') : stack'[i] = q
      BY <2>1, <3>6
    <3>9. P \in grown' /\ grown' \subseteq A
      BY <2>1, <2>7
    <3> HIDE DEF A
    <3>10. QED
      BY <1>1, <2>1, <2>6, <3>1, <3>2, <3>3, <3>4, <3>5, <3>6, <3>7, <3>8, <3>9 DEF GrowInv
  <2>18. QED
    BY <2>13, <2>14, <2>15, <2>16, <2>17 DEF FillIInv
<1>5. QED
  BY <1>3, <1>4

-----------------------------------------------------------------------------
(* What holds of an area while it is grown, for the two steps that end it. *)
LEMMA GrownWhole ==
  ASSUME FillTypeOK, ImageInv, GrowInv, Working, stack = <<>>
  PROVE  grown = AreaOf(Pixel(at))
<1>1. Pixel(at) \in Inside /\ Pixel(at) \in grown /\ grown \subseteq AreaOf(Pixel(at))
  BY DEF GrowInv
<1>2. \A q \in grown, r \in Inside : Near(q, r, Distance) => r \in grown
  <2>1. Len(stack) = 0
    BY EmptySeq
  <2>2. \A q : \A i \in 1 .. Len(stack) : stack[i] # q
    BY <2>1
  <2>3. QED
    BY <2>2 DEF GrowInv
<1>3. grown \in SUBSET Inside
  BY <1>1, AreaOfIs
<1>4. AreaOf(Pixel(at)) \subseteq grown
  BY <1>1, <1>2, <1>3, AreaOfIs
<1>5. QED
  BY <1>1, <1>4

(* The neighbours taken in are the area's, and none is on the stack yet. *)
LEMMA GrowStep ==
  ASSUME FillIInv, Grow
  PROVE  FillIInv'
<1> DEFINE p == stack[Len(stack)]
           J == Joining(p)
           P == Pixel(at)
           A == AreaOf(P)
           front == SubSeq(stack, 1, Len(stack) - 1)
<1>1. FillTypeOK /\ ImageInv /\ ScanInv /\ GrowInv /\ RectsInv
  BY DEF FillIInv
<1>2. /\ Working /\ stack # <<>>
      /\ image' = [q \in PIXELS |-> IF q \in J THEN Paint ELSE image[q]]
      /\ stack' = front \o InTurn(p) /\ grown' = grown \cup J
      /\ UNCHANGED <<fill_pc, algorithm, before, limit, at, rects>>
  BY DEF Grow, Working
<1>3. /\ P \in grown /\ P \in Inside
      /\ algorithm = "find_rects" => before[P] >= START_COLOR
      /\ grown \subseteq A
      /\ \A q \in grown : image[q] = Paint
      /\ \A q \in A \ grown : Joins(q)
      /\ stack \in Seq(grown) /\ \A i, j \in 1 .. Len(stack) : stack[i] = stack[j] => i = j
      /\ \A q \in grown : (\A i \in 1 .. Len(stack) : stack[i] # q) =>
              \A r \in Inside : Near(q, r, Distance) => r \in grown
      /\ fill_pc = "erase" => algorithm = "floodfill" /\ Cardinality(A) < limit
  BY <1>1, <1>2 DEF GrowInv
<1>4. /\ front \in Seq(grown) /\ p \in grown
      /\ \A i, j \in 1 .. Len(front) : front[i] = front[j] => i = j
      /\ \A q \in grown : (\A i \in 1 .. Len(front) : front[i] # q) =>
             (q = p \/ \A i \in 1 .. Len(stack) : stack[i] # q)
  BY <1>2, <1>3, TakenOff
<1>5. /\ P \in A /\ A \subseteq Inside /\ Inside \subseteq PIXELS
      /\ \A q \in A, r \in Inside : Near(q, r, Distance) => r \in A
  BY <1>1, <1>3, AreaOfIs, InsideIs
<1>6. p \in PIXELS /\ p \in A
  BY <1>3, <1>4, <1>5
<1> HIDE DEF front, P, A
<1>7. Paint \in 0 .. 2
  BY DEF Paint, RESULT_COLOR, FILL_WITH
<1>8. \A q \in PIXELS : image[q] \in 0 .. 2 /\ before[q] \in 0 .. 2
  BY <1>1 DEF FillTypeOK, COLOR, START_COLOR
<1>9. \A q \in PIXELS : Joins(q) => q \in Inside
  <2> SUFFICES ASSUME NEW q \in PIXELS, Joins(q), q \notin Inside PROVE FALSE
    OBVIOUS
  <2>1. image[q] = before[q]
    BY <1>1 DEF ImageInv
  <2>2. before[q] \in IF algorithm = "floodfill" THEN {0, COLOR} ELSE 0 .. START_COLOR
    BY <1>1 DEF FillTypeOK
  <2>3. QED
    BY <1>1, <2>1, <2>2, InsideIs DEF Joins, COLOR, FILL_WITH
<1>10. \A q \in grown : ~Joins(q)
  <2> TAKE q \in grown
  <2>1. image[q] = Paint
    BY <1>3
  <2>2. algorithm \in {"floodfill", "find_rects"} /\ fill_pc \in {"grow", "erase"}
    BY <1>1, <1>2 DEF FillTypeOK, Working
  <2>3. QED
    BY <2>1, <2>2 DEF Joins, Paint, COLOR, FILL_WITH, RESULT_COLOR, MIN_COLOR
<1>11. \A q : q \in J <=> q \in PIXELS /\ Offset(p, q) \in Offsets /\ Joins(q)
  BY DEF Joining
<1> HIDE DEF p
<1>12. \A q \in J : q \in PIXELS /\ q \in A /\ q \notin grown
  <2> TAKE q \in J
  <2>1. q \in PIXELS /\ Offset(p, q) \in Offsets /\ Joins(q)
    BY <1>11
  <2>2. Near(p, q, Distance) /\ q \in Inside
    BY <1>1, <1>6, <1>9, <2>1, OffsetsAreNear
  <2>3. QED
    BY <1>5, <1>6, <1>10, <2>1, <2>2
<1>13. \A r \in Inside : Near(p, r, Distance) => r \in grown \cup J
  <2> SUFFICES ASSUME NEW r \in Inside, Near(p, r, Distance), r \notin grown PROVE r \in J
    OBVIOUS
  <2>1. r \in A /\ r \in PIXELS /\ r # p
    BY <1>4, <1>5, <1>6
  <2>2. Joins(r)
    BY <1>3, <2>1
  <2>3. Offset(p, r) \in Offsets
    BY <1>1, <1>6, <2>1, OffsetsAreNear
  <2>4. QED
    BY <1>11, <2>1, <2>2, <2>3
<1>14. /\ InTurn(p) \in Seq(J)
       /\ \A q \in J : \E i \in 1 .. Len(InTurn(p)) : InTurn(p)[i] = q
       /\ \A i, j \in 1 .. Len(InTurn(p)) : InTurn(p)[i] = InTurn(p)[j] => i = j
  BY <1>1, <1>6, PushedInTurn
<1> HIDE DEF J
<1>15. J \cap grown = {}
  BY <1>12
<1>16. /\ stack' \in Seq(grown \cup J)
       /\ \A i, j \in 1 .. Len(stack') : stack'[i] = stack'[j] => i = j
       /\ \A q \in J : \E i \in 1 .. Len(stack') : stack'[i] = q
       /\ \A i \in 1 .. Len(front) : \E k \in 1 .. Len(stack') : stack'[k] = front[i]
  <2> DEFINE turns == InTurn(p)
  <2>1. front \in Seq(grown) /\ turns \in Seq(J)
    BY <1>4, <1>14
  <2>2. Once(front) /\ Once(turns) /\ Has(turns, J)
    BY <1>4, <1>14 DEF Once, Has
  <2>3. stack' = front \o turns
    BY <1>2
  <2> HIDE DEF turns
  <2>4. /\ front \o turns \in Seq(grown \cup J)
        /\ Once(front \o turns) /\ Has(front \o turns, J) /\ HasAll(front \o turns, front)
    BY <1>15, <2>1, <2>2, PushedOn, Zenon
  <2>5. QED
    BY <2>3, <2>4, Zenon DEF Once, Has, HasAll
<1>17. \A q \in PIXELS : image'[q] = IF q \in J THEN Paint ELSE image[q]
  BY <1>2
<1>18. /\ Inside' = Inside /\ Distance' = Distance
       /\ (\A q : AreaOf(q)' = AreaOf(q)) /\ Pixel(at)' = P /\ AreaOf(Pixel(at))' = A
  BY <1>2, SameAreas DEF P, A, AreaOf, Pixel
<1>19. Working' /\ Paint' = Paint
  BY <1>2 DEF Working, Paint
<1>20. Complete' = Complete
  <2>1. \A q : q \in Complete' <=> q \in Inside /\ image'[q] # before[q] /\ q \notin A
    BY <1>2, <1>19, TouchedNext DEF P, A
  <2>2. \A q : q \in Complete <=> q \in Inside /\ image[q] # before[q] /\ q \notin A
    BY <1>2, TouchedIs DEF P, A
  <2>3. \A q \in Inside : q \notin A => image'[q] = image[q]
    BY <1>5, <1>12, <1>17
  <2>4. \A q : q \in Complete' <=> q \in Complete
    BY <2>1, <2>2, <2>3
  <2>5. QED
    BY <2>4
<1>21. FillTypeOK'
  <2>1. image' \in [PIXELS -> 0 .. 2]
    BY <1>2, <1>7, <1>8
  <2>2. QED
    BY <1>1, <1>2, <1>19, <2>1 DEF FillTypeOK
<1>22. ImageInv'
  <2>1. \A q \in PIXELS : q \notin A => image'[q] = image[q]
    BY <1>12, <1>17
  <2>2. \A q \in Complete : q \in PIXELS /\ q \notin A
    BY <1>2, <1>5, TouchedIs DEF P, A
  <2>3. QED
    BY <1>1, <1>2, <1>5, <1>20, <2>1, <2>2, KeptImage
<1>23. RectsInv'
  BY <1>1, <1>2, <1>20, KeptRects
<1>24. ScanInv'
  <2>1. \A q \in PIXELS : ~Starts(q) => ~Starts(q)'
    <3>1. \A q \in PIXELS : image'[q] = Paint \/ image'[q] = image[q]
      BY <1>17
    <3>2. QED
      BY <1>1, <1>2, <3>1 DEF Starts, Paint, START_COLOR, RESULT_COLOR, FILL_WITH, FillTypeOK
  <2>2. \A i \in 0 .. MASK_WIDTH * MASK_HEIGHT - 1 : Pixel(i)' = Pixel(i) /\ Pixel(i) \in PIXELS
    BY PixelsInRows DEF Pixel
  <2>3. fill_pc' # "done"
    BY <1>19 DEF Working
  <2>4. QED
    BY <1>1, <1>2, <2>1, <2>2, <2>3 DEF ScanInv
<1>25. GrowInv'
  <2>1. P \in grown' /\ grown' \subseteq A
    BY <1>2, <1>3, <1>12
  <2>2. \A q \in grown' : image'[q] = Paint'
    BY <1>2, <1>3, <1>5, <1>12, <1>17, <1>19
  <2>3. \A q \in A \ grown' : Joins(q)'
    <3> TAKE q \in A \ grown'
    <3>1. image'[q] = image[q] /\ Joins(q)
      BY <1>2, <1>3, <1>5, <1>17
    <3>2. QED
      BY <1>2, <3>1 DEF Joins
  <2>4. stack' \in Seq(grown')
    BY <1>2, <1>16
  <2>5. ASSUME NEW q \in grown', \A i \in 1 .. Len(stack') : stack'[i] # q,
               NEW r \in Inside, Near(q, r, Distance)
        PROVE  r \in grown'
    <3>1. q \notin J /\ q \in grown
      BY <1>2, <1>16, <2>5
    <3>2. \A i \in 1 .. Len(front) : front[i] # q
      BY <1>16, <2>5
    <3>3. q = p \/ \A i \in 1 .. Len(stack) : stack[i] # q
      BY <1>4, <3>1, <3>2
    <3>4. QED
      BY <1>2, <1>3, <1>13, <2>5, <3>1, <3>3
  <2>6. QED
    BY <1>2, <1>3, <1>16, <1>18, <2>1, <2>2, <2>3, <2>4, <2>5 DEF GrowInv
<1>26. QED
  BY <1>21, <1>22, <1>23, <1>24, <1>25 DEF FillIInv

-----------------------------------------------------------------------------
(* The second filling starts from the pixel the first one did. *)
LEMMA EraseStep ==
  ASSUME FillIInv, EraseSmall
  PROVE  FillIInv'
<1> DEFINE P == Pixel(at)
           A == AreaOf(P)
<1>1. FillTypeOK /\ ImageInv /\ ScanInv /\ GrowInv /\ RectsInv
  BY DEF FillIInv
<1>2. /\ algorithm = "floodfill" /\ fill_pc = "grow" /\ stack = <<>> /\ Working
      /\ fill_pc' = "erase" /\ image' = [image EXCEPT ![P] = 0]
      /\ stack' = <<P>> /\ grown' = {P} /\ Cardinality(grown) < limit
      /\ UNCHANGED <<algorithm, before, limit, at, rects>>
  BY DEF EraseSmall, Working
<1>3. grown = A
  BY <1>1, <1>2, GrownWhole
<1>4. P \in Inside /\ \A q \in A : image[q] = FILL_WITH
  BY <1>1, <1>2, <1>3 DEF GrowInv, Paint
<1>5. P \in A /\ A \subseteq Inside /\ Inside \subseteq PIXELS
  BY <1>1, <1>4, AreaOfIs, InsideIs
<1>6. \A q \in PIXELS : image'[q] = IF q = P THEN 0 ELSE image[q]
  BY <1>1, <1>2, <1>5 DEF FillTypeOK
<1>7. \A q \in PIXELS : image[q] \in 0 .. 2
  BY <1>1 DEF FillTypeOK
<1> HIDE DEF P, A
<1>8. Working' /\ Paint' = 0
  BY <1>2 DEF Working, Paint
<1>9. Complete' = Complete
  <2>1. \A q : q \in Complete' <=> q \in Inside /\ image'[q] # before[q] /\ q \notin A
    BY <1>2, <1>8, TouchedNext DEF P, A
  <2>2. \A q : q \in Complete <=> q \in Inside /\ image[q] # before[q] /\ q \notin A
    BY <1>2, TouchedIs DEF P, A
  <2>3. \A q \in Inside : q \notin A => image'[q] = image[q]
    BY <1>5, <1>6
  <2>4. \A q : q \in Complete' <=> q \in Complete
    BY <2>1, <2>2, <2>3
  <2>5. QED
    BY <2>4
<1>10. FillTypeOK'
  <2>1. image' \in [PIXELS -> 0 .. 2]
    <3>1. 0 \in 0 .. 2 /\ image \in [PIXELS -> 0 .. 2]
      BY <1>1 DEF FillTypeOK
    <3>2. QED
      BY <1>2, <3>1
  <2>2. QED
    BY <1>1, <1>2, <1>8, <2>1 DEF FillTypeOK
<1>11. ImageInv'
  <2>1. \A q \in PIXELS : q \notin A => image'[q] = image[q]
    BY <1>5, <1>6
  <2>2. \A q \in Complete : q \in PIXELS /\ q \notin A
    BY <1>2, <1>5, TouchedIs DEF P, A
  <2>3. QED
    BY <1>1, <1>2, <1>5, <1>9, <2>1, <2>2, KeptImage
<1>12. RectsInv'
  BY <1>1, <1>2, <1>9, KeptRects
<1>13. ScanInv'
  <2>1. \A q \in PIXELS : ~Starts(q) => ~Starts(q)'
    BY <1>2, <1>6 DEF Starts
  <2>2. \A i \in 0 .. MASK_WIDTH * MASK_HEIGHT - 1 : Pixel(i)' = Pixel(i) /\ Pixel(i) \in PIXELS
    BY PixelsInRows DEF Pixel
  <2>3. QED
    BY <1>1, <1>2, <2>1, <2>2 DEF ScanInv
<1>14. GrowInv'
  <2>1. /\ Inside' = Inside /\ Distance' = Distance
        /\ (\A q : AreaOf(q)' = AreaOf(q)) /\ Pixel(at)' = P /\ AreaOf(Pixel(at))' = A
    BY <1>2, SameAreas DEF P, A, AreaOf, Pixel
  <2>2. \A q \in grown' : image'[q] = Paint'
    BY <1>2, <1>5, <1>6, <1>8
  <2>3. \A q \in A \ grown' : Joins(q)'
    <3> TAKE q \in A \ grown'
    <3>1. image'[q] = FILL_WITH
      BY <1>2, <1>4, <1>5, <1>6
    <3>2. QED
      BY <1>2, <3>1 DEF Joins
  <2>4. stack' \in Seq(grown') /\ Len(stack') = 1 /\ stack'[1] = P
    BY <1>2
  <2>5. \A i, j \in 1 .. Len(stack') : stack'[i] = stack'[j] => i = j
    BY <2>4
  <2>6. \A q \in grown' : \E i \in 1 .. Len(stack') : stack'[i] = q
    BY <1>2, <2>4
  <2>7. P \in grown' /\ grown' \subseteq A
    BY <1>2, <1>5
  <2>8. QED
    BY <1>2, <1>3, <1>4, <2>1, <2>2, <2>3, <2>4, <2>5, <2>6, <2>7 DEF GrowInv
<1>15. QED
  BY <1>10, <1>11, <1>12, <1>13, <1>14 DEF FillIInv

-----------------------------------------------------------------------------
(* A bounded set of numbers has a least and a greatest one. *)
LEMMA Extremes ==
  ASSUME NEW T \in SUBSET Nat, T # {}, NEW n \in Nat, \A k \in T : k <= n
  PROVE  /\ Min(T) \in T /\ \A k \in T : Min(T) <= k
         /\ Max(T) \in T /\ \A k \in T : Max(T) >= k
<1>1. \E k \in T : \A l \in T : k <= l
  BY LeastOf
<1>2. \E k \in T : \A l \in T : k >= l
  <2> DEFINE U == {n - k : k \in T}
  <2>1. U \in SUBSET Nat /\ U # {}
    <3>1. \A k \in T : k \in Nat /\ k <= n
      OBVIOUS
    <3>2. \A k \in T : n - k \in Nat
      BY <3>1
    <3>3. QED
      BY <3>2
  <2>2. PICK u \in U : \A v \in U : u <= v
    <3> HIDE DEF U
    <3>1. QED
      BY <2>1, LeastOf
  <2>3. PICK k \in T : u = n - k
    OBVIOUS
  <2>4. \A l \in T : n - l \in U
    OBVIOUS
  <2> HIDE DEF U
  <2>5. \A l \in T : k >= l
    BY <2>2, <2>3, <2>4
  <2>6. QED
    BY <2>5
<1>3. QED
  BY <1>1, <1>2 DEF Min, Max

(* A rectangle has a side when the area is more than a point. *)
LEMMA CornersOfMany ==
  ASSUME NEW S \in SUBSET PIXELS, S # {}
  PROVE  (Corners(S).width > 0 \/ Corners(S).height > 0) <=> Cardinality(S) > 1
<1> DEFINE X == {p[1] : p \in S}
           Y == {p[2] : p \in S}
<1>1. \A p \in S : p = <<p[1], p[2]>> /\ p[1] \in 0 .. MASK_WIDTH - 1 /\ p[2] \in 0 .. MASK_HEIGHT - 1
  BY DEF PIXELS
<1>2. MASK_WIDTH \in Nat /\ MASK_HEIGHT \in Nat
  BY FillAssumption
<1>3. /\ X \in SUBSET Nat /\ X # {} /\ \A k \in X : k <= MASK_WIDTH
      /\ Y \in SUBSET Nat /\ Y # {} /\ \A l \in Y : l <= MASK_HEIGHT
  BY <1>1, <1>2
<1>4. Corners(S).width = Max(X) - Min(X) /\ Corners(S).height = Max(Y) - Min(Y)
  BY DEF Corners
<1>5. /\ \A p \in S : p[1] \in X /\ p[2] \in Y
      /\ \A k \in X : \E p \in S : p[1] = k
      /\ \A l \in Y : \E p \in S : p[2] = l
  OBVIOUS
<1> HIDE DEF X, Y
<1>6. /\ Min(X) \in X /\ Max(X) \in X /\ \A k \in X : Min(X) <= k /\ Max(X) >= k
      /\ Min(Y) \in Y /\ Max(Y) \in Y /\ \A l \in Y : Min(Y) <= l /\ Max(Y) >= l
  BY <1>2, <1>3, Extremes
<1>7. Min(X) \in Nat /\ Max(X) \in Nat /\ Min(Y) \in Nat /\ Max(Y) \in Nat
  BY <1>3, <1>6
<1>8. IsFiniteSet(S) /\ Cardinality(S) \in Nat
  BY PixelsCount, FS_Subset, FS_CardinalityType
<1>9. Cardinality(S) > 1 <=> ~\E p : S = {p}
  <2>1. Cardinality(S) # 0
    BY <1>8, FS_EmptySet
  <2>2. Cardinality(S) = 1 <=> \E p : S = {p}
    BY <1>8, FS_Singleton
  <2>3. \A c \in Nat : c # 0 => (c > 1 <=> ~(c = 1))
    OBVIOUS
  <2>4. Cardinality(S) > 1 <=> ~(Cardinality(S) = 1)
    BY <1>8, <2>1, <2>3, Zenon
  <2>5. QED
    BY <2>2, <2>4, Zenon
<1>10. ASSUME NEW p, S = {p} PROVE Max(X) = Min(X) /\ Max(Y) = Min(Y)
  <2>1. \A k \in X : k = p[1]
    BY <1>5, <1>10
  <2>2. \A l \in Y : l = p[2]
    BY <1>5, <1>10
  <2>3. QED
    BY <1>6, <2>1, <2>2
<1>11. ASSUME Max(X) = Min(X), Max(Y) = Min(Y) PROVE \E p : S = {p}
  <2>1. \A k \in X : k = Min(X)
    BY <1>3, <1>6, <1>7, <1>11
  <2>2. \A l \in Y : l = Min(Y)
    BY <1>3, <1>6, <1>7, <1>11
  <2>3. \A p \in S : p = <<Min(X), Min(Y)>>
    BY <1>1, <1>5, <2>1, <2>2
  <2>4. S = {<<Min(X), Min(Y)>>}
    BY <2>3
  <2>5. QED
    BY <2>4
<1>12. Max(X) >= Min(X) /\ Max(Y) >= Min(Y)
  BY <1>6
<1>13. (Max(X) - Min(X) > 0 \/ Max(Y) - Min(Y) > 0) <=> ~(Max(X) = Min(X) /\ Max(Y) = Min(Y))
  BY <1>7, <1>12
<1>14. (\E p : S = {p}) <=> (Max(X) = Min(X) /\ Max(Y) = Min(Y))
  BY <1>10, <1>11
<1>15. QED
  BY <1>4, <1>9, <1>13, <1>14

-----------------------------------------------------------------------------
(* An element appended is one more that is there. *)
LEMMA Appended ==
  ASSUME NEW S, NEW s \in Seq(S), NEW e \in S
  PROVE  /\ Append(s, e) \in Seq(S) /\ Len(Append(s, e)) = Len(s) + 1
         /\ {Append(s, e)[i] : i \in DOMAIN Append(s, e)} = {s[i] : i \in DOMAIN s} \cup {e}
<1> DEFINE new == Append(s, e)
<1>1. new \in Seq(S) /\ Len(new) = Len(s) + 1 /\ Len(s) \in Nat
  OBVIOUS
<1>2. DOMAIN new = 1 .. Len(s) + 1 /\ DOMAIN s = 1 .. Len(s)
  OBVIOUS
<1>3. \A i \in 1 .. Len(s) : new[i] = s[i]
  OBVIOUS
<1>4. new[Len(s) + 1] = e
  OBVIOUS
<1> HIDE DEF new
<1>5. \A i \in 1 .. Len(s) + 1 : i \in 1 .. Len(s) \/ i = Len(s) + 1
  BY <1>1
<1>6. Len(s) + 1 \in 1 .. Len(s) + 1 /\ \A i \in 1 .. Len(s) : i \in 1 .. Len(s) + 1
  BY <1>1
<1>7. {new[i] : i \in DOMAIN new} = {s[i] : i \in DOMAIN s} \cup {e}
  <2>1. ASSUME NEW k, k \in {new[i] : i \in DOMAIN new}
        PROVE  k \in {s[i] : i \in DOMAIN s} \cup {e}
    BY <1>2, <1>3, <1>4, <1>5, <2>1
  <2>2. ASSUME NEW k, k \in {s[i] : i \in DOMAIN s} \cup {e}
        PROVE  k \in {new[i] : i \in DOMAIN new}
    BY <1>2, <1>3, <1>4, <1>6, <2>2
  <2>3. QED
    BY <2>1, <2>2
<1>8. QED
  BY <1>1, <1>7 DEF new

(* There are finitely many areas. *)
LEMMA LargeIsFinite ==
  ASSUME FillTypeOK
  PROVE  IsFiniteSet(Large) /\ Cardinality(Large) \in Nat
<1>1. \A area \in Large : area \subseteq PIXELS
  BY DEF Large, AreaOf, Area
<1>2. IsFiniteSet(SUBSET PIXELS)
  BY PixelsCount, FS_SUBSET
<1>3. QED
  BY <1>1, <1>2, FS_Subset, FS_CardinalityType

(* The area is complete and settled, and its rectangle is its own. *)
LEMMA FinishStep ==
  ASSUME FillIInv, Finish
  PROVE  FillIInv'
<1> DEFINE P == Pixel(at)
           A == AreaOf(P)
           many == algorithm = "find_rects" /\ Cardinality(A) > 1
<1>1. FillTypeOK /\ ImageInv /\ ScanInv /\ GrowInv /\ RectsInv
  BY DEF FillIInv
<1>2. /\ fill_pc \in {"grow", "erase"} /\ stack = <<>> /\ Working /\ ~Working'
      /\ algorithm = "floodfill" /\ fill_pc = "grow" => Cardinality(grown) >= limit
      /\ fill_pc' = "scan" /\ UNCHANGED <<algorithm, image, before, limit, at, stack>>
  BY DEF Finish, Working
<1>3. grown = A
  BY <1>1, <1>2, GrownWhole
<1>4. /\ P \in Inside
      /\ algorithm = "find_rects" => before[P] >= START_COLOR
      /\ \A q \in A : image[q] = Paint
      /\ fill_pc = "erase" => algorithm = "floodfill" /\ Cardinality(A) < limit
  BY <1>1, <1>2, <1>3 DEF GrowInv
<1>5. /\ P \in A /\ A \subseteq Inside /\ Inside \subseteq PIXELS /\ \A q \in A : AreaOf(q) = A
      /\ Cardinality(A) \in Nat
  <2>1. Inside \subseteq PIXELS
    BY <1>1, InsideIs
  <2> HIDE DEF P
  <2>2. P \in A /\ A \subseteq Inside
    BY <1>1, <1>4, AreaOfIs
  <2>3. \A q \in A : AreaOf(q) = A
    BY <1>1, <1>4, AreaOfIs
  <2>4. Cardinality(A) \in Nat
    BY <1>1, <1>4, AreaOfIs
  <2>5. QED
    BY <2>1, <2>2, <2>3, <2>4
<1>6. rects' = IF many THEN Append(rects, Corners(A)) ELSE rects
  <2>1. A \in SUBSET PIXELS /\ A # {}
    BY <1>5
  <2>2. (Corners(A).width > 0 \/ Corners(A).height > 0) <=> Cardinality(A) > 1
    BY <2>1, CornersOfMany
  <2>3. rects' = IF algorithm = "find_rects" /\ (Corners(A).width > 0 \/ Corners(A).height > 0)
                 THEN Append(rects, Corners(A)) ELSE rects
    BY <1>3 DEF Finish
  <2>4. QED
    BY <2>2, <2>3
<1> HIDE DEF P, A
<1>7. (\A q : AreaOf(q)' = AreaOf(q)) /\ Inside' = Inside
  BY <1>2, SameAreas
<1>8. A \subseteq Touched
  <2> SUFFICES ASSUME NEW q \in A PROVE q \in Touched
    OBVIOUS
  <2>1. q \in Inside /\ q \in PIXELS /\ image[q] = Paint
    BY <1>4, <1>5
  <2>2. algorithm = "floodfill" \/ algorithm = "find_rects"
    BY <1>1 DEF FillTypeOK
  <2>3. image[q] # before[q]
    BY <1>1, <2>1, <2>2, InsideIs DEF Paint, COLOR, FILL_WITH, RESULT_COLOR, MIN_COLOR
  <2>4. QED
    BY <2>1, <2>3, TouchedIs
<1>9. Complete' = Complete \cup A
  <2>1. \A q : q \in Complete' <=> q \in Inside /\ image[q] # before[q]
    <3>1. \A q : q \in Touched' <=> q \in Inside /\ image[q] # before[q]
      BY <1>2, TouchedNext
    <3>2. \A q : q \in Complete' <=> q \in Touched'
      BY <1>2, TouchedNext
    <3>3. QED
      BY <3>1, <3>2
  <2>2. \A q : q \in Complete <=> q \in Inside /\ image[q] # before[q] /\ q \notin A
    BY <1>2, TouchedIs DEF P, A
  <2>3. \A q \in A : q \in Inside /\ image[q] # before[q]
    BY <1>8, TouchedIs
  <2>4. \A q : q \in Complete' <=> q \in Complete \/ q \in A
    BY <2>1, <2>2, <2>3
  <2>5. QED
    BY <2>4
<1>10. FillTypeOK'
  BY <1>1, <1>2 DEF FillTypeOK
<1>11. ImageInv'
  <2>1. ASSUME NEW q \in A PROVE Settled(q)
    <3>1. image[q] = Paint /\ AreaOf(q) = A
      BY <1>4, <1>5
    <3>2. CASE algorithm = "floodfill"
      <4>1. (fill_pc = "erase") <=> Cardinality(A) < limit
        BY <1>1, <1>2, <1>3, <1>4, <1>5, <3>2 DEF FillTypeOK
      <4>2. QED
        BY <3>1, <3>2, <4>1 DEF Settled, Paint
    <3>3. CASE algorithm # "floodfill"
      BY <1>1, <1>4, <1>5, <3>1, <3>3 DEF Settled, Paint, FillTypeOK
    <3>4. QED
      BY <3>2, <3>3
  <2>2. \A q \in Complete' : Settled(q) /\ AreaOf(q) \subseteq Complete'
    BY <1>1, <1>5, <1>9, <2>1 DEF ImageInv
  <2>3. \A q : Settled(q) => Settled(q)'
    BY <1>2, <1>7 DEF Settled
  <2>4. \A q \in PIXELS \ Inside : image'[q] = before'[q]
    BY <1>1, <1>2 DEF ImageInv
  <2>5. QED
    BY <1>7, <2>2, <2>3, <2>4 DEF ImageInv
<1>12. ScanInv'
  <2>1. \A q : Starts(q)' <=> Starts(q)
    BY <1>2 DEF Starts
  <2>2. \A i : Pixel(i)' = Pixel(i)
    BY DEF Pixel
  <2>3. QED
    BY <1>1, <1>2, <2>1, <2>2 DEF ScanInv
<1>13. GrowInv'
  BY <1>2 DEF GrowInv
<1>14. RectsInv'
  <2> SUFFICES ASSUME algorithm = "find_rects" PROVE RectsInv'
    BY <1>2 DEF RectsInv
  <2>1. /\ rects \in Seq({Corners(area) : area \in SUBSET PIXELS})
        /\ {rects[i] : i \in DOMAIN rects} = {Corners(area) : area \in Large}
        /\ Len(rects) = Cardinality(Large)
    BY <1>1 DEF RectsInv
  <2>2. \A q \in Complete : q \in AreaOf(q) /\ q \notin A
    BY <1>1, <1>2, TouchedIs, AreaOfIs DEF P, A
  <2>3. {AreaOf(q)' : q \in Complete'} = {AreaOf(q) : q \in Complete} \cup {A}
    <3>1. {AreaOf(q)' : q \in Complete'} = {AreaOf(q) : q \in Complete \cup A}
      BY <1>7, <1>9
    <3>2. QED
      BY <1>5, <3>1
  <2>4. A \notin Large
    BY <2>2 DEF Large
  <2>5. Large' = IF many THEN Large \cup {A} ELSE Large
    <3>1. Large' = {area \in {AreaOf(q)' : q \in Complete'} : Cardinality(area) > 1}
      BY DEF Large
    <3>2. many <=> Cardinality(A) > 1
      OBVIOUS
    <3>3. QED
      BY <2>3, <3>1, <3>2 DEF Large
  <2>6. CASE ~many
    BY <1>6, <2>1, <2>5, <2>6 DEF RectsInv
  <2>7. CASE many
    <3> DEFINE All == {Corners(area) : area \in SUBSET PIXELS}
    <3>1. Corners(A) \in All
      BY <1>5
    <3>2. rects \in Seq(All)
      BY <2>1
    <3>3. rects' = Append(rects, Corners(A)) /\ Large' = Large \cup {A}
      BY <1>6, <2>5, <2>7
    <3> HIDE DEF All
    <3>4. /\ rects' \in Seq(All) /\ Len(rects') = Len(rects) + 1
          /\ {rects'[i] : i \in DOMAIN rects'} = {rects[i] : i \in DOMAIN rects} \cup {Corners(A)}
      BY <3>1, <3>2, <3>3, Appended
    <3>5. Cardinality(Large') = Cardinality(Large) + 1
      BY <1>1, <2>4, <3>3, LargeIsFinite, FS_AddElement
    <3>6. {Corners(area) : area \in Large'} = {Corners(area) : area \in Large} \cup {Corners(A)}
      BY <3>3
    <3>7. /\ {rects'[i] : i \in DOMAIN rects'} = {Corners(area) : area \in Large'}
          /\ Len(rects') = Cardinality(Large')
      BY <2>1, <3>4, <3>5, <3>6
    <3>8. QED
      BY <3>4, <3>7 DEF RectsInv, All, Corners
  <2>8. QED
    BY <2>6, <2>7
<1>15. QED
  BY <1>10, <1>11, <1>12, <1>13, <1>14 DEF FillIInv

-----------------------------------------------------------------------------
(* Every step keeps the invariant. *)
LEMMA FillStep == FillIInv /\ [FillNext]_fillVars => FillIInv'
<1> SUFFICES ASSUME FillIInv, [FillNext]_fillVars PROVE FillIInv'
  OBVIOUS
<1>1. ASSUME NEW mask \in MASKS, NEW size \in MIN_SIZES, Start("floodfill", mask, size)
      PROVE  FillIInv'
  BY <1>1, FillCallStep, FillAssumption
<1>2. ASSUME NEW shade \in SHADES, NEW gap \in GAPS, Start("find_rects", shade, gap)
      PROVE  FillIInv'
  BY <1>2, FillCallStep, FillAssumption
<1>3. CASE Scan
  BY <1>3, ScanStep
<1>4. CASE Grow
  BY <1>4, GrowStep
<1>5. CASE EraseSmall
  BY <1>5, EraseStep
<1>6. CASE Finish
  BY <1>6, FinishStep
<1>7. CASE ReturnImage
  BY <1>7, FillReturnStep
<1>8. CASE UNCHANGED fillVars
  <2>1. UNCHANGED <<fill_pc, algorithm, image, before, limit, at, stack, grown, rects>>
    BY <1>8 DEF fillVars
  <2>2. /\ Inside' = Inside /\ Distance' = Distance /\ \A p : AreaOf(p)' = AreaOf(p)
    BY <2>1, SameAreas
  <2>3. Working' = Working /\ Paint' = Paint /\ \A p : Pixel(p)' = Pixel(p)
    BY <2>1 DEF Working, Paint, Pixel
  <2>4. Touched' = Touched /\ AreaOf(Pixel(at))' = AreaOf(Pixel(at)) /\ Pixel(at)' = Pixel(at)
    BY <2>1, <2>2 DEF Touched, AreaOf, Pixel
  <2>5. Complete' = Complete
    BY <2>3, <2>4 DEF Complete
  <2>6. FillTypeOK'
    BY <2>1, <2>3 DEF FillTypeOK, FillIInv
  <2>7. ImageInv' /\ RectsInv'
    BY <2>1, <2>5, KeptImage, KeptRects DEF FillIInv
  <2>8. ScanInv'
    BY <2>1, <2>3 DEF ScanInv, FillIInv, Starts
  <2>9. GrowInv'
    BY <2>1, <2>2, <2>3, <2>4 DEF GrowInv, FillIInv, Joins
  <2>10. QED
    BY <2>6, <2>7, <2>8, <2>9 DEF FillIInv
<1>9. QED
  BY <1>1, <1>2, <1>3, <1>4, <1>5, <1>6, <1>7, <1>8 DEF FillNext

-----------------------------------------------------------------------------
(* A stack that repeats no pixel has no more than the image. *)
LEMMA StackFits == FillIInv => Len(stack) <= MASK_WIDTH * MASK_HEIGHT
<1> SUFFICES ASSUME FillIInv PROVE Len(stack) <= MASK_WIDTH * MASK_HEIGHT
  OBVIOUS
<1>1. MASK_WIDTH * MASK_HEIGHT \in Nat
  BY PixelsCount, FS_CardinalityType
<1>2. CASE ~Working
  <2>1. stack = <<>>
    BY <1>2 DEF FillIInv, FillTypeOK
  <2>2. Len(stack) = 0
    BY <2>1
  <2>3. QED
    BY <1>1, <2>2
<1>3. CASE Working
  <2>1. /\ stack \in Seq(grown) /\ \A i, j \in 1 .. Len(stack) : stack[i] = stack[j] => i = j
        /\ grown \subseteq AreaOf(Pixel(at))
    BY <1>3 DEF FillIInv, GrowInv
  <2>2. grown \subseteq PIXELS
    BY <2>1 DEF AreaOf, Area
  <2>3. Len(stack) \in Nat /\ stack \in [1 .. Len(stack) -> PIXELS]
    <3>1. stack \in Seq(PIXELS)
      BY <2>1, <2>2
    <3>2. QED
      BY <3>1
  <2>4. stack \in Injection(1 .. Len(stack), PIXELS)
    BY <2>1, <2>3 DEF Injection, IsInjective
  <2>5. Cardinality(1 .. Len(stack)) = Len(stack)
    BY <2>3, FS_Interval
  <2>6. QED
    BY <2>4, <2>5, PixelsCount, FS_Injection
<1>4. QED
  BY <1>2, <1>3

(* When the scan has found no more, all areas are filled or erased. *)
LEMMA AllFilled == FillIInv => AreasAreFilled
<1> SUFFICES ASSUME FillIInv, fill_pc = "done", algorithm = "floodfill" PROVE AreasAreFilled
  BY DEF AreasAreFilled
<1>1. FillTypeOK /\ ImageInv /\ ScanInv /\ ~Working
  BY DEF FillIInv, Working
<1>2. Inside = {p \in PIXELS : before[p] = COLOR} /\ Distance = 1
  BY DEF Inside, Distance
<1>3. ASSUME NEW p \in PIXELS
      PROVE  image[p] = IF p \notin Inside \/ Cardinality(AreaOf(p)) < limit THEN 0 ELSE FILL_WITH
  <2>1. ~Starts(p)
    BY <1>1 DEF ScanInv
  <2>2. image[p] = 0 \/ image[p] = FILL_WITH
    BY <2>1 DEF Starts
  <2>3. before[p] \in {0, COLOR}
    BY <1>1 DEF FillTypeOK
  <2>4. CASE p \notin Inside
    BY <1>1, <1>2, <2>3, <2>4 DEF ImageInv
  <2>5. CASE p \in Inside
    <3>1. image[p] # before[p]
      BY <1>2, <2>2, <2>5 DEF COLOR, FILL_WITH
    <3>2. p \in Complete
      BY <1>1, <2>5, <3>1, TouchedIs
    <3>3. Settled(p)
      BY <1>1, <3>2 DEF ImageInv
    <3>4. QED
      BY <2>5, <3>3 DEF Settled
  <2>6. QED
    BY <2>4, <2>5
<1>4. QED
  BY <1>2, <1>3 DEF AreasAreFilled, AreaOf

(* When the scan has found no more, all objects have their rectangle. *)
LEMMA AllEnclosed == FillIInv => RectsEncloseObjects
<1> SUFFICES ASSUME FillIInv, fill_pc = "done", algorithm = "find_rects" PROVE RectsEncloseObjects
  BY DEF RectsEncloseObjects
<1> DEFINE inside == {p \in PIXELS : before[p] >= MIN_COLOR}
           closed == Closed(inside, limit)
           objects == {Area(p, closed) : p \in {q \in PIXELS : before[q] >= START_COLOR}}
           large == {object \in objects : Cardinality(object) > 1}
<1>1. FillTypeOK /\ ImageInv /\ ScanInv /\ RectsInv /\ ~Working
  BY DEF FillIInv, Working
<1>2. \A p : AreaOf(p) = Area(p, closed)
  BY DEF AreaOf, Inside, Distance
<1> HIDE DEF closed, inside
<1>3. \A p \in Complete : /\ p \in PIXELS /\ p \in Inside /\ AreaOf(p) \subseteq Complete
                          /\ image[p] = RESULT_COLOR
                          /\ \E q \in AreaOf(p) : before[q] >= START_COLOR
  BY <1>1, InsideIs, TouchedIs DEF ImageInv, Settled
<1>4. \A p \in PIXELS : p \notin Complete => image[p] = before[p]
  BY <1>1, TouchedIs DEF ImageInv
<1>5. \A p \in PIXELS : before[p] >= START_COLOR => p \in Complete
  <2> SUFFICES ASSUME NEW p \in PIXELS, before[p] >= START_COLOR, p \notin Complete PROVE FALSE
    OBVIOUS
  <2>1. image[p] >= START_COLOR
    BY <1>4
  <2>2. QED
    BY <1>1, <2>1 DEF ScanInv, Starts
<1>6. objects = {AreaOf(p) : p \in Complete}
  <2>1. ASSUME NEW p \in Complete PROVE AreaOf(p) \in objects
    <3>1. PICK q \in AreaOf(p) : before[q] >= START_COLOR
      BY <1>3
    <3>2. AreaOf(q) = AreaOf(p) /\ q \in PIXELS
      BY <1>1, <1>3, AreaOfIs, InsideIs
    <3>3. QED
      BY <1>2, <3>1, <3>2
  <2>2. QED
    BY <1>2, <1>5, <2>1
<1>7. \A p : p \in UNION objects <=> p \in Complete
  <2>1. \A p \in Complete : p \in AreaOf(p)
    BY <1>1, <1>3, AreaOfIs
  <2> HIDE DEF objects
  <2>2. QED
    BY <1>3, <1>6, <2>1
<1>8. large = Large
  BY <1>6 DEF Large
<1> HIDE DEF objects, large
<1>9. /\ \A p \in PIXELS : image[p] = IF p \in UNION objects THEN RESULT_COLOR ELSE before[p]
      /\ {rects[i] : i \in DOMAIN rects} = {Corners(object) : object \in large}
      /\ Len(rects) = Cardinality(large)
  BY <1>1, <1>3, <1>4, <1>7, <1>8 DEF RectsInv
<1>10. QED
  BY <1>9, Zenon DEF RectsEncloseObjects, objects, large, closed, inside

(* For images of every size floodfill() recolours the connected areas and   *)
(* erases just the small ones, find_rects() gives every object one          *)
(* rectangle, and the stack of either never has more pixels than the image. *)
THEOREM AllAreasAreFound == FillSpec => []AreasAreFound
<1>1. FillIInv => AreasAreFound
  BY StackFits, AllFilled, AllEnclosed DEF AreasAreFound
<1>2. QED
  BY <1>1, FillStart, FillStep, PTL DEF FillSpec

-----------------------------------------------------------------------------
(*                               Histograms                                *)

(* The function `it` has the sums of h over all the subsets of S.             *)
Sums(it, h, S) ==
    it = [s \in SUBSET S |-> IF s = {} THEN 0
                             ELSE h[CHOOSE one \in s : TRUE] + it[s \ {CHOOSE one \in s : TRUE}]]

(* Pixels, without the operators it is written with. *)
LEMMA PixelsIs ==
  ASSUME NEW h, NEW S
  PROVE  Pixels(h, S) = (CHOOSE it : Sums(it, h, S))[S]
BY DEF Pixels, MapThenSumSet, MapThenFoldSet, Sums

(* Of sets that are finite there is a smallest. *)
LEMMA SmallestSet ==
  ASSUME NEW T, T # {}, \A s \in T : IsFiniteSet(s)
  PROVE  \E s \in T : \A t \in T : Cardinality(s) <= Cardinality(t)
<1> DEFINE N == {Cardinality(s) : s \in T}
<1>1. N \in SUBSET Nat /\ N # {}
  BY FS_CardinalityType
<1>2. PICK n \in N : \A m \in N : n <= m
  <2> HIDE DEF N
  <2>1. QED
    BY <1>1, LeastOf
<1>3. QED
  BY <1>2

(* Without an element a finite set is smaller. *)
LEMMA OneLess ==
  ASSUME NEW S, IsFiniteSet(S), NEW s \in SUBSET S, NEW one \in s
  PROVE  /\ IsFiniteSet(s) /\ s \ {one} \in SUBSET S
         /\ Cardinality(s) \in 1 .. Cardinality(S) /\ Cardinality(s \ {one}) = Cardinality(s) - 1
         /\ Cardinality(S) \in Nat
<1>1. IsFiniteSet(s) /\ Cardinality(s) <= Cardinality(S)
  BY FS_Subset
<1>2. Cardinality(s) \in Nat /\ Cardinality(S) \in Nat /\ Cardinality(s) # 0
  BY <1>1, FS_CardinalityType, FS_EmptySet
<1>3. Cardinality(s \ {one}) = Cardinality(s) - 1
  BY <1>1, FS_RemoveElement
<1>4. QED
  BY <1>1, <1>2, <1>3

(* The sums over the subsets of a finite set are defined. *)
LEMMA SumsExist ==
  ASSUME NEW S, IsFiniteSet(S), NEW h, \A one \in S : h[one] \in Int
  PROVE  \E it \in [SUBSET S -> Int] : Sums(it, h, S)
<1> DEFINE n == Cardinality(S)
           depth == [s \in SUBSET S |-> Cardinality(s)]
           Some(s) == CHOOSE one \in s : TRUE
           step(f) == [s \in SUBSET S |-> IF s = {} THEN 0 ELSE h[Some(s)] + f[s \ {Some(s)}]]
           body == [f \in [SUBSET S -> Int] |-> step(f)]
<1>1. \A s \in SUBSET S : s # {} => Some(s) \in s
  OBVIOUS
<1>2. n \in Nat
  BY FS_CardinalityType
<1>3. depth \in [SUBSET S -> 0 .. n]
  <2>1. ASSUME NEW s \in SUBSET S PROVE Cardinality(s) \in 0 .. n
    BY <1>2, FS_Subset, FS_CardinalityType
  <2>2. QED
    BY <2>1
<1> HIDE DEF Some
<1>4. body \in [[SUBSET S -> Int] -> [SUBSET S -> Int]]
  <2>1. ASSUME NEW f \in [SUBSET S -> Int], NEW s \in SUBSET S
        PROVE  (IF s = {} THEN 0 ELSE h[Some(s)] + f[s \ {Some(s)}]) \in Int
    <3>1. CASE s = {}
      BY <3>1
    <3>2. CASE s # {}
      <4>1. Some(s) \in S /\ s \ {Some(s)} \in SUBSET S
        BY <1>1, <3>2
      <4>2. h[Some(s)] \in Int /\ f[s \ {Some(s)}] \in Int
        BY <4>1
      <4>3. QED
        BY <3>2, <4>2
    <3>3. QED
      BY <3>1, <3>2
  <2>2. QED
    BY <2>1
<1>5. ASSUME NEW f \in [SUBSET S -> Int], NEW g \in [SUBSET S -> Int], NEW s \in SUBSET S,
             \A t \in SUBSET S : depth[t] < depth[s] => f[t] = g[t]
      PROVE  body[f][s] = body[g][s]
  <2>1. CASE s = {}
    BY <2>1
  <2>2. CASE s # {}
    <3>1. s \ {Some(s)} \in SUBSET S /\ Cardinality(s \ {Some(s)}) < Cardinality(s)
      BY <1>1, <2>2, OneLess
    <3>2. f[s \ {Some(s)}] = g[s \ {Some(s)}]
      BY <1>5, <3>1
    <3>3. QED
      BY <3>2
  <2>3. QED
    BY <2>1, <2>2
<1>6. Descends(body, depth, n, SUBSET S, Int)
  <2> HIDE DEF body, depth, n
  <2>1. \A f, g \in [SUBSET S -> Int] : \A s \in SUBSET S :
           (\A t \in SUBSET S : depth[t] < depth[s] => f[t] = g[t]) => body[f][s] = body[g][s]
    BY <1>5
  <2>2. Int # {}
    OBVIOUS
  <2>3. QED
    BY <1>2, <1>3, <1>4, <2>1, <2>2, Zenon DEF Descends
<1>7. Settles(body, SUBSET S, Int)
  <2> HIDE DEF body, depth, n
  <2>1. QED
    BY <1>6, RecursionEnds
<1>8. PICK it \in [SUBSET S -> Int] : it = body[it]
  <2> HIDE DEF body
  <2>1. QED
    BY <1>7 DEF Settles
<1>9. it = step(it)
  BY <1>8
<1>10. QED
  BY <1>9 DEF Sums, Some

(* The same, with numbers for h. *)
Summed(it, h, S) ==
    (\A one \in S : h[one] \in Int) /\ it \in [SUBSET S -> Int] /\ Sums(it, h, S)

(* The sum over a set is that without any one element and that element.       *)
Adds(it, h, S) ==
    \A s \in SUBSET S : \A one \in s : it[s] = h[one] + it[s \ {one}]

(* In which order the elements are taken does not matter. *)
LEMMA SumsAdd ==
  ASSUME NEW S, IsFiniteSet(S), NEW h, NEW it, Summed(it, h, S)
  PROVE  Adds(it, h, S)
<1> USE DEF Summed, Adds
<1> DEFINE Right(t) == \A other \in t : it[t] = h[other] + it[t \ {other}]
           T == {t \in SUBSET S : ~Right(t)}
<1>1. SUFFICES ASSUME T # {} PROVE FALSE
  OBVIOUS
<1>2. \A t \in T : IsFiniteSet(t)
  BY FS_Subset
<1>3. PICK t \in T : \A u \in T : Cardinality(t) <= Cardinality(u)
  <2> HIDE DEF T
  <2>1. QED
    BY <1>1, <1>2, SmallestSet
<1>4. PICK other \in t : it[t] # h[other] + it[t \ {other}]
  OBVIOUS
<1> DEFINE z == CHOOSE w \in t : TRUE
<1>5. z \in t
  OBVIOUS
<1>6. it[t] = h[z] + it[t \ {z}]
  BY <1>4 DEF Sums
<1> HIDE DEF z
<1>7. other # z
  BY <1>4, <1>6
<1>8. Right(t \ {other}) /\ Right(t \ {z})
  <2>1. ASSUME NEW v \in t PROVE Right(t \ {v})
    <3>1. t \ {v} \in SUBSET S /\ ~(Cardinality(t) <= Cardinality(t \ {v}))
      BY OneLess
    <3> HIDE DEF Right
    <3>2. QED
      BY <1>3, <3>1
  <2> HIDE DEF Right
  <2>2. QED
    BY <1>5, <2>1
<1>9. it[t \ {z}] = h[other] + it[(t \ {z}) \ {other}] /\ it[t \ {other}] = h[z] + it[(t \ {other}) \ {z}]
  BY <1>5, <1>7, <1>8
<1>10. (t \ {z}) \ {other} = (t \ {other}) \ {z}
  OBVIOUS
<1>11. h[other] \in Int /\ h[z] \in Int /\ it[(t \ {other}) \ {z}] \in Int
  BY <1>5
<1>12. it[t \ {other}] = h[z] + it[(t \ {z}) \ {other}] /\ it[(t \ {z}) \ {other}] \in Int
  BY <1>9, <1>10, <1>11, Zenon
<1> DEFINE a == it[t \ {other}]
           b == it[t \ {z}]
           c == it[(t \ {z}) \ {other}]
<1>13. it[t] # h[other] + a /\ it[t] = h[z] + b /\ b = h[other] + c /\ a = h[z] + c /\ c \in Int
       /\ h[other] \in Int /\ h[z] \in Int
  BY <1>4, <1>6, <1>9, <1>11, <1>12, Zenon
<1> HIDE DEF T, a, b, c
<1>14. QED
  BY <1>13

(* The sums over a smaller set are the same. *)
LEMMA SumsAgree ==
  ASSUME NEW S, IsFiniteSet(S), NEW h, NEW R \in SUBSET S,
         NEW it, Sums(it, h, S), NEW is, Sums(is, h, R), NEW s \in SUBSET R
  PROVE  it[s] = is[s]
<1> DEFINE T == {t \in SUBSET R : it[t] # is[t]}
<1>1. SUFFICES ASSUME T # {} PROVE FALSE
  OBVIOUS
<1>2. \A t \in T : IsFiniteSet(t)
  BY FS_Subset
<1>3. PICK t \in T : \A u \in T : Cardinality(t) <= Cardinality(u)
  <2> HIDE DEF T
  <2>1. QED
    BY <1>1, <1>2, SmallestSet
<1> DEFINE z == CHOOSE w \in t : TRUE
<1>4. t # {}
  BY DEF Sums
<1>5. z \in t
  BY <1>4
<1>6. it[t] = h[z] + it[t \ {z}] /\ is[t] = h[z] + is[t \ {z}]
  BY <1>4 DEF Sums
<1> HIDE DEF z
<1>7. t \ {z} \in SUBSET R /\ ~(Cardinality(t) <= Cardinality(t \ {z}))
  BY <1>5, OneLess
<1>8. it[t \ {z}] = is[t \ {z}]
  BY <1>3, <1>7
<1>9. QED
  BY <1>6, <1>8

(* Pixels of no colour. *)
LEMMA PixelsOfNone ==
  ASSUME NEW h
  PROVE  Pixels(h, {}) = 0
<1>1. IsFiniteSet({})
  BY FS_EmptySet
<1>2. \E it : Sums(it, h, {})
  BY <1>1, SumsExist
<1>3. Sums(CHOOSE it : Sums(it, h, {}), h, {})
  BY <1>2
<1>4. QED
  BY <1>3, PixelsIs DEF Sums

(* Pixels of one colour more. *)
LEMMA PixelsAdd ==
  ASSUME NEW S, IsFiniteSet(S), NEW h, \A other \in S : h[other] \in Int,
         NEW one \in S
  PROVE  Pixels(h, S) \in Int /\ Pixels(h, S) = Pixels(h, S \ {one}) + h[one]
<1> DEFINE R == S \ {one}
           is == CHOOSE i : Sums(i, h, R)
           full == CHOOSE i : Sums(i, h, S)
<1>1. IsFiniteSet(R)
  BY FS_Subset
<1>2. PICK it \in [SUBSET S -> Int] : Sums(it, h, S)
  BY SumsExist
<1>3. Sums(is, h, R)
  BY <1>1, SumsExist
<1>4. Sums(full, h, S)
  BY <1>2
<1>5. Pixels(h, R) = is[R] /\ Pixels(h, S) = full[S]
  BY PixelsIs
<1> HIDE DEF is, full
<1>6. full[S] = it[S]
  BY <1>2, <1>4, SumsAgree
<1>7. is[R] = it[R]
  BY <1>2, <1>3, SumsAgree
<1>8. it[S] = h[one] + it[R]
  <2>1. Summed(it, h, S)
    BY <1>2 DEF Summed
  <2>2. Adds(it, h, S)
    BY <2>1, SumsAdd
  <2>3. QED
    BY <2>2 DEF Adds
<1>9. it[S] \in Int /\ it[R] \in Int /\ h[one] \in Int
  BY <1>2
<1>10. QED
  BY <1>5, <1>6, <1>7, <1>8, <1>9

(* The pixels of an interval of colours, one more at either end.              *)
LEMMA PixelsOfMore ==
  ASSUME NEW h, NEW a \in Int, NEW b \in Int, a <= b, \A c \in a .. b : h[c] \in Int
  PROVE  /\ Pixels(h, a .. b) \in Int
         /\ Pixels(h, a .. b) = Pixels(h, a .. b - 1) + h[b]
         /\ Pixels(h, a .. b) = Pixels(h, a + 1 .. b) + h[a]
<1> DEFINE S == a .. b
<1>1. IsFiniteSet(S) /\ a \in S /\ b \in S /\ S = a .. b
  BY FS_Interval
<1>2. S \ {a} = a + 1 .. b /\ S \ {b} = a .. b - 1
  OBVIOUS
<1>3. Pixels(h, S) \in Int /\ Pixels(h, S) = Pixels(h, S \ {a}) + h[a]
  <2> HIDE DEF S
  <2>1. \A c \in S : h[c] \in Int
    BY <1>1
  <2>2. QED
    BY <1>1, <2>1, PixelsAdd
<1>4. Pixels(h, S) = Pixels(h, S \ {b}) + h[b]
  <2> HIDE DEF S
  <2>1. \A c \in S : h[c] \in Int
    BY <1>1
  <2>2. QED
    BY <1>1, <2>1, PixelsAdd
<1> HIDE DEF S
<1>5. Pixels(h, a .. b) \in Int /\ Pixels(h, a .. b) = Pixels(h, a + 1 .. b) + h[a]
  BY <1>1, <1>2, <1>3, Zenon
<1>6. Pixels(h, a .. b) = Pixels(h, a .. b - 1) + h[b]
  BY <1>1, <1>2, <1>4, Zenon
<1>7. QED
  BY <1>5, <1>6, Zenon

(* They are a number, ... *)
LEMMA PixelsType ==
  ASSUME NEW h, NEW a \in Int, NEW b \in Int, \A c \in a .. b : h[c] \in Int
  PROVE  Pixels(h, a .. b) \in Int
<1>1. CASE a <= b
  BY <1>1, PixelsOfMore
<1>2. CASE a > b
  <2>1. a .. b = {}
    BY <1>2
  <2>2. QED
    BY <2>1, PixelsOfNone
<1>3. QED
  BY <1>1, <1>2

(* ... those of one colour are what the histogram says, ... *)
LEMMA PixelsOfOne ==
  ASSUME NEW h, NEW a \in Int, h[a] \in Int
  PROVE  Pixels(h, a .. a) = h[a]
<1>1. a <= a /\ \A c \in a .. a : h[c] \in Int
  OBVIOUS
<1>2. Pixels(h, a .. a) = Pixels(h, a .. a - 1) + h[a]
  BY <1>1, PixelsOfMore
<1>3. a .. a - 1 = {}
  OBVIOUS
<1>4. QED
  BY <1>2, <1>3, PixelsOfNone

(* ... and a histogram made from two others has theirs.                       *)
Combines(p, K, h, e, E, n) ==
    /\ n \in Nat /\ K \in Int /\ E \in Int
    /\ \A c \in 0 .. n : h[c] \in Int /\ e[c] \in Int /\ p[c] = K * (h[c] - e[c]) + E

(* Their pixels, by the same combination.                                     *)
LEMMA PixelsOfCombined ==
  ASSUME NEW p, NEW K, NEW h, NEW e, NEW E, NEW n, Combines(p, K, h, e, E, n)
  PROVE  Pixels(p, 0 .. n) = K * (Pixels(h, 0 .. n) - Pixels(e, 0 .. n)) + (n + 1) * E
<1> USE DEF Combines
<1> DEFINE Right(k) == Pixels(p, 0 .. k) = K * (Pixels(h, 0 .. k) - Pixels(e, 0 .. k)) + (k + 1) * E
           T == {k \in 0 .. n : ~Right(k)}
<1>1. SUFFICES ASSUME T # {} PROVE FALSE
  <2>1. n \in 0 .. n
    OBVIOUS
  <2>2. QED
    BY <2>1
<1>2. PICK k \in T : \A j \in T : k <= j
  <2>1. T \in SUBSET Nat
    OBVIOUS
  <2> HIDE DEF T
  <2>2. QED
    BY <1>1, <2>1, LeastOf
<1>3. k \in 0 .. n /\ ~Right(k)
  OBVIOUS
<1>4. p[k] = K * (h[k] - e[k]) + E /\ h[k] \in Int /\ e[k] \in Int /\ p[k] \in Int
  BY <1>3
<1>5. CASE k = 0
  <2>1. Pixels(p, 0 .. 0) = p[0] /\ Pixels(h, 0 .. 0) = h[0] /\ Pixels(e, 0 .. 0) = e[0]
    <3>1. 0 \in Int /\ p[0] \in Int /\ h[0] \in Int /\ e[0] \in Int
      BY <1>4, <1>5
    <3>2. QED
      BY <3>1, PixelsOfOne
  <2>2. Right(0)
    BY <1>4, <1>5, <2>1
  <2>3. QED
    BY <1>3, <1>5, <2>2
<1>6. CASE k # 0
  <2>1. k - 1 \in 0 .. n /\ ~(k <= k - 1) /\ 0 <= k
    BY <1>3, <1>6
  <2>2. Right(k - 1)
    <3> HIDE DEF Right
    <3>1. k - 1 \notin T
      BY <1>2, <2>1
    <3>2. QED
      BY <2>1, <3>1
  <2>3. \A c \in 0 .. k : p[c] \in Int /\ h[c] \in Int /\ e[c] \in Int
    BY <1>3
  <2> DEFINE P == Pixels(p, 0 .. k - 1)
             H == Pixels(h, 0 .. k - 1)
             W == Pixels(e, 0 .. k - 1)
  <2>4. P \in Int /\ H \in Int /\ W \in Int
    <3>1. \A c \in 0 .. k - 1 : p[c] \in Int /\ h[c] \in Int /\ e[c] \in Int
      BY <1>3
    <3>2. k - 1 \in Int
      BY <1>3
    <3>3. QED
      BY <3>1, <3>2, PixelsType
  <2>5. /\ Pixels(p, 0 .. k) = P + p[k]
        /\ Pixels(h, 0 .. k) = H + h[k]
        /\ Pixels(e, 0 .. k) = W + e[k]
    <3>1. k \in Int
      BY <1>3
    <3>2. QED
      BY <2>1, <2>3, <3>1, PixelsOfMore
  <2>6. P = K * (H - W) + k * E
    <3>1. P = K * (H - W) + ((k - 1) + 1) * E
      BY <2>2
    <3>2. (k - 1) + 1 = k
      BY <1>3
    <3>3. QED
      BY <3>1, <3>2
  <2> HIDE DEF P, H, W
  <2>7. K * ((H + h[k]) - (W + e[k])) = K * (H - W) + K * (h[k] - e[k])
    BY <1>4, <2>4
  <2>8. (k + 1) * E = k * E + E
    BY <1>3
  <2>9. P + p[k] = K * ((H + h[k]) - (W + e[k])) + (k + 1) * E
    BY <1>3, <1>4, <2>4, <2>6, <2>7, <2>8
  <2>10. QED
    BY <1>3, <2>5, <2>9
<1>7. QED
  BY <1>5, <1>6

(* The pixels of the darker colours are more, the more colours there are.     *)
LEMMA PixelsGrow ==
  ASSUME NEW n \in Nat, NEW h, \A c \in 0 .. n : h[c] \in Nat
  PROVE  \A d \in 0 .. n : \A c \in 0 .. d :
             Pixels(h, 0 .. c) \in Nat /\ Pixels(h, 0 .. c) <= Pixels(h, 0 .. d)
<1> DEFINE Right(d) == \A c \in 0 .. d :
               Pixels(h, 0 .. c) \in Nat /\ Pixels(h, 0 .. c) <= Pixels(h, 0 .. d)
           T == {d \in 0 .. n : ~Right(d)}
<1>1. SUFFICES ASSUME T # {} PROVE FALSE
  OBVIOUS
<1>2. PICK d \in T : \A j \in T : d <= j
  <2>1. T \in SUBSET Nat
    OBVIOUS
  <2> HIDE DEF T
  <2>2. QED
    BY <1>1, <2>1, LeastOf
<1>3. d \in 0 .. n /\ ~Right(d)
  OBVIOUS
<1>4. CASE d = 0
  <2>1. Pixels(h, 0 .. 0) = h[0] /\ h[0] \in Nat
    <3>1. 0 \in Int /\ h[0] \in Nat /\ h[0] \in Int
      OBVIOUS
    <3>2. QED
      BY <3>1, PixelsOfOne
  <2>2. Right(0)
    BY <2>1
  <2>3. QED
    BY <1>3, <1>4, <2>2
<1>5. CASE d # 0
  <2>1. d - 1 \in 0 .. n /\ ~(d <= d - 1) /\ 0 <= d /\ d \in Int /\ d - 1 \in 0 .. d - 1
    BY <1>3, <1>5
  <2>2. Right(d - 1)
    <3> HIDE DEF Right
    <3>1. d - 1 \notin T
      BY <1>2, <2>1
    <3>2. QED
      BY <2>1, <3>1
  <2>3. Pixels(h, 0 .. d) = Pixels(h, 0 .. d - 1) + h[d] /\ h[d] \in Nat
    <3>1. \A c \in 0 .. d : h[c] \in Int
      BY <1>3
    <3>2. QED
      BY <1>3, <2>1, <3>1, PixelsOfMore
  <2>4. Pixels(h, 0 .. d - 1) \in Nat
    BY <2>1, <2>2
  <2>5. Pixels(h, 0 .. d - 1) <= Pixels(h, 0 .. d) /\ Pixels(h, 0 .. d) \in Nat
    BY <2>3, <2>4
  <2>6. ASSUME NEW c \in 0 .. d
        PROVE  Pixels(h, 0 .. c) \in Nat /\ Pixels(h, 0 .. c) <= Pixels(h, 0 .. d)
    <3>1. CASE c = d
      BY <2>5, <3>1
    <3>2. CASE c # d
      <4>1. c \in 0 .. d - 1
        BY <2>1, <3>2
      <4>2. Pixels(h, 0 .. c) \in Nat /\ Pixels(h, 0 .. c) <= Pixels(h, 0 .. d - 1)
        BY <2>2, <4>1
      <4>3. QED
        BY <2>4, <2>5, <4>2
    <3>3. QED
      BY <3>1, <3>2
  <2>7. QED
    BY <1>3, <2>6
<1>6. QED
  BY <1>4, <1>5

(* A scan counts as its definition by recursion says. *)
LEMMA RunCountsAre ==
  ASSUME NEW good, NEW first \in Int, NEW last \in Int, NEW accum \in Nat
  PROVE  LET up == first <= last
             S == IF up THEN first .. last ELSE last .. first
             count == RunCounts(good, first, last, accum)
         IN  /\ count \in [S -> Nat]
             /\ \A c \in S :
                   count[c] = IF c \in good
                              THEN (IF c = first THEN accum
                                    ELSE count[IF up THEN c - 1 ELSE c + 1]) + 1
                              ELSE 0
<1> DEFINE up == first <= last
           S == IF up THEN first .. last ELSE last .. first
           n == IF up THEN last - first ELSE first - last
           depth == [c \in S |-> IF up THEN c - first ELSE first - c]
           Back(c) == IF up THEN c - 1 ELSE c + 1
           step(f) == [c \in S |->
               LET last_count == IF c = first THEN accum ELSE f[Back(c)]
               IN  IF c \in good THEN last_count + 1 ELSE 0]
           body == [f \in [S -> Nat] |-> step(f)]
<1>1. n \in Nat /\ depth \in [S -> 0 .. n] /\ Nat # {}
  OBVIOUS
<1>2. \A c \in S : c # first => Back(c) \in S /\ depth[Back(c)] < depth[c]
  OBVIOUS
<1>3. \A c \in S : c # first => Back(c) \in S
  BY <1>2
<1> HIDE DEF Back, depth, n, S
<1>4. body \in [[S -> Nat] -> [S -> Nat]]
  BY <1>3
<1>5. \A f, g \in [S -> Nat] : \A c \in S :
          (\A d \in S : depth[d] < depth[c] => f[d] = g[d]) => body[f][c] = body[g][c]
  BY <1>2
<1>6. Descends(body, depth, n, S, Nat)
  <2> HIDE DEF body
  <2>1. QED
    BY <1>1, <1>4, <1>5, Zenon DEF Descends
<1>7. Settles(body, S, Nat)
  <2> HIDE DEF body
  <2>1. QED
    BY <1>6, RecursionEnds
<1>8. PICK it \in [S -> Nat] : it = body[it]
  <2> HIDE DEF body
  <2>1. QED
    BY <1>7 DEF Settles
<1>9. it = step(it)
  BY <1>8
<1> DEFINE count == RunCounts(good, first, last, accum)
<1>10. count = CHOOSE f : f = step(f)
  BY DEF RunCounts, S, Back
<1> HIDE DEF count
<1>11. count = step(count)
  <2> HIDE DEF step
  <2>1. QED
    BY <1>9, <1>10
<1>12. count = it
  <2> SUFFICES ASSUME count # it PROVE FALSE
    OBVIOUS
  <2> DEFINE T == {k \in 0 .. n : \E c \in S : depth[c] = k /\ count[c] # it[c]}
  <2>1. \E c \in S : count[c] # it[c]
    BY <1>9, <1>11
  <2>2. T \in SUBSET Nat /\ T # {}
    BY <1>1, <2>1
  <2>3. PICK k \in T : \A m \in T : k <= m
    <3> HIDE DEF T
    <3>1. QED
      BY <2>2, LeastOf
  <2>4. PICK c \in S : depth[c] = k /\ count[c] # it[c]
    OBVIOUS
  <2>5. c # first
    BY <1>9, <1>11, <2>4
  <2>6. count[Back(c)] # it[Back(c)]
    BY <1>9, <1>11, <2>4, <2>5
  <2>7. Back(c) \in S /\ depth[Back(c)] < k /\ depth[Back(c)] \in 0 .. n
    BY <1>1, <1>2, <2>4, <2>5
  <2>8. depth[Back(c)] \in T
    BY <2>6, <2>7
  <2> HIDE DEF T
  <2>9. k \in Nat
    BY <2>2
  <2>10. QED
    BY <2>3, <2>7, <2>8, <2>9
<1>13. count \in [S -> Nat]
  BY <1>12
<1>14. \A c \in S : count[c] = IF c \in good
                               THEN (IF c = first THEN accum ELSE count[Back(c)]) + 1
                               ELSE 0
  BY <1>11
<1>15. QED
  BY <1>13, <1>14 DEF count, S, Back

(* What counts the members of G that follow each other exceeds L just at the  *)
(* end of a run of more than L of them.                                       *)
Counting(g, G, n) ==
    /\ n \in Nat /\ g \in [0 .. n -> Nat]
    /\ \A i \in 0 .. n : g[i] = IF i \in G THEN (IF i = 0 THEN 0 ELSE g[i - 1]) + 1 ELSE 0

(* The count at i is the length of the run that ends there.                   *)
LEMMA RunLength ==
  ASSUME NEW g, NEW G, NEW n, Counting(g, G, n)
  PROVE  \A i \in 0 .. n, L \in Nat : g[i] > L <=> i - L >= 0 /\ i - L .. i \subseteq G
<1> USE DEF Counting
<1> DEFINE Right(i) == \A L \in Nat : g[i] > L <=> i - L >= 0 /\ i - L .. i \subseteq G
           T == {i \in 0 .. n : ~Right(i)}
<1>1. SUFFICES ASSUME T # {} PROVE FALSE
  OBVIOUS
<1>2. PICK i \in T : \A j \in T : i <= j
  <2>1. T \in SUBSET Nat
    OBVIOUS
  <2> HIDE DEF T
  <2>2. QED
    BY <1>1, <2>1, LeastOf
<1>3. i \in 0 .. n
  OBVIOUS
<1>4. i # 0 => Right(i - 1)
  <2> HIDE DEF Right
  <2> HAVE i # 0
  <2>1. i - 1 \in 0 .. n /\ ~(i <= i - 1)
    BY <1>3
  <2>2. i - 1 \notin T
    BY <1>2, <2>1
  <2>3. QED
    BY <2>1, <2>2
<1> HIDE DEF T
<1>5. ASSUME NEW L \in Nat
      PROVE  g[i] > L <=> i - L >= 0 /\ i - L .. i \subseteq G
  <2>1. CASE i \notin G
    <3>1. g[i] = 0
      BY <1>3, <2>1
    <3>2. i \in i - L .. i
      BY <1>3
    <3>3. QED
      BY <2>1, <3>1, <3>2
  <2>2. CASE i \in G /\ i = 0
    <3>1. g[i] = 1
      BY <1>3, <2>2
    <3>2. L = 0 => i - L .. i \subseteq G
      BY <2>2
    <3>3. QED
      BY <2>2, <3>1, <3>2
  <2>3. CASE i \in G /\ i # 0
    <3>1. g[i] = g[i - 1] + 1 /\ g[i - 1] \in Nat
      BY <1>3, <2>3
    <3>2. CASE L = 0
      <4>1. i - L .. i \subseteq G
        BY <1>3, <2>3, <3>2
      <4>2. QED
        BY <1>3, <3>1, <3>2, <4>1
    <3>3. CASE L # 0
      <4>1. L - 1 \in Nat /\ (i - 1) - (L - 1) = i - L
        BY <1>3, <3>3
      <4>2. g[i - 1] > L - 1 <=> i - L >= 0 /\ i - L .. i - 1 \subseteq G
        BY <1>4, <2>3, <4>1
      <4>3. g[i] > L <=> g[i - 1] > L - 1
        BY <3>1
      <4>4. i - L .. i = (i - L .. i - 1) \cup {i}
        BY <1>3, <3>3
      <4>5. QED
        BY <2>3, <4>2, <4>3, <4>4
    <3>4. QED
      BY <3>2, <3>3
  <2>4. QED
    BY <2>1, <2>2, <2>3
<1>6. Right(i)
  BY <1>5
<1>7. ~Right(i)
  BY <1>2 DEF T
<1>8. QED
  BY <1>6, <1>7

(* The colours at which a scan towards the lighter ones has seen more than    *)
(* `length` of the good ones in a row.                                        *)
LEMMA LongUp ==
  ASSUME NEW good, NEW first \in Int, NEW last \in Int, first <= last, NEW length \in Nat
  PROVE  Long(RunCounts(good, first, last, 0), length)
             = {c \in first .. last : c - length >= first /\ c - length .. c \subseteq good}
<1> DEFINE count == RunCounts(good, first, last, 0)
           n == last - first
           g == [i \in 0 .. n |-> count[first + i]]
           G == {i \in Int : first + i \in good}
<1>1. /\ count \in [first .. last -> Nat]
      /\ \A c \in first .. last :
             count[c] = IF c \in good THEN (IF c = first THEN 0 ELSE count[c - 1]) + 1 ELSE 0
  BY RunCountsAre
<1> HIDE DEF count
<1>2. Counting(g, G, n)
  <2>1. n \in Nat /\ g \in [0 .. n -> Nat]
    BY <1>1
  <2>2. ASSUME NEW i \in 0 .. n
        PROVE  g[i] = IF i \in G THEN (IF i = 0 THEN 0 ELSE g[i - 1]) + 1 ELSE 0
    <3>1. first + i \in first .. last /\ (first + i) - 1 = first + (i - 1)
      OBVIOUS
    <3>2. i # 0 => i - 1 \in 0 .. n
      OBVIOUS
    <3>3. g[i] = count[first + i] /\ (i # 0 => g[i - 1] = count[first + (i - 1)])
      BY <3>2
    <3>4. first + i = first <=> i = 0
      OBVIOUS
    <3>5. first + i \in good <=> i \in G
      OBVIOUS
    <3> HIDE DEF g, G, n
    <3>6. QED
      BY <1>1, <3>1, <3>3, <3>4, <3>5
  <2>3. QED
    BY <2>1, <2>2 DEF Counting
<1>3. ASSUME NEW c \in first .. last
      PROVE  count[c] > length <=> c - length >= first /\ c - length .. c \subseteq good
  <2>1. c - first \in 0 .. n /\ g[c - first] = count[c]
    OBVIOUS
  <2>2. count[c] > length
          <=> (c - first) - length >= 0 /\ (c - first) - length .. c - first \subseteq G
    <3> HIDE DEF g, G, n
    <3>1. QED
      BY <1>2, <2>1, RunLength
  <2>3. (c - first) - length .. c - first \subseteq G <=> c - length .. c \subseteq good
    <3>1. ASSUME (c - first) - length .. c - first \subseteq G, NEW d \in c - length .. c
          PROVE  d \in good
      <4>1. d - first \in (c - first) - length .. c - first /\ first + (d - first) = d
        OBVIOUS
      <4>2. QED
        BY <3>1, <4>1
    <3>2. ASSUME c - length .. c \subseteq good, NEW i \in (c - first) - length .. c - first
          PROVE  i \in G
      <4>1. first + i \in c - length .. c
        OBVIOUS
      <4>2. QED
        BY <3>2, <4>1
    <3>3. QED
      BY <3>1, <3>2
  <2>4. QED
    BY <2>2, <2>3
<1>4. QED
  BY <1>1, <1>3 DEF Long, count

(* The same for a scan towards the darker ones.                               *)
LEMMA LongDown ==
  ASSUME NEW good, NEW first \in Int, NEW last \in Int, last <= first, NEW length \in Nat
  PROVE  Long(RunCounts(good, first, last, 0), length)
             = {c \in last .. first : c + length <= first /\ c .. c + length \subseteq good}
<1> DEFINE count == RunCounts(good, first, last, 0)
           n == first - last
           g == [i \in 0 .. n |-> count[first - i]]
           G == {i \in Int : first - i \in good}
<1>1. /\ count \in [last .. first -> Nat]
      /\ \A c \in last .. first :
             count[c] = IF c \in good THEN (IF c = first THEN 0 ELSE count[c + 1]) + 1 ELSE 0
  <2>1. CASE first = last
    <3>1. /\ count \in [first .. last -> Nat]
          /\ \A c \in first .. last :
                 count[c] = IF c \in good
                            THEN (IF c = first THEN 0 ELSE count[c - 1]) + 1 ELSE 0
      <4>1. first <= last
        BY <2>1
      <4>2. QED
        BY <4>1, RunCountsAre
    <3>2. \A c \in first .. last : c = first
      BY <2>1
    <3> HIDE DEF count
    <3>3. QED
      BY <2>1, <3>1, <3>2
  <2>2. CASE last < first
    <3>1. ~(first <= last)
      BY <2>2
    <3>2. QED
      BY <3>1, RunCountsAre
  <2>3. QED
    BY <2>1, <2>2
<1> HIDE DEF count
<1>2. Counting(g, G, n)
  <2>1. n \in Nat /\ g \in [0 .. n -> Nat]
    BY <1>1
  <2>2. ASSUME NEW i \in 0 .. n
        PROVE  g[i] = IF i \in G THEN (IF i = 0 THEN 0 ELSE g[i - 1]) + 1 ELSE 0
    <3>1. first - i \in last .. first /\ (first - i) + 1 = first - (i - 1)
      OBVIOUS
    <3>2. i # 0 => i - 1 \in 0 .. n
      OBVIOUS
    <3>3. g[i] = count[first - i] /\ (i # 0 => g[i - 1] = count[first - (i - 1)])
      BY <3>2
    <3>4. first - i = first <=> i = 0
      OBVIOUS
    <3>5. first - i \in good <=> i \in G
      OBVIOUS
    <3> HIDE DEF g, G, n
    <3>6. QED
      BY <1>1, <3>1, <3>3, <3>4, <3>5
  <2>3. QED
    BY <2>1, <2>2 DEF Counting
<1>3. ASSUME NEW c \in last .. first
      PROVE  count[c] > length <=> c + length <= first /\ c .. c + length \subseteq good
  <2>1. first - c \in 0 .. n /\ g[first - c] = count[c]
    OBVIOUS
  <2>2. count[c] > length
          <=> (first - c) - length >= 0 /\ (first - c) - length .. first - c \subseteq G
    <3> HIDE DEF g, G, n
    <3>1. QED
      BY <1>2, <2>1, RunLength
  <2>3. (first - c) - length .. first - c \subseteq G <=> c .. c + length \subseteq good
    <3>1. ASSUME (first - c) - length .. first - c \subseteq G, NEW d \in c .. c + length
          PROVE  d \in good
      <4>1. first - d \in (first - c) - length .. first - c /\ first - (first - d) = d
        OBVIOUS
      <4>2. QED
        BY <3>1, <4>1
    <3>2. ASSUME c .. c + length \subseteq good, NEW i \in (first - c) - length .. first - c
          PROVE  i \in G
      <4>1. first - i \in c .. c + length
        OBVIOUS
      <4>2. QED
        BY <3>2, <4>1
    <3>3. QED
      BY <3>1, <3>2
  <2>4. QED
    BY <2>2, <2>3
<1>4. QED
  BY <1>1, <1>3 DEF Long, count

(* The first and the last of a set of colours are in it.                      *)
LEMMA FirstIn ==
  ASSUME NEW n \in Nat, NEW S \in SUBSET (0 .. n), NEW none
  PROVE  /\ S = {} => FirstUp(S, none) = none /\ FirstDown(S, none) = none
         /\ S # {} => FirstUp(S, none) \in S /\ FirstDown(S, none) \in S
<1>1. ASSUME S # {} PROVE Min(S) \in S
  <2>1. \E one \in S : \A other \in S : one <= other
    BY <1>1, LeastOf
  <2>2. QED
    BY <2>1 DEF Min
<1>2. ASSUME S # {} PROVE Max(S) \in S
  <2> DEFINE T == {n - one : one \in S}
  <2>1. T \in SUBSET Nat /\ T # {}
    <3>1. \A one \in S : n - one \in Nat
      OBVIOUS
    <3>2. PICK one \in S : TRUE
      BY <1>2
    <3>3. n - one \in T
      OBVIOUS
    <3>4. QED
      BY <3>1, <3>3
  <2>2. PICK t \in T : \A u \in T : t <= u
    <3> HIDE DEF T
    <3>1. QED
      BY <2>1, LeastOf
  <2>3. PICK one \in S : t = n - one
    OBVIOUS
  <2>4. \A other \in S : n - one <= n - other
    BY <2>2, <2>3
  <2>5. \A other \in S : one >= other
    <3> TAKE other \in S
    <3>1. one \in 0 .. n /\ other \in 0 .. n /\ n - one <= n - other
      BY <2>4
    <3>2. QED
      BY <3>1
  <2>6. QED
    BY <2>5 DEF Max
<1>3. QED
  BY <1>1, <1>2 DEF FirstUp, FirstDown

(* There are three colours or more, from 0 on.                                *)
LEMMA Shades ==
  /\ COLORS - 1 \in Nat /\ COLORS - 2 \in Nat \ {0} /\ COLORS \in Nat
  /\ SHADE = 0 .. COLORS - 1
BY ContrastAssumption DEF SHADE

(* The colours with which a steep, or a flat, stretch begins.                 *)
SteepParts(h, level) ==
    {c \in 0 .. COLORS - 1 - STEEP : c .. c + STEEP \subseteq AtLeast(h, level + 1)}
FlatParts(h, level) ==
    {c \in 0 .. COLORS - 1 - EDGE : c .. c + EDGE \subseteq Below(h, level)}

(* The bounds at a relative height are the ends of the widest steep area.     *)
LEMMA BoundsRelAre ==
  ASSUME NEW h, NEW p \in SHADE, NEW level
  PROVE  BoundsRel(h, p, level)
            = <<FirstUp({c \in SteepParts(h, level) : c + STEEP <= p}, -1),
                FirstDown({c + STEEP : c \in {d \in SteepParts(h, level) :
                                           d >= p /\ d + STEEP < COLORS - 1}}, -1)>>
<1> DEFINE good == AtLeast(h, level + 1)
           steep == {c \in 0 .. COLORS - 1 - STEEP : c .. c + STEEP \subseteq good}
           later == {c + STEEP : c \in {d \in steep : d >= p /\ d + STEEP < COLORS - 1}}
           right == IF p > COLORS - 2 THEN {}
                    ELSE Long(RunCounts(good, p, COLORS - 2, 0), STEEP)
<1>1. BoundsRel(h, p, level)
         = <<FirstUp(Long(RunCounts(good, p, 0, 0), STEEP), -1), FirstDown(right, -1)>>
  BY DEF BoundsRel
<1> HIDE DEF good
<1> USE Shades
<1>2. STEEP \in Nat /\ p \in Int /\ 0 <= p /\ p <= COLORS - 1
  BY ContrastAssumption
<1>3. Long(RunCounts(good, p, 0, 0), STEEP) = {c \in steep : c + STEEP <= p}
  <2>1. Long(RunCounts(good, p, 0, 0), STEEP)
           = {c \in 0 .. p : c + STEEP <= p /\ c .. c + STEEP \subseteq good}
    BY <1>2, LongDown
  <2>2. QED
    BY <1>2, <2>1
<1>4. right = later
  <2>1. CASE p > COLORS - 2
    <3>1. \A d \in steep : ~(d >= p /\ d + STEEP < COLORS - 1)
      BY <1>2, <2>1
    <3>2. QED
      BY <2>1, <3>1
  <2>2. CASE p <= COLORS - 2
    <3>1. right = {c \in p .. COLORS - 2 : c - STEEP >= p /\ c - STEEP .. c \subseteq good}
      BY <1>2, <2>2, LongUp
    <3>2. ASSUME NEW c \in right PROVE c \in later
      <4>1. c - STEEP \in steep /\ c - STEEP >= p /\ (c - STEEP) + STEEP < COLORS - 1
        BY <1>2, <3>1
      <4>2. c = (c - STEEP) + STEEP
        BY <1>2, <3>1
      <4> HIDE DEF steep
      <4>3. QED
        BY <4>1, <4>2
    <3>3. ASSUME NEW c \in later PROVE c \in right
      <4>1. PICK d \in steep : d >= p /\ d + STEEP < COLORS - 1 /\ c = d + STEEP
        OBVIOUS
      <4>2. c \in p .. COLORS - 2 /\ c - STEEP = d
        BY <1>2, <4>1
      <4>3. QED
        BY <3>1, <4>1, <4>2
    <3> HIDE DEF later, right
    <3>4. QED
      BY <3>2, <3>3
  <2>3. p > COLORS - 2 \/ p <= COLORS - 2
    BY <1>2
  <2>4. QED
    BY <2>1, <2>2, <2>3, Zenon
<1> HIDE DEF steep, right
<1>5. QED
  BY <1>1, <1>3, <1>4 DEF steep, good, SteepParts

(* The bounds at an absolute height are the ends of two flat stretches.       *)
LEMMA BoundsAbsAre ==
  ASSUME NEW h, NEW p \in SHADE, NEW level
  PROVE  BoundsAbs(h, p, level)
            = <<FirstDown({c \in FlatParts(h, level) : c + EDGE <= p}, -1),
                FirstUp({c + EDGE : c \in {d \in FlatParts(h, level) : d >= p}}, -1)>>
<1> DEFINE good == Below(h, level)
           flat == {c \in 0 .. COLORS - 1 - EDGE : c .. c + EDGE \subseteq good}
           later == {c + EDGE : c \in {d \in flat : d >= p}}
           right == Long(RunCounts(good, p, COLORS - 1, 0), EDGE)
<1>1. BoundsAbs(h, p, level)
         = <<FirstDown(Long(RunCounts(good, p, 0, 0), EDGE), -1), FirstUp(right, -1)>>
  BY DEF BoundsAbs
<1> HIDE DEF good
<1> USE Shades
<1>2. EDGE \in Nat /\ p \in Int /\ 0 <= p /\ p <= COLORS - 1
  BY ContrastAssumption
<1>3. Long(RunCounts(good, p, 0, 0), EDGE) = {c \in flat : c + EDGE <= p}
  <2>1. Long(RunCounts(good, p, 0, 0), EDGE)
           = {c \in 0 .. p : c + EDGE <= p /\ c .. c + EDGE \subseteq good}
    BY <1>2, LongDown
  <2>2. QED
    BY <1>2, <2>1
<1>4. right = later
  <2>1. right = {c \in p .. COLORS - 1 : c - EDGE >= p /\ c - EDGE .. c \subseteq good}
    BY <1>2, LongUp
  <2>2. ASSUME NEW c \in right PROVE c \in later
    <3>1. c - EDGE \in flat /\ c - EDGE >= p
      BY <1>2, <2>1
    <3>2. c = (c - EDGE) + EDGE
      BY <1>2, <2>1
    <3> HIDE DEF flat
    <3>3. QED
      BY <3>1, <3>2
  <2>3. ASSUME NEW c \in later PROVE c \in right
    <3>1. PICK d \in flat : d >= p /\ c = d + EDGE
      OBVIOUS
    <3>2. c \in p .. COLORS - 1 /\ c - EDGE = d
      BY <1>2, <3>1
    <3>3. QED
      BY <2>1, <3>1, <3>2
  <2> HIDE DEF later, right
  <2>4. QED
    BY <2>2, <2>3
<1> HIDE DEF flat, right
<1>5. QED
  BY <1>1, <1>3, <1>4 DEF flat, good, FlatParts

(* The peak is inside the histogram.                                          *)
LEMMA PeakInside ==
  ASSUME NEW h \in [SHADE -> Nat]
  PROVE  HistogramPeak(h, 1) \in 1 .. COLORS - 2
<1> USE Shades
<1> DEFINE runs == {c \in Long(RunCounts(AtLeast(h, 1), 0, COLORS - 1, 0), RUN) : h[c] > 0}
           tops == {c \in runs : \A d \in runs : h[d] <= h[c]}
           top == FirstUp(tops, 0)
           level == (IF runs = {} THEN 0 ELSE h[top]) \div 2
           ends == BoundsAbs(h, top, level)
           start == IF ends[1] = -1 THEN 0 ELSE ends[1]
           finish == IF ends[2] = -1 THEN COLORS - 1 ELSE ends[2]
<1>1. HistogramPeak(h, 1) = (start + finish) \div 2
  BY DEF HistogramPeak
<1>2. tops \in SUBSET (0 .. COLORS - 1)
  <2>1. 0 <= COLORS - 1 /\ RUN \in Nat
    BY ContrastAssumption
  <2>2. Long(RunCounts(AtLeast(h, 1), 0, COLORS - 1, 0), RUN) \in SUBSET (0 .. COLORS - 1)
    BY <2>1, LongUp
  <2>3. QED
    BY <2>2
<1> HIDE DEF tops, runs
<1>3. top \in SHADE
  <2>1. tops = {} => top = 0
    BY <1>2, FirstIn
  <2>2. tops # {} => top \in tops
    BY <1>2, FirstIn
  <2>3. 0 \in SHADE /\ tops \in SUBSET SHADE
    BY <1>2
  <2> HIDE DEF top
  <2>4. QED
    BY <2>1, <2>2, <2>3, Zenon
<1> HIDE DEF top
<1>4. level \in Nat /\ level <= h[top]
  <2>1. h[top] \in Nat
    BY <1>3
  <2>2. QED
    BY <2>1
<1> HIDE DEF level
<1> DEFINE flat == FlatParts(h, level)
           lefts == {c \in flat : c + EDGE <= top}
           rights == {c + EDGE : c \in {d \in flat : d >= top}}
<1>5. ends = <<FirstDown(lefts, -1), FirstUp(rights, -1)>>
  BY <1>3, BoundsAbsAre
<1>6. EDGE \in Nat \ {0}
  BY ContrastAssumption
<1>7. \A c \in flat : top \notin c .. c + EDGE
  BY <1>3, <1>4 DEF Below, AtLeast, FlatParts
<1>8. \A c \in lefts : c \in 0 .. COLORS - 1 /\ c + EDGE < top
  <2> TAKE c \in lefts
  <2>1. c \in 0 .. COLORS - 1 - EDGE
    BY DEF FlatParts
  <2>2. top \notin c .. c + EDGE /\ c + EDGE <= top
    BY <1>7
  <2>3. QED
    BY <1>3, <1>6, <2>1, <2>2
<1>9. \A c \in rights : c \in 0 .. COLORS - 1 /\ c > top + EDGE
  <2> SUFFICES ASSUME NEW d \in flat, d >= top
               PROVE  d + EDGE \in 0 .. COLORS - 1 /\ d + EDGE > top + EDGE
    OBVIOUS
  <2>1. top \notin d .. d + EDGE /\ d \in 0 .. COLORS - 1 - EDGE
    BY <1>7 DEF FlatParts
  <2>2. QED
    BY <1>3, <1>6, <2>1
<1> HIDE DEF lefts, rights, ends, flat
<1>10. start \in 0 .. COLORS - 1 /\ (start = 0 \/ start + EDGE < top)
  <2>1. lefts \in SUBSET (0 .. COLORS - 1)
    BY <1>8
  <2>2. ends[1] = -1 \/ ends[1] \in lefts
    BY <1>5, <2>1, FirstIn
  <2>3. QED
    BY <1>8, <2>2
<1>11. finish \in 0 .. COLORS - 1 /\ (finish = COLORS - 1 \/ finish > top + EDGE)
  <2>1. rights \in SUBSET (0 .. COLORS - 1)
    BY <1>9
  <2>2. ends[2] = -1 \/ ends[2] \in rights
    BY <1>5, <2>1, FirstIn
  <2>3. QED
    BY <1>9, <2>2
<1> HIDE DEF start, finish
<1>12. 2 <= start + finish /\ start + finish <= 2 * COLORS - 4 + 1
  BY <1>3, <1>6, <1>10, <1>11
<1>13. (start + finish) \div 2 \in 1 .. COLORS - 2
  BY <1>10, <1>11, <1>12
<1>14. QED
  BY <1>1, <1>13

(* What an invariant has to say of new colours.                               *)
Ordered(new) ==
    /\ \A c \in SHADE : new[c] \in SHADE
    /\ \A c, d \in SHADE : c <= d => new[c] <= new[d]
    /\ new[COLORS - 1] = COLORS - 1

(* A stretch keeps the order and makes its bounds black and white.            *)
LEMMA StretchIsOrdered ==
  ASSUME NEW l \in SHADE, NEW r \in SHADE, l < r, NEW new,
         new = [c \in SHADE |-> Stretched(c, <<l, r>>)]
  PROVE  Ordered(new) /\ new[l] = 0 /\ new[r] = COLORS - 1
<1> DEFINE k == COLORS - 1
           w == r - l
           Q(c) == (k * (c - l)) \div w
<1>1. k \in Nat /\ w \in Nat \ {0} /\ SHADE = 0 .. k
  BY Shades
<1>2. \A c \in SHADE : new[c] = LargerOf(0, SmallerOf(k, Q(c)))
  BY DEF Stretched
<1>3. ASSUME NEW c \in SHADE, NEW d \in SHADE, c <= d
      PROVE  Q(c) \in Int /\ Q(d) \in Int /\ Q(c) <= Q(d)
  <2>1. c - l \in Int /\ d - l \in Int /\ c - l <= d - l
    BY <1>1, <1>3
  <2> HIDE DEF k, w
  <2>2. QED
    BY <1>1, <2>1, Share
<1>4. Q(l) = 0 /\ Q(r) = k
  <2>1. l - l = 0 /\ r - l = w
    BY <1>1
  <2> HIDE DEF k, w
  <2>2. (k * 0) \div w = 0 /\ (k * w) \div w = k
    BY <1>1, Share
  <2>3. QED
    BY <2>1, <2>2
<1> HIDE DEF k, w, Q
<1>5. \A c \in SHADE : Q(c) \in Int
  BY <1>1, <1>3
<1>6. \A c \in SHADE : new[c] \in SHADE
  <2> TAKE c \in SHADE
  <2>1. new[c] = LargerOf(0, SmallerOf(k, Q(c))) /\ Q(c) \in Int
    BY <1>2, <1>5
  <2>2. LargerOf(0, SmallerOf(k, Q(c))) \in 0 .. k
    BY <1>1, <2>1 DEF LargerOf, SmallerOf
  <2>3. QED
    BY <1>1, <2>1, <2>2
<1>7. ASSUME NEW c \in SHADE, NEW d \in SHADE, c <= d
      PROVE  new[c] <= new[d]
  <2>1. Q(c) \in Int /\ Q(d) \in Int /\ Q(c) <= Q(d)
    BY <1>3, <1>7
  <2>2. QED
    BY <1>1, <1>2, <2>1 DEF LargerOf, SmallerOf
<1>8. new[l] = 0 /\ new[r] = k
  BY <1>1, <1>2, <1>4 DEF LargerOf, SmallerOf
<1>9. k \in SHADE /\ r <= k
  BY <1>1
<1>10. new[k] = k
  <2>1. new[r] <= new[k] /\ new[k] \in SHADE
    BY <1>6, <1>7, <1>9
  <2>2. QED
    BY <1>1, <1>8, <2>1
<1>11. QED
  BY <1>6, <1>7, <1>8, <1>10 DEF Ordered, k

(* The bounds of a histogram are colours and in order.                        *)
LEMMA HistogramBoundsAre ==
  ASSUME NEW h, NEW threshold, NEW ends,
         ends = HistogramBounds(h, threshold, 1, COLORS - 2), ends[1] # ends[2]
  PROVE  \E l, r \in SHADE : l < r /\ ends = <<l, r>>
<1> DEFINE good == AtLeast(h, threshold)
           ups == Long(RunCounts(good, 1, COLORS - 1, 0), RUN)
           downs == Long(RunCounts(good, COLORS - 2, 0, RUN + 1), RUN)
           min == FirstUp(ups, COLORS)
           max == FirstDown(downs, -1)
<1>1. ends = IF min = COLORS THEN <<0, COLORS - 1>> ELSE <<min, LargerOf(min, max)>>
  BY DEF HistogramBounds
<1> USE Shades
<1>2. RUN \in Nat
  BY ContrastAssumption
<1>3. ups \in SUBSET (0 .. COLORS - 1)
  <2>1. 1 \in Int /\ COLORS - 1 \in Int /\ 1 <= COLORS - 1
    OBVIOUS
  <2> HIDE DEF good
  <2>2. QED
    BY <1>2, <2>1, LongUp
<1>4. downs \in SUBSET (0 .. COLORS - 1)
  <2>1. ~(COLORS - 2 <= 0) /\ COLORS - 2 \in Int /\ 0 \in Int /\ RUN + 1 \in Nat
    BY <1>2
  <2> HIDE DEF good
  <2>2. RunCounts(good, COLORS - 2, 0, RUN + 1) \in [0 .. COLORS - 2 -> Nat]
    BY <2>1, RunCountsAre
  <2>3. QED
    BY <2>2 DEF Long
<1> HIDE DEF ups, downs, good
<1>5. min = COLORS \/ min \in 0 .. COLORS - 1
  <2>1. ups = {} => min = COLORS
    BY <1>3, FirstIn
  <2>2. ups # {} => min \in ups
    BY <1>3, FirstIn
  <2>3. QED
    BY <1>3, <2>1, <2>2
<1>6. max = -1 \/ max \in 0 .. COLORS - 1
  <2>1. downs = {} => max = -1
    BY <1>4, FirstIn
  <2>2. downs # {} => max \in downs
    BY <1>4, FirstIn
  <2>3. QED
    BY <1>4, <2>1, <2>2
<1> HIDE DEF min, max
<1>7. CASE min = COLORS
  <2>1. ends = <<0, COLORS - 1>> /\ 0 \in SHADE /\ COLORS - 1 \in SHADE /\ 0 < COLORS - 1
    BY <1>1, <1>7
  <2>2. QED
    BY <2>1
<1>8. CASE min # COLORS
  <2>1. ends = <<min, LargerOf(min, max)>>
    BY <1>1, <1>8
  <2>2. LargerOf(min, max) # min
    BY <2>1
  <2>3. min \in SHADE /\ max \in SHADE /\ min < max /\ LargerOf(min, max) = max
    BY <1>5, <1>6, <1>8, <2>2 DEF LargerOf
  <2>4. QED
    BY <2>1, <2>3
<1>9. QED
  BY <1>7, <1>8

(* Truncating shares out what it takes: COLORS parts of each pixel are left.   *)
PartsOf(h, clip) ==
    IF clip = -1 THEN [c \in SHADE |-> COLORS * h[c]] ELSE Truncated(h, clip)

(* No part is lost, nor is any below zero.                                    *)
LEMMA PartsAreAll ==
  ASSUME NEW h \in [SHADE -> Nat], NEW clip \in Nat \cup {-1}
  PROVE  /\ \A c \in SHADE : PartsOf(h, clip)[c] \in Nat
         /\ Pixels(PartsOf(h, clip), SHADE) = COLORS * Pixels(h, SHADE)
<1> USE Shades
<1> DEFINE n == COLORS - 1
           p == PartsOf(h, clip)
           zero == [c \in SHADE |-> 0]
           over == [c \in SHADE |-> LargerOf(h[c] - clip, 0)]
           e == IF clip = -1 THEN zero ELSE over
           E == Pixels(e, SHADE)
<1>1. n \in Nat /\ SHADE = 0 .. n /\ n + 1 = COLORS /\ COLORS \in Int /\ Pixels(h, 0 .. n) \in Int
  <2>1. Pixels(h, 0 .. COLORS - 1) \in Int
    <3>1. 0 \in Int /\ COLORS - 1 \in Int /\ \A c \in 0 .. COLORS - 1 : h[c] \in Int
      OBVIOUS
    <3>2. QED
      BY <3>1, PixelsType
  <2>2. QED
    BY <2>1
<1>2. \A c \in SHADE : h[c] \in Nat /\ e[c] \in Nat
  BY DEF LargerOf
<1>3. E \in Nat
  <2>1. \A c \in 0 .. n : e[c] \in Nat
    BY <1>2
  <2>2. n \in 0 .. n
    BY <1>1
  <2> HIDE DEF e, n
  <2>3. Pixels(e, 0 .. n) \in Nat
    BY <1>1, <2>1, <2>2, PixelsGrow
  <2>4. QED
    BY <1>1, <2>3
<1>4. clip = -1 => E = 0
  <2> HAVE clip = -1
  <2>1. Combines(zero, 0, zero, zero, 0, n)
    BY <1>1 DEF Combines
  <2> DEFINE Z == Pixels(zero, 0 .. n)
  <2>2. Z = 0 * (Z - Z) + (n + 1) * 0
    <3> HIDE DEF zero, n
    <3>1. QED
      BY <2>1, PixelsOfCombined
  <2>3. \A z \in Int : 0 * (z - z) + (n + 1) * 0 = 0
    BY <1>1
  <2>4. Z \in Int
    <3>1. \A c \in 0 .. n : zero[c] \in Int
      OBVIOUS
    <3>2. 0 \in Int /\ n \in Int
      BY <1>1
    <3> HIDE DEF zero, n
    <3>3. QED
      BY <3>1, <3>2, PixelsType
  <2>5. Z = 0
    <3> HIDE DEF Z
    <3>1. QED
      BY <2>2, <2>3, <2>4
  <2>6. QED
    BY <1>1, <2>5
<1>5. \A c \in SHADE : p[c] = COLORS * (h[c] - e[c]) + E
  <2>1. CASE clip = -1
    <3>1. \A c \in SHADE : p[c] = COLORS * h[c] /\ e[c] = 0
      BY <2>1 DEF PartsOf
    <3>2. E = 0
      BY <1>4, <2>1
    <3> HIDE DEF p, e, E
    <3>3. QED
      BY <1>2, <3>1, <3>2
  <2>2. CASE clip # -1
    <3>1. e = over /\ p = Truncated(h, clip)
      BY <2>2 DEF PartsOf
    <3>2. \A c \in SHADE : p[c] = COLORS * SmallerOf(h[c], clip) + E
      BY <2>2, <3>1 DEF Truncated
    <3>3. \A c \in SHADE : SmallerOf(h[c], clip) = h[c] - e[c]
      BY <1>2, <2>2, <3>1 DEF SmallerOf, LargerOf
    <3> HIDE DEF p, e, E
    <3>4. QED
      BY <3>2, <3>3
  <2>3. QED
    BY <2>1, <2>2
<1>6. \A c \in SHADE : h[c] - e[c] \in Nat
  BY <1>2 DEF LargerOf
<1> HIDE DEF p, e, E, n
<1>7. \A c \in SHADE : p[c] \in Nat
  <2> TAKE c \in SHADE
  <2>1. COLORS * (h[c] - e[c]) \in Nat
    BY <1>6
  <2>2. QED
    BY <1>3, <1>5, <2>1
<1>8. Combines(p, COLORS, h, e, E, n)
  BY <1>1, <1>2, <1>3, <1>5 DEF Combines
<1>9. Pixels(p, 0 .. n) = COLORS * (Pixels(h, 0 .. n) - Pixels(e, 0 .. n)) + (n + 1) * E
  BY <1>8, PixelsOfCombined
<1>10. Pixels(e, 0 .. n) = E
  BY <1>1 DEF E
<1> DEFINE H == Pixels(h, 0 .. n)
<1>11. Pixels(p, 0 .. n) = COLORS * H
  <2>1. H \in Int
    BY <1>1
  <2> HIDE DEF H
  <2>2. COLORS * (H - E) + COLORS * E = COLORS * H
    BY <1>1, <1>3, <2>1
  <2>3. Pixels(p, 0 .. n) = COLORS * (H - E) + COLORS * E
    BY <1>1, <1>9, <1>10 DEF H
  <2>4. QED
    BY <2>2, <2>3
<1>12. QED
  BY <1>1, <1>7, <1>11 DEF p

(* An equalisation keeps the order and reaches white.                         *)
LEMMA EqualizeIsOrdered ==
  ASSUME NEW h \in [SHADE -> Nat], NEW clip \in Nat \cup {-1}, NEW total,
         total = COLORS * Pixels(h, SHADE), total > 0, NEW new,
         new = [c \in SHADE |-> ((COLORS - 1) * Pixels(PartsOf(h, clip), 0 .. c)) \div total]
  PROVE  Ordered(new)
<1> USE Shades
<1> DEFINE k == COLORS - 1
           p == PartsOf(h, clip)
           P(c) == Pixels(p, 0 .. c)
<1>1. k \in Nat /\ SHADE = 0 .. k /\ k \in SHADE
  OBVIOUS
<1>2. \A c \in 0 .. k : p[c] \in Nat
  BY <1>1, PartsAreAll
<1>3. P(k) = total
  BY <1>1, PartsAreAll
<1> HIDE DEF p
<1>4. \A d \in 0 .. k : \A c \in 0 .. d : P(c) \in Nat /\ P(c) <= P(d)
  <2> HIDE DEF k
  <2>1. QED
    BY <1>1, <1>2, PixelsGrow
<1>5. \A c \in SHADE : new[c] = (k * P(c)) \div total
  BY DEF p
<1> HIDE DEF k, P
<1>6. total \in Nat \ {0} /\ \A c \in SHADE : P(c) \in Nat
  <2>1. \A c \in 0 .. k : c \in 0 .. c
    BY <1>1
  <2>2. \A c \in SHADE : P(c) \in Nat
    BY <1>1, <1>4, <2>1
  <2>3. QED
    BY <1>1, <1>3, <2>2
<1>7. ASSUME NEW c \in SHADE, NEW d \in SHADE, c <= d
      PROVE  new[c] \in Int /\ new[c] <= new[d]
  <2>1. P(c) \in Int /\ P(d) \in Int /\ P(c) <= P(d)
    <3>1. c \in 0 .. d /\ d \in 0 .. k
      BY <1>1, <1>7
    <3>2. QED
      BY <1>4, <1>6, <3>1
  <2>2. (k * P(c)) \div total \in Int /\ (k * P(c)) \div total <= (k * P(d)) \div total
    BY <1>1, <1>6, <2>1, Share
  <2>3. QED
    BY <1>5, <2>2
<1>8. new[k] = k
  <2>1. (k * total) \div total = k
    <3>1. total \in Int /\ total <= total
      BY <1>6
    <3>2. QED
      BY <1>1, <1>6, <3>1, Share
  <2>2. QED
    BY <1>1, <1>3, <1>5, <2>1
<1>9. \A c \in SHADE : new[c] >= 0
  <2> TAKE c \in SHADE
  <2>1. 0 \in Int /\ P(c) \in Int /\ 0 <= P(c)
    BY <1>6
  <2>2. (k * 0) \div total = 0 /\ (k * 0) \div total <= (k * P(c)) \div total
    BY <1>1, <1>6, <2>1, Share
  <2>3. (k * P(c)) \div total \in Int
    BY <1>1, <1>6, <2>1, Share
  <2>4. QED
    BY <1>5, <2>2, <2>3
<1>10. \A c \in SHADE : new[c] \in Int /\ new[c] <= k
  BY <1>1, <1>7, <1>8
<1>11. \A c \in SHADE : new[c] \in SHADE
  BY <1>1, <1>9, <1>10
<1>12. QED
  BY <1>7, <1>8, <1>11 DEF Ordered, k

(* A window from a, of size w, in lines of n positions has a position, and    *)
(* its mirror beside the border.                                              *)
InWindow(a, w, u) == a <= u /\ u <= a + w - 1
Beside(a, u) == u <= -a - 1
Times(a, w, u) == (IF InWindow(a, w, u) THEN 1 ELSE 0) + (IF Beside(a, u) THEN 1 ELSE 0)

(* Two different elements are two.                                            *)
LEMMA PairOf ==
  ASSUME NEW a, NEW b, a # b
  PROVE  IsFiniteSet({a, b}) /\ Cardinality({a, b}) = 2
<1>1. IsFiniteSet({a}) /\ Cardinality({a}) = 1
  BY FS_Singleton
<1>2. IsFiniteSet({a} \cup {b}) /\ Cardinality({a} \cup {b}) = Cardinality({a}) + 1
  BY <1>1, FS_AddElement
<1>3. {a, b} = {a} \cup {b}
  OBVIOUS
<1>4. QED
  BY <1>1, <1>2, <1>3

(* A set that has s if i is 1, t if j is 1, and nothing else.                 *)
AtMost(Q, s, i, t, j) ==
    /\ s # t /\ i \in {0, 1} /\ j \in {0, 1}
    /\ \A q : q \in Q <=> (q = s /\ i = 1) \/ (q = t /\ j = 1)

(* It has as many elements.                                                   *)
LEMMA AtMostTwo ==
  ASSUME NEW Q, NEW s, NEW i, NEW t, NEW j, AtMost(Q, s, i, t, j)
  PROVE  IsFiniteSet(Q) /\ Cardinality(Q) = i + j
<1> USE DEF AtMost
<1>1. CASE i = 1 /\ j = 1
  <2>1. Q = {s, t}
    BY <1>1
  <2>2. IsFiniteSet(Q) /\ Cardinality(Q) = 2
    BY <2>1, PairOf, Zenon
  <2>3. QED
    BY <1>1, <2>2
<1>2. CASE i = 1 /\ j = 0
  <2>1. Q = {s}
    BY <1>2
  <2>2. IsFiniteSet(Q) /\ Cardinality(Q) = 1
    BY <2>1, FS_Singleton, Zenon
  <2>3. QED
    BY <1>2, <2>2
<1>3. CASE i = 0 /\ j = 1
  <2>1. Q = {t}
    BY <1>3
  <2>2. IsFiniteSet(Q) /\ Cardinality(Q) = 1
    BY <2>1, FS_Singleton, Zenon
  <2>3. QED
    BY <1>3, <2>2
<1>4. CASE i = 0 /\ j = 0
  <2>1. Q = {}
    BY <1>4
  <2>2. IsFiniteSet(Q) /\ Cardinality(Q) = 0
    BY <2>1, FS_EmptySet, Zenon
  <2>3. QED
    BY <1>4, <2>2
<1>5. QED
  BY <1>1, <1>2, <1>3, <1>4

(* The positions of a window that stand for x, if the window does not reach   *)
(* over the other border.                                                     *)
Mirrors(Q, n, a, w, u) ==
    /\ n \in Nat /\ a \in Int /\ w \in Nat /\ u \in 0 .. n - 1
    /\ a + w < n /\ a + w >= 0
    /\ Q = {q \in a .. a + w - 1 : Mirrored(q, n) = u}

(* One for the place in the window, one for the mirrored place.               *)
LEMMA MirroredTimes ==
  ASSUME NEW Q, NEW n, NEW a, NEW w, NEW u, Mirrors(Q, n, a, w, u)
  PROVE  IsFiniteSet(Q) /\ Cardinality(Q) = Times(a, w, u)
<1> USE DEF Mirrors
<1> DEFINE i == IF InWindow(a, w, u) THEN 1 ELSE 0
           j == IF Beside(a, u) THEN 1 ELSE 0
<1>1. \A q : q \in Q <=> (q = u /\ i = 1) \/ (q = -u - 1 /\ j = 1)
  BY DEF Mirrored, InWindow, Beside
<1>2. u # -u - 1 /\ i \in {0, 1} /\ j \in {0, 1}
  OBVIOUS
<1>3. AtMost(Q, u, i, -u - 1, j)
  BY <1>1, <1>2, Zenon DEF AtMost
<1>4. Times(a, w, u) = i + j
  BY DEF Times
<1> HIDE DEF i, j
<1>5. QED
  BY <1>3, <1>4, AtMostTwo

(* The window of a local histogram, when it ends before the right and the     *)
(* lower border.                                                              *)
InnerWindow ==
    /\ rect.x + rect.width < image_size[1] /\ rect.y + rect.height < image_size[2]
    /\ rect.x \in Int /\ rect.y \in Int /\ rect.width \in Nat /\ rect.height \in Nat
    /\ rect.x + rect.width >= 0 /\ rect.y + rect.height >= 0
    /\ image_size[1] \in Nat /\ image_size[2] \in Nat

ColumnTimes(u) == Cardinality({i \in 1 .. 3 : Columns(u)[i]})

(* The three loops over columns come as often to a column.                    *)
LEMMA ColumnsAreMirrored ==
  ASSUME InnerWindow, NEW u \in 0 .. image_size[1] - 1
  PROVE  ColumnTimes(u) = Times(rect.x, rect.width, u)
<1> DEFINE I == {i \in 1 .. 3 : Columns(u)[i]}
<1> USE DEF InnerWindow
<1>1. (u \in Xl .. Xr) <=> InWindow(rect.x, rect.width, u)
  BY DEF InWindow, Xl, Xr, LargerOf, SmallerOf
<1>2. (u \in Xl .. (-rect.x - 1)) <=> Beside(rect.x, u)
  BY DEF Beside, Xl, LargerOf
<1>3. ~(u \in (2 * image_size[1] - 1 - (rect.x + rect.width)) .. image_size[1] - 1)
  OBVIOUS
<1>4. \A i : i \in I <=> (i = 1 /\ InWindow(rect.x, rect.width, u))
                         \/ (i = 2 /\ Beside(rect.x, u))
  <2>1. \A i : i \in 1 .. 3 <=> i = 1 \/ i = 2 \/ i = 3
    OBVIOUS
  <2>2. /\ Columns(u)[1] <=> u \in Xl .. Xr
        /\ Columns(u)[2] <=> u \in Xl .. (-rect.x - 1)
        /\ Columns(u)[3] <=> u \in (2 * image_size[1] - 1 - (rect.x + rect.width))
                                     .. image_size[1] - 1
    BY DEF Columns
  <2>3. \A i : i \in I <=> i \in 1 .. 3 /\ Columns(u)[i]
    OBVIOUS
  <2> HIDE DEF I
  <2>4. QED
    BY <1>1, <1>2, <1>3, <2>1, <2>2, <2>3, Zenon
<1> HIDE DEF I
<1> DEFINE m == IF InWindow(rect.x, rect.width, u) THEN 1 ELSE 0
           b == IF Beside(rect.x, u) THEN 1 ELSE 0
<1>5. 1 # 2 /\ m \in {0, 1} /\ b \in {0, 1}
      /\ (m = 1 <=> InWindow(rect.x, rect.width, u)) /\ (b = 1 <=> Beside(rect.x, u))
  OBVIOUS
<1>6. Times(rect.x, rect.width, u) = m + b
  BY DEF Times
<1> HIDE DEF m, b
<1>7. AtMost(I, 1, m, 2, b)
  BY <1>4, <1>5, Zenon DEF AtMost
<1>8. Cardinality(I) = m + b
  BY <1>7, AtMostTwo
<1>9. QED
  BY <1>6, <1>8 DEF ColumnTimes, I

(* What the loops over the lines have done: the lines in the window and, after *)
(* them, the mirrored ones.                                                   *)
InsideDone(v) ==
    /\ InWindow(rect.y, rect.height, v)
    /\ line.part = "inside" => v < line.y
BesideDone(v) ==
    /\ Beside(rect.y, v)
    /\ line.part # "inside" /\ (line.part = "upper" => v < line.y)

LineInv ==
    /\ line = [part |-> line.part, y |-> line.y] /\ line.y \in Int
    /\ line.part \in {"inside", "upper", "lower", "done"}
    /\ line.part = "inside" => line.y >= Yl
    /\ line.part = "upper" => line.y >= 0
    /\ line.part = "lower" => line.y = image_size[2] - 1

CountedInv ==
    /\ DOMAIN counted = (0 .. image_size[1] - 1) \X (0 .. image_size[2] - 1)
    /\ \A p \in DOMAIN counted :
          counted[p] = (IF InsideDone(p[2]) THEN ColumnTimes(p[1]) ELSE 0)
                       + (IF BesideDone(p[2]) THEN ColumnTimes(p[1]) ELSE 0)

Inner == rect.x + rect.width < image_size[1] /\ rect.y + rect.height < image_size[2]

LocalInv == task = "local" /\ Inner => InnerWindow /\ LineInv /\ CountedInv

(* At the end of the loops that is what the window covers.                    *)
LEMMA LocalDone ==
  ASSUME LocalInv
  PROVE  InnerHistogramIsMirrored
<1>1. SUFFICES ASSUME Inner, task = "local", line.part = "done" PROVE WindowIsCounted
  BY DEF InnerHistogramIsMirrored, LocalHistogramIsMirrored, Inner
<1>2. InnerWindow /\ LineInv /\ CountedInv
  BY <1>1 DEF LocalInv
<1> USE DEF InnerWindow
<1>3. SUFFICES ASSUME NEW p \in DOMAIN counted
      PROVE  counted[p] = Cardinality({q \in
                (rect.x .. rect.x + rect.width - 1) \X (rect.y .. rect.y + rect.height - 1) :
                    p = <<Mirrored(q[1], image_size[1]), Mirrored(q[2], image_size[2])>>})
  BY DEF WindowIsCounted
<1>4. PICK u \in 0 .. image_size[1] - 1, v \in 0 .. image_size[2] - 1 : p = <<u, v>>
  BY <1>2 DEF CountedInv
<1> DEFINE QX == {q \in rect.x .. rect.x + rect.width - 1 : Mirrored(q, image_size[1]) = u}
           QY == {q \in rect.y .. rect.y + rect.height - 1 : Mirrored(q, image_size[2]) = v}
           R == {q \in (rect.x .. rect.x + rect.width - 1)
                           \X (rect.y .. rect.y + rect.height - 1) :
                    p = <<Mirrored(q[1], image_size[1]), Mirrored(q[2], image_size[2])>>}
<1>5. IsFiniteSet(QX) /\ Cardinality(QX) = Times(rect.x, rect.width, u)
  <2>1. Mirrors(QX, image_size[1], rect.x, rect.width, u)
    BY <1>2 DEF Mirrors
  <2> HIDE DEF InnerWindow, QX, QY
  <2>2. QED
    BY <2>1, MirroredTimes
<1>6. IsFiniteSet(QY) /\ Cardinality(QY) = Times(rect.y, rect.height, v)
  <2>1. Mirrors(QY, image_size[2], rect.y, rect.height, v)
    BY <1>2 DEF Mirrors
  <2> HIDE DEF InnerWindow, QX, QY
  <2>2. QED
    BY <2>1, MirroredTimes
<1>7. R = QX \X QY
  BY <1>4
<1> HIDE DEF QX, QY, R
<1>8. Cardinality(R) = Times(rect.x, rect.width, u) * Times(rect.y, rect.height, v)
  BY <1>5, <1>6, <1>7, FS_Product
<1>9. ColumnTimes(u) = Times(rect.x, rect.width, u)
  BY <1>2, ColumnsAreMirrored
<1>10. counted[p] = (IF InWindow(rect.y, rect.height, v) THEN ColumnTimes(u) ELSE 0)
                    + (IF Beside(rect.y, v) THEN ColumnTimes(u) ELSE 0)
  BY <1>1, <1>2, <1>4 DEF CountedInv, InsideDone, BesideDone
<1>11. counted[p] = Times(rect.x, rect.width, u) * Times(rect.y, rect.height, v)
  <2>1. Times(rect.x, rect.width, u) \in {0, 1, 2}
    BY DEF Times
  <2>2. QED
    BY <1>9, <1>10, <2>1 DEF Times
<1>12. QED
  BY <1>8, <1>11 DEF R

(* A window may be put around every pixel.                                    *)
LEMMA LocalStarts ==
  ASSUME NEW s \in LOCAL_SIZES, NEW window \in WINDOWS,
         NEW u \in 0 .. s[1] - 1, NEW v \in 0 .. s[2] - 1, StartLocal(s, window, u, v)
  PROVE  LocalInv'
<1> DEFINE half == window \div 2
<1>1. /\ s[1] \in Nat \ {0} /\ s[2] \in Nat \ {0} /\ window \in Nat
      /\ half \in Nat /\ half <= window
  BY ContrastAssumption
<1> HIDE DEF half
<1>2. /\ image_size' = s
      /\ rect' = [x |-> u - half, y |-> v - half, width |-> window, height |-> window]
      /\ counted' = [p \in (0 .. s[1] - 1) \X (0 .. s[2] - 1) |-> 0]
      /\ line' = [part |-> "inside", y |-> LargerOf(rect'.y, 0)]
  BY DEF StartLocal, half
<1>3. rect'.x = u - half /\ rect'.y = v - half /\ rect'.width = window /\ rect'.height = window
  BY <1>2
<1>4. SUFFICES ASSUME Inner' PROVE InnerWindow' /\ LineInv' /\ CountedInv'
  BY DEF LocalInv
<1>5. InnerWindow'
  BY <1>1, <1>2, <1>3, <1>4 DEF InnerWindow, Inner
<1>6. line'.part = "inside" /\ line'.y = LargerOf(rect'.y, 0) /\ line'.y \in Int
  BY <1>1, <1>2, <1>3 DEF LargerOf
<1>7. LineInv'
  BY <1>2, <1>6 DEF LineInv, Yl, LargerOf
<1>8. ASSUME NEW p \in DOMAIN counted'
      PROVE  ~InsideDone(p[2])' /\ ~BesideDone(p[2])' /\ counted'[p] = 0
  <2>1. counted'[p] = 0 /\ p[2] \in Int /\ p[2] >= 0
    BY <1>1, <1>2
  <2>2. ~InsideDone(p[2])'
    BY <1>1, <1>3, <1>6, <2>1 DEF InsideDone, InWindow, LargerOf
  <2>3. QED
    BY <1>6, <2>1, <2>2 DEF BesideDone
<1>9. CountedInv'
  <2>1. DOMAIN counted' = (0 .. image_size'[1] - 1) \X (0 .. image_size'[2] - 1)
    BY <1>2
  <2>2. QED
    BY <1>8, <2>1 DEF CountedInv
<1>10. QED
  BY <1>5, <1>7, <1>9

(* A line is counted once for its place in the window, or for its mirror.      *)
LEMMA LineIsCounted ==
  ASSUME InnerWindow, CountedInv, UNCHANGED <<rect, image_size>>, NEW n \in Int, CountLine(n),
         \A v \in Nat : v # n => (InsideDone(v)' <=> InsideDone(v))
                                  /\ (BesideDone(v)' <=> BesideDone(v)),
         \/ ~InsideDone(n) /\ InsideDone(n)' /\ (BesideDone(n)' <=> BesideDone(n))
         \/ ~BesideDone(n) /\ BesideDone(n)' /\ (InsideDone(n)' <=> InsideDone(n))
  PROVE  CountedInv'
<1>1. \A u : ColumnTimes(u)' = ColumnTimes(u)
  BY DEF ColumnTimes, Columns, Xl, Xr
<1>2. \A u \in 0 .. image_size[1] - 1 : ColumnTimes(u) \in Nat
  BY ColumnsAreMirrored DEF Times
<1>3. /\ DOMAIN counted' = DOMAIN counted
      /\ \A p \in DOMAIN counted :
            counted'[p] = IF p[2] # n THEN counted[p] ELSE counted[p] + ColumnTimes(p[1])
  BY DEF CountLine, ColumnTimes
<1>4. ASSUME NEW p \in DOMAIN counted
      PROVE  counted'[p] = (IF InsideDone(p[2])' THEN ColumnTimes(p[1])' ELSE 0)
                           + (IF BesideDone(p[2])' THEN ColumnTimes(p[1])' ELSE 0)
  <2>1. /\ counted[p] = (IF InsideDone(p[2]) THEN ColumnTimes(p[1]) ELSE 0)
                        + (IF BesideDone(p[2]) THEN ColumnTimes(p[1]) ELSE 0)
        /\ p[1] \in 0 .. image_size[1] - 1 /\ p[2] \in Nat
    BY DEF CountedInv
  <2>2. ColumnTimes(p[1]) \in Nat /\ ColumnTimes(p[1])' = ColumnTimes(p[1])
    BY <1>1, <1>2, <2>1
  <2>3. CASE p[2] # n
    BY <1>3, <2>1, <2>2, <2>3
  <2>4. CASE p[2] = n
    BY <1>3, <2>1, <2>2, <2>4
  <2>5. QED
    BY <2>3, <2>4
<1>5. DOMAIN counted' = (0 .. image_size'[1] - 1) \X (0 .. image_size'[2] - 1)
  BY <1>3 DEF CountedInv
<1>6. QED
  BY <1>3, <1>4, <1>5 DEF CountedInv

(* When a loop ends nothing more is counted.                                  *)
LEMMA NothingCounted ==
  ASSUME CountedInv, UNCHANGED <<rect, image_size, counted>>,
         \A v \in 0 .. image_size[2] - 1 :
            (InsideDone(v)' <=> InsideDone(v)) /\ (BesideDone(v)' <=> BesideDone(v))
  PROVE  CountedInv'
<1>1. \A u : ColumnTimes(u)' = ColumnTimes(u)
  BY DEF ColumnTimes, Columns, Xl, Xr
<1>2. \A p \in DOMAIN counted : p[2] \in 0 .. image_size[2] - 1
  BY DEF CountedInv
<1>3. QED
  BY <1>1, <1>2 DEF CountedInv

(* The lines in the window are counted one after the other, ...               *)
LEMMA InsideStep ==
  ASSUME LocalInv, LineInside
  PROVE  LocalInv'
<1>1. SUFFICES ASSUME Inner' PROVE InnerWindow' /\ LineInv' /\ CountedInv'
  BY DEF LocalInv
<1>2. task = "local" /\ line.part = "inside" /\ UNCHANGED <<rect, image_size>>
  BY DEF LineInside
<1>3. InnerWindow /\ LineInv /\ CountedInv
  BY <1>1, <1>2 DEF LocalInv, Inner
<1>4. InnerWindow'
  BY <1>2, <1>3 DEF InnerWindow
<1> USE DEF InnerWindow
<1>5. line.y \in Int /\ line.y >= 0 /\ line.y >= rect.y
  BY <1>2, <1>3 DEF LineInv, Yl, LargerOf
<1>6. CASE line.y <= Yr
  <2>0. PICK n \in Int : n = line.y
    BY <1>5
  <2>1. CountLine(n) /\ line' = [part |-> "inside", y |-> n + 1]
    BY <1>2, <1>3, <1>6, <2>0 DEF LineInside, LineInv
  <2>2. LineInv'
    BY <2>0, <1>2, <1>3, <2>1 DEF LineInv, Yl, LargerOf
  <2>3. line'.part = "inside" /\ line'.y = n + 1
    BY <2>1
  <2>4. InWindow(rect.y, rect.height, n)
    BY <2>0, <1>3, <1>5, <1>6 DEF InWindow, Yr, SmallerOf
  <2>5. \A v : (BesideDone(v)' <=> BesideDone(v))
    BY <1>2, <2>3 DEF BesideDone
  <2>6. ASSUME NEW v \in Nat, v # n PROVE InsideDone(v)' <=> InsideDone(v)
    <3>1. ASSUME InWindow(rect.y, rect.height, v) PROVE v < n + 1 <=> v < n
      BY <2>6
    <3>2. QED
      BY <1>2, <2>0, <2>3, <3>1 DEF InsideDone
  <2>7. ~InsideDone(n) /\ InsideDone(n)'
    BY <1>2, <2>0, <2>3, <2>4 DEF InsideDone
  <2>8. QED
    <3>1. CountedInv'
      <4> HIDE DEF InnerWindow
      <4>1. QED
        BY <1>2, <1>3, <2>1, <2>5, <2>6, <2>7, LineIsCounted
    <3>2. QED
      BY <1>4, <2>2, <3>1
<1>7. CASE ~(line.y <= Yr)
  <2>1. line' = [part |-> "upper", y |-> 0] /\ UNCHANGED counted
    BY <1>2, <1>7 DEF LineInside
  <2>2. LineInv'
    BY <2>1 DEF LineInv
  <2>3. line'.part = "upper" /\ line'.y = 0
    BY <2>1
  <2>4. ASSUME NEW v \in 0 .. image_size[2] - 1
        PROVE  (InsideDone(v)' <=> InsideDone(v)) /\ (BesideDone(v)' <=> BesideDone(v))
    <3>1. InWindow(rect.y, rect.height, v) => v < line.y
      BY <1>3, <1>5, <1>7 DEF InWindow, Yr, SmallerOf
    <3>2. ~(v < 0)
      OBVIOUS
    <3>3. QED
      BY <1>2, <2>3, <3>1, <3>2 DEF InsideDone, BesideDone
  <2>5. CountedInv'
    BY <1>2, <1>3, <2>1, <2>4, NothingCounted
  <2>6. QED
    BY <1>4, <2>2, <2>5
<1>8. QED
  BY <1>6, <1>7

(* ... then those mirrored at the upper border.                               *)
LEMMA UpperStep ==
  ASSUME LocalInv, LineUpper
  PROVE  LocalInv'
<1>1. SUFFICES ASSUME Inner' PROVE InnerWindow' /\ LineInv' /\ CountedInv'
  BY DEF LocalInv
<1>2. task = "local" /\ line.part = "upper" /\ UNCHANGED <<rect, image_size>>
  BY DEF LineUpper
<1>3. InnerWindow /\ LineInv /\ CountedInv
  BY <1>1, <1>2 DEF LocalInv, Inner
<1>4. InnerWindow'
  BY <1>2, <1>3 DEF InnerWindow
<1> USE DEF InnerWindow
<1>5. line.y \in Int /\ line.y >= 0
  BY <1>2, <1>3 DEF LineInv
<1>6. CASE line.y < -rect.y
  <2>0. PICK n \in Int : n = line.y
    BY <1>5
  <2>1. CountLine(n) /\ line' = [part |-> "upper", y |-> n + 1]
    BY <1>2, <1>3, <1>6, <2>0 DEF LineUpper, LineInv
  <2>2. LineInv'
    BY <2>0, <1>5, <2>1 DEF LineInv
  <2>3. line'.part = "upper" /\ line'.y = n + 1
    BY <2>1
  <2>4. Beside(rect.y, n)
    BY <2>0, <1>3, <1>5, <1>6 DEF Beside
  <2>5. \A v : (InsideDone(v)' <=> InsideDone(v))
    BY <1>2, <2>3 DEF InsideDone
  <2>6. ASSUME NEW v \in Nat, v # n PROVE BesideDone(v)' <=> BesideDone(v)
    <3>1. v < n + 1 <=> v < n
      BY <2>6
    <3>2. QED
      BY <1>2, <2>0, <2>3, <3>1 DEF BesideDone
  <2>7. ~BesideDone(n) /\ BesideDone(n)'
    BY <1>2, <2>0, <2>3, <2>4 DEF BesideDone
  <2>8. QED
    <3>1. CountedInv'
      <4> HIDE DEF InnerWindow
      <4>1. QED
        BY <1>2, <1>3, <2>1, <2>5, <2>6, <2>7, LineIsCounted
    <3>2. QED
      BY <1>4, <2>2, <3>1
<1>7. CASE ~(line.y < -rect.y)
  <2>1. line' = [part |-> "lower", y |-> image_size[2] - 1] /\ UNCHANGED counted
    BY <1>2, <1>7 DEF LineUpper
  <2>2. LineInv'
    BY <1>2, <1>3, <2>1 DEF LineInv
  <2>3. line'.part = "lower"
    BY <2>1
  <2>4. ASSUME NEW v \in 0 .. image_size[2] - 1
        PROVE  (InsideDone(v)' <=> InsideDone(v)) /\ (BesideDone(v)' <=> BesideDone(v))
    <3>1. Beside(rect.y, v) => v < line.y
      BY <1>3, <1>5, <1>7 DEF Beside
    <3>2. QED
      BY <1>2, <2>3, <3>1 DEF InsideDone, BesideDone
  <2>5. CountedInv'
    BY <1>2, <1>3, <2>1, <2>4, NothingCounted
  <2>6. QED
    BY <1>4, <2>2, <2>5
<1>8. QED
  BY <1>6, <1>7

(* The window ends before the lower border: nothing is mirrored there.        *)
LEMMA LowerStep ==
  ASSUME LocalInv, LineLower
  PROVE  LocalInv'
<1>1. SUFFICES ASSUME Inner' PROVE InnerWindow' /\ LineInv' /\ CountedInv'
  BY DEF LocalInv
<1>2. task = "local" /\ line.part = "lower" /\ UNCHANGED <<rect, image_size>>
  BY DEF LineLower
<1>3. InnerWindow /\ LineInv /\ CountedInv
  BY <1>1, <1>2 DEF LocalInv, Inner
<1>4. InnerWindow'
  BY <1>2, <1>3 DEF InnerWindow
<1>5. line.y = image_size[2] - 1
  BY <1>2, <1>3 DEF LineInv
<1>6. ~(line.y >= 2 * image_size[2] - 1 - (rect.y + rect.height))
  BY <1>3, <1>5 DEF InnerWindow
<1>7. line' = [part |-> "done", y |-> 0] /\ UNCHANGED counted
  BY <1>6 DEF LineLower
<1>8. LineInv'
  BY <1>7 DEF LineInv
<1>9. \A v \in 0 .. image_size[2] - 1 :
         (InsideDone(v)' <=> InsideDone(v)) /\ (BesideDone(v)' <=> BesideDone(v))
  BY <1>2, <1>7 DEF InsideDone, BesideDone
<1>10. CountedInv'
  BY <1>2, <1>3, <1>7, <1>9, NothingCounted
<1>11. QED
  BY <1>4, <1>8, <1>10

(* What the area that grows around a peak is made of.                         *)
SquareInv ==
    task = "square" =>
        /\ hist \in [SHADE -> Nat] /\ peak \in SHADE /\ pixel_sum \in Int
        /\ bounds \in Int \X Int

ContrastIInv == LocalInv /\ SquareInv /\ BoundsFollowTheRuns /\ LevelsReachTheEnds

(* The three ways to find bounds start right.                                 *)
LEMMA ShiftStarts ==
  ASSUME NEW h \in [SHADE -> COUNTS], NEW level, NEW method \in {"rel", "abs", "square"},
         StartShift(method, h, level)
  PROVE  SquareInv' /\ BoundsFollowTheRuns'
<1>1. h \in [SHADE -> Nat]
  BY ContrastAssumption
<1>2. PICK p \in 1 .. COLORS - 2 : p = HistogramPeak(h, 1)
  BY <1>1, PeakInside
<1>3. task' = method /\ hist' = h /\ peak' = p /\ p \in SHADE
  BY <1>2, Shades DEF StartShift
<1>4. CASE method = "rel"
  <2>1. bounds' = BoundsRel(h, p, wanted')
    BY <1>2, <1>4 DEF StartShift
  <2>2. bounds' = <<FirstUp({c \in SteepParts(hist', wanted') : c + STEEP <= peak'}, -1),
                    FirstDown({c + STEEP : c \in {d \in SteepParts(hist', wanted') :
                                  d >= peak' /\ d + STEEP < COLORS - 1}}, -1)>>
    <3>1. PICK w : w = wanted'
      OBVIOUS
    <3>2. BoundsRel(h, p, w)
            = <<FirstUp({c \in SteepParts(h, w) : c + STEEP <= p}, -1),
                FirstDown({c + STEEP : c \in {d \in SteepParts(h, w) :
                              d >= p /\ d + STEEP < COLORS - 1}}, -1)>>
      BY <1>3, BoundsRelAre, Zenon
    <3>3. QED
      BY <1>3, <2>1, <3>1, <3>2, Zenon
  <2>3. QED
    BY <1>3, <1>4, <2>2 DEF SquareInv, BoundsFollowTheRuns, SteepParts
<1>5. CASE method = "abs"
  <2>1. bounds' = BoundsAbs(h, p, wanted')
    BY <1>2, <1>5 DEF StartShift
  <2>2. bounds' = <<FirstDown({c \in FlatParts(hist', wanted') : c + EDGE <= peak'}, -1),
                    FirstUp({c + EDGE : c \in {d \in FlatParts(hist', wanted') :
                                  d >= peak'}}, -1)>>
    <3>1. PICK w : w = wanted'
      OBVIOUS
    <3>2. BoundsAbs(h, p, w)
            = <<FirstDown({c \in FlatParts(h, w) : c + EDGE <= p}, -1),
                FirstUp({c + EDGE : c \in {d \in FlatParts(h, w) : d >= p}}, -1)>>
      BY <1>3, BoundsAbsAre, Zenon
    <3>3. QED
      BY <1>3, <2>1, <3>1, <3>2, Zenon
  <2>3. QED
    BY <1>3, <1>5, <2>2 DEF SquareInv, BoundsFollowTheRuns, FlatParts
<1>6. CASE method = "square"
  <2>1. bounds' = <<p - 1, p + 1>> /\ pixel_sum' = h[p]
    BY <1>2, <1>6 DEF StartShift
  <2>2. h[p] \in Int /\ p \in Int
    BY <1>1, <1>3
  <2>3. Pixels(h, p .. p) = h[p]
    BY <2>2, PixelsOfOne
  <2>4. bounds'[1] = p - 1 /\ bounds'[2] = p + 1 /\ (p - 1) + 1 = p /\ (p + 1) - 1 = p
    BY <2>1
  <2>5. pixel_sum' = Pixels(hist', bounds'[1] + 1 .. bounds'[2] - 1)
    BY <1>3, <2>1, <2>3, <2>4
  <2>6. 0 <= bounds'[1] /\ bounds'[1] < peak' /\ peak' < bounds'[2] /\ bounds'[2] < COLORS
    BY <1>2, <1>3, <2>4, Shades
  <2>7. SquareInv'
    BY <1>1, <1>3, <2>1, <2>2 DEF SquareInv
  <2>8. QED
    BY <1>3, <1>6, <2>5, <2>6, <2>7 DEF BoundsFollowTheRuns
<1>7. QED
  BY <1>4, <1>5, <1>6

(* The area takes in the neighbour at its bound.                              *)
LEMMA SquareGrows ==
  ASSUME SquareInv, BoundsFollowTheRuns, GrowSquare
  PROVE  SquareInv' /\ BoundsFollowTheRuns'
<1>1. task = "square" /\ UNCHANGED <<task, hist, wanted, peak>>
  BY DEF GrowSquare
<1>2. PICK h \in [SHADE -> Nat], p \in SHADE, sum \in Int, l \in Int, r \in Int :
          h = hist /\ p = peak /\ sum = pixel_sum /\ bounds = <<l, r>>
  BY <1>1 DEF SquareInv
<1>3. 0 <= l /\ l < p /\ p < r /\ r < COLORS /\ sum = Pixels(h, l + 1 .. r - 1)
  BY <1>1, <1>2 DEF BoundsFollowTheRuns
<1>4. p \in Int /\ l \in SHADE /\ r \in SHADE /\ \A c \in l .. r : h[c] \in Int
  BY <1>2, <1>3, Shades
<1>5. Pixels(h, l + 1 .. r - 1) + h[l] = Pixels(h, l .. r - 1)
      /\ Pixels(h, l .. r - 1) \in Int
  <2>1. l <= r - 1 /\ \A c \in l .. r - 1 : h[c] \in Int
    BY <1>3, <1>4
  <2>2. QED
    BY <2>1, PixelsOfMore
<1>6. Pixels(h, l + 1 .. r - 1) + h[r] = Pixels(h, l + 1 .. r)
      /\ Pixels(h, l + 1 .. r) \in Int
  <2>1. l + 1 <= r /\ l + 1 \in Int /\ \A c \in l + 1 .. r : h[c] \in Int
    BY <1>3, <1>4
  <2>2. QED
    BY <2>1, PixelsOfMore
<1>7. \/ l > 0 /\ pixel_sum' = sum + h[l] /\ bounds' = <<l - 1, r>>
      \/ r < COLORS - 1 /\ pixel_sum' = sum + h[r] /\ bounds' = <<l, r + 1>>
  BY <1>2 DEF GrowSquare, GrowsLeft, GrowsRight
<1>8. hist' = h /\ peak' = p
  BY <1>1, <1>2
<1>9. CASE l > 0 /\ pixel_sum' = sum + h[l] /\ bounds' = <<l - 1, r>>
  <2>1. bounds'[1] = l - 1 /\ bounds'[2] = r /\ (l - 1) + 1 = l
    BY <1>9
  <2>2. pixel_sum' = Pixels(hist', bounds'[1] + 1 .. bounds'[2] - 1) /\ pixel_sum' \in Int
    BY <1>3, <1>5, <1>8, <1>9, <2>1
  <2>3. 0 <= bounds'[1] /\ bounds'[1] < peak' /\ peak' < bounds'[2] /\ bounds'[2] < COLORS
    BY <1>3, <1>4, <1>8, <1>9, <2>1
  <2>4. SquareInv'
    BY <1>8, <1>9, <2>2 DEF SquareInv
  <2>5. QED
    BY <1>1, <2>2, <2>3, <2>4 DEF BoundsFollowTheRuns
<1>10. CASE r < COLORS - 1 /\ pixel_sum' = sum + h[r] /\ bounds' = <<l, r + 1>>
  <2>1. bounds'[1] = l /\ bounds'[2] = r + 1 /\ (r + 1) - 1 = r
    BY <1>10
  <2>2. pixel_sum' = Pixels(hist', bounds'[1] + 1 .. bounds'[2] - 1) /\ pixel_sum' \in Int
    BY <1>3, <1>6, <1>8, <1>10, <2>1
  <2>3. 0 <= bounds'[1] /\ bounds'[1] < peak' /\ peak' < bounds'[2] /\ bounds'[2] < COLORS
    BY <1>3, <1>4, <1>8, <1>10, <2>1, Shades
  <2>4. SquareInv'
    BY <1>8, <1>10, <2>2 DEF SquareInv
  <2>5. QED
    BY <1>1, <2>2, <2>3, <2>4 DEF BoundsFollowTheRuns
<1>11. QED
  BY <1>7, <1>9, <1>10

(* The new colours of a stretch ...                                           *)
LEMMA StretchStarts ==
  ASSUME NEW h, NEW threshold, StartStretch(h, threshold)
  PROVE  LevelsReachTheEnds'
<1> DEFINE ends == HistogramBounds(h, threshold, 1, COLORS - 2)
<1>1. /\ task' = "stretch" /\ ends[1] # ends[2] /\ bounds' = ends
      /\ levels' = [c \in SHADE |-> Stretched(c, ends)]
  BY DEF StartStretch
<1> HIDE DEF ends
<1>2. PICK l \in SHADE, r \in SHADE : l < r /\ ends = <<l, r>>
  BY <1>1, HistogramBoundsAre DEF ends
<1>3. PICK new : new = [c \in SHADE |-> Stretched(c, <<l, r>>)]
  OBVIOUS
<1>4. Ordered(new) /\ new[l] = 0 /\ new[r] = COLORS - 1
  BY <1>2, <1>3, StretchIsOrdered
<1>5. levels' = new /\ bounds'[1] = l /\ bounds'[2] = r
  BY <1>1, <1>2, <1>3
<1>6. QED
  BY <1>4, <1>5 DEF LevelsReachTheEnds, Ordered

(* ... and those of an equalisation are in order.                             *)
LEMMA EqualizeStarts ==
  ASSUME NEW h \in [SHADE -> COUNTS], NEW clip \in CLIPS, StartEqualize(h, clip)
  PROVE  LevelsReachTheEnds'
<1>1. h \in [SHADE -> Nat] /\ clip \in Nat \cup {-1}
  BY ContrastAssumption
<1> DEFINE total == COLORS * Pixels(h, SHADE)
<1>2. /\ task' = "equalize" /\ total > 0
      /\ levels' = [c \in SHADE |->
            ((COLORS - 1) * Pixels(PartsOf(h, clip), 0 .. c)) \div total]
  BY DEF StartEqualize, PartsOf
<1>3. PICK t, new : /\ t = total
                    /\ new = [c \in SHADE |->
                          ((COLORS - 1) * Pixels(PartsOf(h, clip), 0 .. c)) \div t]
  OBVIOUS
<1>4. Ordered(new)
  BY <1>1, <1>2, <1>3, EqualizeIsOrdered
<1>5. levels' = new
  BY <1>2, <1>3
<1>6. QED
  BY <1>2, <1>4, <1>5 DEF LevelsReachTheEnds, Ordered

(* The histogram helpers of the contrast filters are right, for images,       *)
(* windows, histograms and thresholds of every size (histogram_local(),        *)
(* histogram_bounds...(), channel_linear_stretch(), the equalisations).        *)
THEOREM HistogramHelpersAreRight == ContrastSpec => []HistogramsAreRight
<1>1. ContrastInit => ContrastIInv
  BY DEF ContrastInit, ContrastIInv, LocalInv, SquareInv, BoundsFollowTheRuns,
         LevelsReachTheEnds
<1>2. ContrastIInv /\ [ContrastNext]_contrastVars => ContrastIInv'
  <2> SUFFICES ASSUME ContrastIInv, [ContrastNext]_contrastVars PROVE ContrastIInv'
    OBVIOUS
  <2> USE DEF ContrastIInv
  <2> DEFINE Quiet == SquareInv' /\ BoundsFollowTheRuns'
  <2>1. task' \notin {"rel", "abs", "square"} => Quiet
    BY DEF SquareInv, BoundsFollowTheRuns
  <2>2. task' \notin {"stretch", "equalize"} => LevelsReachTheEnds'
    BY DEF LevelsReachTheEnds
  <2>3. task' # "local" => LocalInv'
    BY DEF LocalInv
  <2>4. ASSUME NEW s \in LOCAL_SIZES, NEW window \in WINDOWS,
               NEW u \in 0 .. s[1] - 1, NEW v \in 0 .. s[2] - 1, StartLocal(s, window, u, v)
        PROVE  ContrastIInv'
    <3>1. task' = "local"
      BY <2>4 DEF StartLocal
    <3>2. LocalInv'
      BY <2>4, LocalStarts
    <3>3. QED
      BY <2>1, <2>2, <3>1, <3>2
  <2>5. CASE LineInside \/ LineUpper \/ LineLower
    <3>1. task' = "local"
      BY <2>5 DEF LineInside, LineUpper, LineLower
    <3>2. LocalInv'
      BY <2>5, InsideStep, UpperStep, LowerStep
    <3>3. QED
      BY <2>1, <2>2, <3>1, <3>2
  <2>6. ASSUME NEW h \in [SHADE -> COUNTS], NEW level,
               NEW method \in {"rel", "abs", "square"}, StartShift(method, h, level)
        PROVE  ContrastIInv'
    <3>1. task' = method
      BY <2>6 DEF StartShift
    <3>2. Quiet
      BY <2>6, ShiftStarts
    <3>3. QED
      BY <2>2, <2>3, <3>1, <3>2
  <2>7. ASSUME NEW h \in [SHADE -> COUNTS], NEW threshold, StartStretch(h, threshold)
        PROVE  ContrastIInv'
    <3>1. task' = "stretch"
      BY <2>7 DEF StartStretch
    <3>2. LevelsReachTheEnds'
      BY <2>7, StretchStarts
    <3>3. QED
      BY <2>1, <2>3, <3>1, <3>2
  <2>8. ASSUME NEW h \in [SHADE -> COUNTS], NEW clip \in CLIPS, StartEqualize(h, clip)
        PROVE  ContrastIInv'
    <3>1. task' = "equalize"
      BY <2>8 DEF StartEqualize
    <3>2. LevelsReachTheEnds'
      BY <2>8, EqualizeStarts
    <3>3. QED
      BY <2>1, <2>3, <3>1, <3>2
  <2>9. CASE GrowSquare
    <3>1. task' = "square"
      BY <2>9 DEF GrowSquare
    <3>2. Quiet
      BY <2>9, SquareGrows
    <3>3. QED
      BY <2>2, <2>3, <3>1, <3>2
  <2>10. CASE ContrastReturn
    <3>1. task' = "none"
      BY <2>10 DEF ContrastReturn
    <3>2. QED
      BY <2>1, <2>2, <2>3, <3>1
  <2>11. CASE UNCHANGED contrastVars
    BY <2>11 DEF contrastVars, LocalInv, Inner, InnerWindow, LineInv, CountedInv,
         InsideDone, BesideDone, ColumnTimes, Columns, Xl, Xr, Yl, SquareInv,
         BoundsFollowTheRuns, LevelsReachTheEnds
  <2>12. QED
    BY <2>4, <2>5, <2>6, <2>7, <2>8, <2>9, <2>10, <2>11, Zenon DEF ContrastNext
<1>3. ContrastIInv => HistogramsAreRight
  BY LocalDone DEF ContrastIInv, HistogramsAreRight
<1>4. QED
  BY <1>1, <1>2, <1>3, PTL DEF ContrastSpec
=============================================================================
