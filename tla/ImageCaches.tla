---------------------------- MODULE ImageCaches ----------------------------
(***************************************************************************)
(* MatCache (mat-cache.cpp), the images derived from a frame at one size,  *)
(* and ScalesHandler (scales-handler.cpp), the list of the caches of all   *)
(* sizes, which its users own and it holds by weak pointers. Of an image   *)
(* the frames it was computed from are kept.                               *)
(***************************************************************************)
EXTENDS Integers, Sequences, FiniteSets, SequencesExt

CONSTANTS
    SIZES,          \* the sizes asked for
    MAX_FRAMES      \* bound: frames processed

IMAGES == {"gray_8u", "rgb_8u", "yuv422_u_8u", "yuv422_v_8u"}

VARIABLES
    scales,         \* the list of weak pointers, by size
    owned,          \* the sizes whose MatCache somebody still owns
    images,         \* size -> image -> [ready, from], the images that are there
    put_in,          \* size -> what was put in for the frame: "none", "gray", "rgb", "yuv"
    frame,          \* the frame being processed
    skipped,        \* the sizes in use that the last invalidate() passed over (history)
    returned,          \* the last image returned: [size, name, from], or <<>>
    null_used       \* an end() iterator was dereferenced: undefined from here

imageVars == <<scales, owned, images, put_in, frame, skipped, returned, null_used>>

ImagesInit ==
    /\ scales = <<>> /\ owned = {}
    /\ images = [s \in SIZES |-> <<>>]
    /\ put_in = [s \in SIZES |-> "none"]
    /\ frame = 0 /\ skipped = {} /\ returned = <<>> /\ null_used = FALSE

(* scale_find(): what has expired is erased on the way to the size.          *)
Searched(s) ==
    LET at == SelectInSeq(scales, LAMBDA x : x = s /\ x \in owned)
        passed == IF at = 0 THEN scales ELSE SubSeq(scales, 1, at)
        rest == IF at = 0 THEN <<>> ELSE SubSeq(scales, at + 1, Len(scales))
    IN  SelectSeq(passed, LAMBDA x : x \in owned) \o rest

ScaleFind(s) ==
    /\ IF s \in owned
       THEN scales' = Searched(s) /\ UNCHANGED <<owned, images, put_in>>
       ELSE /\ scales' = Append(Searched(s), s)
            /\ owned' = owned \cup {s}
            /\ UNCHANGED <<images, put_in>>
    /\ UNCHANGED <<frame, skipped, returned, null_used>>

(* The last owner lets go of a cache: its weak pointer expires. *)
Release(s) ==
    /\ s \in owned
    /\ owned' = owned \ {s}
    /\ images' = [images EXCEPT ![s] = <<>>]
    /\ put_in' = [put_in EXCEPT ![s] = "none"]
    /\ returned' = <<>>
    /\ UNCHANGED <<scales, frame, skipped, null_used>>

(* Bug: prepared images keep their flag. *)
MutantNotReady(set) == [n \in DOMAIN set |->
    IF n = "rgb_8u" THEN set[n] ELSE [ready |-> FALSE, from |-> set[n].from]]

NotReady(set) == [n \in DOMAIN set |-> [ready |-> FALSE, from |-> set[n].from]]

(* invalidate() of the handler: after an erase the loop moves on once more,  *)
(* past the next entry; from the end of the list it comes round again.       *)
Walk[list \in Seq(SIZES), i \in Nat, reached \in SUBSET SIZES] ==
    IF i > Len(list) THEN [list |-> list, reached |-> reached]
    ELSE IF list[i] \in owned THEN Walk[list, i + 1, reached \cup {list[i]}]
    ELSE LET shorter == RemoveAt(list, i) IN
         Walk[shorter, IF i > Len(shorter) THEN 1 ELSE i + 1, reached]

(* process() and set_rgb(): a new frame. *)
Process ==
    LET walk == Walk[scales, 1, {}] IN
    /\ frame < MAX_FRAMES
    /\ frame' = frame + 1
    /\ scales' = walk.list
    /\ images' = [s \in SIZES |-> IF s \in walk.reached THEN NotReady(images[s]) ELSE images[s]]
    /\ put_in' = [s \in SIZES |-> "none"]
    /\ skipped' = owned \ walk.reached
    /\ returned' = <<>>
    /\ UNCHANGED <<owned, null_used>>

(* What the owner of a cache puts in for the frame: one channel, three or    *)
(* four, or three planes. The other images only lose their flag.             *)
Given == [gray |-> {"gray_8u"}, rgb |-> {"rgb_8u"},
          yuv |-> {"gray_8u", "yuv422_u_8u", "yuv422_v_8u"}]

Updated(set, names) ==
    [n \in DOMAIN set \cup names |->
        IF n \in names THEN [ready |-> TRUE, from |-> {frame}] ELSE NotReady(set)[n]]

SetImage(s, kind) ==
    /\ s \in owned
    /\ images' = [images EXCEPT ![s] = Updated(images[s], Given[kind])]
    /\ put_in' = [put_in EXCEPT ![s] = kind]
    /\ skipped' = skipped \ {s}
    /\ returned' = <<>>
    /\ UNCHANGED <<scales, owned, frame, null_used>>

Ready(s, n) == n \in DOMAIN images[s] /\ images[s][n].ready

Derive(s, n, from) ==
    /\ images' = [images EXCEPT ![s] =
            [x \in DOMAIN images[s] \cup {n} |->
                IF x = n THEN [ready |-> TRUE, from |-> from] ELSE images[s][x]]]
    /\ returned' = <<s, n, from>>

ShowImage(s, n) ==
    /\ returned' = IF Ready(s, n) THEN <<s, n, images[s][n].from>> ELSE <<>>
    /\ UNCHANGED images

(* get_img_gray(): the scale, then get_gray_8u().                            *)
GetGray(s) ==
    /\ s \in owned
    /\ scales' = Searched(s)
    /\ IF ~Ready(s, "gray_8u") /\ Ready(s, "rgb_8u")
       THEN Derive(s, "gray_8u", images[s]["rgb_8u"].from)
       ELSE ShowImage(s, "gray_8u")
    /\ UNCHANGED <<owned, put_in, frame, skipped, null_used>>

(* get_img_rgb(), get_rgb_8u(), rgb_from_yuv(): of the three planes only the *)
(* first one is looked at, three times.                                      *)
GetRgb(s) ==
    LET planes == Given.yuv IN
    /\ s \in owned
    /\ scales' = Searched(s)
    /\ null_used' = (/\ ~Ready(s, "rgb_8u") /\ Ready(s, "gray_8u")
                     /\ ~(planes \subseteq DOMAIN images[s]))
    /\ IF ~Ready(s, "rgb_8u") /\ Ready(s, "gray_8u") /\ ~null_used'
       THEN Derive(s, "rgb_8u", UNION {images[s][n].from : n \in planes})
       ELSE ShowImage(s, "rgb_8u")
    /\ UNCHANGED <<owned, put_in, frame, skipped>>

(* The same for a size nobody owns: no image, and the list is cleaned.       *)
GetNone(s) ==
    /\ s \notin owned
    /\ scales' = Searched(s)
    /\ returned' = <<>>
    /\ UNCHANGED <<owned, images, put_in, frame, skipped, null_used>>

ImagesNext ==
    /\ ~null_used
    /\ \/ Process
       \/ \E s \in SIZES :
            \/ ScaleFind(s) \/ Release(s)
            \/ \E kind \in DOMAIN Given : SetImage(s, kind)
            \/ GetGray(s) \/ GetRgb(s) \/ GetNone(s)

ImagesSpec == ImagesInit /\ [][ImagesNext]_imageVars

-----------------------------------------------------------------------------
(* An image that is returned was computed from the frame being processed and *)
(* from no other one, whichever way it was derived and whatever is left in   *)
(* the cache from earlier frames; unless colour is asked of a frame that was *)
(* put in as gray, or of a size that invalidate() passed over.               *)
ImagesAreCurrent ==
    (returned # <<>> /\ returned[1] \notin skipped) =>
        (returned[2] = "rgb_8u" /\ put_in[returned[1]] = "gray") \/ returned[3] = {frame}
=============================================================================
