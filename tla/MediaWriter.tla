----------------------------- MODULE MediaWriter -----------------------------
(***************************************************************************)
(* MovieWriter (media-writer.cpp): pictures go one by one through a frame  *)
(* that is used again and an encoder into a file. The encoder (external)   *)
(* copies the frame, may refuse it, and gives a packet for it `delay'      *)
(* pictures later; a call without a frame takes out what it holds. With    *)
(* the "zerolatency" the constructor asks for, delay is 0; an encoder that *)
(* does not know this option keeps its own.                                *)
(***************************************************************************)
EXTENDS Integers, Sequences, SequencesExt

CONSTANTS
    PICTURES,         \* the pictures a program adds
    DELAYS,         \* delays of the encoders there are
    MAX_WRITTEN     \* bound: pictures added to one file

ASSUME WriterAssumption == DELAYS \subseteq Nat /\ MAX_WRITTEN \in Nat

Black == "black"
EndCode == [planes |-> <<>>, pts |-> 0]

VARIABLES
    writer,         \* "none", "open" or "deleted"
    delay,          \* of the encoder found
    yuv_frame,      \* what its planes Y, U and V show, and its time
    encoding,       \* frames the encoder holds
    output,         \* the video file
    taken           \* the frames the encoder took, as they had to be (history)

writerVars == <<writer, delay, yuv_frame, encoding, output, taken>>

(* What the planes hold before a picture is put there is not defined. *)
WriterInit ==
    /\ writer = "none" /\ delay = 0
    /\ yuv_frame = [planes |-> <<"?", "?", "?">>, pts |-> 0]
    /\ encoding = <<>> /\ output = <<>> /\ taken = <<>>

(* The constructor, where encoder and file can be opened. *)
WriterOpen ==
    /\ writer = "none"
    /\ writer' = "open"
    /\ delay' \in DELAYS
    /\ UNCHANGED <<yuv_frame, encoding, output, taken>>

(* A picture fills all three planes. *)
Converted(image) == [i \in 1..3 |-> image]

(* memset() from the start of Y; the planes lie one behind the other.        *)
Cleared(planes, frame_size) ==
    [i \in 1..3 |-> IF i <= frame_size THEN Black ELSE planes[i]]

(* encode_and_write(): a frame that is refused is not written. Once there is *)
(* a packet, the encoder is asked for more until it has none or fails.       *)
EncodeAndWrite(new) ==
    \/ UNCHANGED <<encoding, output>>
    \/ /\ Len(encoding) < delay
       /\ encoding' = Append(encoding, new)
       /\ UNCHANGED output
    \/ /\ Len(encoding) >= delay
       /\ LET queue == Append(encoding, new) IN
          \E n \in DOMAIN queue :
              /\ output' = output \o SubSeq(queue, 1, n)
              /\ encoding' = SubSeq(queue, n + 1, Len(queue))

Put(planes) ==
    /\ writer = "open" /\ yuv_frame.pts < MAX_WRITTEN
    /\ yuv_frame' = [planes |-> planes, pts |-> yuv_frame.pts + 1]
    /\ EncodeAndWrite(yuv_frame')
    /\ taken' = IF Len(output' \o encoding') > Len(output \o encoding)
                THEN Append(taken, yuv_frame') ELSE taken
    /\ UNCHANGED <<writer, delay>>

(* write_image() *)
AddFrame(image) == Put(Converted(image))

(* emulate_delay() *)
AddEmptyFrame(frame_size) == Put(Cleared(yuv_frame.planes, frame_size))

(* The destructor: what the encoder holds is lost with it. *)
WriterDelete ==
    /\ writer = "open"
    /\ writer' = "deleted"
    /\ output' = Append(output, EndCode)
    /\ encoding' = <<>>
    /\ UNCHANGED <<delay, yuv_frame, taken>>

WriterNext ==
    \/ WriterOpen
    \/ \E image \in PICTURES : AddFrame(image)
    \/ \E frame_size \in 1..3 : AddEmptyFrame(frame_size)
    \/ WriterDelete

WriterSpec == WriterInit /\ [][WriterNext]_writerVars

-----------------------------------------------------------------------------
(* The file has the pictures the encoder took, each once, in their order and *)
(* as they were when they were added, although the next one is drawn into    *)
(* the same frame; while the writer is there the encoder holds the rest, of  *)
(* a deleted one at most `delay' are missing (not one under "zerolatency"),  *)
(* and the end code comes last.                                              *)
WrittenInOrder ==
    LET ended == writer = "deleted"
        pictures == IF ended THEN Front(output) ELSE output
    IN  /\ IsPrefix(pictures, taken)
        /\ ~ended => pictures \o encoding = taken
        /\ Len(taken) - Len(pictures) <= delay
        /\ ended => Last(output) = EndCode
        /\ EndCode \notin Range(pictures)
=============================================================================
