------------------------------ MODULE MediaFiles ------------------------------
(***************************************************************************)
(* What the readers of video/media-reader.cpp read (external: ffmpeg and   *)
(* the disk). A container is a sequence of packets; a decoder takes the    *)
(* video packets one by one and gives the pictures back in order, `delay'  *)
(* packets later than it was given them. Pictures are numbered from 1.     *)
(***************************************************************************)
EXTENDS Integers, Sequences, FiniteSets, FiniteSetsExt

(* A medium as ffmpeg finds it. *)
IsMedium(c) == c.packets \in Seq({"audio", "video", "broken"}) /\ c.delay \in Nat

(* The video packets among the first p packets of c. *)
PictureAt(c, p) == Cardinality({q \in 1..p : c.packets[q] = "video"})

(* The pictures of the packets after the a-th up to the b-th. *)
Sent(c, a, b) ==
    [i \in 1..(PictureAt(c, b) - PictureAt(c, a)) |-> PictureAt(c, a) + i]

(* A demuxer and its decoder: the packets read, the pictures given to the    *)
(* decoder and not given back yet, and the picture in the frame (0: none).   *)
Opened(c) == [of |-> c, pos |-> 0, held |-> <<>>, picture |-> 0]

(* The pictures the decoder has when it was given packet p, and whether it    *)
(* gives one back.                                                            *)
HeldWith(m, p) == m.held \o Sent(m.of, m.pos, p)
ComesOut(m, p) == Len(HeldWith(m, p)) > m.of.delay /\ m.of.packets[p] = "video"

(* The packets with which av_read_frame() and the decoder come up with        *)
(* something: a picture, or an error for a packet that cannot be decoded.     *)
Yields(m) ==
    {p \in m.pos + 1 .. Len(m.of.packets) : m.of.packets[p] = "broken" \/ ComesOut(m, p)}

(* The demuxer after it was read up to packet p. *)
ReadTo(m, p) ==
    [m EXCEPT !.pos = p,
              !.held = IF ComesOut(m, p) THEN Tail(HeldWith(m, p)) ELSE HeldWith(m, p),
              !.picture = IF ComesOut(m, p) THEN Head(HeldWith(m, p)) ELSE @]

(* av_seek_frame(): to the key picture at or before the frame, or, forwards,  *)
(* at or after it. Frames count from 0; the decoder keeps what it holds.      *)
KeysFor(m, frame, backward) ==
    {k \in m.of.keys : IF backward THEN k <= frame ELSE k >= frame}

Sought(m, frame, backward) ==
    LET key == IF backward THEN Max(KeysFor(m, frame, backward))
                           ELSE Min(KeysFor(m, frame, backward))
    IN  [m EXCEPT !.pos = Min({p \in DOMAIN m.of.packets :
                                  PictureAt(m.of, p) = key + 1}) - 1]
=============================================================================
