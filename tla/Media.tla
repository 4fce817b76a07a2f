-------------------------------- MODULE Media --------------------------------
(***************************************************************************)
(* The readers and the writer of video/ together. They share no state: a   *)
(* program owns one of each as often as it likes.                          *)
(***************************************************************************)
EXTENDS MediaReaders, StreamReader, MediaWriter

(* Pictures of a film, of a folder of photographs and of a stream come as they *)
(* were recorded: the number a reader gives a picture is that picture's, and   *)
(* no reader shows one out of order. A film written has them in their order.   *)
MediaInOrder == FrameIsTheOneCounted /\ StreamInOrder /\ WrittenInOrder
=============================================================================
