----------------------------- MODULE StreamReader -----------------------------
(***************************************************************************)
(* VideoStreamReader (media-reader.cpp): opens a stream, gives its frames  *)
(* and closes it again, as often as its owner likes. What ffmpeg allocates *)
(* for a stream is owned through a handle that frees nothing by itself.    *)
(***************************************************************************)
EXTENDS MediaFiles

CONSTANTS
    STREAMS,        \* name -> [header, stream, codec, packets, delay, keys]
    MAX_STREAMS     \* bound: streams opened

ASSUME StreamAssumption ==
    /\ MAX_STREAMS \in Nat
    /\ \A name \in DOMAIN STREAMS : IsMedium(STREAMS[name])

VARIABLES
    ff_handle,              \* <<>> or <<[format, codec, frame, convert: allocated?]>>
    input,                  \* the demuxer and decoder, <<>> when there is none
    input_is_open,
    current_error_status,
    packets,                \* read and not decoded yet: numbers of packets
    shown,                  \* the pictures returned since the opening (history)
    opened,                 \* streams opened
    asked                   \* frames asked for since the opening (history)

streamVars == <<ff_handle, input, input_is_open, current_error_status, packets,
                shown, opened, asked>>

StreamInit ==
    /\ ff_handle = <<>> /\ input = <<>>
    /\ input_is_open = FALSE
    /\ current_error_status = "OK"
    /\ packets = <<>> /\ shown = <<>>
    /\ opened = 0 /\ asked = 0

(* How far open_input() comes with a stream, and the status it leaves: one    *)
(* that succeeds does not take an earlier error back.                         *)
Reached(c) ==
    IF ~c.header THEN "FORMAT_ERROR" ELSE IF ~c.stream THEN "FORMAT_ERROR"
    ELSE IF ~c.codec THEN "CODEC_ERROR" ELSE current_error_status

(* open_input(): a handle of its own for every try; where it fails, what is   *)
(* allocated by then stays allocated (ffmpeg frees the format of a stream it  *)
(* cannot open).                                                              *)
OpenInput(name) ==
    LET c == STREAMS[name]
        ok == c.header /\ c.stream /\ c.codec
    IN  /\ opened < MAX_STREAMS
        /\ ff_handle' = <<[frame |-> TRUE, format |-> c.header,
                           codec |-> c.header /\ c.stream, convert |-> FALSE]>>
        /\ input' = IF c.header THEN <<Opened(c)>> ELSE <<>>
        /\ input_is_open' = ok
        /\ current_error_status' = Reached(c)
        /\ packets' = <<>> /\ shown' = <<>>
        /\ opened' = opened + 1
        /\ asked' = 0

(* close_input(): of a stream that did not open completely the format is kept *)
(* allocated. A second call would free the converter and the codec again: the *)
(* owner calls it once.                                                       *)
CloseInput ==
    /\ ff_handle # <<>> /\ ff_handle[1].frame
    /\ LET h == ff_handle[1] IN
       /\ ff_handle' = <<[h EXCEPT !.frame = FALSE, !.convert = FALSE, !.codec = FALSE,
                                   !.format = @ /\ ~input_is_open]>>
    /\ input' = IF input_is_open THEN <<>> ELSE input
    /\ input_is_open' = FALSE
    /\ UNCHANGED <<current_error_status, packets, shown, opened, asked>>

(* The next packet of the video stream, or the end of the input. *)
NextPacket(m) ==
    {p \in m.pos + 1 .. Len(m.of.packets) : m.of.packets[p] # "audio"}

(* The packet is taken off the queue whether it could be decoded or not. *)
Dropped(queue, decoded) == Tail(queue)

(* get_frame(): one packet is read unless one is waiting, and decoded. An     *)
(* error gives an empty image, and so does the end; otherwise the decoder's   *)
(* frame is converted, a new one or not.                                      *)
GetStreamFrame ==
    /\ input_is_open
    /\ LET m == input[1]
           next == NextPacket(m)
           at == IF packets = <<>> /\ next # {} THEN Min(next) ELSE m.pos
           queue == IF packets # <<>> THEN packets
                    ELSE IF next # {} THEN <<Min(next)>> ELSE <<>>
           decoded == m.of.packets[queue[1]] # "broken"
           given == [m EXCEPT !.pos = queue[1] - 1]
           fresh == [ReadTo(given, queue[1]) EXCEPT !.pos = at]
       IN  IF queue = <<>>
           THEN /\ input' = <<[m EXCEPT !.pos = Len(m.of.packets)]>>
                /\ UNCHANGED <<packets, shown, ff_handle>>
           ELSE /\ input' = <<fresh>>
                /\ packets' = Dropped(queue, decoded)
                /\ shown' = IF decoded THEN Append(shown, fresh.picture) ELSE shown
                /\ ff_handle' = <<[ff_handle[1] EXCEPT !.convert = @ \/ decoded]>>
    /\ asked' = asked + 1 /\ asked <= Len(input[1].of.packets)
    /\ UNCHANGED <<input_is_open, current_error_status, opened>>

StreamNext ==
    \/ \E name \in DOMAIN STREAMS : OpenInput(name)
    \/ CloseInput
    \/ GetStreamFrame

StreamSpec == StreamInit /\ [][StreamNext]_streamVars

-----------------------------------------------------------------------------
(* The video packets among the first n of the video stream.                    *)
Among(c, n) ==
    {p \in DOMAIN c.packets :
        /\ c.packets[p] = "video"
        /\ Cardinality({q \in 1..p : c.packets[q] # "audio"}) <= n}

(* A stream's pictures are shown in their order, none twice and none left     *)
(* out: the n-th call deals with the n-th packet of the video stream, whether *)
(* packets before it could be decoded or not and whatever lies between them,  *)
(* on every opening anew. (A decoder that holds pictures back shows what was  *)
(* in its frame before: it is excepted.)                                      *)
StreamInOrder ==
    (input # <<>> /\ input[1].of.delay = 0) =>
        shown = [i \in 1..Cardinality(Among(input[1].of, asked)) |-> i]
=============================================================================
