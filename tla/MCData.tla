------------------------------- MODULE MCData -------------------------------
(***************************************************************************)
(* An instance, for TLC, of the components that one thread, or a lock, uses *)
(* alone: they share nothing, so each behaviour drives one of them and      *)
(* leaves the others as they are at the start.                              *)
(***************************************************************************)
EXTENDS StreamMedian, CachedVector, AdjacencyMatrix, StateRecords, ConfParser, ImageCaches,
        Logger, Media, Kernels, FloodFill, MCContrast, SseIntegral, NetClient, TLC

-----------------------------------------------------------------------------
(* Values of the constants.                                                    *)
MCVertexLists == {<<"a", "b">>, <<"b", "a">>, <<"b", "d">>}

MCTypeOf == "c" :> "COUNTER" @@ "u" :> "UTC_TIMESTAMP"

Setting == [kind |-> "set"]
BlankLine == [kind |-> "blank"]
BadLine == [kind |-> "bad"]
Include(name) == [kind |-> "include", of |-> name]

MCFiles ==
    "main" :> <<Setting, Include("one"), BlankLine, Include("two"), Setting, Setting>>
    @@ "one" :> <<BlankLine, Setting, Include("leaf"), BadLine, Setting>>
    @@ "two" :> <<Setting, Include("gone"), Setting, Include("leaf")>>
    @@ "leaf" :> <<Setting, Setting>>
    @@ "short" :> <<Include("leaf"), Setting>>

MCLogMasks == {{"STATE"}, {"custom"}, {}}

MCVideos ==
    LET good == [header |-> TRUE, stream |-> TRUE, codec |-> TRUE, format |-> "yuv",
                 size |-> 1, delay |-> 0, keys |-> {0, 2},
                 packets |-> <<"audio", "video", "video", "audio", "video", "broken", "video">>]
    IN  "plain" :> good
        @@ "late" :> [good EXCEPT !.delay = 1, !.format = "rgb"]
        @@ "gray" :> [good EXCEPT !.format = "gray", !.packets = <<"video", "video", "video">>]
        @@ "other" :> [good EXCEPT !.format = "other", !.packets = <<"video", "video">>, !.keys = {0}]
        @@ "nocodec" :> [good EXCEPT !.codec = FALSE]
MCPhotoPaths == "dir" :> <<1, 2, 3>> @@ "list" :> <<5, 3, 4, 1>> @@ "none" :> <<4>>
MCPhotos == [n \in 1..5 |-> [found |-> n # 4, good |-> n \notin {2, 3}, size |-> n % 2]]
MCStreams ==
    [name \in DOMAIN MCVideos \ {"gray", "other"} |-> MCVideos[name]]
        @@ "nohead" :> [MCVideos["plain"] EXCEPT !.header = FALSE]
        @@ "sound" :> [MCVideos["plain"] EXCEPT !.stream = FALSE]

MCServed == {[code |-> 200, blocks |-> <<"text", "nul", "text">>],
             [code |-> 404, blocks |-> <<"text">>]}

MCImageSizes == (1..6) \X (1..6)
MCMasks == [PIXELS -> {0, COLOR}]
MCShades == [PIXELS -> 0..START_COLOR]

-----------------------------------------------------------------------------
VARIABLE driven     \* the component this behaviour drives

vars == <<driven, medianVars, cacheVars, adjVars, recordsVars, confVars, imageVars, logVars,
          readerVars, streamVars, writerVars, kernelVars, fillVars, contrastVars, sseVars, netClientVars>>

Init ==
    /\ driven \in {"median", "cache", "adj", "records", "conf", "image", "log", "reader",
                   "stream", "writer", "kernel", "fill", "contrast", "sse", "client"}
    /\ MedianInit /\ CacheInit /\ AdjInit /\ RecordsInit /\ ConfInit /\ ImagesInit
    /\ LogInit /\ ReaderInit /\ StreamInit /\ WriterInit /\ KernelInit /\ FillInit /\ ContrastInit
    /\ SseInit /\ ClientInit

Next ==
    /\ UNCHANGED driven
    /\ IF driven = "median" THEN MedianNext ELSE UNCHANGED medianVars
    /\ IF driven = "cache" THEN CacheNext ELSE UNCHANGED cacheVars
    /\ IF driven = "adj" THEN AdjNext ELSE UNCHANGED adjVars
    /\ IF driven = "records" THEN RecordsNext ELSE UNCHANGED recordsVars
    /\ IF driven = "conf" THEN ConfNext ELSE UNCHANGED confVars
    /\ IF driven = "image" THEN ImagesNext ELSE UNCHANGED imageVars
    /\ IF driven = "log" THEN LogNext ELSE UNCHANGED logVars
    /\ IF driven = "reader" THEN ReaderNext ELSE UNCHANGED readerVars
    /\ IF driven = "stream" THEN StreamNext ELSE UNCHANGED streamVars
    /\ IF driven = "writer" THEN WriterNext ELSE UNCHANGED writerVars
    /\ IF driven = "kernel" THEN KernelNext ELSE UNCHANGED kernelVars
    /\ IF driven = "fill" THEN FillNext ELSE UNCHANGED fillVars
    /\ IF driven = "contrast" THEN ContrastNext ELSE UNCHANGED contrastVars
    /\ IF driven = "sse" THEN SseNext ELSE UNCHANGED sseVars
    /\ IF driven = "client" THEN ClientNext ELSE UNCHANGED netClientVars

Spec == Init /\ [][Next]_vars

=============================================================================
