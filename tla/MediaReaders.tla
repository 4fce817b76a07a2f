----------------------------- MODULE MediaReaders -----------------------------
(***************************************************************************)
(* SequentialReader (media-reader.cpp) gives the pictures of a medium one  *)
(* by one and says which one the current frame is: of a video through      *)
(* MovieReader (ffmpeg) or cv::VideoCapture, or of the photos of a         *)
(* directory or a list. A client may change the medium at any time, skip   *)
(* frames with fast_feed_frame() and seek in the movie.                    *)
(***************************************************************************)
EXTENDS MediaFiles, TLC

CONSTANTS
    VIDEOS,         \* path -> [header, stream, codec, format, packets, delay, keys]
    PHOTO_PATHS,    \* path -> the names in the directory or list, in its order
    PHOTOS,         \* name -> [found, good, size]; the names are numbers
    SEEKS           \* the frames a client seeks in a movie

(* A key frame of a video is one of its pictures. *)
ASSUME ReaderAssumption ==
    /\ \A v \in DOMAIN VIDEOS :
        /\ IsMedium(VIDEOS[v])
        /\ \A key \in VIDEOS[v].keys :
            key \in Nat /\ \E p \in DOMAIN VIDEOS[v].packets : PictureAt(VIDEOS[v], p) = key + 1
    /\ \A path \in DOMAIN PHOTO_PATHS : PHOTO_PATHS[path] \in Seq(DOMAIN PHOTOS)

VARIABLES
    ffmpeg_explicit_backend,    \* of the constructor; "unset" before it
    movie, cv_movie,            \* <<>> or <<the open video>>
    photos, next_photo,         \* the sorted names, the index of the next
    cur_frame_num,
    cur_frame,                  \* [size, luma, chroma] or <<>> (no MatCache)
    fed,                        \* the last call left a frame just read (history)
    number_exact            \* no seek has put the number off (history)

readerVars == <<ffmpeg_explicit_backend, movie, cv_movie, photos, next_photo,
                cur_frame_num, cur_frame, fed, number_exact>>

ReaderInit ==
    /\ ffmpeg_explicit_backend = "unset"
    /\ movie = <<>> /\ cv_movie = <<>>
    /\ photos = <<>> /\ next_photo = 1
    /\ cur_frame_num = 0 /\ cur_frame = <<>>
    /\ fed = FALSE /\ number_exact = TRUE

Construct(use_ffmpeg) ==
    /\ ffmpeg_explicit_backend = "unset"
    /\ ffmpeg_explicit_backend' = use_ffmpeg
    /\ UNCHANGED <<movie, cv_movie, photos, next_photo, cur_frame_num, cur_frame,
                   fed, number_exact>>

-----------------------------------------------------------------------------
(* MovieReader: the constructor throws what init() throws. *)
CanOpen(c) == c.header /\ c.stream /\ c.codec

NewMovie(c) == [of |-> c, pos |-> 0, held |-> <<>>, picture |-> 0,
                number_of_frames |-> 0, eof |-> FALSE, data |-> <<0, 0>>]

(* A frame is copied plane by plane; of an RGB frame only the luma, a format  *)
(* that is not known leaves the planes as they are.                           *)
Copied(c, data, picture) ==
    CASE c.format = "yuv" -> <<picture, picture>>
      [] c.format = "rgb" -> <<picture, data[2]>>
      [] c.format = "gray" -> <<picture, 0>>
      [] OTHER -> data

(* MovieReaderInternals::get_frame(): read packets until a picture comes out  *)
(* or nothing is left. The end of the file is never forgotten again.          *)
ReadFrame(m) ==
    LET read == ReadTo(m, Min(Yields(m)))
    IN  IF Yields(m) = {} THEN [ReadTo(m, Len(m.of.packets)) EXCEPT !.eof = TRUE]
        ELSE IF m.of.packets[read.pos] = "broken" THEN read
        ELSE [read EXCEPT !.number_of_frames = @ + 1]

(* avcodec_send_packet() refused a packet: the exception leaves get_frame().  *)
Refused(m) == ReadFrame(m).pos > 0 /\ Yields(m) # {}
                  /\ m.of.packets[ReadFrame(m).pos] = "broken"

(* MovieReader::get_frame(): at the end nothing is copied. *)
GetFrame(m) ==
    LET read == ReadFrame(m)
    IN  IF read.eof \/ Refused(m) THEN read
        ELSE [read EXCEPT !.data = Copied(m.of, @, read.picture)]

SeekTo(m, frame) ==
    LET backward == frame < m.number_of_frames
    IN  IF KeysFor(m, frame, backward) = {} THEN m
        ELSE [Sought(m, frame, backward) EXCEPT !.number_of_frames = frame]

-----------------------------------------------------------------------------
(* SequentialReader::setup() forgets the former medium before it looks at the *)
(* new one; every way it can fail leaves the reader empty.                    *)
SetupStart ==
    /\ ffmpeg_explicit_backend # "unset"
    /\ cur_frame_num' = 0 /\ fed' = FALSE /\ number_exact' = TRUE
    /\ next_photo' = 1
    /\ UNCHANGED ffmpeg_explicit_backend

SetupMissing ==
    /\ SetupStart
    /\ movie' = <<>> /\ cv_movie' = <<>> /\ photos' = <<>> /\ cur_frame' = <<>>

(* Entries of the list without a file are left out; a list without any is an *)
(* error like a missing path.                                                *)
Existing(path) == {e \in DOMAIN PHOTO_PATHS[path] : PHOTOS[PHOTO_PATHS[path][e]].found}

Sorted(path) ==
    LET name(e) == PHOTO_PATHS[path][e]
        NotAfter(e) == {d \in Existing(path) : name(d) < name(e) \/ (name(d) = name(e) /\ d <= e)}
    IN  [i \in 1..Cardinality(Existing(path)) |->
            name(CHOOSE e \in Existing(path) : Cardinality(NotAfter(e)) = i)]

SetupPhotos(path) ==
    /\ SetupStart
    /\ photos' = Sorted(path)
    /\ movie' = <<>> /\ cv_movie' = <<>> /\ cur_frame' = <<>>

Blank(c) == <<[size |-> c.size, luma |-> 0, chroma |-> 0]>>

SetupMovie(path) ==
    /\ SetupStart
    /\ LET c == VIDEOS[path]
           opens == ffmpeg_explicit_backend = "yes" /\ CanOpen(c)
       IN  /\ movie' = IF opens THEN <<NewMovie(c)>> ELSE <<>>
           /\ cv_movie' = IF ffmpeg_explicit_backend = "no"
                          THEN <<[Opened(c) EXCEPT !.pos = IF CanOpen(c) THEN 0
                                                           ELSE Len(c.packets)]>>
                          ELSE <<>>
           /\ cur_frame' = IF ffmpeg_explicit_backend = "no" \/ opens
                           THEN Blank(c) ELSE <<>>
    /\ photos' = <<>>

-----------------------------------------------------------------------------
(* One picture from the movie; FALSE at its end, which leaves the frame. *)
FeedMovie(full) ==
    /\ movie # <<>>
    /\ LET m == GetFrame(movie[1])
           ok == ~Refused(movie[1]) /\ ~m.eof /\ m.number_of_frames # 0
       IN  /\ movie' = <<m>>
           /\ fed' = (ok /\ full)
           /\ cur_frame_num' = IF ok THEN m.number_of_frames ELSE cur_frame_num
           /\ cur_frame' = IF ok /\ full
                           THEN <<[cur_frame[1] EXCEPT !.luma = m.data[1],
                                                       !.chroma = m.data[2]]>>
                           ELSE cur_frame
    /\ UNCHANGED <<ffmpeg_explicit_backend, cv_movie, photos, next_photo,
                   number_exact>>

(* cv::VideoCapture skips what it cannot decode and knows its own position. *)
FeedCapture(full) ==
    /\ movie = <<>> /\ cv_movie # <<>>
    /\ LET m == cv_movie[1]
           left == {p \in Yields(m) : m.of.packets[p] = "video"}
           read == IF left = {} THEN ReadTo(m, Len(m.of.packets)) ELSE ReadTo(m, Min(left))
       IN  /\ cv_movie' = <<read>>
           /\ fed' = (full /\ left # {})
           /\ cur_frame_num' = IF left # {} THEN read.picture ELSE cur_frame_num
           /\ cur_frame' = IF left # {} /\ full
                           THEN <<[cur_frame[1] EXCEPT !.luma = read.picture,
                                                       !.chroma = read.picture]>>
                           ELSE cur_frame
    /\ UNCHANGED <<ffmpeg_explicit_backend, movie, photos, next_photo,
                   number_exact>>

(* Bug: a photo that cannot be read is passed over without being counted. *)
MutantShow(n) ==
    /\ next_photo' = n + 1 /\ cur_frame_num' = cur_frame_num + 1
    /\ cur_frame' = IF n > Len(photos) THEN cur_frame
                    ELSE <<[size |-> PHOTOS[photos[n]].size,
                            luma |-> photos[n], chroma |-> photos[n]]>>

(* The n-th photo is shown, or, behind the last one, none: those passed over  *)
(* are counted in the number. The MatCache is made anew for another size.     *)
Show(n) ==
    /\ next_photo' = IF n > Len(photos) THEN n ELSE n + 1
    /\ cur_frame_num' = cur_frame_num + (next_photo' - next_photo)
    /\ cur_frame' = IF n > Len(photos) THEN cur_frame
                    ELSE <<[size |-> PHOTOS[photos[n]].size,
                            luma |-> photos[n], chroma |-> photos[n]]>>

Readable ==
    {i \in next_photo..Len(photos) : PHOTOS[photos[i]].good} \cup {Len(photos) + 1}

OnPhotos == movie = <<>> /\ cv_movie = <<>> /\ photos # <<>>
SameMedium == UNCHANGED <<ffmpeg_explicit_backend, movie, cv_movie, photos, number_exact>>

(* Those that cannot be read are passed over. *)
FeedPhoto ==
    /\ OnPhotos
    /\ Show(Min(Readable))
    /\ fed' = (Min(Readable) <= Len(photos))
    /\ SameMedium

(* Only the last photo is read, and whether it could be is not looked at: the *)
(* frame of the others stays in place, for all that a comment says of it.     *)
FastFeedPhoto ==
    /\ OnPhotos
    /\ CASE next_photo < Len(photos) ->
                /\ next_photo' = next_photo + 1 /\ cur_frame_num' = cur_frame_num + 1
                /\ fed' = FALSE /\ UNCHANGED cur_frame
         [] next_photo = Len(photos) ->
                /\ Show(Min(Readable))
                /\ fed' = (Min(Readable) = next_photo)
         [] OTHER -> fed' = FALSE /\ UNCHANGED <<next_photo, cur_frame_num, cur_frame>>
    /\ SameMedium

(* A client asks the movie for a frame. To a picture that is not a key, with   *)
(* pictures held by the decoder, or after the end, the number is a guess.      *)
Seek(frame) ==
    /\ movie # <<>>
    /\ LET m == movie[1] IN
       /\ movie' = <<GetFrame(SeekTo(m, frame))>>
       /\ number_exact' = (number_exact /\ frame \in m.of.keys /\ m.held = <<>>)
    /\ fed' = FALSE
    /\ UNCHANGED <<ffmpeg_explicit_backend, cv_movie, photos, next_photo,
                   cur_frame_num, cur_frame>>

ReaderNext ==
    \/ \E use_ffmpeg \in {"yes", "no"} : Construct(use_ffmpeg)
    \/ SetupMissing
    \/ \E path \in DOMAIN PHOTO_PATHS : SetupPhotos(path)
    \/ \E path \in DOMAIN VIDEOS : SetupMovie(path)
    \/ \E full \in BOOLEAN : FeedMovie(full) \/ FeedCapture(full)
    \/ FeedPhoto \/ FastFeedPhoto
    \/ \E frame \in SEEKS : Seek(frame)

ReaderSpec == ReaderInit /\ [][ReaderNext]_readerVars

-----------------------------------------------------------------------------
(* The frame that feed_frame() leaves is the picture of the medium that       *)
(* cur_frame_num counts, whatever was skipped, could not be read or was shown *)
(* from another medium before, and has the size of that picture. (Of a film   *)
(* in a format that is not known no picture is ever copied.)                  *)
FrameIsTheOneCounted ==
    (fed /\ number_exact) =>
        IF photos # <<>>
        THEN LET photo == photos[cur_frame_num]
             IN  cur_frame[1].luma = photo /\ cur_frame[1].size = PHOTOS[photo].size
        ELSE (movie = <<>> \/ movie[1].of.format \in {"yuv", "rgb", "gray"}) =>
                cur_frame[1].luma = cur_frame_num
=============================================================================
