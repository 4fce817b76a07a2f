---------------------------- MODULE MediaProofs -----------------------------
(***************************************************************************)
(* Theorems about the readers and the writer of video/: of streams, of     *)
(* films and photographs, of the films written.                            *)
(***************************************************************************)
EXTENDS Media, Lemmas, SequenceTheorems, FiniteSetTheorems

-----------------------------------------------------------------------------
(*                                 Streams                                 *)

(* The packets of the video stream among the first p. *)
StreamAt(c, p) == Cardinality({q \in 1 .. p : c.packets[q] # "audio"})

(* What a reader of a decoder without delay has been through, when `images'  *)
(* were shown of it and it was asked for `calls'.                             *)
InputOk(m, images, calls) ==
    /\ IsMedium(m.of) /\ m.pos \in 0 .. Len(m.of.packets)
    /\ m = [of |-> m.of, pos |-> m.pos, held |-> m.held, picture |-> m.picture]
    /\ m.of.delay = 0 =>
            /\ m.held = <<>>
            /\ images = [i \in 1 .. PictureAt(m.of, m.pos) |-> i]
            /\ StreamAt(m.of, m.pos) <= calls
            /\ StreamAt(m.of, m.pos) < calls =>
                    \A p \in m.pos + 1 .. Len(m.of.packets) : m.of.packets[p] = "audio"

StreamIInv ==
    /\ packets = <<>> /\ asked \in Nat
    /\ input_is_open => input # <<>>
    /\ input # <<>> => input = <<input[1]>> /\ InputOk(input[1], shown, asked)
-----------------------------------------------------------------------------
(* How many of the numbers from 1 to p are in Q. *)
UpTo(Q, p) == Cardinality({q \in 1 .. p : q \in Q})

(* How many members of a set are at most p, from one p to the next. *)
LEMMA CountUpTo ==
  ASSUME NEW Q, NEW p \in Nat
  PROVE  /\ UpTo(Q, p) \in Nat
         /\ p > 0 => UpTo(Q, p) = UpTo(Q, p - 1) + (IF p \in Q THEN 1 ELSE 0)
         /\ \A n \in 0 .. p : UpTo(Q, n) <= UpTo(Q, p)
         /\ UpTo(Q, 0) = 0
<1>1. ASSUME NEW n \in Nat PROVE IsFiniteSet({q \in 1 .. n : q \in Q})
  <2>1. IsFiniteSet(1 .. n)
    BY FS_Interval
  <2>2. QED
    BY <2>1, FS_Subset
<1>2. UpTo(Q, p) \in Nat
  BY <1>1, FS_CardinalityType DEF UpTo
<1>3. ASSUME p > 0 PROVE UpTo(Q, p) = UpTo(Q, p - 1) + (IF p \in Q THEN 1 ELSE 0)
  <2> DEFINE X == {q \in 1 .. p - 1 : q \in Q}
             Y == {q \in 1 .. p : q \in Q}
  <2>1. IsFiniteSet(X) /\ p \notin X
    BY <1>1, <1>3
  <2>2. Y = IF p \in Q THEN X \cup {p} ELSE X
    BY <1>3
  <2>3. Cardinality(X \cup {p}) = Cardinality(X) + 1
    <3> HIDE DEF X
    <3>1. QED
      BY <2>1, FS_AddElement
  <2>4. Cardinality(X) \in Nat
    BY <2>1, FS_CardinalityType
  <2> HIDE DEF X, Y
  <2>5. Cardinality(Y) = Cardinality(X) + (IF p \in Q THEN 1 ELSE 0)
    BY <2>2, <2>3, <2>4
  <2>6. QED
    BY <2>5, Zenon DEF X, Y, UpTo
<1>4. ASSUME NEW n \in 0 .. p PROVE UpTo(Q, n) <= UpTo(Q, p)
  <2>1. {q \in 1 .. n : q \in Q} \in SUBSET {q \in 1 .. p : q \in Q}
    OBVIOUS
  <2>2. QED
    BY <1>1, <2>1, FS_Subset DEF UpTo
<1>5. UpTo(Q, 0) = 0
  <2>1. {q \in 1 .. 0 : q \in Q} = {}
    OBVIOUS
  <2>2. QED
    BY <2>1, FS_EmptySet DEF UpTo
<1>6. QED
  BY <1>2, <1>3, <1>4, <1>5

(* Nothing of Q between n and p: as many up to either. *)
LEMMA CountOver ==
  ASSUME NEW Q, NEW n \in Nat, NEW p \in Nat, n <= p, \A q \in n + 1 .. p : q \notin Q
  PROVE  UpTo(Q, p) = UpTo(Q, n)
<1>1. {q \in 1 .. p : q \in Q} = {q \in 1 .. n : q \in Q}
  OBVIOUS
<1>2. QED
  BY <1>1, Zenon DEF UpTo

(* The positions of pictures, and of packets of the stream. *)
Pictures(c) == {q \in DOMAIN c.packets : c.packets[q] = "video"}
OfStream(c) == {q \in DOMAIN c.packets : c.packets[q] # "audio"}

(* Pictures and packets are counted by the same function. *)
LEMMA CountsOf ==
  ASSUME NEW c, IsMedium(c), NEW p \in 0 .. Len(c.packets)
  PROVE  PictureAt(c, p) = UpTo(Pictures(c), p) /\ StreamAt(c, p) = UpTo(OfStream(c), p)
<1>1. DOMAIN c.packets = 1 .. Len(c.packets) /\ Len(c.packets) \in Nat
  BY LenProperties DEF IsMedium
<1>2. \A q \in 1 .. p : q \in DOMAIN c.packets
  BY <1>1
<1>3. /\ {q \in 1 .. p : c.packets[q] = "video"} = {q \in 1 .. p : q \in Pictures(c)}
      /\ {q \in 1 .. p : c.packets[q] # "audio"} = {q \in 1 .. p : q \in OfStream(c)}
  BY <1>2 DEF Pictures, OfStream
<1>4. QED
  BY <1>3, Zenon DEF PictureAt, StreamAt, UpTo

(* The number of packets of the stream grows by one with each of them. *)
LEMMA StreamCounts ==
  ASSUME NEW c, IsMedium(c), NEW p \in 0 .. Len(c.packets)
  PROVE  /\ StreamAt(c, p) \in Nat
         /\ \A n \in 0 .. p : StreamAt(c, n) <= StreamAt(c, p)
         /\ (p > 0 /\ c.packets[p] # "audio") => StreamAt(c, p) = StreamAt(c, p - 1) + 1
<1>1. DOMAIN c.packets = 1 .. Len(c.packets) /\ Len(c.packets) \in Nat /\ p \in Nat
  BY LenProperties DEF IsMedium
<1>2. \A n \in 0 .. p : n \in 0 .. Len(c.packets)
  BY <1>1
<1>3. \A n \in 0 .. p : StreamAt(c, n) = UpTo(OfStream(c), n)
  BY <1>2, CountsOf
<1>4. p \in 0 .. p /\ (p > 0 => p - 1 \in 0 .. p)
  BY <1>1
<1>5. (p > 0 /\ c.packets[p] # "audio") => p \in OfStream(c)
  BY <1>1 DEF OfStream
<1>6. QED
  BY <1>1, <1>3, <1>4, <1>5, CountUpTo

(* A set of positions has a first one. *)
LEMMA SmallestOf ==
  ASSUME NEW X \in SUBSET Nat, X # {}
  PROVE  Min(X) \in X /\ \A y \in X : Min(X) <= y
<1>1. \E x \in X : \A y \in X : x <= y
  BY LeastOf
<1>2. QED
  BY <1>1 DEF Min

FirstOf(m) == Min(NextPacket(m))

(* The next packet of the stream is the one more that was asked for. *)
LEMMA NextOne ==
  ASSUME NEW m, IsMedium(m.of), m.pos \in 0 .. Len(m.of.packets), NextPacket(m) # {}
  PROVE  /\ FirstOf(m) \in m.pos + 1 .. Len(m.of.packets)
         /\ m.of.packets[FirstOf(m)] # "audio"
         /\ StreamAt(m.of, FirstOf(m)) = StreamAt(m.of, m.pos) + 1
         /\ PictureAt(m.of, FirstOf(m) - 1) = PictureAt(m.of, m.pos)
         /\ PictureAt(m.of, FirstOf(m)) = PictureAt(m.of, m.pos)
                + (IF m.of.packets[FirstOf(m)] = "video" THEN 1 ELSE 0)
         /\ PictureAt(m.of, m.pos) \in Nat
<1> DEFINE n == m.pos
           c == m.of
           at == FirstOf(m)
<1> HIDE DEF n, c, at
<1>1. /\ DOMAIN c.packets = 1 .. Len(c.packets) /\ Len(c.packets) \in Nat /\ n \in Nat
      /\ n <= Len(c.packets) /\ IsMedium(c)
  BY LenProperties DEF IsMedium, n, c
<1>2. NextPacket(m) = {p \in n + 1 .. Len(c.packets) : c.packets[p] # "audio"}
  BY Zenon DEF NextPacket, n, c
<1>3. at \in NextPacket(m) /\ \A p \in NextPacket(m) : at <= p
  <2>1. NextPacket(m) \in SUBSET Nat
    BY <1>1, <1>2
  <2>2. QED
    BY <2>1, SmallestOf DEF at, FirstOf
<1>4. /\ at \in n + 1 .. Len(c.packets) /\ c.packets[at] # "audio"
      /\ \A p \in n + 1 .. at - 1 : c.packets[p] = "audio"
  <2>1. at \in n + 1 .. Len(c.packets) /\ c.packets[at] # "audio"
    BY <1>2, <1>3
  <2>2. ASSUME NEW p \in n + 1 .. at - 1 PROVE c.packets[p] = "audio"
    <3>1. p \in n + 1 .. Len(c.packets) /\ ~(at <= p)
      BY <1>1, <2>1
    <3>2. QED
      BY <1>2, <1>3, <3>1
  <2>3. QED
    BY <2>1, <2>2
<1>5. /\ at \in Nat /\ at > 0 /\ at - 1 \in Nat /\ at \in 0 .. Len(c.packets) /\ n <= at - 1
      /\ at - 1 \in 0 .. Len(c.packets) /\ n \in 0 .. Len(c.packets)
  BY <1>1, <1>4
<1>6. \A q \in n + 1 .. at - 1 : q \notin Pictures(c) /\ q \notin OfStream(c)
  BY <1>4 DEF Pictures, OfStream
<1>7. at \in DOMAIN c.packets /\ at \in OfStream(c) /\ (at \in Pictures(c) <=> c.packets[at] = "video")
  BY <1>1, <1>4 DEF Pictures, OfStream
<1>8. /\ UpTo(Pictures(c), at - 1) = UpTo(Pictures(c), n)
      /\ UpTo(OfStream(c), at - 1) = UpTo(OfStream(c), n)
  BY <1>1, <1>5, <1>6, CountOver
<1>9. /\ UpTo(OfStream(c), at) = UpTo(OfStream(c), at - 1) + 1
      /\ UpTo(Pictures(c), at) = UpTo(Pictures(c), at - 1) + (IF c.packets[at] = "video" THEN 1 ELSE 0)
      /\ UpTo(Pictures(c), n) \in Nat
  BY <1>1, <1>5, <1>7, CountUpTo
<1>10. /\ PictureAt(c, at - 1) = UpTo(Pictures(c), at - 1) /\ PictureAt(c, at) = UpTo(Pictures(c), at)
       /\ PictureAt(c, n) = UpTo(Pictures(c), n) /\ StreamAt(c, at) = UpTo(OfStream(c), at)
       /\ StreamAt(c, n) = UpTo(OfStream(c), n)
  BY <1>1, <1>5, CountsOf
<1>11. QED
  BY <1>4, <1>8, <1>9, <1>10 DEF n, c, at

-----------------------------------------------------------------------------
(* A reader that is closed keeps the invariant. *)
LEMMA StreamStarts ==
  ASSUME StreamInit
  PROVE  StreamIInv
BY DEF StreamInit, StreamIInv

(* Opening a stream starts its count at zero. *)
LEMMA OpenInputKeeps ==
  ASSUME StreamIInv, NEW name \in DOMAIN STREAMS, OpenInput(name)
  PROVE  StreamIInv'
<1> DEFINE c == STREAMS[name]
<1>1. IsMedium(c)
  BY StreamAssumption
<1>2. /\ input' = IF c.header THEN <<Opened(c)>> ELSE <<>>
      /\ input_is_open' = (c.header /\ c.stream /\ c.codec)
      /\ packets' = <<>> /\ shown' = <<>> /\ asked' = 0
  BY DEF OpenInput
<1> HIDE DEF c
<1>3. 0 \in 0 .. Len(c.packets) /\ PictureAt(c, 0) = 0 /\ StreamAt(c, 0) = 0
  <2>1. Len(c.packets) \in Nat
    BY <1>1, LenProperties DEF IsMedium
  <2>2. QED
    BY <1>1, <2>1, CountsOf, CountUpTo
<1>4. InputOk(Opened(c), <<>>, 0)
  <2>1. <<>> = [i \in 1 .. 0 |-> i]
    OBVIOUS
  <2>2. QED
    BY <1>1, <1>3, <2>1 DEF InputOk, Opened
<1>5. CASE c.header
  <2>1. input' = <<Opened(c)>> /\ input'[1] = Opened(c) /\ input' # <<>>
    BY <1>2, <1>5
  <2>2. QED
    BY <1>2, <1>4, <2>1 DEF StreamIInv
<1>6. CASE ~c.header
  BY <1>2, <1>6 DEF StreamIInv
<1>7. QED
  BY <1>5, <1>6

(* A closed stream shows nothing. *)
LEMMA CloseInputKeeps ==
  ASSUME StreamIInv, CloseInput
  PROVE  StreamIInv'
<1>1. /\ input' = IF input_is_open THEN <<>> ELSE input
      /\ input_is_open' = FALSE
      /\ packets' = packets /\ shown' = shown /\ asked' = asked
  BY DEF CloseInput
<1>2. CASE input' = input
  BY <1>1, <1>2 DEF StreamIInv
<1>3. CASE input' = <<>>
  BY <1>1, <1>3 DEF StreamIInv
<1>4. QED
  BY <1>1, <1>2, <1>3

(* Nothing put before a picture is that picture alone. *)
LEMMA NoneBefore ==
  /\ \A k : <<>> \o <<k>> = <<k>>
  /\ <<>> \o <<>> = <<>>
OBVIOUS

(* What the decoder makes of the packet it is given. *)
LEMMA ReadToIs ==
  ASSUME NEW m, m = [of |-> m.of, pos |-> m.pos, held |-> m.held, picture |-> m.picture], NEW p
  PROVE  ReadTo(m, p)
            = [of |-> m.of, pos |-> p,
               held |-> IF ComesOut(m, p) THEN Tail(HeldWith(m, p)) ELSE HeldWith(m, p),
               picture |-> IF ComesOut(m, p) THEN Head(HeldWith(m, p)) ELSE m.picture]
<1> DEFINE h == IF ComesOut(m, p) THEN Tail(HeldWith(m, p)) ELSE HeldWith(m, p)
           pic == IF ComesOut(m, p) THEN Head(HeldWith(m, p)) ELSE m.picture
<1>1. ReadTo(m, p) = [m EXCEPT !.pos = p, !.held = h, !.picture = pic]
  BY Zenon DEF ReadTo
<1>2. ReadTo(m, p) = [of |-> m.of, pos |-> p, held |-> h, picture |-> pic]
  <2> HIDE DEF h, pic
  <2>1. QED
    BY <1>1
<1>3. QED
  BY <1>2, Zenon

FreshOf(m) == [ReadTo([m EXCEPT !.pos = FirstOf(m) - 1], FirstOf(m)) EXCEPT !.pos = FirstOf(m)]

(* With no delay a packet gives its own picture. *)
LEMMA DecodesOne ==
  ASSUME NEW m, IsMedium(m.of), m.pos \in 0 .. Len(m.of.packets), NextPacket(m) # {},
         m = [of |-> m.of, pos |-> m.pos, held |-> m.held, picture |-> m.picture]
  PROVE  /\ FreshOf(m).of = m.of /\ FreshOf(m).pos = FirstOf(m)
         /\ FreshOf(m) = [of |-> FreshOf(m).of, pos |-> FreshOf(m).pos,
                          held |-> FreshOf(m).held, picture |-> FreshOf(m).picture]
         /\ (m.of.delay = 0 /\ m.held = <<>>) =>
                /\ FreshOf(m).held = <<>>
                /\ m.of.packets[FirstOf(m)] = "video" =>
                       FreshOf(m).picture = PictureAt(m.of, FirstOf(m))
<1> DEFINE c == m.of
           at == FirstOf(m)
           fresh == FreshOf(m)
           given == [of |-> c, pos |-> at - 1, held |-> m.held, picture |-> m.picture]
           held == m.held \o Sent(c, at - 1, at)
           out == c.packets[at] = "video" /\ Len(held) > c.delay
<1> HIDE DEF fresh, held, out, given, at, c
<1>1. [m EXCEPT !.pos = at - 1] = given
  BY DEF given, c
<1>2. given = [of |-> given.of, pos |-> given.pos, held |-> given.held, picture |-> given.picture]
      /\ given.of = c /\ given.pos = at - 1 /\ given.held = m.held /\ given.picture = m.picture
  BY DEF given
<1>3. HeldWith(given, at) = held
  BY <1>2, Zenon DEF HeldWith, held
<1>4. ComesOut(given, at) <=> out
  BY <1>2, <1>3, Zenon DEF ComesOut, out
<1>5. fresh = [of |-> c, pos |-> at, held |-> IF out THEN Tail(held) ELSE held,
               picture |-> IF out THEN Head(held) ELSE m.picture]
  <2>1. fresh = [ReadTo(given, at) EXCEPT !.pos = at]
    BY <1>1, Zenon DEF FreshOf, fresh, at
  <2>2. ReadTo(given, at)
            = [of |-> given.of, pos |-> at,
               held |-> IF ComesOut(given, at) THEN Tail(HeldWith(given, at)) ELSE HeldWith(given, at),
               picture |-> IF ComesOut(given, at) THEN Head(HeldWith(given, at)) ELSE given.picture]
    BY <1>2, ReadToIs, Zenon
  <2> DEFINE h == IF out THEN Tail(held) ELSE held
             pic == IF out THEN Head(held) ELSE m.picture
  <2>3. ReadTo(given, at) = [of |-> c, pos |-> at, held |-> h, picture |-> pic]
    <3>1. CASE out
      <4>1. h = Tail(held) /\ pic = Head(held)
        BY <3>1, Zenon
      <4>2. QED
        BY <1>2, <1>3, <1>4, <2>2, <3>1, <4>1, Zenon
    <3>2. CASE ~out
      <4>1. h = held /\ pic = m.picture
        BY <3>2, Zenon
      <4>2. QED
        BY <1>2, <1>3, <1>4, <2>2, <3>2, <4>1, Zenon
    <3>3. QED
      BY <3>1, <3>2
  <2>4. fresh = [of |-> c, pos |-> at, held |-> h, picture |-> pic]
    <3> HIDE DEF h, pic
    <3>1. QED
      BY <2>1, <2>3
  <2>5. QED
    BY <2>4, Zenon
<1>6. /\ fresh.held = (IF out THEN Tail(held) ELSE held)
      /\ fresh.picture = (IF out THEN Head(held) ELSE m.picture)
      /\ fresh.of = c /\ fresh.pos = at
      /\ fresh = [of |-> fresh.of, pos |-> fresh.pos, held |-> fresh.held,
                  picture |-> fresh.picture]
  BY <1>5
<1>7. ASSUME c.delay = 0, m.held = <<>>
      PROVE  fresh.held = <<>> /\ (c.packets[at] = "video" => fresh.picture = PictureAt(c, at))
  <2>1. /\ PictureAt(c, at) = PictureAt(c, at - 1) + (IF c.packets[at] = "video" THEN 1 ELSE 0)
        /\ PictureAt(c, at - 1) \in Nat
    BY NextOne DEF c, at
  <2>2. CASE c.packets[at] = "video"
    <3>1. Sent(c, at - 1, at) = <<PictureAt(c, at)>>
      BY <2>1, <2>2 DEF Sent
    <3>2. held = <<PictureAt(c, at)>>
      BY <1>7, <3>1, NoneBefore DEF held
    <3>3. Len(held) = 1 /\ Tail(held) = <<>> /\ Head(held) = PictureAt(c, at)
      BY <3>2
    <3>4. out
      BY <1>7, <2>2, <3>3 DEF out
    <3>5. QED
      BY <1>6, <3>3, <3>4
  <2>3. CASE c.packets[at] # "video"
    <3>1. Sent(c, at - 1, at) = <<>>
      BY <2>1, <2>3 DEF Sent
    <3>2. held = <<>>
      BY <1>7, <3>1, NoneBefore DEF held
    <3>3. ~out
      BY <2>3 DEF out
    <3>4. QED
      BY <1>6, <2>3, <3>2, <3>3
  <2>4. QED
    BY <2>2, <2>3
<1>8. QED
  BY <1>6, <1>7, Zenon DEF fresh, c, at

(* Reading on to the end of the input. *)
LEMMA NothingLeft ==
  ASSUME NEW c, IsMedium(c), NEW n \in 0 .. Len(c.packets),
         \A p \in n + 1 .. Len(c.packets) : c.packets[p] = "audio"
  PROVE  /\ PictureAt(c, Len(c.packets)) = PictureAt(c, n)
         /\ StreamAt(c, Len(c.packets)) = StreamAt(c, n)
         /\ StreamAt(c, n) \in Nat
<1> DEFINE l == Len(c.packets)
<1>1. l \in Nat
  BY LenProperties DEF IsMedium
<1>2. n \in Nat /\ n <= l /\ l \in 0 .. l
  BY <1>1
<1>3. \A q \in n + 1 .. l : q \notin Pictures(c) /\ q \notin OfStream(c)
  BY DEF Pictures, OfStream
<1>4. PictureAt(c, n) = UpTo(Pictures(c), n) /\ StreamAt(c, n) = UpTo(OfStream(c), n)
  BY CountsOf
<1>5. PictureAt(c, l) = UpTo(Pictures(c), l) /\ StreamAt(c, l) = UpTo(OfStream(c), l)
  BY <1>2, CountsOf
<1> HIDE DEF l
<1>6. UpTo(Pictures(c), l) = UpTo(Pictures(c), n) /\ UpTo(OfStream(c), l) = UpTo(OfStream(c), n)
  BY <1>1, <1>2, <1>3, CountOver, Zenon
<1>7. UpTo(OfStream(c), n) \in Nat
  BY <1>2, CountUpTo
<1>8. QED
  BY <1>4, <1>5, <1>6, <1>7, Zenon DEF l

(* The numbers from one to k, and the next. *)
LEMMA AppendNext ==
  ASSUME NEW k \in Nat
  PROVE  Append([i \in 1 .. k |-> i], k + 1) = [i \in 1 .. k + 1 |-> i]
OBVIOUS

(* The picture that is read is the one its number says. *)
LEMMA GetStreamFrameKeeps ==
  ASSUME StreamIInv, GetStreamFrame
  PROVE  StreamIInv'
<1> DEFINE m == input[1]
           c == m.of
           next == NextPacket(m)
           at == FirstOf(m)
           fresh == FreshOf(m)
<1>1. /\ packets = <<>> /\ asked \in Nat /\ input # <<>> /\ input_is_open
      /\ InputOk(m, shown, asked)
  BY DEF StreamIInv, GetStreamFrame
<1>2. /\ IsMedium(c) /\ m.pos \in 0 .. Len(c.packets) /\ Len(c.packets) \in Nat
      /\ m = [of |-> c, pos |-> m.pos, held |-> m.held, picture |-> m.picture]
      /\ c.packets \in Seq({"audio", "video", "broken"})
      /\ c.delay = 0 =>
            /\ m.held = <<>>
            /\ shown = [i \in 1 .. PictureAt(c, m.pos) |-> i]
            /\ StreamAt(c, m.pos) <= asked
            /\ StreamAt(c, m.pos) < asked =>
                    \A p \in m.pos + 1 .. Len(c.packets) : c.packets[p] = "audio"
  <2>1. InputOk(m, shown, asked)!1 /\ InputOk(m, shown, asked)!2 /\ InputOk(m, shown, asked)!3
    BY <1>1, Zenon DEF InputOk
  <2>2. QED
    BY <2>1, LenProperties DEF IsMedium
<1>3. asked' = asked + 1 /\ input_is_open' = input_is_open
  BY DEF GetStreamFrame
<1>4. CASE next = {}
  <2>1. /\ input' = <<[m EXCEPT !.pos = Len(c.packets)]>> /\ packets' = packets /\ shown' = shown
    BY <1>1, <1>4 DEF GetStreamFrame
  <2> DEFINE n == [of |-> c, pos |-> Len(c.packets), held |-> m.held, picture |-> m.picture]
  <2>2. input' = <<n>> /\ input'[1] = n
    BY <1>2, <2>1
  <2>3. /\ PictureAt(c, Len(c.packets)) = PictureAt(c, m.pos)
        /\ StreamAt(c, Len(c.packets)) = StreamAt(c, m.pos)
        /\ StreamAt(c, m.pos) \in Nat
    <3>1. \A q \in m.pos + 1 .. Len(c.packets) : c.packets[q] = "audio"
      BY <1>4 DEF NextPacket
    <3>2. QED
      BY <1>2, <3>1, NothingLeft, Zenon
  <2>4. InputOk(n, shown, asked + 1)
    <3>1. n.of = c /\ n.pos = Len(c.packets) /\ n.held = m.held
          /\ n = [of |-> n.of, pos |-> n.pos, held |-> n.held, picture |-> n.picture]
      OBVIOUS
    <3>2. Len(c.packets) \in 0 .. Len(c.packets)
          /\ \A p \in Len(c.packets) + 1 .. Len(c.packets) : c.packets[p] = "audio"
      BY <1>2
    <3>3. StreamAt(c, m.pos) <= asked => StreamAt(c, Len(c.packets)) <= asked + 1
      BY <1>1, <2>3
    <3> HIDE DEF n
    <3>4. QED
      <4>1. n.of.delay = 0 => /\ n.held = <<>>
                              /\ shown = [i \in 1 .. PictureAt(n.of, n.pos) |-> i]
                              /\ StreamAt(n.of, n.pos) <= asked + 1
        BY <1>2, <2>3, <3>1, <3>3
      <4>2. IsMedium(n.of) /\ n.pos \in 0 .. Len(n.of.packets)
            /\ \A p \in n.pos + 1 .. Len(n.of.packets) : n.of.packets[p] = "audio"
        BY <1>2, <3>1, <3>2
      <4>3. QED
        BY <3>1, <4>1, <4>2, Zenon DEF InputOk
  <2>5. QED
    BY <1>1, <1>3, <2>1, <2>2, <2>4 DEF StreamIInv
<1>5. CASE next # {}
  <2> DEFINE decoded == c.packets[at] # "broken"
  <2>1. /\ input' = <<fresh>> /\ packets' = Tail(<<at>>)
        /\ shown' = IF decoded THEN Append(shown, fresh.picture) ELSE shown
    BY <1>1, <1>5 DEF GetStreamFrame, Dropped, FirstOf, FreshOf
  <2>2. /\ at \in m.pos + 1 .. Len(c.packets) /\ c.packets[at] # "audio"
        /\ StreamAt(c, at) = StreamAt(c, m.pos) + 1
        /\ PictureAt(c, at) = PictureAt(c, m.pos) + (IF c.packets[at] = "video" THEN 1 ELSE 0)
        /\ PictureAt(c, m.pos) \in Nat
    BY <1>2, <1>5, NextOne, Zenon
  <2>3. /\ fresh.of = c /\ fresh.pos = at
        /\ fresh = [of |-> fresh.of, pos |-> fresh.pos, held |-> fresh.held,
                    picture |-> fresh.picture]
        /\ (c.delay = 0 /\ m.held = <<>>) =>
               /\ fresh.held = <<>>
               /\ c.packets[at] = "video" => fresh.picture = PictureAt(c, at)
    BY <1>2, <1>5, DecodesOne, Zenon
  <2> HIDE DEF fresh
  <2>4. at \in 0 .. Len(c.packets) /\ c.packets[at] \in {"audio", "video", "broken"}
    BY <1>2, <2>2, ElementOfSeq
  <2>5. ASSUME c.delay = 0
        PROVE  /\ shown' = [i \in 1 .. PictureAt(c, at) |-> i]
               /\ StreamAt(c, at) = asked + 1
    <3>1. StreamAt(c, m.pos) = asked
      <4>1. ~ \A p \in m.pos + 1 .. Len(c.packets) : c.packets[p] = "audio"
        BY <2>2
      <4>2. StreamAt(c, m.pos) \in Nat
        BY <1>2, StreamCounts
      <4>3. QED
        BY <1>1, <1>2, <2>5, <4>1, <4>2
    <3>2. CASE c.packets[at] = "video"
      <4>1. shown' = Append([i \in 1 .. PictureAt(c, m.pos) |-> i], PictureAt(c, m.pos) + 1)
        BY <1>2, <2>1, <2>2, <2>3, <2>5, <3>2
      <4>2. QED
        BY <2>2, <3>1, <3>2, <4>1, AppendNext
    <3>3. CASE c.packets[at] # "video"
      BY <1>2, <2>1, <2>2, <2>4, <2>5, <3>1, <3>3
    <3>4. QED
      BY <3>2, <3>3
  <2>6. InputOk(fresh, shown', asked + 1)
    <3>1. StreamAt(c, at) = asked + 1 => (StreamAt(c, at) <= asked + 1 /\ ~(StreamAt(c, at) < asked + 1))
      BY <1>1
    <3>2. QED
      BY <1>2, <2>3, <2>4, <2>5, <3>1, Zenon DEF InputOk
  <2>7. QED
    <3>1. input'[1] = fresh /\ input' = <<fresh>> /\ packets' = <<>>
      BY <2>1
    <3>2. QED
      BY <1>1, <1>3, <2>6, <3>1 DEF StreamIInv
<1>6. QED
  BY <1>4, <1>5

(* Every step keeps the invariant. *)
LEMMA StreamSteps ==
  ASSUME StreamIInv, [StreamNext]_streamVars
  PROVE  StreamIInv'
<1>1. CASE UNCHANGED streamVars
  BY <1>1 DEF StreamIInv, streamVars
<1>2. CASE StreamNext
  BY <1>2, OpenInputKeeps, CloseInputKeeps, GetStreamFrameKeeps DEF StreamNext
<1>3. QED
  BY <1>1, <1>2

(* It holds in every state. *)
LEMMA StreamInvariant == StreamSpec => []StreamIInv
<1>1. StreamInit => StreamIInv
  BY StreamStarts
<1>2. StreamIInv /\ [StreamNext]_streamVars => StreamIInv'
  BY StreamSteps
<1>3. QED
  BY <1>1, <1>2, PTL DEF StreamSpec

(* The pictures were shown in their order. *)
LEMMA StreamShown ==
  ASSUME StreamIInv
  PROVE  StreamInOrder
<1> SUFFICES ASSUME input # <<>>, input[1].of.delay = 0
             PROVE  shown = [i \in 1 .. Cardinality(Among(input[1].of, asked)) |-> i]
  BY DEF StreamInOrder
<1> DEFINE m == input[1]
           c == m.of
<1>1. /\ IsMedium(c) /\ m.pos \in 0 .. Len(c.packets)
      /\ shown = [i \in 1 .. PictureAt(c, m.pos) |-> i]
      /\ StreamAt(c, m.pos) <= asked
      /\ StreamAt(c, m.pos) < asked =>
              \A p \in m.pos + 1 .. Len(c.packets) : c.packets[p] = "audio"
  BY DEF StreamIInv, InputOk
<1> HIDE DEF m
<1>2. /\ Len(c.packets) \in Nat /\ DOMAIN c.packets = 1 .. Len(c.packets) /\ asked \in Nat
      /\ m.pos \in Nat
  BY <1>1, LenProperties DEF IsMedium, StreamIInv
<1>3. ASSUME NEW p \in 1 .. Len(c.packets), c.packets[p] = "video"
      PROVE  StreamAt(c, p) <= asked <=> p <= m.pos
  <2>1. p \in 0 .. Len(c.packets) /\ StreamAt(c, p) \in Nat /\ StreamAt(c, m.pos) \in Nat
    BY <1>1, <1>2, StreamCounts
  <2>2. CASE p <= m.pos
    <3>1. StreamAt(c, p) <= StreamAt(c, m.pos)
      BY <1>1, <1>2, <2>2, StreamCounts
    <3>2. QED
      BY <1>1, <1>2, <2>1, <2>2, <3>1
  <2>3. CASE p > m.pos
    <3>1. p \in m.pos + 1 .. Len(c.packets) /\ p - 1 \in 0 .. Len(c.packets) /\ m.pos <= p - 1
      BY <1>2, <2>3
    <3>2. StreamAt(c, m.pos) = asked
      BY <1>1, <1>2, <1>3, <2>1, <3>1
    <3>3. StreamAt(c, m.pos) <= StreamAt(c, p - 1) /\ StreamAt(c, p) = StreamAt(c, p - 1) + 1
          /\ StreamAt(c, p - 1) \in Nat
      BY <1>1, <1>2, <1>3, <2>1, <3>1, StreamCounts
    <3>4. QED
      BY <2>1, <2>3, <3>1, <3>2, <3>3, <1>2
  <2>4. QED
    BY <1>2, <2>2, <2>3
<1>4. Among(c, asked) = {q \in 1 .. m.pos : c.packets[q] = "video"}
  <2>1. Among(c, asked) = {p \in 1 .. Len(c.packets) : c.packets[p] = "video" /\ StreamAt(c, p) <= asked}
    BY <1>2 DEF Among, StreamAt
  <2>2. \A p \in 1 .. Len(c.packets) : p <= m.pos <=> p \in 1 .. m.pos
    BY <1>2
  <2>3. \A p \in 1 .. m.pos : p \in 1 .. Len(c.packets)
    BY <1>1, <1>2
  <2>4. QED
    BY <1>3, <2>1, <2>2, <2>3
<1>5. Cardinality(Among(c, asked)) = PictureAt(c, m.pos)
  BY <1>4, Zenon DEF PictureAt
<1>6. QED
  BY <1>1, <1>5, Zenon DEF m

(* The pictures of a stream without decoder delay are shown in their order,   *)
(* each once, whatever cannot be decoded and however often it is opened.      *)
THEOREM StreamsAreInOrder == StreamSpec => []StreamInOrder
<1>1. StreamIInv => StreamInOrder
  BY StreamShown
<1>2. QED
  BY <1>1, StreamInvariant, PTL

-----------------------------------------------------------------------------
(*                                 Readers                                 *)

(* The numbers after a, up to b. *)
Numbers(a, b) == [i \in 1 .. b - a |-> a + i]

(* A movie of which the number of pictures is known counts them: those the     *)
(* decoder still has are the next ones, up to the packet that was read last.   *)
MovieOk(m, exact) ==
    /\ \E v \in DOMAIN VIDEOS : m.of = VIDEOS[v]
    /\ m = [of |-> m.of, pos |-> m.pos, held |-> m.held, picture |-> m.picture,
            number_of_frames |-> m.number_of_frames, eof |-> m.eof, data |-> m.data]
    /\ (exact /\ ~m.eof) =>
            /\ m.pos \in 0 .. Len(m.of.packets)
            /\ m.number_of_frames \in 0 .. PictureAt(m.of, m.pos)
            /\ m.held = Numbers(m.number_of_frames, PictureAt(m.of, m.pos))

ReaderIInv ==
    /\ movie # <<>> => movie = <<movie[1]>> /\ MovieOk(movie[1], number_exact)
    /\ (movie # <<>> \/ cv_movie # <<>>) =>
            /\ photos = <<>>
            /\ cur_frame = <<[size |-> cur_frame[1].size, luma |-> cur_frame[1].luma,
                              chroma |-> cur_frame[1].chroma]>>
    /\ photos # <<>> =>
            /\ Len(photos) \in Nat /\ next_photo \in 1 .. Len(photos) + 1
            /\ cur_frame_num = next_photo - 1
    /\ FrameIsTheOneCounted
-----------------------------------------------------------------------------
(* A record of a film with its fields. *)
IsMovie(m) ==
    m = [of |-> m.of, pos |-> m.pos, held |-> m.held, picture |-> m.picture,
         number_of_frames |-> m.number_of_frames, eof |-> m.eof, data |-> m.data]

(* What a film, after it was read up to packet p, holds. *)
MovieAt(m, p) ==
    [of |-> m.of, pos |-> p,
     held |-> IF ComesOut(m, p) THEN Tail(HeldWith(m, p)) ELSE HeldWith(m, p),
     picture |-> IF ComesOut(m, p) THEN Head(HeldWith(m, p)) ELSE m.picture,
     number_of_frames |-> m.number_of_frames, eof |-> m.eof, data |-> m.data]

(* Reading up to a packet is a change of these fields, ... *)
LEMMA MovieReadTo ==
  ASSUME NEW m, NEW p,
         m = [of |-> m.of, pos |-> m.pos, held |-> m.held, picture |-> m.picture,
              number_of_frames |-> m.number_of_frames, eof |-> m.eof, data |-> m.data]
  PROVE  ReadTo(m, p) = MovieAt(m, p)
<1> DEFINE h == IF ComesOut(m, p) THEN Tail(HeldWith(m, p)) ELSE HeldWith(m, p)
           pic == IF ComesOut(m, p) THEN Head(HeldWith(m, p)) ELSE m.picture
<1>1. ReadTo(m, p) = [m EXCEPT !.pos = p, !.held = h, !.picture = pic]
  BY Zenon DEF ReadTo
<1>2. ReadTo(m, p) = [of |-> m.of, pos |-> p, held |-> h, picture |-> pic,
                      number_of_frames |-> m.number_of_frames, eof |-> m.eof, data |-> m.data]
  <2> HIDE DEF h, pic
  <2>1. QED
    BY <1>1
<1>3. QED
  BY <1>2, Zenon DEF MovieAt

(* ... with these values. *)
LEMMA MovieAtFields ==
  ASSUME NEW m, NEW p
  PROVE  /\ MovieAt(m, p).of = m.of /\ MovieAt(m, p).pos = p
         /\ MovieAt(m, p).number_of_frames = m.number_of_frames
         /\ MovieAt(m, p).eof = m.eof /\ MovieAt(m, p).data = m.data
         /\ MovieAt(m, p).held = (IF ComesOut(m, p) THEN Tail(HeldWith(m, p)) ELSE HeldWith(m, p))
         /\ MovieAt(m, p).picture = (IF ComesOut(m, p) THEN Head(HeldWith(m, p)) ELSE m.picture)
         /\ IsMovie(MovieAt(m, p))
<1> DEFINE h == IF ComesOut(m, p) THEN Tail(HeldWith(m, p)) ELSE HeldWith(m, p)
           pic == IF ComesOut(m, p) THEN Head(HeldWith(m, p)) ELSE m.picture
<1>1. MovieAt(m, p) = [of |-> m.of, pos |-> p, held |-> h, picture |-> pic,
                       number_of_frames |-> m.number_of_frames, eof |-> m.eof, data |-> m.data]
  BY Zenon DEF MovieAt
<1> HIDE DEF h, pic
<1>2. /\ MovieAt(m, p).of = m.of /\ MovieAt(m, p).pos = p
      /\ MovieAt(m, p).number_of_frames = m.number_of_frames
      /\ MovieAt(m, p).eof = m.eof /\ MovieAt(m, p).data = m.data
      /\ MovieAt(m, p).held = h
      /\ MovieAt(m, p).picture = pic
  BY <1>1
<1>3. IsMovie(MovieAt(m, p))
  BY <1>1, <1>2, Zenon DEF IsMovie
<1>4. QED
  BY <1>2, <1>3, Zenon DEF h, pic

(* The numbers of two stretches are those of both together. *)
LEMMA Counting ==
  ASSUME NEW n \in Nat, NEW a \in Nat, NEW b \in Nat, n <= a, a <= b
  PROVE  /\ Numbers(n, a) \o Numbers(a, b) = Numbers(n, b)
         /\ Len(Numbers(n, b)) = b - n
         /\ b > n => Head(Numbers(n, b)) = n + 1 /\ Tail(Numbers(n, b)) = Numbers(n + 1, b)
<1> DEFINE h == Numbers(n, a)
           s == Numbers(a, b)
           z == Numbers(n, b)
<1>1. /\ Len(h) = a - n /\ Len(s) = b - a /\ h \in Seq(Nat) /\ s \in Seq(Nat)
      /\ \A i \in 1 .. a - n : h[i] = n + i
      /\ \A i \in 1 .. b - a : s[i] = a + i
  BY DEF Numbers
<1>2. /\ Len(z) = b - n /\ z \in Seq(Nat) /\ z = [i \in 1 .. b - n |-> n + i]
  BY DEF Numbers
<1> HIDE DEF h, s, z
<1>3. h \o s = z
  <2> DEFINE x == h \o s
  <2>1. /\ x \in Seq(Nat) /\ Len(x) = Len(h) + Len(s)
        /\ \A i \in 1 .. Len(h) + Len(s) : x[i] = IF i <= Len(h) THEN h[i] ELSE s[i - Len(h)]
    BY <1>1, ConcatProperties
  <2> HIDE DEF x
  <2>2. ASSUME NEW i \in 1 .. b - n
        PROVE  x[i] = n + i
    <3>1. i \in 1 .. Len(h) + Len(s)
      BY <1>1
    <3>2. x[i] = IF i <= Len(h) THEN h[i] ELSE s[i - Len(h)]
      BY <2>1, <3>1
    <3>3. CASE i <= a - n
      <4>1. i \in 1 .. a - n
        BY <3>3
      <4>2. QED
        BY <1>1, <3>2, <3>3, <4>1
    <3>4. CASE i > a - n
      <4>1. i - (a - n) \in 1 .. b - a /\ ~(i <= a - n)
        BY <3>4
      <4>2. x[i] = s[i - (a - n)] /\ s[i - (a - n)] = a + (i - (a - n))
        BY <1>1, <3>2, <4>1
      <4>3. QED
        BY <4>2
    <3>5. QED
      BY <3>3, <3>4
  <2>3. Len(x) = b - n
    BY <1>1, <2>1
  <2>4. x = z
    BY <1>2, <2>1, <2>2, <2>3, SeqEqual
  <2>5. QED
    BY <2>4 DEF x
<1>4. ASSUME b > n
      PROVE  Head(z) = n + 1 /\ Tail(z) = Numbers(n + 1, b)
  <2>1. z # <<>>
    BY <1>2, <1>4
  <2>2. Head(z) = z[1] /\ z[1] = n + 1
    BY <1>2, <1>4
  <2> DEFINE x == Tail(z)
             y == Numbers(n + 1, b)
  <2>3. /\ x \in Seq(Nat) /\ Len(x) = Len(z) - 1
        /\ \A i \in 1 .. Len(x) : x[i] = z[i + 1]
    BY <1>2, <2>1, HeadTailProperties
  <2>4. y \in Seq(Nat) /\ Len(y) = b - (n + 1) /\ \A i \in 1 .. b - (n + 1) : y[i] = n + 1 + i
    BY <1>4 DEF Numbers
  <2> HIDE DEF x, y
  <2>5. Len(x) = Len(y) /\ Len(x) = b - (n + 1)
    BY <1>2, <2>3, <2>4
  <2>6. ASSUME NEW i \in 1 .. Len(x) PROVE x[i] = y[i]
    <3>1. i + 1 \in 1 .. b - n /\ i \in 1 .. b - (n + 1)
      BY <1>2, <2>3, <2>5
    <3>2. x[i] = z[i + 1]
      BY <2>3
    <3>3. z[i + 1] = n + (i + 1)
      BY <1>2, <3>1
    <3>4. y[i] = n + 1 + i
      BY <2>4, <3>1
    <3>5. QED
      BY <3>1, <3>2, <3>3, <3>4
  <2>7. x = y
    BY <2>3, <2>4, <2>5, <2>6, SeqEqual
  <2>8. QED
    BY <2>2, <2>7 DEF x, y
<1>5. QED
  BY <1>2, <1>3, <1>4 DEF h, s, z

(* The number of pictures grows by one or not at all with a packet. *)
LEMMA PictureCounts ==
  ASSUME NEW c, IsMedium(c), NEW p \in 0 .. Len(c.packets)
  PROVE  /\ PictureAt(c, p) \in Nat
         /\ \A n \in 0 .. p : PictureAt(c, n) <= PictureAt(c, p)
         /\ p > 0 => PictureAt(c, p) \in {PictureAt(c, p - 1), PictureAt(c, p - 1) + 1}
         /\ PictureAt(c, 0) = 0
<1>1. Len(c.packets) \in Nat /\ p \in Nat
  BY LenProperties DEF IsMedium
<1>2. \A n \in 0 .. p : n \in 0 .. Len(c.packets)
  BY <1>1
<1>3. \A n \in 0 .. p : PictureAt(c, n) = UpTo(Pictures(c), n)
  BY <1>2, CountsOf
<1>4. p \in 0 .. p /\ 0 \in 0 .. p /\ (p > 0 => p - 1 \in 0 .. p)
  BY <1>1
<1>5. /\ UpTo(Pictures(c), p) \in Nat
      /\ p > 0 => UpTo(Pictures(c), p)
                    = UpTo(Pictures(c), p - 1) + (IF p \in Pictures(c) THEN 1 ELSE 0)
      /\ \A n \in 0 .. p : UpTo(Pictures(c), n) <= UpTo(Pictures(c), p)
      /\ UpTo(Pictures(c), 0) = 0
  BY <1>1, CountUpTo, Zenon
<1>6. p > 0 => PictureAt(c, p) \in {PictureAt(c, p - 1), PictureAt(c, p - 1) + 1}
  <2>1. p > 0 => UpTo(Pictures(c), p - 1) \in Nat
    BY <1>1, CountUpTo
  <2>2. QED
    BY <1>3, <1>4, <1>5, <2>1
<1>7. QED
  BY <1>3, <1>4, <1>5, <1>6, Zenon

(* A film of which the number is known, after packet p: it holds the pictures  *)
(* up to p, without the one that came out, which is the next one.              *)
LEMMA ReadsOn ==
  ASSUME NEW m, IsMedium(m.of), m.pos \in 0 .. Len(m.of.packets),
         m.number_of_frames \in 0 .. PictureAt(m.of, m.pos),
         m.held = Numbers(m.number_of_frames, PictureAt(m.of, m.pos)),
         NEW p \in m.pos .. Len(m.of.packets)
  PROVE  /\ p \in 0 .. Len(m.of.packets)
         /\ m.number_of_frames \in 0 .. PictureAt(m.of, p)
         /\ HeldWith(m, p) = Numbers(m.number_of_frames, PictureAt(m.of, p))
         /\ ComesOut(m, p) =>
                /\ m.number_of_frames + 1 \in 0 .. PictureAt(m.of, p)
                /\ Head(HeldWith(m, p)) = m.number_of_frames + 1
                /\ Tail(HeldWith(m, p)) = Numbers(m.number_of_frames + 1, PictureAt(m.of, p))
<1> DEFINE c == m.of
           n == m.number_of_frames
           a == PictureAt(c, m.pos)
           b == PictureAt(c, p)
<1>1. Len(c.packets) \in Nat /\ m.pos \in Nat /\ p \in 0 .. Len(c.packets) /\ m.pos \in 0 .. p
  BY LenProperties DEF IsMedium
<1>2. a \in Nat /\ b \in Nat /\ a <= b
  BY <1>1, PictureCounts
<1>3. HeldWith(m, p) = Numbers(n, a) \o Numbers(a, b)
  BY Zenon DEF HeldWith, Sent, Numbers
<1>5. n \in Nat /\ n <= a
  BY <1>2
<1>6. c.delay \in Nat
  BY DEF IsMedium
<1>7. ComesOut(m, p) => Len(HeldWith(m, p)) > c.delay
  BY Zenon DEF ComesOut
<1> HIDE DEF c, n, a, b
<1>8. /\ HeldWith(m, p) = Numbers(n, b)
      /\ Len(Numbers(n, b)) = b - n
      /\ b > n => Head(Numbers(n, b)) = n + 1 /\ Tail(Numbers(n, b)) = Numbers(n + 1, b)
  BY <1>2, <1>3, <1>5, Counting, Zenon
<1>9. ComesOut(m, p) => b > n
  <2>1. (b - n > c.delay) => b > n
    BY <1>2, <1>5, <1>6
  <2>2. QED
    BY <1>7, <1>8, <2>1, Zenon
<1>10. n \in 0 .. b /\ (b > n => n + 1 \in 0 .. b)
  BY <1>2, <1>5
<1>11. QED
  BY <1>1, <1>8, <1>9, <1>10, Zenon DEF c, n, a, b
-----------------------------------------------------------------------------
(* The film of a reader is one of those there are. *)
LEMMA OfVideos ==
  ASSUME NEW m, NEW exact, MovieOk(m, exact)
  PROVE  /\ IsMedium(m.of)
         /\ \A key \in m.of.keys :
                key \in Nat /\ \E p \in DOMAIN m.of.packets : PictureAt(m.of, p) = key + 1
BY ReaderAssumption DEF MovieOk

(* What matters of a film: which it is, and, while the number is exact, that   *)
(* it holds the pictures that follow.                                          *)
Counts(m) ==
    /\ m.pos \in 0 .. Len(m.of.packets)
    /\ m.number_of_frames \in 0 .. PictureAt(m.of, m.pos)
    /\ m.held = Numbers(m.number_of_frames, PictureAt(m.of, m.pos))

(* What is said of a film, in parts. *)
LEMMA MovieOkIs ==
  ASSUME NEW m, NEW exact
  PROVE  MovieOk(m, exact) <=> /\ \E v \in DOMAIN VIDEOS : m.of = VIDEOS[v]
                               /\ IsMovie(m)
                               /\ (exact /\ ~m.eof) => Counts(m)
BY Zenon DEF MovieOk, IsMovie, Counts

(* What get_frame() changes in it, besides. *)
AtEnd(m) == [m EXCEPT !.eof = TRUE]
Counted(m) == [m EXCEPT !.number_of_frames = @ + 1]
Filled(m, d) == [m EXCEPT !.data = d]
Placed(m, q, f) == [[m EXCEPT !.pos = q] EXCEPT !.number_of_frames = f]

(* At its end a film is still the same one. *)
LEMMA AtEndIs ==
  ASSUME NEW m, IsMovie(m)
  PROVE  /\ IsMovie(AtEnd(m))
         /\ AtEnd(m).of = m.of /\ AtEnd(m).eof = TRUE
<1> DEFINE a1 == m.of
           a2 == m.pos
           a3 == m.held
           a4 == m.picture
           a5 == m.number_of_frames
           a6 == m.eof
           a7 == m.data
           ended == TRUE
<1> HIDE DEF ended, a1, a2, a3, a4, a5, a6, a7
<1>1. m = [of |-> a1, pos |-> a2, held |-> a3, picture |-> a4, number_of_frames |-> a5, eof |-> a6, data |-> a7]
  BY Zenon DEF IsMovie, a1, a2, a3, a4, a5, a6, a7
<1>2. [m EXCEPT !.eof = ended] = [of |-> a1, pos |-> a2, held |-> a3, picture |-> a4, number_of_frames |-> a5, eof |-> ended, data |-> a7]
  BY <1>1
<1>3. AtEnd(m) = [of |-> a1, pos |-> a2, held |-> a3, picture |-> a4, number_of_frames |-> a5, eof |-> ended, data |-> a7]
  BY <1>2, Zenon DEF AtEnd, ended
<1>4. QED
  BY <1>3 DEF ended, IsMovie, a1, a2, a3, a4, a5, a6, a7

(* Counting a frame changes the count only. *)
LEMMA CountedIs ==
  ASSUME NEW m, IsMovie(m)
  PROVE  /\ IsMovie(Counted(m))
         /\ Counted(m).of = m.of /\ Counted(m).eof = m.eof
         /\ Counted(m).pos = m.pos /\ Counted(m).held = m.held /\ Counted(m).picture = m.picture
         /\ Counted(m).number_of_frames = m.number_of_frames + 1
<1> DEFINE a1 == m.of
           a2 == m.pos
           a3 == m.held
           a4 == m.picture
           a5 == m.number_of_frames
           a6 == m.eof
           a7 == m.data
<1> HIDE DEF a1, a2, a3, a4, a5, a6, a7
<1>1. m = [of |-> a1, pos |-> a2, held |-> a3, picture |-> a4, number_of_frames |-> a5, eof |-> a6, data |-> a7]
  BY Zenon DEF IsMovie, a1, a2, a3, a4, a5, a6, a7
<1>2. [m EXCEPT !.number_of_frames = a5 + 1] = [of |-> a1, pos |-> a2, held |-> a3, picture |-> a4, number_of_frames |-> a5 + 1, eof |-> a6, data |-> a7]
  BY <1>1
<1>3. Counted(m) = [of |-> a1, pos |-> a2, held |-> a3, picture |-> a4, number_of_frames |-> a5 + 1, eof |-> a6, data |-> a7]
  BY <1>2, Zenon DEF Counted, a5
<1>4. QED
  BY <1>3 DEF IsMovie, a1, a2, a3, a4, a5, a6, a7

(* Filling the data changes the data only. *)
LEMMA FilledIs ==
  ASSUME NEW m, IsMovie(m), NEW d
  PROVE  /\ IsMovie(Filled(m, d))
         /\ Filled(m, d).of = m.of /\ Filled(m, d).eof = m.eof
         /\ Filled(m, d).pos = m.pos /\ Filled(m, d).held = m.held
         /\ Filled(m, d).picture = m.picture
         /\ Filled(m, d).number_of_frames = m.number_of_frames /\ Filled(m, d).data = d
<1> DEFINE a1 == m.of
           a2 == m.pos
           a3 == m.held
           a4 == m.picture
           a5 == m.number_of_frames
           a6 == m.eof
           a7 == m.data
<1> HIDE DEF a1, a2, a3, a4, a5, a6, a7
<1>1. m = [of |-> a1, pos |-> a2, held |-> a3, picture |-> a4, number_of_frames |-> a5, eof |-> a6, data |-> a7]
  BY Zenon DEF IsMovie, a1, a2, a3, a4, a5, a6, a7
<1>2. [m EXCEPT !.data = d] = [of |-> a1, pos |-> a2, held |-> a3, picture |-> a4, number_of_frames |-> a5, eof |-> a6, data |-> d]
  BY <1>1
<1>3. Filled(m, d) = [of |-> a1, pos |-> a2, held |-> a3, picture |-> a4, number_of_frames |-> a5, eof |-> a6, data |-> d]
  BY <1>2, Zenon DEF Filled
<1>4. QED
  BY <1>3 DEF IsMovie, a1, a2, a3, a4, a5, a6, a7

(* Placing a film changes the place and the count only. *)
LEMMA PlacedIs ==
  ASSUME NEW m, IsMovie(m), NEW q, NEW f
  PROVE  /\ IsMovie(Placed(m, q, f))
         /\ Placed(m, q, f).of = m.of /\ Placed(m, q, f).eof = m.eof
         /\ Placed(m, q, f).pos = q /\ Placed(m, q, f).held = m.held
         /\ Placed(m, q, f).number_of_frames = f
<1> DEFINE a1 == m.of
           a2 == m.pos
           a3 == m.held
           a4 == m.picture
           a5 == m.number_of_frames
           a6 == m.eof
           a7 == m.data
<1> HIDE DEF a1, a2, a3, a4, a5, a6, a7
<1>1. m = [of |-> a1, pos |-> a2, held |-> a3, picture |-> a4, number_of_frames |-> a5, eof |-> a6, data |-> a7]
  BY Zenon DEF IsMovie, a1, a2, a3, a4, a5, a6, a7
<1>2. [m EXCEPT !.pos = q] = [of |-> a1, pos |-> q, held |-> a3, picture |-> a4, number_of_frames |-> a5, eof |-> a6, data |-> a7]
  BY <1>1
<1> DEFINE z == [m EXCEPT !.pos = q]
<1>3. [z EXCEPT !.number_of_frames = f] = [of |-> a1, pos |-> q, held |-> a3, picture |-> a4, number_of_frames |-> f, eof |-> a6, data |-> a7]
  <2> HIDE DEF z
  <2>1. z = [of |-> a1, pos |-> q, held |-> a3, picture |-> a4, number_of_frames |-> a5, eof |-> a6, data |-> a7]
    BY <1>2 DEF z
  <2>2. QED
    BY <2>1
<1>4. Placed(m, q, f) = [of |-> a1, pos |-> q, held |-> a3, picture |-> a4, number_of_frames |-> f, eof |-> a6, data |-> a7]
  BY <1>3, Zenon DEF Placed
<1>5. QED
  BY <1>4 DEF IsMovie, a1, a2, a3, a4, a5, a6, a7

(* One frame is read: the number counts it, and what is held follows it.       *)
LEMMA ReadFrameKeeps ==
  ASSUME NEW m, NEW exact, MovieOk(m, exact)
  PROVE  /\ MovieOk(ReadFrame(m), exact)
         /\ ReadFrame(m).of = m.of
         /\ (exact /\ ~ReadFrame(m).eof /\ ~Refused(m)) =>
                ReadFrame(m).picture = ReadFrame(m).number_of_frames
<1> DEFINE p == Min(Yields(m))
           read == MovieAt(m, p)
           all == MovieAt(m, Len(m.of.packets))
<1> HIDE DEF p, read, all
<1>1. /\ \E v \in DOMAIN VIDEOS : m.of = VIDEOS[v]
      /\ IsMovie(m)
      /\ (exact /\ ~m.eof) => Counts(m)
  BY MovieOkIs
<1>2. IsMedium(m.of)
  BY OfVideos
<1>3. ReadTo(m, p) = read /\ ReadTo(m, Len(m.of.packets)) = all
  BY <1>1, MovieReadTo, Zenon DEF IsMovie, read, all
<1>4. ReadFrame(m) = IF Yields(m) = {} THEN AtEnd(all)
                     ELSE IF m.of.packets[read.pos] = "broken" THEN read
                     ELSE Counted(read)
  BY <1>3, Zenon DEF ReadFrame, p, AtEnd, Counted
<1>5. /\ IsMovie(all) /\ all.of = m.of /\ IsMovie(read) /\ read.of = m.of /\ read.eof = m.eof
      /\ read.pos = p /\ read.number_of_frames = m.number_of_frames
      /\ read.held = (IF ComesOut(m, p) THEN Tail(HeldWith(m, p)) ELSE HeldWith(m, p))
      /\ read.picture = (IF ComesOut(m, p) THEN Head(HeldWith(m, p)) ELSE m.picture)
  <2>1. IsMovie(all) /\ all.of = m.of
    BY MovieAtFields, Zenon DEF all
  <2>2. IsMovie(read)
    BY MovieAtFields, Zenon DEF read
  <2>3. QED
    BY MovieAtFields, <2>1, <2>2, Zenon DEF read
<1>6. CASE Yields(m) = {}
  <2> DEFINE x == AtEnd(all)
  <2>1. IsMovie(x) /\ x.of = all.of /\ x.eof = TRUE
    BY <1>5, AtEndIs, Zenon
  <2>2. ReadFrame(m) = x
    BY <1>4, <1>6, Zenon
  <2> HIDE DEF x
  <2>3. QED
    BY <1>1, <1>5, <2>1, <2>2, MovieOkIs
<1>7. CASE Yields(m) # {}
  <2>1. ASSUME exact, ~m.eof
        PROVE  p \in Yields(m) /\ p \in m.pos + 1 .. Len(m.of.packets) /\ p \in m.pos .. Len(m.of.packets)
               /\ (m.of.packets[p] = "broken" \/ ComesOut(m, p))
    <3>1. m.pos \in Nat /\ Len(m.of.packets) \in Nat
      BY <1>1, <1>2, <2>1, LenProperties DEF Counts, IsMedium
    <3>2. Yields(m) \in SUBSET Nat
      BY <3>1 DEF Yields
    <3>3. p \in Yields(m)
      BY <1>7, <3>2, SmallestOf DEF p
    <3>4. p \in m.pos + 1 .. Len(m.of.packets) /\ (m.of.packets[p] = "broken" \/ ComesOut(m, p))
      BY <3>3, Zenon DEF Yields
    <3>5. QED
      BY <3>1, <3>3, <3>4
  <2>2. ASSUME exact, ~m.eof
        PROVE  /\ p \in 0 .. Len(m.of.packets)
               /\ m.number_of_frames \in 0 .. PictureAt(m.of, p)
               /\ HeldWith(m, p) = Numbers(m.number_of_frames, PictureAt(m.of, p))
               /\ ComesOut(m, p) =>
                      /\ m.number_of_frames + 1 \in 0 .. PictureAt(m.of, p)
                      /\ Head(HeldWith(m, p)) = m.number_of_frames + 1
                      /\ Tail(HeldWith(m, p)) = Numbers(m.number_of_frames + 1, PictureAt(m.of, p))
    BY <1>1, <1>2, <2>1, <2>2, ReadsOn, Zenon DEF Counts
  <2>3. CASE m.of.packets[p] = "broken"
    <3>1. ReadFrame(m) = read
      BY <1>4, <1>5, <1>7, <2>3, Zenon
    <3>2. ~ComesOut(m, p)
      BY <2>3 DEF ComesOut
    <3>3. (exact /\ ~m.eof) => Counts(read)
      BY <1>5, <2>2, <3>2, Zenon DEF Counts
    <3>4. MovieOk(read, exact)
      BY <1>1, <1>5, <3>3, MovieOkIs, Zenon
    <3>5. (exact /\ ~m.eof) => Refused(m)
      <4>1. ASSUME exact, ~m.eof PROVE p > 0
        BY <1>1, <2>1, <4>1 DEF Counts
      <4>2. QED
        BY <1>5, <1>7, <2>3, <3>1, <4>1, Zenon DEF Refused
    <3>6. QED
      BY <1>5, <3>1, <3>4, <3>5, Zenon
  <2>4. CASE m.of.packets[p] # "broken"
    <3> DEFINE x == Counted(read)
    <3>1. ReadFrame(m) = x
      BY <1>4, <1>5, <1>7, <2>4, Zenon
    <3>2. /\ IsMovie(x) /\ x.of = read.of /\ x.eof = read.eof /\ x.pos = read.pos /\ x.held = read.held
          /\ x.picture = read.picture /\ x.number_of_frames = read.number_of_frames + 1
      BY <1>5, CountedIs, Zenon
    <3> HIDE DEF x
    <3>3. (exact /\ ~m.eof) => Counts(x) /\ x.picture = x.number_of_frames
      BY <1>5, <2>1, <2>2, <2>4, <3>2, Zenon DEF Counts
    <3>4. MovieOk(x, exact)
      BY <1>1, <1>5, <3>2, <3>3, MovieOkIs, Zenon
    <3>5. QED
      BY <1>5, <3>1, <3>2, <3>3, <3>4, Zenon
  <2>5. QED
    BY <2>3, <2>4
<1>8. QED
  BY <1>6, <1>7

(* A frame is copied only when it was read. *)
LEMMA GetFrameKeeps ==
  ASSUME NEW m, NEW exact, MovieOk(m, exact)
  PROVE  /\ MovieOk(GetFrame(m), exact)
         /\ GetFrame(m).of = m.of
         /\ (exact /\ ~GetFrame(m).eof /\ ~Refused(m) /\ m.of.format \in {"yuv", "rgb", "gray"}) =>
                GetFrame(m).data[1] = GetFrame(m).number_of_frames
<1> DEFINE read == ReadFrame(m)
           d == Copied(m.of, read.data, read.picture)
           x == Filled(read, d)
<1>1. GetFrame(m) = IF read.eof \/ Refused(m) THEN read ELSE x
  BY Zenon DEF GetFrame, Filled
<1> HIDE DEF read
<1>2. /\ MovieOk(read, exact) /\ read.of = m.of
      /\ (exact /\ ~read.eof /\ ~Refused(m)) => read.picture = read.number_of_frames
  BY ReadFrameKeeps, Zenon DEF read
<1>3. /\ \E v \in DOMAIN VIDEOS : read.of = VIDEOS[v]
      /\ IsMovie(read)
      /\ (exact /\ ~read.eof) => Counts(read)
  BY <1>2, MovieOkIs
<1> HIDE DEF d
<1>4. /\ IsMovie(x) /\ x.of = read.of /\ x.eof = read.eof /\ x.pos = read.pos /\ x.held = read.held
      /\ x.picture = read.picture /\ x.number_of_frames = read.number_of_frames /\ x.data = d
  BY <1>3, FilledIs, ZenonT(60)
<1> HIDE DEF x
<1>5. (exact /\ ~read.eof) => Counts(x)
  BY <1>3, <1>4, Zenon DEF Counts
<1>6. MovieOk(x, exact)
  BY <1>3, <1>4, <1>5, MovieOkIs, Zenon
<1>7. m.of.format \in {"yuv", "rgb", "gray"} => d[1] = read.picture
  BY DEF d, Copied
<1>8. CASE read.eof \/ Refused(m)
  BY <1>1, <1>2, <1>8, Zenon
<1>9. CASE ~(read.eof \/ Refused(m))
  BY <1>1, <1>2, <1>4, <1>6, <1>7, <1>9, Zenon
<1>10. QED
  BY <1>8, <1>9

(* The first of a set of positions is the one no other is before. *)
LEMMA SmallestIs ==
  ASSUME NEW X \in SUBSET Nat, NEW x \in X, \A y \in X : x <= y
  PROVE  Min(X) = x
<1> DEFINE y == Min(X)
<1>1. y \in X /\ y <= x /\ x <= y
  BY SmallestOf
<1> HIDE DEF y
<1>2. x = y
  BY <1>1
<1>3. QED
  BY <1>2 DEF y

(* The last of them is the one no other is after. *)
LEMMA GreatestIs ==
  ASSUME NEW X \in SUBSET Nat, NEW x \in X, \A y \in X : x >= y
  PROVE  Max(X) = x
<1> DEFINE y == Max(X)
<1>1. y \in X /\ y >= x /\ x >= y
  BY Zenon DEF Max
<1> HIDE DEF y
<1>2. x = y
  BY <1>1
<1>3. QED
  BY <1>2 DEF y

(* Where a key picture begins. *)
LEMMA KeyBegins ==
  ASSUME NEW c, IsMedium(c), NEW key \in Nat,
         NEW k, k = Min({p \in DOMAIN c.packets : PictureAt(c, p) = key + 1}),
         \E p \in DOMAIN c.packets : PictureAt(c, p) = key + 1
  PROVE  k - 1 \in 0 .. Len(c.packets) /\ PictureAt(c, k - 1) = key
<1> DEFINE X == {p \in DOMAIN c.packets : PictureAt(c, p) = key + 1}
<1>1. DOMAIN c.packets = 1 .. Len(c.packets) /\ Len(c.packets) \in Nat
  BY LenProperties DEF IsMedium
<1>2. X \in SUBSET Nat /\ X # {} /\ k = Min(X)
  BY <1>1
<1> HIDE DEF X
<1>3. k \in X /\ \A p \in X : k <= p
  <2>1. Min(X) \in X /\ \A p \in X : Min(X) <= p
    BY <1>2, SmallestOf
  <2>2. QED
    BY <1>2, <2>1
<1>4. /\ k \in 1 .. Len(c.packets) /\ PictureAt(c, k) = key + 1
      /\ \A p \in 1 .. Len(c.packets) : PictureAt(c, p) = key + 1 => k <= p
  BY <1>1, <1>3 DEF X
<1>5. k \in 0 .. Len(c.packets) /\ k - 1 \in 0 .. Len(c.packets) /\ k > 0
  BY <1>1, <1>4
<1>6. PictureAt(c, k - 1) # key + 1
  <2>1. CASE k = 1
    <3>1. PictureAt(c, k - 1) = 0
      BY <1>5, <2>1, PictureCounts
    <3>2. QED
      BY <3>1
  <2>2. CASE k # 1
    <3>1. k - 1 \in 1 .. Len(c.packets) /\ ~(k <= k - 1)
      BY <1>1, <1>4, <2>2
    <3>2. QED
      BY <1>4, <3>1
  <2>3. QED
    BY <2>1, <2>2
<1>7. PictureAt(c, k) \in {PictureAt(c, k - 1), PictureAt(c, k - 1) + 1} /\ PictureAt(c, k - 1) \in Nat
  BY <1>5, PictureCounts
<1>8. QED
  BY <1>4, <1>5, <1>6, <1>7

(* A seek to a key picture, with nothing in the decoder, leaves the number     *)
(* right; after any other the number counts for nothing.                       *)
LEMMA SeekToKeeps ==
  ASSUME NEW m, NEW exact, MovieOk(m, exact), NEW frame
  PROVE  MovieOk(SeekTo(m, frame), exact /\ frame \in m.of.keys /\ m.held = <<>>)
<1> DEFINE still == exact /\ frame \in m.of.keys /\ m.held = <<>>
           backward == frame < m.number_of_frames
           keys == KeysFor(m, frame, backward)
           key == IF backward THEN Max(keys) ELSE Min(keys)
           k == Min({p \in DOMAIN m.of.packets : PictureAt(m.of, p) = key + 1})
           x == Placed(m, k - 1, frame)
<1>1. /\ \E v \in DOMAIN VIDEOS : m.of = VIDEOS[v]
      /\ IsMovie(m)
      /\ (exact /\ ~m.eof) => Counts(m)
  BY MovieOkIs
<1>2. CASE keys = {}
  <2>1. SeekTo(m, frame) = m
    BY <1>2, Zenon DEF SeekTo
  <2>2. (still /\ ~m.eof) => Counts(m)
    BY <1>1
  <2>3. QED
    BY <1>1, <2>1, <2>2, MovieOkIs, Zenon
<1>3. CASE keys # {}
  <2>2. SeekTo(m, frame) = x
    BY <1>3, Zenon DEF SeekTo, Sought, Placed
  <2>3. /\ IsMovie(x) /\ x.of = m.of /\ x.eof = m.eof /\ x.pos = k - 1
        /\ x.held = m.held /\ x.number_of_frames = frame
    <3> DEFINE q == k - 1
    <3> HIDE DEF q
    <3>1. IsMovie(m)
      BY <1>1
    <3>2. LET y == Placed(m, q, frame)
          IN  /\ IsMovie(y) /\ y.of = m.of /\ y.eof = m.eof /\ y.pos = q
              /\ y.held = m.held /\ y.number_of_frames = frame
      BY <3>1, PlacedIs
    <3>3. QED
      BY <3>2, Zenon DEF q
  <2>4. ASSUME still, ~m.eof PROVE Counts(x)
    <3>1. /\ frame \in Nat /\ frame \in keys /\ keys \in SUBSET Nat
          /\ \E p \in DOMAIN m.of.packets : PictureAt(m.of, p) = frame + 1
      <4>1. \A y \in m.of.keys : y \in Nat /\ \E p \in DOMAIN m.of.packets : PictureAt(m.of, p) = y + 1
        BY OfVideos, Zenon
      <4>2. keys \in SUBSET m.of.keys
        BY Zenon DEF KeysFor
      <4>3. frame <= frame /\ frame >= frame
        BY <2>4, <4>1
      <4>4. frame \in keys
        BY <2>4, <4>3, Zenon DEF KeysFor
      <4>5. QED
        BY <2>4, <4>1, <4>2, <4>4, Zenon
    <3>2. key = frame
      <4>1. CASE backward
        <5>1. \A y \in keys : frame >= y
          BY <3>1, <4>1 DEF KeysFor
        <5> HIDE DEF keys
        <5>2. Max(keys) = frame
          BY <3>1, <5>1, GreatestIs
        <5>3. QED
          BY <4>1, <5>2
      <4>2. CASE ~backward
        <5>1. \A y \in keys : frame <= y
          BY <3>1, <4>2 DEF KeysFor
        <5> HIDE DEF keys
        <5>2. Min(keys) = frame
          BY <3>1, <5>1, SmallestIs
        <5>3. QED
          BY <4>2, <5>2
      <4>3. QED
        BY <4>1, <4>2
    <3>3. k = Min({p \in DOMAIN m.of.packets : PictureAt(m.of, p) = frame + 1})
      BY <3>2, Zenon
    <3>4. k - 1 \in 0 .. Len(m.of.packets) /\ PictureAt(m.of, k - 1) = frame
      <4> HIDE DEF k
      <4>1. QED
        BY <3>1, <3>3, OfVideos, KeyBegins
    <3>5. frame \in 0 .. frame /\ Numbers(frame, frame) = <<>>
      BY <3>1 DEF Numbers
    <3> HIDE DEF x
    <3>6. QED
      BY <2>3, <2>4, <3>4, <3>5, Zenon DEF Counts
  <2> HIDE DEF x, still
  <2>5. QED
    BY <1>1, <2>2, <2>3, <2>4, MovieOkIs, Zenon DEF still
<1>4. QED
  BY <1>2, <1>3
-----------------------------------------------------------------------------
(* A reader that has not been constructed keeps the invariant. *)
LEMMA ReaderStarts ==
  ASSUME ReaderInit
  PROVE  ReaderIInv
BY DEF ReaderInit, ReaderIInv, FrameIsTheOneCounted

(* A new reader has no medium. *)
LEMMA ConstructKeeps ==
  ASSUME ReaderIInv, NEW use_ffmpeg, Construct(use_ffmpeg)
  PROVE  ReaderIInv'
BY DEF Construct, ReaderIInv, FrameIsTheOneCounted

(* A path with nothing there leaves no medium. *)
LEMMA SetupMissingKeeps ==
  ASSUME ReaderIInv, SetupMissing
  PROVE  ReaderIInv'
BY DEF SetupMissing, SetupStart, ReaderIInv, FrameIsTheOneCounted

(* Photographs begin before the first. *)
LEMMA SetupPhotosKeeps ==
  ASSUME ReaderIInv, NEW path \in DOMAIN PHOTO_PATHS, SetupPhotos(path)
  PROVE  ReaderIInv'
<1>1. /\ cur_frame_num' = 0 /\ next_photo' = 1 /\ fed' = FALSE
      /\ movie' = <<>> /\ cv_movie' = <<>> /\ photos' = Sorted(path)
  BY DEF SetupPhotos, SetupStart
<1>2. Cardinality(Existing(path)) \in Nat
  <2>1. PHOTO_PATHS[path] \in Seq(DOMAIN PHOTOS)
    BY ReaderAssumption
  <2>2. DOMAIN PHOTO_PATHS[path] = 1 .. Len(PHOTO_PATHS[path]) /\ Len(PHOTO_PATHS[path]) \in Nat
    BY <2>1, LenProperties
  <2>3. IsFiniteSet(DOMAIN PHOTO_PATHS[path])
    BY <2>2, FS_Interval
  <2>4. Existing(path) \in SUBSET DOMAIN PHOTO_PATHS[path]
    BY DEF Existing
  <2>5. QED
    BY <2>3, <2>4, FS_Subset, FS_CardinalityType
<1>3. Len(Sorted(path)) = Cardinality(Existing(path))
  BY <1>2 DEF Sorted
<1>4. Len(photos') \in Nat /\ next_photo' \in 1 .. Len(photos') + 1
  BY <1>1, <1>2, <1>3
<1>5. QED
  BY <1>1, <1>4 DEF ReaderIInv, FrameIsTheOneCounted

(* A film begins with the count the reader of its kind starts from. *)
LEMMA SetupMovieKeeps ==
  ASSUME ReaderIInv, NEW path \in DOMAIN VIDEOS, SetupMovie(path)
  PROVE  ReaderIInv'
<1> DEFINE c == VIDEOS[path]
           opens == ffmpeg_explicit_backend = "yes" /\ CanOpen(c)
<1>1. /\ movie' = IF opens THEN <<NewMovie(c)>> ELSE <<>>
      /\ cv_movie' # <<>> => ffmpeg_explicit_backend = "no"
      /\ cur_frame' = IF ffmpeg_explicit_backend = "no" \/ opens THEN Blank(c) ELSE <<>>
      /\ photos' = <<>> /\ fed' = FALSE
  BY DEF SetupMovie, SetupStart
<1>2. MovieOk(NewMovie(c), number_exact')
  <2>1. /\ IsMovie(NewMovie(c)) /\ NewMovie(c).of = c /\ NewMovie(c).pos = 0
        /\ NewMovie(c).held = <<>> /\ NewMovie(c).number_of_frames = 0
    BY DEF NewMovie, IsMovie
  <2>2. IsMedium(c)
    BY ReaderAssumption
  <2>3. 0 \in 0 .. Len(c.packets) /\ PictureAt(c, 0) = 0
    <3>1. Len(c.packets) \in Nat
      BY <2>2, LenProperties DEF IsMedium
    <3>2. QED
      BY <2>2, <3>1, PictureCounts
  <2>4. Numbers(0, 0) = <<>> /\ 0 \in 0 .. 0
    BY DEF Numbers
  <2>5. Counts(NewMovie(c))
    BY <2>1, <2>3, <2>4, Zenon DEF Counts
  <2>6. QED
    BY <2>1, <2>5, MovieOkIs
<1>3. CASE opens
  <2>1. movie' = <<NewMovie(c)>> /\ movie'[1] = NewMovie(c)
    BY <1>1, <1>3
  <2>2. cur_frame' = <<[size |-> cur_frame'[1].size, luma |-> cur_frame'[1].luma,
                        chroma |-> cur_frame'[1].chroma]>>
    BY <1>1, <1>3 DEF Blank
  <2>3. QED
    BY <1>1, <1>2, <2>1, <2>2 DEF ReaderIInv, FrameIsTheOneCounted
<1>4. CASE ~opens
  <2>1. movie' = <<>>
    BY <1>1, <1>4
  <2>2. cv_movie' # <<>> =>
            cur_frame' = <<[size |-> cur_frame'[1].size, luma |-> cur_frame'[1].luma,
                            chroma |-> cur_frame'[1].chroma]>>
    BY <1>1 DEF Blank
  <2>3. QED
    BY <1>1, <2>1, <2>2 DEF ReaderIInv, FrameIsTheOneCounted
<1>5. QED
  BY <1>3, <1>4

(* A frame with other pixels. *)
LEMMA Drawn ==
  ASSUME NEW f, f = [size |-> f.size, luma |-> f.luma, chroma |-> f.chroma], NEW x, NEW y
  PROVE  [f EXCEPT !.luma = x, !.chroma = y] = [size |-> f.size, luma |-> x, chroma |-> y]
<1> DEFINE z == [f EXCEPT !.luma = x]
<1>1. z = [size |-> f.size, luma |-> x, chroma |-> f.chroma]
  OBVIOUS
<1>2. [f EXCEPT !.luma = x, !.chroma = y] = [z EXCEPT !.chroma = y]
  BY Zenon
<1> HIDE DEF z
<1>3. [z EXCEPT !.chroma = y] = [size |-> f.size, luma |-> x, chroma |-> y]
  BY <1>1
<1>4. QED
  BY <1>2, <1>3

(* A frame of three parts is made of them. *)
LEMMA FrameParts ==
  ASSUME NEW f, NEW a, NEW b, NEW c, f = <<[size |-> a, luma |-> b, chroma |-> c]>>
  PROVE  /\ f = <<[size |-> f[1].size, luma |-> f[1].luma, chroma |-> f[1].chroma]>>
         /\ f[1] = [size |-> f[1].size, luma |-> f[1].luma, chroma |-> f[1].chroma]
         /\ f[1].luma = b
<1>1. f[1] = [size |-> a, luma |-> b, chroma |-> c]
  OBVIOUS
<1>2. f[1].size = a /\ f[1].luma = b /\ f[1].chroma = c
  BY <1>1
<1>3. QED
  BY <1>1, <1>2, Zenon

(* The next picture of a film has the next number. *)
LEMMA FeedMovieKeeps ==
  ASSUME ReaderIInv, NEW full \in BOOLEAN, FeedMovie(full)
  PROVE  ReaderIInv'
<1> DEFINE m == GetFrame(movie[1])
           ok == ~Refused(movie[1]) /\ ~m.eof /\ m.number_of_frames # 0
<1>1. /\ movie # <<>> /\ MovieOk(movie[1], number_exact) /\ photos = <<>>
      /\ cur_frame = <<[size |-> cur_frame[1].size, luma |-> cur_frame[1].luma,
                        chroma |-> cur_frame[1].chroma]>>
  BY DEF FeedMovie, ReaderIInv
<1>2. /\ movie' = <<m>>
      /\ fed' = (ok /\ full)
      /\ cur_frame_num' = IF ok THEN m.number_of_frames ELSE cur_frame_num
      /\ cur_frame' = IF ok /\ full
                      THEN <<[cur_frame[1] EXCEPT !.luma = m.data[1], !.chroma = m.data[2]]>>
                      ELSE cur_frame
      /\ photos' = photos /\ number_exact' = number_exact
  BY DEF FeedMovie
<1>3. /\ MovieOk(m, number_exact) /\ m.of = movie[1].of
      /\ (number_exact /\ ~m.eof /\ ~Refused(movie[1]) /\ m.of.format \in {"yuv", "rgb", "gray"}) =>
             m.data[1] = m.number_of_frames
  BY <1>1, GetFrameKeeps, Zenon
<1> HIDE DEF m
<1>4. movie'[1] = m /\ movie' # <<>> /\ movie' = <<movie'[1]>>
  BY <1>2
<1>5. CASE ok /\ full
  <2> DEFINE l == m.data[1]
             h == m.data[2]
  <2> HIDE DEF l, h
  <2>1. cur_frame' = <<[cur_frame[1] EXCEPT !.luma = l, !.chroma = h]>>
    BY <1>2, <1>5, Zenon DEF l, h
  <2>2. cur_frame' = <<[size |-> cur_frame[1].size, luma |-> l, chroma |-> h]>>
    <3>1. cur_frame[1] = [size |-> cur_frame[1].size, luma |-> cur_frame[1].luma,
                          chroma |-> cur_frame[1].chroma]
      BY <1>1, FrameParts
    <3>2. QED
      BY <2>1, <3>1, Drawn, Zenon
  <2>3. /\ cur_frame' = <<[size |-> cur_frame'[1].size, luma |-> cur_frame'[1].luma,
                           chroma |-> cur_frame'[1].chroma]>>
        /\ cur_frame'[1].luma = l
    BY <2>2, FrameParts, ZenonT(60)
  <2>4. cur_frame_num' = m.number_of_frames
    BY <1>2, <1>5
  <2>5. FrameIsTheOneCounted'
    BY <1>1, <1>2, <1>3, <1>4, <1>5, <2>3, <2>4, Zenon DEF FrameIsTheOneCounted, l
  <2>6. QED
    BY <1>1, <1>2, <1>3, <1>4, <2>3, <2>5 DEF ReaderIInv
<1>6. CASE ~(ok /\ full)
  <2>1. cur_frame' = cur_frame /\ fed' = FALSE
    BY <1>2, <1>6
  <2>2. QED
    BY <1>1, <1>2, <1>3, <1>4, <2>1 DEF ReaderIInv, FrameIsTheOneCounted
<1>7. QED
  BY <1>5, <1>6

(* The same for a capture. *)
LEMMA FeedCaptureKeeps ==
  ASSUME ReaderIInv, NEW full \in BOOLEAN, FeedCapture(full)
  PROVE  ReaderIInv'
<1> DEFINE m == cv_movie[1]
           left == {p \in Yields(m) : m.of.packets[p] = "video"}
           read == IF left = {} THEN ReadTo(m, Len(m.of.packets)) ELSE ReadTo(m, Min(left))
<1>1. /\ movie = <<>> /\ cv_movie # <<>> /\ photos = <<>>
      /\ cur_frame = <<[size |-> cur_frame[1].size, luma |-> cur_frame[1].luma,
                        chroma |-> cur_frame[1].chroma]>>
  BY DEF FeedCapture, ReaderIInv
<1>2. /\ fed' = (full /\ left # {})
      /\ cur_frame_num' = IF left # {} THEN read.picture ELSE cur_frame_num
      /\ cur_frame' = IF left # {} /\ full
                      THEN <<[cur_frame[1] EXCEPT !.luma = read.picture,
                                                  !.chroma = read.picture]>>
                      ELSE cur_frame
      /\ photos' = photos /\ movie' = movie
  BY DEF FeedCapture
<1> HIDE DEF left, read
<1>3. CASE left # {} /\ full
  <2> DEFINE l == read.picture
  <2> HIDE DEF l
  <2>1. cur_frame' = <<[cur_frame[1] EXCEPT !.luma = l, !.chroma = l]>> /\ cur_frame_num' = l
    BY <1>2, <1>3, Zenon DEF l
  <2>2. cur_frame' = <<[size |-> cur_frame[1].size, luma |-> l, chroma |-> l]>>
    <3>1. cur_frame[1] = [size |-> cur_frame[1].size, luma |-> cur_frame[1].luma,
                          chroma |-> cur_frame[1].chroma]
      BY <1>1, FrameParts
    <3>2. QED
      BY <2>1, <3>1, Drawn, Zenon
  <2>3. /\ cur_frame' = <<[size |-> cur_frame'[1].size, luma |-> cur_frame'[1].luma,
                           chroma |-> cur_frame'[1].chroma]>>
        /\ cur_frame'[1].luma = cur_frame_num'
    BY <2>1, <2>2, FrameParts, ZenonT(60)
  <2>4. QED
    BY <1>1, <1>2, <2>3 DEF ReaderIInv, FrameIsTheOneCounted
<1>4. CASE ~(left # {} /\ full)
  <2>1. cur_frame' = cur_frame /\ fed' = FALSE
    BY <1>2, <1>4
  <2>2. QED
    BY <1>1, <1>2, <2>1 DEF ReaderIInv, FrameIsTheOneCounted
<1>5. QED
  BY <1>3, <1>4

(* After a seek to a key the count is that of its picture; else it is a guess. *)
LEMMA SeekKeeps ==
  ASSUME ReaderIInv, NEW frame, Seek(frame)
  PROVE  ReaderIInv'
<1> DEFINE m == movie[1]
           still == number_exact /\ frame \in m.of.keys /\ m.held = <<>>
           x == GetFrame(SeekTo(m, frame))
<1>1. movie # <<>> /\ MovieOk(m, number_exact)
  BY DEF Seek, ReaderIInv
<1>2. /\ movie' = <<x>> /\ number_exact' = still /\ fed' = FALSE
      /\ UNCHANGED <<cv_movie, photos, next_photo, cur_frame_num, cur_frame>>
  BY DEF Seek
<1>3. MovieOk(x, still)
  BY <1>1, SeekToKeeps, GetFrameKeeps, Zenon
<1> HIDE DEF x, still
<1>4. movie'[1] = x /\ movie' # <<>>
  BY <1>2
<1>5. MovieOk(movie'[1], number_exact')
  BY <1>2, <1>3, <1>4
<1>6. QED
  BY <1>1, <1>2, <1>4, <1>5 DEF ReaderIInv, FrameIsTheOneCounted

(* There is a next photograph that can be read, or an end. *)
LEMMA ReadableIs ==
  ASSUME ReaderIInv, photos # <<>>
  PROVE  Min(Readable) \in next_photo .. Len(photos) + 1
<1>1. Len(photos) \in Nat /\ next_photo \in 1 .. Len(photos) + 1
  BY DEF ReaderIInv
<1>2. Readable \in SUBSET Nat /\ Readable # {} /\ Readable \in SUBSET (next_photo .. Len(photos) + 1)
  BY <1>1 DEF Readable
<1>3. QED
  BY <1>2, SmallestOf

(* A photograph shown is not before the last. *)
LEMMA ShowKeeps ==
  ASSUME ReaderIInv, OnPhotos, SameMedium, NEW n \in next_photo .. Len(photos) + 1, Show(n),
         fed' => n <= Len(photos)
  PROVE  ReaderIInv'
<1>1. /\ photos # <<>> /\ movie = <<>> /\ cv_movie = <<>> /\ Len(photos) \in Nat
      /\ next_photo \in 1 .. Len(photos) + 1 /\ cur_frame_num = next_photo - 1
  BY DEF ReaderIInv, OnPhotos
<1>2. /\ movie' = movie /\ cv_movie' = cv_movie /\ photos' = photos
      /\ next_photo' = IF n > Len(photos) THEN n ELSE n + 1
      /\ cur_frame_num' = cur_frame_num + (next_photo' - next_photo)
      /\ n <= Len(photos) => cur_frame' = <<[size |-> PHOTOS[photos[n]].size,
                                             luma |-> photos[n], chroma |-> photos[n]]>>
  BY <1>1 DEF Show, SameMedium
<1>3. next_photo' \in 1 .. Len(photos) + 1 /\ cur_frame_num' = next_photo' - 1
  BY <1>1, <1>2
<1>4. n <= Len(photos) =>
         /\ cur_frame_num' = n
         /\ cur_frame'[1].luma = photos[n] /\ cur_frame'[1].size = PHOTOS[photos[n]].size
  BY <1>1, <1>2
<1>5. FrameIsTheOneCounted'
  BY <1>1, <1>2, <1>4 DEF FrameIsTheOneCounted
<1>6. QED
  BY <1>1, <1>2, <1>3, <1>5 DEF ReaderIInv

(* feed() goes on to the next photograph that can be read, ... *)
LEMMA FeedPhotoKeeps ==
  ASSUME ReaderIInv, FeedPhoto
  PROVE  ReaderIInv'
<1>1. /\ OnPhotos /\ SameMedium /\ Show(Min(Readable))
      /\ fed' => Min(Readable) <= Len(photos)
  BY Zenon DEF FeedPhoto
<1>2. Min(Readable) \in next_photo .. Len(photos) + 1
  BY <1>1, ReadableIs DEF OnPhotos
<1>3. QED
  BY <1>1, <1>2, ShowKeeps

(* ... and so does fast_feed(). *)
LEMMA FastFeedPhotoKeeps ==
  ASSUME ReaderIInv, FastFeedPhoto
  PROVE  ReaderIInv'
<1>1. /\ OnPhotos /\ SameMedium /\ photos # <<>> /\ movie = <<>> /\ cv_movie = <<>>
      /\ Len(photos) \in Nat /\ next_photo \in 1 .. Len(photos) + 1
      /\ cur_frame_num = next_photo - 1
  BY DEF FastFeedPhoto, OnPhotos, ReaderIInv
<1>2. CASE next_photo < Len(photos)
  <2>1. next_photo' = next_photo + 1 /\ cur_frame_num' = cur_frame_num + 1 /\ fed' = FALSE
    BY <1>1, <1>2 DEF FastFeedPhoto
  <2>2. /\ next_photo' \in 1 .. Len(photos) + 1 /\ cur_frame_num' = next_photo' - 1
    BY <1>1, <1>2, <2>1
  <2>3. QED
    BY <1>1, <2>1, <2>2 DEF ReaderIInv, FrameIsTheOneCounted, SameMedium
<1>3. CASE next_photo = Len(photos)
  <2>1. Show(Min(Readable)) /\ fed' = (Min(Readable) = next_photo)
    BY <1>1, <1>3 DEF FastFeedPhoto
  <2>2. Min(Readable) \in next_photo .. Len(photos) + 1
    BY <1>1, ReadableIs
  <2>3. fed' => Min(Readable) <= Len(photos)
    <3> DEFINE r == Min(Readable)
    <3> HIDE DEF r
    <3>1. fed' <=> r = next_photo
      BY <2>1 DEF r
    <3>2. r = next_photo => r <= Len(photos)
      BY <1>1, <1>3
    <3>3. QED
      BY <3>1, <3>2, Zenon DEF r
  <2>4. QED
    BY <1>1, <2>1, <2>2, <2>3, ShowKeeps
<1>4. CASE next_photo > Len(photos)
  <2>1. fed' = FALSE /\ UNCHANGED <<next_photo, cur_frame_num, cur_frame>>
    BY <1>1, <1>4 DEF FastFeedPhoto
  <2>2. QED
    BY <1>1, <2>1 DEF ReaderIInv, FrameIsTheOneCounted, SameMedium
<1>5. QED
  BY <1>1, <1>2, <1>3, <1>4

(* Every step keeps the invariant. *)
LEMMA ReaderSteps ==
  ASSUME ReaderIInv, [ReaderNext]_readerVars
  PROVE  ReaderIInv'
<1>1. CASE UNCHANGED readerVars
  BY <1>1 DEF ReaderIInv, FrameIsTheOneCounted, readerVars
<1>2. CASE ReaderNext
  BY <1>2, ConstructKeeps, SetupMissingKeeps, SetupPhotosKeeps, SetupMovieKeeps, FeedMovieKeeps,
     FeedCaptureKeeps, FeedPhotoKeeps, FastFeedPhotoKeeps, SeekKeeps, Zenon DEF ReaderNext
<1>3. QED
  BY <1>1, <1>2

(* It holds in every state. *)
LEMMA ReaderInvariant == ReaderSpec => []ReaderIInv
<1>1. ReaderInit => ReaderIInv
  BY ReaderStarts
<1>2. ReaderIInv /\ [ReaderNext]_readerVars => ReaderIInv'
  BY ReaderSteps
<1>3. QED
  BY <1>1, <1>2, PTL DEF ReaderSpec

-----------------------------------------------------------------------------
(*                              Films written                              *)

(* What an encoder is given, and a file holds but for its end code. *)
Frames == [planes: [1 .. 3 -> PICTURES \cup {Black, "?"}], pts: Nat \ {0}]

WriterIInv ==
    /\ delay \in Nat /\ encoding \in Seq(Frames) /\ taken \in Seq(Frames)
    /\ yuv_frame \in [planes: [1 .. 3 -> PICTURES \cup {Black, "?"}], pts: Nat]
    /\ writer \in {"none", "open", "deleted"}
    /\ writer = "none" => encoding = <<>>
    /\ writer # "deleted" => /\ output \in Seq(Frames) /\ output \o encoding = taken
                             /\ Len(encoding) <= delay
    /\ writer = "deleted" =>
            \E pictures \in Seq(Frames), lost \in Seq(Frames) :
                /\ output = Append(pictures, EndCode)
                /\ pictures \o lost = taken /\ Len(lost) <= delay
-----------------------------------------------------------------------------
(* Before a film is opened nothing is written. *)
LEMMA WriterStart == WriterInit => WriterIInv
<1> SUFFICES ASSUME WriterInit PROVE WriterIInv
  OBVIOUS
<1>1. <<>> \in Seq(Frames) /\ Len(<<>>) = 0 /\ <<>> \o <<>> = <<>>
  BY EmptySeq, ConcatEmptySeq
<1>2. yuv_frame \in [planes: [1 .. 3 -> PICTURES \cup {Black, "?"}], pts: Nat]
  BY DEF WriterInit
<1>3. QED
  BY <1>1, <1>2 DEF WriterInit, WriterIInv

(* A prefix of what was taken, its elements among the frames, is followed by   *)
(* what is not in the file.                                                    *)
LEMMA BeginsWith ==
  ASSUME NEW s \in Seq(Frames), NEW t \in Seq(Frames), NEW u, u = s \o t
  PROVE  IsPrefix(s, u) /\ Len(u) - Len(s) = Len(t) /\ EndCode \notin Range(s)
<1>1. /\ Len(s) \in Nat /\ Len(t) \in Nat /\ u \in Seq(Frames) /\ Len(u) = Len(s) + Len(t)
      /\ \A i \in 1 .. Len(s) + Len(t) : u[i] = IF i <= Len(s) THEN s[i] ELSE t[i - Len(s)]
  BY LenProperties, ConcatProperties
<1>2. DOMAIN s = 1 .. Len(s) /\ DOMAIN u = 1 .. Len(u) /\ \A i \in 1 .. Len(s) : s[i] \in Frames /\ s[i] = u[i]
  <2>1. DOMAIN s = 1 .. Len(s) /\ DOMAIN u = 1 .. Len(u) /\ \A i \in 1 .. Len(s) : s[i] \in Frames
    BY <1>1, LenProperties, ElementOfSeq
  <2>2. ASSUME NEW i \in 1 .. Len(s) PROVE s[i] = u[i]
    <3>1. i \in 1 .. Len(s) + Len(t) /\ i <= Len(s)
      BY <1>1
    <3>2. QED
      BY <1>1, <3>1
  <2>3. QED
    BY <2>1, <2>2
<1>3. IsPrefix(s, u)
  BY <1>1, <1>2 DEF IsPrefix
<1>4. EndCode \notin Range(s)
  <2>1. EndCode \notin Frames
    BY DEF EndCode, Frames
  <2>2. QED
    BY <1>2, <2>1 DEF Range
<1>5. QED
  BY <1>1, <1>3, <1>4

(* What is in the file is in the order in which it was put. *)
LEMMA WriterGives == WriterIInv => WrittenInOrder
<1> SUFFICES ASSUME WriterIInv PROVE WrittenInOrder
  OBVIOUS
<1>1. CASE writer # "deleted"
  <2>1. /\ output \in Seq(Frames) /\ encoding \in Seq(Frames) /\ taken = output \o encoding
        /\ Len(encoding) <= delay
    BY <1>1 DEF WriterIInv
  <2>2. IsPrefix(output, taken) /\ Len(taken) - Len(output) <= delay /\ EndCode \notin Range(output)
    BY <2>1, BeginsWith
  <2>3. QED
    BY <1>1, <2>1, <2>2 DEF WrittenInOrder
<1>2. CASE writer = "deleted"
  <2>1. PICK pictures \in Seq(Frames), lost \in Seq(Frames) :
                /\ output = Append(pictures, EndCode)
                /\ pictures \o lost = taken /\ Len(lost) <= delay
    BY <1>2 DEF WriterIInv
  <2>2. /\ IsPrefix(pictures, taken) /\ Len(taken) - Len(pictures) <= delay
        /\ EndCode \notin Range(pictures)
    BY <2>1, BeginsWith
  <2> DEFINE S == Frames \cup {EndCode}
  <2>3. /\ pictures \in Seq(S) /\ EndCode \in S
        /\ Len(pictures) \in Nat
    BY LenProperties, SeqMonotonic
  <2> HIDE DEF S
  <2>4. /\ output \in Seq(S) /\ Len(output) = Len(pictures) + 1
        /\ \A i \in 1 .. Len(pictures) : output[i] = pictures[i]
        /\ output[Len(pictures) + 1] = EndCode
    BY <2>1, <2>3, AppendProperties
  <2>5. Last(output) = EndCode
    BY <2>4 DEF Last
  <2>6. Front(output) = pictures
    <3> DEFINE f == SubSeq(output, 1, Len(output) - 1)
    <3>1. Len(output) - 1 = Len(pictures) /\ \A i \in 1 .. Len(pictures) : output[i] \in S
      BY <2>3, <2>4, ElementOfSeq
    <3>2. /\ f \in Seq(S)
          /\ Len(f) = IF 1 <= Len(pictures) THEN Len(pictures) - 1 + 1 ELSE 0
          /\ \A i \in 1 .. Len(pictures) - 1 + 1 : f[i] = output[1 + i - 1]
      BY <2>3, <3>1, SubSeqProperties
    <3> HIDE DEF f
    <3>3. Len(f) = Len(pictures) /\ \A i \in 1 .. Len(f) : f[i] = pictures[i]
      BY <2>3, <2>4, <3>2
    <3>4. f = pictures
      BY <2>3, <3>2, <3>3, SeqEqual
    <3>5. QED
      BY <3>4 DEF f, Front
  <2>7. QED
    BY <1>2, <2>2, <2>5, <2>6, Zenon DEF WrittenInOrder
<1>3. QED
  BY <1>1, <1>2

(* Three parts of a film may be put together in either order. *)
LEMMA FramesAssociative ==
  ASSUME NEW s \in Seq(Frames), NEW t \in Seq(Frames), NEW u \in Seq(Frames)
  PROVE  (s \o t) \o u = s \o (t \o u)
BY ConcatAssociative, SMTT(60)

(* A picture and its time go to the encoder; what it takes joins those taken, *)
(* whether it comes out or stays.                                             *)
LEMMA PutStep ==
  ASSUME WriterIInv, NEW planes \in [1 .. 3 -> PICTURES \cup {Black, "?"}], Put(planes)
  PROVE  WriterIInv'
<1> DEFINE new == [planes |-> planes, pts |-> yuv_frame.pts + 1]
           queue == Append(encoding, new)
<1>1. /\ yuv_frame' = new /\ writer = "open" /\ writer' = writer /\ delay' = delay
      /\ new \in Frames /\ new \in [planes: [1 .. 3 -> PICTURES \cup {Black, "?"}], pts: Nat]
  BY DEF Put, WriterIInv, Frames
<1>2. /\ output \in Seq(Frames) /\ encoding \in Seq(Frames) /\ taken \in Seq(Frames)
      /\ output \o encoding = taken /\ Len(encoding) <= delay /\ delay \in Nat
      /\ Len(encoding) \in Nat /\ Len(taken) \in Nat
  BY <1>1, LenProperties DEF WriterIInv
<1> DEFINE more == Append(taken, new)
<1>3. /\ queue \in Seq(Frames) /\ Len(queue) = Len(encoding) + 1
      /\ more \in Seq(Frames) /\ Len(more) = Len(taken) + 1
  BY <1>1, <1>2, AppendProperties
<1>4. output \o queue = more
  <2>1. <<new>> \in Seq(Frames)
    BY <1>1
  <2>2. queue = encoding \o <<new>> /\ more = taken \o <<new>>
    BY <1>1, <1>2, AppendIsConcat
  <2> HIDE DEF queue, more, new
  <2>3. (output \o encoding) \o <<new>> = output \o (encoding \o <<new>>)
    BY <1>2, <2>1, FramesAssociative, ZenonT(60)
  <2>4. QED
    BY <1>2, <2>2, <2>3
<1>5. taken' = IF Len(output' \o encoding') > Len(output \o encoding) THEN more ELSE taken
  BY <1>1 DEF Put
<1> HIDE DEF more
<1>6. \/ output' \o encoding' = taken /\ UNCHANGED <<encoding, output>>
      \/ /\ output' \o encoding' = more
         /\ output' \in Seq(Frames) /\ encoding' \in Seq(Frames) /\ Len(encoding') <= delay
  <2>0. EncodeAndWrite(new)
    BY <1>1 DEF Put
  <2> HIDE DEF new
  <2>1. CASE UNCHANGED <<encoding, output>>
    BY <1>2, <2>1
  <2>2. CASE Len(encoding) < delay /\ encoding' = Append(encoding, new) /\ UNCHANGED output
    BY <1>2, <1>3, <1>4, <2>2
  <2>3. CASE \E n \in DOMAIN queue : /\ output' = output \o SubSeq(queue, 1, n)
                                     /\ encoding' = SubSeq(queue, n + 1, Len(queue))
    <3> HIDE DEF queue
    <3>1. PICK n \in DOMAIN queue : /\ output' = output \o SubSeq(queue, 1, n)
                                    /\ encoding' = SubSeq(queue, n + 1, Len(queue))
      BY <2>3
    <3>2. n \in 1 .. Len(queue) /\ Len(queue) \in Nat /\ \A i \in 1 .. Len(queue) : queue[i] \in Frames
      BY <1>3, LenProperties, ElementOfSeq
    <3> DEFINE a == SubSeq(queue, 1, n)
               b == SubSeq(queue, n + 1, Len(queue))
    <3>3. a \in Seq(Frames)
      <4>1. 1 \in Int /\ n \in Int /\ \A i \in 1 .. n : queue[i] \in Frames
        BY <3>2
      <4>2. QED
        BY <4>1, SubSeqProperties
    <3>4. /\ b \in Seq(Frames)
          /\ Len(b) = IF n + 1 <= Len(queue) THEN Len(queue) - (n + 1) + 1 ELSE 0
      <4>1. n + 1 \in Int /\ Len(queue) \in Int /\ \A i \in n + 1 .. Len(queue) : queue[i] \in Frames
        BY <3>2
      <4>2. QED
        BY <4>1, SubSeqProperties
    <3>5. a \o b = queue
      <4>1. 1 \in 1 .. Len(queue) + 1 /\ n \in 1 - 1 .. Len(queue) /\ Len(queue) \in n .. Len(queue)
        BY <3>2
      <4>2. a \o b = SubSeq(queue, 1, Len(queue))
        BY <1>3, <4>1, ConcatAdjacentSubSeq
      <4>3. QED
        BY <1>3, <4>2, SubSeqFull
    <3>6. Len(b) <= Len(encoding)
      BY <1>2, <1>3, <3>2, <3>4
    <3> HIDE DEF a, b
    <3>7. (output \o a) \o b = output \o (a \o b)
      BY <1>2, <3>3, <3>4, FramesAssociative, ZenonT(60)
    <3>8. output \o a \in Seq(Frames)
      BY <1>2, <3>3, ConcatProperties
    <3>9. output' = output \o a /\ encoding' = b
      BY <3>1 DEF a, b
    <3>10. Len(b) <= delay
      <4>1. Len(b) \in Nat
        BY <3>4, LenProperties
      <4>2. QED
        BY <1>2, <3>6, <4>1
    <3>11. QED
      BY <1>4, <3>4, <3>5, <3>7, <3>8, <3>9, <3>10, Zenon
  <2>4. QED
    BY <2>0, <2>1, <2>2, <2>3 DEF EncodeAndWrite
<1>7. \/ /\ output' \o encoding' = taken /\ UNCHANGED <<encoding, output>>
         /\ taken' = taken
      \/ /\ output' \o encoding' = more
         /\ output' \in Seq(Frames) /\ encoding' \in Seq(Frames) /\ Len(encoding') <= delay
         /\ taken' = more
  <2>1. CASE output' \o encoding' = taken /\ UNCHANGED <<encoding, output>>
    BY <1>2, <1>5, <2>1
  <2>2. CASE output' \o encoding' = more
    <3>1. Len(output' \o encoding') > Len(output \o encoding)
      BY <1>2, <1>3, <2>2
    <3>2. QED
      BY <1>5, <1>6, <2>2, <3>1
  <2>3. QED
    BY <1>6, <2>1, <2>2
<1>8. QED
  BY <1>1, <1>2, <1>3, <1>7, Zenon DEF WriterIInv

(* The destructor writes out what the encoder still holds. *)
LEMMA DeleteStep == WriterIInv /\ WriterDelete => WriterIInv'
<1> SUFFICES ASSUME WriterIInv, WriterDelete PROVE WriterIInv'
  OBVIOUS
<1>1. <<>> \in Seq(Frames)
  BY EmptySeq
<1>2. /\ output \in Seq(Frames) /\ encoding \in Seq(Frames)
      /\ output \o encoding = taken /\ Len(encoding) <= delay
      /\ output' = Append(output, EndCode) /\ taken' = taken /\ delay' = delay
      /\ writer' = "deleted" /\ encoding' = <<>> /\ yuv_frame' = yuv_frame
  BY DEF WriterIInv, WriterDelete
<1>3. QED
  BY <1>1, <1>2, Zenon DEF WriterIInv

(* In every state the films written are in order. *)
LEMMA FilmsAreInOrder == WriterSpec => []WrittenInOrder
<1>1. WriterIInv /\ [WriterNext]_writerVars => WriterIInv'
  <2> SUFFICES ASSUME WriterIInv, [WriterNext]_writerVars PROVE WriterIInv'
    OBVIOUS
  <2>1. CASE WriterOpen
    <3>1. delay' \in Nat
      BY <2>1, WriterAssumption DEF WriterOpen
    <3>2. encoding' \in Seq(Frames) /\ Len(encoding') <= delay'
      <4>1. encoding' = <<>> /\ Len(<<>>) = 0 /\ <<>> \in Seq(Frames)
        BY <2>1, EmptySeq DEF WriterOpen, WriterIInv
      <4>2. QED
        BY <3>1, <4>1
    <3>3. QED
      BY <2>1, <3>1, <3>2 DEF WriterOpen, WriterIInv
  <2>2. ASSUME NEW image \in PICTURES, AddFrame(image) PROVE WriterIInv'
    BY <2>2, PutStep DEF AddFrame, Converted
  <2>3. ASSUME NEW frame_size \in 1 .. 3, AddEmptyFrame(frame_size) PROVE WriterIInv'
    <3>1. Cleared(yuv_frame.planes, frame_size) \in [1 .. 3 -> PICTURES \cup {Black, "?"}]
      BY DEF Cleared, WriterIInv
    <3>2. QED
      BY <2>3, <3>1, PutStep DEF AddEmptyFrame
  <2>4. CASE WriterDelete
    BY <2>4, DeleteStep
  <2>5. CASE UNCHANGED writerVars
    BY <2>5, Zenon DEF writerVars, WriterIInv
  <2>6. QED
    BY <2>1, <2>2, <2>3, <2>4, <2>5 DEF WriterNext
<1>2. QED
  BY <1>1, WriterStart, WriterGives, PTL DEF WriterSpec

-----------------------------------------------------------------------------
(*                            The media together                           *)

(* Whatever medium a reader is set up with, and whatever is skipped, cannot be *)
(* read or is sought, the frame is the picture of the number given for it; of  *)
(* a stream every picture comes once and in order, on every opening; and a     *)
(* film holds the pictures the encoder took, in order, but for those it had    *)
(* not given back at the end.                                                  *)
THEOREM MediaAreInOrder == (ReaderSpec /\ StreamSpec /\ WriterSpec) => []MediaInOrder
<1>1. ReaderIInv => FrameIsTheOneCounted
  BY DEF ReaderIInv
<1>2. ReaderSpec => []FrameIsTheOneCounted
  BY <1>1, ReaderInvariant, PTL
<1>3. (FrameIsTheOneCounted /\ StreamInOrder /\ WrittenInOrder) => MediaInOrder
  BY DEF MediaInOrder
<1>4. QED
  BY <1>2, <1>3, StreamsAreInOrder, FilmsAreInOrder, PTL
=============================================================================
