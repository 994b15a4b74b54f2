--------------------------- MODULE LspServerProofs ----------------------------
(***************************************************************************)
(* Proofs about the language server: its types, that whatever is done to   *)
(* the stream it always knows where it is in it, that the diagnostics of a *)
(* document are never of a file older than its last event, and that it     *)
(* keeps what LspSession promises its editor.                              *)
(*                                                                         *)
(* The server may be between any two lines of any header, one it reads as  *)
(* the editor meant it or the wrong one after a badly framed message, and  *)
(* in a body.  Located says that however it got there the stream is still  *)
(* cut where the editor cut it: read_line stops at the end of a line and   *)
(* bodies have none, so a length that was too short or too long is made up *)
(* for by the next header line.                                            *)
(***************************************************************************)
EXTENDS LspServer, SequenceTheorems, TLAPS

-----------------------------------------------------------------------------
(* The stream.                                                             *)

\* What can be on the wire.
Piece ==
  {u \in [is : {"length", "other", "end", "part"}, n : -2..MaxLength + MaxSends + 1,
          at : 0..Size] :
     u.is = "length" => u.n <= MaxLength + 1}

\* How many units a header and a message have.
HeaderLength(shape) == IF shape \in {"typed", "trailed"} THEN 4 ELSE 2

FrameLength(shape) == HeaderLength(shape) + 1 + Size

\* What a header says the length is.
Said(shape) ==
  CASE shape \in {"plain", "typed", "trailed"} -> Size
    [] shape = "huge" -> MaxLength + 1
    [] shape = "short" -> Size - 1
    [] shape = "long" -> Size + 1
    [] OTHER -> None

\* The k-th unit of the i-th message.
FrameUnit(i, shape, k) ==
  IF k <= HeaderLength(shape) THEN Header(shape)[k]
  ELSE IF k = HeaderLength(shape) + 1 THEN End
  ELSE Unit("part", i, k - HeaderLength(shape) - 1)

\* The stream from its beginning: message i, of shapes[i], follows the first
\* start[i] units of it, and after read units comes what is on the wire.  At its
\* end may be the beginning of one more message.
Layout(shapes, start, read) ==
  /\ shapes \in [1..Len(sent) + 1 -> Shapes]
  /\ start \in [1..Len(sent) + 2 -> Nat]
  /\ read \in Nat
  /\ \A i \in 1..Len(sent) + 1 : start[i + 1] = start[i] + FrameLength(shapes[i])
  /\ \A i \in 1..Len(sent) + 1 : start[i] <= start[Len(sent) + 1]
  /\ \A i \in 1..Len(sent) : sent[i].framed = Framed(shapes[i])
  /\ shapes[Len(sent) + 1] = "plain"
  /\ IF gone
       THEN read + Len(wire) >= start[Len(sent) + 1] /\ read + Len(wire) < start[Len(sent) + 2]
       ELSE read + Len(wire) = start[Len(sent) + 1]
  /\ \A i \in 1..Len(sent) + 1 : \A k \in 1..FrameLength(shapes[i]) :
       read < start[i] + k /\ start[i] + k <= read + Len(wire)
         => wire[start[i] + k - read] = FrameUnit(i, shapes[i], k)

\* The server is in message m, k units of which it has read.
Within(shapes, start, read, m, k) ==
  /\ m \in 1..Len(sent) + 1
  /\ k \in 0..FrameLength(shapes[m]) - 1
  /\ read = start[m] + k

\* Up to message m, one was badly framed.
Broken(m) == \E j \in 1..m : j <= Len(sent) /\ ~sent[j].framed

\* One was at all.
Misframed == \E j \in 1..Len(sent) : ~sent[j].framed

\* The server, between two lines of a header, knows what they said.
InHeader(shape, k) ==
  \/ k = 0 /\ length = None
  \/ k = 2 /\ shape \in {"typed", "missing", "wrong"} /\ length = None
  \/ k = 2 /\ shape \notin {"typed", "missing", "wrong"} /\ length = Said(shape)
  \/ k = 4 /\ shape \in {"typed", "trailed"} /\ length = Said(shape)

\* Messages before m that are not handled follow a badly framed one.
PassedOver(m) == \A i \in 1..m - 1 : Broken(i) \/ i <= done

\* What the server holds at this place, by what it is doing.
Where(shapes, m, k) ==
  /\ pc = "headers" =>
       /\ done < m /\ PassedOver(m)
       /\ InHeader(shapes[m], k) \/ (length = None /\ Broken(m))
  /\ pc = "body" =>
       /\ done < m /\ PassedOver(m)
       /\ k = HeaderLength(shapes[m]) + 1
       /\ shapes[m] \notin {"missing", "wrong", "huge"} /\ length = Said(shapes[m])
  /\ pc \in {"handle", "publish"} => m = reading + 1 /\ k = 0 /\ length = None

\* The server knows where it is in the stream, unless nothing can come of it.
Located ==
  \/ gone /\ wire = <<>>
  \/ pc = "ended"
  \/ \E shapes \in [1..Len(sent) + 1 -> Shapes], start \in [1..Len(sent) + 2 -> Nat],
        read \in Nat, m \in 1..Len(sent) + 1, k \in Nat :
       /\ Layout(shapes, start, read)
       /\ Within(shapes, start, read, m, k)
       /\ Where(shapes, m, k)

\* Message i is the one to be handled.
Turn(i) == i \in 1..Len(sent) /\ done < i /\ sent[i].framed /\ PassedOver(i)

\* What is handled was sent, is in turn, and could be parsed.
Reading ==
  pc \in {"handle", "publish"} => Turn(reading) /\ sent[reading].message.method # "invalid"

-----------------------------------------------------------------------------
(* The answers.                                                            *)

\* Message i asks for diagnostics.
Event(i) == sent[i].message.method = "document" /\ sent[i].message.doc \in Doc

\* The k-th answer is the diagnostics of a message like this one.
Published(k, message) ==
  replies[k].kind \in Diagnostics /\ sent[replies[k].to].message = message

\* Diagnostics of a document never get older, nor newer than its file.
Answers ==
  /\ \A k \in 1..Len(replies) :
       /\ replies[k].to \in 1..done
       /\ replies[k].kind \in Diagnostics =>
            /\ Event(replies[k].to)
            /\ replies[k].edition <= edition[sent[replies[k].to].message.doc]
            /\ \A j \in 1..k :
                 replies[j].kind \in Diagnostics
                   /\ sent[replies[j].to].message.doc = sent[replies[k].to].message.doc
                     => replies[j].edition <= replies[k].edition
  /\ \A i \in 1..Len(sent) :
       sent[i].message.doc \in Doc => sent[i].edition <= edition[sent[i].message.doc]

\* Events that are handled have had their diagnostics.
Told ==
  \A i \in 1..done : Event(i) /\ ~Broken(i) =>
    \E k \in 1..Len(replies) :
      /\ Published(k, sent[i].message) /\ replies[k].edition >= sent[i].edition

\* Among the diagnostics of a message there are last ones.
LastOne ==
  \A k \in 1..Len(replies) : replies[k].kind \in Diagnostics =>
    \E l \in k..Len(replies) :
      /\ Published(l, sent[replies[k].to].message)
      /\ \A j \in 1..Len(replies) : Published(j, sent[replies[k].to].message) => j <= l

\* What is about to be published is no older than what was.
Analysed ==
  pc = "publish" =>
    /\ Event(reading)
    /\ report <= edition[sent[reading].message.doc]
    /\ report >= sent[reading].edition
    /\ \A k \in 1..Len(replies) :
         replies[k].kind \in Diagnostics
           /\ sent[replies[k].to].message.doc = sent[reading].message.doc
             => replies[k].edition <= report

\* Diagnostics are none exactly where there was nothing to analyse.
Kinds ==
  \A k \in 1..Len(replies) : replies[k].kind \in Diagnostics =>
    replies[k].kind = Shows(sent[replies[k].to].message.doc, replies[k].edition)

\* A unit of two sequences joined is one of the first or of the second.
LEMMA Joined ==
  ASSUME NEW a \in Seq(Piece), NEW b \in Seq(Piece)
  PROVE  /\ a \o b \in Seq(Piece)
         /\ Len(a \o b) = Len(a) + Len(b)
         /\ \A k \in 1..Len(a) : (a \o b)[k] = a[k]
         /\ \A k \in 1..Len(b) : (a \o b)[Len(a) + k] = b[k]
<1>1. PICK m \in Nat, n \in Nat : Len(a) = m /\ Len(b) = n
  BY LenProperties
<1>2. /\ a \o b \in Seq(Piece) /\ Len(a \o b) = m + n
      /\ \A i \in 1..m + n : (a \o b)[i] = IF i <= m THEN a[i] ELSE b[i - m]
  BY <1>1, ConcatProperties
<1>3. ASSUME NEW k \in 1..n PROVE (a \o b)[m + k] = b[k]
  <2>1. m + k \in 1..m + n /\ ~(m + k <= m) /\ (m + k) - m = k
    OBVIOUS
  <2> QED BY <1>2, <2>1
<1>4. \A k \in 1..m : (a \o b)[k] = a[k]
  BY <1>2
<1> QED BY <1>1, <1>2, <1>3, <1>4

-----------------------------------------------------------------------------
(* What a message is made of.                                              *)

\* The lines of a header.
HeaderFacts(shape) ==
  /\ Header(shape) \in Seq(Piece)
  /\ Len(Header(shape)) = HeaderLength(shape)
  /\ Header(shape)[2] = End
  /\ shape \in {"typed", "trailed"} => Header(shape)[4] = End
  /\ shape \in {"typed", "missing"} => Header(shape)[1] = Unit("other", 0, 0)
  /\ shape \notin {"typed", "missing"} =>
       Header(shape)[1] = Unit("length", IF shape = "wrong" THEN Wrong ELSE Said(shape), 0)
  /\ shape = "typed" => Header(shape)[3] = Unit("length", Size, 0)
  /\ shape = "trailed" => Header(shape)[3] = Unit("other", 0, 0)

\* Every header the editor writes (protocol.rs 69 reads it) has those lines.
LEMMA HeaderUnits ==
  ASSUME NEW shape \in Shapes
  PROVE  HeaderFacts(shape)
<1>1. Size \in Nat /\ MaxLength \in Nat /\ Size > 0 /\ MaxLength > Size /\ MaxSends \in Nat
  BY LspConstants
<1>2. ASSUME NEW n \in -2..MaxLength + 1
      PROVE  /\ Says(n) \in Seq(Piece) /\ Len(Says(n)) = 2
             /\ Says(n)[1] = Unit("length", n, 0) /\ Says(n)[2] = End
  BY <1>1 DEF Says, Unit, End, Piece
<1>3. /\ Other \in Seq(Piece) /\ Len(Other) = 2
      /\ Other[1] = Unit("other", 0, 0) /\ Other[2] = End
  BY <1>1 DEF Other, Unit, End, Piece
<1>4. Size \in -2..MaxLength + 1 /\ Size + 1 \in -2..MaxLength + 1
      /\ Size - 1 \in -2..MaxLength + 1 /\ MaxLength + 1 \in -2..MaxLength + 1
      /\ Wrong \in -2..MaxLength + 1
  BY <1>1 DEF Wrong
<1>5. CASE shape = "typed"
  <2>1. Header(shape) = Other \o Says(Size)
    BY <1>5 DEF Header
  <2>2. /\ Other \o Says(Size) \in Seq(Piece)
        /\ Len(Other \o Says(Size)) = Len(Other) + Len(Says(Size))
        /\ \A k \in 1..Len(Other) : (Other \o Says(Size))[k] = Other[k]
        /\ \A k \in 1..Len(Says(Size)) : (Other \o Says(Size))[Len(Other) + k] = Says(Size)[k]
    BY <1>2, <1>3, <1>4, Joined
  <2>3. /\ Header(shape) \in Seq(Piece) /\ Len(Header(shape)) = 4
        /\ Header(shape)[1] = Other[1] /\ Header(shape)[2] = Other[2]
        /\ Header(shape)[3] = Says(Size)[1] /\ Header(shape)[4] = Says(Size)[2]
    BY <2>1, <2>2, <1>2, <1>3, <1>4
  <2> QED
    BY <2>3, <1>2, <1>3, <1>4, <1>5 DEF HeaderFacts, HeaderLength
<1>6. CASE shape = "trailed"
  <2>1. Header(shape) = Says(Size) \o Other
    BY <1>6 DEF Header
  <2>2. /\ Says(Size) \o Other \in Seq(Piece)
        /\ Len(Says(Size) \o Other) = Len(Says(Size)) + Len(Other)
        /\ \A k \in 1..Len(Says(Size)) : (Says(Size) \o Other)[k] = Says(Size)[k]
        /\ \A k \in 1..Len(Other) : (Says(Size) \o Other)[Len(Says(Size)) + k] = Other[k]
    BY <1>2, <1>3, <1>4, Joined
  <2>3. /\ Header(shape) \in Seq(Piece) /\ Len(Header(shape)) = 4
        /\ Header(shape)[1] = Says(Size)[1] /\ Header(shape)[2] = Says(Size)[2]
        /\ Header(shape)[3] = Other[1] /\ Header(shape)[4] = Other[2]
    BY <2>1, <2>2, <1>2, <1>3, <1>4
  <2> QED
    BY <2>3, <1>2, <1>3, <1>4, <1>6 DEF HeaderFacts, HeaderLength, Said
<1>7. CASE shape = "missing"
  BY <1>3, <1>7 DEF HeaderFacts, HeaderLength, Header
<1>8. CASE shape \in {"plain", "wrong", "huge", "short", "long"}
  <2>1. Header(shape) = Says(IF shape = "wrong" THEN Wrong ELSE Said(shape))
    BY <1>8 DEF Header, Said
  <2>2. (IF shape = "wrong" THEN Wrong ELSE Said(shape)) \in -2..MaxLength + 1
    BY <1>4, <1>8 DEF Said
  <2> QED
    BY <2>1, <2>2, <1>2, <1>8 DEF HeaderFacts, HeaderLength
<1> QED
  BY <1>5, <1>6, <1>7, <1>8 DEF Shapes

\* A message is as long as FrameLength says, and its units are those of FrameUnit.
LEMMA FrameUnits ==
  ASSUME NEW i \in 1..MaxSends + 1, NEW shape \in Shapes
  PROVE  /\ Frame(i, shape) \in Seq(Piece)
         /\ Len(Frame(i, shape)) = FrameLength(shape)
         /\ \A k \in 1..FrameLength(shape) : Frame(i, shape)[k] = FrameUnit(i, shape, k)
<1>1. Size \in Nat /\ MaxLength \in Nat /\ Size > 0 /\ MaxLength > Size /\ MaxSends \in Nat
  BY LspConstants
<1>2. /\ Header(shape) \in Seq(Piece) /\ Len(Header(shape)) = HeaderLength(shape)
      /\ HeaderLength(shape) \in Nat
  BY HeaderUnits DEF HeaderFacts, HeaderLength
<1>3. <<End>> \in Seq(Piece) /\ Len(<<End>>) = 1 /\ <<End>>[1] = End
  BY <1>1 DEF End, Unit, Piece
<1>4. /\ Body(i) \in Seq(Piece) /\ Len(Body(i)) = Size
      /\ \A k \in 1..Size : Body(i)[k] = Unit("part", i, k)
  <2>1. \A k \in 1..Size : Unit("part", i, k) \in Piece
    BY <1>1 DEF Unit, Piece
  <2>2. Body(i) \in [1..Size -> Piece]
    BY <2>1 DEF Body
  <2>3. Body(i) \in Seq(Piece) /\ Len(Body(i)) = Size
    BY <1>1, <2>2
  <2> QED
    BY <2>3 DEF Body
<1> DEFINE e == <<End>>
           h == Header(shape) \o e
           b == Body(i)
<1>5. /\ h \in Seq(Piece) /\ Len(h) = HeaderLength(shape) + 1
      /\ \A k \in 1..HeaderLength(shape) : h[k] = Header(shape)[k]
      /\ h[HeaderLength(shape) + 1] = End
  <2>1. e \in Seq(Piece) /\ Len(e) = 1 /\ e[1] = End
    BY <1>3
  <2> HIDE DEF e
  <2>2. /\ h \in Seq(Piece)
        /\ Len(h) = Len(Header(shape)) + Len(e)
        /\ \A k \in 1..Len(Header(shape)) : h[k] = Header(shape)[k]
        /\ \A k \in 1..Len(e) : h[Len(Header(shape)) + k] = e[k]
    BY <1>2, <2>1, Joined
  <2> QED BY <1>2, <2>1, <2>2
<1>6. /\ h \o b \in Seq(Piece) /\ Len(h \o b) = (HeaderLength(shape) + 1) + Size
      /\ \A k \in 1..HeaderLength(shape) + 1 : (h \o b)[k] = h[k]
      /\ \A k \in 1..Size : (h \o b)[(HeaderLength(shape) + 1) + k] = Unit("part", i, k)
  <2>1. b \in Seq(Piece) /\ Len(b) = Size /\ \A k \in 1..Size : b[k] = Unit("part", i, k)
    BY <1>4
  <2> HIDE DEF h, b
  <2>2. /\ h \o b \in Seq(Piece)
        /\ Len(h \o b) = Len(h) + Len(b)
        /\ \A k \in 1..Len(h) : (h \o b)[k] = h[k]
        /\ \A k \in 1..Len(b) : (h \o b)[Len(h) + k] = b[k]
    BY <1>5, <2>1, Joined
  <2> QED BY <1>1, <1>2, <1>5, <2>1, <2>2
<1>7. Frame(i, shape) = h \o b
  BY DEF Frame
<1> HIDE DEF h, b
<1>8. ASSUME NEW k \in 1..FrameLength(shape)
      PROVE  Frame(i, shape)[k] = FrameUnit(i, shape, k)
  <2>1. k \in Nat /\ k >= 1 /\ k <= HeaderLength(shape) + 1 + Size
    BY <1>8, <1>1, <1>2 DEF FrameLength
  <2>2. CASE k <= HeaderLength(shape)
    <3>1. k \in 1..HeaderLength(shape) /\ k \in 1..HeaderLength(shape) + 1
      BY <2>1, <2>2, <1>2
    <3> QED BY <2>2, <3>1, <1>5, <1>6, <1>7 DEF FrameUnit
  <2>3. CASE k = HeaderLength(shape) + 1
    <3>1. k \in 1..HeaderLength(shape) + 1 /\ ~(k <= HeaderLength(shape))
      BY <2>1, <2>3, <1>2
    <3> QED BY <2>3, <3>1, <1>3, <1>5, <1>6, <1>7 DEF FrameUnit
  <2>4. CASE k > HeaderLength(shape) + 1
    <3>1. PICK j \in 1..Size : k = (HeaderLength(shape) + 1) + j
      <4>1. k - HeaderLength(shape) - 1 \in 1..Size
            /\ k = (HeaderLength(shape) + 1) + (k - HeaderLength(shape) - 1)
        BY <2>1, <2>4, <1>1, <1>2
      <4> QED BY <4>1
    <3>2. ~(k <= HeaderLength(shape)) /\ k # HeaderLength(shape) + 1
          /\ k - HeaderLength(shape) - 1 = j
      BY <2>1, <2>4, <3>1, <1>1, <1>2
    <3> QED
      BY <3>1, <3>2, <1>4, <1>6, <1>7 DEF FrameUnit
  <2> QED BY <2>1, <2>2, <2>3, <2>4, <1>2
<1> QED
  BY <1>1, <1>2, <1>6, <1>7, <1>8 DEF FrameLength

\* What there is at each place of a message.
LEMMA Units ==
  ASSUME NEW i, NEW shape \in Shapes, NEW k \in 0..FrameLength(shape) - 1
  PROVE  LET u == FrameUnit(i, shape, k + 1)
         IN  /\ u.is \in {"length", "other", "end", "part"} /\ (u = End <=> u.is = "end")
             /\ u.is = "length" =>
                  \/ /\ k = 0 /\ shape \notin {"typed", "missing"}
                     /\ u.n = IF shape = "wrong" THEN Wrong ELSE Said(shape)
                  \/ k = 2 /\ shape = "typed" /\ u.n = Size
             /\ u.is = "other" =>
                  (k = 0 /\ shape \in {"typed", "missing"}) \/ (k = 2 /\ shape = "trailed")
             /\ u.is = "end" =>
                  \/ k \in {1, HeaderLength(shape)}
                  \/ k = 3 /\ shape \in {"typed", "trailed"}
             /\ u.is = "part" <=> k > HeaderLength(shape)
             /\ k \in {1, HeaderLength(shape)} => u = End
             /\ k = 3 /\ shape \in {"typed", "trailed"} => u = End
<1>1. Size \in Nat /\ k \in Nat /\ HeaderLength(shape) \in {2, 4}
  BY LspConstants DEF HeaderLength, FrameLength
<1>2. HeaderFacts(shape)
  BY HeaderUnits
<1>3. CASE k > HeaderLength(shape)
  <2>1. FrameUnit(i, shape, k + 1) = Unit("part", i, k - HeaderLength(shape))
    BY <1>1, <1>3 DEF FrameUnit
  <2> QED
    BY <1>1, <1>3, <2>1 DEF Unit, End, HeaderLength
<1>4. CASE k = HeaderLength(shape)
  <2>1. FrameUnit(i, shape, k + 1) = End
    BY <1>1, <1>4 DEF FrameUnit
  <2> QED
    BY <1>1, <1>4, <2>1 DEF Unit, End
<1>5. CASE k < HeaderLength(shape)
  <2>1. FrameUnit(i, shape, k + 1) = Header(shape)[k + 1]
    BY <1>1, <1>5 DEF FrameUnit
  <2>2. CASE k = 0
    BY <1>1, <1>2, <2>1, <2>2 DEF HeaderFacts, Unit, End
  <2>3. CASE k = 1
    BY <1>1, <1>2, <2>1, <2>3 DEF HeaderFacts, Unit, End
  <2>4. CASE k = 2
    BY <1>1, <1>2, <1>5, <2>1, <2>4 DEF HeaderFacts, HeaderLength, Unit, End
  <2>5. CASE k = 3
    BY <1>1, <1>2, <1>5, <2>1, <2>5 DEF HeaderFacts, HeaderLength, Unit, End
  <2> QED BY <1>1, <1>5, <2>2, <2>3, <2>4, <2>5
<1> QED
  BY <1>1, <1>3, <1>4, <1>5

\* What is left when k units have been read (read_line and read_exact).
LEMMA RestIs ==
  ASSUME wire \in Seq(Piece), NEW k \in 0..Len(wire)
  PROVE  /\ Rest(k) \in Seq(Piece)
         /\ Len(Rest(k)) = Len(wire) - k
         /\ \A p \in 1..Len(wire) - k : Rest(k)[p] = wire[k + p]
<1>1. Len(wire) \in Nat /\ k \in Nat /\ k + 1 \in Int /\ k <= Len(wire)
  BY LenProperties
<1>2. \A p \in k + 1..Len(wire) : wire[p] \in Piece
  BY <1>1, ElementOfSeq
<1>3. /\ SubSeq(wire, k + 1, Len(wire)) \in Seq(Piece)
      /\ Len(SubSeq(wire, k + 1, Len(wire)))
           = IF k + 1 <= Len(wire) THEN Len(wire) - (k + 1) + 1 ELSE 0
      /\ \A p \in 1..Len(wire) - (k + 1) + 1 :
           SubSeq(wire, k + 1, Len(wire))[p] = wire[k + 1 + p - 1]
  BY <1>1, <1>2, SubSeqProperties
<1>4. ASSUME NEW p \in 1..Len(wire) - k
      PROVE  Rest(k)[p] = wire[k + p]
  <2>1. p \in 1..Len(wire) - (k + 1) + 1 /\ k + 1 + p - 1 = k + p
    BY <1>1
  <2> QED BY <1>3, <2>1 DEF Rest
<1> QED
  BY <1>1, <1>3, <1>4 DEF Rest

\* The end of a line is the first of the line ends.
LEMMA LineEndIs ==
  ASSUME wire \in Seq(Piece), NEW k \in 1..Len(wire), wire[k] = End,
         \A j \in 1..k - 1 : wire[j] # End
  PROVE  LineEnd = k
<1>1. Len(wire) \in Nat
  BY LenProperties
<1>2. k \in Ends /\ \A j \in Ends : k <= j
  <2>1. ASSUME NEW j \in Ends, j < k PROVE FALSE
    <3>1. j \in 1..k - 1 /\ wire[j] = End
      BY <1>1, <2>1 DEF Ends
    <3> QED BY <3>1
  <2> QED BY <1>1, <2>1 DEF Ends
<1>3. \A i \in Ends : (\A j \in Ends : i <= j) => i = k
  BY <1>1, <1>2 DEF Ends
<1>4. LineEnd = CHOOSE i \in Ends : \A j \in Ends : i <= j
  BY <1>2 DEF LineEnd
<1> QED
  BY <1>2, <1>3, <1>4

-----------------------------------------------------------------------------
(* The layout of the stream.                                               *)

\* The numbers of a layout.
LEMMA LayoutTypes ==
  ASSUME NEW shapes, NEW start, NEW read, Layout(shapes, start, read),
         Len(sent) \in Nat, wire \in Seq(Piece)
  PROVE  /\ read \in Nat /\ Len(wire) \in Nat
         /\ \A i \in 1..Len(sent) + 1 :
              /\ shapes[i] \in Shapes /\ start[i] \in Nat /\ start[i + 1] \in Nat
              /\ start[i + 1] = start[i] + FrameLength(shapes[i])
              /\ HeaderLength(shapes[i]) \in {2, 4}
              /\ FrameLength(shapes[i]) = HeaderLength(shapes[i]) + 1 + Size
              /\ FrameLength(shapes[i]) \in Nat
<1>1. read \in Nat /\ Len(wire) \in Nat
  BY LenProperties DEF Layout
<1>2. ASSUME NEW i \in 1..Len(sent) + 1
      PROVE  /\ shapes[i] \in Shapes /\ start[i] \in Nat /\ start[i + 1] \in Nat
             /\ start[i + 1] = start[i] + FrameLength(shapes[i])
  <2>1. i \in 1..Len(sent) + 2 /\ i + 1 \in 1..Len(sent) + 2
    OBVIOUS
  <2> QED BY <2>1 DEF Layout
<1>3. \A i \in 1..Len(sent) + 1 :
        /\ HeaderLength(shapes[i]) \in {2, 4}
        /\ FrameLength(shapes[i]) = HeaderLength(shapes[i]) + 1 + Size
        /\ FrameLength(shapes[i]) \in Nat
  BY LspConstants DEF FrameLength, HeaderLength
<1> QED
  BY <1>1, <1>2, <1>3

\* A unit of a message, while it is on the wire.
LEMMA UnitAt ==
  ASSUME NEW shapes, NEW start, NEW read, Layout(shapes, start, read),
         Len(sent) \in Nat, wire \in Seq(Piece),
         NEW i \in 1..Len(sent) + 1, NEW k \in 1..FrameLength(shapes[i]),
         NEW p \in 1..Len(wire), read + p = start[i] + k
  PROVE  wire[p] = FrameUnit(i, shapes[i], k)
<1>1. read \in Nat /\ Len(wire) \in Nat /\ start[i] \in Nat /\ k \in Int
      /\ FrameLength(shapes[i]) \in Nat
  BY LayoutTypes
<1>2. read < start[i] + k /\ start[i] + k <= read + Len(wire) /\ start[i] + k - read = p
  BY <1>1
<1> QED
  BY <1>2 DEF Layout

\* Places on the wire move to its front as units are read.
LEMMA Shifted ==
  ASSUME NEW l \in Nat, NEW r \in Nat, NEW k \in 0..l, NEW s \in Nat, NEW j \in Nat,
         r + k < s + j, s + j <= r + l
  PROVE  \E p \in 1..l - k, q \in 1..l : p = s + j - (r + k) /\ q = k + p /\ r + q = s + j
<1>1. s + j - (r + k) \in 1..l - k /\ s + j - r \in 1..l
      /\ s + j - r = k + (s + j - (r + k)) /\ r + (s + j - r) = s + j
  OBVIOUS
<1> QED BY <1>1

\* The server reads on.
LEMMA Advances ==
  ASSUME NEW shapes, NEW start, NEW read, Layout(shapes, start, read),
         Len(sent) \in Nat, wire \in Seq(Piece),
         NEW k \in 0..Len(wire), wire' = Rest(k), UNCHANGED <<sent, gone>>
  PROVE  Layout(shapes, start, read + k)'
<1>1. read \in Nat /\ Len(wire) \in Nat /\ k \in Nat /\ k <= Len(wire)
  BY LayoutTypes
<1>2. Len(wire') = Len(wire) - k /\ \A p \in 1..Len(wire) - k : wire'[p] = wire[k + p]
  BY RestIs
<1>3. (read + k) + Len(wire') = read + Len(wire) /\ read + k \in Nat
  BY <1>1, <1>2
<1>4. ASSUME NEW i \in 1..Len(sent) + 1, NEW j \in 1..FrameLength(shapes[i]),
             read + k < start[i] + j, start[i] + j <= read + Len(wire)
      PROVE  wire'[start[i] + j - (read + k)] = FrameUnit(i, shapes[i], j)
  <2>1. start[i] \in Nat /\ FrameLength(shapes[i]) \in Nat
    BY LayoutTypes
  <2>2. j \in Nat /\ Len(wire) - k \in Nat
    BY <1>1, <2>1
  <2>3. PICK p \in 1..Len(wire) - k, q \in 1..Len(wire) :
          p = start[i] + j - (read + k) /\ q = k + p /\ read + q = start[i] + j
    <3>1. PICK l \in Nat, s \in Nat : l = Len(wire) /\ s = start[i]
      BY <1>1, <2>1
    <3>2. k \in 0..l /\ read + k < s + j /\ s + j <= read + l
      BY <1>4, <3>1
    <3>3. \E p \in 1..l - k, q \in 1..l : p = s + j - (read + k) /\ q = k + p /\ read + q = s + j
      BY <1>1, <2>2, <3>2, Shifted
    <3> QED BY <3>1, <3>3
  <2>4. wire[q] = FrameUnit(i, shapes[i], j)
    BY <2>3, UnitAt
  <2> QED BY <1>2, <2>3, <2>4
<1> QED
  BY <1>3, <1>4 DEF Layout

\* No message begins with a blank line.
LEMMA FirstLine ==
  ASSUME NEW i, NEW shape \in Shapes
  PROVE  FrameUnit(i, shape, 1) # End /\ FrameUnit(i, shape, 2) = End
<1>1. HeaderFacts(shape)
  BY HeaderUnits
<1>2. FrameUnit(i, shape, 1) = Header(shape)[1] /\ FrameUnit(i, shape, 2) = Header(shape)[2]
  BY DEF FrameUnit, HeaderLength
<1> QED
  BY <1>1, <1>2 DEF HeaderFacts, Unit, End

\* Where the next line ends: in the header the server is in, or, if it is in a
\* body, after the first line of the next message.
LEMMA NextLine ==
  ASSUME NEW shapes, NEW start, NEW read, Layout(shapes, start, read),
         Len(sent) \in Nat, wire \in Seq(Piece), Ends # {},
         NEW m, NEW k, Within(shapes, start, read, m, k)
  PROVE  /\ LineEnd \in 1..Len(wire)
         /\ wire[1] = FrameUnit(m, shapes[m], k + 1)
         /\ wire[1].is = "end" => Within(shapes, start, read + LineEnd, m, k + 1)
         /\ wire[1].is \in {"length", "other"} =>
              Within(shapes, start, read + LineEnd, m, k + 2)
         /\ wire[1].is = "part" => Within(shapes, start, read + LineEnd, m + 1, 2)
<1>0. PICK q \in Ends : TRUE
  OBVIOUS
<1>1. PICK l \in Nat, n \in Nat : l = Len(wire) /\ n = Len(sent)
  BY LayoutTypes
<1>2. q \in 1..l /\ wire[q] = End /\ 1 \in 1..l
  BY <1>0, <1>1 DEF Ends
<1>3. PICK s \in Nat, h \in {2, 4}, f \in Nat :
        s = start[m] /\ h = HeaderLength(shapes[m]) /\ f = FrameLength(shapes[m])
  BY LayoutTypes DEF Within
<1>4. /\ m \in 1..n + 1 /\ shapes[m] \in Shapes
      /\ k \in 0..f - 1 /\ read = s + k /\ read \in Nat
      /\ f = h + 1 + Size /\ Size \in Nat /\ Size > 0
  BY <1>1, <1>3, LayoutTypes, LspConstants DEF Within
<1>5. ASSUME NEW p \in 1..l, NEW j \in 1..f, read + p = s + j
      PROVE  wire[p] = FrameUnit(m, shapes[m], j)
  <2>1. /\ m \in 1..Len(sent) + 1 /\ j \in 1..FrameLength(shapes[m]) /\ p \in 1..Len(wire)
        /\ read + p = start[m] + j
    BY <1>1, <1>3, <1>4, <1>5
  <2> QED BY <2>1, UnitAt
<1>6. wire[1] = FrameUnit(m, shapes[m], k + 1)
  <2>1. k + 1 \in 1..f /\ read + 1 = s + (k + 1)
    BY <1>4
  <2> QED BY <1>2, <1>5, <2>1
<1> DEFINE u == FrameUnit(m, shapes[m], k + 1)
<1>7. /\ u.is \in {"length", "other", "end", "part"} /\ (u = End <=> u.is = "end")
      /\ u.is = "length" => k = 0 \/ (k = 2 /\ h = 4)
      /\ u.is = "other" => k = 0 \/ (k = 2 /\ h = 4)
      /\ u.is = "end" => k <= h
      /\ u.is = "part" => k > h
  <2>1. k \in 0..FrameLength(shapes[m]) - 1 /\ (h = 4 <=> shapes[m] \in {"typed", "trailed"})
    BY <1>3, <1>4 DEF HeaderLength
  <2>2. /\ u.is \in {"length", "other", "end", "part"} /\ (u = End <=> u.is = "end")
        /\ u.is = "length" => k = 0 \/ (k = 2 /\ shapes[m] = "typed")
        /\ u.is = "other" => k = 0 \/ (k = 2 /\ shapes[m] = "trailed")
        /\ u.is = "end" =>
             k \in {1, HeaderLength(shapes[m])} \/ (k = 3 /\ shapes[m] \in {"typed", "trailed"})
        /\ u.is = "part" <=> k > HeaderLength(shapes[m])
    BY <1>4, <2>1, Units
  <2> HIDE DEF u
  <2> QED BY <1>3, <1>4, <2>1, <2>2
<1> HIDE DEF u
<1>8. CASE wire[1].is = "end"
  <2>1. LineEnd = 1
    BY <1>1, <1>2, <1>6, <1>7, <1>8, LineEndIs DEF u
  <2>2. k + 1 \in 0..f - 1 /\ read + 1 = s + (k + 1)
    BY <1>4, <1>6, <1>7, <1>8 DEF u
  <2> QED
    BY <1>1, <1>2, <1>3, <1>4, <1>6, <1>8, <2>1, <2>2 DEF Within
<1>9. CASE wire[1].is \in {"length", "other"}
  <2>1. k = 0 \/ (k = 2 /\ h = 4)
    BY <1>6, <1>7, <1>9 DEF u
  <2>2. q # 1
    BY <1>2, <1>6, <1>7, <1>9 DEF u
  <2>3. 2 \in 1..l /\ k + 2 \in 1..f /\ k + 2 \in 0..f - 1 /\ k + 1 \in 0..f - 1
        /\ read + 2 = s + (k + 2)
        /\ (k + 1) + 1 = k + 2
    BY <1>2, <1>4, <2>1, <2>2
  <2>4. wire[2] = FrameUnit(m, shapes[m], k + 2)
    BY <1>5, <2>3
  <2>5. FrameUnit(m, shapes[m], (k + 1) + 1) = End
    <3>1. k + 1 = 1 \/ (k + 1 = 3 /\ shapes[m] \in {"typed", "trailed"})
      BY <1>3, <1>4, <2>1 DEF HeaderLength
    <3>2. k + 1 \in 0..FrameLength(shapes[m]) - 1 /\ shapes[m] \in Shapes
      BY <1>3, <1>4, <2>3
    <3>3. /\ k + 1 \in {1, HeaderLength(shapes[m])} => FrameUnit(m, shapes[m], (k + 1) + 1) = End
          /\ k + 1 = 3 /\ shapes[m] \in {"typed", "trailed"}
               => FrameUnit(m, shapes[m], (k + 1) + 1) = End
      BY <3>2, Units
    <3> QED BY <3>1, <3>3
  <2>6. wire[2] = End /\ wire[1] # End
    BY <1>6, <1>7, <1>9, <2>3, <2>4, <2>5 DEF u
  <2>7. LineEnd = 2
    <3>1. \A j \in 1..2 - 1 : wire[j] # End
      BY <2>6
    <3>2. 2 \in 1..Len(wire)
      BY <1>1, <2>3
    <3> QED BY <2>6, <3>1, <3>2, LineEndIs
  <2> QED
    BY <1>1, <1>3, <1>4, <1>6, <1>9, <2>3, <2>7 DEF Within
<1>10. CASE wire[1].is = "part"
  <2>1. k > h
    BY <1>6, <1>7, <1>10 DEF u
  \* the rest of this message holds no line end
  <2>2. ASSUME NEW p \in 1..l, read + p <= s + f
        PROVE  wire[p] # End
    <3>1. PICK j \in 0..f - 1 : read + p = s + (j + 1) /\ j >= k
      <4>1. k + p - 1 \in 0..f - 1 /\ read + p = s + ((k + p - 1) + 1) /\ k + p - 1 >= k
        BY <1>4, <2>2
      <4> QED BY <4>1
    <3>2. j + 1 \in 1..f /\ j > h
      BY <1>4, <2>1, <3>1
    <3>3. wire[p] = FrameUnit(m, shapes[m], j + 1)
      BY <1>5, <3>1, <3>2
    <3>4. FrameUnit(m, shapes[m], j + 1).is = "part" /\ FrameUnit(m, shapes[m], j + 1) # End
      <4>1. j \in 0..FrameLength(shapes[m]) - 1 /\ j > HeaderLength(shapes[m])
        BY <1>3, <1>4, <3>1, <3>2
      <4>2. /\ FrameUnit(m, shapes[m], j + 1) = End <=> FrameUnit(m, shapes[m], j + 1).is = "end"
            /\ FrameUnit(m, shapes[m], j + 1).is = "part" <=> j > HeaderLength(shapes[m])
        BY <1>4, <4>1, Units
      <4> QED BY <4>1, <4>2
    <3> QED BY <3>3, <3>4
  <2>3. read + q > s + f
    BY <1>2, <1>4, <2>2
  <2>4. m <= n /\ start[m + 1] = s + f
    <3>1. start[m + 1] = s + f
      BY <1>1, <1>3, <1>4, LayoutTypes
    <3>2. m = n + 1 => read + l < s + f \/ read + l = s
      BY <1>1, <1>3, <3>1 DEF Layout
    <3> QED BY <1>2, <1>4, <2>3, <3>1, <3>2
  <2>5. PICK t \in Shapes, g \in Nat : t = shapes[m + 1] /\ g = FrameLength(t) /\ g >= 4
    <3>1. m + 1 \in 1..Len(sent) + 1
      BY <1>1, <1>4, <2>4
    <3>2. /\ shapes[m + 1] \in Shapes
          /\ HeaderLength(shapes[m + 1]) \in {2, 4}
          /\ FrameLength(shapes[m + 1]) = HeaderLength(shapes[m + 1]) + 1 + Size
          /\ FrameLength(shapes[m + 1]) \in Nat
      BY <3>1, LayoutTypes
    <3>3. FrameLength(shapes[m + 1]) >= 4
      BY <3>2, <1>4
    <3> QED BY <3>2, <3>3
  <2>6. FrameUnit(m + 1, t, 1) # End /\ FrameUnit(m + 1, t, 2) = End
    BY FirstLine
  <2>7. ASSUME NEW p \in 1..l, NEW j \in 1..g, read + p = (s + f) + j
        PROVE  wire[p] = FrameUnit(m + 1, t, j)
    <3>1. m + 1 \in 1..Len(sent) + 1
      BY <1>1, <1>4, <2>4
    <3> QED BY <1>1, <2>4, <2>5, <2>7, <3>1, UnitAt
  <2>8. ASSUME NEW p \in 1..l, read + p <= s + f + 1
        PROVE  wire[p] # End
    <3>1. CASE read + p <= s + f
      BY <2>2, <3>1
    <3>2. CASE read + p = (s + f) + 1
      <4>1. 1 \in 1..g
        BY <2>5
      <4> QED BY <2>6, <2>7, <3>2, <4>1
    <3> QED BY <1>4, <2>8, <3>1, <3>2
  <2>9. read + q >= s + f + 2
    BY <1>2, <1>4, <2>8
  <2>10. PICK e \in 1..l : read + e = (s + f) + 2
    <3>1. s + f + 2 - read \in 1..l /\ read + (s + f + 2 - read) = (s + f) + 2
      BY <1>2, <1>4, <2>9
    <3> QED BY <3>1
  <2>11. wire[e] = End
    <3>1. 2 \in 1..g
      BY <2>5
    <3> QED BY <2>6, <2>7, <2>10, <3>1
  <2>12. LineEnd = e
    <3>1. \A j \in 1..e - 1 : wire[j] # End
      BY <1>4, <2>8, <2>10
    <3> QED BY <1>1, <2>11, <3>1, LineEndIs
  <2>13. m + 1 \in 1..n + 1 /\ 2 \in 0..g - 1
    BY <1>4, <2>4, <2>5
  <2> QED
    BY <1>1, <1>6, <1>10, <2>4, <2>5, <2>10, <2>12, <2>13 DEF Within
<1> QED
  BY <1>6, <1>7, <1>8, <1>9, <1>10 DEF u

-----------------------------------------------------------------------------
(* Types.                                                                  *)

\* What the histories hold.
SentMessage == [message : Message, framed : BOOLEAN, edition : 0..MaxEdits]
Given == [kind : {"result", "error"} \cup Diagnostics, to : 1..MaxSends, edition : 0..MaxEdits]

\* Types, with the sequences whole.
Types ==
  /\ wire \in Seq(Piece)
  /\ gone \in BOOLEAN
  /\ sent \in Seq(SentMessage) /\ Len(sent) <= MaxSends
  /\ pc \in {"headers", "body", "handle", "publish", "ended"}
  /\ length \in -1..MaxLength + 1
  /\ pc = "body" => length \in 0..MaxLength
  /\ reading \in 0..Len(sent) /\ done \in 0..Len(sent)
  /\ pc \in {"handle", "publish"} => reading > 0
  /\ report \in 0..MaxEdits
  /\ replies \in Seq(Given)
  /\ edition \in [Doc -> 0..MaxEdits]

\* They are the types of the runs.
LEMMA TypesImply == Types => TypeOK
<1> SUFFICES ASSUME Types PROVE TypeOK
  OBVIOUS
<1>1. \A k \in 1..Len(wire) : wire[k] \in Piece
  BY ElementOfSeq DEF Types
<1>2. \A k \in 1..Len(wire) : wire[k] \in
        [is : {"length", "other", "end", "part"}, n : -2..MaxLength + MaxSends + 1, at : 0..Size]
  BY <1>1 DEF Piece
<1>3. \A i \in 1..Len(sent) : sent[i] \in SentMessage
  BY ElementOfSeq DEF Types
<1>4. \A k \in 1..Len(replies) : replies[k] \in Given
  BY ElementOfSeq DEF Types
<1> QED
  BY <1>2, <1>3, <1>4 DEF Types, TypeOK, SentMessage, Given

\* There is a number for one more message.
LEMMA Room ==
  ASSUME Types
  PROVE  /\ Len(sent) \in Nat /\ Len(sent) + 1 \in Nat /\ MaxSends \in Nat
         /\ Len(sent) + 1 \in 1..MaxSends + 1
<1>1. Len(sent) \in Nat
  BY LenProperties DEF Types
<1> QED BY <1>1, LspConstants DEF Types

\* Send appends a message, and keeps the types.
LEMMA SendTyped ==
  ASSUME Types, NEW t \in Traffic, Send(t)
  PROVE  Types' /\ Len(sent') = Len(sent) + 1
         /\ sent'[Len(sent) + 1] = [message |-> t.message, framed |-> Framed(t.shape),
                                    edition |-> EditionOf(t.message)]
         /\ \A i \in 1..Len(sent) : sent'[i] = sent[i]
<1>1. t.message \in Message /\ t.shape \in Shapes /\ t.message.doc \in Doc \cup {NoDoc}
  BY LspConstants DEF Message
<1>2. EditionOf(t.message) \in 0..MaxEdits
  BY <1>1, LspConstants DEF EditionOf, Types
<1> DEFINE s == [message |-> t.message, framed |-> Framed(t.shape),
                 edition |-> EditionOf(t.message)]
<1>3. s \in SentMessage
  BY <1>1, <1>2 DEF SentMessage, Framed
<1>4. sent' = Append(sent, s)
  BY DEF Send
<1> HIDE DEF s
<1>5. /\ Append(sent, s) \in Seq(SentMessage) /\ Len(Append(sent, s)) = Len(sent) + 1
      /\ \A i \in 1..Len(sent) : Append(sent, s)[i] = sent[i]
      /\ Append(sent, s)[Len(sent) + 1] = s
  BY <1>3, AppendProperties DEF Types
<1>6. wire' \in Seq(Piece)
  <2>1. Len(sent) + 1 \in 1..MaxSends + 1
    BY Room
  <2>2. Frame(Len(sent) + 1, t.shape) \in Seq(Piece)
    BY <1>1, <2>1, FrameUnits
  <2>3. wire \o Frame(Len(sent) + 1, t.shape) \in Seq(Piece)
    BY <2>2, Joined DEF Types
  <2> QED BY <2>3 DEF Send
<1>7. Len(sent') <= MaxSends
  BY <1>4, <1>5, Room DEF Send, Types
<1>8. reading' \in 0..Len(sent') /\ done' \in 0..Len(sent')
  BY <1>4, <1>5, Room DEF Send, Types
<1>9. Types'
  BY <1>4, <1>5, <1>6, <1>7, <1>8 DEF Send, Types
<1> QED BY <1>4, <1>5, <1>9 DEF s

\* What is heard last of an editor that leaves in the middle of a message.
LEMMA Cut ==
  ASSUME Types, NEW cut \in 0..Len(Frame(1, "plain")) - 1
  PROVE  LET tail == SubSeq(Frame(Len(sent) + 1, "plain"), 1, cut)
         IN  /\ tail \in Seq(Piece) /\ Len(tail) = cut /\ cut < FrameLength("plain") /\ cut \in Nat
             /\ \A p \in 1..cut : tail[p] = FrameUnit(Len(sent) + 1, "plain", p)
<1>1. 1 \in 1..MaxSends + 1 /\ Len(sent) + 1 \in 1..MaxSends + 1 /\ "plain" \in Shapes
  BY Room DEF Shapes
<1>2. Len(Frame(1, "plain")) = FrameLength("plain") /\ FrameLength("plain") \in Nat
  BY <1>1, FrameUnits, LspConstants DEF FrameLength, HeaderLength
<1> DEFINE f == Frame(Len(sent) + 1, "plain")
<1>3. /\ f \in Seq(Piece) /\ Len(f) = FrameLength("plain")
      /\ \A k \in 1..FrameLength("plain") : f[k] = FrameUnit(Len(sent) + 1, "plain", k)
  BY <1>1, FrameUnits
<1>4. cut \in Nat /\ cut < FrameLength("plain")
  BY <1>2
<1> HIDE DEF f
<1>5. \A k \in 1..cut : f[k] \in Piece /\ f[k] = FrameUnit(Len(sent) + 1, "plain", k)
  BY <1>2, <1>3, <1>4, ElementOfSeq
<1>6. PICK one \in Int : one = 1
  OBVIOUS
<1>7. /\ SubSeq(f, one, cut) \in Seq(Piece)
      /\ Len(SubSeq(f, one, cut)) = IF one <= cut THEN cut - one + 1 ELSE 0
      /\ \A i \in 1..cut - one + 1 : SubSeq(f, one, cut)[i] = f[one + i - 1]
  <2>1. \A i \in one..cut : f[i] \in Piece
    BY <1>5, <1>6
  <2>2. cut \in Int
    BY <1>4
  <2> QED BY <2>1, <2>2, SubSeqProperties
<1>8. /\ SubSeq(f, 1, cut) \in Seq(Piece) /\ Len(SubSeq(f, 1, cut)) = cut
      /\ \A i \in 1..cut : SubSeq(f, 1, cut)[i] = f[i]
  BY <1>4, <1>6, <1>7
<1> QED
  BY <1>4, <1>5, <1>8 DEF f

\* Leave keeps the types.
LEMMA LeaveTyped ==
  ASSUME Types, NEW cut \in 0..Len(Frame(1, "plain")) - 1, Leave(cut)
  PROVE  Types'
<1>1. SubSeq(Frame(Len(sent) + 1, "plain"), 1, cut) \in Seq(Piece)
  BY Cut
<1>2. wire' \in Seq(Piece)
  BY <1>1, Joined DEF Leave, Types
<1> QED BY <1>2 DEF Leave, Types

\* Finish keeps the types (handle_message, lib.rs 115).
LEMMA FinishTyped ==
  ASSUME Types, NEW answers \in Seq(Given), NEW next \in {"headers", "ended"},
         Finish(answers, next)
  PROVE  Types'
<1>1. replies \o answers \in Seq(Given)
  BY ConcatProperties DEF Types
<1> QED BY <1>1 DEF Finish, Types, Server

\* Answer keeps the types, written or not (write_message).
LEMMA AnswerTyped ==
  ASSUME Types, pc \in {"handle", "publish"},
         NEW kind \in {"result", "error"} \cup Diagnostics, NEW e \in 0..MaxEdits,
         Answer(Reply(kind, reading, e))
  PROVE  Types'
<1>1. reading \in 1..MaxSends
  BY Room DEF Types
<1> DEFINE r == Reply(kind, reading, e)
<1>2. r \in Given
  BY <1>1 DEF Reply, Given
<1> HIDE DEF r
<1>3. <<r>> \in Seq(Given)
  BY <1>2
<1> DEFINE rs == <<r>>
<1> HIDE DEF rs
<1>4. CASE Finish(rs, "headers")
  BY <1>3, <1>4, FinishTyped DEF rs
<1>5. CASE pc' = "ended" /\ UNCHANGED <<wire, length, reading, report, replies, done, Server>>
  BY <1>5 DEF Types, Server
<1> QED BY <1>4, <1>5 DEF Answer, r, rs

-----------------------------------------------------------------------------
(* The editor writes.                                                      *)

\* What is written behind the stream: the first units of one more message.
Behind(start, read, tail, shape) ==
  /\ tail \in Seq(Piece)
  /\ read + Len(wire) = start[Len(sent) + 1]
  /\ \A p \in 1..Len(tail) : tail[p] = FrameUnit(Len(sent) + 1, shape, p)

\* What is on the wire is where it was, and the tail follows it.
Grown(shapes, start, read, tail, shape) ==
  /\ Len(wire') = Len(wire) + Len(tail) /\ Len(tail) \in Nat
  /\ \A i \in 1..Len(sent) : \A k \in 1..FrameLength(shapes[i]) :
       read < start[i] + k => wire'[start[i] + k - read] = FrameUnit(i, shapes[i], k)
  /\ \A k \in 1..Len(tail) :
       wire'[start[Len(sent) + 1] + k - read] = FrameUnit(Len(sent) + 1, shape, k)

\* Writing leaves what was written where it was.
LEMMA Grows ==
  ASSUME NEW shapes, NEW start, NEW read, Layout(shapes, start, read), Types,
         NEW tail, NEW shape, Behind(start, read, tail, shape), wire' = wire \o tail
  PROVE  Grown(shapes, start, read, tail, shape)
<1>1. Len(sent) \in Nat /\ wire \in Seq(Piece) /\ tail \in Seq(Piece)
  BY Room DEF Types, Behind
<1>2. PICK l \in Nat, n \in Nat, z \in Nat : l = Len(wire) /\ n = Len(sent) /\ z = Len(tail)
  BY <1>1, LenProperties
<1>3. /\ Len(wire \o tail) = Len(wire) + Len(tail)
      /\ \A k \in 1..Len(wire) : (wire \o tail)[k] = wire[k]
      /\ \A k \in 1..Len(tail) : (wire \o tail)[Len(wire) + k] = tail[k]
  BY <1>1, Joined
<1>4. /\ read \in Nat /\ read + l = start[n + 1]
      /\ \A p \in 1..z : tail[p] = FrameUnit(n + 1, shape, p)
  BY <1>1, <1>2, LayoutTypes DEF Behind
<1>5. ASSUME NEW i \in 1..n, NEW k \in 1..FrameLength(shapes[i]), read < start[i] + k
      PROVE  wire'[start[i] + k - read] = FrameUnit(i, shapes[i], k)
  <2>1. i \in 1..Len(sent) + 1 /\ i + 1 \in 1..Len(sent) + 1
    BY <1>2
  <2>2. /\ start[i] \in Nat /\ start[i + 1] = start[i] + FrameLength(shapes[i])
        /\ FrameLength(shapes[i]) \in Nat
    BY <1>1, <2>1, LayoutTypes
  <2>3. start[i + 1] <= start[Len(sent) + 1]
    BY <2>1 DEF Layout
  <2>4. PICK s \in Nat, f \in Nat : s = start[i] /\ f = FrameLength(shapes[i])
    BY <2>2
  <2>5. read < s + k /\ s + k <= read + l /\ k \in 1..f
    BY <1>2, <1>4, <1>5, <2>2, <2>3, <2>4
  <2>6. wire[start[i] + k - read] = FrameUnit(i, shapes[i], k)
    BY <1>2, <2>1, <2>4, <2>5 DEF Layout
  <2>7. PICK p \in 1..l : p = s + k - read
    BY <1>4, <2>5
  <2> QED BY <1>2, <1>3, <2>4, <2>6, <2>7
<1>6. ASSUME NEW k \in 1..z
      PROVE  wire'[start[n + 1] + k - read] = FrameUnit(n + 1, shape, k)
  <2>1. start[n + 1] + k - read = l + k
    BY <1>2, <1>4
  <2>2. (wire \o tail)[l + k] = tail[k]
    BY <1>2, <1>3
  <2> QED BY <1>4, <2>1, <2>2
<1> QED BY <1>2, <1>3, <1>5, <1>6 DEF Grown

\* The stream has one more message.
LEMMA SendLaidOut ==
  ASSUME NEW shapes, NEW start, NEW read, Layout(shapes, start, read), Types,
         NEW t \in Traffic, Send(t)
  PROVE  \E moreShapes \in [1..Len(sent') + 1 -> Shapes],
            moreStart \in [1..Len(sent') + 2 -> Nat] :
           /\ Layout(moreShapes, moreStart, read)'
           /\ \A i \in 1..Len(sent) : moreShapes[i] = shapes[i]
           /\ \A i \in 1..Len(sent) + 1 : moreStart[i] = start[i]
<1>1. Len(sent) \in Nat /\ wire \in Seq(Piece) /\ ~gone /\ Len(sent) + 1 \in 1..MaxSends + 1
  BY Room DEF Types, Send
<1>2. t.shape \in Shapes /\ "plain" \in Shapes
  BY LspConstants DEF Shapes
<1>3. PICK n \in Nat, fl \in Nat, fp \in Nat :
        n = Len(sent) /\ fl = FrameLength(t.shape) /\ fp = FrameLength("plain")
  BY <1>1, LspConstants DEF FrameLength, HeaderLength
<1>4. /\ Len(sent') = n + 1 /\ gone' = gone
      /\ \A i \in 1..n : sent'[i] = sent[i]
      /\ sent'[n + 1].framed = Framed(t.shape)
  BY <1>3, SendTyped DEF Send
<1>5. read \in Nat /\ read + Len(wire) = start[n + 1] /\ Len(wire) \in Nat
  BY <1>1, <1>3, LayoutTypes DEF Layout
<1>6a. PICK tail : tail = Frame(Len(sent) + 1, t.shape)
  OBVIOUS
<1>6. /\ tail \in Seq(Piece) /\ Len(tail) = fl
      /\ \A p \in 1..fl : tail[p] = FrameUnit(Len(sent) + 1, t.shape, p)
  BY <1>1, <1>2, <1>3, <1>6a, FrameUnits
<1>7. wire' = wire \o tail
  BY <1>6a DEF Send
<1>8. /\ Len(wire') = Len(wire) + fl
      /\ \A i \in 1..n : \A k \in 1..FrameLength(shapes[i]) :
           read < start[i] + k => wire'[start[i] + k - read] = FrameUnit(i, shapes[i], k)
      /\ \A k \in 1..fl : wire'[start[n + 1] + k - read] = FrameUnit(n + 1, t.shape, k)
  <2>1. \A p \in 1..Len(tail) : tail[p] = FrameUnit(Len(sent) + 1, t.shape, p)
    BY <1>6
  <2>2. read + Len(wire) = start[Len(sent) + 1]
    BY <1>3, <1>5
  <2>3. /\ Len(wire') = Len(wire) + Len(tail)
        /\ \A i \in 1..Len(sent) : \A k \in 1..FrameLength(shapes[i]) :
             read < start[i] + k => wire'[start[i] + k - read] = FrameUnit(i, shapes[i], k)
        /\ \A k \in 1..Len(tail) :
             wire'[start[Len(sent) + 1] + k - read] = FrameUnit(Len(sent) + 1, t.shape, k)
    <3>1. PICK x : x = t.shape
      OBVIOUS
    <3>2. Behind(start, read, tail, x)
      BY <2>1, <2>2, <3>1, <1>6 DEF Behind
    <3>3. Grown(shapes, start, read, tail, x)
      BY <1>7, <3>2, Grows
    <3> QED BY <3>1, <3>3 DEF Grown
  <2> QED BY <1>3, <1>6, <2>3
<1>9. \A i \in 1..n + 1 :
        /\ shapes[i] \in Shapes /\ start[i] \in Nat /\ FrameLength(shapes[i]) \in Nat
        /\ start[i + 1] = start[i] + FrameLength(shapes[i])
        /\ start[i] <= start[n + 1]
        /\ i <= n => sent[i].framed = Framed(shapes[i])
  <2>1. \A i \in 1..Len(sent) + 1 :
          /\ shapes[i] \in Shapes /\ start[i] \in Nat /\ FrameLength(shapes[i]) \in Nat
          /\ start[i + 1] = start[i] + FrameLength(shapes[i])
    BY <1>1, LayoutTypes
  <2>2. \A i \in 1..Len(sent) + 1 :
          /\ start[i] <= start[Len(sent) + 1]
          /\ i <= Len(sent) => sent[i].framed = Framed(shapes[i])
    BY <1>1 DEF Layout
  <2> QED BY <1>3, <2>1, <2>2
<1> DEFINE moreShapes == [i \in 1..n + 2 |->
             IF i <= n THEN shapes[i] ELSE IF i = n + 1 THEN t.shape ELSE "plain"]
           moreStart == [i \in 1..n + 3 |->
             IF i <= n + 1 THEN start[i]
             ELSE IF i = n + 2 THEN start[n + 1] + fl ELSE start[n + 1] + fl + fp]
<1>10. /\ \A i \in 1..n : moreShapes[i] = shapes[i]
       /\ moreShapes[n + 1] = t.shape /\ moreShapes[n + 2] = "plain"
       /\ moreShapes \in [1..n + 2 -> Shapes]
  BY <1>2, <1>9
<1>11. /\ \A i \in 1..n + 1 : moreStart[i] = start[i]
       /\ moreStart[n + 2] = start[n + 1] + fl /\ moreStart[n + 3] = start[n + 1] + fl + fp
       /\ moreStart \in [1..n + 3 -> Nat]
  <2>1. n + 1 \in 1..n + 1 /\ n \in Nat /\ fl \in Nat /\ fp \in Nat
    OBVIOUS
  <2>2. start[n + 1] \in Nat /\ \A i \in 1..n + 1 : start[i] \in Nat
    BY <1>9, <2>1
  <2>3. ASSUME NEW i \in 1..n + 3
        PROVE  /\ i \in 1..n + 1 => moreStart[i] = start[i] /\ moreStart[i] \in Nat
               /\ i = n + 2 => moreStart[i] = start[n + 1] + fl /\ moreStart[i] \in Nat
               /\ i = n + 3 => moreStart[i] = start[n + 1] + fl + fp /\ moreStart[i] \in Nat
    BY <2>1, <2>2
  <2>4. /\ \A i \in 1..n + 1 : i \in 1..n + 3
        /\ n + 2 \in 1..n + 3 /\ n + 3 \in 1..n + 3
        /\ \A i \in 1..n + 3 : i \in 1..n + 1 \/ i = n + 2 \/ i = n + 3
    BY <2>1
  <2>5. moreStart = [i \in 1..n + 3 |-> moreStart[i]]
    OBVIOUS
  <2> HIDE DEF moreStart
  <2>6. \A i \in 1..n + 3 : moreStart[i] \in Nat
    BY <2>3, <2>4
  <2> QED BY <2>3, <2>4, <2>5, <2>6
<1> HIDE DEF moreShapes, moreStart
<1>12. ASSUME NEW i \in 1..n + 2
       PROVE  /\ moreStart[i + 1] = moreStart[i] + FrameLength(moreShapes[i])
              /\ moreStart[i] <= moreStart[n + 2]
              /\ i <= n + 1 => sent'[i].framed = Framed(moreShapes[i])
  <2>1. CASE i \in 1..n
    <3>1. i + 1 \in 1..n + 1 /\ i \in 1..n + 1 /\ n + 1 \in 1..n + 1
      BY <2>1
    <3>2. start[i + 1] = start[i] + FrameLength(shapes[i]) /\ start[i] <= start[n + 1]
          /\ start[i] \in Nat /\ start[n + 1] \in Nat /\ sent[i].framed = Framed(shapes[i])
      BY <1>9, <2>1, <3>1
    <3> QED BY <1>3, <1>4, <1>10, <1>11, <2>1, <3>1, <3>2
  <2>2. CASE i = n + 1
    <3>1. n + 1 \in 1..n + 1
      OBVIOUS
    <3>2. start[n + 1] \in Nat /\ (n + 1) + 1 = n + 2
      BY <1>9, <3>1
    <3> QED BY <1>3, <1>4, <1>10, <1>11, <2>2, <3>1, <3>2
  <2>3. CASE i = n + 2
    <3>1. start[n + 1] \in Nat /\ (n + 2) + 1 = n + 3 /\ ~(n + 2 <= n + 1)
      BY <1>9
    <3> QED BY <1>3, <1>10, <1>11, <2>3, <3>1
  <2> QED BY <2>1, <2>2, <2>3
<1>13. ASSUME NEW i \in 1..n + 2, NEW k \in 1..FrameLength(moreShapes[i]),
              read < moreStart[i] + k, moreStart[i] + k <= read + Len(wire')
       PROVE  wire'[moreStart[i] + k - read] = FrameUnit(i, moreShapes[i], k)
  <2>1. CASE i \in 1..n
    <3>1. i \in 1..n + 1
      BY <2>1
    <3> QED BY <1>8, <1>10, <1>11, <1>13, <2>1, <3>1
  <2>2. CASE i = n + 1
    <3>1. k \in 1..fl /\ moreStart[i] = start[n + 1]
      BY <1>3, <1>10, <1>11, <1>13, <2>2
    <3> QED BY <1>8, <1>10, <2>2, <3>1
  <2>3. CASE i = n + 2
    <3>0. n + 1 \in 1..n + 1
      OBVIOUS
    <3>4. start[n + 1] \in Nat
      BY <1>9, <3>0
    <3>1. start[n + 1] \in Nat /\ moreStart[i] = start[n + 1] + fl
          /\ read + Len(wire') = start[n + 1] + fl /\ k \in 1..fp
      BY <1>3, <1>5, <1>8, <3>4, <1>10, <1>11, <1>13, <2>3
    <3> QED BY <1>13, <3>1
  <2> QED BY <2>1, <2>2, <2>3
<1>14. read + Len(wire') = moreStart[n + 2]
  BY <1>5, <1>8, <1>9, <1>11
<1>15. Layout(moreShapes, moreStart, read)'
  <2>1. Len(sent') + 1 = n + 2 /\ Len(sent') + 2 = n + 3
    BY <1>4
  <2>2. /\ moreShapes \in [1..Len(sent') + 1 -> Shapes]
        /\ moreStart \in [1..Len(sent') + 2 -> Nat]
        /\ read \in Nat
        /\ moreShapes[Len(sent') + 1] = "plain"
        /\ ~gone' /\ read + Len(wire') = moreStart[Len(sent') + 1]
    BY <1>1, <1>4, <1>5, <1>10, <1>11, <1>14, <2>1
  <2>3. \A i \in 1..Len(sent') + 1 :
          /\ moreStart[i + 1] = moreStart[i] + FrameLength(moreShapes[i])
          /\ moreStart[i] <= moreStart[Len(sent') + 1]
          /\ i <= n + 1 => sent'[i].framed = Framed(moreShapes[i])
    BY <1>12, <2>1
  <2>4. \A i \in 1..Len(sent') : sent'[i].framed = Framed(moreShapes[i])
    BY <1>4, <2>3
  <2>5. \A i \in 1..Len(sent') + 1 : \A k \in 1..FrameLength(moreShapes[i]) :
          read < moreStart[i] + k /\ moreStart[i] + k <= read + Len(wire')
            => wire'[moreStart[i] + k - read] = FrameUnit(i, moreShapes[i], k)
    BY <1>13, <2>1
  <2> QED BY <2>2, <2>3, <2>4, <2>5 DEF Layout
<1>16. Len(sent') + 1 = n + 2 /\ Len(sent') + 2 = n + 3
  BY <1>4
<1> QED BY <1>3, <1>10, <1>11, <1>15, <1>16

\* The stream ends in the beginning of a message.
LEMMA LeaveLaidOut ==
  ASSUME NEW shapes, NEW start, NEW read, Layout(shapes, start, read), Types,
         NEW cut \in 0..Len(Frame(1, "plain")) - 1, Leave(cut)
  PROVE  Layout(shapes, start, read)'
<1>1. Len(sent) \in Nat /\ wire \in Seq(Piece) /\ ~gone /\ gone' /\ sent' = sent
  BY Room DEF Types, Leave
<1>2. PICK n \in Nat, l \in Nat, fp \in Nat :
        n = Len(sent) /\ l = Len(wire) /\ fp = FrameLength("plain")
  BY <1>1, LenProperties, LspConstants DEF FrameLength, HeaderLength
<1>3. /\ read \in Nat /\ read + l = start[n + 1] /\ shapes[n + 1] = "plain"
      /\ \A i \in 1..n + 1 : start[i] \in Nat /\ start[i + 1] = start[i] + FrameLength(shapes[i])
  BY <1>1, <1>2, LayoutTypes DEF Layout
<1>4a. PICK tail : tail = SubSeq(Frame(Len(sent) + 1, "plain"), 1, cut)
  OBVIOUS
<1>4. /\ tail \in Seq(Piece) /\ Len(tail) = cut /\ cut < fp /\ cut \in Nat
      /\ \A p \in 1..cut : tail[p] = FrameUnit(Len(sent) + 1, "plain", p)
  BY <1>2, <1>4a, Cut
<1>5. wire' = wire \o tail
  BY <1>4a DEF Leave
<1>6. /\ Len(wire') = l + cut
      /\ \A i \in 1..n : \A k \in 1..FrameLength(shapes[i]) :
           read < start[i] + k => wire'[start[i] + k - read] = FrameUnit(i, shapes[i], k)
      /\ \A k \in 1..cut : wire'[start[n + 1] + k - read] = FrameUnit(n + 1, "plain", k)
  <2>1. \A p \in 1..Len(tail) : tail[p] = FrameUnit(Len(sent) + 1, "plain", p)
    BY <1>4
  <2>2. read + Len(wire) = start[Len(sent) + 1]
    BY <1>2, <1>3
  <2>3. /\ Len(wire') = Len(wire) + Len(tail)
        /\ \A i \in 1..Len(sent) : \A k \in 1..FrameLength(shapes[i]) :
             read < start[i] + k => wire'[start[i] + k - read] = FrameUnit(i, shapes[i], k)
        /\ \A k \in 1..Len(tail) :
             wire'[start[Len(sent) + 1] + k - read] = FrameUnit(Len(sent) + 1, "plain", k)
    <3>1. PICK x : x = "plain"
      OBVIOUS
    <3>2. Behind(start, read, tail, x)
      BY <2>1, <2>2, <3>1, <1>4 DEF Behind
    <3>3. Grown(shapes, start, read, tail, x)
      BY <1>5, <3>2, Grows
    <3> QED BY <3>1, <3>3 DEF Grown
  <2> QED BY <1>2, <1>4, <2>3
<1>7. start[n + 1] \in Nat /\ start[n + 2] = start[n + 1] + fp
  <2>1. n + 1 \in 1..n + 1 /\ (n + 1) + 1 = n + 2
    OBVIOUS
  <2> QED BY <1>2, <1>3, <2>1
<1>8. read + Len(wire') >= start[n + 1] /\ read + Len(wire') < start[n + 2]
  BY <1>3, <1>4, <1>6, <1>7
<1>9. ASSUME NEW i \in 1..n + 1, NEW k \in 1..FrameLength(shapes[i]),
             read < start[i] + k, start[i] + k <= read + Len(wire')
      PROVE  wire'[start[i] + k - read] = FrameUnit(i, shapes[i], k)
  <2>1. CASE i \in 1..n
    BY <1>6, <1>9, <2>1
  <2>2. CASE i = n + 1
    <3>1. k \in 1..cut
      BY <1>2, <1>3, <1>4, <1>6, <1>7, <1>9, <2>2
    <3> QED BY <1>3, <1>6, <2>2, <3>1
  <2> QED BY <2>1, <2>2
<1> QED BY <1>1, <1>2, <1>8, <1>9 DEF Layout

-----------------------------------------------------------------------------
(* Where the server is.                                                    *)

\* Where the server is after a step.
LEMMA LocatedHere ==
  ASSUME NEW shapes, NEW start, NEW read, NEW m, NEW k,
         Layout(shapes, start, read)', Within(shapes, start, read, m, k)', Where(shapes, m, k)'
  PROVE  Located'
<1>1. /\ shapes \in [1..Len(sent') + 1 -> Shapes] /\ start \in [1..Len(sent') + 2 -> Nat]
      /\ read \in Nat
  BY DEF Layout
<1>2. m \in 1..Len(sent') + 1 /\ k \in Nat
  BY DEF Within
<1> QED BY <1>1, <1>2 DEF Located

\* What the editor does leaves the server where it is.
LEMMA SendLocated ==
  ASSUME Types, Located, NEW t \in Traffic, Send(t)
  PROVE  Located'
<1>1. PICK n \in Nat : n = Len(sent)
  BY Room
<1>2. /\ ~gone /\ gone' = gone /\ pc' = pc /\ length' = length /\ done' = done /\ reading' = reading
      /\ Len(sent') = n + 1 /\ \A i \in 1..n : sent'[i] = sent[i]
  BY <1>1, SendTyped DEF Send
<1>3. CASE pc = "ended"
  BY <1>2, <1>3 DEF Located
<1>4. CASE pc # "ended"
  <2>1. PICK shapes, start, read, m, k :
          Layout(shapes, start, read) /\ Within(shapes, start, read, m, k) /\ Where(shapes, m, k)
    BY <1>2, <1>4 DEF Located
  <2>2. PICK moreShapes, moreStart :
          /\ Layout(moreShapes, moreStart, read)'
          /\ \A i \in 1..n : moreShapes[i] = shapes[i]
          /\ \A i \in 1..n + 1 : moreStart[i] = start[i]
    BY <2>1, <1>1, SendLaidOut
  <2>3. m \in 1..n + 1 /\ k \in 0..FrameLength(shapes[m]) - 1 /\ read = start[m] + k
    BY <1>1, <2>1 DEF Within
  <2>4. /\ start[m] \in Nat /\ FrameLength(shapes[m]) \in Nat
        /\ start[n + 1] \in Nat /\ read + Len(wire) = start[n + 1] /\ Len(wire) \in Nat
        /\ HeaderLength(shapes[m]) \in {2, 4}
    <3>1. wire \in Seq(Piece) /\ n + 1 \in 1..n + 1
      BY DEF Types
    <3>2. /\ Len(wire) \in Nat
          /\ \A i \in 1..Len(sent) + 1 :
               /\ start[i] \in Nat /\ FrameLength(shapes[i]) \in Nat
               /\ HeaderLength(shapes[i]) \in {2, 4}
      BY <1>1, <2>1, <3>1, LayoutTypes
    <3>3. read + Len(wire) = start[Len(sent) + 1]
      BY <1>2, <2>1 DEF Layout
    <3> QED BY <1>1, <2>3, <3>1, <3>2, <3>3
  <2>5. m = n + 1 => k = 0
    BY <2>3, <2>4
  <2>6. \A i \in 1..n + 1 : Broken(i) => Broken(i)'
    <3> SUFFICES ASSUME NEW i \in 1..n + 1, Broken(i) PROVE Broken(i)'
      OBVIOUS
    <3>2. PICK j \in 1..i : j <= n /\ ~sent[j].framed
      BY <1>1 DEF Broken
    <3>3. j \in 1..n /\ j <= n + 1
      BY <3>2
    <3>4. ~sent'[j].framed
      BY <1>2, <3>2, <3>3
    <3> QED BY <1>2, <3>2, <3>3, <3>4 DEF Broken
  <2>7. PassedOver(m) => PassedOver(m)'
    <3>1. \A i \in 1..m - 1 : i \in 1..n + 1
      BY <2>3
    <3> QED BY <1>2, <2>6, <3>1 DEF PassedOver
  <2>8. Where(moreShapes, m, k)'
    <3>1. CASE m \in 1..n
      <4>1. moreShapes[m] = shapes[m]
        BY <2>2, <3>1
      <4>2. InHeader(shapes[m], k)' <=> InHeader(shapes[m], k)
        BY <1>2 DEF InHeader, Said
      <4> QED BY <1>2, <2>1, <2>3, <2>6, <2>7, <4>1, <4>2 DEF Where, Said
    <3>2. CASE m = n + 1
      <4>1. k = 0 /\ k # HeaderLength(shapes[m]) + 1
        BY <2>4, <2>5, <3>2
      <4>2. InHeader(shapes[m], k) \/ length = None => InHeader(moreShapes[m], k)'
        BY <1>2, <4>1 DEF InHeader
      <4>3. pc # "body"
        BY <2>1, <4>1 DEF Where
      <4> QED BY <1>2, <2>1, <2>7, <4>2, <4>3 DEF Where
    <3> QED BY <2>3, <3>1, <3>2
  <2>9. Within(moreShapes, moreStart, read, m, k)'
    <3>1. m \in 1..Len(sent') + 1
      BY <1>2, <2>3
    <3>2. moreStart[m] = start[m]
      BY <2>2, <2>3
    <3>3. k \in 0..FrameLength(moreShapes[m]) - 1
      <4>1. CASE m \in 1..n
        BY <2>2, <2>3, <4>1
      <4>2. CASE m = n + 1
        <5>1. FrameLength(moreShapes[m]) \in Nat /\ FrameLength(moreShapes[m]) > 0
          BY LspConstants DEF FrameLength, HeaderLength
        <5> QED BY <2>5, <4>2, <5>1
      <4> QED BY <2>3, <4>1, <4>2
    <3> QED BY <2>3, <3>1, <3>2, <3>3 DEF Within
  <2> QED BY <2>2, <2>8, <2>9, LocatedHere
<1> QED BY <1>3, <1>4

\* The editor leaves, and the server is where it was.
LEMMA LeaveLocated ==
  ASSUME Types, Located, NEW cut \in 0..Len(Frame(1, "plain")) - 1, Leave(cut)
  PROVE  Located'
<1>1. ~gone /\ UNCHANGED <<sent, pc, length, reading, report, replies, done, edition>>
  BY DEF Leave
<1>2. CASE pc = "ended"
  BY <1>1, <1>2 DEF Located
<1>3. CASE pc # "ended"
  <2>1. PICK shapes, start, read, m, k :
          Layout(shapes, start, read) /\ Within(shapes, start, read, m, k) /\ Where(shapes, m, k)
    BY <1>1, <1>3 DEF Located
  <2>2. Layout(shapes, start, read)'
    BY <2>1, LeaveLaidOut
  <2>3. Within(shapes, start, read, m, k)'
    BY <1>1, <2>1 DEF Within
  <2>4. Where(shapes, m, k)'
    BY <1>1, <2>1 DEF Where, InHeader, Said, Broken, PassedOver
  <2> QED BY <2>2, <2>3, <2>4, LocatedHere
<1> QED BY <1>2, <1>3

\* Steps that read nothing.
LEMMA StaysLocated ==
  ASSUME Located, UNCHANGED <<wire, gone, sent, pc, length, reading, done>>
  PROVE  Located'
<1>1. CASE gone /\ wire = <<>>
  BY <1>1 DEF Located
<1>2. CASE pc = "ended"
  BY <1>2 DEF Located
<1>3. CASE ~(gone /\ wire = <<>>) /\ pc # "ended"
  <2>1. PICK shapes, start, read, m, k :
          Layout(shapes, start, read) /\ Within(shapes, start, read, m, k) /\ Where(shapes, m, k)
    BY <1>3 DEF Located
  <2>2. Layout(shapes, start, read)' /\ Within(shapes, start, read, m, k)'
    BY <2>1 DEF Layout, Within
  <2>3. Where(shapes, m, k)'
    BY <2>1 DEF Where, InHeader, Said, Broken, PassedOver
  <2> QED BY <2>2, <2>3, LocatedHere
<1> QED BY <1>1, <1>2, <1>3

\* The server is behind the message it handles, and handles or ends.
LEMMA HandledLocated ==
  ASSUME Types, Located, Reading, pc \in {"handle", "publish"},
         UNCHANGED <<wire, gone, sent, length, reading>>,
         \/ pc' = "publish" /\ done' = done
         \/ pc' = "headers" /\ done' = reading
         \/ pc' = "ended"
  PROVE  Located'
<1>1. CASE pc' = "ended"
  BY <1>1 DEF Located
<1>2. CASE gone /\ wire = <<>>
  BY <1>2 DEF Located
<1>3. CASE pc' # "ended" /\ ~(gone /\ wire = <<>>)
  <2>1. PICK shapes, start, read, m, k :
          Layout(shapes, start, read) /\ Within(shapes, start, read, m, k) /\ Where(shapes, m, k)
    BY <1>3 DEF Located
  <2>2. Layout(shapes, start, read)' /\ Within(shapes, start, read, m, k)'
    BY <2>1 DEF Layout, Within
  <2>3. m = reading + 1 /\ k = 0 /\ length = None /\ reading \in Nat
    BY <2>1, Room DEF Where, Types
  <2>4. Where(shapes, m, k)'
    <3>1. CASE pc' = "publish"
      BY <2>3, <3>1 DEF Where
    <3>2. CASE pc' = "headers" /\ done' = reading
      <4>1. done' < m /\ InHeader(shapes[m], k)'
        BY <2>3, <3>2 DEF InHeader
      <4>2. ASSUME NEW i \in 1..m - 1 PROVE Broken(i)' \/ i <= done'
        <5>1. CASE i = reading
          BY <2>3, <3>2, <5>1
        <5>2. CASE i \in 1..reading - 1
          <6>1. Broken(i) \/ i <= done
            BY <5>2 DEF Reading, Turn, PassedOver
          <6>2. Broken(i) => Broken(i)'
            BY DEF Broken
          <6> QED BY <2>3, <3>2, <5>2, <6>1, <6>2
        <5> QED BY <2>3, <5>1, <5>2
      <4> QED BY <3>2, <4>1, <4>2 DEF Where, PassedOver
    <3> QED BY <1>3, <3>1, <3>2
  <2> QED BY <2>2, <2>4, LocatedHere
<1> QED BY <1>1, <1>2, <1>3

-----------------------------------------------------------------------------
(* The server reads.                                                       *)

\* A message whose header is not as it should be is broken, and so is what
\* follows it.
LEMMA BadShape ==
  ASSUME NEW shapes, NEW start, NEW read, Layout(shapes, start, read), Types,
         NEW m \in 1..Len(sent) + 1, ~Framed(shapes[m])
  PROVE  Broken(m) /\ m \in 1..Len(sent)
<1>1. Len(sent) \in Nat
  BY Room
<1>2. m # Len(sent) + 1
  BY DEF Layout, Framed
<1>3. m \in 1..Len(sent) /\ m \in 1..m
  BY <1>1, <1>2
<1>4. ~sent[m].framed
  BY <1>3 DEF Layout
<1> QED BY <1>3, <1>4 DEF Broken

\* What a line does to the server.
LEMMA LineDone ==
  ASSUME Types, ReadHeader, wire[1] \in Piece
  PROVE  LET u == wire[1]
         IN  /\ \/ u = End /\ Acceptable /\ pc' = "body" /\ length' = length
                \/ u = End /\ ~Acceptable /\ pc' = "headers" /\ length' = None
                \/ u.is = "length" /\ u.n = Wrong /\ pc' = "headers" /\ length' = None
                \/ u.is = "length" /\ u.n # Wrong /\ pc' = "headers" /\ length' = u.n
                \/ u.is \in {"other", "part"} /\ pc' = "headers" /\ length' = length
                \/ u.is = "part" /\ pc' = "ended" /\ length' = length
             /\ length' \in -1..MaxLength + 1 /\ pc' \in {"headers", "body", "ended"}
             /\ pc' = "body" => length' \in 0..MaxLength
<1>1. Size \in Nat /\ Size > 0 /\ MaxLength \in Nat /\ MaxLength > Size
  BY LspConstants
<1> DEFINE u == wire[1]
<1>2. \/ u = End /\ Acceptable /\ pc' = "body" /\ length' = length
      \/ u = End /\ ~Acceptable /\ pc' = "headers" /\ length' = None
      \/ u.is = "length" /\ u.n = Wrong /\ pc' = "headers" /\ length' = None
      \/ u.is = "length" /\ u.n # Wrong /\ pc' = "headers" /\ length' = u.n
      \/ u.is \in {"other", "part"} /\ pc' = "headers" /\ length' = length
      \/ u.is = "part" /\ pc' = "ended" /\ length' = length
  BY DEF ReadHeader, ProtocolError
<1>3. u \in Piece /\ length \in -1..MaxLength + 1
  BY DEF Types
<1> HIDE DEF u
<1>4. CASE u = End /\ Acceptable /\ pc' = "body" /\ length' = length
  BY <1>1, <1>2, <1>3, <1>4 DEF None, Acceptable, u
<1>5. CASE u.is = "length" /\ u.n # Wrong /\ pc' = "headers" /\ length' = u.n
  BY <1>1, <1>2, <1>3, <1>5 DEF Piece, Wrong, u
<1>6. CASE pc' \in {"headers", "ended"} /\ (length' = None \/ length' = length)
  BY <1>1, <1>2, <1>3, <1>6 DEF None, u
<1> QED BY <1>2, <1>4, <1>5, <1>6 DEF u

\* A line of a header moves the server on in it.
LEMMA ReadHeaderLocated ==
  ASSUME Types, Located, ReadHeader
  PROVE  Located' /\ Types' /\ (pc' = "ended" => gone \/ Misframed)
<1>1. PICK n \in Nat, l \in Nat : n = Len(sent) /\ l = Len(wire)
  BY Room, LenProperties DEF Types
<1>2. /\ pc = "headers" /\ wire' = Rest(LineEnd)
      /\ UNCHANGED <<gone, sent, edition, done, reading, report, replies>>
  BY DEF ReadHeader, Server, ProtocolError
<1>3. wire \in Seq(Piece)
  BY DEF Types
<1>4. Size \in Nat /\ Size > 0 /\ MaxLength \in Nat /\ MaxLength > Size
  BY LspConstants
<1>5. CASE Ends = {}
  <2>1. gone /\ wire # <<>> /\ LineEnd = l
    BY <1>1, <1>5 DEF ReadHeader, LineEnd
  <2>2. l \in 0..Len(wire) /\ 1 \in 1..l
    BY <1>1, <1>3, <2>1, EmptySeq
  <2>3. Rest(l) \in Seq(Piece) /\ Len(Rest(l)) = Len(wire) - l
    BY <1>3, <2>2, RestIs
  <2>4. Rest(l) = <<>>
    BY <1>1, <2>3, EmptySeq
  <2>5. wire[1] \in Piece
    BY <1>1, <1>3, <2>2, ElementOfSeq
  <2>6. /\ length' \in -1..MaxLength + 1 /\ pc' \in {"headers", "body", "ended"}
        /\ pc' = "body" => length' \in 0..MaxLength
    BY <2>5, LineDone
  <2>6a. wire' \in Seq(Piece)
    BY <1>2, <2>1, <2>3
  <2>7. Types'
    BY <1>2, <2>6, <2>6a DEF Types
  <2> QED BY <1>2, <2>1, <2>4, <2>7 DEF Located
<1>6. CASE Ends # {}
  <2>1. PICK q \in Ends : TRUE
    BY <1>6
  <2>2. 1 \in 1..l /\ l > 0
    BY <1>1, <2>1 DEF Ends
  <2>3. ~(gone /\ wire = <<>>)
    BY <1>1, <2>2, EmptySeq
  <2>4. PICK shapes, start, read, m, k :
          Layout(shapes, start, read) /\ Within(shapes, start, read, m, k) /\ Where(shapes, m, k)
    BY <1>2, <2>3 DEF Located
  <2>5. /\ LineEnd \in 1..Len(wire)
        /\ wire[1] = FrameUnit(m, shapes[m], k + 1)
        /\ wire[1].is = "end" => Within(shapes, start, read + LineEnd, m, k + 1)
        /\ wire[1].is \in {"length", "other"} => Within(shapes, start, read + LineEnd, m, k + 2)
        /\ wire[1].is = "part" => Within(shapes, start, read + LineEnd, m + 1, 2)
    BY <1>1, <1>3, <1>6, <2>4, NextLine
  <2>6. PICK e \in 0..Len(wire) : e = LineEnd
    BY <2>5
  <2>7. Layout(shapes, start, read + e)'
    <3>1. wire' = Rest(e) /\ UNCHANGED <<sent, gone>> /\ Len(sent) \in Nat
      BY <1>1, <1>2, <2>6
    <3> QED BY <1>3, <2>4, <3>1, Advances
  <2>8. wire' \in Seq(Piece)
    BY <1>2, <1>3, <2>6, RestIs
  <2>9. m \in 1..n + 1 /\ k \in 0..FrameLength(shapes[m]) - 1 /\ shapes[m] \in Shapes
        /\ HeaderLength(shapes[m]) \in {2, 4} /\ k \in Nat
    BY <1>1, <1>3, <2>4, LayoutTypes DEF Within
  <2> DEFINE u == wire[1]
  <2>10. u \in Piece
    BY <1>1, <1>3, <2>2, ElementOfSeq
  <2>11. /\ u.is \in {"length", "other", "end", "part"} /\ (u = End <=> u.is = "end")
         /\ u.is = "length" =>
              \/ /\ k = 0 /\ shapes[m] \notin {"typed", "missing"}
                 /\ u.n = IF shapes[m] = "wrong" THEN Wrong ELSE Said(shapes[m])
              \/ k = 2 /\ shapes[m] = "typed" /\ u.n = Size
         /\ u.is = "other" =>
              (k = 0 /\ shapes[m] \in {"typed", "missing"}) \/ (k = 2 /\ shapes[m] = "trailed")
         /\ u.is = "end" =>
              \/ k \in {1, HeaderLength(shapes[m])}
              \/ k = 3 /\ shapes[m] \in {"typed", "trailed"}
         /\ u.is = "part" => k > HeaderLength(shapes[m])
    BY <2>5, <2>9, Units
  <2>12. /\ \/ u = End /\ Acceptable /\ pc' = "body" /\ length' = length
            \/ u = End /\ ~Acceptable /\ pc' = "headers" /\ length' = None
            \/ u.is = "length" /\ u.n = Wrong /\ pc' = "headers" /\ length' = None
            \/ u.is = "length" /\ u.n # Wrong /\ pc' = "headers" /\ length' = u.n
            \/ u.is \in {"other", "part"} /\ pc' = "headers" /\ length' = length
            \/ u.is = "part" /\ pc' = "ended" /\ length' = length
         /\ length' \in -1..MaxLength + 1 /\ pc' \in {"headers", "body", "ended"}
         /\ pc' = "body" => length' \in 0..MaxLength
    BY <2>10, LineDone
  <2>13. Types'
    BY <1>2, <2>8, <2>12 DEF Types
  <2>14. /\ done < m /\ PassedOver(m)
         /\ InHeader(shapes[m], k) \/ (length = None /\ Broken(m))
    BY <1>2, <2>4 DEF Where
  <2>15. ~Framed(shapes[m]) => Broken(m)
    BY <1>1, <2>4, <2>9, BadShape
  <2>16. done' = done /\ (PassedOver(m) => PassedOver(m)') /\ (Broken(m) => Broken(m)')
         /\ reading' = reading
    BY <1>2 DEF PassedOver, Broken
  <2>16a. u.is # "part" => pc' # "ended"
    BY <2>12
  <2> HIDE DEF u
  <2>17. CASE u.is = "end"
    <3>1. Within(shapes, start, read + e, m, k + 1)'
      BY <1>2, <2>5, <2>6, <2>17 DEF Within, u
    <3>2. Where(shapes, m, k + 1)'
      <4>1. CASE Acceptable
        <5>1. length # None /\ length <= MaxLength /\ pc' = "body" /\ length' = length
          BY <2>11, <2>12, <2>17, <4>1 DEF Acceptable
        <5>2. /\ k = HeaderLength(shapes[m]) /\ shapes[m] \notin {"missing", "wrong"}
              /\ length = Said(shapes[m])
          <6>1. /\ \/ k = 2 /\ shapes[m] \notin {"typed", "missing", "wrong"}
                   \/ k = 4 /\ shapes[m] \in {"typed", "trailed"}
                /\ length = Said(shapes[m])
            BY <2>14, <5>1 DEF InHeader
          <6>2. k \in {1, HeaderLength(shapes[m])} \/ k = 3
            BY <2>11, <2>17
          <6>3. shapes[m] \in {"typed", "trailed"} => HeaderLength(shapes[m]) = 4
            BY DEF HeaderLength
          <6> QED BY <6>1, <6>2, <6>3
        <5>3. shapes[m] # "huge"
          BY <1>4, <5>1, <5>2 DEF Said
        <5> QED BY <2>9, <2>14, <2>16, <5>1, <5>2, <5>3 DEF Where
      <4>2. CASE ~Acceptable
        <5>1. pc' = "headers" /\ length' = None
          BY <2>11, <2>12, <2>17, <4>2
        <5>2. Broken(m)
          <6>1. CASE InHeader(shapes[m], k)
            <7>1. ~Framed(shapes[m])
              <8>1. SUFFICES ASSUME shapes[m] \in {"plain", "typed", "trailed"} PROVE FALSE
                BY DEF Framed
              <8>2. length = Size \/ length = None
                BY <6>1, <8>1 DEF InHeader, Said
              <8>3. Size # None /\ Size <= MaxLength
                BY <1>4 DEF None
              <8>4. length = None
                BY <4>2, <8>2, <8>3 DEF Acceptable
              <8>5. k = 0 \/ (k = 2 /\ shapes[m] = "typed")
                BY <1>4, <6>1, <8>1, <8>3, <8>4 DEF InHeader, Said
              <8> QED BY <2>11, <2>17, <8>5 DEF HeaderLength
            <7> QED BY <2>15, <7>1
          <6> QED BY <2>14, <6>1
        <5> QED BY <2>14, <2>16, <5>1, <5>2 DEF Where
      <4> QED BY <4>1, <4>2
    <3> QED BY <2>7, <2>13, <2>17, <2>16a, <3>1, <3>2, LocatedHere
  <2>18. CASE u.is \in {"length", "other"}
    <3>1. Within(shapes, start, read + e, m, k + 2)'
      BY <1>2, <2>5, <2>6, <2>18 DEF Within, u
    <3>2. pc' = "headers"
      BY <2>11, <2>12, <2>18
    <3>3. InHeader(shapes[m], k + 2)' \/ (length' = None /\ Broken(m))
      <4>1. CASE u.is = "length"
        <5>1. CASE k = 0 /\ shapes[m] = "wrong"
          BY <2>11, <2>12, <4>1, <5>1 DEF InHeader, Wrong
        <5>2. CASE k = 0 /\ shapes[m] \notin {"typed", "missing", "wrong"}
          <6>1. u.n = Said(shapes[m]) /\ u.n # Wrong
            BY <1>4, <2>9, <2>11, <4>1, <5>2 DEF Said, Wrong, Shapes
          <6>2. length' = Said(shapes[m])
            BY <2>11, <2>12, <4>1, <6>1
          <6> QED BY <5>2, <6>2 DEF InHeader, Said
        <5>3. CASE k = 2 /\ shapes[m] = "typed"
          <6>1. u.n = Size /\ u.n # Wrong
            BY <1>4, <2>11, <4>1, <5>3 DEF Wrong
          <6>2. length' = Size /\ k + 2 = 4
            BY <2>11, <2>12, <4>1, <5>3, <6>1
          <6> QED BY <5>3, <6>2 DEF InHeader, Said
        <5> QED BY <2>11, <4>1, <5>1, <5>2, <5>3
      <4>2. CASE u.is = "other"
        <5>1. length' = length
          BY <2>11, <2>12, <4>2
        <5>2. CASE length = None /\ Broken(m)
          BY <5>1, <5>2
        <5>3. CASE InHeader(shapes[m], k) /\ k = 0 /\ shapes[m] \in {"typed", "missing"}
          BY <5>1, <5>3 DEF InHeader
        <5>4. CASE InHeader(shapes[m], k) /\ k = 2 /\ shapes[m] = "trailed"
          <6>1. length' = Said(shapes[m]) /\ k + 2 = 4
            BY <5>1, <5>4 DEF InHeader
          <6> QED BY <5>4, <6>1 DEF InHeader, Said
        <5> QED BY <2>11, <2>14, <4>2, <5>2, <5>3, <5>4
      <4> QED BY <2>18, <4>1, <4>2
    <3>4. Where(shapes, m, k + 2)'
      BY <2>14, <2>16, <3>2, <3>3 DEF Where
    <3> QED BY <2>7, <2>13, <2>18, <2>16a, <3>1, <3>4, LocatedHere
  <2>19. CASE u.is = "part"
    <3>1. Within(shapes, start, read + e, m + 1, 2)'
      BY <1>2, <2>5, <2>6, <2>19 DEF Within, u
    <3>2. pc' \in {"headers", "ended"} /\ length' = length
      BY <2>11, <2>12, <2>19
    <3>3. length = None /\ Broken(m)
      BY <2>9, <2>11, <2>14, <2>19 DEF InHeader, HeaderLength
    <3>6. Misframed
      BY <1>1, <3>3 DEF Broken, Misframed
    <3>4. Broken(m + 1)' /\ PassedOver(m + 1)' /\ done' < m + 1
      <4>1. Broken(m)' /\ PassedOver(m)' /\ done' < m /\ done' \in Int
        BY <2>14, <2>16, <3>3, <1>1 DEF Types
      <4>2. Broken(m + 1)'
        BY <2>9, <4>1 DEF Broken
      <4>3. PassedOver(m + 1)'
        BY <2>9, <4>1 DEF PassedOver
      <4> QED BY <2>9, <4>1, <4>2, <4>3
    <3>5. Where(shapes, m + 1, 2)'
      BY <3>2, <3>3, <3>4 DEF Where
    <3> QED BY <2>7, <2>13, <3>1, <3>5, <3>6, LocatedHere
  <2> QED BY <2>11, <2>17, <2>18, <2>19
<1> QED BY <1>5, <1>6

\* What read_exact takes.
LEMMA BodyUnits ==
  ASSUME Types, NEW k \in 0..Len(wire)
  PROVE  /\ SubSeq(wire, 1, k) \in Seq(Piece) /\ Len(SubSeq(wire, 1, k)) = k
         /\ \A p \in 1..k : SubSeq(wire, 1, k)[p] = wire[p]
<1>1. PICK l \in Nat : l = Len(wire) /\ wire \in Seq(Piece)
  BY LenProperties DEF Types
<1>2. PICK one \in Int : one = 1
  OBVIOUS
<1>3. \A p \in one..k : wire[p] \in Piece
  BY <1>1, <1>2, ElementOfSeq
<1>4. /\ SubSeq(wire, one, k) \in Seq(Piece)
      /\ Len(SubSeq(wire, one, k)) = IF one <= k THEN k - one + 1 ELSE 0
      /\ \A p \in 1..k - one + 1 : SubSeq(wire, one, k)[p] = wire[one + p - 1]
  <2>1. k \in Int
    BY <1>1
  <2> QED BY <1>3, <2>1, SubSeqProperties
<1> QED BY <1>1, <1>2, <1>4

\* The first unit of a body tells whose it is.
LEMMA BodyIs ==
  ASSUME NEW i
  PROVE  /\ Len(Body(i)) = Size /\ Body(i) = [k \in 1..Size |-> Unit("part", i, k)]
         /\ Size \in Nat /\ Size > 0 /\ Body(i)[1] = Unit("part", i, 1)
<1>1. Size \in Nat /\ Size > 0
  BY LspConstants
<1> QED BY <1>1 DEF Body

\* Bodies of two messages differ.
LEMMA WholeIs ==
  ASSUME Types, NEW i, NEW j, Body(i) = Body(j)
  PROVE  i = j
<1>1. Body(i)[1] = Unit("part", i, 1) /\ Body(j)[1] = Unit("part", j, 1)
  BY BodyIs
<1>2. Unit("part", i, 1) = Unit("part", j, 1)
  BY <1>1
<1> QED BY <1>2 DEF Unit

\* read_exact takes a whole body, and only when the message is well framed, or
\* what is no body of any; in any case the server knows where it is.
LEMMA ReadBodyLocated ==
  ASSUME Types, Located, ReadBody
  PROVE  /\ Located' /\ Types' /\ Reading'
         /\ \/ done' = done
            \/ \E i \in 1..Len(sent) :
                 done' = i /\ Turn(i) /\ sent[i].message.method = "invalid"
<1>1. PICK n \in Nat, l \in Nat : n = Len(sent) /\ l = Len(wire)
  BY Room, LenProperties DEF Types
<1>2. /\ pc = "body" /\ l >= length /\ wire' = Rest(length) /\ length' = None
      /\ UNCHANGED <<gone, sent, edition, report, replies>>
  BY <1>1 DEF ReadBody, Server, AfterBody
<1>3. Size \in Nat /\ Size > 0 /\ MaxLength \in Nat /\ MaxLength > Size
  BY LspConstants
<1>4. wire \in Seq(Piece) /\ length \in 0..Len(wire) /\ length \in Nat
  BY <1>1, <1>2 DEF Types
<1>5. wire' \in Seq(Piece) /\ Len(wire') = Len(wire) - length
  BY <1>2, <1>4, RestIs
<1> DEFINE body == SubSeq(wire, 1, length)
           whole == {i \in 1..Len(sent) : body = Body(i)}
<1>6. /\ body \in Seq(Piece) /\ Len(body) = length
      /\ \A p \in 1..length : body[p] = wire[p]
  BY <1>4, BodyUnits
<1>7. \/ \E i \in whole :
           /\ sent[i].message.method # "invalid"
           /\ reading' = i /\ pc' = "handle" /\ done' = done
      \/ \E i \in whole :
           /\ sent[i].message.method = "invalid"
           /\ done' = i /\ pc' = "headers" /\ reading' = reading
      \/ /\ whole = {}
         /\ pc' = "headers" /\ reading' = reading /\ done' = done
  BY DEF ReadBody
<1>8. ASSUME length # Size PROVE whole = {}
  BY <1>6, <1>8, BodyIs
<1>9. whole \subseteq 1..n
  BY <1>1
<1>10. Types'
  <2>1. length' \in -1..MaxLength + 1 /\ pc' \in {"headers", "handle"} /\ pc' # "body"
    BY <1>2, <1>3, <1>7 DEF None
  <2>2. reading' \in 0..n /\ done' \in 0..n /\ (pc' = "handle" => reading' > 0)
    BY <1>1, <1>7, <1>9 DEF Types
  <2> HIDE DEF whole, body
  <2> QED BY <1>1, <1>2, <1>5, <2>1, <2>2 DEF Types
<1> HIDE DEF whole
<1>11. CASE gone /\ wire = <<>>
  <2>1. length = 0 /\ length # Size
    BY <1>3, <1>4, <1>11
  <2>2. wire' = <<>>
    BY <1>5, <1>11, <2>1, EmptySeq
  <2>3. pc' = "headers"
    BY <1>7, <1>8, <2>1
  <2>4. done' = done
    BY <1>7, <1>8, <2>1
  <2> QED BY <1>2, <1>10, <1>11, <2>2, <2>3, <2>4 DEF Located, Reading
<1>12. CASE ~(gone /\ wire = <<>>)
  <2>1. PICK shapes, start, read, m, k :
          Layout(shapes, start, read) /\ Within(shapes, start, read, m, k) /\ Where(shapes, m, k)
    BY <1>2, <1>12 DEF Located
  <2>2. /\ done < m /\ PassedOver(m) /\ k = HeaderLength(shapes[m]) + 1
        /\ shapes[m] \notin {"missing", "wrong", "huge"} /\ length = Said(shapes[m])
    BY <1>2, <2>1 DEF Where
  <2>3. m \in 1..n + 1 /\ read = start[m] + k
    BY <1>1, <2>1 DEF Within
  <2>4. PICK s \in Nat, h \in {2, 4}, f \in Nat :
          s = start[m] /\ h = HeaderLength(shapes[m]) /\ f = FrameLength(shapes[m])
    BY <1>1, <1>4, <2>1, <2>3, LayoutTypes
  <2>5. f = h + 1 + Size /\ start[m + 1] = s + f /\ shapes[m] \in Shapes /\ read \in Nat
        /\ read = s + h + 1
    <3>1. /\ shapes[m] \in Shapes /\ start[m + 1] = start[m] + FrameLength(shapes[m])
          /\ FrameLength(shapes[m]) = HeaderLength(shapes[m]) + 1 + Size /\ read \in Nat
      BY <1>1, <1>4, <2>1, <2>3, LayoutTypes
    <3> QED BY <1>3, <2>2, <2>3, <2>4, <3>1
  <2>6. m \in 1..n
    <3>1. SUFFICES ASSUME m = n + 1 PROVE FALSE
      BY <2>3
    <3>2. shapes[m] = "plain" /\ length = Size
      BY <1>1, <2>1, <2>2, <3>1 DEF Layout, Said
    <3>3. /\ start[Len(sent) + 2] = s + f /\ start[Len(sent) + 1] = s
      <4>1. (n + 1) + 1 = n + 2
        OBVIOUS
      <4> QED BY <1>1, <2>4, <2>5, <3>1, <4>1
    <3>4. read + l < s + f \/ read + l = s
      <4>1. IF gone
              THEN /\ read + Len(wire) >= start[Len(sent) + 1]
                   /\ read + Len(wire) < start[Len(sent) + 2]
              ELSE read + Len(wire) = start[Len(sent) + 1]
        BY <2>1 DEF Layout
      <4> QED BY <1>1, <3>3, <4>1
    <3> QED BY <1>2, <1>3, <2>5, <3>2, <3>4
  <2>7. PICK e \in 0..Len(wire) : e = length
    BY <1>4
  <2>8. Layout(shapes, start, read + e)'
    <3>1. wire' = Rest(e) /\ UNCHANGED <<sent, gone>> /\ Len(sent) \in Nat
      BY <1>1, <1>2, <2>7
    <3>2. Layout(shapes, start, read) /\ wire \in Seq(Piece)
      BY <1>4, <2>1
    <3> QED BY <3>1, <3>2, Advances
  <2>9. PICK g \in Nat : m + 1 \in 1..n + 1 /\ g = FrameLength(shapes[m + 1]) /\ g > 1
    <3>1. m + 1 \in 1..Len(sent) + 1
      BY <1>1, <2>6
    <3> QED BY <1>1, <1>3, <3>1 DEF FrameLength, HeaderLength
  <2>10. /\ \A i \in 1..m + 1 : Broken(i) => Broken(i)'
         /\ PassedOver(m) /\ done' = done => PassedOver(m)'
    BY <1>2 DEF Broken, PassedOver
  <2>11. CASE length = Size
    <3>1. Framed(shapes[m])
      BY <1>3, <2>2, <2>5, <2>11 DEF Framed, Said, Shapes
    <3>2. sent[m].framed
      BY <1>1, <2>1, <2>6, <3>1 DEF Layout
    <3>3. ASSUME NEW p \in 1..Size PROVE body[p] = Unit("part", m, p)
      <4>1. p \in 1..Len(wire) /\ p \in 1..length
        BY <1>1, <1>2, <1>3, <2>11
      <4>2. PICK j \in 1..f : j = h + 1 + p
        BY <2>5, <1>3
      <4>3. /\ m \in 1..Len(sent) + 1 /\ j \in 1..FrameLength(shapes[m])
            /\ read + p = start[m] + j
        <5>1. m \in 1..n + 1 /\ read + p = s + j
          BY <2>5, <2>6, <4>2
        <5> QED BY <1>1, <2>4, <4>2, <5>1
      <4>4. wire[p] = FrameUnit(m, shapes[m], j)
        BY <1>1, <1>4, <2>1, <4>1, <4>3, UnitAt
      <4>5. ~(j <= h) /\ j # h + 1 /\ j - h - 1 = p
        BY <4>2
      <4> QED BY <1>6, <2>4, <4>1, <4>4, <4>5 DEF FrameUnit
    <3>4. body = Body(m)
      <4>1. /\ Len(body) = Len(Body(m)) /\ Body(m) \in Seq(Piece)
            /\ \A p \in 1..Len(body) : body[p] = Body(m)[p]
        <5>1. \A p \in 1..Size : Body(m)[p] = Unit("part", m, p)
          BY DEF Body
        <5>2. \A p \in 1..Size : body[p] \in Piece
          BY <1>6, <2>11, ElementOfSeq
        <5>3. Body(m) \in [1..Size -> Piece]
          BY <3>3, <5>2 DEF Body
        <5> QED BY <1>3, <1>6, <2>11, <3>3, <5>1, <5>3
      <4> HIDE DEF body
      <4> QED BY <1>6, <4>1, SeqEqual
    <3>5. whole = {m}
      <4>1. m \in whole
        BY <1>1, <2>6, <3>4 DEF whole
      <4>2. ASSUME NEW i \in whole PROVE i = m
        <5>1. Body(i) = Body(m)
          BY <3>4 DEF whole
        <5> QED BY <5>1, WholeIs
      <4> QED BY <4>1, <4>2
    <3>6. Within(shapes, start, read + e, m + 1, 0)'
      <4>1. 0 \in 0..g - 1 /\ read + e = (s + f) + 0
        BY <1>3, <2>5, <2>7, <2>9, <2>11
      <4> QED BY <1>1, <1>2, <2>5, <2>9, <4>1 DEF Within
    <3>7. Where(shapes, m + 1, 0)' /\ Reading'
      <4>1. CASE pc' = "handle" /\ reading' = m /\ done' = done /\ sent[m].message.method # "invalid"
        <5>1. PassedOver(m)'
          BY <2>2, <2>10, <4>1
        <5> QED BY <1>1, <1>2, <2>2, <2>6, <3>2, <4>1, <5>1 DEF Where, Reading, Turn
      <4>2. CASE pc' = "headers" /\ done' = m
        <5>1. ASSUME NEW i \in 1..m PROVE Broken(i)' \/ i <= done'
          <6>1. CASE i = m
            BY <4>2, <6>1
          <6>2. CASE i \in 1..m - 1
            BY <1>1, <2>2, <2>6, <2>10, <4>2, <6>2 DEF PassedOver
          <6> QED BY <2>6, <6>1, <6>2
        <5>2. PassedOver(m + 1)'
          BY <2>6, <5>1 DEF PassedOver
        <5>3. done' < m + 1 /\ InHeader(shapes[m + 1], 0)'
          BY <1>2, <2>6, <4>2 DEF InHeader
        <5> QED BY <4>2, <5>2, <5>3 DEF Where, Reading
      <4> QED BY <1>7, <3>5, <4>1, <4>2
    <3>8. Turn(m)
      BY <1>1, <2>2, <2>6, <3>2 DEF Turn
    <3>9. done' = done \/ (done' = m /\ sent[m].message.method = "invalid" /\ m \in 1..Len(sent))
      BY <1>1, <1>7, <2>6, <3>5
    <3> QED BY <1>10, <2>8, <3>6, <3>7, <3>8, <3>9, LocatedHere
  <2>12. CASE length # Size
    <3>1. pc' = "headers" /\ done' = done /\ Reading'
      BY <1>7, <1>8, <2>12 DEF Reading
    <3>2. ~Framed(shapes[m]) /\ (length = Size - 1 \/ length = Size + 1)
      BY <2>2, <2>5, <2>12 DEF Framed, Said, Shapes
    <3>3. Broken(m) /\ m \in 1..Len(sent) + 1
      BY <1>1, <2>1, <2>3, <3>2, BadShape
    <3>4. Broken(m)' /\ PassedOver(m)'
      BY <2>2, <2>6, <2>10, <3>1, <3>3
    <3>5. CASE length = Size - 1
      <4>1. f - 1 \in 0..f - 1 /\ read + e = s + (f - 1)
        BY <1>3, <2>5, <2>7, <3>5
      <4>2. Within(shapes, start, read + e, m, f - 1)'
        BY <1>1, <1>2, <2>3, <2>4, <4>1 DEF Within
      <4>3. Where(shapes, m, f - 1)'
        BY <1>2, <2>2, <3>1, <3>4 DEF Where
      <4> QED BY <1>10, <2>8, <3>1, <4>2, <4>3, LocatedHere
    <3>6. CASE length = Size + 1
      <4>1. 1 \in 0..g - 1 /\ read + e = (s + f) + 1
        BY <1>3, <2>5, <2>7, <2>9, <3>6
      <4>2. Within(shapes, start, read + e, m + 1, 1)'
        BY <1>1, <1>2, <2>5, <2>9, <4>1 DEF Within
      <4>3. Broken(m + 1)' /\ PassedOver(m + 1)' /\ done' < m + 1
        <5>1. done \in Int
          BY <1>1 DEF Types
        <5>2. Broken(m + 1)'
          BY <2>6, <3>4 DEF Broken
        <5>3. PassedOver(m + 1)'
          BY <2>6, <3>4 DEF PassedOver
        <5> QED BY <2>2, <2>6, <3>1, <5>1, <5>2, <5>3
      <4>4. Where(shapes, m + 1, 1)'
        BY <1>2, <3>1, <4>3 DEF Where
      <4> QED BY <1>10, <2>8, <3>1, <4>2, <4>4, LocatedHere
    <3> QED BY <3>2, <3>5, <3>6
  <2> QED BY <2>11, <2>12
<1> QED BY <1>11, <1>12

\* What has been answered, in sum.
History == Answers /\ Told /\ LastOne /\ Analysed /\ Kinds

-----------------------------------------------------------------------------
(* What has been answered.                                                 *)

\* Messages that have been sent stay as they are.
LEMMA SentTypes ==
  ASSUME Types
  PROVE  /\ Len(sent) \in Nat /\ done \in 0..Len(sent) /\ reading \in 0..Len(sent)
         /\ Len(replies) \in Nat /\ report \in 0..MaxEdits
         /\ \A i \in 1..Len(sent) : sent[i].message \in Message /\ sent[i].edition \in 0..MaxEdits
         /\ \A k \in 1..Len(replies) :
              replies[k].to \in 1..MaxSends /\ replies[k].edition \in 0..MaxEdits
         /\ \A d \in Doc : edition[d] \in 0..MaxEdits
<1>1. \A i \in 1..Len(sent) : sent[i] \in SentMessage
  BY ElementOfSeq DEF Types
<1>2. \A k \in 1..Len(replies) : replies[k] \in Given
  BY ElementOfSeq DEF Types
<1> QED
  BY <1>1, <1>2, LenProperties DEF Types, SentMessage, Given

\* Steps that answer nothing, and after which no message that asks for
\* diagnostics counts as handled.
LEMMA QuietHistory ==
  ASSUME Types, History, UNCHANGED <<sent, replies, edition>>,
         NEW c, done' = c, c = done \/ (Turn(c) /\ ~Event(c)),
         pc' # "publish" \/ UNCHANGED <<pc, reading, report>>
  PROVE  History'
<1>1. PICK n \in Nat, z \in Nat, b \in Nat : n = Len(sent) /\ z = Len(replies) /\ b = done /\ b <= n
  BY SentTypes
<1>2. c \in b..n /\ c \in Nat /\ done' = c
  BY <1>1 DEF Turn
<1>3. /\ \A i \in 1..n : (Event(i) <=> Event(i)') /\ (Broken(i) <=> Broken(i)')
      /\ Len(sent') = n /\ Len(replies') = z
      /\ \A k \in 1..z : \A m : Published(k, m) <=> Published(k, m)'
  BY <1>1 DEF Event, Broken, Published
<1>4. Answers'
  <2>1. \A k \in 1..z :
          /\ replies[k].to \in 1..b
          /\ replies[k].kind \in Diagnostics =>
               /\ Event(replies[k].to)
               /\ replies[k].edition <= edition[sent[replies[k].to].message.doc]
               /\ \A j \in 1..k :
                    replies[j].kind \in Diagnostics
                      /\ sent[replies[j].to].message.doc = sent[replies[k].to].message.doc
                        => replies[j].edition <= replies[k].edition
    BY <1>1 DEF History, Answers
  <2>2. \A i \in 1..n :
          sent[i].message.doc \in Doc => sent[i].edition <= edition[sent[i].message.doc]
    BY <1>1 DEF History, Answers
  <2>3. \A k \in 1..z : replies[k].to \in 1..c /\ replies[k].to \in 1..n
    BY <1>2, <2>1
  <2> QED BY <1>1, <1>3, <2>1, <2>2, <2>3 DEF Answers
<1>5. Told'
  <2>1. ASSUME NEW i \in 1..c, Event(i)', ~Broken(i)'
        PROVE  i \in 1..b /\ Event(i) /\ ~Broken(i)
    <3>1. i \in 1..n /\ Event(i) /\ ~Broken(i)
      BY <1>2, <1>3, <2>1
    <3>2. CASE c = done
      BY <1>1, <2>1, <3>1, <3>2
    <3>3. CASE Turn(c) /\ ~Event(c)
      <4>1. i # c
        BY <3>1, <3>3
      <4>2. i \in 1..c - 1
        BY <1>2, <2>1, <4>1
      <4>3. i <= done
        BY <3>1, <3>3, <4>2 DEF Turn, PassedOver
      <4> QED BY <1>1, <3>1, <4>3
    <3> QED BY <3>2, <3>3
  <2>2. \A i \in 1..b : Event(i) /\ ~Broken(i) =>
          \E k \in 1..z : Published(k, sent[i].message) /\ replies[k].edition >= sent[i].edition
    BY <1>1 DEF History, Told
  <2> QED BY <1>2, <1>3, <2>1, <2>2 DEF Told
<1>6. LastOne'
  BY <1>1, <1>3 DEF History, LastOne
<1>7. Analysed'
  BY <1>1, <1>3 DEF History, Analysed, Event
<1>8. Kinds'
  BY DEF History, Kinds
<1> QED BY <1>4, <1>5, <1>6, <1>7, <1>8 DEF History

\* One more message.
LEMMA SendHistory ==
  ASSUME Types, Reading, History, NEW t \in Traffic, Send(t)
  PROVE  History' /\ Reading'
<1>1. PICK n \in Nat, z \in Nat, b \in Nat : n = Len(sent) /\ z = Len(replies) /\ b = done /\ b <= n
  BY SentTypes
<1>2. /\ Len(sent') = n + 1 /\ \A i \in 1..n : sent'[i] = sent[i]
      /\ sent'[n + 1].message = t.message /\ sent'[n + 1].edition = EditionOf(t.message)
      /\ UNCHANGED <<pc, reading, report, replies, done, edition>>
  BY <1>1, SendTyped DEF Send
<1>3. /\ \A i \in 1..n : (Event(i) <=> Event(i)') /\ (Broken(i) <=> Broken(i)')
      /\ Len(replies') = z
  <2>1. ASSUME NEW i \in 1..n PROVE (Event(i) <=> Event(i)') /\ (Broken(i) <=> Broken(i)')
    <3>1. \A j \in 1..i : j \in 1..n /\ j <= n + 1 /\ j <= n /\ sent'[j] = sent[j]
      BY <1>2
    <3> QED BY <1>1, <1>2, <3>1 DEF Event, Broken
  <2> QED BY <1>1, <1>2, <2>1
<1>4. \A k \in 1..z : replies[k].to \in 1..n /\ sent'[replies[k].to] = sent[replies[k].to]
  BY <1>1, <1>2 DEF History, Answers
<1>5. \A k \in 1..z : \A m : Published(k, m) <=> Published(k, m)'
  BY <1>2, <1>4 DEF Published
<1>6. Answers'
  <2>1. ASSUME NEW i \in 1..n + 1, sent'[i].message.doc \in Doc
        PROVE  sent'[i].edition <= edition[sent'[i].message.doc]
    <3>1. CASE i \in 1..n
      BY <1>1, <1>2, <2>1, <3>1 DEF History, Answers
    <3>2. CASE i = n + 1
      BY <1>2, <2>1, <3>2, SentTypes DEF EditionOf
    <3> QED BY <3>1, <3>2
  <2>2. \A k \in 1..z :
          /\ replies[k].to \in 1..b
          /\ replies[k].kind \in Diagnostics =>
               /\ Event(replies[k].to)
               /\ replies[k].edition <= edition[sent[replies[k].to].message.doc]
               /\ \A j \in 1..k :
                    replies[j].kind \in Diagnostics
                      /\ sent[replies[j].to].message.doc = sent[replies[k].to].message.doc
                        => replies[j].edition <= replies[k].edition
    BY <1>1 DEF History, Answers
  <2>3. \A k \in 1..z : Event(replies[k].to) => Event(replies[k].to)'
    BY <1>2, <1>4 DEF Event
  <2>4. \A k \in 1..z : \A j \in 1..k : j \in 1..z
    OBVIOUS
  <2>5. ASSUME NEW k \in 1..z, replies[k].kind \in Diagnostics
        PROVE  /\ Event(replies[k].to)'
               /\ replies[k].edition <= edition[sent'[replies[k].to].message.doc]
               /\ \A j \in 1..k :
                    replies[j].kind \in Diagnostics
                      /\ sent'[replies[j].to].message.doc = sent'[replies[k].to].message.doc
                        => replies[j].edition <= replies[k].edition
    BY <1>4, <2>2, <2>3, <2>4, <2>5
  <2> QED BY <1>1, <1>2, <1>3, <2>1, <2>2, <2>5 DEF Answers
<1>7. Told'
  <2>1. \A i \in 1..b : Event(i) /\ ~Broken(i) =>
          \E k \in 1..z : Published(k, sent[i].message) /\ replies[k].edition >= sent[i].edition
    BY <1>1 DEF History, Told
  <2>2. \A i \in 1..b : i \in 1..n
    BY <1>1
  <2>3. \A i \in 1..b : Event(i)' /\ ~Broken(i)' =>
          \E k \in 1..z :
            /\ replies[k].kind \in Diagnostics /\ sent'[replies[k].to].message = sent'[i].message
            /\ replies[k].edition >= sent'[i].edition
    <3> SUFFICES ASSUME NEW i \in 1..b, Event(i)', ~Broken(i)'
                 PROVE  \E k \in 1..z :
                          /\ replies[k].kind \in Diagnostics
                          /\ sent'[replies[k].to].message = sent'[i].message
                          /\ replies[k].edition >= sent'[i].edition
      OBVIOUS
    <3>1. Event(i) /\ ~Broken(i) /\ sent'[i] = sent[i]
      BY <1>2, <1>3, <2>2
    <3>2. PICK k \in 1..z : Published(k, sent[i].message) /\ replies[k].edition >= sent[i].edition
      BY <2>1, <3>1
    <3> QED BY <1>4, <3>1, <3>2 DEF Published
  <2> QED BY <1>1, <1>2, <2>3 DEF Told, Published
<1>8. LastOne'
  <2>1. \A k \in 1..z : replies[k].kind \in Diagnostics =>
          \E l \in k..z :
            /\ Published(l, sent[replies[k].to].message)
            /\ \A j \in 1..z : Published(j, sent[replies[k].to].message) => j <= l
    BY <1>1 DEF History, LastOne
  <2>2. \A k \in 1..z : \A l \in k..z : l \in 1..z
    OBVIOUS
  <2>3. \A k \in 1..z : replies[k].kind \in Diagnostics =>
          \E l \in k..z :
            /\ replies[l].kind \in Diagnostics
            /\ sent'[replies[l].to].message = sent'[replies[k].to].message
            /\ \A j \in 1..z :
                 /\ replies[j].kind \in Diagnostics
                 /\ sent'[replies[j].to].message = sent'[replies[k].to].message
                 => j <= l
    <3>1. SUFFICES ASSUME NEW k \in 1..z, replies[k].kind \in Diagnostics
                   PROVE  \E l \in k..z :
                            /\ replies[l].kind \in Diagnostics
                            /\ sent'[replies[l].to].message = sent'[replies[k].to].message
                            /\ \A j \in 1..z :
                                 /\ replies[j].kind \in Diagnostics
                                 /\ sent'[replies[j].to].message = sent'[replies[k].to].message
                                 => j <= l
      OBVIOUS
    <3>2. PICK l \in k..z :
            /\ Published(l, sent[replies[k].to].message)
            /\ \A j \in 1..z : Published(j, sent[replies[k].to].message) => j <= l
      BY <2>1, <3>1
    <3>3. \A j \in 1..z : sent'[replies[j].to].message = sent[replies[j].to].message
      BY <1>4
    <3>4. l \in 1..z
      BY <2>2
    <3> QED BY <3>2, <3>3, <3>4 DEF Published
  <2> QED BY <1>1, <1>2, <2>3 DEF LastOne, Published
<1>9. Reading'
  <2>1. SUFFICES ASSUME pc \in {"handle", "publish"}
                 PROVE  Turn(reading)' /\ sent'[reading].message.method # "invalid"
    BY <1>2 DEF Reading
  <2>2. Turn(reading) /\ sent[reading].message.method # "invalid" /\ reading \in 1..n
    BY <1>1, <2>1 DEF Reading, Turn
  <2>3. \A i \in 1..reading - 1 : i \in 1..n
    BY <2>2
  <2>4. PassedOver(reading)'
    BY <1>2, <1>3, <2>2, <2>3 DEF Turn, PassedOver
  <2> QED BY <1>2, <2>2, <2>4 DEF Turn
<1>10. Analysed'
  <2>1. SUFFICES ASSUME pc = "publish" PROVE Analysed'
    BY <1>2 DEF Analysed
  <2>2. reading \in 1..n
    BY <1>1, <2>1 DEF Reading, Turn
  <2> QED BY <1>1, <1>2, <1>3, <1>4, <2>1, <2>2 DEF History, Analysed
<1>11. Kinds'
  BY <1>1, <1>2, <1>4 DEF History, Kinds
<1> QED BY <1>6, <1>7, <1>8, <1>9, <1>10, <1>11 DEF History

\* A file is changed: what was analysed of it is of before.
LEMMA EditHistory ==
  ASSUME Types, History, NEW d \in Doc, Edit(d)
  PROVE  History' /\ Types'
<1>1. /\ edition' \in [Doc -> 0..MaxEdits]
      /\ \A c \in Doc : edition[c] <= edition'[c] /\ edition'[c] \in Nat /\ edition[c] \in Nat
      /\ UNCHANGED <<wire, gone, sent, pc, length, reading, report, replies, done>>
  BY LspConstants DEF Edit, Types
<1>2. Types'
  BY <1>1 DEF Types
<1>7. ASSUME NEW c \in Doc, NEW e \in Nat, e <= edition[c]
      PROVE  e <= edition'[c]
  <2>1. edition[c] \in Nat /\ edition'[c] \in Nat /\ edition[c] <= edition'[c]
    BY <1>1
  <2> QED BY <1>7, <2>1
<1>3. PICK n \in Nat, z \in Nat :
        /\ n = Len(sent) /\ z = Len(replies) /\ done \in 0..n /\ reading \in 0..n
        /\ \A i \in 1..n : sent[i].edition \in Nat
        /\ \A k \in 1..z : replies[k].edition \in Nat
        /\ report \in Nat
  BY SentTypes, LspConstants
<1>4. Answers'
  <2>1. \A k \in 1..z : replies[k].to \in 1..n
    BY <1>3 DEF History, Answers
  <2>2. \A k \in 1..z : replies[k].kind \in Diagnostics =>
          /\ Event(replies[k].to)
          /\ replies[k].edition <= edition'[sent[replies[k].to].message.doc]
    <3>1. SUFFICES ASSUME NEW k \in 1..z, replies[k].kind \in Diagnostics
                   PROVE  /\ Event(replies[k].to)
                          /\ replies[k].edition <= edition'[sent[replies[k].to].message.doc]
      OBVIOUS
    <3>2. Event(replies[k].to) /\ replies[k].edition <= edition[sent[replies[k].to].message.doc]
      BY <1>3, <3>1 DEF History, Answers
    <3>3. PICK c \in Doc : c = sent[replies[k].to].message.doc
      BY <3>2 DEF Event
    <3>4. PICK e \in Nat : e = replies[k].edition
      BY <1>3
    <3>5. e <= edition[c]
      BY <3>2, <3>3, <3>4
    <3>6. e <= edition'[c]
      BY <3>5, <1>7
    <3> QED BY <3>2, <3>3, <3>4, <3>6
  <2>3. \A i \in 1..n :
          sent[i].message.doc \in Doc => sent[i].edition <= edition'[sent[i].message.doc]
    BY <1>1, <1>3 DEF History, Answers
  <2> QED BY <1>1, <1>3, <2>1, <2>2, <2>3 DEF History, Answers, Event
<1>5. Told' /\ LastOne'
  <2>1. \A k, m : Published(k, m) <=> Published(k, m)'
    BY <1>1 DEF Published
  <2>2. \A i : (Event(i) <=> Event(i)') /\ (Broken(i) <=> Broken(i)')
    BY <1>1 DEF Event, Broken
  <2>3. Told'
    BY <1>1, <2>1, <2>2 DEF History, Told
  <2>4. LastOne'
    BY <1>1 DEF History, LastOne, Published
  <2> QED BY <2>3, <2>4
<1>6. Analysed'
  <2>1. SUFFICES ASSUME pc = "publish" PROVE Analysed'
    BY <1>1 DEF Analysed
  <2>2. PICK c \in Doc : c = sent[reading].message.doc
    BY <2>1 DEF History, Analysed, Event
  <2>3. report <= edition[c]
    BY <2>1, <2>2 DEF History, Analysed
  <2>4. report <= edition'[c]
    <3>1. PICK e \in Nat : e = report
      BY <1>3
    <3> QED BY <1>7, <2>3, <3>1
  <2> QED BY <1>1, <2>1, <2>2, <2>4 DEF History, Analysed, Event
<1>8. Kinds'
  BY <1>1 DEF History, Kinds
<1> QED BY <1>2, <1>4, <1>5, <1>6, <1>8 DEF History

\* A file is analysed: as it is, and so no earlier than before.
LEMMA AnalyseHistory ==
  ASSUME Types, Reading, History, Analyse
  PROVE  History' /\ Types' /\ Reading'
<1>1. /\ pc = "handle" /\ Event(reading) /\ report' = edition[sent[reading].message.doc]
      /\ pc' = "publish" /\ UNCHANGED <<wire, gone, sent, edition, length, reading, replies, done>>
  BY DEF Analyse, Event, Server
<1>2. Turn(reading) /\ sent[reading].message.doc \in Doc
  BY <1>1 DEF Reading, Event
<1>3. report' \in 0..MaxEdits
  BY <1>1, <1>2, SentTypes
<1>4. Types'
  BY <1>1, <1>3 DEF Types
<1>5. Reading'
  BY <1>1 DEF Reading, Turn, PassedOver, Broken
<1>6. Answers' /\ Told' /\ LastOne' /\ Kinds'
  BY <1>1 DEF History, Answers, Told, LastOne, Kinds, Event, Broken, Published
<1>7. Analysed'
  <2>1. \A k \in 1..Len(replies) :
          replies[k].kind \in Diagnostics
            /\ sent[replies[k].to].message.doc = sent[reading].message.doc
              => replies[k].edition <= report'
    BY <1>1, <1>2 DEF History, Answers
  <2>2. report' >= sent[reading].edition
    BY <1>1, <1>2, <1>3, SentTypes DEF History, Answers, Turn
  <2>3. report' <= edition[sent[reading].message.doc]
    BY <1>1, <1>3
  <2>4. Event(reading)'
    BY <1>1 DEF Event
  <2> QED BY <1>1, <2>1, <2>2, <2>3, <2>4 DEF Analysed
<1> QED BY <1>4, <1>5, <1>6, <1>7 DEF History

\* Two sequences that differ by at most one answer at the end.
LEMMA OneMore ==
  ASSUME Types, NEW r \in Given, replies' = replies \o <<r>>
  PROVE  /\ Len(replies') = Len(replies) + 1
         /\ \A k \in 1..Len(replies) : replies'[k] = replies[k]
         /\ replies'[Len(replies) + 1] = r
<1> DEFINE rs == <<r>>
<1>1. rs \in Seq(Given) /\ Len(rs) = 1 /\ rs[1] = r /\ replies' = replies \o rs
  OBVIOUS
<1>2. PICK z \in Nat, one \in Nat : z = Len(replies) /\ one = 1 /\ replies \in Seq(Given)
  BY LenProperties DEF Types
<1> HIDE DEF rs
<1>3. /\ Len(replies \o rs) = Len(replies) + Len(rs)
      /\ \A i \in 1..Len(replies) + Len(rs) :
           (replies \o rs)[i] = IF i <= Len(replies) THEN replies[i] ELSE rs[i - Len(replies)]
  BY <1>1, <1>2, ConcatProperties
<1>4. z + 1 \in 1..z + 1 /\ ~(z + 1 <= z) /\ (z + 1) - z = 1
  BY <1>2
<1>5. (replies \o rs)[z + 1] = r
  BY <1>1, <1>2, <1>3, <1>4
<1> QED BY <1>1, <1>2, <1>3, <1>5

\* An answer: diagnostics are no older than what was sent before.
LEMMA AnswerHistory ==
  ASSUME Types, Reading, History, pc \in {"handle", "publish"},
         NEW kind \in {"result", "error"} \cup Diagnostics, NEW e \in 0..MaxEdits,
         kind \in Diagnostics =>
           pc = "publish" /\ e = report /\ kind = Shows(sent[reading].message.doc, e),
         kind \notin Diagnostics => ~Event(reading),
         NEW next \in {"headers", "ended"},
         Finish(<<Reply(kind, reading, e)>>, next)
  PROVE  History'
<1>1. PICK n \in Nat, z \in Nat, b \in Nat, c \in Nat :
        /\ n = Len(sent) /\ z = Len(replies) /\ b = done /\ b <= n /\ c = reading
        /\ c <= n /\ c > 0
  BY SentTypes DEF Types
<1>2. PICK r : r = Reply(kind, reading, e)
  OBVIOUS
<1>3. r \in Given /\ r.kind = kind /\ r.to = c /\ r.edition = e
  BY <1>1, <1>2, Room DEF Given, Reply, Types
<1>4. /\ UNCHANGED <<sent, edition, reading, report>> /\ done' = c /\ pc' \in {"headers", "ended"}
      /\ replies' = replies \o <<r>>
  BY <1>1, <1>2 DEF Finish, Server
<1>5. /\ Len(replies') = z + 1 /\ \A k \in 1..z : replies'[k] = replies[k]
      /\ replies'[z + 1] = r
  BY <1>1, <1>3, <1>4, OneMore
<1>6. Turn(c) /\ b < c
  BY <1>1 DEF Reading, Turn
<1>7. /\ \A i \in 1..n : (Event(i) <=> Event(i)') /\ (Broken(i) <=> Broken(i)')
      /\ Len(sent') = n
  BY <1>1, <1>4 DEF Event, Broken
<1>8. e \in Nat /\ \A k \in 1..z : replies[k].to \in 1..b /\ replies[k].edition \in Nat
  BY <1>1, SentTypes, LspConstants DEF History, Answers
<1>9. kind \in Diagnostics =>
        /\ Event(c) /\ e <= edition[sent[c].message.doc] /\ e >= sent[c].edition
        /\ \A k \in 1..z :
             replies[k].kind \in Diagnostics /\ sent[replies[k].to].message.doc = sent[c].message.doc
               => replies[k].edition <= e
  BY <1>1 DEF History, Analysed
<1>10. \A k \in 1..z :
         replies[k].kind \in Diagnostics =>
           /\ Event(replies[k].to)
           /\ replies[k].edition <= edition[sent[replies[k].to].message.doc]
           /\ \A j \in 1..k :
                replies[j].kind \in Diagnostics
                  /\ sent[replies[j].to].message.doc = sent[replies[k].to].message.doc
                    => replies[j].edition <= replies[k].edition
  BY <1>1 DEF History, Answers
<1>11. Answers'
  <2>1. ASSUME NEW k \in 1..z + 1
        PROVE  /\ replies'[k].to \in 1..c
               /\ replies'[k].kind \in Diagnostics =>
                    /\ Event(replies'[k].to)
                    /\ replies'[k].edition <= edition[sent[replies'[k].to].message.doc]
                    /\ \A j \in 1..k :
                         replies'[j].kind \in Diagnostics
                           /\ sent[replies'[j].to].message.doc = sent[replies'[k].to].message.doc
                             => replies'[j].edition <= replies'[k].edition
    <3>1. CASE k \in 1..z
      <4>1. \A j \in 1..k : j \in 1..z /\ replies'[j] = replies[j]
        BY <1>5, <3>1
      <4>2. replies'[k] = replies[k] /\ replies[k].to \in 1..c
        BY <1>5, <1>6, <1>8, <3>1
      <4> QED BY <1>10, <3>1, <4>1, <4>2
    <3>2. CASE k = z + 1
      <4>1. replies'[k] = r /\ c \in 1..c
        BY <1>1, <1>5, <3>2
      <4>2. \A j \in 1..k : j = k \/ (j \in 1..z /\ replies'[j] = replies[j])
        BY <1>5, <3>2
      <4> QED BY <1>3, <1>8, <1>9, <4>1, <4>2
    <3> QED BY <3>1, <3>2
  <2>2. \A i \in 1..n :
          sent[i].message.doc \in Doc => sent[i].edition <= edition[sent[i].message.doc]
    BY <1>1 DEF History, Answers
  <2>3. \A k \in 1..z + 1 : replies'[k].kind \in Diagnostics => Event(replies'[k].to)
    BY <2>1
  <2> QED BY <1>4, <1>5, <1>7, <2>1, <2>2, <2>3 DEF Answers, Event
<1>12. Told'
  <2>1. SUFFICES ASSUME NEW i \in 1..c, Event(i), ~Broken(i)
                 PROVE  \E k \in 1..z + 1 :
                          /\ replies'[k].kind \in Diagnostics
                          /\ sent[replies'[k].to].message = sent[i].message
                          /\ replies'[k].edition >= sent[i].edition
    BY <1>1, <1>4, <1>5, <1>7 DEF Told, Published, Event, Broken
  <2>2. CASE i = c
    <3>1. kind \in Diagnostics
      BY <1>1, <2>1, <2>2
    <3>2. z + 1 \in 1..z + 1
      OBVIOUS
    <3> QED BY <1>3, <1>5, <1>9, <2>2, <3>1, <3>2
  <2>3. CASE i # c
    <3>1. i \in 1..c - 1
      BY <2>1, <2>3
    <3>2. i \in 1..b
      BY <1>1, <1>6, <2>1, <3>1 DEF Turn, PassedOver
    <3>3. PICK k \in 1..z : Published(k, sent[i].message) /\ replies[k].edition >= sent[i].edition
      BY <1>1, <2>1, <3>2 DEF History, Told
    <3>4. k \in 1..z + 1
      OBVIOUS
    <3> QED BY <1>5, <3>3, <3>4 DEF Published
  <2> QED BY <2>2, <2>3
<1>13. LastOne'
  <2> DEFINE Same(j, k) == replies'[j].kind \in Diagnostics
                             /\ sent[replies'[j].to].message = sent[replies'[k].to].message
  <2>4. LastOne' <=> \A k \in 1..z + 1 : replies'[k].kind \in Diagnostics =>
                       \E l \in k..z + 1 : Same(l, k) /\ \A j \in 1..z + 1 : Same(j, k) => j <= l
    <3>1. Len(replies') = z + 1 /\ sent' = sent
      BY <1>4, <1>5
    <3> QED BY <3>1 DEF LastOne, Published
  <2>1. SUFFICES ASSUME NEW k \in 1..z + 1, replies'[k].kind \in Diagnostics
                 PROVE  \E l \in k..z + 1 : Same(l, k) /\ \A j \in 1..z + 1 : Same(j, k) => j <= l
    BY <2>4
  <2>2. CASE /\ kind \in Diagnostics /\ sent[c].message = sent[replies'[k].to].message
    <3>1. z + 1 \in k..z + 1
      OBVIOUS
    <3>2. \A j \in 1..z + 1 : j <= z + 1
      OBVIOUS
    <3> QED BY <1>3, <1>5, <2>2, <3>1, <3>2
  <2>3. CASE ~(kind \in Diagnostics /\ sent[c].message = sent[replies'[k].to].message)
    <3>1. k \in 1..z
      BY <1>3, <1>5, <2>1, <2>3
    <3>2. replies'[k] = replies[k]
      BY <1>5, <3>1
    <3>3. PICK l \in k..z :
            /\ Published(l, sent[replies[k].to].message)
            /\ \A j \in 1..z : Published(j, sent[replies[k].to].message) => j <= l
      BY <1>1, <2>1, <3>1, <3>2 DEF History, LastOne
    <3>4. l \in 1..z /\ l \in k..z + 1
      BY <3>1
    <3>5. replies'[l] = replies[l]
      BY <1>5, <3>4
    <3>6. ASSUME NEW j \in 1..z + 1, Same(j, k)
          PROVE  j <= l
      <4>1. j \in 1..z
        BY <1>3, <1>5, <2>3, <3>6
      <4> QED BY <1>5, <3>2, <3>3, <3>6, <4>1 DEF Published
    <3> QED BY <3>2, <3>3, <3>4, <3>5, <3>6 DEF Published
  <2> QED BY <2>2, <2>3
<1>14. Analysed'
  BY <1>4 DEF Analysed
<1>15. Kinds'
  <2>1. SUFFICES ASSUME NEW k \in 1..z + 1, replies'[k].kind \in Diagnostics
                 PROVE  replies'[k].kind
                          = Shows(sent[replies'[k].to].message.doc, replies'[k].edition)
    BY <1>4, <1>5 DEF Kinds
  <2>2. CASE k \in 1..z
    BY <1>1, <1>5, <2>1, <2>2 DEF History, Kinds
  <2>3. CASE k = z + 1
    BY <1>1, <1>3, <1>5, <2>1, <2>3
  <2> QED BY <2>2, <2>3
<1> QED BY <1>11, <1>12, <1>13, <1>14, <1>15 DEF History

\* The inductive invariant.
IInv == Types /\ Located /\ Reading /\ History

-----------------------------------------------------------------------------
(* The invariant holds.                                                    *)

\* At first nothing is on the wire and nothing answered.
LEMMA InitInv == Init => IInv
<1> SUFFICES ASSUME Init PROVE IInv
  OBVIOUS
<1>1. /\ wire = <<>> /\ Len(wire) = 0 /\ sent = <<>> /\ Len(sent) = 0 /\ replies = <<>>
      /\ Len(replies) = 0 /\ ~gone /\ done = 0 /\ pc = "headers" /\ length = None /\ reading = 0
  BY DEF Init
<1>2. Types
  <2>1. <<>> \in Seq(Piece) /\ <<>> \in Seq(SentMessage) /\ <<>> \in Seq(Given)
    OBVIOUS
  <2>2. edition \in [Doc -> 0..MaxEdits] /\ report \in 0..MaxEdits /\ length \in -1..MaxLength + 1
        /\ Len(sent) <= MaxSends
    BY <1>1, LspConstants DEF Init, None
  <2>3. wire \in Seq(Piece) /\ sent \in Seq(SentMessage) /\ replies \in Seq(Given)
    BY <1>1, <2>1
  <2>4. reading \in 0..Len(sent) /\ done \in 0..Len(sent) /\ gone \in BOOLEAN
    <3>1. PICK n \in Nat : n = Len(sent)
      BY <1>1
    <3>2. gone = FALSE
      BY DEF Init
    <3>3. reading = 0 /\ done = 0
      BY <1>1
    <3>4. reading \in 0..n /\ done \in 0..n
      BY <3>1, <3>3
    <3>5. gone \in BOOLEAN
      BY <3>2
    <3> QED BY <3>1, <3>4, <3>5
  <2> QED BY <1>1, <2>2, <2>3, <2>4 DEF Types
<1>3. Located
  <2> DEFINE shapes == [i \in 1..1 |-> "plain"]
             start == [i \in 1..2 |-> IF i = 1 THEN 0 ELSE FrameLength("plain")]
  <2>1. FrameLength("plain") \in Nat /\ FrameLength("plain") > 0
    BY LspConstants DEF FrameLength, HeaderLength
  <2>2. shapes \in [1..1 -> Shapes] /\ shapes[1] = "plain"
    BY DEF Shapes
  <2>3. start \in [1..2 -> Nat] /\ start[1] = 0 /\ start[2] = FrameLength("plain")
    BY <2>1
  <2> HIDE DEF shapes, start
  <2>4. 1..Len(sent) + 1 = 1..1 /\ 1..Len(sent) + 2 = 1..2 /\ 1..Len(sent) = {} /\ Len(sent) + 1 = 1
    BY <1>1
  <2>5. Layout(shapes, start, 0)
    <3>1. \A i \in 1..1 : i = 1 /\ i + 1 = 2
      OBVIOUS
    <3>2. ASSUME NEW i \in 1..1, NEW k \in 1..FrameLength(shapes[i]),
                 0 < start[i] + k, start[i] + k <= 0 + Len(wire)
          PROVE  FALSE
      BY <1>1, <2>3, <3>1, <3>2
    <3>3. \A i \in 1..1 : start[i + 1] = start[i] + FrameLength(shapes[i]) /\ start[i] <= start[1]
      BY <2>1, <2>2, <2>3, <3>1
    <3>4. 0 + Len(wire) = start[1]
      BY <1>1, <2>3
    <3> QED BY <1>1, <2>2, <2>3, <2>4, <3>2, <3>3, <3>4 DEF Layout
  <2>6. Within(shapes, start, 0, 1, 0)
    BY <2>1, <2>2, <2>3, <2>4 DEF Within
  <2>7. Where(shapes, 1, 0)
    BY <1>1 DEF Where, PassedOver, InHeader
  <2>8. /\ shapes \in [1..Len(sent) + 1 -> Shapes] /\ start \in [1..Len(sent) + 2 -> Nat]
        /\ 0 \in Nat /\ 1 \in 1..Len(sent) + 1
    BY <2>2, <2>3, <2>4
  <2> QED BY <2>5, <2>6, <2>7, <2>8 DEF Located
<1>4. Reading /\ History
  BY <1>1 DEF Reading, History, Answers, Told, LastOne, Analysed, Kinds
<1> QED BY <1>2, <1>3, <1>4 DEF IInv

\* An answer, written or not, keeps the invariant.
LEMMA AnswerInv ==
  ASSUME IInv, pc \in {"handle", "publish"},
         NEW kind \in {"result", "error"} \cup Diagnostics, NEW e \in 0..MaxEdits,
         kind \in Diagnostics =>
           pc = "publish" /\ e = report /\ kind = Shows(sent[reading].message.doc, e),
         kind \notin Diagnostics => ~Event(reading),
         Answer(Reply(kind, reading, e))
  PROVE  IInv'
<1>1. Types /\ Located /\ Reading /\ History
  BY DEF IInv
<1>2. Types'
  BY <1>1, AnswerTyped
<1> DEFINE rs == <<Reply(kind, reading, e)>>
<1>3. CASE Finish(rs, "headers")
  <2>1. "headers" \in {"headers", "ended"}
    OBVIOUS
  <2>2. History'
    BY <1>1, <1>3, <2>1, AnswerHistory
  <2>3. pc' = "headers" /\ done' = reading /\ UNCHANGED <<wire, gone, sent, length, reading>>
    BY <1>3 DEF Finish, Server
  <2>4. Located'
    BY <1>1, <2>3, HandledLocated
  <2> QED BY <1>2, <2>2, <2>3, <2>4 DEF IInv, Reading
<1>4. CASE /\ pc' = "ended"
           /\ UNCHANGED <<wire, length, reading, report, replies, done, Server>>
  <2>1. pc' # "publish" /\ UNCHANGED <<sent, replies, edition, done>>
    BY <1>4 DEF Server
  <2>2. PICK c : c = done
    OBVIOUS
  <2>3. History'
    BY <1>1, <2>1, <2>2, QuietHistory
  <2> QED BY <1>2, <1>4, <2>3 DEF IInv, Located, Reading
<1> QED BY <1>3, <1>4 DEF Answer

\* A message that needs no answer keeps it.
LEMMA SilentInv ==
  ASSUME IInv, pc = "handle", ~Event(reading), NEW next \in {"headers", "ended"},
         Finish(<<>>, next)
  PROVE  IInv' /\ replies' = replies
<1>1. Types /\ Located /\ Reading /\ History
  BY DEF IInv
<1>2. replies \in Seq(Given)
  BY <1>1 DEF Types
<1>3. replies' = replies
  BY <1>2, ConcatEmptySeq DEF Finish
<1>4. /\ pc' = next /\ done' = reading
      /\ UNCHANGED <<wire, gone, sent, edition, length, reading, report, replies>>
  BY <1>3 DEF Finish, Server
<1>5. Types'
  BY <1>1, <1>4 DEF Types
<1>6. Located'
  BY <1>1, <1>4, HandledLocated
<1>7. PICK c : c = reading
  OBVIOUS
<1>8. Turn(c) /\ ~Event(c)
  BY <1>1, <1>7 DEF Reading
<1>9. pc' # "publish" /\ done' = c
  BY <1>4, <1>7
<1>10. History'
  BY <1>1, <1>4, <1>8, <1>9, QuietHistory
<1> QED BY <1>3, <1>4, <1>5, <1>6, <1>10 DEF IInv, Reading

\* handle_message (lib.rs 115) keeps the invariant.
LEMMA HandleInv == IInv /\ Handle => IInv'
<1> SUFFICES ASSUME IInv, Handle PROVE IInv'
  OBVIOUS
<1> DEFINE m == sent[reading].message
<1>1. /\ pc = "handle"
      /\ \/ m.method \in {"initialize", "shutdown"} /\ Answer(Reply("result", reading, 0))
         \/ m.method = "other" /\ m.request /\ Answer(Reply("error", reading, 0))
         \/ /\ \/ m.method = "other" /\ ~m.request
               \/ m.method = "initialized"
               \/ m.method = "document" /\ m.doc \notin Doc
            /\ Finish(<<>>, "headers")
         \/ m.method = "exit" /\ Finish(<<>>, "ended")
  BY DEF Handle
<1>2. 0 \in 0..MaxEdits
  BY LspConstants
<1>3. Event(reading) <=> m.method = "document" /\ m.doc \in Doc
  BY DEF Event
<1> HIDE DEF m
<1>4. ASSUME NEW kind \in {"result", "error"}, Answer(Reply(kind, reading, 0)), ~Event(reading)
      PROVE  IInv'
  <2>1. kind \notin Diagnostics
    BY <1>4 DEF Diagnostics
  <2> QED BY <1>1, <1>2, <1>4, <2>1, AnswerInv
<1>5. ASSUME NEW next \in {"headers", "ended"}, Finish(<<>>, next), ~Event(reading)
      PROVE  IInv'
  BY <1>1, <1>5, SilentInv
<1> QED BY <1>1, <1>3, <1>4, <1>5

\* publish_diagnostics (lib.rs 196) keeps it.
LEMMA PublishInv == IInv /\ Publish => IInv'
<1> SUFFICES ASSUME IInv, Publish PROVE IInv'
  OBVIOUS
<1>1. pc = "publish" /\ Answer(ToPublish)
  BY DEF Publish
<1>2. PICK e \in 0..MaxEdits : e = report
  BY DEF IInv, Types
<1>3. PICK kind \in Diagnostics : kind = Shows(sent[reading].message.doc, e)
  BY DEF Diagnostics, Shows
<1>4. Answer(Reply(kind, reading, e))
  BY <1>1, <1>2, <1>3 DEF ToPublish
<1> QED BY <1>1, <1>2, <1>3, <1>4, AnswerInv

\* Every step keeps the invariant.
LEMMA NextInv == IInv /\ [Next]_vars => IInv'
<1> SUFFICES ASSUME IInv, [Next]_vars PROVE IInv'
  OBVIOUS
<1>1. Types /\ Located /\ Reading /\ History
  BY DEF IInv
<1>2. PICK c : c = done
  OBVIOUS
<1>3. ASSUME NEW t \in Traffic, Send(t) PROVE IInv'
  <2>1. Types'
    BY <1>1, <1>3, SendTyped
  <2>2. Located'
    BY <1>1, <1>3, SendLocated
  <2>3. History' /\ Reading'
    BY <1>1, <1>3, SendHistory
  <2> QED BY <2>1, <2>2, <2>3 DEF IInv
<1>4. ASSUME NEW cut \in 0..Len(Frame(1, "plain")) - 1, Leave(cut) PROVE IInv'
  <2>1. UNCHANGED <<sent, replies, edition, done, pc, reading, report>>
    BY <1>4 DEF Leave
  <2>2. History'
    BY <1>1, <1>2, <2>1, QuietHistory
  <2>3. Reading'
    BY <1>1, <2>1 DEF Reading, Turn, PassedOver, Broken
  <2>4. Types'
    BY <1>1, <1>4, LeaveTyped
  <2>5. Located'
    BY <1>1, <1>4, LeaveLocated
  <2> QED BY <2>2, <2>3, <2>4, <2>5 DEF IInv
<1>5. ASSUME NEW d \in Doc \ Escaped, Edit(d) PROVE IInv'
  <2>1. UNCHANGED <<wire, gone, sent, pc, length, reading, report, replies, done>>
    BY <1>5 DEF Edit
  <2>2. History' /\ Types'
    BY <1>1, <1>5, EditHistory
  <2>3. Reading'
    BY <1>1, <2>1 DEF Reading, Turn, PassedOver, Broken
  <2>4. Located'
    BY <1>1, <2>1, StaysLocated
  <2> QED BY <2>2, <2>3, <2>4 DEF IInv
<1>6. CASE ReadHeader
  <2>1. Located' /\ Types'
    BY <1>1, <1>6, ReadHeaderLocated
  <2>2. UNCHANGED <<sent, replies, edition, done>> /\ pc' \in {"headers", "body", "ended"}
    BY <1>1, <1>6 DEF ReadHeader, ProtocolError, Server, Types
  <2>3. History'
    BY <1>1, <1>2, <2>2, QuietHistory
  <2> QED BY <2>1, <2>2, <2>3 DEF IInv, Reading
<1>7. CASE HeaderEof
  <2>1. /\ pc' = "headers" /\ length' = None /\ gone' /\ wire' = <<>>
        /\ UNCHANGED <<wire, gone, sent, edition, reading, report, replies, done>>
    BY <1>7 DEF HeaderEof, ProtocolError, Server
  <2>2. Types'
    BY <1>1, <2>1, LspConstants DEF Types, None
  <2>3. History'
    BY <1>1, <1>2, <2>1, QuietHistory
  <2> QED BY <2>1, <2>2, <2>3 DEF IInv, Reading, Located
<1>8. CASE ReadBody
  <2>1. /\ Located' /\ Types' /\ Reading'
        /\ \/ done' = done
           \/ \E i \in 1..Len(sent) :
                done' = i /\ Turn(i) /\ sent[i].message.method = "invalid"
    BY <1>1, <1>8, ReadBodyLocated
  <2>2. UNCHANGED <<sent, replies, edition>> /\ pc' \in {"headers", "handle"}
    BY <1>8 DEF ReadBody, Server
  <2>3. \E i : done' = i /\ (i = done \/ (Turn(i) /\ ~Event(i)))
    BY <2>1 DEF Event
  <2>4. History'
    BY <1>1, <2>2, <2>3, QuietHistory
  <2> QED BY <2>1, <2>4 DEF IInv
<1>9. CASE BodyEof
  <2>1. /\ pc' = "ended"
        /\ UNCHANGED <<wire, gone, sent, edition, length, reading, report, replies, done>>
    BY <1>9 DEF BodyEof, Server
  <2>2. Types'
    BY <1>1, <2>1 DEF Types
  <2>3. History'
    BY <1>1, <1>2, <2>1, QuietHistory
  <2> QED BY <2>1, <2>2, <2>3 DEF IInv, Reading, Located
<1>10. CASE Handle
  BY <1>10, HandleInv
<1>11. CASE Analyse
  <2>1. /\ pc = "handle" /\ pc' = "publish"
        /\ UNCHANGED <<wire, gone, sent, edition, length, reading, replies, done>>
    BY <1>11 DEF Analyse, Server
  <2>2. Located'
    BY <1>1, <2>1, HandledLocated
  <2>3. History' /\ Types' /\ Reading'
    BY <1>1, <1>11, AnalyseHistory
  <2> QED BY <2>2, <2>3 DEF IInv
<1>12. CASE Publish
  BY <1>12, PublishInv
<1>13. CASE UNCHANGED vars
  <2>1. UNCHANGED <<wire, gone, sent, pc, length, reading, report, replies, done, edition>>
    BY <1>13 DEF vars
  <2>2. History'
    BY <1>1, <1>2, <2>1, QuietHistory
  <2>3. Reading' /\ Types'
    BY <1>1, <2>1 DEF Reading, Turn, PassedOver, Broken, Types
  <2>4. Located'
    BY <1>1, <2>1, StaysLocated
  <2> QED BY <2>2, <2>3, <2>4 DEF IInv
<1> QED
  BY <1>3, <1>4, <1>5, <1>6, <1>7, <1>8, <1>9, <1>10, <1>11, <1>12, <1>13 DEF Next, ServerStep

\* The invariant holds, whatever the editor does to the stream.
THEOREM Invariance == Spec => []IInv
  BY InitInv, NextInv, PTL DEF Spec

\* Types: lengths read are within MAX_CONTENT_LENGTH when a body is read
\* (protocol.rs 69), and every answer is to a message that was sent.
THEOREM TypeCorrect == Spec => []TypeOK
<1>1. IInv => TypeOK
  BY TypesImply DEF IInv
<1> QED BY <1>1, Invariance, PTL

\* The last diagnostics of a handled event are those of its file as it was
\* when it was sent, or later.
LEMMA LastDiagnostics == IInv => DiagnosticsOfLastEvent
<1> SUFFICES ASSUME IInv, NEW i \in 1..done, sent[i].message.method = "document",
                    sent[i].message.doc \in Doc \ Escaped, \A j \in 1..i : sent[j].framed
             PROVE  \E k \in {k \in 1..Len(replies) : Published(k, sent[i].message)} :
                      /\ \A j \in {k2 \in 1..Len(replies) : Published(k2, sent[i].message)} :
                           j <= k
                      /\ replies[k].edition >= sent[i].edition
                      /\ replies[k].kind = "clear"
                           <=> <<sent[i].message.doc, replies[k].edition>> \in Missing
  BY DEF DiagnosticsOfLastEvent, Published
<1>1. Types /\ Answers /\ Told /\ LastOne /\ Kinds
  BY DEF IInv, History
<1>2. PICK z \in Nat : z = Len(replies) /\ \A k \in 1..z : replies[k].edition \in Nat
  <2>1. /\ Len(replies) \in Nat
        /\ \A k \in 1..Len(replies) : replies[k].to \in 1..MaxSends /\ replies[k].edition \in 0..MaxEdits
    BY <1>1, SentTypes
  <2> QED BY <2>1, LspConstants
<1>3. PICK k \in 1..z : Published(k, sent[i].message) /\ replies[k].edition >= sent[i].edition
  BY <1>1, <1>2 DEF Told, Event, Broken
<1>4. PICK l \in k..z :
        /\ Published(l, sent[replies[k].to].message)
        /\ \A j \in 1..z : Published(j, sent[replies[k].to].message) => j <= l
  BY <1>1, <1>2, <1>3 DEF LastOne, Published
<1>5. sent[replies[k].to].message = sent[i].message
  BY <1>3 DEF Published
<1>6. l \in 1..z /\ k \in 1..l
  BY <1>3, <1>4
<1>7. replies[k].edition <= replies[l].edition
  BY <1>1, <1>2, <1>3, <1>4, <1>5, <1>6 DEF Answers, Published
<1>8. replies[l].edition >= sent[i].edition
  <2>1. i \in 1..Len(sent) /\ sent[i].edition \in Int
    BY <1>1, SentTypes, LspConstants
  <2> QED BY <1>2, <1>3, <1>6, <1>7, <2>1
<1>9. replies[l].kind = "clear"
        <=> <<sent[i].message.doc, replies[l].edition>> \in Missing
  <2>1. /\ replies[l].kind \in Diagnostics /\ sent[replies[l].to].message = sent[i].message
    BY <1>4, <1>5 DEF Published
  <2>2. replies[l].kind = Shows(sent[i].message.doc, replies[l].edition)
    BY <1>1, <1>2, <1>6, <2>1 DEF Kinds
  <2> QED BY <2>2 DEF Shows
<1> QED BY <1>2, <1>4, <1>5, <1>6, <1>8, <1>9

\* The diagnostics an editor was sent last for a document (lib.rs 196) are those
\* of its file as it was when the last of its events was sent, or later, and none
\* if it was not there then: for every document whose URI has no escapes.
THEOREM DiagnosticsAreOfLastEvent == Spec => []DiagnosticsOfLastEvent
  BY Invariance, LastDiagnostics, PTL

-----------------------------------------------------------------------------
(* Waiting for the editor.                                                 *)

\* The server waits for the editor to write more: in read_line there is no line
\* end, or in read_exact there are fewer units than the headers said.
Blocked ==
  \/ pc = "headers" /\ Ends = {}
  \/ pc = "body" /\ Len(wire) < length

\* What can have been left unhandled follows a badly framed message.
NoneLeft == ~gone /\ Blocked => \A i \in 1..Len(sent) : Broken(i) \/ i <= done

\* The server waits in a message that is whole on the wire only if it was badly
\* framed, or after all of them.
LEMMA BlockedNotWithin ==
  ASSUME Types, ~gone, Blocked,
         NEW shapes, NEW start, NEW read \in Nat, NEW m \in 1..Len(sent),
         NEW k \in Nat,
         Layout(shapes, start, read), Within(shapes, start, read, m, k), Where(shapes, m, k)
  PROVE  Broken(m)
<1>0. Len(sent) \in Nat /\ wire \in Seq(Piece) /\ Len(wire) \in Nat
  BY Room DEF Types
<1>1. PICK n \in Nat, l \in Nat, h \in Nat, f \in Nat, a \in Nat, e \in Nat, z \in Nat :
        /\ z = Size /\ z > 0
        /\ n = Len(sent) /\ l = Len(wire) /\ h = HeaderLength(shapes[m])
        /\ f = FrameLength(shapes[m]) /\ a = start[m] /\ e = start[n + 1]
        /\ f = h + 1 + z /\ start[m + 1] = a + f
  <2>1. m \in 1..Len(sent) + 1 /\ Len(sent) + 1 \in 1..Len(sent) + 1
    BY <1>0
  <2>2. /\ shapes[m] \in Shapes /\ start[m] \in Nat /\ start[m + 1] \in Nat
        /\ start[m + 1] = start[m] + FrameLength(shapes[m])
        /\ HeaderLength(shapes[m]) \in {2, 4} /\ FrameLength(shapes[m]) \in Nat
        /\ FrameLength(shapes[m]) = HeaderLength(shapes[m]) + 1 + Size
        /\ start[Len(sent) + 1] \in Nat
    BY <1>0, <2>1, LayoutTypes
  <2>3. HeaderLength(shapes[m]) \in Nat /\ Size \in Nat /\ Size > 0
    BY <2>2, LspConstants
  <2> QED BY <1>0, <2>2, <2>3
<1>2. m \in 1..n /\ m \in 1..n + 1 /\ m + 1 \in 1..n + 1
  BY <1>1
<1>3. /\ a \in Nat /\ e \in Nat /\ f \in Nat /\ h \in Nat /\ l \in Nat /\ z \in Nat /\ z > 0
      /\ a + f <= e /\ read + l = e /\ read = a + k /\ k < f /\ f = h + 1 + z
  <2>1. start[m + 1] <= start[n + 1] /\ read + l = start[n + 1]
    BY <1>1, <1>2 DEF Layout
  <2>2. read = start[m] + k /\ k < f
    BY <1>1 DEF Within
  <2> QED BY <1>1, <2>1, <2>2
<1>4. \A j \in 1..f : k < j => j - k \in 1..l /\ wire[j - k] = FrameUnit(m, shapes[m], j)
  <2> SUFFICES ASSUME NEW j \in 1..f, k < j
               PROVE  j - k \in 1..l /\ wire[j - k] = FrameUnit(m, shapes[m], j)
    OBVIOUS
  <2>1. /\ read < a + j /\ a + j <= read + l /\ a + j - read = j - k
        /\ j - k \in 1..l
    BY <1>3
  <2>2. wire[start[m] + j - read] = FrameUnit(m, shapes[m], j)
    BY <1>1, <1>2, <2>1 DEF Layout
  <2> QED BY <1>1, <2>1, <2>2
<1>5. CASE pc = "headers" /\ Ends = {}
  <2>1. ASSUME InHeader(shapes[m], k) PROVE FALSE
    <3>1. k <= h
      BY <1>1, <2>1 DEF InHeader, HeaderLength
    <3>2. h + 1 \in 1..f /\ k < h + 1
      BY <1>3, <3>1
    <3>3. FrameUnit(m, shapes[m], h + 1) = End
      BY <1>1 DEF FrameUnit
    <3>4. h + 1 - k \in 1..l /\ wire[h + 1 - k] = End
      BY <1>4, <3>2, <3>3
    <3> QED BY <1>1, <1>5, <3>4 DEF Ends
  <2> QED BY <1>5, <2>1 DEF Where
<1>6. CASE pc = "body" /\ Len(wire) < length
  <2>1. /\ k = h + 1 /\ length = Said(shapes[m])
        /\ shapes[m] \notin {"missing", "wrong", "huge"}
    BY <1>1, <1>6 DEF Where
  <2>2. ASSUME Framed(shapes[m]) PROVE FALSE
    <3>1. length = Size
      BY <2>1, <2>2 DEF Said, Framed
    <3>2. l >= z
      BY <1>3, <2>1
    <3> QED BY <1>1, <1>3, <1>6, <3>1, <3>2
  <2> QED BY <1>0, <2>2, BadShape
<1> QED BY <1>5, <1>6 DEF Blocked

\* A server that waits for the editor has handled every message up to the first
\* badly framed one (run, lib.rs 81): what WellFramedAreHandled says of the end.
THEOREM NothingWaits == Spec => []NoneLeft
<1>1. IInv => NoneLeft
  <2> SUFFICES ASSUME IInv, ~gone, Blocked, NEW i \in 1..Len(sent), ~Broken(i)
               PROVE  i <= done
    BY DEF NoneLeft
  <2>1. pc # "ended" /\ Types
    BY DEF Blocked, IInv
  <2>2. PICK shapes \in [1..Len(sent) + 1 -> Shapes], start \in [1..Len(sent) + 2 -> Nat],
             read \in Nat, m \in 1..Len(sent) + 1, k \in Nat :
          Layout(shapes, start, read) /\ Within(shapes, start, read, m, k) /\ Where(shapes, m, k)
    BY <2>1 DEF IInv, Located
  <2>3. PassedOver(m)
    BY <2>2 DEF Where, Blocked
  <2>4. PICK n \in Nat : n = Len(sent)
    BY <2>1, Room DEF Types
  <2>5. CASE i < m
    BY <2>3, <2>4, <2>5 DEF PassedOver
  <2>6. CASE m <= i
    <3>1. m \in 1..Len(sent)
      BY <2>4, <2>6
    <3>2. Broken(m)
      BY <2>1, <2>2, <3>1, BlockedNotWithin
    <3> QED BY <2>4, <2>6, <3>2 DEF Broken
  <2> QED BY <2>4, <2>5, <2>6
<1> QED BY <1>1, Invariance, PTL

-----------------------------------------------------------------------------
(* The session.                                                            *)

\* What the session has pending.
Pending == [number : Nat, message : Message, framed : BOOLEAN]

\* The messages after the b-th, as the session has them.
After(s, b) == [k \in 1..Len(s) - b |->
  [number |-> b + k, message |-> s[b + k].message, framed |-> s[b + k].framed]]

\* The messages after the b-th are as they were sent.
LEMMA AfterIs ==
  ASSUME NEW s \in Seq(SentMessage), NEW b \in Nat, b <= Len(s)
  PROVE  /\ After(s, b) \in Seq(Pending) /\ Len(After(s, b)) = Len(s) - b /\ Len(s) - b \in Nat
         /\ \A k \in 1..Len(s) - b :
              /\ b + k \in 1..Len(s)
              /\ After(s, b)[k] = [number |-> b + k, message |-> s[b + k].message,
                                   framed |-> s[b + k].framed]
<1>1. PICK n \in Nat : n = Len(s) /\ b <= n /\ n - b \in Nat
  BY LenProperties
<1>2. \A i \in 1..n : s[i] \in SentMessage
  BY <1>1, ElementOfSeq
<1>3. \A k \in 1..n - b : b + k \in 1..n /\ b + k \in Nat
  BY <1>1
<1>4. \A k \in 1..n - b :
        [number |-> b + k, message |-> s[b + k].message, framed |-> s[b + k].framed] \in Pending
  BY <1>2, <1>3 DEF Pending, SentMessage
<1>5. After(s, b) = [k \in 1..n - b |->
                      [number |-> b + k, message |-> s[b + k].message, framed |-> s[b + k].framed]]
  BY <1>1 DEF After
<1>6. After(s, b) \in [1..n - b -> Pending]
  BY <1>4, <1>5
<1>7. After(s, b) \in Seq(Pending) /\ Len(After(s, b)) = n - b
  BY <1>1, <1>6
<1> QED BY <1>1, <1>3, <1>5, <1>7

\* A message that is sent joins those pending.
LEMMA AfterSend ==
  ASSUME NEW s \in Seq(SentMessage), NEW more \in Seq(SentMessage), NEW b \in Nat, b <= Len(s),
         Len(more) = Len(s) + 1, \A i \in 1..Len(s) : more[i] = s[i],
         NEW p \in Pending,
         p = [number |-> Len(s) + 1, message |-> more[Len(s) + 1].message,
              framed |-> more[Len(s) + 1].framed]
  PROVE  After(more, b) = Append(After(s, b), p)
<1>1. PICK n \in Nat, d \in Nat : n = Len(s) /\ b <= n /\ d = n - b /\ n = b + d
  <2>1. Len(s) \in Nat /\ Len(s) - b \in Nat
    BY LenProperties
  <2> QED BY <2>1
<1>2. /\ After(s, b) \in Seq(Pending) /\ Len(After(s, b)) = d
      /\ \A k \in 1..d :
           /\ b + k \in 1..n
           /\ After(s, b)[k] = [number |-> b + k, message |-> s[b + k].message, framed |-> s[b + k].framed]
  BY <1>1, AfterIs
<1>3. Len(more) = n + 1 /\ b <= Len(more) /\ Len(more) - b = d + 1
  BY <1>1
<1>4. /\ After(more, b) \in Seq(Pending) /\ Len(After(more, b)) = d + 1
      /\ \A k \in 1..d + 1 :
           After(more, b)[k] = [number |-> b + k, message |-> more[b + k].message,
                                framed |-> more[b + k].framed]
  <2>1. /\ After(more, b) \in Seq(Pending) /\ Len(After(more, b)) = Len(more) - b
        /\ \A k \in 1..Len(more) - b :
             After(more, b)[k] = [number |-> b + k, message |-> more[b + k].message,
                                  framed |-> more[b + k].framed]
    BY <1>3, AfterIs
  <2> QED BY <1>3, <2>1
<1> DEFINE w == After(s, b)
           v == After(more, b)
<1>5. w \in Seq(Pending) /\ Len(w) = d
  BY <1>2
<1>6. v \in Seq(Pending) /\ Len(v) = d + 1
  BY <1>4
<1>7. ASSUME NEW k \in 1..d PROVE v[k] = w[k]
  <2>1. k \in 1..d + 1 /\ b + k \in 1..n
    BY <1>2
  <2>2. more[b + k] = s[b + k]
    BY <1>1, <2>1
  <2> QED BY <1>2, <1>4, <2>1, <2>2
<1>8. v[d + 1] = p
  BY <1>1, <1>4
<1> HIDE DEF w, v
<1>9. /\ Append(w, p) \in Seq(Pending) /\ Len(Append(w, p)) = Len(w) + 1
      /\ \A i \in 1..Len(w) : Append(w, p)[i] = w[i]
      /\ Append(w, p)[Len(w) + 1] = p
  BY <1>5, AppendProperties
<1>10. \A k \in 1..d + 1 : v[k] = Append(w, p)[k]
  BY <1>5, <1>7, <1>8, <1>9
<1>11. Len(v) = Len(Append(w, p)) /\ \A k \in 1..Len(v) : v[k] = Append(w, p)[k]
  BY <1>5, <1>6, <1>9, <1>10
<1>12. v = Append(w, p)
  BY <1>6, <1>9, <1>11, SeqEqual
<1> QED BY <1>12 DEF w, v

\* A message that is handled leaves with those before it.
LEMMA AfterHandle ==
  ASSUME NEW s \in Seq(SentMessage), NEW b \in Nat, NEW c \in Nat, b <= c, c <= Len(s)
  PROVE  After(s, c) = SubSeq(After(s, b), c - b + 1, Len(After(s, b)))
<1>1. PICK n \in Nat, d \in Nat, i \in Nat :
        n = Len(s) /\ d = n - b /\ n = b + d /\ i = c - b /\ c = b + i /\ i <= d
        /\ n - c = d - i
  <2>1. Len(s) \in Nat /\ Len(s) - b \in Nat /\ c - b \in Nat
    BY LenProperties
  <2> QED BY <2>1
<1>2. /\ After(s, b) \in Seq(Pending) /\ Len(After(s, b)) = d
      /\ \A k \in 1..d :
           After(s, b)[k] = [number |-> b + k, message |-> s[b + k].message,
                             framed |-> s[b + k].framed]
  BY <1>1, AfterIs
<1>3. /\ After(s, c) \in Seq(Pending) /\ Len(After(s, c)) = d - i
      /\ \A k \in 1..d - i :
           After(s, c)[k] = [number |-> c + k, message |-> s[c + k].message,
                             framed |-> s[c + k].framed]
  BY <1>1, AfterIs
<1> DEFINE w == After(s, b)
           v == After(s, c)
<1>4. w \in Seq(Pending) /\ Len(w) = d
  BY <1>2
<1>5. v \in Seq(Pending) /\ Len(v) = d - i
  BY <1>3
<1>6. ASSUME NEW k \in 1..d - i PROVE v[k] = w[i + k]
  <2>1. i + k \in 1..d /\ b + (i + k) = c + k
    BY <1>1
  <2> QED BY <1>2, <1>3, <2>1
<1> HIDE DEF w, v
<1>7. PICK j \in Int : j = i + 1
  OBVIOUS
<1>8. /\ SubSeq(w, j, d) \in Seq(Pending)
      /\ Len(SubSeq(w, j, d)) = IF j <= d THEN d - j + 1 ELSE 0
      /\ \A k \in 1..d - j + 1 : SubSeq(w, j, d)[k] = w[j + k - 1]
  <2>1. \A k \in j..d : w[k] \in Pending
    BY <1>1, <1>4, <1>7, ElementOfSeq
  <2> QED BY <2>1, SubSeqProperties
<1>9. /\ SubSeq(w, j, d) \in Seq(Pending) /\ Len(SubSeq(w, j, d)) = d - i
      /\ \A k \in 1..d - i : SubSeq(w, j, d)[k] = w[i + k]
  <2>1. d - j + 1 = d - i /\ (j <= d => d - j + 1 = d - i) /\ (~(j <= d) => d - i = 0)
    BY <1>1, <1>7
  <2>2. \A k \in 1..d - i : j + k - 1 = i + k
    BY <1>7
  <2> QED BY <1>8, <2>1, <2>2
<1>10. Len(v) = Len(SubSeq(w, j, d)) /\ \A k \in 1..Len(v) : v[k] = SubSeq(w, j, d)[k]
  BY <1>5, <1>6, <1>9
<1>11. v = SubSeq(w, j, d)
  BY <1>5, <1>9, <1>10, SeqEqual
<1>12. c - b + 1 = j
  BY <1>1, <1>7
<1>13. v = SubSeq(w, c - b + 1, Len(w))
  BY <1>4, <1>11, <1>12
<1> QED BY <1>13 DEF w, v

\* broken, in the session.
Break == \E j \in 1..done : ~sent[j].framed

\* The editor sends, in the session, too.
LEMMA SendRefined ==
  ASSUME IInv, IInv', NEW t \in Traffic, Send(t)
  PROVE  Session!Next
<1>1. Types /\ Types'
  BY DEF IInv
<1>2. PICK n \in Nat, b \in Nat : n = Len(sent) /\ b = done /\ b <= n
  BY <1>1, SentTypes
<1>3. /\ Len(sent') = n + 1 /\ \A i \in 1..n : sent'[i] = sent[i]
      /\ sent'[n + 1].message = t.message /\ sent'[n + 1].framed = Framed(t.shape)
      /\ ~gone /\ UNCHANGED <<gone, pc, replies, done>>
  BY <1>1, <1>2, SendTyped DEF Send
<1>4. PICK m \in Message, f \in BOOLEAN : m = t.message /\ f = Framed(t.shape)
  <2>1. t.message \in Message
    BY DEF Message
  <2>2. Framed(t.shape) \in BOOLEAN
    BY DEF Framed
  <2> QED BY <2>1, <2>2
<1>5. PICK s \in Seq(SentMessage), more \in Seq(SentMessage) : s = sent /\ more = sent'
  <2>1. sent \in Seq(SentMessage) /\ sent' \in Seq(SentMessage)
    BY <1>1 DEF Types
  <2> QED BY <2>1
<1>6. PICK p \in Pending : p = [number |-> n + 1, message |-> m, framed |-> f]
  <2>1. [number |-> n + 1, message |-> m, framed |-> f] \in Pending
    BY DEF Pending
  <2> QED BY <2>1
<1>7. After(more, b) = Append(After(s, b), p)
  <2>1. /\ b <= Len(s) /\ Len(more) = Len(s) + 1 /\ \A i \in 1..Len(s) : more[i] = s[i]
        /\ p = [number |-> Len(s) + 1, message |-> more[Len(s) + 1].message,
                framed |-> more[Len(s) + 1].framed]
    BY <1>2, <1>3, <1>4, <1>5, <1>6
  <2> QED BY <2>1, AfterSend
<1>8. Waiting = After(s, b) /\ Waiting' = After(more, b)
  BY <1>2, <1>3, <1>5 DEF Waiting, After
<1>9. Break' <=> Break
  <2>1. \A j \in 1..b : j \in 1..n
    BY <1>2
  <2> QED BY <1>2, <1>3, <2>1 DEF Break
<1>10. Session!Send(m, f)
  <2>1. Waiting' = Append(Waiting, [number |-> Len(sent) + 1, message |-> m, framed |-> f])
    BY <1>2, <1>6, <1>7, <1>8
  <2>2. Break' = Break
    BY <1>9 DEF Break
  <2> QED BY <1>2, <1>3, <2>1, <2>2 DEF Session!Send, Break
<1> QED BY <1>10 DEF Session!Next

\* A message is handled, and those passed over before it follow a broken one.
LEMMA HandleRefined ==
  ASSUME Types, pc # "ended", NEW c \in Nat, Turn(c), done' = c, UNCHANGED <<sent, gone>>,
         NEW r \in RepliesTo(c, sent[c].message), replies' = replies \o r,
         pc' = "ended" <=> sent[c].message.method = "exit"
  PROVE  Session!Next
<1>1. PICK n \in Nat, b \in Nat, i \in Nat :
        /\ n = Len(sent) /\ b = done /\ b < c /\ c <= n /\ i = c - b /\ b + i = c
        /\ i \in 1..n - b
  <2>1. done \in Nat /\ Len(sent) \in Nat /\ done < c /\ c \in 1..Len(sent)
    BY SentTypes DEF Turn
  <2>2. c - done \in Nat /\ done + (c - done) = c /\ c - done \in 1..Len(sent) - done
    BY <2>1
  <2> QED BY <2>1, <2>2
<1>2. PICK s \in Seq(SentMessage) : s = sent /\ b <= Len(s)
  BY <1>1 DEF Types
<1>3. Waiting = After(s, b) /\ Waiting' = After(s, c)
  BY <1>1, <1>2 DEF Waiting, After
<1>4. /\ Len(Waiting) = n - b
      /\ \A k \in 1..n - b :
           Waiting[k] = [number |-> b + k, message |-> sent[b + k].message,
                         framed |-> sent[b + k].framed]
  <2>1. /\ Len(After(s, b)) = Len(s) - b
        /\ \A k \in 1..Len(s) - b :
             After(s, b)[k] = [number |-> b + k, message |-> s[b + k].message,
                             framed |-> s[b + k].framed]
    BY <1>2, AfterIs
  <2> QED BY <1>1, <1>2, <1>3, <2>1
<1>5. Waiting' = SubSeq(Waiting, i + 1, Len(Waiting))
  <2>1. After(s, c) = SubSeq(After(s, b), c - b + 1, Len(After(s, b)))
    BY <1>1, <1>2, AfterHandle
  <2> QED BY <1>1, <1>3, <2>1
<1>6. Waiting[i].number = c /\ Waiting[i].message = sent[c].message /\ Waiting[i].framed
  <2>1. Waiting[i] = [number |-> b + i, message |-> sent[b + i].message,
                      framed |-> sent[b + i].framed]
    BY <1>1, <1>4
  <2>2. sent[c].framed
    BY DEF Turn
  <2> QED BY <1>1, <2>1, <2>2
<1>7. i > 1 => Break \/ \E j \in 1..i - 1 : ~Waiting[j].framed
  <2>1. SUFFICES ASSUME i > 1, ~Break PROVE \E j \in 1..i - 1 : ~Waiting[j].framed
    OBVIOUS
  <2>2. b + 1 \in 1..c - 1 /\ ~(b + 1 <= b)
    BY <1>1, <2>1
  <2>3. Broken(b + 1)
    BY <1>1, <2>2 DEF Turn, PassedOver
  <2>4. PICK j \in 1..b + 1 : j <= n /\ ~sent[j].framed
    BY <1>1, <2>3 DEF Broken
  <2>5. j = b + 1
    BY <1>1, <2>1, <2>4 DEF Break
  <2>6. 1 \in 1..n - b /\ 1 \in 1..i - 1
    BY <1>1, <2>1
  <2>7. Waiting[1].framed = sent[b + 1].framed
    <3>1. PICK k \in 1..n - b : k = 1
      BY <2>6
    <3>2. Waiting[k] = [number |-> b + k, message |-> sent[b + k].message,
                        framed |-> sent[b + k].framed]
      BY <1>4
    <3>3. Waiting[k].framed = sent[b + k].framed
      BY <3>2
    <3> QED BY <3>1, <3>3
  <2> QED BY <2>4, <2>5, <2>6, <2>7
<1>8. Break' <=> (Break \/ i > 1)
  <2>1. Break' <=> \E j \in 1..c : ~sent[j].framed
    BY DEF Break
  <2>2. ASSUME Break PROVE Break'
    <3>1. PICK j \in 1..b : ~sent[j].framed
      BY <1>1, <2>2 DEF Break
    <3>2. j \in 1..c
      BY <1>1
    <3> QED BY <2>1, <3>1, <3>2
  <2>3. ASSUME i > 1 PROVE Break'
    <3>1. b + 1 \in 1..c - 1 /\ ~(b + 1 <= b)
      BY <1>1, <2>3
    <3>2. Broken(b + 1)
      BY <1>1, <3>1 DEF Turn, PassedOver
    <3>3. PICK j \in 1..b + 1 : ~sent[j].framed
      BY <3>2 DEF Broken
    <3>4. j \in 1..c
      BY <3>1
    <3> QED BY <2>1, <3>3, <3>4
  <2>4. ASSUME Break', ~(i > 1) PROVE Break
    <3>1. PICK j \in 1..c : ~sent[j].framed
      BY <2>1, <2>4
    <3>2. j # c
      BY <3>1 DEF Turn
    <3>3. j \in 1..b
      BY <1>1, <2>4, <3>2
    <3> QED BY <1>1, <3>1, <3>3 DEF Break
  <2> QED BY <2>2, <2>3, <2>4
<1>9. r \in RepliesTo(Waiting[i].number, Waiting[i].message)
  BY <1>6
<1>10. (pc' = "ended") = ~GoesOn(Waiting[i].message)
  BY <1>6 DEF GoesOn
<1>11. Session!Handle(i)
  <2>1. Break' = (Break \/ i > 1)
    BY <1>8 DEF Break
  <2> QED BY <1>5, <1>6, <1>7, <1>9, <1>10, <2>1 DEF Session!Handle, Break
<1> QED BY <1>1, <1>4, <1>11 DEF Session!Next

\* Steps the session does not see.
LEMMA Unseen ==
  ASSUME UNCHANGED <<sent, gone, replies, done>>, pc' = "ended" <=> pc = "ended"
  PROVE  UNCHANGED Session!vars
<1>1. Waiting' = Waiting
  BY DEF Waiting
<1> QED BY <1>1 DEF Session!vars

\* An answer is a step of the session: Handle, or GiveUp when it cannot be
\* written (write_message).
LEMMA AnswerRefined ==
  ASSUME IInv, pc \in {"handle", "publish"}, NEW kind, NEW e,
         <<Reply(kind, reading, e)>> \in RepliesTo(reading, sent[reading].message),
         sent[reading].message.method # "exit",
         Answer(Reply(kind, reading, e))
  PROVE  Session!Next
<1>1. Types /\ Reading
  BY DEF IInv
<1>2. CASE Finish(<<Reply(kind, reading, e)>>, "headers")
  <2>1. PICK c \in Nat : c = reading
    BY <1>1, SentTypes
  <2>2. PICK r : r = <<Reply(kind, reading, e)>>
    OBVIOUS
  <2>3. /\ Turn(c) /\ done' = c /\ UNCHANGED <<sent, gone>> /\ pc # "ended" /\ pc' = "headers"
        /\ replies' = replies \o r
    BY <1>1, <1>2, <2>1, <2>2 DEF Finish, Server, Reading
  <2>4. r \in RepliesTo(c, sent[c].message) /\ sent[c].message.method # "exit"
    BY <2>1, <2>2
  <2> QED BY <1>1, <2>3, <2>4, HandleRefined
<1>3. CASE /\ gone /\ pc' = "ended"
           /\ UNCHANGED <<wire, length, reading, report, replies, done, Server>>
  <2>1. Session!GiveUp
    <3>1. Waiting' = Waiting
      BY <1>3 DEF Waiting, Server
    <3> QED BY <1>3, <3>1 DEF Session!GiveUp, Server
  <2> QED BY <2>1 DEF Session!Next
<1> QED BY <1>2, <1>3 DEF Answer

\* So is a message that needs none.
LEMMA SilentRefined ==
  ASSUME IInv, pc = "handle", NEW next \in {"headers", "ended"}, Finish(<<>>, next),
         <<>> \in RepliesTo(reading, sent[reading].message),
         next = "ended" <=> sent[reading].message.method = "exit"
  PROVE  Session!Next
<1>1. Types /\ Reading
  BY DEF IInv
<1>2. PICK c \in Nat : c = reading
  BY <1>1, SentTypes
<1>3. PICK r : r = <<>>
  OBVIOUS
<1>4. /\ Turn(c) /\ done' = c /\ UNCHANGED <<sent, gone>> /\ pc # "ended" /\ pc' = next
      /\ replies' = replies \o r
  BY <1>1, <1>2, <1>3 DEF Finish, Server, Reading
<1>5. r \in RepliesTo(c, sent[c].message) /\ (next = "ended" <=> sent[c].message.method = "exit")
  BY <1>2, <1>3
<1> QED BY <1>1, <1>4, <1>5, HandleRefined

\* handle_message (lib.rs 115) is a step of the session.
LEMMA HandleStepRefined == IInv /\ Handle => Session!Next
<1> SUFFICES ASSUME IInv, Handle PROVE Session!Next
  OBVIOUS
<1> DEFINE m == sent[reading].message
<1>1. /\ pc = "handle"
      /\ \/ m.method \in {"initialize", "shutdown"} /\ Answer(Reply("result", reading, 0))
         \/ m.method = "other" /\ m.request /\ Answer(Reply("error", reading, 0))
         \/ /\ \/ m.method = "other" /\ ~m.request
               \/ m.method = "initialized"
               \/ m.method = "document" /\ m.doc \notin Doc
            /\ Finish(<<>>, "headers")
         \/ m.method = "exit" /\ Finish(<<>>, "ended")
  BY DEF Handle
<1>2. CASE m.method \in {"initialize", "shutdown"} /\ Answer(Reply("result", reading, 0))
  <2>1. <<Reply("result", reading, 0)>> \in RepliesTo(reading, m)
    BY <1>2 DEF RepliesTo
  <2> QED BY <1>1, <1>2, <2>1, AnswerRefined
<1>3. CASE m.method = "other" /\ m.request /\ Answer(Reply("error", reading, 0))
  <2>1. <<Reply("error", reading, 0)>> \in RepliesTo(reading, m)
    BY <1>3 DEF RepliesTo
  <2> QED BY <1>1, <1>3, <2>1, AnswerRefined
<1>4. CASE /\ \/ m.method = "other" /\ ~m.request
              \/ m.method = "initialized"
              \/ m.method = "document" /\ m.doc \notin Doc
           /\ Finish(<<>>, "headers")
  <2>1. <<>> \in RepliesTo(reading, m)
    BY <1>4 DEF RepliesTo
  <2> QED BY <1>1, <1>4, <2>1, SilentRefined
<1>5. CASE m.method = "exit" /\ Finish(<<>>, "ended")
  <2>1. <<>> \in RepliesTo(reading, m)
    BY <1>5 DEF RepliesTo
  <2> QED BY <1>1, <1>5, <2>1, SilentRefined
<1> QED BY <1>1, <1>2, <1>3, <1>4, <1>5

\* So is publish_diagnostics (lib.rs 196).
LEMMA PublishRefined == IInv /\ Publish => Session!Next
<1> SUFFICES ASSUME IInv, Publish PROVE Session!Next
  OBVIOUS
<1>1. pc = "publish" /\ Answer(ToPublish)
  BY DEF Publish
<1>2. PICK e \in 0..MaxEdits : e = report
  BY DEF IInv, Types
<1>3. sent[reading].message.method = "document" /\ sent[reading].message.doc \in Doc
  BY <1>1 DEF IInv, History, Analysed, Event
<1>4. PICK kind : kind = Shows(sent[reading].message.doc, e)
  OBVIOUS
<1>5. <<Reply(kind, reading, e)>> \in RepliesTo(reading, sent[reading].message)
  BY <1>3, <1>4 DEF RepliesTo
<1>6. Answer(Reply(kind, reading, e))
  BY <1>1, <1>2, <1>4 DEF ToPublish
<1> QED BY <1>1, <1>3, <1>5, <1>6, AnswerRefined

\* Reading a body is none, or the step of a message that cannot be parsed
\* (parse_request).
LEMMA ReadBodyRefined == IInv /\ ReadBody => Session!Next \/ UNCHANGED Session!vars
<1> SUFFICES ASSUME IInv, ReadBody PROVE Session!Next \/ UNCHANGED Session!vars
  OBVIOUS
<1>1. Types /\ Located
  BY DEF IInv
<1>2. UNCHANGED <<sent, gone, replies>> /\ pc = "body" /\ pc' \in {"headers", "handle"}
  BY DEF ReadBody, Server
<1>3. CASE done' = done
  BY <1>2, <1>3, Unseen
<1>4. ASSUME NEW i \in 1..Len(sent), done' = i, Turn(i), sent[i].message.method = "invalid"
      PROVE  Session!Next
  <2>1. i \in Nat
    OBVIOUS
  <2>2. PICK r : r = <<>>
    OBVIOUS
  <2>3. r \in RepliesTo(i, sent[i].message) /\ sent[i].message.method # "exit"
    BY <1>4, <2>2 DEF RepliesTo
  <2>4. replies \in Seq(Given)
    BY <1>1 DEF Types
  <2>5. replies' = replies \o r
    BY <1>2, <2>2, <2>4, ConcatEmptySeq
  <2> QED BY <1>1, <1>2, <1>4, <2>1, <2>3, <2>5, HandleRefined
<1> QED BY <1>1, <1>3, <1>4, ReadBodyLocated

\* Reading a line of a header is none, or ends the session after a message that
\* was badly framed (read_line).
LEMMA ReadHeaderRefined == IInv /\ ReadHeader => Session!Next \/ UNCHANGED Session!vars
<1> SUFFICES ASSUME IInv, ReadHeader PROVE Session!Next \/ UNCHANGED Session!vars
  OBVIOUS
<1>1. Types /\ Located
  BY DEF IInv
<1>2. UNCHANGED <<sent, gone, replies, done>> /\ pc # "ended"
  BY DEF ReadHeader, ProtocolError, Server
<1>3. CASE pc' # "ended"
  BY <1>2, <1>3, Unseen
<1>4. CASE pc' = "ended"
  <2>1. gone \/ Misframed
    BY <1>1, <1>4, ReadHeaderLocated
  <2>2. PICK n \in Nat, b \in Nat : n = Len(sent) /\ b = done /\ b <= n
    BY <1>1, SentTypes
  <2>3. PICK s \in Seq(SentMessage) : s = sent /\ b <= Len(s)
    BY <1>1, <2>2 DEF Types
  <2>4. Waiting = After(s, b)
    BY <2>2, <2>3 DEF Waiting, After
  <2>5. /\ Len(Waiting) = n - b
        /\ \A k \in 1..n - b :
             Waiting[k] = [number |-> b + k, message |-> sent[b + k].message,
                           framed |-> sent[b + k].framed]
    <3>1. /\ Len(After(s, b)) = Len(s) - b
          /\ \A k \in 1..Len(s) - b :
               After(s, b)[k] = [number |-> b + k, message |-> s[b + k].message,
                                 framed |-> s[b + k].framed]
      BY <2>3, AfterIs
    <3> QED BY <2>2, <2>3, <2>4, <3>1
  <2>6. Misframed => Break \/ \E k \in 1..Len(Waiting) : ~Waiting[k].framed
    <3>1. SUFFICES ASSUME Misframed, ~Break
                   PROVE  \E k \in 1..Len(Waiting) : ~Waiting[k].framed
      OBVIOUS
    <3>2. PICK j \in 1..n : ~sent[j].framed
      BY <2>2, <3>1 DEF Misframed
    <3>3. ~(j \in 1..b)
      BY <2>2, <3>1, <3>2 DEF Break
    <3>4. PICK k \in 1..n - b : b + k = j
      <4>1. j - b \in 1..n - b /\ b + (j - b) = j
        BY <2>2, <3>3
      <4> QED BY <4>1
    <3>5. ~Waiting[k].framed
      <4>1. Waiting[k] = [number |-> b + k, message |-> sent[b + k].message,
                          framed |-> sent[b + k].framed]
        BY <2>5
      <4>2. Waiting[k].framed = sent[b + k].framed
        BY <4>1
      <4> QED BY <3>2, <3>4, <4>2
    <3>6. 1..Len(Waiting) = 1..n - b
      BY <2>5
    <3> QED BY <3>5, <3>6
  <2>7. Waiting' = Waiting /\ Break' = Break
    BY <1>2 DEF Waiting, Break
  <2>8. Session!GiveUp
    BY <1>2, <1>4, <2>1, <2>6, <2>7 DEF Session!GiveUp, Break
  <2> QED BY <2>8 DEF Session!Next
<1> QED BY <1>3, <1>4

\* Whatever the editor does to the stream (protocol.rs 69), the server handles
\* only messages that were sent, each at most once and in order, answers each as
\* its method demands (lib.rs 115), and until a message is badly framed passes
\* none over and goes on while the editor is there: for every number of messages,
\* size of bodies and cap.
THEOREM Implements == Spec => ImplementsSession
<1>1. Init => Session!Init
  <2> SUFFICES ASSUME Init PROVE Session!Init
    OBVIOUS
  <2>1. Len(sent) = 0 /\ done = 0
    BY DEF Init
  <2>2. Waiting = <<>>
    BY <2>1 DEF Waiting
  <2> QED BY <2>1, <2>2 DEF Init, Session!Init
<1>2. ASSUME IInv, IInv', [Next]_vars PROVE [Session!Next]_(Session!vars)
  <2>1. ASSUME NEW t \in Traffic, Send(t) PROVE Session!Next
    BY <1>2, <2>1, SendRefined
  <2>2. ASSUME NEW cut \in 0..Len(Frame(1, "plain")) - 1, Leave(cut) PROVE Session!Next
    <3>1. Waiting' = Waiting
      BY <2>2 DEF Leave, Waiting
    <3>2. Session!Leave
      BY <2>2, <3>1 DEF Leave, Session!Leave
    <3> QED BY <3>2 DEF Session!Next
  <2>3. CASE (\E d \in Doc \ Escaped : Edit(d)) \/ HeaderEof \/ Analyse \/ UNCHANGED vars
    <3>1. UNCHANGED <<sent, gone, replies, done>> /\ (pc' = "ended" <=> pc = "ended")
      BY <2>3 DEF Edit, HeaderEof, ProtocolError, Analyse, Server, vars
    <3> QED BY <3>1, Unseen
  <2>4. CASE ReadHeader
    BY <1>2, <2>4, ReadHeaderRefined
  <2>5. CASE ReadBody
    BY <1>2, <2>5, ReadBodyRefined
  <2>6. CASE BodyEof
    <3>1. Waiting' = Waiting
      BY <2>6 DEF BodyEof, Server, Waiting
    <3>2. Session!GiveUp
      BY <2>6, <3>1 DEF BodyEof, Server, Session!GiveUp
    <3> QED BY <3>2 DEF Session!Next
  <2>7. CASE Handle
    BY <1>2, <2>7, HandleStepRefined
  <2>8. CASE Publish
    BY <1>2, <2>8, PublishRefined
  <2> QED
    BY <1>2, <2>1, <2>2, <2>3, <2>4, <2>5, <2>6, <2>7, <2>8 DEF Next, ServerStep
<1> QED
  BY <1>1, <1>2, Invariance, PTL DEF Spec, ImplementsSession, Session!Spec

===============================================================================
