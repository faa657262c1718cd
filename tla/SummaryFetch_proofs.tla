------------------------ MODULE SummaryFetch_proofs -------------------------
(***************************************************************************)
(* Theorems about SummaryFetch, for objects and summaries of any size, any *)
(* window and buffer, any number of attempts and replacements.             *)
(***************************************************************************)
EXTENDS SummaryFetch, SequenceTheorems, TLAPS

Cell == [of : Version, at : Nat]

\* A sequence of bytes from consecutive positions; and of one version.
Placed(s, first)   == \A i \in 1..Len(s) : s[i].at = first + i - 1
IsRun(s, v, first) == \A i \in 1..Len(s) : s[i] = Byte(v, first + i - 1)

\* The parser is within a part of n bytes from position "from".
Within(from, n) == Len(got) + need = n /\ from + Len(got) + Len(buffer) = pos

(* A GET is under way only while the parser waits for it, for the range    *)
(* that starts where the stream is, and with an attempt left.              *)
RequestInv ==
    request.open => /\ Parsing /\ need > 0 /\ buffer = <<>> /\ pos < size
                    /\ request = RangeOf(backend.buffer) /\ tries < Attempts

(* Whatever versions the bytes come from, the parser knows their places.   *)
PlaceInv ==
    /\ parse = "footer" =>
          /\ FootLen <= size /\ Within(size - FootLen, FootLen)
          /\ Placed(got, size - FootLen) /\ Placed(buffer, size - FootLen + Len(got))
    /\ parse = "head" => Within(0, HeadLen) /\ Placed(got, 0) /\ Placed(buffer, Len(got))

\* The part of a sound object the parser is in: where it starts and how long it is.
From    == IF parse = "head" THEN 0 ELSE IF parse = "footer" THEN size - FootLen
           ELSE Start[object]
PartLen == IF parse = "head" THEN HeadLen ELSE IF parse = "footer" THEN FootLen
           ELSE size - Start[object]

Undisturbed == writes = 0 => object \in Version /\ size = Size[object]
Sound == writes = 0 /\ Start[object] # 0

(* Of a sound object that is not replaced, the parser has what it should.  *)
SoundInv ==
    Sound => /\ Parsing => /\ Within(From, PartLen) /\ pos <= size
                           /\ IsRun(got, object, From) /\ IsRun(buffer, object, From + Len(got))
             /\ parse = "head" => pos = 0 \/ pos >= HeadLen
             /\ parse = "done" => /\ IsRun(got, object, Start[object])
                                  /\ Len(got) = size - Start[object]
             /\ parse # "garbage" /\ (parse = "exhausted" => tries = Attempts)

IInv == TypeOK /\ RequestInv /\ PlaceInv /\ Undisturbed /\ SoundInv /\ BodySpared

-----------------------------------------------------------------------------
(* Runs of bytes.                                                          *)

\* What a GET delivers.
LEMMA BytesRun ==
    ASSUME NEW v \in Version, NEW first \in Nat, NEW last \in Nat, first <= last
    PROVE  /\ Bytes(v, first, last) \in Seq(Cell) /\ Len(Bytes(v, first, last)) = last + 1 - first
           /\ IsRun(Bytes(v, first, last), v, first) /\ Placed(Bytes(v, first, last), first)
<1> DEFINE n == last + 1 - first
           s == Bytes(v, first, last)
<1>1. n \in Nat /\ s = [i \in 1..n |-> Byte(v, first + i - 1)]
  BY DEF Bytes
<1>2. \A i \in 1..n : Byte(v, first + i - 1) \in Cell
  BY <1>1 DEF Byte, Cell
<1> HIDE DEF n, s
<1>3. s \in [1..n -> Cell]
  BY <1>1, <1>2
<1>4. s \in Seq(Cell) /\ Len(s) = n
  <2>1. s \in Seq(Cell)
    BY <1>1, <1>3, SeqDef
  <2>2. Len(s) \in Nat /\ 1..Len(s) = 1..n
    BY <1>3, <2>1, LenProperties
  <2> QED
    BY <1>1, <2>1, <2>2
<1>5. \A i \in 1..n : s[i] = Byte(v, first + i - 1)
  BY <1>1
<1> QED
  <2>1. IsRun(s, v, first) /\ Placed(s, first)
    BY <1>4, <1>5 DEF IsRun, Placed, Byte
  <2> QED
    BY <1>4, <2>1 DEF n, s

\* A run of bytes is what OneOf compares with.
LEMMA RunIsBytes ==
    ASSUME NEW s \in Seq(Cell), NEW v, NEW first \in Nat
    PROVE  s = Bytes(v, first, first + Len(s) - 1) <=> IsRun(s, v, first)
<1>1. Len(s) \in Nat /\ DOMAIN s = 1..Len(s) /\ s = [i \in 1..Len(s) |-> s[i]]
  OBVIOUS
<1>2. PICK n \in Nat : n = Len(s)
  BY <1>1
<1>3. Bytes(v, first, first + Len(s) - 1) = [i \in 1..n |-> Byte(v, first + i - 1)]
  <2>1. first + n - 1 + 1 - first = n
    OBVIOUS
  <2> QED
    BY <1>2, <2>1 DEF Bytes
<1>4. ASSUME s = [i \in 1..n |-> Byte(v, first + i - 1)] PROVE IsRun(s, v, first)
  BY <1>2, <1>4 DEF IsRun
<1>5. ASSUME IsRun(s, v, first) PROVE s = [i \in 1..n |-> Byte(v, first + i - 1)]
  BY <1>1, <1>2, <1>5 DEF IsRun
<1> QED
  BY <1>3, <1>4, <1>5

\* The parser takes n bytes out of its buffer.
LEMMA Moved ==
    ASSUME NEW s \in Seq(Cell), NEW b \in Seq(Cell), NEW n \in 1..Len(b)
    PROVE  LET t == s \o SubSeq(b, 1, n)
               c == SubSeq(b, n + 1, Len(b))
           IN  /\ t \in Seq(Cell) /\ c \in Seq(Cell)
               /\ Len(t) = Len(s) + n /\ Len(c) = Len(b) - n
               /\ \A first \in Nat :
                    /\ Placed(s, first) /\ Placed(b, first + Len(s)) =>
                          Placed(t, first) /\ Placed(c, first + Len(t))
                    /\ \A v : IsRun(s, v, first) /\ IsRun(b, v, first + Len(s)) =>
                          IsRun(t, v, first) /\ IsRun(c, v, first + Len(t))
<1> DEFINE t == s \o SubSeq(b, 1, n)
           c == SubSeq(b, n + 1, Len(b))
<1>1. Len(s) \in Nat /\ Len(b) \in Nat /\ n \in Nat /\ n <= Len(b)
  OBVIOUS
<1>2. /\ SubSeq(b, 1, n) \in Seq(Cell) /\ Len(SubSeq(b, 1, n)) = n
      /\ \A i \in 1..n : SubSeq(b, 1, n)[i] = b[i]
  BY <1>1
<1>3. /\ t \in Seq(Cell) /\ Len(t) = Len(s) + n
      /\ \A i \in 1..Len(s) : t[i] = s[i]
      /\ \A i \in (Len(s) + 1)..(Len(s) + n) : t[i] = b[i - Len(s)]
  BY <1>1, <1>2
<1>4. /\ c \in Seq(Cell) /\ Len(c) = Len(b) - n
      /\ \A i \in 1..(Len(b) - n) : c[i] = b[n + i]
  BY <1>1
<1> HIDE DEF t, c
<1>5. ASSUME NEW first \in Nat, Placed(s, first), Placed(b, first + Len(s))
      PROVE  Placed(t, first) /\ Placed(c, first + Len(t))
  <2>1. ASSUME NEW i \in 1..Len(t) PROVE t[i].at = first + i - 1
    <3>1. CASE i \in 1..Len(s)
      BY <1>3, <1>5, <3>1 DEF Placed
    <3>2. CASE i \in (Len(s) + 1)..(Len(s) + n)
      <4>1. i - Len(s) \in 1..Len(b) /\ first + Len(s) + (i - Len(s)) - 1 = first + i - 1
        BY <1>1, <3>2
      <4>2. b[i - Len(s)].at = first + i - 1
        BY <1>5, <4>1 DEF Placed
      <4> QED
        BY <1>3, <3>2, <4>2
    <3> QED
      BY <1>1, <1>3, <3>1, <3>2
  <2>2. ASSUME NEW i \in 1..Len(c) PROVE c[i].at = first + Len(t) + i - 1
    <3>1. n + i \in 1..Len(b) /\ first + Len(s) + (n + i) - 1 = first + Len(t) + i - 1
      BY <1>1, <1>3, <1>4
    <3>2. b[n + i].at = first + Len(t) + i - 1
      BY <1>5, <3>1 DEF Placed
    <3> QED
      BY <1>4, <3>2
  <2> QED
    BY <2>1, <2>2 DEF Placed
<1>6. ASSUME NEW first \in Nat, NEW v, IsRun(s, v, first), IsRun(b, v, first + Len(s))
      PROVE  IsRun(t, v, first) /\ IsRun(c, v, first + Len(t))
  <2>1. ASSUME NEW i \in 1..Len(t) PROVE t[i] = Byte(v, first + i - 1)
    <3>1. CASE i \in 1..Len(s)
      BY <1>3, <1>6, <3>1 DEF IsRun
    <3>2. CASE i \in (Len(s) + 1)..(Len(s) + n)
      <4>1. i - Len(s) \in 1..Len(b) /\ first + Len(s) + (i - Len(s)) - 1 = first + i - 1
        BY <1>1, <3>2
      <4>2. b[i - Len(s)] = Byte(v, first + i - 1)
        BY <1>6, <4>1 DEF IsRun
      <4> QED
        BY <1>3, <3>2, <4>2
    <3> QED
      BY <1>1, <1>3, <3>1, <3>2
  <2>2. ASSUME NEW i \in 1..Len(c) PROVE c[i] = Byte(v, first + Len(t) + i - 1)
    <3>1. n + i \in 1..Len(b) /\ first + Len(s) + (n + i) - 1 = first + Len(t) + i - 1
      BY <1>1, <1>3, <1>4
    <3>2. b[n + i] = Byte(v, first + Len(t) + i - 1)
      BY <1>6, <3>1 DEF IsRun
    <3> QED
      BY <1>4, <3>2
  <2> QED
    BY <2>1, <2>2 DEF IsRun
<1> QED
  BY <1>3, <1>4, <1>5, <1>6 DEF t, c

-----------------------------------------------------------------------------
(* Sizes and ranges.                                                       *)

LEMMA Layout ==
    ASSUME NEW v \in Version
    PROVE  /\ Size[v] \in Nat /\ Start[v] \in Nat
           /\ HeadLen \in Nat \ {0} /\ FootLen \in Nat \ {0} /\ Attempts \in Nat \ {0}
           /\ Start[v] # 0 => HeadLen <= Start[v] /\ Start[v] <= Size[v] - FootLen - 1
BY FetchAssumption

LEMMA Typed ==
    ASSUME TypeOK
    PROVE  /\ size \in Nat /\ pos \in Nat /\ need \in Nat /\ writes \in Nat /\ tries \in Nat
           /\ got \in Seq(Cell) /\ buffer \in Seq(Cell)
           /\ Len(got) \in Nat /\ Len(buffer) \in Nat /\ Len(buffer) <= backend.buffer
           /\ backend.window \in Nat /\ backend.buffer \in Nat \ {0}
           /\ HeadLen <= backend.buffer /\ (backend.window # 0 => HeadLen <= backend.window)
           /\ HeadLen \in Nat \ {0} /\ FootLen \in Nat \ {0} /\ Attempts \in Nat \ {0}
<1>1. size \in Nat /\ writes \in Nat /\ tries \in Nat
  BY FetchAssumption DEF TypeOK
<1> QED
  BY <1>1, FetchAssumption DEF TypeOK, Cell

\* What a fill asks for, when the stream is not at the end.
LEMMA Ranges ==
    ASSUME TypeOK, pos < size
    PROVE  /\ RangeOf(backend.buffer).open = TRUE /\ RangeOf(backend.buffer).first = pos
           /\ RangeOf(backend.buffer).last \in Nat /\ RangeOf(backend.buffer).last < size
           /\ pos <= RangeOf(backend.buffer).last
           /\ RangeOf(backend.buffer).last < pos + backend.buffer
           /\ RangeOf(backend.buffer) \in [first : 0..(size - 1), last : 0..(size - 1), open : {TRUE}]
           /\ pos = 0 => /\ RangeOf(backend.buffer).last < HeadLimit
                         /\ HeadLen <= size => HeadLen <= RangeOf(backend.buffer).last + 1
<1>1. PICK end \in Nat : end = EndExcl(backend.buffer)
  BY Typed DEF EndExcl
<1>2. /\ HeadLimit \in Nat /\ pos < end /\ end <= pos + backend.buffer
      /\ pos = 0 => end <= HeadLimit /\ HeadLen <= end
  <2>1. PICK b, win : b = backend.buffer /\ win = backend.window
    OBVIOUS
  <2>2. /\ b \in Nat \ {0} /\ win \in Nat /\ pos \in Nat /\ HeadLen \in Nat \ {0}
        /\ HeadLen <= b /\ (win # 0 => HeadLen <= win)
    BY <2>1, Typed
  <2>3. end = IF pos < win /\ win < pos + b THEN win ELSE pos + b
    BY <1>1, <2>1 DEF EndExcl
  <2>4. HeadLimit = IF win # 0 THEN win ELSE b
    BY <2>1 DEF HeadLimit
  <2>5. /\ HeadLimit \in Nat /\ pos < end /\ end <= pos + b
        /\ pos = 0 => end <= HeadLimit /\ HeadLen <= end
    BY <2>2, <2>3, <2>4
  <2> QED
    BY <2>1, <2>5
<1>3. PICK last : last = SmallerOf(end, size) - 1
  OBVIOUS
<1>4. /\ last \in Nat /\ last < size /\ pos <= last /\ last < pos + backend.buffer
      /\ pos = 0 => last < HeadLimit /\ (HeadLen <= size => HeadLen <= last + 1)
  <2>1. end \in Nat /\ size \in Nat /\ pos \in Nat /\ HeadLen \in Nat /\ backend.buffer \in Nat
    BY <1>1, Typed
  <2>2. last = (IF end < size THEN end ELSE size) - 1
    BY <1>3, <2>1 DEF SmallerOf
  <2> QED
    BY <1>2, <2>1, <2>2
<1>5. RangeOf(backend.buffer) = [first |-> pos, last |-> last, open |-> TRUE]
  BY <1>1, <1>3 DEF RangeOf
<1>6. pos \in Nat /\ size \in Nat
  BY Typed
<1>7. pos \in 0..(size - 1) /\ last \in 0..(size - 1)
  BY <1>4, <1>6
<1>8. RangeOf(backend.buffer) \in [first : 0..(size - 1), last : 0..(size - 1), open : {TRUE}]
  BY <1>5, <1>7
<1>9. /\ RangeOf(backend.buffer).open = TRUE /\ RangeOf(backend.buffer).first = pos
      /\ RangeOf(backend.buffer).last = last
  BY <1>5
<1> QED
  BY <1>4, <1>8, <1>9

\* Of a sound object, what the parser lacks is there.
LEMMA Lacking ==
    ASSUME IInv, Sound, Parsing, need > 0, buffer = <<>>
    PROVE  /\ pos < size /\ object \in Version /\ size = Size[object] /\ HeadLen <= size
           /\ parse = "head" => pos = 0
           /\ parse # "head" => Start[object] <= pos
<1>1. /\ object \in Version /\ size = Size[object] /\ Within(From, PartLen)
      /\ parse \in {"head", "footer", "summary"}
      /\ parse = "head" => pos = 0 \/ pos >= HeadLen
  BY DEF IInv, Undisturbed, SoundInv, Sound, Parsing, TypeOK
<1>2. /\ Start[object] \in Nat /\ HeadLen \in Nat \ {0} /\ FootLen \in Nat \ {0} /\ size \in Nat
      /\ HeadLen <= Start[object] /\ Start[object] <= size - FootLen - 1
  BY <1>1, Layout DEF Sound
<1>3. Len(got) \in Nat /\ Len(buffer) = 0 /\ need \in Nat /\ pos \in Nat
  BY Typed DEF IInv
<1>4. pos = From + Len(got) /\ Len(got) + need = PartLen
  <2>1. From \in Int
    BY <1>2 DEF From
  <2> QED
    BY <1>1, <1>3, <2>1 DEF Within
<1>5. CASE parse = "head"
  <2>1. pos = Len(got) /\ Len(got) + need = HeadLen
    BY <1>3, <1>4, <1>5 DEF From, PartLen
  <2> QED
    BY <1>1, <1>2, <1>3, <1>5, <2>1
<1>6. CASE parse = "footer"
  <2>1. pos = size - FootLen + Len(got) /\ Len(got) + need = FootLen
    BY <1>4, <1>6 DEF From, PartLen
  <2>2. FootLen \in Nat /\ need > 0
    BY <1>2
  <2>3. size - FootLen <= pos /\ pos < size
    BY <1>2, <1>3, <2>1, <2>2
  <2>4. HeadLen <= size /\ Start[object] <= pos
    BY <1>2, <1>3, <2>3
  <2> QED
    BY <1>1, <1>6, <2>3, <2>4
<1>7. CASE parse = "summary"
  <2>1. pos = Start[object] + Len(got) /\ Len(got) + need = size - Start[object]
    BY <1>4, <1>7 DEF From, PartLen
  <2> QED
    BY <1>1, <1>2, <1>3, <1>7, <2>1
<1> QED
  BY <1>1, <1>5, <1>6, <1>7

-----------------------------------------------------------------------------
(* The raw stream.                                                         *)

LEMMA FillStep == ASSUME IInv, Fill PROVE IInv'
<1>1. /\ UNCHANGED <<object, writes, backend, size, pos, buffer, parse, got, need>>
      /\ Parsing /\ need > 0 /\ buffer = <<>> /\ ~request.open /\ tries' = 0
      /\ request' = RangeOf(backend.buffer)
      /\ asked' = asked \cup RangeOf(backend.buffer).first..RangeOf(backend.buffer).last
  BY DEF Fill, store, stream, parser
<1>2. pos < size /\ TypeOK
  BY Typed DEF Fill, AtEof, IInv
<1>3. PICK r : r = RangeOf(backend.buffer)
  OBVIOUS
<1>4. /\ r.open = TRUE /\ r.first = pos /\ r.last \in Nat /\ r.last < size /\ pos <= r.last
      /\ r \in [first : 0..(size - 1), last : 0..(size - 1), open : {TRUE}]
      /\ pos = 0 => r.last < HeadLimit
  BY <1>2, <1>3, Ranges
<1>5. TypeOK'
  <2>1. request' \in [first : 0..(size - 1), last : 0..(size - 1), open : {TRUE}] \cup {NoRequest}
        /\ request'.first <= request'.last
    BY <1>1, <1>3, <1>4
  <2>2. tries' \in 0..Attempts
    BY <1>1, FetchAssumption
  <2> QED
    BY <1>1, <2>1, <2>2 DEF IInv, TypeOK
<1>6. RequestInv'
  <2>1. RangeOf(backend.buffer)' = RangeOf(backend.buffer)
    BY <1>1 DEF RangeOf, EndExcl
  <2> QED
    BY <1>1, <1>2, <2>1, FetchAssumption DEF RequestInv, Parsing
<1>7. PlaceInv' /\ Undisturbed'
  BY <1>1 DEF IInv, PlaceInv, Undisturbed, Within
<1>8. SoundInv'
  BY <1>1 DEF IInv, SoundInv, Sound, Parsing, Within, From, PartLen, Ended
<1>9. BodySpared'
  <2> SUFFICES ASSUME Sound, object # Gone
               PROVE  asked' \subseteq 0..(HeadLimit - 1) \cup Start[object]..(size - 1)
    BY <1>1 DEF BodySpared, HeadLimit, Sound
  <2>1. asked \subseteq 0..(HeadLimit - 1) \cup Start[object]..(size - 1)
    BY DEF IInv, BodySpared, Sound
  <2>2. /\ parse = "head" => pos = 0
        /\ parse # "head" => Start[object] <= pos
        /\ Start[object] \in Nat /\ HeadLimit \in Nat /\ pos \in Nat /\ size \in Nat
    BY <1>1, <1>2, Lacking, Layout, Typed DEF HeadLimit
  <2>3. pos..r.last \subseteq 0..(HeadLimit - 1) \cup Start[object]..(size - 1)
    BY <1>4, <2>2
  <2> QED
    BY <1>1, <1>3, <1>4, <2>1, <2>3
<1> QED
  BY <1>5, <1>6, <1>7, <1>8, <1>9 DEF IInv

LEMMA FillAtEofStep == ASSUME IInv, FillAtEof PROVE IInv'
<1>1. /\ UNCHANGED <<object, writes, backend, size, pos, buffer, got, need, request, tries, asked>>
      /\ Parsing /\ need > 0 /\ buffer = <<>> /\ ~request.open /\ parse' = "garbage"
      /\ pos >= size
  BY DEF FillAtEof, End, AtEof, store, stream
<1>2. ~Sound
  BY <1>1, Lacking, Typed DEF IInv
<1>3. TypeOK'
  BY <1>1 DEF IInv, TypeOK, Ended
<1>4. RequestInv' /\ PlaceInv' /\ Undisturbed' /\ SoundInv'
  BY <1>1, <1>2 DEF IInv, RequestInv, PlaceInv, Undisturbed, SoundInv, Sound
<1>5. BodySpared'
  BY <1>1 DEF IInv, BodySpared, HeadLimit
<1> QED
  BY <1>3, <1>4, <1>5 DEF IInv

LEMMA DeliverStep == ASSUME IInv, Deliver PROVE IInv'
<1>1. /\ UNCHANGED <<object, writes, backend, size, parse, got, need, tries, asked>>
      /\ request.open /\ object # Gone /\ request.first < Size[object] /\ request' = NoRequest
      /\ Parsing /\ need > 0 /\ buffer = <<>> /\ pos < size /\ request = RangeOf(backend.buffer)
  BY DEF Deliver, IInv, RequestInv, store, stream, parser
<1>2. object \in Version /\ Size[object] \in Nat /\ TypeOK
  BY <1>1, Layout DEF IInv, TypeOK
<1>3. PICK last : last = SmallerOf(request.last, Size[object] - 1)
  OBVIOUS
<1>4. /\ request.first = pos /\ request.last \in Nat /\ request.last < size
      /\ pos <= request.last /\ request.last < pos + backend.buffer
      /\ pos = 0 /\ HeadLen <= size => HeadLen <= request.last + 1
  BY <1>1, <1>2, Ranges
<1>5. /\ last \in Nat /\ pos <= last /\ last <= request.last
      /\ Size[object] = size => last = request.last
  <2>1. PICK m \in Nat, n \in Nat : m = request.last /\ n = Size[object] /\ pos < n
    BY <1>1, <1>2, <1>4
  <2>2. last = IF m < n - 1 THEN m ELSE n - 1
    BY <1>3, <2>1 DEF SmallerOf
  <2>3. pos \in Nat /\ size \in Nat
    BY <1>2, Typed
  <2> QED
    BY <1>4, <2>1, <2>2, <2>3
<1>6. /\ buffer' = Bytes(object, pos, last) /\ pos' = pos + Len(buffer')
      /\ buffer' \in Seq(Cell) /\ Len(buffer') = last + 1 - pos
      /\ IsRun(buffer', object, pos) /\ Placed(buffer', pos)
  <2>1. buffer' = Bytes(object, pos, last) /\ pos' = pos + Len(buffer')
    BY <1>1, <1>3, <1>4 DEF Deliver
  <2> QED
    BY <1>2, <1>5, <2>1, BytesRun, Typed
<1>7. Len(buffer) = 0 /\ pos' = last + 1 /\ Len(got) \in Nat /\ pos \in Nat
  BY <1>1, <1>2, <1>5, <1>6, Typed
<1>8. TypeOK'
  <2>1. pos' \in Nat /\ Len(buffer') <= backend.buffer
    <3>1. PICK b \in Nat, m \in Nat, n \in Nat :
             /\ b = backend.buffer /\ m = request.last /\ n = last
             /\ n <= m /\ m < pos + b
      BY <1>2, <1>4, <1>5, Typed
    <3>2. pos' = n + 1 /\ Len(buffer') = n + 1 - pos
      BY <1>6, <1>7, <3>1
    <3> QED
      BY <1>7, <3>1, <3>2
  <2>2. request' \in [first : 0..(size - 1), last : 0..(size - 1), open : {TRUE}] \cup {NoRequest}
        /\ request'.first <= request'.last
    BY <1>1 DEF NoRequest
  <2> QED
    BY <1>1, <1>2, <1>6, <2>1, <2>2 DEF TypeOK, Cell
<1>9. RequestInv' /\ Undisturbed'
  BY <1>1 DEF IInv, RequestInv, Undisturbed, NoRequest
<1>10. ASSUME NEW from \in Int, NEW n, Within(from, n)
       PROVE  from + Len(got) = pos /\ Within(from, n)'
  BY <1>1, <1>5, <1>6, <1>7, <1>10 DEF Within
<1>11. PlaceInv'
  <2>1. ASSUME parse = "footer"
        PROVE  /\ FootLen <= size /\ Within(size - FootLen, FootLen)'
               /\ Placed(got, size - FootLen) /\ Placed(buffer', size - FootLen + Len(got))
    <3>1. size - FootLen \in Int
      BY <1>2, Typed
    <3>2. FootLen <= size /\ Within(size - FootLen, FootLen) /\ Placed(got, size - FootLen)
      BY <2>1 DEF IInv, PlaceInv
    <3>3. size - FootLen + Len(got) = pos /\ Within(size - FootLen, FootLen)'
      <4>1. PICK from \in Int : from = size - FootLen
        BY <3>1
      <4>2. from + Len(got) = pos /\ Within(from, FootLen)'
        BY <1>10, <3>2, <4>1
      <4> QED
        BY <1>1, <4>1, <4>2 DEF Within
    <3> QED
      BY <1>6, <3>2, <3>3
  <2>2. ASSUME parse = "head"
        PROVE  Within(0, HeadLen)' /\ Placed(got, 0) /\ Placed(buffer', Len(got))
    <3>1. Within(0, HeadLen) /\ Placed(got, 0)
      BY <2>2 DEF IInv, PlaceInv
    <3>2. 0 + Len(got) = pos /\ Within(0, HeadLen)'
      BY <1>10, <3>1
    <3> QED
      BY <1>6, <1>7, <3>1, <3>2
  <2> QED
    BY <1>1, <2>1, <2>2 DEF PlaceInv, Within
<1>12. SoundInv'
  <2> SUFFICES ASSUME Sound
               PROVE  SoundInv'
    BY <1>1 DEF SoundInv, Sound
  <2>1. /\ size = Size[object] /\ HeadLen <= size
        /\ parse = "head" => pos = 0
    BY <1>1, Lacking
  <2>2. PICK from \in Int : from = From /\ from' = from
    BY <1>1, <1>2, Typed, Layout DEF From
  <2>3. /\ Within(from, PartLen) /\ IsRun(got, object, from)
        /\ parse \notin {"garbage", "exhausted", "done"}
    BY <1>1, <2>2 DEF IInv, SoundInv, Parsing, Ended
  <2>4. from + Len(got) = pos /\ Within(from, PartLen)'
    <3>1. PICK n : n = PartLen /\ n = PartLen'
      BY <1>1 DEF PartLen
    <3> QED
      BY <1>10, <2>3, <3>1 DEF Within
  <2>5. From' = from
    BY <1>1, <2>2 DEF From
  <2>6. pos' <= size /\ (parse = "head" => pos' >= HeadLen)
    <3>1. last = request.last /\ size \in Nat /\ HeadLen \in Nat
      BY <1>2, <1>5, <2>1, Typed
    <3> QED
      BY <1>4, <1>7, <2>1, <3>1
  <2> QED
    BY <1>1, <1>6, <2>3, <2>4, <2>5, <2>6 DEF SoundInv, Within
<1>13. BodySpared'
  BY <1>1 DEF IInv, BodySpared, HeadLimit
<1> QED
  BY <1>8, <1>9, <1>11, <1>12, <1>13 DEF IInv

LEMMA BreaksOffStep == ASSUME IInv, Transient \/ Permanent PROVE IInv'
<1>1. /\ UNCHANGED <<object, writes, backend, size, pos, buffer, got, need, asked>>
      /\ request.open /\ Parsing /\ tries < Attempts /\ tries \in Nat /\ Attempts \in Nat
  BY Typed DEF Transient, Permanent, End, IInv, RequestInv, store, stream, parser
<1>2. \/ /\ parse' = parse /\ request' = request
         /\ tries' = tries + 1 /\ tries + 1 # Attempts
      \/ parse' = "exhausted" /\ request' = NoRequest /\ tries' = Attempts
      \/ parse' = "refused" /\ request' = NoRequest /\ tries' = tries
  BY <1>1 DEF Transient, Permanent, End, parser, LastTry
<1>3. TypeOK'
  <2>1. /\ request' \in [first : 0..(size - 1), last : 0..(size - 1), open : {TRUE}] \cup {NoRequest}
        /\ request'.first <= request'.last
    <3>1. request' = request \/ request' = NoRequest
      BY <1>2
    <3>2. NoRequest.first <= NoRequest.last
      BY DEF NoRequest
    <3> QED
      BY <1>1, <3>1, <3>2 DEF IInv, TypeOK
  <2>2. tries' \in 0..Attempts /\ parse' \in {"head", "footer", "summary"} \cup Ended
    BY <1>1, <1>2 DEF IInv, TypeOK, Ended
  <2> QED
    BY <1>1, <2>1, <2>2 DEF IInv, TypeOK
<1>4. RequestInv'
  <2>1. CASE request' = NoRequest
    BY <2>1 DEF RequestInv, NoRequest
  <2>2. CASE request' = request /\ parse' = parse /\ tries' = tries + 1 /\ tries + 1 # Attempts
    <3>1. RangeOf(backend.buffer)' = RangeOf(backend.buffer)
      BY <1>1 DEF RangeOf, EndExcl
    <3> QED
      BY <1>1, <2>2, <3>1 DEF IInv, RequestInv, Parsing
  <2> QED
    BY <1>2, <2>1, <2>2
<1>5. PlaceInv' /\ Undisturbed' /\ BodySpared'
  BY <1>1, <1>2 DEF IInv, PlaceInv, Undisturbed, BodySpared, Within, HeadLimit
<1>6. SoundInv'
  BY <1>1, <1>2 DEF IInv, SoundInv, Sound, Parsing, Ended, Within, From, PartLen
<1> QED
  BY <1>3, <1>4, <1>5, <1>6 DEF IInv

-----------------------------------------------------------------------------
(* The parser.                                                             *)

LEMMA ConsumeStep == ASSUME IInv, Consume PROVE IInv'
<1>1. /\ UNCHANGED <<object, writes, backend, size, pos, parse, request, tries, asked>>
      /\ Parsing /\ need > 0 /\ buffer # <<>> /\ ~request.open
  BY DEF Consume, IInv, RequestInv, store, stream
<1>2. TypeOK /\ got \in Seq(Cell) /\ buffer \in Seq(Cell) /\ need \in Nat
      /\ Len(got) \in Nat /\ Len(buffer) \in Nat \ {0} /\ backend.buffer \in Nat
      /\ Len(buffer) <= backend.buffer
  BY <1>1, Typed DEF IInv
<1>3. PICK n \in 1..Len(buffer) : n = SmallerOf(need, Len(buffer)) /\ n <= need
  BY <1>1, <1>2 DEF SmallerOf
<1>4. /\ got' = got \o SubSeq(buffer, 1, n) /\ buffer' = SubSeq(buffer, n + 1, Len(buffer))
      /\ need' = need - n
  BY <1>3 DEF Consume
<1>5. /\ got' \in Seq(Cell) /\ buffer' \in Seq(Cell)
      /\ Len(got') = Len(got) + n /\ Len(buffer') = Len(buffer) - n
      /\ \A first \in Nat :
           /\ Placed(got, first) /\ Placed(buffer, first + Len(got)) =>
                 Placed(got', first) /\ Placed(buffer', first + Len(got'))
           /\ \A v : IsRun(got, v, first) /\ IsRun(buffer, v, first + Len(got)) =>
                 IsRun(got', v, first) /\ IsRun(buffer', v, first + Len(got'))
  BY <1>2, <1>4, Moved
<1>6. /\ Len(got') = Len(got) + n /\ Len(buffer') = Len(buffer) - n /\ need' = need - n
      /\ n \in Nat /\ n <= need /\ need \in Nat /\ Len(got) \in Nat /\ Len(buffer) \in Nat
  BY <1>2, <1>3, <1>4, <1>5
<1>7. TypeOK'
  <2>1. need' \in Nat /\ Len(buffer') <= backend.buffer
    BY <1>6, <1>2
  <2> QED
    BY <1>1, <1>2, <1>5, <2>1 DEF TypeOK, Cell
<1>8. RequestInv' /\ Undisturbed' /\ BodySpared'
  BY <1>1 DEF IInv, RequestInv, Undisturbed, BodySpared, HeadLimit
<1>9. ASSUME NEW from \in Nat, NEW m, Within(from, m) PROVE Within(from, m)'
  BY <1>6, <1>1, <1>9 DEF Within
<1>10. PlaceInv'
  <2>1. ASSUME parse = "footer"
        PROVE  /\ FootLen <= size /\ Within(size - FootLen, FootLen)'
               /\ Placed(got', size - FootLen) /\ Placed(buffer', size - FootLen + Len(got'))
    <3>1. PICK from \in Nat : from = size - FootLen
      BY <1>2, <2>1, Typed DEF IInv, PlaceInv
    <3>2. FootLen <= size /\ Within(from, FootLen) /\ Placed(got, from) /\ Placed(buffer, from + Len(got))
      BY <2>1, <3>1 DEF IInv, PlaceInv
    <3>3. Within(from, FootLen)' /\ Placed(got', from) /\ Placed(buffer', from + Len(got'))
      BY <1>5, <1>9, <3>2
    <3> QED
      BY <1>1, <3>1, <3>2, <3>3 DEF Within
  <2>2. ASSUME parse = "head"
        PROVE  Within(0, HeadLen)' /\ Placed(got', 0) /\ Placed(buffer', Len(got'))
    <3>1. Within(0, HeadLen) /\ Placed(got, 0) /\ Placed(buffer, 0 + Len(got))
      BY <1>2, <2>2 DEF IInv, PlaceInv
    <3>2. Within(0, HeadLen)' /\ Placed(got', 0) /\ Placed(buffer', 0 + Len(got'))
      BY <1>5, <1>9, <3>1
    <3> QED
      BY <1>2, <1>3, <1>5, <3>2
  <2> QED
    BY <1>1, <2>1, <2>2 DEF PlaceInv, Within
<1>11. SoundInv'
  <2> SUFFICES ASSUME Sound PROVE SoundInv'
    BY <1>1 DEF SoundInv, Sound
  <2>1. /\ object \in Version /\ size = Size[object]
    BY DEF Sound, IInv, Undisturbed
  <2>2. PICK from \in Nat : from = From /\ from = From'
    BY <1>1, <1>2, <2>1, Typed, Layout DEF From, Sound
  <2>3. PICK m : m = PartLen /\ m = PartLen'
    BY <1>1 DEF PartLen
  <2>4. /\ Within(from, m) /\ pos <= size
        /\ IsRun(got, object, from) /\ IsRun(buffer, object, from + Len(got))
    BY <1>1, <2>2, <2>3 DEF IInv, SoundInv
  <2>5. Within(from, m)' /\ IsRun(got', object, from) /\ IsRun(buffer', object, from + Len(got'))
    BY <1>5, <1>9, <2>4
  <2>6. parse = "head" => pos = 0 \/ pos >= HeadLen
    BY DEF IInv, SoundInv
  <2> QED
    BY <1>1, <2>2, <2>3, <2>4, <2>5, <2>6 DEF SoundInv, Within, Parsing, Ended
<1> QED
  BY <1>7, <1>8, <1>10, <1>11 DEF IInv

\* The next part begins with nothing of it read.
LEMMA NextPart ==
    ASSUME IInv, NEW part \in {"footer", "summary"}, NEW i \in Nat, NEW n \in Nat,
           ReadFrom(part, i, n), need = 0,
           UNCHANGED <<store, stream, request, tries, asked>>,
           part = "footer" => FootLen <= size /\ i = size - FootLen /\ n = FootLen,
           Sound => i + n <= size
                    /\ (part = "summary" => i = Start[object] /\ n = size - Start[object])
    PROVE  IInv'
<1>1. /\ UNCHANGED <<object, writes, backend, size, request, tries, asked>>
      /\ parse' = part /\ got' = <<>> /\ need' = n /\ pos' = i /\ buffer' = <<>>
      /\ ~request.open
  BY DEF ReadFrom, IInv, RequestInv, store, stream
<1>2. Len(got') = 0 /\ Len(buffer') = 0 /\ got' \in Seq(Cell) /\ buffer' \in Seq(Cell)
  BY <1>1
<1>3. TypeOK'
  <2>1. Len(buffer') <= backend.buffer
    BY <1>2, Typed DEF IInv
  <2> QED
    BY <1>1, <1>2, <2>1 DEF IInv, TypeOK, Cell
<1>4. RequestInv' /\ Undisturbed' /\ BodySpared'
  BY <1>1 DEF IInv, RequestInv, Undisturbed, BodySpared, HeadLimit
<1>5. \A from, m, v : Placed(got', from) /\ Placed(buffer', m)
                      /\ IsRun(got', v, from) /\ IsRun(buffer', v, m)
  BY <1>2 DEF Placed, IsRun
<1>6. Within(i, n)'
  BY <1>1, <1>2 DEF Within
<1>7. PlaceInv'
  BY <1>1, <1>5, <1>6 DEF PlaceInv, Within
<1>8. SoundInv'
  <2> SUFFICES ASSUME Sound PROVE SoundInv'
    BY <1>1 DEF SoundInv, Sound
  <2>1. From' = i /\ PartLen' = n
    BY <1>1 DEF From, PartLen
  <2>2. pos' <= size
    BY <1>1, Typed DEF IInv
  <2> QED
    BY <1>1, <1>5, <1>6, <2>1, <2>2 DEF SoundInv, Within
<1> QED
  BY <1>3, <1>4, <1>7, <1>8 DEF IInv

\* A part that ends the read, which a sound object's may do only as done.
LEMMA EndStep ==
    ASSUME IInv, Parsing, need = 0, NEW how \in {"garbage", "done"}, End(how),
           UNCHANGED <<store, stream, pos, buffer, request, tries, asked>>,
           how = "garbage" => ~Sound,
           how = "done" => parse = "summary"
    PROVE  IInv'
<1>1. /\ UNCHANGED <<object, writes, backend, size, pos, buffer, got, need, request, tries, asked>>
      /\ parse' = how /\ ~request.open
  BY DEF End, IInv, RequestInv, store, stream
<1>2. TypeOK' /\ RequestInv' /\ PlaceInv' /\ Undisturbed' /\ BodySpared'
  BY <1>1 DEF IInv, TypeOK, Ended, RequestInv, PlaceInv, Undisturbed, BodySpared, HeadLimit
<1>3. SoundInv'
  <2> SUFFICES ASSUME Sound PROVE SoundInv'
    BY <1>1 DEF SoundInv, Sound
  <2>1. parse' = "done" /\ parse = "summary"
    BY <1>1
  <2>2. IsRun(got, object, Start[object]) /\ Len(got) + need = size - Start[object]
    BY <2>1 DEF IInv, SoundInv, From, PartLen, Within
  <2>3. Len(got) = size - Start[object]
    BY <2>2, Typed DEF IInv
  <2> QED
    BY <1>1, <2>1, <2>2, <2>3 DEF SoundInv, Parsing, Ended
<1> QED
  BY <1>2, <1>3 DEF IInv

LEMMA HeadReadStep == ASSUME IInv, HeadRead PROVE IInv'
<1>1. parse = "head" /\ need = 0 /\ Parsing /\ UNCHANGED <<store, stream, request, tries, asked>>
  BY DEF HeadRead, Parsing, Ended
<1>2. got \in Seq(Cell) /\ size \in Nat /\ HeadLen \in Nat /\ FootLen \in Nat \ {0}
  BY Typed DEF IInv
<1>3. CASE size >= FootLen /\ ReadFrom("footer", size - FootLen, FootLen)
  <2>1. size - FootLen \in Nat /\ size - FootLen + FootLen <= size
    BY <1>2, <1>3
  <2> QED
    BY <1>1, <1>2, <1>3, <2>1, NextPart
<1>4. CASE ~((\E v \in Version : OneOf(v, 0)) /\ size >= FootLen)
  <2>1. End("garbage") /\ UNCHANGED <<store, stream, pos, buffer, request, tries, asked>>
    BY <1>4 DEF HeadRead
  <2>2. ~Sound
    <3> SUFFICES ASSUME Sound PROVE FALSE
      OBVIOUS
    <3>1. object \in Version /\ size = Size[object] /\ IsRun(got, object, 0)
      BY <1>1 DEF IInv, Undisturbed, SoundInv, Sound, From
    <3>2. got = Bytes(object, 0, 0 + Len(got) - 1)
      BY <1>2, <3>1, RunIsBytes
    <3>3. size >= FootLen
      BY <1>2, <3>1, Layout DEF Sound
    <3> QED
      BY <1>4, <3>1, <3>2, <3>3 DEF OneOf
  <2> QED
    BY <1>1, <2>1, <2>2, EndStep
<1> QED
  BY <1>3, <1>4 DEF HeadRead

LEMMA FooterReadStep == ASSUME IInv, FooterRead PROVE IInv'
<1> DEFINE sound == {v \in Version : Start[v] # 0 /\ OneOf(v, Size[v] - FootLen)}
<1>1. parse = "footer" /\ need = 0 /\ Parsing /\ UNCHANGED <<store, stream, request, tries, asked>>
  BY DEF FooterRead, Parsing, Ended
<1>2. got \in Seq(Cell) /\ size \in Nat /\ Len(got) \in Nat /\ FootLen \in Nat \ {0}
  BY Typed DEF IInv
<1>3. FootLen <= size /\ Len(got) = FootLen /\ Placed(got, size - FootLen)
  BY <1>1, <1>2 DEF IInv, PlaceInv, Within
<1>4. ASSUME NEW v \in sound
      PROVE  /\ IsRun(got, v, Size[v] - FootLen) /\ Size[v] = size
             /\ Start[v] \in Nat /\ Start[v] + (size - Start[v]) <= size /\ size - Start[v] \in Nat
  <2>1. /\ Size[v] \in Nat /\ Start[v] \in Nat /\ Start[v] <= Size[v] - FootLen - 1
        /\ OneOf(v, Size[v] - FootLen)
    BY Layout
  <2>2. PICK first \in Nat : first = Size[v] - FootLen
    BY <1>2, <2>1
  <2>3. IsRun(got, v, first)
    BY <1>2, <2>1, <2>2, RunIsBytes DEF OneOf
  <2>4. got[1].at = first + 1 - 1 /\ got[1].at = size - FootLen + 1 - 1
    BY <1>2, <1>3, <2>3 DEF IsRun, Placed, Byte
  <2>5. Size[v] = size
    BY <1>2, <2>1, <2>2, <2>4
  <2> QED
    BY <1>2, <2>1, <2>2, <2>3, <2>5
<1>5. Sound => /\ object \in sound
               /\ \A v \in sound : v = object
  <2> SUFFICES ASSUME Sound PROVE object \in sound /\ \A v \in sound : v = object
    OBVIOUS
  <2>1. object \in Version /\ size = Size[object] /\ IsRun(got, object, size - FootLen)
    BY <1>1 DEF IInv, Undisturbed, SoundInv, Sound, From
  <2>2. PICK first \in Nat : first = size - FootLen
    BY <1>2, <1>3
  <2>3. got = Bytes(object, first, first + Len(got) - 1)
    BY <1>2, <2>1, <2>2, RunIsBytes
  <2>4. object \in sound
    BY <2>1, <2>2, <2>3 DEF OneOf, Sound
  <2>5. ASSUME NEW v \in sound PROVE v = object
    <3>1. IsRun(got, v, first)
      BY <1>4, <2>2
    <3>2. got[1] = Byte(v, first + 1 - 1) /\ got[1] = Byte(object, first + 1 - 1)
      BY <1>2, <1>3, <2>1, <2>2, <3>1 DEF IsRun
    <3> QED
      BY <3>2 DEF Byte
  <2> QED
    BY <2>4, <2>5
<1> HIDE DEF sound
<1>6. \/ \E v \in sound : ReadFrom("summary", Start[v], size - Start[v])
      \/ sound = {} /\ End("garbage") /\ UNCHANGED <<pos, buffer>>
  BY DEF FooterRead, sound
<1>7. ASSUME NEW v \in sound, ReadFrom("summary", Start[v], size - Start[v])
      PROVE  IInv'
  <2>1. Start[v] \in Nat /\ size - Start[v] \in Nat /\ Start[v] + (size - Start[v]) <= size
    BY <1>4
  <2>2. Sound => Start[v] = Start[object]
    BY <1>5
  <2> QED
    BY <1>1, <1>7, <2>1, <2>2, NextPart
<1>8. CASE sound = {} /\ End("garbage") /\ UNCHANGED <<pos, buffer>>
  BY <1>1, <1>5, <1>8, EndStep
<1> QED
  BY <1>6, <1>7, <1>8

LEMMA SummaryReadStep == ASSUME IInv, SummaryRead PROVE IInv'
<1>1. /\ parse = "summary" /\ need = 0 /\ Parsing
      /\ UNCHANGED <<store, stream, pos, buffer, request, tries, asked>>
  BY DEF SummaryRead, Parsing, Ended
<1>2. CASE End("done")
  BY <1>1, <1>2, EndStep
<1>3. CASE (\A v \in Version : ~OneOf(v, Start[v])) /\ End("garbage")
  <2>1. ~Sound
    <3> SUFFICES ASSUME Sound PROVE FALSE
      OBVIOUS
    <3>1. object \in Version /\ IsRun(got, object, Start[object]) /\ Start[object] \in Nat
      BY <1>1, Layout DEF IInv, Undisturbed, SoundInv, Sound, From
    <3>2. OneOf(object, Start[object])
      BY <3>1, RunIsBytes, Typed DEF OneOf, IInv
    <3> QED
      BY <1>3, <3>1, <3>2
  <2> QED
    BY <1>1, <1>3, <2>1, EndStep
<1> QED
  BY <1>2, <1>3 DEF SummaryRead

-----------------------------------------------------------------------------
(* The bucket, and the whole.                                              *)

LEMMA ReplaceStep == ASSUME IInv, Replace PROVE IInv'
<1>1. /\ UNCHANGED <<backend, size, pos, buffer, parse, got, need, request, tries, asked>>
      /\ writes < MaxWrites /\ writes' = writes + 1 /\ writes \in Nat /\ MaxWrites \in Nat
      /\ object' \in Version \cup {Gone}
  BY Typed, FetchAssumption DEF Replace, IInv, stream, parser
<1>2. writes' # 0 /\ writes' \in 0..MaxWrites
  BY <1>1
<1>3. TypeOK'
  BY <1>1, <1>2 DEF IInv, TypeOK
<1>4. RequestInv' /\ PlaceInv'
  BY <1>1 DEF IInv, RequestInv, PlaceInv, Within, Parsing, RangeOf, EndExcl
<1>5. Undisturbed' /\ SoundInv' /\ BodySpared'
  BY <1>2 DEF Undisturbed, SoundInv, Sound, BodySpared
<1> QED
  BY <1>3, <1>4, <1>5 DEF IInv

LEMMA StandStep == ASSUME IInv, UNCHANGED vars PROVE IInv'
<1>1. UNCHANGED <<object, writes, backend, size, pos, buffer, parse, got, need, request, tries, asked>>
  BY DEF vars, store, stream, parser
<1>2. TypeOK' /\ RequestInv' /\ PlaceInv'
  BY <1>1 DEF IInv, TypeOK, RequestInv, PlaceInv, Within, Parsing, RangeOf, EndExcl
<1>3. Undisturbed' /\ SoundInv' /\ BodySpared'
  BY <1>1 DEF IInv, Undisturbed, SoundInv, Sound, BodySpared, HeadLimit, Within, From, PartLen,
              Parsing
<1> QED
  BY <1>2, <1>3 DEF IInv

LEMMA InitIInv == Init => IInv
<1> SUFFICES ASSUME Init PROVE IInv
  OBVIOUS
<1>1. /\ object \in Version /\ size = Size[object] /\ writes = 0 /\ pos = 0
      /\ buffer = <<>> /\ got = <<>> /\ need = HeadLen /\ parse = "head"
      /\ request = NoRequest /\ tries = 0 /\ asked = {} /\ backend \in Backend
  BY DEF Init
<1>2. /\ buffer \in Seq(Cell) /\ got \in Seq(Cell) /\ Len(buffer) = 0 /\ Len(got) = 0
      /\ HeadLen \in Nat /\ size \in Nat /\ backend.buffer \in Nat
  BY <1>1, FetchAssumption
<1>3. TypeOK
  <2>1. NoRequest.first <= NoRequest.last
    BY DEF NoRequest
  <2>2. writes \in 0..MaxWrites /\ tries \in 0..Attempts /\ Len(buffer) <= backend.buffer
    BY <1>1, <1>2, FetchAssumption
  <2> QED
    BY <1>1, <1>2, <2>1, <2>2 DEF TypeOK, Cell
<1>4. RequestInv /\ Undisturbed /\ BodySpared
  BY <1>1 DEF RequestInv, NoRequest, Undisturbed, BodySpared
<1>5. Within(0, HeadLen)
  BY <1>1, <1>2 DEF Within
<1>6. PlaceInv
  BY <1>1, <1>2, <1>5 DEF PlaceInv, Placed
<1>7. SoundInv
  BY <1>1, <1>2, <1>5 DEF SoundInv, From, PartLen, IsRun
<1> QED
  BY <1>3, <1>4, <1>6, <1>7 DEF IInv

LEMMA NextIInv == IInv /\ [Next]_vars => IInv'
<1> SUFFICES ASSUME IInv, [Next]_vars PROVE IInv'
  OBVIOUS
<1>1. CASE Reader
  BY <1>1, FillStep, FillAtEofStep, ConsumeStep, HeadReadStep, FooterReadStep, SummaryReadStep
     DEF Reader
<1>2. CASE Answer
  BY <1>2, DeliverStep, BreaksOffStep DEF Answer
<1>3. CASE Replace
  BY <1>3, ReplaceStep
<1>4. CASE UNCHANGED vars
  BY <1>4, StandStep
<1> QED
  BY <1>1, <1>2, <1>3, <1>4 DEF Next

-----------------------------------------------------------------------------
(* The theorems.                                                           *)

(* The inductive invariant of a read.                                      *)
THEOREM Invariance == Spec => []IInv
<1> QED
  BY InitIInv, NextIInv, PTL DEF Spec

(* Every variable keeps its type: a GET never asks for an empty range or   *)
(* for one past the known size, and the summary's length is never          *)
(* negative, whichever version the footer came from (s3_storage.py,        *)
(* gcs_storage.py: readinto).                                              *)
THEOREM TypeCorrect == Spec => []TypeOK
<1>1. IInv => TypeOK
  BY DEF IInv
<1> QED
  BY <1>1, Invariance, PTL

(* The body of an object is never downloaded, whatever the sizes of the    *)
(* object, the window and the buffer (s3_storage.py:7-12).                 *)
THEOREM BodySparedCorrect == Spec => []BodySpared
<1>1. IInv => BodySpared
  BY DEF IInv
<1> QED
  BY <1>1, Invariance, PTL

(* A sound object that is not replaced is read byte for byte, or given up  *)
(* by retry_with alone (retry.py:31-38).                                   *)
THEOREM SoundIsReadCorrect == Spec => []SoundIsRead
<1>1. ASSUME IInv PROVE SoundIsRead
  <2> SUFFICES ASSUME Sound
               PROVE  /\ parse # "garbage"
                      /\ parse = "exhausted" => tries = Attempts
                      /\ parse = "done" => /\ OneOf(object, Start[object])
                                           /\ Len(got) = size - Start[object]
    BY DEF SoundIsRead, Sound
  <2>1. /\ parse # "garbage" /\ (parse = "exhausted" => tries = Attempts)
        /\ parse = "done" => /\ IsRun(got, object, Start[object])
                             /\ Len(got) = size - Start[object]
    BY <1>1 DEF IInv, SoundInv
  <2>2. got \in Seq(Cell) /\ Start[object] \in Nat
    BY <1>1, Typed, Layout DEF IInv, Undisturbed, Sound
  <2> QED
    BY <2>1, <2>2, RunIsBytes DEF OneOf
<1> QED
  BY <1>1, Invariance, PTL

=============================================================================
