---------------------------- MODULE SummaryFetch ----------------------------
(***************************************************************************)
(* How the summary of an object is read without its body: the MCAP reader  *)
(* looks at the head, the footer and the summary through a BufferedReader, *)
(* whose raw stream (S3RangeReader, GCSRangeReader) turns each fill of the *)
(* buffer into one ranged GET, retried by retry_with, while the object may *)
(* be replaced or removed between any two GETs.                            *)
(*                                                                         *)
(* A byte is the version and the position it comes from; positions are     *)
(* small numbers that keep the order of the real ones.                     *)
(***************************************************************************)
EXTENDS Integers, Sequences

CONSTANTS
    Version,    \* contents an object may have
    Size,       \* per version, how long it is
    Start,      \* per version, where its summary starts, 0 if it has none
    Gone,       \* no object
    Backend,    \* records [window, buffer]: _HEADER_WINDOW, 0 if none; buffer_size
    HeadLen,    \* leading magic and Header record
    FootLen,    \* Footer record and closing magic
    Attempts,   \* ATTEMPTS
    MaxWrites   \* bound: replacements and removals

ASSUME FetchAssumption ==
    /\ Size \in [Version -> Nat] /\ Start \in [Version -> Nat] /\ Gone \notin Version
    /\ \A v \in Version : Start[v] # 0 => Start[v] \in HeadLen..(Size[v] - FootLen - 1)
    /\ HeadLen \in Nat \ {0} /\ FootLen \in Nat \ {0} /\ Attempts \in Nat \ {0}
    \* "64 KiB is ample for magic + Header record."
    /\ \A b \in Backend : /\ b.window \in Nat /\ b.buffer \in Nat \ {0}
                          /\ HeadLen <= b.buffer /\ (b.window # 0 => HeadLen <= b.window)
    /\ MaxWrites \in Nat

VARIABLES
    object,   \* the version in the bucket
    writes,   \* replacements and removals so far
    backend,  \* which raw stream
    size,     \* self._size, from the listing or a HEAD
    pos,      \* self._pos
    buffer,   \* what the BufferedReader still has ahead of the parser
    parse,    \* the part of the file the parser is in, or how it ended
    got,      \* the bytes of this part it has
    need,     \* and how many it lacks
    request,  \* the range of the GET under way, or none
    tries,    \* its failed attempts
    asked     \* history: every position a GET has asked for

store  == <<object, writes>>
stream == <<backend, size>>
parser == <<parse, got, need>>
vars == <<store, stream, pos, buffer, parser, request, tries, asked>>

NoRequest == [first |-> 0, last |-> 0, open |-> FALSE]
Ended  == {"done", "refused", "exhausted", "garbage"}
Byte(v, i) == [of |-> v, at |-> i]
Bytes(v, first, last) == [i \in 1..(last + 1 - first) |-> Byte(v, first + i - 1)]
SmallerOf(m, n) == IF m < n THEN m ELSE n

TypeOK ==
    /\ object \in Version \cup {Gone} /\ writes \in 0..MaxWrites /\ backend \in Backend
    /\ size \in {Size[v] : v \in Version} /\ pos \in Nat
    /\ buffer \in Seq([of : Version, at : Nat]) /\ Len(buffer) <= backend.buffer
    /\ parse \in {"head", "footer", "summary"} \cup Ended
    /\ got \in Seq([of : Version, at : Nat]) /\ need \in Nat
    /\ request \in [first : 0..(size - 1), last : 0..(size - 1), open : {TRUE}] \cup {NoRequest}
    /\ request.first <= request.last
    /\ tries \in 0..Attempts

Parsing == parse \notin Ended
End(how) == parse' = how /\ UNCHANGED <<got, need>>

-----------------------------------------------------------------------------
(* The raw stream.                                                         *)

\* Mutant: no cap at the header window.
EndExclUncapped(n) == pos + n
\* A read that starts in the header window stays in it.
EndExcl(n) ==
    IF pos < backend.window /\ backend.window < pos + n THEN backend.window ELSE pos + n

\* HTTP ranges are inclusive.
RangeOf(n) == [first |-> pos, last |-> SmallerOf(EndExcl(n), size) - 1, open |-> TRUE]

\* Mutant: a read at the end of the file is sent to the server.
AtEofLate == pos > size
AtEof == pos >= size

\* readinto: the buffer is empty and the parser lacks bytes; a GET begins.
Fill ==
    /\ Parsing /\ need > 0 /\ buffer = <<>> /\ ~request.open
    /\ ~AtEof
    /\ LET r == RangeOf(backend.buffer)
       IN  request' = r /\ asked' = asked \cup r.first..r.last
    /\ tries' = 0
    /\ UNCHANGED <<store, stream, pos, buffer, parser>>

\* readinto returns 0, and the parser finds its record cut off.
FillAtEof ==
    /\ Parsing /\ need > 0 /\ buffer = <<>> /\ ~request.open
    /\ AtEof
    /\ End("garbage")
    /\ UNCHANGED <<store, stream, pos, buffer, request, tries, asked>>

\* The GET returns what the object has of the range now.
Deliver ==
    /\ request.open /\ object # Gone /\ request.first < Size[object]
    /\ buffer' = Bytes(object, request.first, SmallerOf(request.last, Size[object] - 1))
    /\ pos' = pos + Len(buffer')
    /\ request' = NoRequest
    /\ UNCHANGED <<store, stream, parser, tries, asked>>

\* Mutant: the loop ends one attempt early.
LastTryEarly == tries + 2 >= Attempts
LastTry == tries + 1 = Attempts

\* Mutant: the count starts again when it is used up.
TransientForEver ==
    /\ request.open /\ tries' = (tries + 1) % Attempts
    /\ UNCHANGED <<store, stream, pos, buffer, parser, request, asked>>
\* Throttled, 5xx, a broken connection; or a range past the end of a shorter
\* object, whose code is not among the permanent ones.  retry_with tries again.
Transient ==
    /\ request.open /\ tries' = tries + 1
    /\ IF LastTry THEN End("exhausted") /\ request' = NoRequest ELSE UNCHANGED <<parser, request>>
    /\ UNCHANGED <<store, stream, pos, buffer, asked>>

\* Missing, forbidden or a bad request: raised at once.
Permanent ==
    /\ request.open
    /\ End("refused") /\ request' = NoRequest
    /\ UNCHANGED <<store, stream, pos, buffer, tries, asked>>

Answer == Deliver \/ Transient \/ Permanent

-----------------------------------------------------------------------------
(* The parser behind its buffer.                                           *)

\* It takes what the buffer has of what it lacks.
Consume ==
    /\ Parsing /\ need > 0 /\ buffer # <<>>
    /\ LET n == SmallerOf(need, Len(buffer))
       IN  /\ got' = got \o SubSeq(buffer, 1, n)
           /\ buffer' = SubSeq(buffer, n + 1, Len(buffer))
           /\ need' = need - n
    /\ UNCHANGED <<store, stream, pos, parse, request, tries, asked>>

\* get_summary reads the next part of n bytes, from position i.
ReadFrom(part, i, n) ==
    /\ parse' = part /\ got' = <<>> /\ need' = n
    /\ pos' = i /\ buffer' = <<>>

OneOf(v, first) == got = Bytes(v, first, first + Len(got) - 1)

\* seek(-FOOTER, SEEK_END), which fails in a file that is too short.
HeadRead ==
    /\ parse = "head" /\ need = 0
    /\ IF (\E v \in Version : OneOf(v, 0)) /\ size >= FootLen
         THEN ReadFrom("footer", size - FootLen, FootLen)
         ELSE End("garbage") /\ UNCHANGED <<pos, buffer>>
    /\ UNCHANGED <<store, stream, request, tries, asked>>

\* The footer tells where the summary starts; what is no footer tells nothing.
FooterRead ==
    /\ parse = "footer" /\ need = 0
    /\ LET sound == {v \in Version : Start[v] # 0 /\ OneOf(v, Size[v] - FootLen)}
       IN  \/ \E v \in sound : ReadFrom("summary", Start[v], size - Start[v])
           \/ sound = {} /\ End("garbage") /\ UNCHANGED <<pos, buffer>>
    /\ UNCHANGED <<store, stream, request, tries, asked>>

\* Bytes of two versions may pass for a summary or not.
SummaryRead ==
    /\ parse = "summary" /\ need = 0
    /\ \/ End("done")
       \/ (\A v \in Version : ~OneOf(v, Start[v])) /\ End("garbage")
    /\ UNCHANGED <<store, stream, pos, buffer, request, tries, asked>>

Reader == Fill \/ FillAtEof \/ Consume \/ HeadRead \/ FooterRead \/ SummaryRead

-----------------------------------------------------------------------------
\* Someone replaces or removes the object.
Replace ==
    /\ writes < MaxWrites /\ writes' = writes + 1
    /\ \E v \in (Version \cup {Gone}) \ {object} : object' = v
    /\ UNCHANGED <<stream, pos, buffer, parser, request, tries, asked>>

Init ==
    /\ object \in Version /\ writes = 0
    /\ backend \in Backend /\ size = Size[object]
    /\ pos = 0 /\ buffer = <<>>
    /\ parse = "head" /\ got = <<>> /\ need = HeadLen
    /\ request = NoRequest /\ tries = 0 /\ asked = {}

Next == Reader \/ Answer \/ Replace
Spec == Init /\ [][Next]_vars

(* The thread runs, and a GET is answered or breaks off; which of the two  *)
(* nobody promises.                                                        *)
FairSpec == Spec /\ WF_vars(Reader) /\ WF_vars(Answer)

-----------------------------------------------------------------------------
(* Properties.                                                             *)

\* What the first fill may ask for.
HeadLimit == IF backend.window # 0 THEN backend.window ELSE backend.buffer

(* The body is never downloaded: of an object that is not replaced, the    *)
(* GETs ask for nothing between the header window and the summary, however *)
(* large the buffer (s3_storage.py:7-12).                                  *)
BodySpared ==
    (writes = 0 /\ object # Gone /\ Start[object] # 0) =>
        asked \subseteq 0..(HeadLimit - 1) \cup Start[object]..(size - 1)

(* A sound object that is not replaced is read, whatever its size has to   *)
(* do with the window and the buffer: it is given up only after a          *)
(* permanent answer or as many transient ones as retry_with allows         *)
(* (retry.py:31-38), and what was read is its summary, byte for byte.      *)
SoundIsRead ==
    (writes = 0 /\ Start[object] # 0) =>
        /\ parse # "garbage"
        /\ parse = "exhausted" => tries = Attempts
        /\ parse = "done" => OneOf(object, Start[object]) /\ Len(got) = size - Start[object]

(* A read ends, though no GET ever succeeds: one flaky object cannot wedge *)
(* the reconcile (retry.py:3).                                             *)
ReadEnds == <>(parse \in Ended)
=============================================================================
