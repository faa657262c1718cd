---------------------------- MODULE TopicCounts -----------------------------
(***************************************************************************)
(* files.topic_counts: the messages per topic of a file as one blob of     *)
(* unsigned LEB128 varints (varint.py), in the order of the topic ids.     *)
(* The reader tells from the topic set which number is whose.              *)
(***************************************************************************)
EXTENDS Naturals, Sequences, SequencesExt, FiniteSets

Continues == 128    \* the high bit: more bytes follow

EncodeVarint[n \in Nat] ==
    IF n < Continues THEN <<n>>
    ELSE <<Continues + (n % Continues)>> \o EncodeVarint[n \div Continues]

EncodeCounts(counts) == FlattenSeq([i \in DOMAIN counts |-> EncodeVarint[counts[i]]])

\* Whole numbers so far, the one being read, and what its next bit group counts for.
NoBytes == [counts |-> <<>>, value |-> 0, unit |-> 1]
NextByte(read, byte) ==
    IF byte < Continues
    THEN [counts |-> Append(read.counts, read.value + byte * read.unit), value |-> 0, unit |-> 1]
    ELSE [counts |-> read.counts, value |-> read.value + (byte - Continues) * read.unit,
          unit |-> read.unit * Continues]

DecodeCounts(blob) == FoldLeft(NextByte, NoBytes, blob).counts

\* A set of ids in ascending order.
Ascending(ids) ==
    CHOOSE s \in [1..Cardinality(ids) -> ids] : \A i, j \in DOMAIN s : i < j => s[i] < s[j]

\* Mutant: the largest id first.
BlobDescending(totals) ==
    LET ids == Reverse(Ascending(DOMAIN totals))
    IN  EncodeCounts([i \in DOMAIN ids |-> totals[ids[i]]])
\* The blob of a function from topic ids to counts.
Blob(totals) ==
    LET ids == Ascending(DOMAIN totals)
    IN  EncodeCounts([i \in DOMAIN ids |-> totals[ids[i]]])
=============================================================================
