------------------------------ MODULE VpdParser ------------------------------
(***************************************************************************)
(* How src/src/nvlink.rs tells a management NIC: it looks for the SW_MNG   *)
(* marker in the vital product data (VPD) of a Mellanox function, a file   *)
(* whose bytes come from the device and may be anything.  A VPD is a list  *)
(* of resources, each with a tag and a length, closed by an end tag; a     *)
(* read-only or read-write resource is a list of keywords, each with a     *)
(* length and a value; the marker is a field of the value of keyword VA.   *)
(*                                                                         *)
(* Positions count from 1, and an end is one past the last byte.           *)
(***************************************************************************)
EXTENDS Integers, Sequences

CONSTANTS
  Files,    \* what the files may hold, as sequences of bytes
  NoFile,   \* the function has no VPD
  MaxVpd,   \* MAX_VPD
  Marker    \* "SMDL=SW_MNG", as bytes

Byte == 0 .. 255
END == 120          \* VPD_END
ReadOnly == 144     \* VPD_READ_ONLY
ReadWrite == 145    \* VPD_READ_WRITE
VA == <<86, 65>>
Colon == 58

ASSUME VpdAssumption ==
  /\ Files \subseteq Seq(Byte)
  /\ NoFile \notin Files
  /\ MaxVpd \in Nat
  /\ Marker \in Seq(Byte)

VARIABLES
  file,     \* the file
  data,     \* what was read of it
  pc,       \* "open", "resources", "keywords" or "done"
  pos,      \* where the rest of `data` begins
  at, stop, \* where the rest of `keywords` begins and ends
  found,
  result    \* "none", "error", TRUE or FALSE, as a string

vars == <<file, data, pc, pos, at, stop, found, result>>

Init ==
  /\ file \in Files \cup {NoFile}
  /\ data = <<>> /\ pc = "open"
  /\ pos = 1 /\ at = 1 /\ stop = 1
  /\ found = FALSE /\ result = "none"

Return(r) ==
  /\ pc' = "done" /\ result' = r
  /\ UNCHANGED <<file, pos, at, stop, found>>

Answer(b) == IF b THEN "marked" ELSE "unmarked"

-----------------------------------------------------------------------------
(* read_sw_mng.                                                            *)

\* Without a VPD there is no marker; any other failure is an error.
OpenFails ==
  /\ pc = "open"
  /\ \/ file = NoFile /\ Return("unmarked")
     \/ file # NoFile /\ Return("error")
  /\ UNCHANGED data

Open ==
  /\ pc = "open" /\ file # NoFile
  /\ data' = SubSeq(file, 1, IF Len(file) <= MaxVpd THEN Len(file) ELSE MaxVpd + 1)
  /\ IF Len(data') > MaxVpd
     THEN Return("error")
     ELSE pc' = "resources" /\ UNCHANGED <<file, pos, at, stop, found, result>>

-----------------------------------------------------------------------------
(* The resources, of which the one at p is the next.                       *)

Large(p) == data[p] >= 128

\* Where a resource's payload begins, and how long its tag says it is.
Payload(p) == IF Large(p) THEN p + 3 ELSE p + 1
Length(p) == IF Large(p) THEN data[p + 1] + 256 * data[p + 2] ELSE data[p] % 8
After(p) == Payload(p) + Length(p)

Inside(end) == end <= Len(data) + 1

\* Mutant: a length that leads out of the data is believed.
FitsUnchecked(p) == Inside(Payload(p))

\* The length is there, and what it promises.
Fits(p) == Inside(Payload(p)) /\ Inside(After(p))

\* Out of data, or out of step with it.
ResourcesFail ==
  /\ pc = "resources"
  /\ ~(pos <= Len(data) /\ (data[pos] = END \/ Fits(pos)))
  /\ Return("error")
  /\ UNCHANGED data

EndTag ==
  /\ pc = "resources" /\ pos <= Len(data) /\ data[pos] = END
  /\ Return(Answer(found))
  /\ UNCHANGED data

HasKeywords(p) == data[p] \in {ReadOnly, ReadWrite}

SkipResource ==
  /\ pc = "resources" /\ pos <= Len(data) /\ data[pos] # END /\ Fits(pos)
  /\ ~HasKeywords(pos)
  /\ pos' = After(pos)
  /\ UNCHANGED <<file, data, pc, at, stop, found, result>>

OpenResource ==
  /\ pc = "resources" /\ pos <= Len(data) /\ data[pos] # END /\ Fits(pos)
  /\ HasKeywords(pos)
  /\ pc' = "keywords" /\ at' = Payload(pos) /\ stop' = After(pos)
  /\ UNCHANGED <<file, data, pos, found, result>>

-----------------------------------------------------------------------------
(* The keywords of the resource, of which the one at k is the next.        *)

\* Mutant: the header is not passed over with its value.
KeywordEndShort(k) == k + data[k + 2]

KeywordEnd(k) == k + 3 + data[k + 2]

KeywordFits(k, end) == k + 3 <= end /\ KeywordEnd(k) <= end

KeywordFails ==
  /\ pc = "keywords" /\ at < stop /\ ~KeywordFits(at, stop)
  /\ Return("error")
  /\ UNCHANGED data

\* The bytes from `from` up to `end` are a field between colons, or ends.
FieldOf(from, end, i, j) ==
  /\ from <= i /\ i <= j /\ j <= end
  /\ i = from \/ data[i - 1] = Colon
  /\ j = end \/ data[j] = Colon
  /\ \A n \in i .. j - 1 : data[n] # Colon

HasField(from, end) ==
  \E i \in from .. end :
    /\ FieldOf(from, end, i, i + Len(Marker))
    /\ SubSeq(data, i, i + Len(Marker) - 1) = Marker

Marks(k) == SubSeq(data, k, k + 1) = VA /\ HasField(k + 3, KeywordEnd(k))

\* Mutant: the marker counts wherever it is, in a serial number too.
KeywordAnywhere ==
  /\ pc = "keywords" /\ at < stop /\ KeywordFits(at, stop)
  /\ found' = (found \/ HasField(at + 3, KeywordEnd(at)))
  /\ at' = KeywordEnd(at)
  /\ UNCHANGED <<file, data, pc, pos, stop, result>>

Keyword ==
  /\ pc = "keywords" /\ at < stop /\ KeywordFits(at, stop)
  /\ found' = (found \/ Marks(at))
  /\ at' = KeywordEnd(at)
  /\ UNCHANGED <<file, data, pc, pos, stop, result>>

EndKeywords ==
  /\ pc = "keywords" /\ at >= stop
  /\ pc' = "resources" /\ pos' = stop
  /\ UNCHANGED <<file, data, at, stop, found, result>>

Next ==
  \/ OpenFails \/ Open
  \/ ResourcesFail \/ EndTag \/ SkipResource \/ OpenResource
  \/ KeywordFails \/ Keyword \/ EndKeywords

Spec == Init /\ [][Next]_vars

\* A thread that runs keeps running.
FairSpec == Spec /\ WF_vars(Next)

-----------------------------------------------------------------------------
(* What a VPD says, by recursion over where its parts begin.               *)

Positions == 1 .. Len(data) + 1

\* What is reached from each position when `next` leads from one to another,
\* and to 0 where there is no other.
Reached(next) ==
  LET from[p \in Positions] ==
        IF next[p] \in Positions THEN {p} \cup from[next[p]] ELSE {p}
  IN from

ResourceAfter ==
  [p \in Positions |->
     IF p <= Len(data) /\ data[p] # END /\ Fits(p) THEN After(p) ELSE 0]

KeywordAfter(end) ==
  [k \in Positions |-> IF k < end /\ KeywordFits(k, end) THEN KeywordEnd(k) ELSE 0]

Resources == Reached(ResourceAfter)[1]
Keyworded == {p \in Resources : p <= Len(data) /\ HasKeywords(p) /\ Fits(p)}
KeywordsOf(p) == Reached(KeywordAfter(After(p)))[Payload(p)]

WellFormed ==
  /\ \E p \in Resources : p <= Len(data) /\ data[p] = END
  /\ \A p \in Keyworded : After(p) \in KeywordsOf(p)

SaysMarked ==
  \E p \in Keyworded : \E k \in KeywordsOf(p) : k < After(p) /\ Marks(k)

\* "Raw substring matching can mistake serial numbers for a management role"
\* (src/src/nvlink.rs:141): the answer is yes exactly for a VPD that is well
\* formed to its end and has the marker as a field of a VA keyword, and only a
\* malformed one, or one that cannot be read, gets no answer.
AnswerIsRight ==
  pc = "done" /\ file # NoFile /\ Len(data) <= MaxVpd =>
    result = IF WellFormed THEN Answer(SaysMarked) ELSE "error"

\* No byte outside the data is ever asked for, whatever lengths the device
\* gives: every slice the parser takes exists, so that it does not panic.
InBounds ==
  /\ pos \in 1 .. Len(data) + 1
  /\ pc = "keywords" => pos < at /\ at <= stop /\ Inside(stop)

\* The parser comes to an end on every file, also one whose lengths are zero.
Terminates == <>(pc = "done")

\* The measure behind it: every step leaves less to do.
Left == 2 * Len(data) + IF pc = "keywords" THEN 1 - 2 * at ELSE -2 * pos
=============================================================================
