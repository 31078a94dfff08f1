---------------------------- MODULE ParserProofs ----------------------------
(***************************************************************************)
(* Proofs about the two parsers of text and bytes from outside the program.*)
(* VpdParser, for files of any bytes and any length: the parser stays      *)
(* inside the data, every step leaves less to do, and the answer is that of*)
(* the VPD.  PciIds, for any IDs and files of any length: what is built    *)
(* from the file has every line where it belongs, found by those who look  *)
(* it up, and nothing elsewhere.  Where an argument goes along the data it *)
(* takes the first counterexample there would be (LeastOne).               *)
(***************************************************************************)
EXTENDS VpdParser, PciIds, SequenceTheorems, WellFoundedInduction, TLAPS

\* A non-empty set of places has a first one.
LEMMA LeastOne ==
  ASSUME NEW T, T \subseteq Nat, T # {}
  PROVE  \E x \in T : \A y \in T : x <= y
  <1>1. \E x \in T : \A y \in T : ~(<<y, x>> \in OpToRel(<, Nat))
    BY WFMin, NatLessThanWellFounded, Zenon
  <1>2. PICK x \in T : \A y \in T : ~(<<y, x>> \in OpToRel(<, Nat))
    BY <1>1
  <1>3. \A y \in T : ~(y < x)
    BY <1>2, Zenon DEF OpToRel
  <1> QED BY <1>3

-----------------------------------------------------------------------------
(* VpdParser.                                                              *)

TypeOK ==
  /\ file \in Files \cup {NoFile}
  /\ data \in Seq(Byte)
  /\ pc \in {"open", "resources", "keywords", "done"}
  /\ pos \in Nat /\ at \in Nat /\ stop \in Nat

Unread == pc = "open" => pos = 1

Inv == TypeOK /\ Unread /\ InBounds

\* What the data are made of.
LEMMA ByteOfData ==
  ASSUME data \in Seq(Byte), NEW i \in 1 .. Len(data)
  PROVE  data[i] \in Nat
<1>1. data[i] \in Byte
  OBVIOUS
<1>2. \A b \in Byte : b \in Nat
  BY DEF Byte
<1> QED
  BY <1>1, <1>2

\* The length of a resource and its end are numbers, and its end is after it.
LEMMA ResourceEnds ==
  ASSUME data \in Seq(Byte), NEW p \in 1 .. Len(data), Fits(p)
  PROVE  Payload(p) \in Nat /\ After(p) \in Nat /\ p < Payload(p) /\ Payload(p) <= After(p)
<1>1. data[p] \in Nat
  BY ByteOfData
<1>2. Payload(p) \in Nat /\ p < Payload(p) /\ Payload(p) <= Len(data) + 1
  BY <1>1 DEF Payload, Fits, Inside
<1>3. CASE Large(p)
  <2>1. p + 1 \in 1 .. Len(data) /\ p + 2 \in 1 .. Len(data)
    BY <1>2, <1>3 DEF Payload
  <2>2. data[p + 1] \in Nat /\ data[p + 2] \in Nat
    BY <2>1, ByteOfData
  <2>3. Length(p) \in Nat
    BY <1>3, <2>2 DEF Length
  <2> QED
    BY <1>2, <2>3 DEF After
<1>4. CASE ~Large(p)
  <2>1. Length(p) \in Nat
    BY <1>1, <1>4 DEF Length
  <2> QED
    BY <1>2, <2>1 DEF After
<1> QED
  BY <1>3, <1>4

\* A keyword that fits ends after it begins, and inside its resource.
LEMMA KeywordEnds ==
  ASSUME data \in Seq(Byte), NEW k \in Nat \ {0}, NEW end \in Nat, Inside(end),
         KeywordFits(k, end)
  PROVE  KeywordEnd(k) \in Nat /\ k < KeywordEnd(k) /\ KeywordEnd(k) <= end
<1>1. k + 2 \in 1 .. Len(data)
  BY DEF KeywordFits, Inside
<1>2. data[k + 2] \in Nat
  BY <1>1, ByteOfData
<1>3. KeywordEnd(k) \in Nat /\ k < KeywordEnd(k)
  BY <1>2 DEF KeywordEnd
<1> QED
  BY <1>3 DEF KeywordFits

\* Init establishes the invariant.
LEMMA InitInv == Init => Inv
BY DEF Init, Inv, TypeOK, Unread, InBounds, Byte

\* Every step preserves it: one case per action.
LEMMA StepInv == Inv /\ [Next]_vars => Inv'
<1> SUFFICES ASSUME Inv, [Next]_vars
             PROVE  Inv'
  OBVIOUS
<1> USE DEF Inv, TypeOK, Unread, InBounds
<1>1. CASE OpenFails
  BY <1>1 DEF OpenFails, Return, Inside
<1>2. CASE Open
  <2> DEFINE n == IF Len(file) <= MaxVpd THEN Len(file) ELSE MaxVpd + 1
  <2>1. file \in Seq(Byte) /\ pos = 1
    BY <1>2, VpdAssumption DEF Open
  <2>2. n \in Nat /\ n <= Len(file)
    BY <2>1, VpdAssumption
  <2>3. \A i \in 1 .. n : file[i] \in Byte
    BY <2>1, <2>2
  <2>4. SubSeq(file, 1, n) \in Seq(Byte)
    BY <2>2, <2>3, SubSeqProperties
  <2>5. data' \in Seq(Byte)
    BY <1>2, <2>4 DEF Open
  <2> QED
    BY <1>2, <2>1, <2>5 DEF Open, Return
<1>3. CASE ResourcesFail
  BY <1>3 DEF ResourcesFail, Return, Inside
<1>4. CASE EndTag
  BY <1>4 DEF EndTag, Return, Inside
<1>5. CASE SkipResource
  <2>1. After(pos) \in Nat /\ pos < After(pos)
    BY <1>5, ResourceEnds DEF SkipResource
  <2> QED
    BY <1>5, <2>1 DEF SkipResource, Fits, Inside
<1>6. CASE OpenResource
  <2>1. /\ Payload(pos) \in Nat /\ After(pos) \in Nat
        /\ pos < Payload(pos) /\ Payload(pos) <= After(pos)
    BY <1>6, ResourceEnds DEF OpenResource
  <2> QED
    BY <1>6, <2>1 DEF OpenResource, Fits, Inside
<1>7. CASE KeywordFails
  BY <1>7 DEF KeywordFails, Return, Inside
<1>8. CASE Keyword
  <2>1. KeywordEnd(at) \in Nat /\ at < KeywordEnd(at) /\ KeywordEnd(at) <= stop
    BY <1>8, KeywordEnds DEF Keyword
  <2> QED
    BY <1>8, <2>1 DEF Keyword, Inside
<1>9. CASE EndKeywords
  BY <1>9 DEF EndKeywords, Inside
<1>10. CASE UNCHANGED vars
  BY <1>10 DEF vars, Inside
<1> QED
  BY <1>1, <1>2, <1>3, <1>4, <1>5, <1>6, <1>7, <1>8, <1>9, <1>10 DEF Next

\* Whatever a file holds, the parser asks for no byte outside what was read of
\* it: every slice vpd_sw_mng takes exists.
THEOREM NeverOutOfBounds == Spec => []InBounds
<1>1. Inv => InBounds
  BY DEF Inv
<1> QED
  BY InitInv, StepInv, <1>1, PTL DEF Spec

\* Every step of vpd_sw_mng that is not its last leaves less to do, by a
\* measure that is never negative: it ends on every file, of any length.
THEOREM LessToDo ==
  ASSUME Inv, Next, pc # "open", pc' # "done"
  PROVE  Left' \in Int /\ Left' < Left /\ Left >= -2
<1> USE DEF Inv, TypeOK, InBounds, Left
<1>1. CASE SkipResource
  <2>1. After(pos) \in Nat /\ pos < After(pos)
    BY <1>1, ResourceEnds DEF SkipResource
  <2> QED
    BY <1>1, <2>1 DEF SkipResource
<1>2. CASE OpenResource
  <2>1. Payload(pos) \in Nat /\ pos < Payload(pos)
    BY <1>2, ResourceEnds DEF OpenResource
  <2> QED
    BY <1>2, <2>1 DEF OpenResource
<1>3. CASE Keyword
  <2>1. KeywordEnd(at) \in Nat /\ at < KeywordEnd(at)
    BY <1>3, KeywordEnds DEF Keyword
  <2> QED
    BY <1>3, <2>1 DEF Keyword, Inside
<1>4. CASE EndKeywords
  BY <1>4 DEF EndKeywords, Inside
<1>5. CASE ResourcesFail \/ EndTag \/ KeywordFails \/ OpenFails \/ Open
  BY <1>5 DEF ResourcesFail, EndTag, KeywordFails, OpenFails, Open, Return
<1> QED
  BY <1>1, <1>2, <1>3, <1>4, <1>5 DEF Next

\* S is left by no step of `next`.
Closed(S, next) == \A p \in S : next[p] \in Positions => next[p] \in S

\* The recursion of Reached has a solution, whatever `next` is: from p are
\* reached the positions that no closed set with p in it leaves out.
LEMMA ReachedUnfolds ==
  ASSUME NEW next, NEW p \in Positions
  PROVE  Reached(next)[p] =
           IF next[p] \in Positions THEN {p} \cup Reached(next)[next[p]] ELSE {p}
<1> DEFINE Step(f) == [q \in Positions |->
                         IF next[q] \in Positions THEN {q} \cup f[next[q]] ELSE {q}]
           Holds(q, r) == \A S \in SUBSET Positions : q \in S /\ Closed(S, next) => r \in S
           least == [q \in Positions |-> {r \in Positions : Holds(q, r)}]
<1>1. ASSUME NEW q \in Positions, NEW r \in Positions, next[q] \in Positions
      PROVE  Holds(q, r) <=> r = q \/ Holds(next[q], r)
  <2>1. ASSUME Holds(q, r), r # q PROVE Holds(next[q], r)
    <3> SUFFICES ASSUME NEW S \in SUBSET Positions, next[q] \in S, Closed(S, next)
                 PROVE  r \in S
      OBVIOUS
    <3>1. Closed(S \cup {q}, next)
      BY DEF Closed
    <3>2. r \in S \cup {q}
      BY <2>1, <3>1
    <3> QED BY <2>1, <3>2
  <2>2. ASSUME Holds(next[q], r) PROVE Holds(q, r)
    <3> SUFFICES ASSUME NEW S \in SUBSET Positions, q \in S, Closed(S, next)
                 PROVE  r \in S
      OBVIOUS
    <3>1. next[q] \in S
      BY <1>1 DEF Closed
    <3> QED BY <2>2, <3>1
  <2> QED BY <2>1, <2>2
<1>2. ASSUME NEW q \in Positions, NEW r \in Positions, next[q] \notin Positions
      PROVE  Holds(q, r) <=> r = q
  <2>1. Closed({q}, next)
    BY <1>2 DEF Closed
  <2> QED BY <2>1
<1>3. ASSUME NEW q \in Positions
      PROVE  least[q] = IF next[q] \in Positions THEN {q} \cup least[next[q]] ELSE {q}
  <2>0. least[q] = {r \in Positions : Holds(q, r)}
    OBVIOUS
  <2> HIDE DEF Holds
  <2>1. CASE next[q] \in Positions
    <3>1. least[next[q]] = {r \in Positions : Holds(next[q], r)}
      BY <2>1
    <3> HIDE DEF least
    <3> QED BY <1>1, <2>0, <2>1, <3>1
  <2>2. CASE next[q] \notin Positions
    <3> HIDE DEF least
    <3> QED BY <1>2, <2>0, <2>2
  <2> QED BY <2>1, <2>2
<1>4. least = Step(least)
  <2> HIDE DEF Holds
  <2> QED BY <1>3
<1>5. Reached(next) = CHOOSE f : f = Step(f)
  BY Zenon DEF Reached
<1>6. Reached(next) = Step(Reached(next))
  <2> HIDE DEF Step, least
  <2> QED BY <1>4, <1>5
<1> QED BY <1>6

\* What is reached from p begins at p, or after it if `next` leads ahead.
LEMMA ReachedAhead ==
  ASSUME data \in Seq(Byte), NEW next,
         \A q \in Positions : next[q] \in Positions => q < next[q],
         NEW p \in Positions, NEW r \in Reached(next)[p]
  PROVE  r \in Positions /\ p <= r
<1> DEFINE n == Len(data) + 1
           Good(q) == \A s \in Reached(next)[q] : s \in Positions /\ q <= s
           T == {n - q : q \in {q \in Positions : ~Good(q)}}
<1>0. n \in Nat /\ Positions = 1 .. n
  BY DEF Positions
<1>1. SUFFICES Good(p)
  OBVIOUS
<1>2. SUFFICES ASSUME ~Good(p) PROVE FALSE
  OBVIOUS
<1>3. T \subseteq Nat /\ T # {}
  <2> HIDE DEF Good, n
  <2> QED BY <1>0, <1>2
<1>4. PICK x \in T : \A y \in T : x <= y
  <2> HIDE DEF T
  <2> QED BY <1>3, LeastOne
<1>5. PICK q \in Positions : ~Good(q) /\ x = n - q
  <2> HIDE DEF Good, n
  <2> QED BY <1>4
<1>6. \A s \in Positions : q < s => Good(s)
  <2> SUFFICES ASSUME NEW s \in Positions, q < s, ~Good(s) PROVE FALSE
    OBVIOUS
  <2>1. n - s \in T
    OBVIOUS
  <2>2. n - q <= n - s
    BY <1>4, <1>5, <2>1
  <2> HIDE DEF n
  <2> QED BY <1>0, <2>2
<1>7. CASE next[q] \in Positions
  <2>1. q < next[q] /\ Good(next[q])
    <3> HIDE DEF Good
    <3> QED BY <1>6, <1>7
  <2>2. Reached(next)[q] = {q} \cup Reached(next)[next[q]]
    BY <1>7, ReachedUnfolds
  <2>3. Good(q)
    BY <1>0, <1>7, <2>1, <2>2
  <2> QED BY <1>5, <2>3
<1>8. CASE next[q] \notin Positions
  <2>1. Reached(next)[q] = {q}
    BY <1>8, ReachedUnfolds
  <2>2. Good(q)
    BY <1>0, <2>1
  <2> QED BY <1>5, <2>2
<1> QED BY <1>7, <1>8

\* How the resources go on.
LEMMA ResourcesUnfold ==
  ASSUME data \in Seq(Byte), NEW p \in Positions
  PROVE  /\ p \in Reached(ResourceAfter)[p]
         /\ p <= Len(data) /\ data[p] # END /\ Fits(p) =>
              /\ After(p) \in Positions
              /\ Reached(ResourceAfter)[p] = {p} \cup Reached(ResourceAfter)[After(p)]
              /\ \A q \in Reached(ResourceAfter)[After(p)] : After(p) <= q
         /\ ~(p <= Len(data) /\ data[p] # END /\ Fits(p)) => Reached(ResourceAfter)[p] = {p}
         /\ Reached(ResourceAfter)[p] \subseteq Positions
<1>0. Len(data) \in Nat /\ 0 \notin Positions
  BY DEF Positions
<1>1. ASSUME NEW q \in Positions, q <= Len(data), Fits(q)
      PROVE  After(q) \in Positions /\ q < After(q)
  BY <1>0, <1>1, ResourceEnds DEF Positions, Fits, Inside
<1>2. \A q \in Positions : ResourceAfter[q] \in Positions => q < ResourceAfter[q]
  BY <1>0, <1>1 DEF ResourceAfter
<1>3. ResourceAfter[p] = IF p <= Len(data) /\ data[p] # END /\ Fits(p) THEN After(p) ELSE 0
  BY DEF ResourceAfter
<1>4. /\ Reached(ResourceAfter)[p] =
           IF ResourceAfter[p] \in Positions
           THEN {p} \cup Reached(ResourceAfter)[ResourceAfter[p]] ELSE {p}
      /\ \A q \in Reached(ResourceAfter)[p] : q \in Positions
  BY <1>2, ReachedUnfolds, ReachedAhead
<1>5. ASSUME After(p) \in Positions
      PROVE  \A q \in Reached(ResourceAfter)[After(p)] : After(p) <= q
  BY <1>2, <1>5, ReachedAhead
<1> QED BY <1>0, <1>1, <1>3, <1>4, <1>5

\* How the keywords of a resource that ends at `end` go on.
LEMMA KeywordsUnfold ==
  ASSUME data \in Seq(Byte), NEW end \in Positions, NEW k \in Positions
  PROVE  /\ k \in Reached(KeywordAfter(end))[k]
         /\ k < end /\ KeywordFits(k, end) =>
              /\ KeywordEnd(k) \in Positions
              /\ Reached(KeywordAfter(end))[k] =
                   {k} \cup Reached(KeywordAfter(end))[KeywordEnd(k)]
              /\ \A q \in Reached(KeywordAfter(end))[KeywordEnd(k)] : KeywordEnd(k) <= q
         /\ ~(k < end /\ KeywordFits(k, end)) => Reached(KeywordAfter(end))[k] = {k}
         /\ \A q \in Reached(KeywordAfter(end))[k] : q \in Positions /\ k <= q
<1>0. Len(data) \in Nat /\ 0 \notin Positions
  BY DEF Positions
<1>1. ASSUME NEW q \in Positions, KeywordFits(q, end)
      PROVE  KeywordEnd(q) \in Positions /\ q < KeywordEnd(q)
  BY <1>0, <1>1, KeywordEnds DEF Positions, Inside
<1>2. \A q \in Positions : KeywordAfter(end)[q] \in Positions => q < KeywordAfter(end)[q]
  BY <1>0, <1>1 DEF KeywordAfter
<1>3. KeywordAfter(end)[k] = IF k < end /\ KeywordFits(k, end) THEN KeywordEnd(k) ELSE 0
  BY DEF KeywordAfter
<1>4. /\ Reached(KeywordAfter(end))[k] =
           IF KeywordAfter(end)[k] \in Positions
           THEN {k} \cup Reached(KeywordAfter(end))[KeywordAfter(end)[k]] ELSE {k}
      /\ \A q \in Reached(KeywordAfter(end))[k] : q \in Positions /\ k <= q
  BY <1>2, ReachedUnfolds, ReachedAhead
<1>5. ASSUME KeywordEnd(k) \in Positions
      PROVE  \A q \in Reached(KeywordAfter(end))[KeywordEnd(k)] : KeywordEnd(k) <= q
  BY <1>2, <1>5, ReachedAhead
<1> QED BY <1>0, <1>1, <1>3, <1>4, <1>5

\* The resources from each position on, and the keywords of the open resource.
ResourceRest == Reached(ResourceAfter)
KeywordRest == Reached(KeywordAfter(stop))
Opened == KeywordRest[Payload(pos)]

\* The resources the parser passes over without an error,
Complete ==
  {p \in Resources : /\ p <= Len(data) /\ data[p] # END
                     /\ HasKeywords(p) => After(p) \in KeywordsOf(p)}

\* those that have the marker, and where the keywords are that are it.
MarkedOnes == {p \in Keyworded : \E k \in KeywordsOf(p) : k < After(p) /\ Marks(k)}
Marking == {k \in Positions : Marks(k)}

\* A resource of the VPD is yet to come, or was passed over.
ResourcesRead ==
  pc \in {"resources", "keywords"} =>
    /\ Len(data) <= MaxVpd
    /\ ResourceRest[pos] \subseteq Resources
    /\ \A p \in Resources : p \in ResourceRest[pos] \/ (p < pos /\ p \in Complete)

\* The marker was found if it is in what was passed over.
FoundBefore == \E p \in MarkedOnes : p < pos
FoundInResources == pc = "resources" => (found <=> FoundBefore)

\* Likewise in the resource that is open.
KeywordsRead ==
  pc = "keywords" =>
    /\ pos \in Keyworded /\ stop = After(pos)
    /\ at \in Positions /\ KeywordRest[at] \subseteq Opened
    /\ \A k \in Opened : k < at \/ k \in KeywordRest[at]
    /\ found <=> FoundBefore \/ \E k \in Opened \cap Marking : k < at

\* Before the file is read.
NothingYet == pc = "open" => data = <<>> /\ pos = 1 /\ ~found

\* The parser's invariant: an answer that was given is right, and one that is
\* being made will be.
AnswerInv ==
  Inv /\ NothingYet /\ ResourcesRead /\ FoundInResources /\ KeywordsRead /\ AnswerIsRight

\* All of it depends on the data alone, which do not change once they are read.
LEMMA SameData ==
  ASSUME data' = data
  PROVE  /\ Positions' = Positions
         /\ ResourceRest' = ResourceRest /\ Resources' = Resources
         /\ Keyworded' = Keyworded /\ Complete' = Complete
         /\ MarkedOnes' = MarkedOnes /\ Marking' = Marking
         /\ WellFormed' = WellFormed /\ SaysMarked' = SaysMarked
  BY DEF Positions, ResourceRest, Resources, Keyworded, Complete, MarkedOnes, Marking,
         WellFormed, SaysMarked, Reached, ResourceAfter, KeywordAfter, KeywordFits,
         KeywordsOf, KeywordEnd, HasKeywords, Marks, HasField, FieldOf, Fits, After,
         Payload, Length, Large, Inside

\* Nor do the keywords of a resource while it is open.
LEMMA SameResource ==
  ASSUME data' = data, stop' = stop, pos' = pos
  PROVE  KeywordRest' = KeywordRest /\ Opened' = Opened
  BY DEF KeywordRest, Opened, Reached, KeywordAfter, KeywordFits, KeywordEnd, Positions,
         Payload, Large

\* The positions of what there is.
LEMMA Within ==
  ASSUME data \in Seq(Byte)
  PROVE  /\ Resources \subseteq Positions /\ 1 \in Positions
         /\ \A p \in Keyworded :
              /\ p < Payload(p) /\ Payload(p) <= After(p)
              /\ Payload(p) \in Positions /\ After(p) \in Positions
              /\ p \in Resources /\ p \in 1 .. Len(data) /\ data[p] # END
              /\ HasKeywords(p) /\ Fits(p) /\ KeywordsOf(p) \subseteq Positions
<1>1. 1 \in Positions /\ Len(data) \in Nat
  BY DEF Positions
<1>2. Resources \subseteq Positions
  BY <1>1, ResourcesUnfold DEF Resources
<1>3. ASSUME NEW p \in Keyworded
      PROVE  /\ p < Payload(p) /\ Payload(p) <= After(p)
             /\ Payload(p) \in Positions /\ After(p) \in Positions
             /\ p \in Resources /\ p \in 1 .. Len(data) /\ data[p] # END
             /\ HasKeywords(p) /\ Fits(p) /\ KeywordsOf(p) \subseteq Positions
  <2>1. p \in Resources /\ p \in 1 .. Len(data) /\ HasKeywords(p) /\ Fits(p)
    BY <1>1, <1>2 DEF Keyworded, Positions
  <2>2. data[p] # END
    BY <2>1 DEF HasKeywords, ReadOnly, ReadWrite, END
  <2>3. /\ p < Payload(p) /\ Payload(p) <= After(p)
        /\ Payload(p) \in Positions /\ After(p) \in Positions
    BY <1>1, <2>1, ResourceEnds DEF Fits, Inside, Positions
  <2>4. KeywordsOf(p) \subseteq Positions
    BY <2>3, KeywordsUnfold DEF KeywordsOf
  <2> QED BY <2>1, <2>2, <2>3, <2>4
<1> QED BY <1>1, <1>2, <1>3

\* No resource begins before the data do.
LEMMA NoneBeforeFirst == data \in Seq(Byte) => \A p \in Resources : ~(p < 1)
BY Within DEF Positions

\* Init establishes the invariant.
LEMMA InitAnswer == Init => AnswerInv
BY InitInv DEF Init, AnswerInv, NothingYet, ResourcesRead, FoundInResources, KeywordsRead,
               AnswerIsRight

\* Every step preserves it: one case per action.
LEMMA StepAnswer == AnswerInv /\ [Next]_vars => AnswerInv'
<1> SUFFICES ASSUME AnswerInv, [Next]_vars
             PROVE  AnswerInv'
  OBVIOUS
<1>0. /\ Inv /\ data \in Seq(Byte) /\ Inv' /\ Len(data) \in Nat
      /\ NothingYet /\ ResourcesRead /\ FoundInResources /\ KeywordsRead /\ AnswerIsRight
      /\ pos \in Positions
  BY StepInv DEF AnswerInv, Inv, TypeOK, InBounds, Positions
<1>1. SUFFICES /\ NothingYet' /\ ResourcesRead' /\ FoundInResources' /\ KeywordsRead'
               /\ AnswerIsRight'
  BY <1>0 DEF AnswerInv
<1> USE DEF NothingYet
<1>2. CASE OpenFails
  <2>1. pc' = "done" /\ data' = data /\ data = <<>> /\ file' = file
    BY <1>0, <1>2 DEF OpenFails, Return
  <2>2. file = NoFile \/ result' = "error"
    BY <1>2 DEF OpenFails, Return
  <2>3. ~WellFormed
    BY <2>1, <1>0, Within DEF WellFormed, Positions
  <2> QED BY <2>1, <2>2, <2>3, SameData
          DEF ResourcesRead, FoundInResources, KeywordsRead, AnswerIsRight
<1>3. CASE Open
  <2>1. CASE Len(data') > MaxVpd
    BY <1>3, <2>1, VpdAssumption
       DEF Open, Return, ResourcesRead, FoundInResources, KeywordsRead, AnswerIsRight
  <2>2. CASE ~(Len(data') > MaxVpd)
    <3>1. pc' = "resources" /\ pos' = 1 /\ ~found'
      BY <1>0, <1>3, <2>2 DEF Open
    <3>2. (data \in Seq(Byte))'
      BY <1>0 DEF Inv, TypeOK
    <3>3. ResourceRest[pos]' = Resources'
      BY <3>1 DEF ResourceRest, Resources
    <3>4. (\A p \in Resources : ~(p < 1))'
      BY <3>2, NoneBeforeFirst, PTL
    <3>5. ~FoundBefore'
      BY <3>1, <3>4 DEF FoundBefore, MarkedOnes, Keyworded, Positions
    <3> QED BY <3>1, <3>2, <3>3, <3>5, <2>2, VpdAssumption
            DEF ResourcesRead, FoundInResources, KeywordsRead, AnswerIsRight
  <2> QED BY <2>1, <2>2
<1>4. CASE ResourcesFail
  <2>1. /\ pc = "resources" /\ pc' = "done" /\ result' = "error" /\ data' = data
        /\ ~(pos <= Len(data) /\ (data[pos] = END \/ Fits(pos)))
    BY <1>4 DEF ResourcesFail, Return
  <2>2. ResourceRest[pos] = {pos}
    BY <1>0, <2>1, ResourcesUnfold DEF ResourceRest
  <2>3. ~WellFormed
    BY <1>0, <2>1, <2>2 DEF ResourcesRead, WellFormed, Complete
  <2> QED BY <2>1, <2>3, SameData
          DEF ResourcesRead, FoundInResources, KeywordsRead, AnswerIsRight
<1>5. CASE EndTag
  <2>1. /\ pc = "resources" /\ pc' = "done" /\ result' = Answer(found) /\ data' = data
        /\ pos <= Len(data) /\ data[pos] = END
    BY <1>5 DEF EndTag, Return
  <2>2. ResourceRest[pos] = {pos}
    BY <1>0, <2>1, ResourcesUnfold DEF ResourceRest
  <2>3. \A p \in Keyworded : p < pos /\ p \in Complete
    BY <1>0, <2>1, <2>2, Within DEF ResourcesRead
  <2>4. WellFormed
    BY <1>0, <2>1, <2>2, <2>3, Within DEF ResourcesRead, WellFormed, Complete
  <2>5. SaysMarked <=> found
    BY <1>0, <2>1, <2>3 DEF FoundInResources, FoundBefore, SaysMarked, MarkedOnes
  <2>6. Answer(SaysMarked) = Answer(found)
    BY <2>5 DEF Answer
  <2> QED BY <2>1, <2>4, <2>6, SameData
          DEF ResourcesRead, FoundInResources, KeywordsRead, AnswerIsRight, Answer
<1>6. CASE SkipResource
  <2>1. /\ pc = "resources" /\ pc' = "resources" /\ data' = data /\ found' = found
        /\ pos <= Len(data) /\ data[pos] # END /\ Fits(pos) /\ ~HasKeywords(pos)
        /\ pos' = After(pos)
    BY <1>6 DEF SkipResource
  <2>2. PICK next : next = After(pos)
    OBVIOUS
  <2>3. /\ next \in Positions /\ pos < next /\ pos \in ResourceRest[pos]
        /\ ResourceRest[pos] = {pos} \cup ResourceRest[next]
        /\ \A p \in ResourceRest[next] : next <= p
    BY <1>0, <2>1, <2>2, ResourcesUnfold, ResourceEnds DEF ResourceRest, Positions
  <2>4. pos \in Complete
    BY <1>0, <2>1, <2>3 DEF ResourcesRead, Complete
  <2>5. pos' = next /\ pos \notin MarkedOnes
    BY <1>0, <2>1, <2>2, Within DEF MarkedOnes
  <2>6. /\ ResourceRest[next] \subseteq Resources
        /\ \A p \in Resources : p \in ResourceRest[next] \/ (p < next /\ p \in Complete)
    BY <1>0, <2>1, <2>3, <2>4, Within DEF ResourcesRead, Positions
  <2>7. ResourcesRead'
    BY <1>0, <2>1, <2>5, <2>6, SameData DEF ResourcesRead
  <2>8. \A p \in MarkedOnes : p < next <=> p < pos
    BY <1>0, <2>1, <2>3, <2>5, Within DEF MarkedOnes, ResourcesRead, Positions
  <2>9. FoundInResources'
    BY <1>0, <2>1, <2>5, <2>8, SameData DEF FoundInResources, FoundBefore
  <2> QED BY <2>1, <2>7, <2>9 DEF KeywordsRead, AnswerIsRight
<1>7. CASE OpenResource
  <2>1. /\ pc = "resources" /\ pc' = "keywords" /\ data' = data /\ found' = found
        /\ pos <= Len(data) /\ data[pos] # END /\ Fits(pos) /\ HasKeywords(pos)
        /\ pos' = pos /\ at' = Payload(pos) /\ stop' = After(pos)
    BY <1>7 DEF OpenResource
  <2>2. pos \in ResourceRest[pos]
    BY <1>0, ResourcesUnfold DEF ResourceRest
  <2>3. pos \in Keyworded
    BY <1>0, <2>1, <2>2 DEF ResourcesRead, Keyworded
  <2>4. ResourcesRead'
    BY <1>0, <2>1, SameData DEF ResourcesRead
  <2>5. Payload(pos)' = Payload(pos) /\ After(pos)' = After(pos)
    BY <2>1 DEF After, Payload, Length, Large
  <2>6. Opened' = KeywordRest[at]'
    BY <2>1, <2>5 DEF Opened
  <2>7. PICK first, end : first = Payload(pos) /\ end = After(pos)
    OBVIOUS
  <2>8. \A k \in Reached(KeywordAfter(end))[first] : k \in Positions /\ first <= k
    BY <1>0, <2>3, <2>7, Within, KeywordsUnfold
  <2>9. Opened' = Reached(KeywordAfter(end))[first]
    BY <2>1, <2>7 DEF Opened, KeywordRest, Reached, KeywordAfter, KeywordFits, KeywordEnd,
                      Positions, Payload, Large
  <2>10. ~\E k \in Opened' : k < at'
    BY <1>0, <2>1, <2>3, <2>7, <2>8, <2>9, Within DEF Positions
  <2>11. found' <=> FoundBefore'
    BY <1>0, <2>1, SameData DEF FoundInResources, FoundBefore
  <2>12. KeywordsRead'
    BY <1>0, <2>1, <2>3, <2>5, <2>6, <2>10, <2>11, Within, SameData DEF KeywordsRead
  <2> QED BY <2>1, <2>4, <2>12 DEF FoundInResources, AnswerIsRight
<1>8. CASE KeywordFails
  <2>1. /\ pc = "keywords" /\ pc' = "done" /\ result' = "error" /\ data' = data
        /\ at < stop /\ ~KeywordFits(at, stop)
    BY <1>8 DEF KeywordFails, Return
  <2>2. /\ pos \in Keyworded /\ stop = After(pos) /\ stop \in Positions /\ at \in Positions
        /\ Opened = KeywordsOf(pos)
    BY <1>0, <2>1, Within DEF KeywordsRead, Opened, KeywordRest, KeywordsOf
  <2>3. KeywordRest[at] = {at}
    BY <1>0, <2>1, <2>2, KeywordsUnfold DEF KeywordRest
  <2>4. \A k \in Opened : k < at \/ k = at
    BY <1>0, <2>1, <2>3 DEF KeywordsRead
  <2>5. stop \notin Opened
    BY <1>0, <2>1, <2>2, <2>4 DEF Positions
  <2>6. ~WellFormed
    BY <2>2, <2>5 DEF WellFormed
  <2> QED BY <2>1, <2>6, SameData
          DEF ResourcesRead, FoundInResources, KeywordsRead, AnswerIsRight
<1>9. CASE Keyword
  <2>1. /\ pc = "keywords" /\ pc' = "keywords" /\ data' = data
        /\ at < stop /\ KeywordFits(at, stop)
        /\ found' = (found \/ Marks(at)) /\ at' = KeywordEnd(at)
        /\ pos' = pos /\ stop' = stop
    BY <1>9 DEF Keyword
  <2>2. /\ pos \in Keyworded /\ stop = After(pos) /\ stop \in Positions /\ at \in Positions
    BY <1>0, <2>1, Within DEF KeywordsRead
  <2>3. PICK next : next = KeywordEnd(at)
    OBVIOUS
  <2>4. /\ next \in Positions /\ at < next /\ at \in KeywordRest[at]
        /\ KeywordRest[at] = {at} \cup KeywordRest[next]
        /\ \A k \in KeywordRest[next] : next <= k
    BY <1>0, <2>1, <2>2, <2>3, KeywordsUnfold, KeywordEnds DEF KeywordRest, Positions, Inside
  <2>5. /\ KeywordRest[next] \subseteq Opened /\ at \in Opened
        /\ \A k \in Opened : k < next \/ k \in KeywordRest[next]
    <3>1. /\ KeywordRest[at] \subseteq Opened
          /\ \A k \in Opened : k < at \/ k \in KeywordRest[at]
      BY <1>0, <2>1 DEF KeywordsRead
    <3>2. Opened \subseteq Positions
      BY <1>0, <2>2, Within DEF Opened, KeywordRest, KeywordsOf
    <3>3. at \in Int /\ next \in Int /\ \A k \in Opened : k \in Int
      BY <1>0, <2>2, <2>4, <3>2 DEF Positions
    <3>4. \A k \in Opened : k < at => k < next
      BY <2>4, <3>3
    <3>5. \A k \in KeywordRest[at] : k < next \/ k \in KeywordRest[next]
      BY <2>4, <3>3
    <3> QED BY <2>4, <3>1, <3>4, <3>5
  <2>6. Opened \subseteq Positions
    BY <1>0, <2>1, <2>2, Within DEF KeywordsRead, Opened, KeywordRest, KeywordsOf
  <2>7. \A k \in Opened : k < next <=> k < at \/ k = at
    BY <1>0, <2>1, <2>2, <2>4, <2>6 DEF KeywordsRead, Positions
  <2>8. at \in Marking <=> Marks(at)
    BY <2>2 DEF Marking
  <2>9. (\E k \in Opened \cap Marking : k < next)
          <=> (\E k \in Opened \cap Marking : k < at) \/ Marks(at)
    BY <2>5, <2>7, <2>8
  <2>10. FoundBefore' <=> FoundBefore
    BY <2>1, SameData DEF FoundBefore
  <2>11. found' <=> FoundBefore' \/ \E k \in Opened \cap Marking : k < next
    BY <1>0, <2>1, <2>9, <2>10 DEF KeywordsRead
  <2>12. After(pos)' = After(pos)
    BY <2>1 DEF After, Payload, Length, Large
  <2>13. KeywordsRead'
    BY <2>1, <2>2, <2>3, <2>4, <2>5, <2>11, <2>12, SameData, SameResource DEF KeywordsRead
  <2>14. ResourcesRead'
    BY <1>0, <2>1, SameData DEF ResourcesRead
  <2> QED BY <2>1, <2>13, <2>14 DEF FoundInResources, AnswerIsRight
<1>10. CASE EndKeywords
  <2>1. /\ pc = "keywords" /\ pc' = "resources" /\ data' = data /\ found' = found
        /\ at >= stop /\ pos' = stop
    BY <1>10 DEF EndKeywords
  <2>2. /\ pos \in Keyworded /\ stop = After(pos) /\ at = stop
        /\ Opened = KeywordsOf(pos)
    BY <1>0, <2>1, Within
       DEF KeywordsRead, Opened, KeywordRest, KeywordsOf, Inv, TypeOK, InBounds
  <2>3. PICK next : next = After(pos)
    OBVIOUS
  <2>4. /\ next \in Positions /\ pos < next
        /\ pos \in 1 .. Len(data) /\ data[pos] # END /\ HasKeywords(pos) /\ Fits(pos)
    BY <1>0, <2>2, <2>3, Within DEF Positions
  <2>5. /\ pos \in ResourceRest[pos]
        /\ ResourceRest[pos] = {pos} \cup ResourceRest[next]
        /\ \A p \in ResourceRest[next] : next <= p
    BY <1>0, <2>3, <2>4, ResourcesUnfold DEF ResourceRest
  <2>6. next \in KeywordsOf(pos)
    BY <1>0, <2>1, <2>2, <2>3, <2>4, KeywordsUnfold DEF KeywordsRead, KeywordRest
  <2>7. pos \in Complete
    BY <1>0, <2>3, <2>4, <2>5, <2>6, <2>1 DEF ResourcesRead, Complete
  <2>8. /\ ResourceRest[next] \subseteq Resources
        /\ \A p \in Resources : p \in ResourceRest[next] \/ (p < next /\ p \in Complete)
    BY <1>0, <2>1, <2>4, <2>5, <2>7, Within DEF ResourcesRead, Positions
  <2>9. \A p \in MarkedOnes : p < next <=> p < pos \/ p = pos
    BY <1>0, <2>1, <2>4, <2>5, Within DEF MarkedOnes, ResourcesRead, Positions
  <2>10. pos \in MarkedOnes <=> \E k \in Opened \cap Marking : k < at
    BY <1>0, <2>2, Within DEF MarkedOnes, Marking
  <2>11. pos' = next
    BY <2>1, <2>2, <2>3
  <2>12. ResourcesRead'
    BY <1>0, <2>1, <2>8, <2>11, SameData DEF ResourcesRead
  <2>13. FoundInResources'
    BY <1>0, <2>1, <2>9, <2>10, <2>11, SameData DEF KeywordsRead, FoundInResources, FoundBefore
  <2> QED BY <2>1, <2>12, <2>13 DEF KeywordsRead, AnswerIsRight
<1>11. CASE UNCHANGED vars
  <2>1. /\ data' = data /\ stop' = stop /\ pos' = pos /\ at' = at /\ pc' = pc /\ file' = file
        /\ found' = found /\ result' = result
    BY <1>11 DEF vars
  <2>2. After(pos)' = After(pos)
    BY <2>1 DEF After, Payload, Length, Large
  <2> QED BY <1>0, <2>1, <2>2, SameData, SameResource
          DEF ResourcesRead, FoundInResources, FoundBefore, KeywordsRead, AnswerIsRight
<1> QED BY <1>2, <1>3, <1>4, <1>5, <1>6, <1>7, <1>8, <1>9, <1>10, <1>11 DEF Next

\* The parser's answer is that of the VPD, of any length and whatever is in it:
\* yes exactly if it is well formed and has the marker as a field of keyword VA.
THEOREM AnswersAreRight == Spec => []AnswerIsRight
<1>1. AnswerInv => AnswerIsRight
  BY DEF AnswerInv
<1> QED
  BY InitAnswer, StepAnswer, <1>1, PTL DEF Spec

-----------------------------------------------------------------------------
(* PciIds.                                                                 *)

SubRecord == [id : Ids, name : Nat, parent : Ids \cup {0}, leaves : SUBSET Nat]
EntryRecord == [id : Ids \cup {0}, name : Nat, subs : Seq(SubRecord)]

IdsTypeOK ==
  /\ lines \in Seq(Line)
  /\ curr \in [Tree -> EntryRecord]
  /\ currId \in [Tree -> Ids \cup {0}]
  /\ entries \in [Tree -> Seq(EntryRecord)]
  /\ phase \in {"read", "build", "built", "panicked"}

\* What is in sub s of the entry for line `top` belongs there.
FiledSub(t, top, s) ==
  /\ s.name \in DOMAIN lines
  /\ lines[s.name] = [tree |-> t, level |-> 2, id |-> s.id]
  /\ IsParent(top, s.name)
  /\ \A i \in s.leaves :
       /\ i \in DOMAIN lines /\ lines[i].tree = t /\ lines[i].level = 3
       /\ \E j \in DOMAIN lines : IsParent(j, i) /\ IsParent(top, j) /\ lines[j].id = s.id

\* What is in entry e belongs there.
Filed(t, e) ==
  /\ e.name \in DOMAIN lines
  /\ lines[e.name] = [tree |-> t, level |-> 1, id |-> e.id]
  /\ \A m \in DOMAIN e.subs : FiledSub(t, e.name, e.subs[m])

IsFirst(subs, id, m) ==
  m \in DOMAIN subs /\ subs[m].id = id /\ \A l \in 1 .. m - 1 : subs[l].id # id

\* Line i is in entry e, where a lookup finds it.
Shown(e, i) ==
  /\ e.name # 0
  /\ lines[i].level = 1 => e.name = i
  /\ lines[i].level = 2 => IsParent(e.name, i) /\ \E m \in DOMAIN e.subs : e.subs[m].name = i
  /\ lines[i].level = 3 =>
       \E j \in DOMAIN lines, m \in DOMAIN e.subs :
         /\ IsParent(j, i) /\ IsParent(e.name, j)
         /\ IsFirst(e.subs, lines[j].id, m) /\ i \in e.subs[m].leaves

\* The entry and the sub being read are those of the last lines that make one.
Last(t) ==
  /\ curr[t].name = 0 => curr[t] = NoEntry
  /\ curr[t].name # 0 =>
       /\ Filed(t, curr[t])
       /\ \A k \in curr[t].name + 1 .. Len(lines) : lines[k].tree = t => lines[k].level >= 2
       /\ curr[t].subs # <<>> =>
            LET s == curr[t].subs[Len(curr[t].subs)] IN
              /\ currId[t] = s.id
              /\ \A k \in s.name + 1 .. Len(lines) : lines[k].tree = t => lines[k].level >= 3

LastInv == \A t \in Tree : Last(t)

FiledInv ==
  \A t \in Tree : \A n \in DOMAIN entries[t] :
    /\ Filed(t, entries[t][n])
    /\ \A m \in DOMAIN entries[t][n].subs : entries[t][n].subs[m].parent = entries[t][n].id

\* Line i is in the table of tree t, or will be when the table is built.
InTable(t, i) ==
  \/ \E n \in DOMAIN entries[t] : Shown(entries[t][n], i)
  \/ phase # "built" /\ Shown(curr[t], i)

ShownInv == \A i \in DOMAIN lines : InTable(lines[i].tree, i)

IdsInv ==
  /\ IdsTypeOK
  /\ phase # "panicked" => LastInv /\ FiledInv /\ ShownInv
  /\ phase = "built" => \A t \in Tree : Unique(entries[t])

-----------------------------------------------------------------------------
(* Lemmas about the operators.                                             *)

\* `find` finds the first, wherever it is,
LEMMA FindsFirst ==
  ASSUME NEW S, NEW subs \in Seq(S), NEW id, NEW m, IsFirst(subs, id, m)
  PROVE  FirstWith(subs, id) = m /\ m # 0
  <1>1. m \in DOMAIN subs /\ subs[m].id = id /\ m \in Nat \ {0}
    BY DEF IsFirst
  <1>2. \A k : k \in DOMAIN subs /\ subs[k].id = id /\ (\A j \in 1 .. k - 1 : subs[j].id # id)
               <=> k = m
    <2>1. DOMAIN subs = 1 .. Len(subs) /\ Len(subs) \in Nat
      OBVIOUS
    <2>2. ASSUME NEW k \in DOMAIN subs, subs[k].id = id, \A j \in 1 .. k - 1 : subs[j].id # id
          PROVE  k = m
      BY <1>1, <2>1, <2>2 DEF IsFirst
    <2> QED BY <2>2 DEF IsFirst
  <1>3. \E k \in DOMAIN subs : subs[k].id = id
    BY <1>1
  <1>4. FirstWith(subs, id)
          = CHOOSE k \in DOMAIN subs : subs[k].id = id /\ \A j \in 1 .. k - 1 : subs[j].id # id
    BY <1>3, Zenon DEF FirstWith
  <1>5. \A k : (k \in DOMAIN subs /\ (subs[k].id = id /\ \A j \in 1 .. k - 1 : subs[j].id # id))
               <=> k = m
    BY <1>2, Zenon
  <1> QED BY <1>1, <1>4, <1>5

\* and finds one if there is one.
LEMMA FindsOne ==
  ASSUME NEW S, NEW subs \in Seq(S), NEW id, FirstWith(subs, id) # 0
  PROVE  IsFirst(subs, id, FirstWith(subs, id))
  <1> DEFINE T == {k \in DOMAIN subs : subs[k].id = id}
  <1>1. \E k \in DOMAIN subs : subs[k].id = id
    BY Zenon DEF FirstWith
  <1>2. T \subseteq Nat /\ T # {} /\ DOMAIN subs = 1 .. Len(subs) /\ Len(subs) \in Nat
    BY <1>1
  <1>3. PICK x \in T : \A y \in T : x <= y
    BY <1>2, LeastOne, Zenon
  <1>4. \A l \in 1 .. x - 1 : l \in DOMAIN subs /\ ~(x <= l)
    BY <1>2, <1>3
  <1>5. IsFirst(subs, id, x)
    BY <1>3, <1>4 DEF IsFirst
  <1> QED BY <1>5, FindsFirst

\* A line has one parent at most.
LEMMA OneParent ==
  ASSUME lines \in Seq(Line),
         NEW i \in DOMAIN lines, NEW j \in DOMAIN lines, NEW k \in DOMAIN lines,
         IsParent(j, i), IsParent(k, i)
  PROVE  j = k
  <1>1. /\ DOMAIN lines \subseteq Nat /\ lines[i] \in Line
    OBVIOUS
  <1>2. lines[i].level \in Nat /\ i \in Nat /\ j \in Nat /\ k \in Nat
    BY <1>1 DEF Line
  <1> QED BY <1>2 DEF IsParent

\* What was read stays where it is when another line is read.
LEMMA LinesGrow ==
  ASSUME lines \in Seq(Line), NEW x \in Line, lines' = Append(lines, x)
  PROVE  /\ lines' \in Seq(Line)
         /\ DOMAIN lines = 1 .. Len(lines) /\ Len(lines) \in Nat /\ Number = Len(lines) + 1
         /\ DOMAIN lines' = 1 .. Number /\ Len(lines') = Number
         /\ DOMAIN lines \subseteq DOMAIN lines'
         /\ \A i \in DOMAIN lines : lines'[i] = lines[i]
         /\ lines'[Number] = x
         /\ \A i, j \in DOMAIN lines : IsParent(j, i)' <=> IsParent(j, i)
  <1>1. /\ lines' \in Seq(Line)
        /\ DOMAIN lines = 1 .. Len(lines) /\ Len(lines) \in Nat /\ Number = Len(lines) + 1
        /\ DOMAIN lines' = 1 .. Number /\ Len(lines') = Number
        /\ \A i \in DOMAIN lines : lines'[i] = lines[i]
        /\ lines'[Number] = x
    BY DEF Number
  <1>2. DOMAIN lines \subseteq DOMAIN lines'
    BY <1>1
  <1>3. ASSUME NEW i \in DOMAIN lines, NEW j \in DOMAIN lines
        PROVE  IsParent(j, i)' <=> IsParent(j, i)
    <2>1. \A k \in j + 1 .. i - 1 : k \in DOMAIN lines /\ lines'[k] = lines[k]
      BY <1>1
    <2> QED BY <1>1, <2>1 DEF IsParent
  <1> QED BY <1>1, <1>2, <1>3

\* What is filed right, and where a lookup finds it, stays so.
LEMMA StaysFiled ==
  ASSUME lines \in Seq(Line), NEW x \in Line, lines' = Append(lines, x)
  PROVE  /\ \A t, s : \A top \in DOMAIN lines : FiledSub(t, top, s) => FiledSub(t, top, s)'
         /\ \A t, e : Filed(t, e) => Filed(t, e)'
         /\ \A e : \A i \in DOMAIN lines : e.name \in Nat /\ Shown(e, i) => Shown(e, i)'
  <1>0. /\ DOMAIN lines = 1 .. Len(lines) /\ Len(lines) \in Nat
        /\ DOMAIN lines \subseteq DOMAIN lines'
        /\ \A i \in DOMAIN lines : lines'[i] = lines[i]
        /\ \A i, j \in DOMAIN lines : IsParent(j, i)' <=> IsParent(j, i)
    BY LinesGrow
  <1>1. ASSUME NEW t, NEW s, NEW top \in DOMAIN lines, FiledSub(t, top, s)
        PROVE  FiledSub(t, top, s)'
    BY <1>0, <1>1 DEF FiledSub
  <1>2. ASSUME NEW t, NEW e, Filed(t, e) PROVE Filed(t, e)'
    BY <1>0, <1>1, <1>2 DEF Filed
  <1>3. ASSUME NEW e, NEW i \in DOMAIN lines, e.name \in Nat, Shown(e, i) PROVE Shown(e, i)'
    <2>1. \A j \in DOMAIN lines : IsParent(e.name, j) => e.name \in DOMAIN lines
      BY <1>0, <1>3 DEF IsParent, Shown
    <2> QED BY <1>0, <1>3, <2>1 DEF Shown
  <1> QED BY <1>1, <1>2, <1>3

\* What is filed and shown depends on nothing but the lines.
LEMMA SameLines ==
  ASSUME UNCHANGED lines
  PROVE  /\ \A t, e : Filed(t, e) => Filed(t, e)'
         /\ \A e, i : Shown(e, i) => Shown(e, i)'
  <1>1. \A i, j : IsParent(j, i)' <=> IsParent(j, i)
    BY DEF IsParent
  <1>2. ASSUME NEW t, NEW top, NEW s, FiledSub(t, top, s) PROVE FiledSub(t, top, s)'
    BY <1>1, <1>2 DEF FiledSub
  <1>3. ASSUME NEW t, NEW e, Filed(t, e) PROVE Filed(t, e)'
    BY <1>2, <1>3 DEF Filed
  <1>4. ASSUME NEW e, NEW i, Shown(e, i) PROVE Shown(e, i)'
    BY <1>1, <1>4 DEF Shown
  <1> QED BY <1>3, <1>4

\* Quoting an entry leaves what is filed in it where it is.
LEMMA QuotedKeeps ==
  ASSUME NEW e \in EntryRecord, e.id \in Ids
  PROVE  /\ Quoted(e) \in EntryRecord
         /\ Quoted(e).id = e.id /\ Quoted(e).name = e.name
         /\ DOMAIN Quoted(e).subs = DOMAIN e.subs
         /\ \A m \in DOMAIN e.subs : /\ Quoted(e).subs[m].parent = e.id
                                     /\ Quoted(e).subs[m].id = e.subs[m].id
                                     /\ Quoted(e).subs[m].name = e.subs[m].name
                                     /\ Quoted(e).subs[m].leaves = e.subs[m].leaves
  <1> DEFINE subs == [i \in DOMAIN e.subs |-> [e.subs[i] EXCEPT !.parent = e.id]]
  <1>1. e.subs \in Seq(SubRecord) /\ Len(e.subs) \in Nat /\ DOMAIN e.subs = 1 .. Len(e.subs)
    BY DEF EntryRecord
  <1>2. \A i \in DOMAIN e.subs : e.subs[i] \in SubRecord
    BY <1>1
  <1>3. \A i \in DOMAIN e.subs : /\ subs[i] \in SubRecord
                                 /\ subs[i].parent = e.id /\ subs[i].id = e.subs[i].id
                                 /\ subs[i].name = e.subs[i].name
                                 /\ subs[i].leaves = e.subs[i].leaves
    BY <1>2 DEF SubRecord
  <1>4. subs \in [1 .. Len(e.subs) -> SubRecord] /\ DOMAIN subs = DOMAIN e.subs
    BY <1>1, <1>3
  <1>5. subs \in Seq(SubRecord)
    BY <1>1, <1>4, IsASeq
  <1> HIDE DEF subs
  <1>6. Quoted(e) = [e EXCEPT !.subs = subs]
    BY DEF Quoted, subs
  <1> QED BY <1>3, <1>4, <1>5, <1>6 DEF EntryRecord

\* A quoted entry shows and files what it did.
LEMMA QuotedShows ==
  ASSUME NEW e \in EntryRecord, e.id \in Ids
  PROVE  /\ \A t : Filed(t, e) => Filed(t, Quoted(e))
         /\ \A i : Shown(e, i) => Shown(Quoted(e), i)
  <1>1. /\ Quoted(e).id = e.id /\ Quoted(e).name = e.name
        /\ DOMAIN Quoted(e).subs = DOMAIN e.subs
        /\ \A m \in DOMAIN e.subs : /\ Quoted(e).subs[m].id = e.subs[m].id
                                    /\ Quoted(e).subs[m].name = e.subs[m].name
                                    /\ Quoted(e).subs[m].leaves = e.subs[m].leaves
    BY QuotedKeeps
  <1>2. ASSUME NEW t, Filed(t, e) PROVE Filed(t, Quoted(e))
    BY <1>1, <1>2 DEF Filed, FiledSub
  <1>3. ASSUME NEW id, NEW m, IsFirst(e.subs, id, m) PROVE IsFirst(Quoted(e).subs, id, m)
    <2>1. \A l \in 1 .. m - 1 : l \in DOMAIN e.subs
      <3>1. m \in DOMAIN e.subs /\ DOMAIN e.subs = 1 .. Len(e.subs) /\ Len(e.subs) \in Nat
        BY <1>3 DEF IsFirst, EntryRecord
      <3> QED BY <3>1
    <2> QED BY <1>1, <1>3, <2>1 DEF IsFirst
  <1>4. ASSUME NEW i, Shown(e, i) PROVE Shown(Quoted(e), i)
    BY <1>1, <1>3, <1>4 DEF Shown
  <1> QED BY <1>2, <1>4

\* A filed entry has the ID of its line.
LEMMA FiledIds ==
  ASSUME lines \in Seq(Line), NEW t, NEW e, Filed(t, e)
  PROVE  e.id \in Ids
  <1>1. e.name \in DOMAIN lines /\ lines[e.name].id = e.id
    BY DEF Filed
  <1>2. lines[e.name] \in Line
    BY <1>1
  <1> QED BY <1>1, <1>2 DEF Line

\* An entry that has got more shows what it did.
LEMMA MoreShows ==
  ASSUME NEW e \in EntryRecord, NEW f, f.name = e.name,
         DOMAIN e.subs \subseteq DOMAIN f.subs,
         \A m \in DOMAIN e.subs : /\ f.subs[m].id = e.subs[m].id
                                  /\ f.subs[m].name = e.subs[m].name
                                  /\ e.subs[m].leaves \subseteq f.subs[m].leaves
  PROVE  \A i : Shown(e, i) => Shown(f, i)
  <1>1. ASSUME NEW id, NEW m, IsFirst(e.subs, id, m) PROVE IsFirst(f.subs, id, m)
    <2>1. \A l \in 1 .. m - 1 : l \in DOMAIN e.subs
      <3>1. m \in DOMAIN e.subs /\ DOMAIN e.subs = 1 .. Len(e.subs) /\ Len(e.subs) \in Nat
        BY <1>1 DEF IsFirst, EntryRecord
      <3> QED BY <3>1
    <2> QED BY <1>1, <2>1 DEF IsFirst
  <1> QED BY <1>1 DEF Shown

\* The table with the entry being read, if there is one, in it.
LEMMA FlushedHas ==
  ASSUME IdsTypeOK, LastInv, FiledInv, NEW t \in Tree
  PROVE  /\ Flushed(t) \in Seq(EntryRecord)
         /\ \A n \in DOMAIN entries[t] : n \in DOMAIN Flushed(t) /\ Flushed(t)[n] = entries[t][n]
         /\ curr[t].name # 0 => \E n \in DOMAIN Flushed(t) : Flushed(t)[n] = Quoted(curr[t])
         /\ \A n \in DOMAIN Flushed(t) :
              /\ Filed(t, Flushed(t)[n])
              /\ \A m \in DOMAIN Flushed(t)[n].subs :
                   Flushed(t)[n].subs[m].parent = Flushed(t)[n].id
  <1>0. curr[t] \in EntryRecord /\ entries[t] \in Seq(EntryRecord) /\ curr[t].name \in Nat
    BY DEF IdsTypeOK, EntryRecord
  <1>1. CASE curr[t] = NoEntry
    BY <1>0, <1>1 DEF Flushed, NoEntry, FiledInv
  <1>2. CASE curr[t] # NoEntry
    <2> DEFINE q == Quoted(curr[t])
    <2>1. Filed(t, curr[t]) /\ curr[t].name # 0
      BY <1>2 DEF LastInv, Last
    <2>2. curr[t].id \in Ids
      BY <2>1, FiledIds DEF IdsTypeOK
    <2>3. /\ q \in EntryRecord /\ q.id = curr[t].id
          /\ DOMAIN q.subs = DOMAIN curr[t].subs
          /\ \A m \in DOMAIN curr[t].subs : q.subs[m].parent = curr[t].id
      BY <1>0, <2>2, QuotedKeeps
    <2>4. Filed(t, q)
      BY <1>0, <2>1, <2>2, QuotedShows
    <2>5. Flushed(t) = Append(entries[t], q)
      BY <1>2 DEF Flushed
    <2> HIDE DEF q
    <2>6. /\ Flushed(t) \in Seq(EntryRecord)
          /\ DOMAIN Flushed(t) = 1 .. Len(entries[t]) + 1 /\ Len(entries[t]) \in Nat
          /\ DOMAIN entries[t] = 1 .. Len(entries[t])
          /\ \A n \in 1 .. Len(entries[t]) : Flushed(t)[n] = entries[t][n]
          /\ Flushed(t)[Len(entries[t]) + 1] = q
      BY <1>0, <2>3, <2>5
    <2>7. \A n \in DOMAIN Flushed(t) : n \in DOMAIN entries[t] \/ Flushed(t)[n] = q
      BY <2>6
    <2> QED BY <2>3, <2>4, <2>6, <2>7 DEF FiledInv, q
  <1> QED BY <1>1, <1>2

-----------------------------------------------------------------------------
(* The invariant.                                                          *)

LEMMA InitIdsInv == IdsInit => IdsInv
  <1> SUFFICES ASSUME IdsInit PROVE IdsInv
    OBVIOUS
  <1>1. NoEntry \in EntryRecord /\ NoEntry.name = 0
    <2>1. <<>> \in Seq(SubRecord)
      OBVIOUS
    <2> QED BY <2>1 DEF NoEntry, EntryRecord
  <1>2. <<>> \in Seq(Line) /\ <<>> \in Seq(EntryRecord) /\ DOMAIN <<>> = {}
    OBVIOUS
  <1>3. IdsTypeOK
    BY <1>1, <1>2 DEF IdsInit, IdsTypeOK
  <1>4. LastInv
    BY <1>1 DEF IdsInit, LastInv, Last
  <1>5. FiledInv /\ ShownInv
    BY <1>2 DEF IdsInit, FiledInv, ShownInv
  <1> QED BY <1>3, <1>4, <1>5 DEF IdsInv, IdsInit

\* A line that was read in one tree leaves the other as it is, so that what is
\* left to show is that it and the lines above it are in their tree.
LEMMA ReadKeeps ==
  ASSUME IdsInv, NEW t \in Tree, NEW x \in Line, NEW here,
         phase = "read", lines' = Append(lines, x), x.tree = t, here = Len(lines) + 1,
         phase' = phase, IdsTypeOK', FiledInv', Last(t)',
         \A u \in Tree \ {t} : /\ curr'[u] = curr[u] /\ currId'[u] = currId[u]
                               /\ entries'[u] = entries[u],
         \A i \in DOMAIN lines : lines[i].tree = t => InTable(t, i)',
         InTable(t, here)'
  PROVE  IdsInv'
  <1>0. lines \in Seq(Line) /\ LastInv /\ FiledInv /\ ShownInv
    BY DEF IdsInv, IdsTypeOK
  <1>1. /\ DOMAIN lines = 1 .. Len(lines) /\ Len(lines) \in Nat
        /\ DOMAIN lines' = 1 .. here /\ Len(lines') = here
        /\ \A i \in DOMAIN lines : lines'[i] = lines[i]
        /\ lines'[here] = x
    BY <1>0, LinesGrow
  <1>2. LastInv'
    <2> SUFFICES ASSUME NEW u \in Tree PROVE Last(u)'
      BY DEF LastInv
    <2>1. CASE u = t
      BY <2>1
    <2>2. CASE u # t
      <3>1. curr'[u] = curr[u] /\ currId'[u] = currId[u]
        BY <2>2
      <3>2. curr[u].name = 0 => curr[u] = NoEntry
        BY <1>0 DEF LastInv, Last
      <3>3. ASSUME curr[u].name # 0 PROVE Filed(u, curr[u])'
        <4>1. Filed(u, curr[u])
          BY <1>0, <3>3 DEF LastInv, Last
        <4> DEFINE e == curr[u]
        <4>2. \A f : Filed(u, f) => Filed(u, f)'
          BY <1>0, StaysFiled
        <4> QED BY <3>1, <4>1, <4>2
      <3>4. \A n \in Nat, m \in {2, 3} :
              (\A k \in n + 1 .. Len(lines) : lines[k].tree = u => lines[k].level >= m)
              => (\A k \in n + 1 .. here : lines'[k].tree = u => lines'[k].level >= m)
        BY <1>0, <1>1, <2>2
      <3>5. curr[u] \in EntryRecord
        BY DEF IdsInv, IdsTypeOK
      <3>6. curr[u].name \in Nat
        BY <3>5 DEF EntryRecord
      <3>7. ASSUME curr[u].name # 0
            PROVE  \A k \in curr[u].name + 1 .. here : lines'[k].tree = u => lines'[k].level >= 2
        BY <1>0, <3>4, <3>6, <3>7 DEF LastInv, Last
      <3>8. ASSUME curr[u].name # 0, curr[u].subs # <<>>
            PROVE  LET s == curr[u].subs[Len(curr[u].subs)] IN
                     /\ currId[u] = s.id
                     /\ \A k \in s.name + 1 .. here : lines'[k].tree = u => lines'[k].level >= 3
        <4> DEFINE s == curr[u].subs[Len(curr[u].subs)]
        <4>1. /\ currId[u] = s.id
              /\ \A k \in s.name + 1 .. Len(lines) : lines[k].tree = u => lines[k].level >= 3
          BY <1>0, <3>8 DEF LastInv, Last
        <4>2. s \in SubRecord
          <5>1. curr[u].subs \in Seq(SubRecord)
            BY <3>5 DEF EntryRecord
          <5> QED BY <3>8, <5>1
        <4>3. s.name \in Nat
          BY <4>2 DEF SubRecord
        <4> HIDE DEF s
        <4>4. \A k \in s.name + 1 .. here : lines'[k].tree = u => lines'[k].level >= 3
          BY <3>4, <4>1, <4>3
        <4> QED BY <4>1, <4>4 DEF s
      <3> QED BY <1>1, <3>1, <3>2, <3>3, <3>7, <3>8 DEF Last
    <2> QED BY <2>1, <2>2
  <1>3. ShownInv'
    <2> SUFFICES ASSUME NEW i \in 1 .. here PROVE InTable(lines[i].tree, i)'
      BY <1>1 DEF ShownInv
    <2>1. CASE i = here
      BY <1>0, <1>1, <2>1
    <2>2. CASE i \in DOMAIN lines /\ lines[i].tree = t
      BY <1>0, <1>1, <2>2
    <2>3. CASE i \in DOMAIN lines /\ lines[i].tree # t
      <3>0. lines[i] \in Line
        BY <1>0, <2>3
      <3>1. PICK u \in Tree \ {t} : lines[i].tree = u /\ lines'[i].tree = u
        BY <1>1, <2>3, <3>0 DEF Line
      <3>2. \A e : e.name \in Nat /\ Shown(e, i) => Shown(e, i)'
        BY <1>0, <2>3, StaysFiled
      <3>3. /\ curr[u] \in EntryRecord /\ entries[u] \in Seq(EntryRecord)
            /\ \A n \in DOMAIN entries[u] : entries[u][n] \in EntryRecord
        BY <3>1 DEF IdsInv, IdsTypeOK
      <3>4. curr[u].name \in Nat /\ \A n \in DOMAIN entries[u] : entries[u][n].name \in Nat
        BY <3>3 DEF EntryRecord
      <3>5. curr'[u] = curr[u] /\ entries'[u] = entries[u]
        BY <3>1
      <3>6. InTable(u, i)
        BY <1>0, <2>3, <3>1 DEF ShownInv
      <3>7. InTable(u, i)'
        BY <3>2, <3>4, <3>5, <3>6 DEF InTable
      <3> QED BY <3>1, <3>7
    <2> QED BY <1>1, <2>1, <2>2, <2>3
  <1> QED BY <1>0, <1>2, <1>3 DEF IdsInv

\* A new vendor or class.
LEMMA ReadTopKeeps ==
  ASSUME IdsInv, NEW t \in Tree, NEW id \in Ids, ReadTop(t, id)
  PROVE  IdsInv'
  <1> DEFINE x == [tree |-> t, level |-> 1, id |-> id]
  <1>h. PICK here : here = Len(lines) + 1
    OBVIOUS
  <1>0. /\ x \in Line /\ x.tree = t /\ x.level = 1 /\ x.id = id
        /\ lines \in Seq(Line) /\ lines' = Append(lines, x)
        /\ phase = "read" /\ phase' = phase /\ currId' = currId
        /\ LastInv /\ FiledInv /\ ShownInv /\ IdsTypeOK
    BY DEF Line, IdsInv, IdsTypeOK, ReadTop, Read
  <1>1. /\ entries' = [entries EXCEPT ![t] = Flushed(t)]
        /\ curr' = [curr EXCEPT ![t] = Entry(id, Number)]
        /\ Number = here
    BY <1>h DEF ReadTop, Number
  <1> HIDE DEF x
  <1>2. /\ DOMAIN lines = 1 .. Len(lines) /\ Len(lines) \in Nat /\ here \in Nat \ {0}
        /\ DOMAIN lines' = 1 .. here /\ Len(lines') = here
        /\ \A i \in DOMAIN lines : lines'[i] = lines[i]
        /\ lines'[here] = x /\ lines' \in Seq(Line)
    BY <1>0, <1>h, LinesGrow
  <1>3. /\ curr'[t].id = id /\ curr'[t].name = here /\ curr'[t].subs = <<>>
        /\ curr'[t] \in EntryRecord
        /\ \A u \in Tree \ {t} : curr'[u] = curr[u]
    <2>1. <<>> \in Seq(SubRecord)
      OBVIOUS
    <2>2. curr'[t] = Entry(id, here) /\ \A u \in Tree \ {t} : curr'[u] = curr[u]
      BY <1>0, <1>1 DEF IdsTypeOK
    <2> QED BY <1>2, <2>1, <2>2 DEF Entry, EntryRecord
  <1>4. /\ entries'[t] = Flushed(t) /\ \A u \in Tree \ {t} : entries'[u] = entries[u]
        /\ Flushed(t) \in Seq(EntryRecord)
        /\ \A n \in DOMAIN entries[t] : n \in DOMAIN Flushed(t) /\ Flushed(t)[n] = entries[t][n]
        /\ curr[t].name # 0 => \E n \in DOMAIN Flushed(t) : Flushed(t)[n] = Quoted(curr[t])
        /\ \A n \in DOMAIN Flushed(t) :
             /\ Filed(t, Flushed(t)[n])
             /\ \A m \in DOMAIN Flushed(t)[n].subs :
                  Flushed(t)[n].subs[m].parent = Flushed(t)[n].id
    BY <1>0, <1>1, FlushedHas DEF IdsTypeOK
  <1>5. IdsTypeOK'
    BY <1>0, <1>1, <1>2, <1>3, <1>4 DEF IdsTypeOK
  <1>6. FiledInv'
    <2> SUFFICES ASSUME NEW u \in Tree, NEW n \in DOMAIN entries'[u]
        PROVE  /\ Filed(u, entries[u][n])'
               /\ \A m \in DOMAIN entries'[u][n].subs :
                    entries'[u][n].subs[m].parent = entries'[u][n].id
      BY DEF FiledInv
    <2>1. PICK e : e = entries'[u][n]
      OBVIOUS
    <2>2. Filed(u, e) /\ \A m \in DOMAIN e.subs : e.subs[m].parent = e.id
      BY <1>0, <1>4, <2>1 DEF FiledInv
    <2>3. Filed(u, e)'
      BY <1>0, <2>2, StaysFiled
    <2> QED BY <2>1, <2>2, <2>3
  <1>7. Filed(t, curr[t])'
    <2>1. curr'[t].name \in DOMAIN lines'
      BY <1>2, <1>3
    <2>2. lines'[curr'[t].name] = [tree |-> t, level |-> 1, id |-> curr'[t].id]
      BY <1>2, <1>3 DEF x
    <2>3. DOMAIN curr'[t].subs = {}
      BY <1>3
    <2> QED BY <2>1, <2>2, <2>3 DEF Filed
  <1>8. ASSUME NEW i \in DOMAIN lines, lines[i].tree = t PROVE InTable(t, i)'
    <2>1. \A e : e.name \in Nat /\ Shown(e, i) => Shown(e, i)'
      BY <1>0, StaysFiled
    <2>2. \A n \in DOMAIN Flushed(t) : Flushed(t)[n].name \in Nat
      <3>1. \A n \in DOMAIN Flushed(t) : Flushed(t)[n] \in EntryRecord
        BY <1>4
      <3> QED BY <3>1 DEF EntryRecord
    <2>3. \E n \in DOMAIN Flushed(t) : Shown(Flushed(t)[n], i)
      <3>1. CASE \E n \in DOMAIN entries[t] : Shown(entries[t][n], i)
        BY <1>4, <3>1
      <3>2. CASE Shown(curr[t], i)
        <4>1. curr[t].name # 0 /\ Filed(t, curr[t])
          BY <1>0, <3>2 DEF Shown, LastInv, Last
        <4>2. curr[t] \in EntryRecord /\ curr[t].id \in Ids
          BY <1>0, <4>1, FiledIds DEF IdsTypeOK
        <4>3. Shown(Quoted(curr[t]), i)
          BY <3>2, <4>2, QuotedShows
        <4> QED BY <1>4, <4>1, <4>3
      <3> QED BY <1>0, <1>8, <3>1, <3>2 DEF ShownInv, InTable
    <2>4. PICK n \in DOMAIN Flushed(t) : Shown(Flushed(t)[n], i)
      BY <2>3
    <2>5. PICK e : e = entries'[t][n]
      OBVIOUS
    <2>6. Shown(e, i)'
      BY <1>4, <2>1, <2>2, <2>4, <2>5
    <2> QED BY <1>4, <2>5, <2>6 DEF InTable
  <1>9. InTable(t, here)'
    BY <1>0, <1>2, <1>3 DEF InTable, Shown
  <1>10. Last(t)'
    BY <1>2, <1>3, <1>7 DEF Last
  <1> QED BY <1>0, <1>3, <1>4, <1>5, <1>6, <1>8, <1>9, <1>10, <1>h, ReadKeeps

\* A new device or subclass, or one that belongs to nothing.
LEMMA ReadSubKeeps ==
  ASSUME IdsInv, NEW t \in Tree, NEW id \in Ids, ReadSub(t, id)
  PROVE  IdsInv'
  <1> DEFINE x == [tree |-> t, level |-> 2, id |-> id]
  <1>h. PICK here : here = Len(lines) + 1
    OBVIOUS
  <1>0. /\ x \in Line /\ x.tree = t /\ x.level = 2 /\ x.id = id
        /\ lines \in Seq(Line) /\ lines' = Append(lines, x) /\ entries' = entries
        /\ phase = "read"
        /\ LastInv /\ FiledInv /\ ShownInv /\ IdsTypeOK
    BY DEF Line, IdsInv, IdsTypeOK, ReadSub, Read
  <1>2. /\ DOMAIN lines = 1 .. Len(lines) /\ Len(lines) \in Nat /\ here \in Nat \ {0}
        /\ DOMAIN lines' = 1 .. here /\ Len(lines') = here /\ Number = here
        /\ \A i \in DOMAIN lines : lines'[i] = lines[i]
        /\ lines'[here] = x /\ lines' \in Seq(Line)
    BY <1>0, <1>h, LinesGrow
  <1>3. CASE curr[t] = NoEntry
    <2>1. phase' = "panicked" /\ UNCHANGED <<curr, currId>>
      BY <1>3 DEF ReadSub
    <2> QED BY <1>0, <1>2, <2>1 DEF IdsInv, IdsTypeOK
  <1>4. CASE curr[t] # NoEntry
    <2> DEFINE new == Sub(id, here)
    <2>1. PICK e : e = curr[t]
      OBVIOUS
    <2>2. PICK f : f = curr'[t]
      OBVIOUS
    <2>3. /\ f = [e EXCEPT !.subs = Append(e.subs, new)]
          /\ \A u \in Tree \ {t} : curr'[u] = curr[u] /\ currId'[u] = currId[u]
          /\ currId'[t] = id /\ phase' = phase
          /\ curr' = [curr EXCEPT ![t] = f] /\ currId' = [currId EXCEPT ![t] = id]
      BY <1>0, <1>2, <1>4, <2>1, <2>2 DEF ReadSub, IdsTypeOK
    <2>4. /\ new \in SubRecord /\ new.id = id /\ new.name = here /\ new.leaves = {}
      BY <1>2 DEF Sub, SubRecord
    <2> HIDE DEF new
    <2>5. e \in EntryRecord /\ e.subs \in Seq(SubRecord) /\ e.name \in Nat
      BY <1>0, <2>1 DEF IdsTypeOK, EntryRecord
    <2>6. /\ f \in EntryRecord /\ f.id = e.id /\ f.name = e.name /\ f.subs = Append(e.subs, new)
      <3>1. Append(e.subs, new) \in Seq(SubRecord)
        BY <2>4, <2>5
      <3> QED BY <2>3, <2>5, <3>1 DEF EntryRecord
    <2>7. /\ DOMAIN e.subs = 1 .. Len(e.subs) /\ Len(e.subs) \in Nat
          /\ DOMAIN f.subs = 1 .. Len(e.subs) + 1 /\ Len(f.subs) = Len(e.subs) + 1
          /\ \A m \in DOMAIN e.subs : f.subs[m] = e.subs[m]
          /\ f.subs[Len(e.subs) + 1] = new
      BY <2>4, <2>5, <2>6
    <2>8. /\ e.name # 0 /\ Filed(t, e)
          /\ \A k \in e.name + 1 .. Len(lines) : lines[k].tree = t => lines[k].level >= 2
      BY <1>0, <1>4, <2>1 DEF LastInv, Last
    <2>9. Filed(t, e)'
      BY <1>0, <2>8, StaysFiled
    <2>10. IsParent(e.name, here)'
      <3>1. e.name \in DOMAIN lines /\ lines[e.name].tree = t /\ lines[e.name].level = 1
        BY <2>8 DEF Filed
      <3> QED BY <1>0, <1>2, <2>8, <3>1 DEF IsParent
    <2>11. FiledSub(t, e.name, new)'
      BY <1>2, <2>4, <2>10 DEF FiledSub, x
    <2>12. Filed(t, f)'
      <3>1. \A m \in DOMAIN f.subs : FiledSub(t, f.name, f.subs[m])'
        BY <2>6, <2>7, <2>9, <2>11 DEF Filed
      <3> QED BY <2>6, <2>9, <3>1 DEF Filed
    <2>13. Last(t)'
      <3>1. \A k \in e.name + 1 .. here : lines'[k].tree = t => lines'[k].level >= 2
        BY <1>0, <1>2, <2>5, <2>8
      <3>2. f.subs[Len(f.subs)] = new /\ currId'[t] = new.id
            /\ \A k \in new.name + 1 .. here : lines'[k].tree = t => lines'[k].level >= 3
        BY <1>2, <2>3, <2>4, <2>7
      <3> QED BY <1>2, <2>2, <2>6, <2>8, <2>12, <3>1, <3>2 DEF Last
    <2>14. ASSUME NEW i \in DOMAIN lines, lines[i].tree = t PROVE InTable(t, i)'
      <3>1. \A g : g.name \in Nat /\ Shown(g, i) => Shown(g, i)'
        BY <1>0, StaysFiled
      <3>2. Shown(e, i) => Shown(f, i)
        BY <2>5, <2>6, <2>7, MoreShows
      <3>3. \A n \in DOMAIN entries[t] : entries[t][n].name \in Nat
        <4>1. \A n \in DOMAIN entries[t] : entries[t][n] \in EntryRecord
          BY <1>0 DEF IdsTypeOK
        <4> QED BY <4>1 DEF EntryRecord
      <3>4. InTable(t, i)
        BY <1>0, <2>14 DEF ShownInv
      <3> QED BY <1>0, <2>1, <2>2, <2>3, <2>5, <2>6, <3>1, <3>2, <3>3, <3>4 DEF InTable
    <2>15. Shown(f, here)'
      <3>1. lines'[here].level = 2 /\ IsParent(f.name, here)' /\ f.name # 0
        BY <1>0, <1>2, <2>6, <2>8, <2>10
      <3>2. Len(e.subs) + 1 \in DOMAIN f.subs /\ f.subs[Len(e.subs) + 1].name = here
        BY <2>4, <2>7
      <3> QED BY <3>1, <3>2 DEF Shown
    <2>16. InTable(t, here)'
      BY <1>0, <2>2, <2>3, <2>15 DEF InTable
    <2>17. IdsTypeOK'
      BY <1>0, <1>2, <2>3, <2>6 DEF IdsTypeOK
    <2>18. FiledInv'
      BY <1>0, StaysFiled DEF FiledInv
    <2> QED BY <1>0, <1>h, <2>3, <2>13, <2>14, <2>16, <2>17, <2>18, ReadKeeps
  <1> QED BY <1>3, <1>4

\* A new subsystem or programming interface, or one that belongs to nothing.
LEMMA ReadLeafKeeps ==
  ASSUME IdsInv, NEW t \in Tree, NEW id \in Ids, ReadLeaf(t, id)
  PROVE  IdsInv'
  <1> DEFINE x == [tree |-> t, level |-> 3, id |-> id]
  <1>h. PICK here : here = Len(lines) + 1
    OBVIOUS
  <1>a. PICK place : place = FirstWith(curr[t].subs, currId[t])
    OBVIOUS
  <1>0. /\ x \in Line /\ x.tree = t /\ x.level = 3
        /\ lines \in Seq(Line) /\ lines' = Append(lines, x) /\ entries' = entries
        /\ currId' = currId /\ phase = "read"
        /\ LastInv /\ FiledInv /\ ShownInv /\ IdsTypeOK
    BY DEF Line, IdsInv, IdsTypeOK, ReadLeaf, Read
  <1> HIDE DEF x
  <1>2. /\ DOMAIN lines = 1 .. Len(lines) /\ Len(lines) \in Nat /\ here \in Nat \ {0}
        /\ DOMAIN lines' = 1 .. here /\ Len(lines') = here /\ Number = here
        /\ \A i \in DOMAIN lines : i \in DOMAIN lines' /\ lines'[i] = lines[i]
        /\ lines'[here] = x /\ lines' \in Seq(Line)
        /\ \A i, j \in DOMAIN lines : IsParent(j, i)' <=> IsParent(j, i)
    BY <1>0, <1>h, LinesGrow
  <1>3. CASE place = 0
    <2>1. phase' = "panicked" /\ UNCHANGED curr
      BY <1>a, <1>3 DEF ReadLeaf
    <2> QED BY <1>0, <1>2, <2>1 DEF IdsInv, IdsTypeOK
  <1>4. CASE place # 0
    <2>1. PICK e : e = curr[t]
      OBVIOUS
    <2>2. PICK f : f = curr'[t]
      OBVIOUS
    <2>3. /\ curr' = [curr EXCEPT ![t].subs[place].leaves = @ \cup {here}] /\ phase' = phase
          /\ \A u \in Tree \ {t} : curr'[u] = curr[u]
      BY <1>0, <1>2, <1>a, <1>4 DEF ReadLeaf, IdsTypeOK
    <2>4. e \in EntryRecord /\ e.subs \in Seq(SubRecord) /\ e.name \in Nat
      BY <1>0, <2>1 DEF IdsTypeOK, EntryRecord
    <2>5. IsFirst(e.subs, currId[t], place)
      BY <1>a, <1>4, <2>1, <2>4, FindsOne
    <2>6. /\ DOMAIN e.subs = 1 .. Len(e.subs) /\ Len(e.subs) \in Nat
          /\ place \in DOMAIN e.subs /\ e.subs[place].id = currId[t] /\ e.subs # <<>>
          /\ \A m \in DOMAIN e.subs : e.subs[m] \in SubRecord
      BY <2>4, <2>5 DEF IsFirst
    <2> DEFINE more == [e.subs[place] EXCEPT !.leaves = @ \cup {here}]
    <2>7. /\ more \in SubRecord /\ more.id = e.subs[place].id /\ more.name = e.subs[place].name
          /\ more.leaves = e.subs[place].leaves \cup {here}
      BY <1>2, <2>6 DEF SubRecord
    <2>8. f = [e EXCEPT !.subs = [e.subs EXCEPT ![place] = more]]
          /\ curr' = [curr EXCEPT ![t] = f]
      BY <1>0, <2>1, <2>2, <2>3 DEF IdsTypeOK
    <2> HIDE DEF more
    <2>9. /\ f \in EntryRecord /\ f.id = e.id /\ f.name = e.name
          /\ DOMAIN f.subs = DOMAIN e.subs /\ Len(f.subs) = Len(e.subs) /\ f.subs # <<>>
          /\ f.subs[place] = more
          /\ \A m \in DOMAIN e.subs : m # place => f.subs[m] = e.subs[m]
      <3>1. [e.subs EXCEPT ![place] = more] \in Seq(SubRecord)
        BY <2>4, <2>6, <2>7
      <3>2. f \in EntryRecord /\ f.id = e.id /\ f.name = e.name
            /\ f.subs = [e.subs EXCEPT ![place] = more]
        BY <2>4, <2>8, <3>1 DEF EntryRecord
      <3>3. Len(f.subs) = Len(e.subs) /\ DOMAIN f.subs = DOMAIN e.subs
        BY <2>4, <2>6, <3>1, <3>2
      <3> QED BY <2>4, <2>6, <3>1, <3>2, <3>3
    <2>10. \A m \in DOMAIN e.subs : /\ f.subs[m].id = e.subs[m].id
                                    /\ f.subs[m].name = e.subs[m].name
                                    /\ e.subs[m].leaves \subseteq f.subs[m].leaves
      BY <2>7, <2>9
    <2>11. /\ e.name # 0 /\ Filed(t, e)
           /\ \A k \in e.name + 1 .. Len(lines) : lines[k].tree = t => lines[k].level >= 2
      BY <1>0, <2>1, <2>6 DEF LastInv, Last, NoEntry
    <2>12. Filed(t, e)'
      BY <1>0, <2>11, StaysFiled
    <2>13. PICK s : s = e.subs[Len(e.subs)]
      OBVIOUS
    <2>14. /\ s.id = currId[t] /\ FiledSub(t, e.name, s)
           /\ \A k \in s.name + 1 .. Len(lines) : lines[k].tree = t => lines[k].level >= 3
      <3>1. Len(e.subs) \in DOMAIN e.subs
        BY <2>6
      <3>2. s.id = currId[t]
            /\ \A k \in s.name + 1 .. Len(lines) : lines[k].tree = t => lines[k].level >= 3
        BY <1>0, <2>1, <2>6, <2>11, <2>13 DEF LastInv, Last
      <3> QED BY <2>11, <2>13, <3>1, <3>2 DEF Filed
    <2>15. /\ s.name \in DOMAIN lines /\ lines[s.name] = [tree |-> t, level |-> 2, id |-> currId[t]]
           /\ IsParent(e.name, s.name) /\ e.name \in DOMAIN lines
      BY <2>11, <2>14 DEF FiledSub, Filed
    <2>16. IsParent(s.name, here)' /\ IsParent(e.name, s.name)' /\ lines'[s.name].id = currId[t]
      <3>1. IsParent(e.name, s.name)' /\ lines'[s.name].id = currId[t]
        BY <1>2, <2>15
      <3>2. s.name < here /\ lines'[s.name].tree = t /\ lines'[s.name].level = 2
        BY <1>2, <1>h, <2>15
      <3>3. \A k \in s.name + 1 .. here - 1 : lines'[k].tree = t => lines'[k].level >= 3
        BY <1>2, <1>h, <2>14, <2>15
      <3>4. lines'[here].tree = t /\ lines'[here].level = 3
        BY <1>0, <1>2
      <3>5. IsParent(s.name, here)'
        BY <3>2, <3>3, <3>4 DEF IsParent
      <3> QED BY <3>1, <3>5
    <2>17. FiledSub(t, e.name, more)'
      <3>1. FiledSub(t, e.name, e.subs[place])'
        BY <2>6, <2>12 DEF Filed
      <3>2. here \in DOMAIN lines' /\ lines'[here].tree = t /\ lines'[here].level = 3
        BY <1>0, <1>2
      <3>3. s.name \in DOMAIN lines' /\ lines'[s.name].id = more.id
        BY <1>2, <2>6, <2>7, <2>15, <2>16
      <3> QED BY <2>7, <2>16, <3>1, <3>2, <3>3 DEF FiledSub
    <2>18. Filed(t, f)'
      <3>1. \A m \in DOMAIN f.subs : FiledSub(t, f.name, f.subs[m])'
        BY <2>9, <2>12, <2>17 DEF Filed
      <3> QED BY <2>9, <2>12, <3>1 DEF Filed
    <2>19. Last(t)'
      <3>1. \A k \in e.name + 1 .. here : lines'[k].tree = t => lines'[k].level >= 2
        BY <1>0, <1>2, <1>h, <2>4, <2>11
      <3>2. /\ f.subs[Len(f.subs)].id = s.id /\ f.subs[Len(f.subs)].name = s.name
            /\ currId'[t] = s.id
        <4>1. Len(e.subs) \in DOMAIN e.subs
          BY <2>6
        <4> QED BY <1>0, <2>9, <2>10, <2>13, <2>14, <4>1
      <3>3. \A k \in s.name + 1 .. here : lines'[k].tree = t => lines'[k].level >= 3
        BY <1>0, <1>2, <1>h, <2>14, <2>15
      <3> QED BY <1>2, <2>2, <2>9, <2>11, <2>18, <3>1, <3>2, <3>3 DEF Last
    <2>20. ASSUME NEW i \in DOMAIN lines, lines[i].tree = t PROVE InTable(t, i)'
      <3>1. \A g : g.name \in Nat /\ Shown(g, i) => Shown(g, i)'
        BY <1>0, StaysFiled
      <3>2. Shown(e, i) => Shown(f, i)
        BY <2>4, <2>9, <2>10, MoreShows
      <3>3. \A n \in DOMAIN entries[t] : entries[t][n].name \in Nat
        <4>1. \A n \in DOMAIN entries[t] : entries[t][n] \in EntryRecord
          BY <1>0 DEF IdsTypeOK
        <4> QED BY <4>1 DEF EntryRecord
      <3>4. InTable(t, i)
        BY <1>0, <2>20 DEF ShownInv
      <3> QED BY <1>0, <2>1, <2>2, <2>3, <2>4, <2>9, <3>1, <3>2, <3>3, <3>4 DEF InTable
    <2>21. Shown(f, here)'
      <3>1. lines'[here].level = 3 /\ f.name # 0 /\ s.name \in DOMAIN lines'
        BY <1>0, <1>2, <2>9, <2>11, <2>15
      <3>2. place \in DOMAIN f.subs /\ here \in f.subs[place].leaves
        BY <2>6, <2>7, <2>9
      <3>3. IsFirst(f.subs, currId[t], place)
        BY <2>5, <2>6, <2>9, <2>10 DEF IsFirst
      <3> QED BY <2>9, <2>16, <3>1, <3>2, <3>3 DEF Shown
    <2>22. InTable(t, here)'
      BY <1>0, <2>2, <2>3, <2>21 DEF InTable
    <2>23. IdsTypeOK'
      <3>1. phase' = phase /\ curr' = [curr EXCEPT ![t] = f]
        BY <2>3, <2>8
      <3> QED BY <1>0, <1>2, <2>9, <3>1 DEF IdsTypeOK
    <2>24. FiledInv'
      BY <1>0, StaysFiled DEF FiledInv
    <2> QED BY <1>0, <1>h, <2>3, <2>19, <2>20, <2>22, <2>23, <2>24, ReadKeeps
  <1> QED BY <1>3, <1>4

\* The tables are complete once the entries being read are in them.
LEMMA BuildKeeps == ASSUME IdsInv, Build PROVE IdsInv'
  <1>0. /\ phase = "build" /\ UNCHANGED <<lines, curr, currId>>
        /\ LastInv /\ FiledInv /\ ShownInv /\ IdsTypeOK
    BY DEF Build, IdsInv
  <1>1. \A t \in Tree : entries'[t] = Flushed(t)
    BY DEF Build
  <1>2. ASSUME NEW t \in Tree
        PROVE  /\ Flushed(t) \in Seq(EntryRecord)
               /\ \A n \in DOMAIN entries[t] :
                    n \in DOMAIN Flushed(t) /\ Flushed(t)[n] = entries[t][n]
               /\ curr[t].name # 0 => \E n \in DOMAIN Flushed(t) : Flushed(t)[n] = Quoted(curr[t])
               /\ \A n \in DOMAIN Flushed(t) :
                    /\ Filed(t, Flushed(t)[n])
                    /\ \A m \in DOMAIN Flushed(t)[n].subs :
                         Flushed(t)[n].subs[m].parent = Flushed(t)[n].id
    BY <1>0, FlushedHas
  <1>3. /\ phase' \in {"built", "panicked"}
        /\ phase' = "built" => \A t \in Tree : Unique(entries'[t])
    BY DEF Build
  <1>4. IdsTypeOK'
    <2>1. entries' \in [Tree -> Seq(EntryRecord)]
      BY <1>1, <1>2 DEF Build
    <2> QED BY <1>0, <1>3, <2>1 DEF IdsTypeOK
  <1>5. LastInv'
    BY <1>0, SameLines DEF LastInv, Last
  <1>6. FiledInv'
    BY <1>0, <1>1, <1>2, SameLines DEF FiledInv
  <1>7. ASSUME NEW i \in DOMAIN lines, NEW t \in Tree, InTable(t, i)
        PROVE  \E n \in DOMAIN Flushed(t) : Shown(Flushed(t)[n], i)
    <2>1. CASE \E n \in DOMAIN entries[t] : Shown(entries[t][n], i)
      BY <1>2, <2>1
    <2>2. CASE Shown(curr[t], i)
      <3>1. curr[t].name # 0 /\ Filed(t, curr[t])
        BY <1>0, <2>2 DEF Shown, LastInv, Last
      <3>2. curr[t] \in EntryRecord /\ curr[t].id \in Ids
        BY <1>0, <3>1, FiledIds DEF IdsTypeOK
      <3>3. Shown(Quoted(curr[t]), i)
        BY <2>2, <3>2, QuotedShows
      <3> QED BY <1>2, <3>1, <3>3
    <2> QED BY <1>7, <2>1, <2>2 DEF InTable
  <1>8. ShownInv'
    <2>1. ASSUME NEW i \in DOMAIN lines PROVE InTable(lines[i].tree, i)'
      <3>1. lines[i] \in Line
        BY <1>0 DEF IdsTypeOK
      <3>2. PICK t \in Tree : t = lines[i].tree
        BY <3>1 DEF Line
      <3>3. InTable(t, i)
        BY <1>0, <3>2 DEF ShownInv
      <3>4. PICK n \in DOMAIN Flushed(t) : Shown(Flushed(t)[n], i)
        BY <1>7, <3>3
      <3>5. PICK e : e = Flushed(t)[n]
        OBVIOUS
      <3>6. Shown(e, i)'
        BY <1>0, <3>4, <3>5 DEF Shown, IsParent
      <3>7. n \in DOMAIN entries'[t] /\ entries'[t][n] = e
        BY <1>1, <3>5
      <3>8. InTable(t, i)'
        BY <3>6, <3>7 DEF InTable
      <3> QED BY <1>0, <3>2, <3>8
    <2> QED BY <1>0, <2>1 DEF ShownInv
  <1> QED BY <1>3, <1>4, <1>5, <1>6, <1>8 DEF IdsInv

LEMMA StepIdsInv == IdsInv /\ [IdsNext]_idsVars => IdsInv'
  <1> SUFFICES ASSUME IdsInv, [IdsNext]_idsVars PROVE IdsInv'
    OBVIOUS
  <1> USE DEF Tree
  <1>1. CASE ReadVendor \/ ReadClass
    BY <1>1, ReadTopKeeps DEF ReadVendor, ReadClass
  <1>2. CASE ReadDevice \/ ReadSubclass
    BY <1>2, ReadSubKeeps DEF ReadDevice, ReadSubclass
  <1>3. CASE ReadSubsystem \/ ReadProgIf
    BY <1>3, ReadLeafKeeps DEF ReadSubsystem, ReadProgIf
  <1>s. ASSUME UNCHANGED <<lines, curr, currId, entries>>,
               phase' = phase \/ (phase = "read" /\ phase' = "build")
        PROVE  IdsInv'
    <2>1. LastInv => LastInv'
      BY <1>s, SameLines DEF LastInv, Last
    <2>2. FiledInv => FiledInv'
      BY <1>s, SameLines DEF FiledInv
    <2>3. ShownInv => ShownInv'
      <3>1. ASSUME NEW t, NEW i, InTable(t, i) PROVE InTable(t, i)'
        BY <1>s, <3>1, SameLines DEF InTable
      <3> QED BY <1>s, <3>1 DEF ShownInv
    <2>4. IdsTypeOK'
      BY <1>s DEF IdsInv, IdsTypeOK
    <2>5. phase' = "built" => \A t \in Tree : Unique(entries'[t])
      BY <1>s DEF IdsInv
    <2> QED BY <1>s, <2>1, <2>2, <2>3, <2>4, <2>5 DEF IdsInv
  <1>4. CASE NoPciIds
    BY <1>4 DEF NoPciIds, IdsInv, IdsTypeOK
  <1>5. CASE Stop
    BY <1>5, <1>s DEF Stop
  <1>6. CASE Build
    BY <1>6, BuildKeeps
  <1>7. CASE UNCHANGED idsVars
    BY <1>7, <1>s DEF idsVars
  <1> QED BY <1>1, <1>2, <1>3, <1>4, <1>5, <1>6, <1>7 DEF IdsNext

LEMMA AlwaysIdsInv == IdsSpec => []IdsInv
  BY InitIdsInv, StepIdsInv, PTL DEF IdsSpec

\* Nothing is in the database that is not in the file, in that place.
THEOREM NothingIsMisfiled == IdsSpec => []NothingMisfiled
  <1>1. IdsInv => NothingMisfiled
    BY DEF IdsInv, FiledInv, Filed, FiledSub, NothingMisfiled
  <1> QED BY <1>1, AlwaysIdsInv, PTL

\* A lookup finds the entry of a line of the first level.
LEMMA LooksUp ==
  ASSUME IdsInv, phase = "built", NEW t \in Tree, NEW n \in DOMAIN entries[t]
  PROVE  FromId(t, entries[t][n].id) = entries[t][n]
  <1>1. entries[t] \in Seq(EntryRecord)
    BY DEF IdsInv, IdsTypeOK
  <1>2. Unique(entries[t])
    BY DEF IdsInv
  <1>3. IsFirst(entries[t], entries[t][n].id, n)
    <2>1. DOMAIN entries[t] = 1 .. Len(entries[t]) /\ Len(entries[t]) \in Nat
      BY <1>1
    <2> QED BY <1>2, <2>1 DEF IsFirst, Unique
  <1>4. FirstWith(entries[t], entries[t][n].id) = n /\ n # 0
    BY <1>1, <1>3, FindsFirst
  <1> QED BY <1>4 DEF FromId

\* Every line of the file that is read is found by the lookups of pci_ids.rs,
\* under the IDs of the lines it belongs to, and leads back to them.
THEOREM NothingIsLost == IdsSpec => []NothingLost
  <1>1. IdsInv => NothingLost
    <2> SUFFICES ASSUME IdsInv, phase = "built" PROVE NothingLost
      BY DEF NothingLost
    <2>0. /\ lines \in Seq(Line) /\ FiledInv /\ ShownInv
      BY DEF IdsInv, IdsTypeOK
    <2>1. ASSUME NEW i \in DOMAIN lines
          PROVE  /\ lines[i].tree \in Tree
                 /\ \E e \in EntryRecord :
                      /\ Shown(e, i) /\ Filed(lines[i].tree, e)
                      /\ \A m \in DOMAIN e.subs : e.subs[m].parent = e.id
                      /\ FromId(lines[i].tree, e.id) = e
      <3>0. lines[i] \in Line
        BY <2>0
      <3>1. PICK t \in Tree : t = lines[i].tree
        BY <3>0 DEF Line
      <3>2. PICK n \in DOMAIN entries[t] : Shown(entries[t][n], i)
        BY <2>0, <3>1 DEF ShownInv, InTable
      <3>3. entries[t][n] \in EntryRecord
        BY DEF IdsInv, IdsTypeOK
      <3>4. FromId(t, entries[t][n].id) = entries[t][n]
        BY LooksUp
      <3> QED BY <2>0, <3>1, <3>2, <3>3, <3>4 DEF FiledInv
    <2>2. ASSUME NEW e \in EntryRecord, NEW t, Filed(t, e), NEW j \in DOMAIN lines,
                 NEW i \in DOMAIN lines, IsParent(j, i), IsParent(e.name, i)
          PROVE  j = e.name /\ lines[j].id = e.id /\ lines[j].tree = t /\ lines[i].tree = t
      <3>1. e.name \in DOMAIN lines /\ lines[e.name] = [tree |-> t, level |-> 1, id |-> e.id]
        BY <2>2 DEF Filed
      <3>2. j = e.name
        BY <2>0, <2>2, <3>1, OneParent
      <3> QED BY <2>2, <3>1, <3>2 DEF IsParent
    <2>3. ASSUME NEW i \in DOMAIN lines, lines[i].level = 1
          PROVE  FromId(lines[i].tree, lines[i].id).name = i
      <3>1. PICK e \in EntryRecord : /\ Shown(e, i) /\ Filed(lines[i].tree, e)
                                     /\ FromId(lines[i].tree, e.id) = e
        BY <2>1
      <3> QED BY <2>3, <3>1 DEF Shown, Filed
    <2>4. ASSUME NEW i \in DOMAIN lines, NEW j \in DOMAIN lines,
                 lines[i].level = 2, IsParent(j, i)
          PROVE  \E n \in DOMAIN FromId(lines[j].tree, lines[j].id).subs :
                   LET sub == FromId(lines[j].tree, lines[j].id).subs[n] IN
                     /\ sub.name = i /\ sub.id = lines[i].id
                     /\ lines[i].tree = "vendors" => VendorOf(sub).name = j
                     /\ lines[i].tree = "classes" => ClassOf(sub).name = j
      <3>1. PICK e \in EntryRecord : /\ Shown(e, i) /\ Filed(lines[i].tree, e)
                                     /\ \A m \in DOMAIN e.subs : e.subs[m].parent = e.id
                                     /\ FromId(lines[i].tree, e.id) = e
        BY <2>1
      <3>2. IsParent(e.name, i) /\ \E m \in DOMAIN e.subs : e.subs[m].name = i
        BY <2>4, <3>1 DEF Shown
      <3>3. j = e.name /\ lines[j].id = e.id /\ lines[j].tree = lines[i].tree
        BY <2>2, <2>4, <3>1, <3>2
      <3>4. FromId(lines[j].tree, lines[j].id) = e
        BY <3>1, <3>3
      <3>5. PICK m \in DOMAIN e.subs : e.subs[m].name = i
        BY <3>2
      <3>6. e.subs[m].id = lines[i].id /\ e.subs[m].parent = e.id
        <4>1. FiledSub(lines[i].tree, e.name, e.subs[m])
          BY <3>1 DEF Filed
        <4> QED BY <3>1, <3>5, <4>1 DEF FiledSub
      <3> QED BY <3>1, <3>3, <3>4, <3>5, <3>6 DEF VendorOf, ClassOf
    <2>5. ASSUME NEW i \in DOMAIN lines, NEW j \in DOMAIN lines, NEW k \in DOMAIN lines,
                 lines[i].level = 3, IsParent(j, i), IsParent(k, j)
          PROVE  i \in IF lines[i].tree = "vendors"
                       THEN Subsystems(FromVidPid(lines[k].id, lines[j].id))
                       ELSE ProgIfs(FromCidSid(lines[k].id, lines[j].id))
      <3>1. PICK e \in EntryRecord : /\ Shown(e, i) /\ Filed(lines[i].tree, e)
                                     /\ FromId(lines[i].tree, e.id) = e
        BY <2>1
      <3>2. PICK p \in DOMAIN lines, m \in DOMAIN e.subs :
              /\ IsParent(p, i) /\ IsParent(e.name, p)
              /\ IsFirst(e.subs, lines[p].id, m) /\ i \in e.subs[m].leaves
        BY <2>5, <3>1 DEF Shown
      <3>3. p = j
        BY <2>0, <2>5, <3>2, OneParent
      <3>4. lines[k].id = e.id
        BY <2>2, <2>5, <3>1, <3>2, <3>3
      <3>5. FirstWith(e.subs, lines[j].id) = m /\ m # 0
        <4>1. e.subs \in Seq(SubRecord)
          BY DEF EntryRecord
        <4> QED BY <3>2, <3>3, <4>1, FindsFirst
      <3>6. i \in Found(e.subs, lines[j].id).leaves
        BY <3>2, <3>5 DEF Found
      <3>7. lines[i].tree = "vendors" \/ lines[i].tree = "classes"
        BY <2>1 DEF Tree
      <3> QED BY <3>1, <3>4, <3>6, <3>7 DEF Subsystems, ProgIfs, FromVidPid, FromCidSid
    <2> QED BY <2>3, <2>4, <2>5 DEF NothingLost
  <1> QED BY <1>1, AlwaysIdsInv, PTL
=============================================================================
