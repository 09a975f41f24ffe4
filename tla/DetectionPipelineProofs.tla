---------------------- MODULE DetectionPipelineProofs ----------------------
(***************************************************************************)
(* The service keeps the promise the consumer relies on, for every set of  *)
(* topics, any logs and events, and any number of crashes; and what the    *)
(* stream may forget has reached the shelf.                                *)
(***************************************************************************)
EXTENDS DetectionPipeline, DetectionIngestionProofs, FiniteSetTheorems

----------------------------------------------------------------------------
(***************************************************************************)
(* Records and batches.                                                    *)
(***************************************************************************)

Usable(t, o) == Decoding!Verdict(t, o) = "ok"
EventAt(t, o) == EventOf[Decoding!KeyAt(t, o)]

\* A record that decodes came for its topic's retailer, and so did its event.
LEMMA UsableRecord ==
    ASSUME NEW t \in Topic, NEW o \in 1..Len(Log[t]), Usable(t, o)
    PROVE  /\ BoundTo[t] \in Retailer
           /\ Decoding!KeyAt(t, o) \in Retailer \X EventId
           /\ Decoding!KeyAt(t, o) \in DOMAIN EventOf
           /\ EventAt(t, o) \in DetectionEvent
           /\ KeyOf(EventAt(t, o)) = Decoding!KeyAt(t, o)
           /\ EventAt(t, o).retailer = BoundTo[t]
           /\ EventAt(t, o).supported
           /\ EventAt(t, o).system = EventAt(t, o).source
<1> DEFINE r == Log[t][o]
<1>1. Log[t] \in Seq(Decoding!Record) BY PipelineAssumption
<1>2. r \in Decoding!Record BY <1>1
<1>3. BoundTo[t] # Decoding!Unbound
  BY DEF Usable, Decoding!Verdict, Decoding!RecordAt
<1>4. BoundTo[t] \in Retailer BY <1>3, PipelineAssumption
<1>5. r.fault = "none"
  <2>1. r.fault \in Decoding!PayloadFault \cup {"none"} BY <1>2 DEF Decoding!Record
  <2> QED BY <1>3, <2>1 DEF Usable, Decoding!Verdict, Decoding!RecordAt, Decoding!PayloadFault
<1>6. r.envelope = BoundTo[t]
  BY <1>3, <1>5 DEF Usable, Decoding!Verdict, Decoding!RecordAt
<1>7. Decoding!KeyAt(t, o) = <<r.envelope, r.id>>
  BY DEF Decoding!KeyAt, Decoding!RecordAt
<1>8. r.id \in EventId BY <1>2 DEF Decoding!Record
<1>9. Decoding!KeyAt(t, o) \in DOMAIN EventOf BY PipelineAssumption DEF Usable
<1>10. /\ EventAt(t, o) \in DetectionEvent
       /\ KeyOf(EventAt(t, o)) = Decoding!KeyAt(t, o)
       /\ EventAt(t, o).supported
       /\ EventAt(t, o).system = EventAt(t, o).source
  BY <1>9, PipelineAssumption DEF EventAt
<1>11. EventAt(t, o).retailer = BoundTo[t] BY <1>6, <1>7, <1>10 DEF KeyOf
<1> QED BY <1>4, <1>6, <1>7, <1>8, <1>9, <1>10, <1>11

\* A sequence that has each of the offsets once, in order.
Lists(asked, offsets) ==
    /\ asked \in Seq(offsets)
    /\ \A o \in offsets : \E i \in 1..Len(asked) : asked[i] = o
    /\ \A i, j \in 1..Len(asked) : i < j => asked[i] < asked[j]

UsableIn(t, first, last) == {o \in first..last : Usable(t, o)}

LEMMA DecodedLists ==
    ASSUME NEW t, NEW first \in Nat, NEW last \in Nat
    PROVE  Lists(Decoded(t, first, last), UsableIn(t, first, last))
<1> DEFINE S == UsableIn(t, first, last)
           c == Cardinality(S)
           Below(o) == {p \in S : p < o}
           rank == [o \in S |-> Cardinality(Below(o))]
           s == Decoded(t, first, last)
<1>0. \A o \in S : o \in Nat BY DEF UsableIn
<1>1. IsFiniteSet(S) /\ c \in Nat
  <2>1. IsFiniteSet(first..last) /\ S \subseteq first..last BY FS_Interval DEF UsableIn
  <2> QED BY <2>1, FS_Subset, FS_CardinalityType
<1>2. /\ Len(s) = c /\ DOMAIN s = 1..c
      /\ \A i \in 1..c : s[i] = CHOOSE o \in S : Cardinality(Below(o)) = i - 1
  BY <1>1 DEF Decoded, UsableIn, Usable
<1> HIDE DEF S, s
<1>3. ASSUME NEW p \in S
      PROVE  IsFiniteSet(Below(p)) /\ rank[p] \in 0..(c - 1) /\ rank[p] \in Nat
  <2>1. Below(p) \subseteq S /\ p \notin Below(p) BY <1>0
  <2>2. IsFiniteSet(Below(p)) /\ Cardinality(Below(p)) <= c
        /\ (c = Cardinality(Below(p)) => S = Below(p))
    BY <1>1, <2>1, FS_Subset
  <2>3. Cardinality(Below(p)) \in Nat BY <2>2, FS_CardinalityType
  <2>4. Cardinality(Below(p)) # c BY <2>1, <2>2
  <2> QED BY <1>1, <2>2, <2>3, <2>4
<1>4. ASSUME NEW p \in S, NEW q \in S, p < q PROVE rank[p] < rank[q]
  <2>1. Below(p) \subseteq Below(q) /\ p \in Below(q) /\ p \notin Below(p)
    BY <1>0, <1>4
  <2>2. /\ Cardinality(Below(p)) <= Cardinality(Below(q))
        /\ (Cardinality(Below(q)) = Cardinality(Below(p)) => Below(q) = Below(p))
    BY <2>1, <1>3, FS_Subset
  <2>3. rank[p] \in Nat /\ rank[q] \in Nat BY <1>3
  <2> QED BY <2>1, <2>2, <2>3
<1>5. \A p, q \in S : rank[p] = rank[q] => p = q
  <2> SUFFICES ASSUME NEW p \in S, NEW q \in S, p # q PROVE rank[p] # rank[q]
    OBVIOUS
  <2>1. rank[p] \in Nat /\ rank[q] \in Nat BY <1>3
  <2>2. p < q \/ q < p BY <1>0
  <2>3. rank[p] < rank[q] \/ rank[q] < rank[p] BY <1>4, <2>2
  <2> QED BY <2>1, <2>3
<1> HIDE DEF rank
<1>6. rank \in Surjection(S, 0..(c - 1))
  <2>1. rank \in [S -> 0..(c - 1)] BY <1>3 DEF rank
  <2>2. rank \in Injection(S, 0..(c - 1)) BY <2>1, <1>5 DEF Injection, IsInjective
  <2>3. IsFiniteSet(0..(c - 1)) /\ Cardinality(0..(c - 1)) = c
    <3>1. 0 \in Int /\ c - 1 \in Int BY <1>1
    <3>2. /\ IsFiniteSet(0..(c - 1))
          /\ Cardinality(0..(c - 1)) = IF 0 > c - 1 THEN 0 ELSE (c - 1) - 0 + 1
      BY ONLY <3>1, FS_Interval
    <3> QED BY ONLY <1>1, <3>2
  <2> QED BY <1>1, <2>2, <2>3, FS_Injection
<1>7. ASSUME NEW i \in 1..c PROVE s[i] \in S /\ rank[s[i]] = i - 1
  <2>1. \E p \in S : rank[p] = i - 1
    <3>1. i - 1 \in 0..(c - 1) BY <1>1
    <3> QED BY <3>1, <1>6 DEF Surjection
  <2>2. \E p \in S : Cardinality(Below(p)) = i - 1 BY <2>1 DEF rank
  <2>3. s[i] = CHOOSE p \in S : Cardinality(Below(p)) = i - 1 BY <1>2
  <2>4. s[i] \in S /\ Cardinality(Below(s[i])) = i - 1
    <3> HIDE DEF Below
    <3> QED BY <2>2, <2>3
  <2> QED BY <2>4 DEF rank
<1>8. s \in Seq(S)
  <2> DEFINE Nth(i) == CHOOSE o \in S : Cardinality(Below(o)) = i - 1
  <2>1. s = [i \in 1..c |-> Nth(i)] BY DEF s, S, Decoded, UsableIn, Usable
  <2> HIDE DEF Nth
  <2>2. \A i \in 1..c : Nth(i) \in S BY <1>7, <2>1
  <2> QED BY <1>1, <2>1, <2>2
<1>9. ASSUME NEW o \in S PROVE \E i \in 1..Len(s) : s[i] = o
  <2>0. PICK r \in 0..(c - 1) : rank[o] = r BY <1>3
  <2>1. rank[o] + 1 \in 1..c /\ (rank[o] + 1) - 1 = rank[o] BY <1>1, <2>0
  <2>2. s[rank[o] + 1] = o BY <1>5, <1>7, <2>1
  <2> QED BY <1>2, <2>1, <2>2
<1>10. ASSUME NEW i \in 1..Len(s), NEW j \in 1..Len(s), i < j PROVE s[i] < s[j]
  <2>1. i \in 1..c /\ j \in 1..c BY <1>2
  <2>2. s[i] \in S /\ s[j] \in S /\ rank[s[i]] = i - 1 /\ rank[s[j]] = j - 1
    BY <1>7, <2>1
  <2>3. s[i] # s[j] BY <1>10, <2>2
  <2>4. ~(s[j] < s[i])
    <3>1. s[j] < s[i] => rank[s[j]] < rank[s[i]] BY <1>4, <2>2
    <3> QED BY <1>10, <2>2, <3>1
  <2> QED BY <1>0, <2>2, <2>3, <2>4
<1> QED BY <1>8, <1>9, <1>10 DEF Lists, S, s

LEMMA BatchIsExpected ==
    ASSUME NEW t \in Topic, NEW first \in 1..Len(Log[t]), NEW last \in 1..Len(Log[t]),
           Decoded(t, first, last) # <<>>
    PROVE  BatchOf(t, first, last) \in Batches
<1>0. Log[t] \in Seq(Decoding!Record) /\ Len(Log[t]) \in Nat BY PipelineAssumption
<1>1. PICK s : s = Decoded(t, first, last) OBVIOUS
<1>2. s \in Seq(UsableIn(t, first, last))
  <2>1. first \in Nat /\ last \in Nat BY <1>0
  <2> QED BY <1>1, <2>1, DecodedLists DEF Lists
<1>3. s[1] \in UsableIn(t, first, last) BY <1>1, <1>2
<1>4. BoundTo[t] \in Retailer
  <2>1. s[1] \in 1..Len(Log[t]) /\ Usable(t, s[1]) BY <1>0, <1>3 DEF UsableIn
  <2> QED BY <2>1, UsableRecord
<1>5. BatchOf(t, first, last) \in BatchesOfTopics BY <1>4 DEF BatchesOfTopics
<1> QED BY <1>5, PipelineAssumption

\* The service works on nothing but what records decode to.
LEMMA SubmittedRecord ==
    ASSUME NEW e \in Submitted
    PROVE  \E t \in Topic : \E o \in 1..Len(Log[t]) : Usable(t, o) /\ e = EventAt(t, o)
<1>1. PICK b \in Batches : e \in EventsOf(b) BY DEF Submitted
<1>0. PICK t \in Topic : \E first, last \in 1..Len(Log[t]) : b = BatchOf(t, first, last)
  <2>1. b \in BatchesOfTopics BY PipelineAssumption
  <2>2. PICK t \in Topic : b \in {BatchOf(t, first, last) : first, last \in 1..Len(Log[t])}
    BY <2>1 DEF BatchesOfTopics
  <2> QED BY <2>2
<1>2. PICK first \in 1..Len(Log[t]), last \in 1..Len(Log[t]) : b = BatchOf(t, first, last)
  BY <1>0
<1>3. Log[t] \in Seq(Decoding!Record) /\ Len(Log[t]) \in Nat BY PipelineAssumption
<1>4. PICK s : s = Decoded(t, first, last) OBVIOUS
<1>5. s \in Seq(UsableIn(t, first, last))
  <2>1. first \in Nat /\ last \in Nat BY <1>3
  <2> QED BY <1>4, <2>1, DecodedLists DEF Lists
<1>6. b.events = [i \in 1..Len(s) |-> EventAt(t, s[i])]
  BY <1>2, <1>4 DEF BatchOf, EventAt
<1>7. PICK i \in 1..Len(s) : e = EventAt(t, s[i])
  <2>1. Len(b.events) = Len(s) BY <1>5, <1>6
  <2> QED BY <1>1, <1>6, <2>1 DEF EventsOf
<1>8. s[i] \in 1..Len(Log[t]) /\ Usable(t, s[i])
  <2>1. s[i] \in UsableIn(t, first, last) BY <1>5
  <2> QED BY <1>3, <2>1 DEF UsableIn
<1> QED BY <1>7, <1>8

LEMMA KeysNameEvents == KeysAreUnique
<1> SUFFICES ASSUME NEW e \in Submitted, NEW d \in Submitted, KeyOf(e) = KeyOf(d)
             PROVE  e = d
  BY DEF KeysAreUnique
<1>1. ASSUME NEW x \in Submitted PROVE x = EventOf[KeyOf(x)]
  <2>1. PICK t \in Topic : \E o \in 1..Len(Log[t]) : Usable(t, o) /\ x = EventAt(t, o)
    BY SubmittedRecord
  <2>2. PICK o \in 1..Len(Log[t]) : Usable(t, o) /\ x = EventAt(t, o) BY <2>1
  <2>3. KeyOf(x) = Decoding!KeyAt(t, o) BY <2>2, UsableRecord
  <2> QED BY <2>2, <2>3 DEF EventAt
<1> QED BY <1>1

----------------------------------------------------------------------------
(***************************************************************************)
(* Putting answers in the slots of their records.                          *)
(***************************************************************************)

Answered == {"ingested", "duplicate", "dead_lettered"}
Values(slots) == \A o \in DOMAIN slots : slots[o] \in Answered

\* One slot more.
Put(slots, o, x) == [p \in DOMAIN slots \cup {o} |-> IF p = o THEN x ELSE slots[p]]

LEMMA ListedAreNumbers ==
    ASSUME NEW offsets, NEW asked, Lists(asked, offsets), offsets \subseteq Nat
    PROVE  \A i \in 1..Len(asked) : asked[i] \in offsets /\ asked[i] \in Nat
<1> SUFFICES ASSUME NEW i \in 1..Len(asked) PROVE asked[i] \in offsets
  OBVIOUS
<1>1. asked \in Seq(offsets) BY DEF Lists
<1> HIDE DEF Lists
<1> QED BY ONLY <1>1, i \in 1..Len(asked)

LEMMA PlacedNone ==
    ASSUME NEW slots, NEW asked
    PROVE  /\ Placed(slots, asked, <<>>) = [o \in DOMAIN slots |-> slots[o]]
           /\ DOMAIN Placed(slots, asked, <<>>) = DOMAIN slots
<1>1. 1..Len(<<>>) = {} OBVIOUS
<1>2. Placed(slots, asked, <<>>)
        = [o \in DOMAIN slots \cup {asked[i] : i \in {}} |->
             IF \E i \in {} : asked[i] = o
             THEN DispositionOf(<<>>[CHOOSE i \in {} : asked[i] = o])
             ELSE slots[o]]
  BY <1>1 DEF Placed
<1>3. {asked[i] : i \in {}} = {} OBVIOUS
<1> QED BY <1>2, <1>3

\* A batch whose answers are collected has them for good.
LEMMA PlacedAgain ==
    ASSUME NEW slots, NEW asked, NEW answers, NEW other
    PROVE  Placed(Placed(slots, asked, answers), other, <<>>) = Placed(slots, asked, answers)
<1>1. PICK d : d = Placed(slots, asked, answers) OBVIOUS
<1>2. d = [o \in DOMAIN d |-> d[o]] BY <1>1 DEF Placed
<1> QED BY <1>1, <1>2, PlacedNone

\* Each answer is in its slot, and the other slots are as they were.
InPlace(placed, slots, asked, answers) ==
    /\ DOMAIN placed = DOMAIN slots \cup {asked[i] : i \in 1..Len(answers)}
    /\ \A i \in 1..Len(answers) : placed[asked[i]] = DispositionOf(answers[i])
    /\ \A o \in DOMAIN slots :
         (\A i \in 1..Len(answers) : asked[i] # o) => placed[o] = slots[o]

LEMMA PlacedAt ==
    ASSUME NEW slots, NEW offsets, NEW asked, Lists(asked, offsets),
           offsets \subseteq Nat, NEW answers \in Seq(Outcome), Len(answers) <= Len(asked)
    PROVE  InPlace(Placed(slots, asked, answers), slots, asked, answers)
<1>1. Len(asked) \in Nat /\ \A i, j \in 1..Len(asked) : asked[i] = asked[j] => i = j
  <2>0. asked \in Seq(offsets) BY DEF Lists
  <2>1. \A i \in 1..Len(asked) : asked[i] \in Nat BY ListedAreNumbers
  <2>2. Len(asked) \in Nat BY <2>0
  <2> SUFFICES ASSUME NEW i \in 1..Len(asked), NEW j \in 1..Len(asked), i # j
               PROVE  asked[i] # asked[j]
    BY <2>2
  <2>3. i < j \/ j < i OBVIOUS
  <2> QED BY <2>1, <2>3 DEF Lists
<1>2. ASSUME NEW i \in 1..Len(answers)
      PROVE Placed(slots, asked, answers)[asked[i]] = DispositionOf(answers[i])
  <2>1. 1..Len(answers) \subseteq 1..Len(asked) BY <1>1
  <2>2. PICK n : n = CHOOSE k \in 1..Len(answers) : asked[k] = asked[i] OBVIOUS
  <2>3. n \in 1..Len(answers) /\ asked[n] = asked[i] BY <2>2
  <2>4. n = i BY <1>1, <2>1, <2>3
  <2> QED BY <2>2, <2>4 DEF Placed
<1>3. ASSUME NEW o \in DOMAIN slots, \A i \in 1..Len(answers) : asked[i] # o
      PROVE Placed(slots, asked, answers)[o] = slots[o]
  BY <1>3 DEF Placed
<1>4. DOMAIN Placed(slots, asked, answers)
        = DOMAIN slots \cup {asked[i] : i \in 1..Len(answers)}
  BY DEF Placed
<1> QED BY <1>2, <1>3, <1>4 DEF InPlace

\* Another answer fills the slot of the next record.
Filled(slots, asked, answers, answer) ==
    Placed(slots, asked, Append(answers, answer))
      = Put(Placed(slots, asked, answers), asked[Len(answers) + 1], DispositionOf(answer))

LEMMA PlacedNext ==
    ASSUME NEW slots, NEW offsets, NEW asked, Lists(asked, offsets), offsets \subseteq Nat,
           NEW answers \in Seq(Outcome), NEW answer \in Outcome,
           Len(answers) < Len(asked), offsets \cap DOMAIN slots = {}
    PROVE  Filled(slots, asked, answers, answer)
<1> DEFINE n == Len(answers)
           more == Append(answers, answer)
           was == Placed(slots, asked, answers)
           is == Placed(slots, asked, more)
           o == asked[n + 1]
<1>1. /\ n \in Nat /\ more \in Seq(Outcome) /\ Len(more) = n + 1
      /\ Len(asked) \in Nat /\ Len(more) <= Len(asked) /\ n <= Len(asked)
      /\ more[n + 1] = answer /\ \A i \in 1..n : more[i] = answers[i]
      /\ 1..(n + 1) = 1..n \cup {n + 1}
  BY DEF Lists
<1>0. InPlace(was, slots, asked, answers) /\ InPlace(is, slots, asked, more)
  BY <1>1, PlacedAt
<1> HIDE DEF is, was
<1>2. \A i \in 1..Len(asked) : asked[i] \in Nat
  BY ListedAreNumbers
<1>3. \A i \in 1..n : asked[i] # o
  <2>1. \A i \in 1..n : asked[i] < o BY <1>1 DEF Lists
  <2>2. \A i \in 1..n : asked[i] \in Nat /\ o \in Nat BY <1>1, <1>2
  <2> QED BY <2>1, <2>2
<1>4. DOMAIN was = DOMAIN slots \cup {asked[i] : i \in 1..n} BY <1>0 DEF InPlace
<1>5. DOMAIN is = DOMAIN slots \cup {asked[i] : i \in 1..(n + 1)} BY <1>0, <1>1 DEF InPlace
<1>6. DOMAIN is = DOMAIN was \cup {o} BY <1>1, <1>4, <1>5
<1>7. is[o] = DispositionOf(answer) BY <1>0, <1>1 DEF InPlace
<1>8. ASSUME NEW p \in DOMAIN was, p # o PROVE is[p] = was[p]
  <2>1. CASE \E i \in 1..n : p = asked[i]
    <3>1. PICK i \in 1..n : p = asked[i] BY <2>1
    <3>2. was[p] = DispositionOf(answers[i]) BY <1>0, <3>1 DEF InPlace
    <3>3. i \in 1..Len(more) BY <1>1
    <3>4. is[p] = DispositionOf(more[i]) BY <1>0, <3>1, <3>3 DEF InPlace
    <3> QED BY <1>1, <3>2, <3>4
  <2>2. CASE \A i \in 1..n : asked[i] # p
    <3>1. p \in DOMAIN slots BY <1>4, <1>8, <2>2
    <3>2. was[p] = slots[p] BY <1>0, <2>2, <3>1 DEF InPlace
    <3>3. \A i \in 1..Len(more) : asked[i] # p BY <1>1, <1>8, <2>2
    <3>4. is[p] = slots[p] BY <1>0, <3>1, <3>3 DEF InPlace
    <3> QED BY <3>2, <3>4
  <2> QED BY <2>1, <2>2
<1>9. is = [p \in DOMAIN is |-> is[p]] BY DEF Placed, is
<1> HIDE DEF o
<1>10. is = [p \in DOMAIN was \cup {o} |-> IF p = o THEN DispositionOf(answer) ELSE was[p]]
  BY <1>6, <1>7, <1>8, <1>9
<1> QED BY <1>10 DEF Filled, Put, is, was, o
----------------------------------------------------------------------------
(***************************************************************************)
(* The calls of the service, as the consumer sees them.                    *)
(***************************************************************************)

\* The record whose event a call is working on.
NextOffset(t) == Asked(t)[Len(outcomes[t]) + 1]

LEMMA AskedLists ==
    ASSUME PipelineIInv, NEW t \in Topic
    PROVE  Lists(Asked(t), UsableIn(t, committed[t] + 1, through[t]))
<1>1. committed[t] + 1 \in Nat /\ through[t] \in Nat BY DEF PipelineIInv
<1> QED BY <1>1, DecodedLists DEF Asked

LEMMA CurrentRecord ==
    ASSUME IInv, PipelineIInv, NEW t \in Topic, pc[t] # "idle", HasNext(t)
    PROVE  /\ Len(outcomes[t]) < Len(Asked(t))
           /\ NextOffset(t) \in InBatch(t) /\ NextOffset(t) \in 1..Len(Log[t])
           /\ Usable(t, NextOffset(t))
           /\ Current(t) = EventAt(t, NextOffset(t))
           /\ KeyOf(Current(t)) = Decoding!KeyAt(t, NextOffset(t))
           /\ Refusal(batch[t], Current(t)) = "none"
<1>1. PICK s : s = Asked(t) OBVIOUS
<1>2. /\ committed[t] \in Nat /\ through[t] \in Nat /\ published[t] \in Nat
      /\ through[t] <= published[t] /\ published[t] <= Len(Log[t])
      /\ batch[t] = BatchOf(t, committed[t] + 1, through[t])
  BY DEF PipelineIInv, CallerOK
<1>3. Len(Log[t]) \in Nat BY PipelineAssumption
<1>4. s \in Seq(UsableIn(t, committed[t] + 1, through[t])) BY <1>1, AskedLists DEF Lists
<1>5. /\ batch[t].events = [i \in 1..Len(s) |-> EventAt(t, s[i])]
      /\ batch[t].retailer = BoundTo[t]
  BY <1>1, <1>2 DEF BatchOf, Asked, EventAt
<1>6. PICK n : n = Len(outcomes[t]) OBVIOUS
<1>7. n \in Nat /\ Len(s) \in Nat BY <1>4, <1>6, PipelineAssumption DEF IInv, TypeOK
<1>8. Len(batch[t].events) = Len(s) BY <1>5, <1>7
<1>9. n < Len(s) /\ n + 1 \in 1..Len(s) BY <1>6, <1>7, <1>8 DEF HasNext
<1>10. s[n + 1] \in UsableIn(t, committed[t] + 1, through[t]) BY <1>4, <1>9
<1>11. /\ s[n + 1] \in InBatch(t) /\ s[n + 1] \in 1..Len(Log[t]) /\ Usable(t, s[n + 1])
  BY <1>2, <1>3, <1>10 DEF UsableIn, InBatch
<1>12. Current(t) = EventAt(t, s[n + 1]) BY <1>5, <1>6, <1>9 DEF Current
<1>13. NextOffset(t) = s[n + 1] BY <1>1, <1>6 DEF NextOffset
<1>14. /\ KeyOf(Current(t)) = Decoding!KeyAt(t, s[n + 1])
       /\ Refusal(batch[t], Current(t)) = "none"
  BY <1>5, <1>11, <1>12, UsableRecord DEF Refusal, PartitionMismatch
<1> QED BY <1>1, <1>6, <1>9, <1>11, <1>12, <1>13, <1>14

\* What the service does for a call and does not tell its caller of.
Quiet(t) ==
    /\ outcomes' = outcomes /\ ledger' = ledger
    /\ pc'[t] \in {"fold", "save", "record"} => Stored(Current(t)) = Touched(Current(t))

\* What an answer about an event says of the keys.
Told(k, outcome) ==
    \/ outcome.status = "rejected" /\ k \in RefusedKeys /\ AcceptedKeys' = AcceptedKeys
    \/ outcome.status = "duplicate" /\ k \in AcceptedKeys /\ AcceptedKeys' = AcceptedKeys
    \/ outcome.status = "accepted" /\ k \notin RefusedKeys
       /\ AcceptedKeys' = AcceptedKeys \cup {k}

Answering(t, outcome) ==
    /\ HasNext(t)
    /\ pc'[t] = "next"
    /\ outcomes' = [outcomes EXCEPT ![t] = Append(@, outcome)]
    /\ Told(KeyOf(Current(t)), outcome)

\* The current event of a call that has one bears a key of its own.
LEMMA CurrentKey ==
    ASSUME IInv, PipelineIInv, NEW t \in Topic, pc[t] # "idle", HasNext(t)
    PROVE  /\ KeyOf(Current(t)) \in Keys
           /\ Current(t).id \in EventId
           /\ KeyOf(Current(t)) \in RefusedKeys
                <=> Stored(Current(t)) # Touched(Current(t))
<1>1. PICK o : o = NextOffset(t) OBVIOUS
<1>2. /\ o \in 1..Len(Log[t]) /\ Usable(t, o) /\ Current(t) = EventAt(t, o)
      /\ KeyOf(Current(t)) = Decoding!KeyAt(t, o)
  BY <1>1, CurrentRecord
<1>3. /\ Decoding!KeyAt(t, o) \in Keys /\ Decoding!KeyAt(t, o) \in DOMAIN EventOf
      /\ EventAt(t, o) \in DetectionEvent
  BY <1>2, UsableRecord DEF Keys
<1>4. Current(t) = EventOf[KeyOf(Current(t))] BY <1>2 DEF EventAt
<1>5. Current(t).id \in EventId BY <1>2, <1>3 DEF DetectionEvent
<1> QED BY <1>2, <1>3, <1>4, <1>5 DEF RefusedKeys

LEMMA RecordTells ==
    ASSUME IInv, PipelineIInv, NEW t \in Topic, Record(t)
    PROVE  \E outcome \in Outcome : Answering(t, outcome)
<1>1. t \in Handler BY PipelineAssumption
<1>2. HasNext(t) /\ pc[t] = "record" BY <1>1 DEF IInv, CallOK, Record
<1>3. PICK e, k, w : e = Current(t) /\ k = KeyOf(e) /\ w = Winner(t) OBVIOUS
<1>4. k \in Keys /\ k \notin RefusedKeys /\ e.id \in EventId
  BY <1>2, <1>3, CurrentKey DEF PipelineIInv, CallerOK
<1>5. /\ ledger \in [Keys -> Instant \cup {NotAccepted}] /\ acceptedAt[t] \in Instant
      /\ NotAccepted \notin Instant
  BY <1>1 DEF IInv, TypeOK, Keys, Instant, NotAccepted
<1>6. /\ ledger' = [ledger EXCEPT ![k] = w]
      /\ w = IF ledger[k] = NotAccepted THEN acceptedAt[t] ELSE ledger[k]
  BY <1>3 DEF Record, Winner
<1>7. w \in Instant /\ w # NotAccepted BY <1>4, <1>5, <1>6
<1>8. AcceptedKeys' = AcceptedKeys \cup {k}
  <2>1. \A x \in Keys : ledger'[x] = IF x = k THEN w ELSE ledger[x] BY <1>5, <1>6
  <2> QED BY <1>4, <1>7, <2>1 DEF AcceptedKeys
<1>9. CASE w = acceptedAt[t]
  <2>1. PICK o : o = Accepted(e, acceptedAt[t]) OBVIOUS
  <2>2. o \in Outcome /\ o.status = "accepted" BY <1>4, <1>5, <2>1 DEF Accepted, Outcome
  <2>3. Answer(t, o) BY <1>3, <1>9, <2>1 DEF Record
  <2>4. Told(k, o) BY <1>4, <1>8, <2>2 DEF Told
  <2>5. Answering(t, o) BY <1>1, <1>2, <1>3, <2>3, <2>4 DEF Answer, Answering, IInv, TypeOK
  <2> QED BY <2>2, <2>5
<1>10. CASE w # acceptedAt[t]
  <2>1. PICK o : o = Duplicate(e, w) OBVIOUS
  <2>2. o \in Outcome /\ o.status = "duplicate" BY <1>4, <1>7, <2>1 DEF Duplicate, Outcome
  <2>3. Answer(t, o) BY <1>3, <1>10, <2>1 DEF Record
  <2>4. k \in AcceptedKeys BY <1>4, <1>6, <1>10 DEF AcceptedKeys
  <2>5. AcceptedKeys' = AcceptedKeys BY <1>8, <2>4
  <2>6. Told(k, o) BY <2>2, <2>4, <2>5 DEF Told
  <2>7. Answering(t, o) BY <1>1, <1>2, <1>3, <2>3, <2>6 DEF Answer, Answering, IInv, TypeOK
  <2> QED BY <2>2, <2>7
<1> QED BY <1>9, <1>10

LEMMA OtherAnswersTell ==
    ASSUME IInv, PipelineIInv, NEW t \in Topic, AnswerDuplicate(t) \/ RejectUnknownFacing(t)
    PROVE  \E outcome \in Outcome : Answering(t, outcome)
<1>1. t \in Handler BY PipelineAssumption
<1>2. pc[t] # "idle" /\ HasNext(t)
  BY <1>1 DEF IInv, CallOK, AnswerDuplicate, RejectUnknownFacing
<1>3. PICK e, k : e = Current(t) /\ k = KeyOf(e) OBVIOUS
<1>4. /\ k \in Keys /\ e.id \in EventId
      /\ k \in RefusedKeys <=> Stored(e) # Touched(e)
  BY <1>2, <1>3, CurrentKey
<1>5. /\ ledger \in [Keys -> Instant \cup {NotAccepted}] /\ ledger' = ledger
      /\ AcceptedKeys' = AcceptedKeys
  BY <1>1 DEF IInv, TypeOK, Keys, AnswerDuplicate, RejectUnknownFacing, stores, AcceptedKeys
<1>6. CASE AnswerDuplicate(t)
  <2>1. PICK o : o = Duplicate(e, ledger[k]) OBVIOUS
  <2>2. ledger[k] # NotAccepted BY <1>3, <1>6 DEF AnswerDuplicate
  <2>3. o \in Outcome /\ o.status = "duplicate"
    BY <1>4, <1>5, <2>1, <2>2 DEF Duplicate, Outcome
  <2>4. Told(k, o) BY <1>4, <1>5, <2>2, <2>3 DEF Told, AcceptedKeys
  <2>5. Answer(t, o) BY <1>3, <1>6, <2>1 DEF AnswerDuplicate
  <2>6. Answering(t, o) BY <1>1, <1>2, <1>3, <2>4, <2>5 DEF Answer, Answering, IInv, TypeOK
  <2> QED BY <2>3, <2>6
<1>7. CASE RejectUnknownFacing(t)
  <2>1. PICK o : o = Rejected(e, "unknown_facing") OBVIOUS
  <2>2. o \in Outcome /\ o.status = "rejected" BY <1>4, <2>1 DEF Rejected, Outcome
  <2>3. k \in RefusedKeys BY <1>3, <1>4, <1>7 DEF RejectUnknownFacing
  <2>4. Told(k, o) BY <1>5, <2>2, <2>3 DEF Told
  <2>5. Answer(t, o) BY <1>3, <1>7, <2>1 DEF RejectUnknownFacing
  <2>6. Answering(t, o) BY <1>1, <1>2, <1>3, <2>4, <2>5 DEF Answer, Answering, IInv, TypeOK
  <2> QED BY <2>2, <2>6
<1> QED BY <1>6, <1>7

\* Every step of a call is quiet or answers the next record asked about.
LEMMA WorkTells ==
    ASSUME IInv, PipelineIInv, NEW t \in Topic, Work(t)
    PROVE  /\ pc[t] # "idle" /\ pc'[t] # "idle" /\ batch' = batch /\ crashes' = crashes
           /\ \A u \in Topic \ {t} : SameCall(u)
           /\ Quiet(t) \/ \E outcome \in Outcome : Answering(t, outcome)
<1>1. t \in Handler /\ Handler = Topic BY PipelineAssumption
<1>2. ASSUME NEW o, Answer(t, o)
      PROVE  pc'[t] = "next" /\ batch' = batch /\ \A u \in Topic \ {t} : SameCall(u)
  BY <1>1, <1>2 DEF IInv, TypeOK, Answer, SameCall
<1>3. ~Refuse(t)
  BY CurrentRecord DEF Refuse
<1>4. CASE AnswerDuplicate(t) \/ RejectUnknownFacing(t) \/ Record(t)
  <2>1. \E outcome \in Outcome : Answering(t, outcome)
    BY <1>4, OtherAnswersTell, RecordTells
  <2> QED BY <1>2, <1>4, <2>1 DEF AnswerDuplicate, RejectUnknownFacing, Record
<1>5. CASE StartIngest(t)
  BY <1>1, <1>5 DEF IInv, TypeOK, StartIngest, SameCall, Quiet, stores
<1>6. CASE Load(t)
  BY <1>1, <1>6 DEF IInv, TypeOK, Load, SameCall, Quiet, stores
<1>7. CASE Fold(t)
  BY <1>1, <1>7 DEF IInv, TypeOK, Fold, SameCall, Quiet, stores, PipelineIInv, CallerOK
<1>8. CASE \E now \in Clock : StampAcceptance(t, now)
  BY <1>1, <1>8 DEF IInv, TypeOK, StampAcceptance, SameCall, Quiet, stores, PipelineIInv, CallerOK
<1>9. CASE Save(t)
  BY <1>1, <1>9 DEF IInv, TypeOK, Save, SameCall, Quiet, PipelineIInv, CallerOK
<1> QED BY <1>3, <1>4, <1>5, <1>6, <1>7, <1>8, <1>9 DEF Work
----------------------------------------------------------------------------
(***************************************************************************)
(* The invariant.                                                          *)
(***************************************************************************)

\* What a step leaves of a consume call.
CallerLeft(u) ==
    /\ SameCall(u)
    /\ committed'[u] = committed[u] /\ phase'[u] = phase[u] /\ through'[u] = through[u]
    /\ disposed'[u] = disposed[u]
    /\ published[u] <= published'[u] /\ published'[u] <= Len(Log[u])

LEMMA CallerLeftOK ==
    ASSUME PipelineIInv, published' \in [Topic -> Nat], NEW u \in Topic, CallerLeft(u)
    PROVE  CallerOK(u)'
<1>1. CallerOK(u) /\ {committed[u], through[u], published[u], published'[u]} \subseteq Nat
  BY DEF PipelineIInv
<1>2. /\ pc'[u] = pc[u] /\ batch'[u] = batch[u] /\ outcomes'[u] = outcomes[u]
      /\ Current(u)' = Current(u)
  BY SameCurrent DEF CallerLeft, SameCall
<1>3. committed'[u] <= published'[u] /\ published'[u] <= Len(Log[u])
  BY <1>1 DEF CallerLeft, CallerOK
<1>4. phase'[u] # "idle" => committed'[u] < through'[u] /\ through'[u] <= published'[u]
  BY <1>1 DEF CallerLeft, CallerOK
<1>5. Asked(u)' = Asked(u) /\ InBatch(u)' = InBatch(u)
  BY DEF CallerLeft, Asked, InBatch
<1> QED BY <1>1, <1>2, <1>3, <1>4, <1>5 DEF CallerLeft, CallerOK

LEMMA PipelineInitOK ==
    ASSUME PipelineInit
    PROVE  PipelineIInv
<1>1. \A t \in Topic : Log[t] \in Seq(Decoding!Record) /\ Len(Log[t]) \in Nat
  BY PipelineAssumption
<1>2. AcceptedKeys = {} BY DEF PipelineInit, Init, AcceptedKeys, Keys
<1>3. ASSUME NEW t \in Topic PROVE CallerOK(t)
  <2>1. pc[t] = "idle" BY PipelineAssumption DEF PipelineInit, Init
  <2>2. DOMAIN disposed[t] = {} BY DEF PipelineInit
  <2> QED BY <1>1, <2>1, <2>2 DEF PipelineInit, CallerOK
<1> QED BY <1>2, <1>3 DEF PipelineInit, PipelineIInv

LEMMA PublishKeeps ==
    ASSUME IInv, PipelineIInv, NEW t \in Topic, Publish(t)
    PROVE  PipelineIInv'
<1>1. \A u \in Topic : Len(Log[u]) \in Nat BY PipelineAssumption
<1>2. published' \in [Topic -> Nat] BY DEF PipelineIInv, Publish
<1>3. ASSUME NEW u \in Topic PROVE CallerLeft(u)
  <2>1. published[u] \in Nat /\ published[u] <= Len(Log[u]) BY DEF PipelineIInv, CallerOK
  <2>2. published'[u] = IF u = t THEN published[t] + 1 ELSE published[u]
    BY DEF PipelineIInv, Publish
  <2>3. published[u] <= published'[u] /\ published'[u] <= Len(Log[u])
    BY <1>1, <2>1, <2>2 DEF Publish
  <2> QED BY <2>3 DEF Publish, vars, CallerLeft, SameCall
<1>4. AcceptedKeys' = AcceptedKeys BY DEF Publish, vars, AcceptedKeys
<1> QED BY <1>2, <1>3, <1>4, CallerLeftOK DEF Publish, PipelineIInv

\* A step of one consume call and the service, with nothing published.
Alone(t) ==
    /\ published' = published
    /\ \A u \in Topic \ {t} : CallerLeft(u)

LEMMA AloneKeeps ==
    ASSUME PipelineIInv, NEW t \in Topic, Alone(t), CallerOK(t)',
           committed' \in [Topic -> Nat], through' \in [Topic -> Nat],
           phase' \in [Topic -> {"idle", "ingesting", "acking"}], DOMAIN disposed' = Topic,
           AcceptedKeys' \cap RefusedKeys = {}
    PROVE  PipelineIInv'
<1>1. published' \in [Topic -> Nat] BY DEF PipelineIInv, Alone
<1>2. \A u \in Topic : CallerOK(u)' BY <1>1, CallerLeftOK DEF Alone
<1> QED BY <1>1, <1>2 DEF PipelineIInv

LEMMA LeftAlone ==
    ASSUME PipelineIInv, NEW u \in Topic
    PROVE  published[u] <= published[u] /\ published[u] <= Len(Log[u])
BY DEF PipelineIInv, CallerOK

LEMMA DeliverAsks ==
    ASSUME IInv, PipelineIInv, NEW t \in Topic, NEW n \in 1..Len(Log[t]), Deliver(t, n)
    PROVE  LET first == committed[t] + 1
           IN  \/ Decoded(t, first, n) = <<>> /\ UNCHANGED vars
               \/ Decoded(t, first, n) # <<>> /\ BatchOf(t, first, n) \in Batches
                  /\ Submit(t, BatchOf(t, first, n))
<1>1. CASE Decoded(t, committed[t] + 1, n) = <<>>
  BY <1>1 DEF Deliver
<1>2. CASE Decoded(t, committed[t] + 1, n) # <<>>
  <2>1. committed[t] \in Nat /\ n \in (committed[t] + 1)..published[t] /\ Len(Log[t]) \in Nat
    BY PipelineAssumption DEF PipelineIInv, Deliver
  <2>2. committed[t] + 1 \in 1..Len(Log[t]) BY <2>1
  <2>3. BatchOf(t, committed[t] + 1, n) \in Batches BY <1>2, <2>2, BatchIsExpected
  <2> QED BY <1>2, <2>3 DEF Deliver
<1> QED BY <1>1, <1>2

LEMMA DeliverKeeps ==
    ASSUME IInv, PipelineIInv, NEW t \in Topic, NEW n \in 1..Len(Log[t]), Deliver(t, n)
    PROVE  PipelineIInv'
<1>1. t \in Handler /\ Handler = Topic BY PipelineAssumption
<1>2. PICK first : first = committed[t] + 1 OBVIOUS
<1>3. /\ first \in Nat /\ n \in first..published[t] /\ published[t] \in Nat
      /\ committed[t] \in Nat /\ phase[t] = "idle" /\ n \in Nat
      /\ published[t] <= Len(Log[t]) /\ committed[t] <= published[t]
  BY <1>2 DEF PipelineIInv, CallerOK, Deliver
<1>4. /\ committed' = committed /\ published' = published /\ letters' = letters
      /\ phase' = [phase EXCEPT ![t] = "ingesting"]
      /\ through' = [through EXCEPT ![t] = n]
  BY DEF Deliver
<1>5. disposed' = [disposed EXCEPT ![t] =
        [o \in {o \in first..n : Decoding!Verdict(t, o) # "ok"} |-> "dead_lettered"]]
  BY <1>2 DEF Deliver
<1>6. /\ phase'[t] = "ingesting" /\ through'[t] = n /\ committed'[t] = committed[t]
      /\ published'[t] = published[t]
      /\ DOMAIN disposed'[t] = {o \in first..n : Decoding!Verdict(t, o) # "ok"}
      /\ \A o \in DOMAIN disposed'[t] : disposed'[t][o] = "dead_lettered"
  BY <1>4, <1>5 DEF PipelineIInv
<1>7. \/ Decoded(t, first, n) = <<>> /\ UNCHANGED vars
      \/ Decoded(t, first, n) # <<>> /\ Submit(t, BatchOf(t, first, n))
  BY <1>2, DeliverAsks
<1>8. /\ ledger' = ledger /\ \A u \in Topic \ {t} : SameCall(u)
      /\ pc'[t] # "idle" => /\ Decoded(t, first, n) # <<>>
                            /\ batch'[t] = BatchOf(t, first, n)
      /\ pc'[t] \in {"idle", "next"}
  <2>1. pc[t] = "idle" BY <1>1, <1>3 DEF PipelineIInv, CallerOK
  <2>2. CASE UNCHANGED vars BY <2>1, <2>2 DEF vars, SameCall
  <2>3. CASE Decoded(t, first, n) # <<>> /\ Submit(t, BatchOf(t, first, n))
    BY <1>1, <2>3 DEF IInv, TypeOK, Submit, stores, SameCall
  <2> QED BY <1>7, <2>2, <2>3
<1>9. CallerOK(t)'
  <2>1. Asked(t)' = Decoded(t, first, n) /\ InBatch(t)' = first..n
    BY <1>2, <1>6 DEF Asked, InBatch
  <2>2. committed'[t] < through'[t] /\ through'[t] <= published'[t]
    BY <1>2, <1>3, <1>6
  <2> QED BY <1>2, <1>3, <1>6, <1>8, <2>1, <2>2 DEF CallerOK
<1>10. Alone(t) BY <1>4, <1>5, <1>8, LeftAlone DEF PipelineIInv, Alone, CallerLeft
<1>11. AcceptedKeys' = AcceptedKeys BY <1>8 DEF AcceptedKeys
<1> QED BY <1>3, <1>4, <1>5, <1>9, <1>10, <1>11, AloneKeeps DEF PipelineIInv

LEMMA IngestKeeps ==
    ASSUME IInv, PipelineIInv, NEW t \in Topic, Ingest(t)
    PROVE  PipelineIInv'
<1>1. Work(t) /\ UNCHANGED delivery BY DEF Ingest
<1>2. /\ pc[t] # "idle" /\ batch' = batch /\ \A u \in Topic \ {t} : SameCall(u)
      /\ Quiet(t) \/ \E outcome \in Outcome : Answering(t, outcome)
  BY <1>1, WorkTells
<1>3. Alone(t) BY <1>1, <1>2, LeftAlone DEF delivery, Alone, CallerLeft
<1>4. pc'[t] \in {"fold", "save", "record"}
        => Stored(Current(t))' = Touched(Current(t))'
  <2>1. CASE Quiet(t)
    <3>1. Current(t)' = Current(t) BY <1>2, <2>1 DEF Quiet, Current
    <3> QED BY <2>1, <3>1 DEF Quiet, Stored, Touched
  <2>2. CASE \E outcome \in Outcome : Answering(t, outcome) BY <2>2 DEF Answering
  <2> QED BY <1>2, <2>1, <2>2
<1>5. CallerOK(t)'
  <2>1. Asked(t)' = Asked(t) /\ InBatch(t)' = InBatch(t)
    BY <1>1 DEF delivery, Asked, InBatch
  <2> QED BY <1>1, <1>2, <1>4, <2>1 DEF delivery, PipelineIInv, CallerOK
<1>6. AcceptedKeys' \cap RefusedKeys = {}
  <2>1. CASE Quiet(t) BY <2>1 DEF Quiet, AcceptedKeys, PipelineIInv
  <2>2. CASE \E outcome \in Outcome : Answering(t, outcome)
    BY <2>2 DEF Answering, Told, PipelineIInv
  <2> QED BY <1>2, <2>1, <2>2
<1> QED BY <1>1, <1>3, <1>5, <1>6, AloneKeeps DEF delivery, PipelineIInv

\* A call that is gone, returned or dead.
LEMMA ForgottenCall ==
    ASSUME IInv, NEW t \in Topic, Forget(t)
    PROVE  /\ pc'[t] = "idle" /\ outcomes'[t] = <<>>
           /\ \A u \in Topic \ {t} : SameCall(u)
BY PipelineAssumption DEF IInv, TypeOK, Forget, SameCall

LEMMA DisposedValues ==
    ASSUME IInv, PipelineIInv, NEW t \in Topic
    PROVE  Values(Disposed(t))
<1>1. t \in Handler BY PipelineAssumption
<1>2. outcomes[t] \in Seq(Outcome) BY <1>1 DEF IInv, TypeOK
<1>3. PICK d, asked, answers :
        d = disposed[t] /\ asked = Asked(t) /\ answers = outcomes[t]
  OBVIOUS
<1>4. Values(d) BY <1>3 DEF Values, Answered, PipelineIInv, CallerOK
<1>5. ASSUME NEW o \in DOMAIN Placed(d, asked, answers)
      PROVE  Placed(d, asked, answers)[o] \in Answered
  <2>1. CASE \E i \in 1..Len(answers) : asked[i] = o
    <3>1. PICK i : i = CHOOSE k \in 1..Len(answers) : asked[k] = o OBVIOUS
    <3>2. i \in 1..Len(answers) BY <2>1, <3>1
    <3>3. answers[i] \in Outcome BY <1>2, <1>3, <3>2
    <3>4. Placed(d, asked, answers)[o] = DispositionOf(answers[i])
      BY <2>1, <3>1 DEF Placed
    <3> QED BY <3>3, <3>4 DEF Outcome, DispositionOf, Answered
  <2>2. CASE ~\E i \in 1..Len(answers) : asked[i] = o
    <3>1. o \in DOMAIN d /\ Placed(d, asked, answers)[o] = d[o] BY <2>2 DEF Placed
    <3> QED BY <1>4, <3>1 DEF Values
  <2> QED BY <2>1, <2>2
<1> QED BY <1>3, <1>5 DEF Values, Disposed

LEMMA CollectKeeps ==
    ASSUME IInv, PipelineIInv, NEW t \in Topic, Collect(t)
    PROVE  PipelineIInv'
<1>1. /\ Return(t) /\ disposed' = [disposed EXCEPT ![t] = Disposed(t)]
      /\ UNCHANGED <<published, committed, letters, phase, through>>
  BY DEF Collect
<1>2. /\ pc[t] = "next" /\ pc'[t] = "idle" /\ ledger' = ledger
      /\ \A u \in Topic \ {t} : SameCall(u)
  BY <1>1, ForgottenCall DEF Return, stores
<1>3. Alone(t) BY <1>1, <1>2, LeftAlone DEF Alone, CallerLeft, PipelineIInv
<1>4. disposed'[t] = Disposed(t) BY <1>1 DEF PipelineIInv
<1>5. phase[t] = "ingesting" BY <1>2 DEF PipelineIInv, CallerOK
<1>6. CallerOK(t)'
  BY <1>1, <1>2, <1>4, <1>5, DisposedValues DEF PipelineIInv, CallerOK, Values, Answered
<1>7. AcceptedKeys' = AcceptedKeys BY <1>2 DEF AcceptedKeys
<1> QED BY <1>1, <1>3, <1>6, <1>7, AloneKeeps DEF PipelineIInv

\* While the service is in a call some record is yet to be disposed of.
LEMMA CaptureAfterCall ==
    ASSUME IInv, PipelineIInv, NEW t \in Topic, InBatch(t) \subseteq DOMAIN disposed[t]
    PROVE  pc[t] = "idle"
<1> SUFFICES ASSUME pc[t] # "idle" PROVE FALSE OBVIOUS
<1>1. Asked(t) # <<>>
      /\ DOMAIN disposed[t] = {o \in InBatch(t) : Decoding!Verdict(t, o) # "ok"}
  BY DEF PipelineIInv, CallerOK
<1>2. PICK s : s = Asked(t) OBVIOUS
<1>3. s \in Seq(UsableIn(t, committed[t] + 1, through[t])) /\ s # <<>>
  BY <1>1, <1>2, AskedLists DEF Lists
<1>4. s[1] \in UsableIn(t, committed[t] + 1, through[t]) BY <1>3
<1> QED BY <1>1, <1>4 DEF UsableIn, Usable, InBatch

LEMMA CaptureKeeps ==
    ASSUME IInv, PipelineIInv, NEW t \in Topic, Capture(t)
    PROVE  PipelineIInv'
<1>1. /\ phase[t] = "ingesting" /\ phase' = [phase EXCEPT ![t] = "acking"]
      /\ UNCHANGED <<vars, published, committed, through, disposed>>
      /\ InBatch(t) \subseteq DOMAIN disposed[t]
  BY DEF Capture
<1>2. pc'[t] = "idle" /\ ledger' = ledger /\ \A u \in Topic : SameCall(u)
  BY <1>1, CaptureAfterCall DEF vars, SameCall
<1>3. Alone(t) BY <1>1, <1>2, LeftAlone DEF Alone, CallerLeft, PipelineIInv
<1>4. CallerOK(t)'
  BY <1>1, <1>2 DEF PipelineIInv, CallerOK, InBatch
<1>5. AcceptedKeys' = AcceptedKeys BY <1>2 DEF AcceptedKeys
<1> QED BY <1>1, <1>3, <1>4, <1>5, AloneKeeps DEF PipelineIInv

LEMMA AckKeeps ==
    ASSUME IInv, PipelineIInv, NEW t \in Topic, Ack(t)
    PROVE  PipelineIInv'
<1>1. /\ phase[t] = "acking" /\ phase' = [phase EXCEPT ![t] = "idle"]
      /\ committed' = [committed EXCEPT ![t] = through[t]]
      /\ disposed' = [disposed EXCEPT ![t] = [o \in {} |-> "none"]]
      /\ UNCHANGED <<vars, published, through>>
  BY DEF Ack
<1>2. pc'[t] = "idle" /\ ledger' = ledger /\ \A u \in Topic : SameCall(u)
  BY <1>1 DEF vars, SameCall, PipelineIInv, CallerOK
<1>3. Alone(t) BY <1>1, <1>2, LeftAlone DEF Alone, CallerLeft, PipelineIInv
<1>4. /\ phase'[t] = "idle" /\ committed'[t] = through[t] /\ DOMAIN disposed'[t] = {}
  BY <1>1 DEF PipelineIInv
<1>5. CallerOK(t)'
  BY <1>1, <1>2, <1>4 DEF PipelineIInv, CallerOK
<1>6. AcceptedKeys' = AcceptedKeys BY <1>2 DEF AcceptedKeys
<1> QED BY <1>1, <1>3, <1>5, <1>6, AloneKeeps DEF PipelineIInv

LEMMA FailKeeps ==
    ASSUME IInv, PipelineIInv, NEW t \in Topic, Fail(t)
    PROVE  PipelineIInv'
<1>1. /\ Forget(t) /\ phase' = [phase EXCEPT ![t] = "idle"]
      /\ disposed' = [disposed EXCEPT ![t] = [o \in {} |-> "none"]]
      /\ UNCHANGED <<stores, published, committed, letters, through>>
  BY DEF Fail
<1>2. pc'[t] = "idle" /\ ledger' = ledger /\ \A u \in Topic \ {t} : SameCall(u)
  BY <1>1, ForgottenCall DEF stores
<1>3. Alone(t) BY <1>1, <1>2, LeftAlone DEF Alone, CallerLeft, PipelineIInv
<1>4. phase'[t] = "idle" /\ DOMAIN disposed'[t] = {}
  BY <1>1 DEF PipelineIInv
<1>5. CallerOK(t)'
  BY <1>1, <1>2, <1>4 DEF PipelineIInv, CallerOK
<1>6. AcceptedKeys' = AcceptedKeys BY <1>2 DEF AcceptedKeys
<1> QED BY <1>1, <1>3, <1>5, <1>6, AloneKeeps DEF PipelineIInv
LEMMA PipelineStutterKeeps ==
    ASSUME PipelineIInv, UNCHANGED pipelineVars
    PROVE  PipelineIInv'
<1>1. \A u \in Topic : CallerLeft(u)
  BY LeftAlone DEF pipelineVars, delivery, vars, CallerLeft, SameCall
<1>2. AcceptedKeys' = AcceptedKeys BY DEF pipelineVars, vars, AcceptedKeys
<1>3. published' \in [Topic -> Nat] BY DEF pipelineVars, delivery, PipelineIInv
<1> QED BY <1>1, <1>2, <1>3, CallerLeftOK DEF pipelineVars, delivery, PipelineIInv

LEMMA PipelineStepKeeps ==
    ASSUME IInv, PipelineIInv, [PipelineNext]_pipelineVars
    PROVE  PipelineIInv'
<1>1. ASSUME NEW t \in Topic, NEW n \in 1..Len(Log[t]), Deliver(t, n) PROVE PipelineIInv'
  BY <1>1, DeliverKeeps
<1> QED BY <1>1, PublishKeeps, IngestKeeps, CollectKeeps, CaptureKeeps, AckKeeps, FailKeeps,
           PipelineStutterKeeps DEF PipelineNext, Consume

\* A step of the pipeline is a step of the service, or a call that has already
\* returned and fails.
FailsIdle(t) ==
    /\ Forget(t) /\ crashes' \in Nat
    /\ UNCHANGED stores

LEMMA StepOfService ==
    ASSUME IInv, PipelineIInv, [PipelineNext]_pipelineVars
    PROVE  [Next]_vars \/ \E t \in Handler : FailsIdle(t)
<1>0. Handler = Topic BY PipelineAssumption
<1>1. ASSUME NEW t \in Topic, Publish(t) PROVE UNCHANGED vars
  BY <1>1 DEF Publish
<1>2. ASSUME NEW t \in Topic, NEW n \in 1..Len(Log[t]), Deliver(t, n) PROVE [Next]_vars
  BY <1>0, <1>2, DeliverAsks DEF Next
<1>3. ASSUME NEW t \in Topic, Ingest(t) PROVE [Next]_vars
  BY <1>0, <1>3 DEF Ingest, Next
<1>4. ASSUME NEW t \in Topic, Collect(t) PROVE [Next]_vars
  BY <1>0, <1>4 DEF Collect, Next
<1>5. ASSUME NEW t \in Topic, Capture(t) \/ Ack(t) PROVE UNCHANGED vars
  BY <1>5 DEF Capture, Ack
<1>6. ASSUME NEW t \in Topic, Fail(t) PROVE FailsIdle(t)
  BY <1>6 DEF Fail, FailsIdle, IInv, TypeOK
<1>7. CASE UNCHANGED pipelineVars BY <1>7 DEF pipelineVars
<1> QED BY <1>0, <1>1, <1>2, <1>3, <1>4, <1>5, <1>6, <1>7 DEF PipelineNext, Consume

LEMMA FailsIdleKeeps ==
    ASSUME IInv, NEW t \in Handler, FailsIdle(t)
    PROVE  IInv' /\ Aside(t)
<1>1. TypeOK BY DEF IInv
<1>2. TypeOK' BY <1>1, ForgetOK DEF FailsIdle, TypeOK, stores
<1>3. /\ CallOK(t)' /\ AnswersOK(t)' /\ pc'[t] = "idle"
      /\ \A g \in Handler \ {t} : SameCall(g)
  BY <1>1, ForgetOK DEF FailsIdle, Forget, TypeOK
<1>4. IInv' BY <1>2, <1>3, LocalStepOK DEF FailsIdle
<1> QED BY <1>3, <1>4 DEF Aside, FailsIdle, stores

LEMMA ServiceKeeps ==
    ASSUME IInv, PipelineIInv, [PipelineNext]_pipelineVars
    PROVE  IInv'
<1>1. [Next]_vars => IInv' BY NextOK
<1> QED BY <1>1, StepOfService, FailsIdleKeeps

\* The consumer's calls and the service's agree, in whatever order the topics take
\* their steps and wherever calls die.
THEOREM PipelineInvariance == PipelineSpec => [](IInv /\ PipelineIInv)
<1>1. PipelineInit => IInv /\ PipelineIInv
  BY InitOK, PipelineInitOK DEF PipelineInit
<1>2. IInv /\ PipelineIInv /\ [PipelineNext]_pipelineVars => (IInv /\ PipelineIInv)'
  BY ServiceKeeps, PipelineStepKeeps
<1> QED BY <1>1, <1>2, PTL DEF PipelineSpec

----------------------------------------------------------------------------
(***************************************************************************)
(* The steps of the pipeline as steps of the consumer over the contract of *)
(* the ingestion port.                                                     *)
(***************************************************************************)

\* Both read records alike.
LEMMA SameReading ==
    ASSUME NEW t, NEW o
    PROVE  /\ Stream!Verdict(t, o) = Decoding!Verdict(t, o)
           /\ Stream!KeyAt(t, o) = Decoding!KeyAt(t, o)
BY DEF Stream!Verdict, Decoding!Verdict, Stream!KeyAt, Decoding!KeyAt, Stream!RecordAt,
       Decoding!RecordAt, Stream!Unbound, Decoding!Unbound

LEMMA SlotsStay ==
    ASSUME PipelineIInv, NEW u \in Topic, CallerLeft(u)
    PROVE  Disposed(u)' = Disposed(u)
BY DEF CallerLeft, SameCall, Disposed, Asked

\* Only the slots of one topic change.
LEMMA SlotsOfOne ==
    ASSUME PipelineIInv, NEW t \in Topic, Alone(t)
    PROVE  Slots' = [Slots EXCEPT ![t] = Disposed(t)']
<1>1. \A u \in Topic \ {t} : Disposed(u)' = Disposed(u) BY SlotsStay DEF Alone
<1>2. PICK d : d = Disposed(t)' OBVIOUS
<1>3. Slots' = [u \in Topic |-> IF u = t THEN d ELSE Disposed(u)]
  BY <1>1, <1>2 DEF Slots
<1>4. [Slots EXCEPT ![t] = d] = [u \in Topic |-> IF u = t THEN d ELSE Disposed(u)]
  BY DEF Slots
<1> QED BY <1>2, <1>3, <1>4

LEMMA SlotsUnchanged ==
    ASSUME PipelineIInv, \A u \in Topic : CallerLeft(u)
    PROVE  Slots' = Slots
<1>1. \A u \in Topic : Disposed(u)' = Disposed(u) BY SlotsStay
<1> QED BY <1>1 DEF Slots

LEMMA StreamInit ==
    ASSUME PipelineInit
    PROVE  Stream!Init
<1>1. \A t \in Topic : outcomes[t] = <<>> BY PipelineAssumption DEF PipelineInit, Init
<1>2. \A t \in Topic : Disposed(t) = [o \in {} |-> "none"]
  BY <1>1, PlacedNone DEF PipelineInit, Disposed
<1>3. Slots = [t \in Topic |-> [o \in {} |-> "none"]] BY <1>2 DEF Slots
<1>4. AcceptedKeys = {} BY DEF PipelineInit, Init, AcceptedKeys, Keys
<1> QED BY <1>3, <1>4 DEF PipelineInit, Init, Stream!Init, Stream!NoDispositions
LEMMA IdleHasNoAnswers ==
    ASSUME IInv, NEW t \in Topic, pc[t] = "idle"
    PROVE  outcomes[t] = <<>>
<1>1. t \in Handler BY PipelineAssumption
<1>2. outcomes[t] \in Seq(Outcome) /\ Len(outcomes[t]) <= 0
  BY <1>1 DEF IInv, TypeOK, CallOK, NoBatch
<1> QED BY <1>2

LEMMA StreamPublishes ==
    ASSUME IInv, PipelineIInv, NEW t \in Topic, Publish(t)
    PROVE  Stream!Publish(t)
<1>1. /\ published[t] < Len(Log[t]) /\ published' = [published EXCEPT ![t] = @ + 1]
      /\ UNCHANGED <<vars, committed, letters, phase, through, disposed>>
  BY DEF Publish
<1>2. \A u \in Topic : Disposed(u)' = Disposed(u) BY <1>1 DEF vars, Disposed, Asked
<1>3. Slots' = Slots BY <1>2 DEF Slots
<1>4. AcceptedKeys' = AcceptedKeys /\ crashes' = crashes BY <1>1 DEF vars, AcceptedKeys
<1> QED BY <1>1, <1>3, <1>4 DEF Stream!Publish

LEMMA StreamDelivers ==
    ASSUME IInv, PipelineIInv, NEW t \in Topic, NEW n \in 1..Len(Log[t]), Deliver(t, n)
    PROVE  Stream!Deliver(t, n)
<1>1. t \in Handler /\ Handler = Topic BY PipelineAssumption
<1>2. PICK first : first = committed[t] + 1 OBVIOUS
<1>3. PICK bad : bad = {o \in first..n : Decoding!Verdict(t, o) # "ok"} OBVIOUS
<1>4. /\ phase[t] = "idle" /\ n \in first..published[t]
      /\ committed' = committed /\ published' = published /\ letters' = letters
      /\ phase' = [phase EXCEPT ![t] = "ingesting"]
      /\ through' = [through EXCEPT ![t] = n]
      /\ disposed' = [disposed EXCEPT ![t] = [o \in bad |-> "dead_lettered"]]
  BY <1>2, <1>3 DEF Deliver
<1>5. pc[t] = "idle" BY <1>4 DEF PipelineIInv, CallerOK
<1>6. /\ outcomes' = outcomes /\ ledger' = ledger /\ crashes' = crashes
      /\ \A u \in Topic \ {t} : SameCall(u)
  <2>1. CASE UNCHANGED vars BY <2>1 DEF vars, SameCall
  <2>2. CASE Submit(t, BatchOf(t, committed[t] + 1, n))
    BY <1>1, <2>2 DEF IInv, TypeOK, Submit, stores, SameCall
  <2> QED BY <2>1, <2>2, DeliverAsks
<1>7. outcomes'[t] = <<>> BY <1>5, <1>6, IdleHasNoAnswers
<1>8. disposed'[t] = [o \in bad |-> "dead_lettered"] BY <1>4 DEF PipelineIInv
<1>9. Disposed(t)' = [o \in bad |-> "dead_lettered"]
  <2>1. Disposed(t)' = Placed(disposed'[t], Asked(t)', <<>>) BY <1>7 DEF Disposed, Placed
  <2> QED BY <1>8, <2>1, PlacedNone
<1>10. Alone(t) BY <1>4, <1>6, LeftAlone DEF PipelineIInv, Alone, CallerLeft
<1>11. Slots' = [Slots EXCEPT ![t] = [o \in bad |-> "dead_lettered"]]
  BY <1>9, <1>10, SlotsOfOne
<1>12. bad = {o \in first..n : Stream!Verdict(t, o) # "ok"} BY <1>3, SameReading
<1>13. AcceptedKeys' = AcceptedKeys BY <1>6 DEF AcceptedKeys
<1> QED BY <1>2, <1>4, <1>6, <1>11, <1>12, <1>13 DEF Stream!Deliver

\* The records yet to be disposed of are those asked about and not answered.
LEMMA PendingIsAsked ==
    ASSUME IInv, PipelineIInv, NEW t \in Topic, pc[t] # "idle", HasNext(t)
    PROVE  /\ NextOffset(t) \in Stream!Pending(t)
           /\ \A p \in Stream!Pending(t) : NextOffset(t) <= p
<1>1. PICK s, n, U : /\ s = Asked(t) /\ n = Len(outcomes[t])
                     /\ U = UsableIn(t, committed[t] + 1, through[t])
  OBVIOUS
<1>2. Lists(s, U) BY <1>1, AskedLists
<1>3. /\ outcomes[t] \in Seq(Outcome) /\ n \in Nat /\ n < Len(s)
      /\ s \in Seq(U) /\ Len(s) \in Nat
  BY <1>1, <1>2, CurrentRecord, PipelineAssumption DEF IInv, TypeOK, Lists
<1>4. U \subseteq Nat /\ U = {o \in InBatch(t) : Usable(t, o)}
  BY <1>1 DEF UsableIn, InBatch, PipelineIInv
<1>5. DOMAIN disposed[t] = InBatch(t) \ U
  BY <1>4 DEF PipelineIInv, CallerOK, Usable
<1>6. DOMAIN Disposed(t) = (InBatch(t) \ U) \cup {s[i] : i \in 1..n}
  BY <1>1, <1>5 DEF Disposed, Placed
<1>7. Stream!Pending(t) = InBatch(t) \ DOMAIN Disposed(t)
  BY DEF Stream!Pending, Stream!InBatch, InBatch, Slots
<1>8. \A i \in 1..Len(s) : s[i] \in U /\ s[i] \in Nat BY <1>2, <1>4, ListedAreNumbers
<1>9. n + 1 \in 1..Len(s) /\ \A i \in 1..n : i \in 1..Len(s) /\ i < n + 1 BY <1>3
<1>10. \A i \in 1..n : s[i] # s[n + 1]
  <2>1. \A i \in 1..n : s[i] < s[n + 1] BY <1>2, <1>9 DEF Lists
  <2> QED BY <1>8, <1>9, <2>1
<1>11. s[n + 1] \in Stream!Pending(t)
  BY <1>4, <1>6, <1>7, <1>8, <1>9, <1>10
<1>12. ASSUME NEW p \in Stream!Pending(t) PROVE s[n + 1] <= p
  <2>1. p \in U /\ \A i \in 1..n : p # s[i] BY <1>6, <1>7
  <2>2. PICK j \in 1..Len(s) : s[j] = p BY <1>2, <2>1 DEF Lists
  <2>3. j = n + 1 \/ n + 1 < j BY <1>3, <2>1, <2>2
  <2>4. CASE j = n + 1 BY <1>8, <1>9, <2>2, <2>4
  <2>5. CASE n + 1 < j
    <3>1. s[n + 1] < s[j] BY <1>2, <1>9, <2>5 DEF Lists
    <3>2. s[n + 1] \in Nat /\ s[j] \in Nat BY <1>8, <1>9
    <3> QED BY <2>2, <3>1, <3>2
  <2> QED BY <2>3, <2>4, <2>5
<1> QED BY <1>1, <1>11, <1>12 DEF NextOffset

\* An answer of the service is one the contract allows, about the next record.
LEMMA StreamIngests ==
    ASSUME IInv, PipelineIInv, NEW t \in Topic, Ingest(t),
           NEW outcome \in Outcome, Answering(t, outcome)
    PROVE  Stream!Ingest(t, NextOffset(t), outcome.status)
<1>1. t \in Handler BY PipelineAssumption
<1>2. /\ pc[t] # "idle" /\ crashes' = crashes /\ HasNext(t) /\ UNCHANGED delivery
      /\ \A u \in Topic \ {t} : SameCall(u)
  BY WorkTells DEF Ingest, Answering
<1>3. PICK o : o = NextOffset(t) OBVIOUS
<1>4. phase[t] = "ingesting" BY <1>2 DEF PipelineIInv, CallerOK
<1>5. PICK k : k = KeyOf(Current(t)) OBVIOUS
<1>6. k = Stream!KeyAt(t, o) BY <1>2, <1>3, <1>5, CurrentRecord, SameReading
<1>7. Told(k, outcome) BY <1>5 DEF Answering
<1>8. outcome.status \in Stream!PortAnswer(k)
  BY <1>7 DEF Told, Stream!PortAnswer, PipelineIInv
<1>9. AcceptedKeys' = IF outcome.status = "accepted" THEN AcceptedKeys \cup {k}
                      ELSE AcceptedKeys
  BY <1>7 DEF Told
<1>10. Stream!Resolve(outcome.status) = DispositionOf(outcome)
  BY <1>7 DEF Told, Stream!Resolve, DispositionOf
<1>11. Alone(t) BY <1>2, LeftAlone DEF delivery, Alone, CallerLeft
<1>12. Disposed(t)' = Put(Disposed(t), o, DispositionOf(outcome))
  <2>1. /\ outcomes[t] \in Seq(Outcome)
        /\ outcomes'[t] = Append(outcomes[t], outcome)
    BY <1>1 DEF IInv, TypeOK, Answering
  <2>2. Asked(t)' = Asked(t) /\ disposed'[t] = disposed[t]
    BY <1>2 DEF delivery, Asked
  <2>3. PICK U : U = UsableIn(t, committed[t] + 1, through[t]) OBVIOUS
  <2>4. Lists(Asked(t), U) BY <2>3, AskedLists
  <2>5. Len(outcomes[t]) < Len(Asked(t)) BY <1>2, CurrentRecord
  <2>6. U \subseteq Nat BY <2>3 DEF UsableIn, PipelineIInv
  <2>7. U \cap DOMAIN disposed[t] = {}
    BY <1>2, <2>3 DEF UsableIn, Usable, InBatch, PipelineIInv, CallerOK
  <2>8. Placed(disposed[t], Asked(t), Append(outcomes[t], outcome))
          = Put(Placed(disposed[t], Asked(t), outcomes[t]),
                Asked(t)[Len(outcomes[t]) + 1], DispositionOf(outcome))
    <3>1. PICK d, s, a : d = disposed[t] /\ s = Asked(t) /\ a = outcomes[t] OBVIOUS
    <3>2. /\ Lists(s, U) /\ a \in Seq(Outcome) /\ Len(a) < Len(s)
          /\ U \cap DOMAIN d = {} /\ U \subseteq Nat
      BY <2>1, <2>4, <2>5, <2>6, <2>7, <3>1
    <3>3. Filled(d, s, a, outcome) BY ONLY <3>2, outcome \in Outcome, PlacedNext
    <3> QED BY <3>1, <3>3 DEF Filled
  <2> QED BY <1>3, <2>1, <2>2, <2>8 DEF Disposed, NextOffset
<1>13. Slots' = [Slots EXCEPT ![t] = Put(Disposed(t), o, DispositionOf(outcome))]
  BY <1>11, <1>12, SlotsOfOne
<1>14. Slots' = [Slots EXCEPT ![t] =
                   [p \in DOMAIN @ \cup {o} |->
                      IF p = o THEN Stream!Resolve(outcome.status) ELSE @[p]]]
  BY <1>10, <1>13 DEF Put, Slots
<1>15. /\ o \in Stream!Pending(t) /\ \A p \in Stream!Pending(t) : o <= p
  BY <1>2, <1>3, PendingIsAsked
<1> QED BY <1>2, <1>3, <1>4, <1>6, <1>8, <1>9, <1>14, <1>15 DEF Stream!Ingest, delivery
\* What the service does between answers is not the consumer's business.
LEMMA StreamWaits ==
    ASSUME IInv, PipelineIInv, NEW t \in Topic, Ingest(t), Quiet(t)
    PROVE  UNCHANGED Stream!vars
<1>1. /\ crashes' = crashes /\ UNCHANGED delivery /\ outcomes' = outcomes /\ ledger' = ledger
  BY WorkTells DEF Ingest, Quiet
<1>2. \A u \in Topic : Disposed(u)' = Disposed(u) BY <1>1 DEF delivery, Disposed, Asked
<1>3. Slots' = Slots BY <1>2 DEF Slots
<1>4. AcceptedKeys' = AcceptedKeys BY <1>1 DEF AcceptedKeys
<1> QED BY <1>1, <1>3, <1>4 DEF Stream!vars, delivery

LEMMA StreamCollects ==
    ASSUME IInv, PipelineIInv, NEW t \in Topic, Collect(t)
    PROVE  UNCHANGED Stream!vars
<1>1. /\ Return(t) /\ disposed' = [disposed EXCEPT ![t] = Disposed(t)]
      /\ UNCHANGED <<published, committed, letters, phase, through>>
  BY DEF Collect
<1>2. /\ outcomes'[t] = <<>> /\ ledger' = ledger /\ crashes' = crashes
      /\ \A u \in Topic \ {t} : SameCall(u)
  BY <1>1, ForgottenCall DEF Return, stores
<1>3. Alone(t) BY <1>1, <1>2, LeftAlone DEF Alone, CallerLeft, PipelineIInv
<1>4. disposed'[t] = Disposed(t) BY <1>1 DEF PipelineIInv
<1>5. Disposed(t)' = Disposed(t)
  <2>1. Disposed(t)' = Placed(disposed'[t], Asked(t)', <<>>) BY <1>2 DEF Disposed
  <2>2. PICK d, s, a, z : /\ d = disposed[t] /\ s = Asked(t) /\ a = outcomes[t]
                          /\ z = Asked(t)'
    OBVIOUS
  <2>3. Placed(Placed(d, s, a), z, <<>>) = Placed(d, s, a) BY ONLY PlacedAgain
  <2> QED BY <1>4, <2>1, <2>2, <2>3 DEF Disposed
<1>6. Slots' = Slots
  <2>1. \A u \in Topic : Disposed(u)' = Disposed(u) BY <1>3, <1>5, SlotsStay DEF Alone
  <2> QED BY <2>1 DEF Slots
<1>7. AcceptedKeys' = AcceptedKeys BY <1>2 DEF AcceptedKeys
<1> QED BY <1>1, <1>2, <1>6, <1>7 DEF Stream!vars

\* Without a call of the service every slot is the consumer's own.
LEMMA OwnSlots ==
    ASSUME IInv, NEW t \in Topic, pc[t] = "idle"
    PROVE  /\ DOMAIN Disposed(t) = DOMAIN disposed[t]
           /\ \A o \in DOMAIN disposed[t] : Disposed(t)[o] = disposed[t][o]
<1>1. PICK d, s : d = disposed[t] /\ s = Asked(t) OBVIOUS
<1>2. Disposed(t) = Placed(d, s, <<>>) BY <1>1, IdleHasNoAnswers DEF Disposed
<1>3. Placed(d, s, <<>>) = [o \in DOMAIN d |-> d[o]] BY ONLY PlacedNone
<1> QED BY <1>1, <1>2, <1>3

LEMMA StreamCaptures ==
    ASSUME IInv, PipelineIInv, NEW t \in Topic, Capture(t)
    PROVE  Stream!Capture(t)
<1>1. /\ phase[t] = "ingesting" /\ phase' = [phase EXCEPT ![t] = "acking"]
      /\ UNCHANGED <<vars, published, committed, through, disposed>>
      /\ InBatch(t) \subseteq DOMAIN disposed[t]
  BY DEF Capture
<1>2. letters' = letters \cup
         {<<t, o, IF Decoding!Verdict(t, o) = "ok" THEN "rejected_by_ingestion"
                  ELSE Decoding!Verdict(t, o)>> :
            o \in {o \in InBatch(t) : disposed[t][o] = "dead_lettered"}}
  BY DEF Capture
<1>3. pc[t] = "idle" BY <1>1, CaptureAfterCall
<1>4. /\ DOMAIN Slots[t] = DOMAIN disposed[t]
      /\ \A o \in DOMAIN disposed[t] : Slots[t][o] = disposed[t][o]
  BY <1>3, OwnSlots DEF Slots
<1>5. Stream!InBatch(t) = InBatch(t) BY DEF Stream!InBatch, InBatch
<1>6. Stream!Pending(t) = {} BY <1>1, <1>4, <1>5 DEF Stream!Pending
<1>7. {o \in InBatch(t) : Slots[t][o] = "dead_lettered"}
        = {o \in InBatch(t) : disposed[t][o] = "dead_lettered"}
  BY <1>1, <1>4
<1>8. \A o : Stream!Reason(t, o) = IF Decoding!Verdict(t, o) = "ok" THEN "rejected_by_ingestion"
                                   ELSE Decoding!Verdict(t, o)
  BY SameReading DEF Stream!Reason
<1>9. letters' = letters \cup Stream!DeadLettersOf(t)
  BY <1>2, <1>5, <1>7, <1>8 DEF Stream!DeadLettersOf
<1>10. \A u \in Topic : Disposed(u)' = Disposed(u) BY <1>1 DEF vars, Disposed, Asked
<1>11. Slots' = Slots BY <1>10 DEF Slots
<1>12. AcceptedKeys' = AcceptedKeys /\ crashes' = crashes BY <1>1 DEF vars, AcceptedKeys
<1> QED BY <1>1, <1>6, <1>9, <1>11, <1>12 DEF Stream!Capture

\* Slots that are emptied.
LEMMA SlotsEmptied ==
    ASSUME IInv, PipelineIInv, NEW t \in Topic, Alone(t), outcomes'[t] = <<>>,
           disposed' = [disposed EXCEPT ![t] = [o \in {} |-> "none"]]
    PROVE  Slots' = [Slots EXCEPT ![t] = Stream!NoDispositions]
<1>1. disposed'[t] = [o \in {} |-> "none"] BY DEF PipelineIInv
<1>2. PICK s : s = Asked(t)' OBVIOUS
<1>3. Disposed(t)' = Placed([o \in {} |-> "none"], s, <<>>) BY <1>1, <1>2 DEF Disposed
<1>4. Disposed(t)' = [o \in {} |-> "none"] BY <1>3, PlacedNone
<1> QED BY <1>4, SlotsOfOne DEF Stream!NoDispositions

\* No answer of the service holds a record back.
LEMMA StreamAcks ==
    ASSUME IInv, PipelineIInv, NEW t \in Topic, Ack(t)
    PROVE  Stream!Ack(t)
<1>1. /\ phase[t] = "acking" /\ phase' = [phase EXCEPT ![t] = "idle"]
      /\ committed' = [committed EXCEPT ![t] = through[t]]
      /\ disposed' = [disposed EXCEPT ![t] = [o \in {} |-> "none"]]
      /\ UNCHANGED <<vars, published, letters, through>>
  BY DEF Ack
<1>2. pc[t] = "idle" BY <1>1 DEF PipelineIInv, CallerOK
<1>3. /\ committed[t] \in Nat /\ through[t] \in Nat /\ committed[t] < through[t]
      /\ InBatch(t) \subseteq DOMAIN disposed[t]
  BY <1>1 DEF PipelineIInv, CallerOK
<1>4. \A o \in InBatch(t) : Slots[t][o] # "retry"
  <2>1. \A o \in DOMAIN disposed[t] : /\ Slots[t][o] = disposed[t][o]
                                      /\ disposed[t][o] \in {"ingested", "duplicate", "dead_lettered"}
    BY <1>2, OwnSlots DEF Slots, PipelineIInv, CallerOK
  <2> QED BY <1>3, <2>1
<1>5. Stream!IsWatermark(t, through[t])
  BY <1>3, <1>4 DEF Stream!IsWatermark, InBatch
<1>6. \A u \in Topic : SameCall(u) BY <1>1 DEF vars, SameCall
<1>7. Alone(t) BY <1>1, <1>6, LeftAlone DEF Alone, CallerLeft, PipelineIInv
<1>8. outcomes'[t] = <<>> BY <1>1, <1>2, IdleHasNoAnswers DEF vars
<1>9. Slots' = [Slots EXCEPT ![t] = Stream!NoDispositions] BY <1>1, <1>7, <1>8, SlotsEmptied
<1>10. AcceptedKeys' = AcceptedKeys /\ crashes' = crashes BY <1>1 DEF vars, AcceptedKeys
<1>11. through[t] \in committed[t]..through[t] BY <1>3
<1> QED BY <1>1, <1>5, <1>9, <1>10, <1>11 DEF Stream!Ack

LEMMA StreamFails ==
    ASSUME IInv, PipelineIInv, NEW t \in Topic, Fail(t)
    PROVE  Stream!Fail(t)
<1>1. /\ phase[t] # "idle" /\ crashes < MaxCrashes /\ crashes' = crashes + 1
      /\ Forget(t) /\ phase' = [phase EXCEPT ![t] = "idle"]
      /\ disposed' = [disposed EXCEPT ![t] = [o \in {} |-> "none"]]
      /\ UNCHANGED <<stores, published, committed, letters, through>>
  BY DEF Fail
<1>2. outcomes'[t] = <<>> /\ ledger' = ledger /\ \A u \in Topic \ {t} : SameCall(u)
  BY <1>1, ForgottenCall DEF stores
<1>3. Alone(t) BY <1>1, <1>2, LeftAlone DEF Alone, CallerLeft, PipelineIInv
<1>4. Slots' = [Slots EXCEPT ![t] = Stream!NoDispositions] BY <1>1, <1>2, <1>3, SlotsEmptied
<1>5. AcceptedKeys' = AcceptedKeys BY <1>2 DEF AcceptedKeys
<1> QED BY <1>1, <1>4, <1>5 DEF Stream!Fail

LEMMA StreamStutters ==
    ASSUME UNCHANGED pipelineVars
    PROVE  UNCHANGED Stream!vars
<1>1. \A u \in Topic : Disposed(u)' = Disposed(u)
  BY DEF pipelineVars, vars, delivery, Disposed, Asked
<1>2. Slots' = Slots BY <1>1 DEF Slots
<1>3. AcceptedKeys' = AcceptedKeys BY DEF pipelineVars, vars, AcceptedKeys
<1> QED BY <1>2, <1>3 DEF pipelineVars, vars, delivery, Stream!vars

LEMMA StepOfStream ==
    ASSUME IInv, PipelineIInv, [PipelineNext]_pipelineVars
    PROVE  Stream!Next \/ UNCHANGED Stream!vars
<1>1. ASSUME NEW t \in Topic, Publish(t) PROVE Stream!Next
  BY <1>1, StreamPublishes DEF Stream!Next
<1>2. ASSUME NEW t \in Topic, NEW n \in 1..Len(Log[t]), Deliver(t, n) PROVE Stream!Next
  BY <1>2, StreamDelivers DEF Stream!Next, Stream!Consume
<1>3. ASSUME NEW t \in Topic, Ingest(t) PROVE Stream!Next \/ UNCHANGED Stream!vars
  <2>1. Quiet(t) \/ \E outcome \in Outcome : Answering(t, outcome)
    BY <1>3, WorkTells DEF Ingest
  <2>2. CASE Quiet(t) BY <1>3, <2>2, StreamWaits
  <2>3. ASSUME NEW outcome \in Outcome, Answering(t, outcome) PROVE Stream!Next
    <3>1. Stream!Ingest(t, NextOffset(t), outcome.status) BY <1>3, <2>3, StreamIngests
    <3>2. NextOffset(t) \in 1..Len(Log[t])
      BY <1>3, <2>3, WorkTells, CurrentRecord DEF Ingest, Answering
    <3>3. outcome.status \in Stream!Answer BY <2>3 DEF Answering, Told, Stream!Answer
    <3> QED BY <3>1, <3>2, <3>3 DEF Stream!Next, Stream!Consume
  <2> QED BY <2>1, <2>2, <2>3
<1>4. ASSUME NEW t \in Topic, Collect(t) PROVE UNCHANGED Stream!vars
  BY <1>4, StreamCollects
<1>5. ASSUME NEW t \in Topic, Capture(t) PROVE Stream!Next
  BY <1>5, StreamCaptures DEF Stream!Next, Stream!Consume
<1>6. ASSUME NEW t \in Topic, Ack(t) PROVE Stream!Next
  BY <1>6, StreamAcks DEF Stream!Next, Stream!Consume
<1>7. ASSUME NEW t \in Topic, Fail(t) PROVE Stream!Next
  BY <1>7, StreamFails DEF Stream!Next
<1>8. CASE UNCHANGED pipelineVars BY <1>8, StreamStutters
<1> QED BY <1>1, <1>2, <1>3, <1>4, <1>5, <1>6, <1>7, <1>8 DEF PipelineNext, Consume

\* Run await by await, with its calls interleaved and dying anywhere, the service is
\* the ingestion port that the consumer was checked and proved against.
THEOREM PortContractKept == PipelineSpec => KeepsPortContract
<1>1. PipelineInit => Stream!Init BY StreamInit
<1>2. IInv /\ PipelineIInv /\ [PipelineNext]_pipelineVars => Stream!Next \/ UNCHANGED Stream!vars
  BY StepOfStream
<1> QED BY <1>1, <1>2, PipelineInvariance, PTL DEF PipelineSpec, KeepsPortContract, Stream!Spec
----------------------------------------------------------------------------
(***************************************************************************)
(* What the consumer keeps, the pipeline keeps.                            *)
(***************************************************************************)

Consumer == INSTANCE DetectionStreamProofs WITH
    accepted    <- AcceptedKeys,
    Refused     <- RefusedKeys,
    disposed    <- Slots,
    failures    <- crashes,
    MaxFailures <- MaxCrashes

LEMMA ConsumerKeeps == Consumer!Spec => []Consumer!IInv
<1>1. /\ BoundTo \in [Topic -> Retailer \cup {Consumer!Unbound}]
      /\ Consumer!Unbound \notin Retailer /\ Consumer!NoKey \notin Retailer
      /\ Log \in [Topic -> Seq(Consumer!Record)]
  BY PipelineAssumption DEF Consumer!Unbound, Consumer!NoKey, Consumer!Record,
     Consumer!PayloadFault, Decoding!Unbound, Decoding!NoKey, Decoding!Record,
     Decoding!PayloadFault
<1>2. RefusedKeys \subseteq Retailer \X EventId /\ MaxCrashes \in Nat
  BY PipelineAssumption, IngestionAssumption DEF RefusedKeys, KeyOf, DetectionEvent
<1> QED BY <1>1, <1>2, Consumer!Invariance

\* The consumer refined above and the one proved about are one.
LEMMA SameConsumer ==
    /\ Stream!Init => Consumer!Init
    /\ Stream!vars = Consumer!vars
    /\ Stream!Next => Consumer!Next
<1>1. Stream!vars = Consumer!vars BY DEF Stream!vars, Consumer!vars
<1>2. Stream!Init => Consumer!Init
  BY DEF Stream!Init, Consumer!Init, Stream!NoDispositions, Consumer!NoDispositions
<1>3. \A t, o : /\ Stream!Verdict(t, o) = Consumer!Verdict(t, o)
                /\ Stream!KeyAt(t, o) = Consumer!KeyAt(t, o)
  BY DEF Stream!Verdict, Consumer!Verdict, Stream!KeyAt, Consumer!KeyAt, Stream!RecordAt,
     Consumer!RecordAt, Stream!Unbound, Consumer!Unbound
<1>4. \A t : Stream!Publish(t) <=> Consumer!Publish(t)
  BY DEF Stream!Publish, Consumer!Publish
<1>5. \A t, n : Stream!Deliver(t, n) <=> Consumer!Deliver(t, n)
  BY <1>3 DEF Stream!Deliver, Consumer!Deliver
<1>6. \A t : Stream!InBatch(t) = Consumer!InBatch(t) /\ Stream!Pending(t) = Consumer!Pending(t)
  BY DEF Stream!InBatch, Consumer!InBatch, Stream!Pending, Consumer!Pending
<1>7. \A t, o, a : Stream!Ingest(t, o, a) <=> Consumer!Ingest(t, o, a)
  BY <1>3, <1>6 DEF Stream!Ingest, Consumer!Ingest, Stream!PortAnswer, Consumer!PortAnswer,
     Stream!Resolve, Consumer!Resolve
<1>8. \A t : Stream!Capture(t) <=> Consumer!Capture(t)
  BY <1>3, <1>6 DEF Stream!Capture, Consumer!Capture, Stream!DeadLettersOf,
     Consumer!DeadLettersOf, Stream!Reason, Consumer!Reason
<1>9. \A t : Stream!Ack(t) <=> Consumer!Ack(t)
  BY DEF Stream!Ack, Consumer!Ack, Stream!IsWatermark, Consumer!IsWatermark,
     Stream!NoDispositions, Consumer!NoDispositions
<1>10. \A t : Stream!Fail(t) <=> Consumer!Fail(t)
  BY DEF Stream!Fail, Consumer!Fail, Stream!NoDispositions, Consumer!NoDispositions
<1>11. Stream!Idle <=> Consumer!Idle
  BY DEF Stream!Idle, Consumer!Idle, Stream!Drained, Consumer!Drained, Stream!vars,
     Consumer!vars
<1>12. \A t : Stream!Consume(t) <=> Consumer!Consume(t)
  BY <1>5, <1>7, <1>8, <1>9 DEF Stream!Consume, Consumer!Consume, Stream!Answer, Consumer!Answer
<1>13. Stream!Next => Consumer!Next
  BY <1>4, <1>10, <1>11, <1>12 DEF Stream!Next, Consumer!Next
<1> QED BY <1>1, <1>2, <1>13

LEMMA PipelineConsumes == PipelineSpec => []Consumer!IInv
<1>1. PipelineInit => Consumer!Init BY StreamInit, SameConsumer
<1>2. IInv /\ PipelineIInv /\ [PipelineNext]_pipelineVars
        => Consumer!Next \/ UNCHANGED Consumer!vars
  <2>1. Stream!vars' = Consumer!vars' BY DEF Stream!vars, Consumer!vars
  <2> QED BY <2>1, StepOfStream, SameConsumer
<1> QED BY <1>1, <1>2, PipelineInvariance, ConsumerKeeps, PTL DEF PipelineSpec, Consumer!Spec

----------------------------------------------------------------------------
(***************************************************************************)
(* What is committed has reached the shelf.                                *)
(***************************************************************************)

\* A call holds facings of its own topic only.
LEMMA TopicsHoldTheirOwn ==
    ASSUME IInv, PipelineIInv, NEW t \in Topic
    PROVE  Held(t) \subseteq FacingsOf(t)
<1> SUFFICES ASSUME pc[t] \in {"fold", "save"},
                    NEW f \in Touched(Current(t))
             PROVE  <<Current(t).retailer, f>> \in FacingsOf(t)
  BY DEF Held
<1>1. t \in Handler BY PipelineAssumption
<1>2. HasNext(t) /\ pc[t] # "idle" BY <1>1 DEF IInv, CallOK
<1>3. PICK o : o = NextOffset(t) OBVIOUS
<1>4. o \in 1..Len(Log[t]) /\ Usable(t, o) /\ Current(t) = EventAt(t, o)
  BY <1>2, <1>3, CurrentRecord
<1>5. EventAt(t, o).retailer = BoundTo[t] BY <1>4, UsableRecord
<1> QED BY <1>4, <1>5 DEF FacingsOf, Usable, EventAt

LEMMA ApartTopicsHoldApart ==
    ASSUME TopicsApart, IInv, PipelineIInv
    PROVE  HeldApart
BY TopicsHoldTheirOwn, PipelineAssumption DEF TopicsApart, HeldApart

LEMMA PipelineSerialNext ==
    ASSUME IInv, PipelineIInv, SerialInv, HeldApart, [PipelineNext]_pipelineVars
    PROVE  SerialInv'
<1>1. CASE [Next]_vars BY <1>1, KeysNameEvents, ServiceKeeps, SerialNext
<1>2. ASSUME NEW t \in Handler, FailsIdle(t) PROVE SerialInv'
  <2>1. IInv' /\ Aside(t) BY <1>2, FailsIdleKeeps
  <2>2. ledger' = ledger /\ TypeOK' BY <1>2, <2>1 DEF FailsIdle, stores, IInv
  <2> QED BY <2>1, <2>2, KeysNameEvents, AsideKeeps
<1> QED BY <1>1, <1>2, StepOfService

\* A record whose event the service does not refuse is one it works on.
LEMMA RecordIsDeliverable ==
    ASSUME NEW t \in Topic, NEW o \in 1..Len(Log[t]), Usable(t, o),
           Decoding!KeyAt(t, o) \notin RefusedKeys
    PROVE  EventAt(t, o) \in Deliverable
<1>1. o \in Nat OBVIOUS
<1>2. PICK s : s = Decoded(t, o, o) OBVIOUS
<1>3. Lists(s, UsableIn(t, o, o)) BY <1>1, <1>2, DecodedLists
<1>4. UsableIn(t, o, o) = {o} BY <1>1 DEF UsableIn
<1>5. PICK i \in 1..Len(s) : s[i] = o BY <1>3, <1>4 DEF Lists
<1>6. s # <<>> BY <1>5
<1>7. PICK b : b = BatchOf(t, o, o) OBVIOUS
<1>8. b \in Batches BY <1>2, <1>6, <1>7, BatchIsExpected
<1>9. s \in Seq({o}) BY <1>3, <1>4 DEF Lists
<1>10. /\ b.events = [j \in 1..Len(s) |-> EventAt(t, s[j])]
       /\ b.retailer = BoundTo[t]
  BY <1>2, <1>7 DEF BatchOf, EventAt
<1>11. EventAt(t, o) \in EventsOf(b)
  <2>1. Len(b.events) = Len(s) BY <1>9, <1>10
  <2> QED BY <1>5, <1>10, <2>1 DEF EventsOf
<1>12. Refusal(b, EventAt(t, o)) = "none"
  BY <1>10, UsableRecord DEF Refusal, PartitionMismatch
<1>13. Touched(EventAt(t, o)) = Stored(EventAt(t, o))
  BY UsableRecord DEF RefusedKeys, EventAt
<1> QED BY <1>8, <1>11, <1>12, <1>13 DEF Deliverable

\* What the consumer commits the port has accepted, and what it has accepted is stored.
LEMMA CommittedIsStored ==
    ASSUME PipelineIInv, Consumer!IInv, AcceptedIsApplied
    PROVE  CommittedIsApplied
<1> SUFFICES ASSUME NEW t \in Topic, NEW o \in 1..committed[t], Usable(t, o),
                    Decoding!KeyAt(t, o) \notin RefusedKeys
             PROVE  \A f \in Touched(EventAt(t, o)) :
                      facings[<<Decoding!KeyAt(t, o)[1], f>>].observed[EventAt(t, o).source]
                        >= EventAt(t, o).at
  BY DEF CommittedIsApplied, Usable, EventAt
<1>1. o \in 1..Len(Log[t])
  BY PipelineAssumption DEF PipelineIInv, CallerOK
<1>2. PICK e, k : e = EventAt(t, o) /\ k = Decoding!KeyAt(t, o) OBVIOUS
<1>3. Consumer!Verdict(t, o) = "ok" /\ Consumer!KeyAt(t, o) = k
  BY <1>2, SameReading DEF Consumer!Verdict, Consumer!KeyAt, Consumer!RecordAt, Consumer!Unbound,
     Stream!Verdict, Stream!KeyAt, Stream!RecordAt, Stream!Unbound, Usable
<1>4. ~Consumer!Filed(t, o)
  BY <1>2, <1>3 DEF Consumer!IInv, Consumer!Filed, Consumer!Unusable
<1>5. k \in AcceptedKeys
  BY <1>3, <1>4 DEF Consumer!IInv, Consumer!NothingLost, Consumer!Settled, Consumer!Ingested
<1>6. e \in Deliverable /\ KeyOf(e) = k BY <1>1, <1>2, RecordIsDeliverable, UsableRecord
<1>7. Applied(e) BY <1>5, <1>6 DEF AcceptedIsApplied, WasAccepted, AcceptedKeys
<1>8. k[1] = e.retailer BY <1>6 DEF KeyOf
<1> QED BY <1>2, <1>7, <1>8 DEF Applied

\* What the stream may forget is part of the facings it was about, wherever calls died,
\* as long as no two calls hold one facing between load and save.
THEOREM CommittedReachesFacings ==
    PipelineSpec /\ []HeldApart => []CommittedIsApplied
<1>1. PipelineInit => SerialInv BY SettledInit DEF PipelineInit
<1>2. IInv /\ PipelineIInv /\ SerialInv /\ HeldApart /\ [PipelineNext]_pipelineVars => SerialInv'
  BY PipelineSerialNext
<1>3. PipelineIInv /\ Consumer!IInv /\ SerialInv => CommittedIsApplied
  BY CommittedIsStored DEF SerialInv
<1> QED BY <1>1, <1>2, <1>3, PipelineInvariance, PipelineConsumes, PTL DEF PipelineSpec

\* Topics that carry observations of different facings owe the service nothing more.
THEOREM ApartTopicsReachFacings ==
    ASSUME TopicsApart
    PROVE  PipelineSpec => []CommittedIsApplied
<1>1. IInv /\ PipelineIInv => HeldApart BY ApartTopicsHoldApart
<1> QED BY <1>1, PipelineInvariance, CommittedReachesFacings, PTL
============================================================================
