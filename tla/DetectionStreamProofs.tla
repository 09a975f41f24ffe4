------------------------ MODULE DetectionStreamProofs ------------------------
(***************************************************************************)
(* The consumer loses nothing and mixes nothing up, for every set of       *)
(* topics, every log and any number of failures.                           *)
(***************************************************************************)
EXTENDS DetectionStream, TLAPS

\* A record that decodes is sound and came on its retailer's topic under its key.
LEMMA DecodedAgrees ==
    ASSUME NEW t \in Topic, NEW o \in 1..Len(Log[t]), Verdict(t, o) = "ok"
    PROVE  /\ KeyAt(t, o)[1] = BoundTo[t]
           /\ KeyAt(t, o)[1] = RecordAt(t, o).key
           /\ RecordAt(t, o).fault = "none"
           /\ KeyAt(t, o) \in Retailer \X EventId
<1>1. Log[t] \in Seq(Record)
  BY DecodingAssumption
<1>2. RecordAt(t, o) \in Record
  BY <1>1 DEF RecordAt
<1>3. /\ RecordAt(t, o).fault = "none"
      /\ RecordAt(t, o).envelope = BoundTo[t]
      /\ RecordAt(t, o).key = RecordAt(t, o).envelope
  <2>1. BoundTo[t] # Unbound
    BY DEF Verdict
  <2>2. RecordAt(t, o).fault = "none"
    BY <1>2, <2>1 DEF Verdict, Record, PayloadFault
  <2>. QED
    BY <2>1, <2>2 DEF Verdict
<1>. QED
  BY <1>2, <1>3 DEF KeyAt, Record

\* An offset of a log is a number.
LEMMA LogLength == \A t \in Topic : Len(Log[t]) \in Nat
BY DecodingAssumption

----------------------------------------------------------------------------
(***************************************************************************)
(* A step of one topic's call leaves the other topics' calls in order as   *)
(* long as the port and the sink only gain.                                *)
(***************************************************************************)
SameCall(t) ==
    /\ phase'[t] = phase[t]
    /\ committed'[t] = committed[t]
    /\ through'[t] = through[t]
    /\ disposed'[t] = disposed[t]
    /\ published'[t] >= published[t]

StoresGrow == accepted \subseteq accepted' /\ letters \subseteq letters'

LEMMA SettledGrows ==
    ASSUME StoresGrow, NEW t, NEW o
    PROVE  /\ Ingested(t, o) => Ingested(t, o)'
           /\ Filed(t, o) => Filed(t, o)'
           /\ Settled(t, o) => Settled(t, o)'
           /\ Verdict(t, o)' = Verdict(t, o)
           /\ Unusable(t, o)' = Unusable(t, o)
           /\ KeyAt(t, o)' = KeyAt(t, o)
BY DEF StoresGrow, Settled, Ingested, Filed, Verdict, Unusable, KeyAt, RecordAt

LEMMA SameCallKeepsOK ==
    ASSUME TypeOK, TypeOK', StoresGrow, NEW t \in Topic, SameCall(t), CallOK(t)
    PROVE  CallOK(t)'
<1>. SUFFICES ASSUME phase[t] # "idle"
              PROVE  CallOK(t)'
  BY DEF SameCall, CallOK
<1>1. InBatch(t)' = InBatch(t)
  BY DEF SameCall, InBatch
<1>2. through'[t] <= published'[t]
  BY DEF SameCall, CallOK, TypeOK
<1>3. \A o : /\ Ingested(t, o) => Ingested(t, o)'
             /\ Filed(t, o) => Filed(t, o)'
             /\ Verdict(t, o)' = Verdict(t, o)
             /\ Unusable(t, o)' = Unusable(t, o)
  BY SettledGrows
<1>4. committed'[t] <= through'[t] /\ DOMAIN disposed'[t] \subseteq InBatch(t)'
  BY <1>1 DEF SameCall, CallOK
<1>5. \A o \in InBatch(t)' : Verdict(t, o)' # "ok" => o \in DOMAIN disposed'[t]
  BY <1>1, <1>3 DEF SameCall, CallOK
<1>6. \A o \in DOMAIN disposed'[t] :
        /\ disposed'[t][o] \in {"ingested", "duplicate"} => Ingested(t, o)'
        /\ disposed'[t][o] = "dead_lettered" => Unusable(t, o)'
  BY <1>3 DEF SameCall, CallOK
<1>7. phase'[t] = "acking" =>
        /\ DOMAIN disposed'[t] = InBatch(t)'
        /\ \A o \in InBatch(t)' : disposed'[t][o] = "dead_lettered" => Filed(t, o)'
  BY <1>1, <1>3 DEF SameCall, CallOK
<1>. QED
  BY <1>2, <1>4, <1>5, <1>6, <1>7 DEF CallOK

\* What is committed stays settled.
LEMMA NothingLostKept ==
    ASSUME NothingLost, StoresGrow, committed' = committed
    PROVE  NothingLost'
BY SettledGrows DEF NothingLost

\* Accepted events keep the records that brought them.
LEMMA SourcesAgreeKept ==
    ASSUME TypeOK, TypeOK', SourcesAgree, accepted' = accepted,
           \A t \in Topic : published'[t] >= published[t]
    PROVE  SourcesAgree'
<1>1. \A t \in Topic : 1..published[t] \subseteq 1..published'[t]
  BY DEF TypeOK
<1>. QED
  BY <1>1 DEF SourcesAgree, KeyAt, RecordAt

----------------------------------------------------------------------------
LEMMA InitOK == Init => IInv
<1>. SUFFICES ASSUME Init PROVE IInv
  OBVIOUS
<1>1. TypeOK
  BY LogLength DEF Init, TypeOK, Phase, NoDispositions
<1>. QED
  BY <1>1 DEF Init, IInv, NothingLost, SourcesAgree, CallOK

LEMMA PublishOK ==
    ASSUME IInv, NEW t \in Topic, Publish(t)
    PROVE  IInv'
<1>1. TypeOK'
  BY LogLength DEF IInv, TypeOK, Publish
<1>2. StoresGrow /\ \A u \in Topic : SameCall(u)
  BY DEF IInv, TypeOK, Publish, StoresGrow, SameCall
<1>3. \A u \in Topic : CallOK(u)'
  BY <1>1, <1>2, SameCallKeepsOK DEF IInv
<1>4. NothingLost' /\ SourcesAgree'
  BY <1>1, <1>2, NothingLostKept, SourcesAgreeKept DEF IInv, Publish, SameCall
<1>. QED
  BY <1>1, <1>2, <1>3, <1>4, SettledGrows DEF IInv, Publish

LEMMA DeliverOK ==
    ASSUME IInv, NEW t \in Topic, NEW n \in Nat, Deliver(t, n)
    PROVE  IInv'
<1> DEFINE bad == {o \in (committed[t] + 1)..n : Verdict(t, o) # "ok"}
           d   == [o \in bad |-> "dead_lettered"]
<1>1. /\ phase' = [phase EXCEPT ![t] = "ingesting"]
      /\ through' = [through EXCEPT ![t] = n]
      /\ disposed' = [disposed EXCEPT ![t] = d]
      /\ committed[t] <= n /\ n <= published[t]
      /\ UNCHANGED <<published, committed, accepted, letters, failures>>
  BY DEF Deliver, IInv, TypeOK
<1>2. DOMAIN d = bad /\ \A o \in bad : d[o] = "dead_lettered"
  OBVIOUS
<1>. HIDE DEF d
<1>3. /\ disposed'[t] = d /\ phase'[t] = "ingesting" /\ through'[t] = n
      /\ \A u \in Topic \ {t} : SameCall(u)
  BY <1>1 DEF IInv, TypeOK, SameCall
<1>4. TypeOK'
  BY <1>1, <1>2, <1>3 DEF IInv, TypeOK, Phase, Disposition, SameCall
<1>5. StoresGrow
  BY <1>1 DEF StoresGrow
<1>6. CallOK(t)'
  <2>1. InBatch(t)' = (committed[t] + 1)..n
    BY <1>1, <1>3 DEF InBatch
  <2>2. \A o \in bad : Unusable(t, o)'
    BY <1>5, SettledGrows DEF Unusable
  <2>3. \A o : Verdict(t, o)' = Verdict(t, o)
    BY <1>5, SettledGrows
  <2>. QED
    BY <1>1, <1>2, <1>3, <2>1, <2>2, <2>3 DEF CallOK
<1>7. \A u \in Topic : CallOK(u)'
  BY <1>3, <1>4, <1>5, <1>6, SameCallKeepsOK DEF IInv
<1>8. NothingLost' /\ SourcesAgree'
  BY <1>1, <1>4, <1>5, NothingLostKept, SourcesAgreeKept DEF IInv, TypeOK
<1>. QED
  BY <1>1, <1>4, <1>5, <1>7, <1>8, SettledGrows DEF IInv

LEMMA IngestOK ==
    ASSUME IInv, NEW t \in Topic, NEW o \in 1..Len(Log[t]), NEW a \in Answer,
           Ingest(t, o, a)
    PROVE  IInv'
<1> DEFINE k == KeyAt(t, o)
           d == [p \in DOMAIN disposed[t] \cup {o} |->
                   IF p = o THEN Resolve(a) ELSE disposed[t][p]]
<1>1. /\ phase[t] = "ingesting" /\ o \in InBatch(t) /\ o \notin DOMAIN disposed[t]
      /\ a \in PortAnswer(k)
      /\ disposed' = [disposed EXCEPT ![t] = d]
      /\ accepted' = IF a = "accepted" THEN accepted \cup {k} ELSE accepted
      /\ UNCHANGED <<published, committed, letters, phase, through, failures>>
  BY DEF Ingest, Pending
<1>2. /\ DOMAIN d = DOMAIN disposed[t] \cup {o}
      /\ d[o] = Resolve(a)
      /\ \A p \in DOMAIN disposed[t] : d[p] = disposed[t][p]
  BY <1>1
<1>. HIDE DEF d
<1>3. CallOK(t) /\ committed[t] \in Nat /\ through[t] \in Nat /\ published[t] \in Nat
      /\ Verdict(t, o) = "ok" /\ o \in 1..published[t]
  BY <1>1 DEF IInv, TypeOK, CallOK, InBatch
<1>4. /\ k[1] = BoundTo[t] /\ k[1] = RecordAt(t, o).key
      /\ RecordAt(t, o).fault = "none" /\ k \in Retailer \X EventId
  BY <1>3, DecodedAgrees
<1>5. /\ disposed'[t] = d
      /\ \A u \in Topic \ {t} : SameCall(u)
  BY <1>1 DEF IInv, TypeOK, SameCall
<1>6. Resolve(a) \in Disposition
  BY DEF Answer, Resolve, Disposition
<1>7. TypeOK'
  <2>1. \A u \in Topic : \A p \in DOMAIN disposed'[u] : disposed'[u][p] \in Disposition
    <3>1. \A p \in DOMAIN d : d[p] \in Disposition
      BY <1>2, <1>6 DEF IInv, TypeOK
    <3>2. \A u \in Topic \ {t} : disposed'[u] = disposed[u]
      BY <1>5 DEF SameCall
    <3>. QED
      BY <1>5, <3>1, <3>2 DEF IInv, TypeOK
  <2>2. accepted' \subseteq Retailer \X EventId
    <3>1. accepted' \subseteq accepted \cup {k}
      BY <1>1
    <3>. QED
      BY <1>4, <3>1 DEF IInv, TypeOK
  <2>3. DOMAIN disposed' = Topic
    BY <1>1 DEF IInv, TypeOK
  <2>. QED
    BY <1>1, <2>1, <2>2, <2>3 DEF IInv, TypeOK
<1>8. StoresGrow
  BY <1>1 DEF StoresGrow
<1>9. a = "rejected" => k \in Refused
  BY <1>1 DEF PortAnswer
<1>10. a \in {"accepted", "duplicate"} => k \in accepted'
  BY <1>1 DEF PortAnswer
<1>11. CallOK(t)'
  <2>1. InBatch(t)' = InBatch(t)
    BY <1>1 DEF InBatch
  <2>2. \A p : /\ Ingested(t, p) => Ingested(t, p)'
               /\ Verdict(t, p)' = Verdict(t, p)
               /\ Unusable(t, p)' = Unusable(t, p)
               /\ KeyAt(t, p)' = KeyAt(t, p)
    BY <1>8, SettledGrows
  <2>3. \A p \in InBatch(t)' : Verdict(t, p)' # "ok" => p \in DOMAIN disposed'[t]
    BY <1>1, <1>2, <1>3, <1>5, <2>1, <2>2 DEF CallOK
  <2>4. ASSUME NEW p \in DOMAIN disposed'[t]
        PROVE  /\ disposed'[t][p] \in {"ingested", "duplicate"} => Ingested(t, p)'
               /\ disposed'[t][p] = "dead_lettered" => Unusable(t, p)'
    <3>1. CASE p = o
      <4>1. Resolve(a) \in {"ingested", "duplicate"} => a \in {"accepted", "duplicate"}
        BY DEF Resolve, Answer
      <4>2. Resolve(a) = "dead_lettered" => a = "rejected"
        BY DEF Resolve, Answer
      <4>3. Resolve(a) \in {"ingested", "duplicate"} => Ingested(t, o)'
        BY <1>3, <1>10, <2>2, <4>1 DEF Ingested
      <4>4. Resolve(a) = "dead_lettered" => Unusable(t, o)'
        BY <1>9, <2>2, <4>2 DEF Unusable
      <4>. QED
        BY <1>2, <1>5, <3>1, <4>3, <4>4
    <3>2. CASE p # o
      BY <1>1, <1>2, <1>3, <1>5, <2>2, <2>4, <3>2 DEF CallOK
    <3>. QED
      BY <3>1, <3>2
  <2>. QED
    BY <1>1, <1>2, <1>3, <1>5, <2>1, <2>3, <2>4 DEF CallOK
<1>12. \A u \in Topic : CallOK(u)'
  BY <1>5, <1>7, <1>8, <1>11, SameCallKeepsOK DEF IInv
<1>13. SourcesAgree'
  BY <1>1, <1>3, <1>4 DEF IInv, SourcesAgree, KeyAt, RecordAt
<1>14. accepted' \cap Refused = {}
  BY <1>1 DEF IInv, PortAnswer
<1>15. NothingLost' /\ \A l \in letters' : Unusable(l[1], l[2])'
  BY <1>1, <1>8, NothingLostKept, SettledGrows DEF IInv
<1>. QED
  BY <1>7, <1>12, <1>13, <1>14, <1>15 DEF IInv

LEMMA CaptureOK ==
    ASSUME IInv, NEW t \in Topic, Capture(t)
    PROVE  IInv'
<1>1. /\ phase[t] = "ingesting" /\ InBatch(t) \subseteq DOMAIN disposed[t]
      /\ letters' = letters \cup DeadLettersOf(t)
      /\ phase' = [phase EXCEPT ![t] = "acking"]
      /\ UNCHANGED <<published, committed, accepted, through, disposed, failures>>
  BY DEF Capture, Pending
<1>2. CallOK(t) /\ committed[t] \in Nat /\ through[t] \in Nat /\ published[t] \in Nat
      /\ DOMAIN disposed[t] = InBatch(t) /\ published[t] <= Len(Log[t])
  BY <1>1 DEF IInv, TypeOK, CallOK
<1>3. \A l \in DeadLettersOf(t) : /\ l[1] = t /\ l[2] \in InBatch(t)
                                  /\ disposed[t][l[2]] = "dead_lettered"
  BY DEF DeadLettersOf
<1>4. InBatch(t) \subseteq 1..Len(Log[t])
  BY <1>1, <1>2, LogLength DEF CallOK, InBatch
<1>5. TypeOK'
  <2>1. \A l \in letters' : l[1] \in Topic /\ l[2] \in 1..Len(Log[l[1]])
    BY <1>1, <1>3, <1>4 DEF IInv, TypeOK
  <2>. QED
    BY <1>1, <2>1 DEF IInv, TypeOK, Phase
<1>6. StoresGrow /\ phase'[t] = "acking" /\ \A u \in Topic \ {t} : SameCall(u)
  BY <1>1 DEF IInv, TypeOK, StoresGrow, SameCall
<1>7. \A u, o : /\ Ingested(u, o) => Ingested(u, o)'
                /\ Verdict(u, o)' = Verdict(u, o)
                /\ Unusable(u, o)' = Unusable(u, o)
  BY <1>6, SettledGrows
<1>8. \A l \in letters' : Unusable(l[1], l[2])'
  BY <1>1, <1>2, <1>3, <1>7 DEF IInv, CallOK
<1>9. CallOK(t)'
  <2>1. InBatch(t)' = InBatch(t)
    BY <1>1 DEF InBatch
  <2>2. \A o \in InBatch(t) : disposed[t][o] = "dead_lettered" => Filed(t, o)'
    <3>1. SUFFICES ASSUME NEW o \in InBatch(t), disposed[t][o] = "dead_lettered"
                   PROVE  \E l \in letters' : l[1] = t /\ l[2] = o
      BY DEF Filed
    <3>2. <<t, o, Reason(t, o)>> \in DeadLettersOf(t)
      BY <3>1 DEF DeadLettersOf
    <3>. QED
      BY <1>1, <3>2
  <2>. QED
    BY <1>1, <1>2, <1>6, <1>7, <2>1, <2>2 DEF CallOK
<1>10. \A u \in Topic : CallOK(u)'
  BY <1>5, <1>6, <1>9, SameCallKeepsOK DEF IInv
<1>11. NothingLost' /\ SourcesAgree'
  BY <1>1, <1>5, <1>6, NothingLostKept, SourcesAgreeKept DEF IInv, TypeOK
<1>. QED
  BY <1>1, <1>5, <1>8, <1>10, <1>11 DEF IInv

LEMMA AckOK ==
    ASSUME IInv, NEW t \in Topic, Ack(t)
    PROVE  IInv'
<1>1. /\ phase[t] = "acking"
      /\ phase' = [phase EXCEPT ![t] = "idle"]
      /\ disposed' = [disposed EXCEPT ![t] = NoDispositions]
      /\ UNCHANGED <<published, accepted, letters, through, failures>>
  BY DEF Ack
<1>2. PICK c \in committed[t]..through[t] :
        IsWatermark(t, c) /\ committed' = [committed EXCEPT ![t] = c]
  BY DEF Ack
<1>3. CallOK(t) /\ committed[t] \in Nat /\ through[t] \in Nat /\ published[t] \in Nat
      /\ through[t] <= published[t]
      /\ DOMAIN disposed[t] = InBatch(t) /\ c \in Nat /\ c <= through[t]
  BY <1>1, <1>2 DEF IInv, TypeOK, CallOK
<1>4. DOMAIN NoDispositions = {}
  BY DEF NoDispositions
<1>5. /\ committed'[t] = c /\ disposed'[t] = NoDispositions /\ phase'[t] = "idle"
      /\ \A u \in Topic \ {t} : SameCall(u)
  BY <1>1, <1>2 DEF IInv, TypeOK, SameCall
<1>6. TypeOK'
  BY <1>1, <1>2, <1>3, <1>4, <1>5 DEF IInv, TypeOK, Phase, SameCall
<1>7. StoresGrow
  BY <1>1 DEF StoresGrow
<1>8. CallOK(t)'
  BY <1>5 DEF CallOK
<1>9. \A u \in Topic : CallOK(u)'
  BY <1>5, <1>6, <1>7, <1>8, SameCallKeepsOK DEF IInv
<1>10. NothingLost'
  <2>1. SUFFICES ASSUME NEW u \in Topic, NEW o \in 1..committed'[u]
                 PROVE  Settled(u, o)
    BY <1>7, SettledGrows DEF NothingLost
  <2>2. CASE u # t
    BY <1>5, <2>2 DEF IInv, NothingLost, SameCall
  <2>3. CASE u = t /\ o <= committed[t]
    BY <1>3, <2>3 DEF IInv, NothingLost
  <2>4. CASE u = t /\ ~(o <= committed[t])
    <3>1. o \in (committed[t] + 1)..c /\ o \in InBatch(t)
      BY <1>3, <1>5, <2>4 DEF InBatch
    <3>2. disposed[t][o] \in Disposition /\ disposed[t][o] # "retry"
      BY <1>2, <1>3, <3>1 DEF IInv, TypeOK, IsWatermark
    <3>3. disposed[t][o] \in {"ingested", "duplicate"} \/ disposed[t][o] = "dead_lettered"
      BY <3>2 DEF Disposition
    <3>. QED
      BY <1>1, <1>3, <2>4, <3>1, <3>3 DEF CallOK, Settled
  <2>. QED
    BY <2>2, <2>3, <2>4
<1>11. SourcesAgree'
  BY <1>1, <1>6, SourcesAgreeKept DEF IInv, TypeOK
<1>. QED
  BY <1>1, <1>6, <1>7, <1>9, <1>10, <1>11, SettledGrows DEF IInv

LEMMA FailOK ==
    ASSUME IInv, NEW t \in Topic, Fail(t)
    PROVE  IInv'
<1>1. DOMAIN NoDispositions = {}
  BY DEF NoDispositions
<1>2. /\ disposed'[t] = NoDispositions /\ phase'[t] = "idle"
      /\ \A u \in Topic \ {t} : SameCall(u)
  BY DEF IInv, TypeOK, Fail, SameCall
<1>3. TypeOK'
  BY <1>1, <1>2 DEF IInv, TypeOK, Fail, Phase, SameCall
<1>4. StoresGrow
  BY DEF Fail, StoresGrow
<1>5. CallOK(t)'
  BY <1>2 DEF CallOK
<1>6. \A u \in Topic : CallOK(u)'
  BY <1>2, <1>3, <1>4, <1>5, SameCallKeepsOK DEF IInv
<1>7. NothingLost' /\ SourcesAgree'
  BY <1>3, <1>4, NothingLostKept, SourcesAgreeKept DEF IInv, TypeOK, Fail
<1>. QED
  BY <1>3, <1>4, <1>6, <1>7, SettledGrows DEF IInv, Fail

LEMMA NextOK ==
    ASSUME IInv, [Next]_vars
    PROVE  IInv'
<1>1. ASSUME NEW t \in Topic, Publish(t) PROVE IInv'
  BY <1>1, PublishOK
<1>2. ASSUME NEW t \in Topic, NEW n \in 1..Len(Log[t]), Deliver(t, n) PROVE IInv'
  BY <1>2, LogLength, DeliverOK
<1>3. ASSUME NEW t \in Topic, NEW o \in 1..Len(Log[t]), NEW a \in Answer,
             Ingest(t, o, a)
      PROVE  IInv'
  BY <1>3, IngestOK
<1>4. ASSUME NEW t \in Topic, Capture(t) PROVE IInv'
  BY <1>4, CaptureOK
<1>5. ASSUME NEW t \in Topic, Ack(t) PROVE IInv'
  BY <1>5, AckOK
<1>6. ASSUME NEW t \in Topic, Fail(t) PROVE IInv'
  BY <1>6, FailOK
<1>7. ASSUME UNCHANGED vars PROVE IInv'
  <2>1. TypeOK' /\ StoresGrow /\ \A u \in Topic : SameCall(u)
    BY <1>7 DEF IInv, vars, TypeOK, StoresGrow, SameCall
  <2>2. NothingLost' /\ SourcesAgree'
    BY <1>7, <2>1, NothingLostKept, SourcesAgreeKept DEF IInv, TypeOK, vars
  <2>3. \A u \in Topic : CallOK(u)'
    BY <2>1, SameCallKeepsOK DEF IInv
  <2>. QED
    BY <1>7, <2>1, <2>2, <2>3, SettledGrows DEF IInv, vars
<1>. QED
  BY <1>1, <1>2, <1>3, <1>4, <1>5, <1>6, <1>7 DEF Next, Consume, Idle

----------------------------------------------------------------------------
(***************************************************************************)
(* The theorems.                                                           *)
(***************************************************************************)

\* The invariant holds throughout, wherever calls fail.
THEOREM Invariance == Spec => []IInv
<1>1. IInv /\ [Next]_vars => IInv'
  BY NextOK
<1>. QED
  BY InitOK, <1>1, PTL DEF Spec

\* The broker's offsets, the stores and the calls keep their types.
THEOREM TypeCorrectness == Spec => []TypeOK
<1>1. IInv => TypeOK
  BY DEF IInv
<1>. QED
  BY Invariance, <1>1, PTL

\* Nothing the broker has committed is unhandled.
THEOREM LosesNothing == Spec => []NothingLost
<1>1. IInv => NothingLost
  BY DEF IInv
<1>. QED
  BY Invariance, <1>1, PTL

\* No event is both accepted and filed as a dead letter.
THEOREM TakenOrSetAside == Spec => []NeverBoth
<1>1. ASSUME IInv, NEW t \in Topic, NEW o \in 1..published[t],
             Ingested(t, o), Filed(t, o)
      PROVE  FALSE
  BY <1>1 DEF IInv, Ingested, Filed, Unusable
<1>2. IInv => NeverBoth
  BY <1>1 DEF NeverBoth
<1>. QED
  BY Invariance, <1>2, PTL

\* Every accepted event came on its retailer's topic under its retailer's key.
THEOREM KeepsPartitions == Spec => []SourcesAgree
<1>1. IInv => SourcesAgree
  BY DEF IInv
<1>. QED
  BY Invariance, <1>1, PTL

=============================================================================
