--------------------------- MODULE TagFleetProofs ---------------------------
(***************************************************************************)
(* What the fleet adapter keeps, for any tasks, tags, stores, vendor and   *)
(* gateway, and any number of overlapping calls: no light and no claim     *)
(* outlives its lease, a dispatch answers for its whole worklist and says  *)
(* of each task what the gateway said, and the index of the registry never *)
(* leads to an entry that is gone.                                         *)
(***************************************************************************)
EXTENDS TagFleet, FiniteSetTheorems, SequenceTheorems, WellFoundedInduction, TLAPS

----------------------------------------------------------------------------
(***************************************************************************)
(* The inductive invariant.                                                *)
(***************************************************************************)
\* What stands behind LeasedAhead: every command, wherever it is kept, was asked for
\* in the past and expires within the lease it was granted.
GrantedLease(entry) ==
    /\ entry.requestedAt \in Nat /\ entry.requestedAt <= now
    /\ entry.lease \in Leases
    /\ entry.expiresAt \in Int /\ entry.expiresAt <= entry.requestedAt + entry.lease

LiveOK(live) ==
    /\ DOMAIN live = {"tag", "rendering", "lease", "payload", "leaseExpiresAt"}
    /\ live.lease \in Leases
    /\ live.leaseExpiresAt \in Int /\ live.leaseExpiresAt <= now + live.lease
    /\ GrantedLease(live.payload)

TagsOK ==
    /\ \A g \in Tag : /\ tags[g].until \in Int
                      /\ tags[g] # Dark =>
                           \E lease \in Leases : tags[g].until <= now + lease
    /\ \A g \in Tag : waiting[g] # NoCommand /\ ~waiting[g].release =>
         GrantedLease(waiting[g].entry)

RequestOK(call) ==
    /\ DOMAIN call = {"op", "pc", "at", "task", "live", "sent", "acks"}
    /\ call.op \in {"refresh", "clear"} /\ call.pc \in {"bindings", "gateway", "acks"}
    /\ call.at \in Nat /\ call.at <= now
    /\ LiveOK(call.live)
    /\ call.op = "refresh" => \A k \in DOMAIN call.sent : GrantedLease(call.sent[k])

\* What stands behind AnswersMatchAcks: of every task of the worklist the call either
\* has an outcome or has a command still to come, one and not both ...
CommandsOf(call) ==
    {BuildExpressCommand(call.tasks[i], DescribeCapabilities(Fleet, d), call.at,
                         StandardDispatchPolicy) : i \in DOMAIN call.tasks, d \in Deployments}

IsSequence(s) == s \in Seq({s[i] : i \in DOMAIN s})

WorklistOK(call) ==
    /\ IsSequence(call.tasks) /\ call.tasks # <<>>
    /\ \A i, j \in DOMAIN call.tasks : call.tasks[i].id = call.tasks[j].id => i = j
    /\ call.todo \in Seq(Seq(CommandsOf(call)))
    /\ \A b, c \in DOMAIN call.todo :
         \A i \in DOMAIN call.todo[b], j \in DOMAIN call.todo[c] :
           call.todo[b][i].task = call.todo[c][j].task => b = c /\ i = j
    /\ \A b \in DOMAIN call.todo : \A i \in DOMAIN call.todo[b] :
         call.todo[b][i].task \notin DOMAIN call.outcome
    /\ call.pc # "capabilities" =>
         Asked(call) = DOMAIN call.outcome
                       \cup UNION {{call.todo[b][i].task : i \in DOMAIN call.todo[b]} :
                                     b \in DOMAIN call.todo}

\* ... and so does, of every command of the batch in hand, the adapter ...
AheadOK(ahead, batch, answered) ==
    /\ IsSequence(ahead)
    /\ \A c \in DOMAIN ahead : IsSequence(ahead[c])
    /\ \A c \in DOMAIN ahead : \A k \in DOMAIN ahead[c] :
         /\ ahead[c][k].index \in DOMAIN batch \ answered
         /\ ahead[c][k].task = batch[ahead[c][k].index].task
         /\ GrantedLease(ahead[c][k])
    /\ \A b, c \in DOMAIN ahead : \A j \in DOMAIN ahead[b], k \in DOMAIN ahead[c] :
         ahead[b][j].index = ahead[c][k].index => b = c /\ j = k

ResultsOK(results, batch, said) ==
    /\ DOMAIN results \subseteq DOMAIN batch
    /\ \A i \in DOMAIN results : batch[i].task \in DOMAIN said =>
         results[i].status = Told[said[batch[i].task]]

BatchOK(call) ==
    /\ call.prepared # <<>>
    /\ AheadOK(call.prepared, Head(call.todo), DOMAIN call.results)
    /\ ResultsOK(call.results, Head(call.todo), call.said)

\* ... and what the gateway said of a command is what its outcome, its result or the
\* acks in hand say.
SaidOK(call) ==
    /\ \A t \in DOMAIN call.outcome \cap DOMAIN call.said :
         call.outcome[t].status = Told[call.said[t]]
    /\ \A t \in DOMAIN call.said \ DOMAIN call.outcome :
         /\ call.pc \in {"gateway", "acks"}
         /\ \/ \E i \in DOMAIN call.results : Head(call.todo)[i].task = t
            \/ /\ call.pc = "acks"
               /\ \E k \in DOMAIN Head(call.prepared) : Head(call.prepared)[k].task = t
    /\ call.pc = "acks" =>
         /\ DOMAIN call.acks \subseteq DOMAIN Head(call.prepared)
         /\ \A k \in DOMAIN Head(call.prepared) :
              LET t == Head(call.prepared)[k].task
              IN  /\ t \in DOMAIN call.said
                  /\ call.said[t] = IF k \in DOMAIN call.acks THEN call.acks[k] ELSE "silent"
                  /\ k \in DOMAIN call.acks => call.acks[k] \in Outcomes

IsExpress(call) ==
    /\ DOMAIN call = {"op", "pc", "at", "tasks", "todo", "prepared", "acks", "results",
                      "outcome", "said"}
    /\ call.op = "express"

ExpressOK(call) ==
    /\ IsExpress(call)
    /\ call.pc \in {"capabilities", "store", "gateway", "acks", "done"}
    /\ call.at \in Nat /\ call.at <= now
    /\ WorklistOK(call)
    /\ call.pc = "capabilities" => call.outcome = <<>>
    /\ call.pc \in {"store", "gateway", "acks"} => call.todo # <<>>
    /\ call.pc \in {"capabilities", "done"} => call.todo = <<>>
    /\ call.pc \in {"gateway", "acks"} => BatchOK(call)
    /\ SaidOK(call)

CallOK(call) ==
    call # Idle => IF call.op = "express" THEN ExpressOK(call) ELSE RequestOK(call)

\* The inductive invariant.
IInv ==
    /\ now \in Nat
    /\ DOMAIN calls = Handler /\ DOMAIN tags = Tag /\ DOMAIN waiting = Tag
    /\ \A t \in DOMAIN expressions : LiveOK(expressions[t])
    /\ TagsOK
    /\ \A h \in Handler : CallOK(calls[h])

----------------------------------------------------------------------------
(***************************************************************************)
(* Induction over the numbers, and the order in which a batch is prepared. *)
(***************************************************************************)
\* What holds of 0 and of the successor of every number it holds of, holds of all.
LEMMA Upwards ==
    ASSUME NEW S, 0 \in S, \A n \in Nat : n \in S => n + 1 \in S
    PROVE  Nat \subseteq S
<1> DEFINE T == Nat \ S
           R == {p \in Nat \X Nat : p[1] < p[2]}
<1>1. SUFFICES ASSUME T # {} PROVE FALSE OBVIOUS
<1>2. IsWellFoundedOn(R, Nat)
  <2>1. R = OpToRel(<, Nat) BY DEF OpToRel
  <2> QED BY <2>1, NatLessThanWellFounded
<1>3. PICK x \in T : \A y \in T : ~(<<y, x>> \in R)
  <2> HIDE DEF R
  <2> QED BY <1>1, <1>2, WFMin
<1>4. x # 0 OBVIOUS
<1>5. x - 1 \in Nat /\ x - 1 < x BY <1>4
<1>6. x - 1 \notin T BY <1>3, <1>5
<1>7. (x - 1) + 1 \in S BY <1>5, <1>6
<1> QED BY <1>7

\* Every set of numbers up to a bound can be put in order.
LEMMA AscendingExists ==
    ASSUME NEW n \in Nat, NEW S \in SUBSET (1..n)
    PROVE  \E s \in [1..Cardinality(S) -> S] :
             \A i, j \in 1..Cardinality(S) : i < j => s[i] < s[j]
<1> DEFINE Ordered(s, Q) == \A i, j \in 1..Cardinality(Q) : i < j => s[i] < s[j]
           Sortable(m) == \A Q \in SUBSET (1..m) :
                            \E s \in [1..Cardinality(Q) -> Q] : Ordered(s, Q)
           Good == {m \in Nat : Sortable(m)}
<1>1. 0 \in Good
  <2> SUFFICES ASSUME NEW Q \in SUBSET (1..0)
               PROVE  \E s \in [1..Cardinality(Q) -> Q] : Ordered(s, Q)
    OBVIOUS
  <2>1. Cardinality(Q) = 0
    <3>1. Q = {} OBVIOUS
    <3> QED BY <3>1, FS_EmptySet
  <2>2. <<>> \in [1..Cardinality(Q) -> Q] /\ Ordered(<<>>, Q) BY <2>1
  <2> QED BY <2>2
<1>2. ASSUME NEW m \in Nat, m \in Good PROVE m + 1 \in Good
  <2> SUFFICES Sortable(m + 1)
    <3> HIDE DEF Sortable
    <3> QED OBVIOUS
  <2> TAKE Q \in SUBSET (1..(m + 1))
  <2>1. CASE m + 1 \notin Q
    <3>1. Q \in SUBSET (1..m) BY <2>1
    <3> QED BY <3>1, <1>2
  <2>2. CASE m + 1 \in Q
    <3> DEFINE P == Q \ {m + 1}
    <3>1. P \in SUBSET (1..m) OBVIOUS
    <3>2. PICK s \in [1..Cardinality(P) -> P] : Ordered(s, P) BY <3>1, <1>2
    <3>3. IsFiniteSet(P) /\ Cardinality(P) \in Nat
      <4>1. IsFiniteSet(1..m) BY FS_Interval
      <4>2. IsFiniteSet(P) BY <3>1, <4>1, FS_Subset
      <4> QED BY <4>2, FS_CardinalityType
    <3>4. Cardinality(Q) = Cardinality(P) + 1
      <4>1. Q = P \cup {m + 1} BY <2>2
      <4> QED BY <4>1, <3>3, FS_AddElement
    <3> DEFINE c == Cardinality(P)
               z == [i \in 1..(c + 1) |-> IF i <= c THEN s[i] ELSE m + 1]
    <3>5. z \in [1..Cardinality(Q) -> Q]
      <4>1. ASSUME NEW i \in 1..(c + 1) PROVE (IF i <= c THEN s[i] ELSE m + 1) \in Q
        <5>1. CASE i <= c
          <6>1. i \in 1..c BY <3>3, <5>1
          <6> QED BY <3>2, <5>1, <6>1
        <5> QED BY <2>2, <5>1
      <4> QED BY <4>1, <3>4
    <3>6. Ordered(z, Q)
      <4> SUFFICES ASSUME NEW i \in 1..(c + 1), NEW j \in 1..(c + 1), i < j
                   PROVE  z[i] < z[j]
        BY <3>4
      <4>1. CASE j <= c
        <5>1. i \in 1..c /\ j \in 1..c /\ z[i] = s[i] /\ z[j] = s[j] BY <3>3, <4>1
        <5> QED BY <3>2, <5>1
      <4>2. CASE ~(j <= c)
        <5>1. j = c + 1 /\ i \in 1..c BY <3>3, <4>2
        <5>2. z[j] = m + 1 /\ z[i] = s[i] BY <3>3, <5>1
        <5>3. s[i] \in 1..m BY <3>1, <3>2, <5>1
        <5> QED BY <5>2, <5>3
      <4> QED BY <4>1, <4>2
    <3> QED BY <3>5, <3>6
  <2> QED BY <2>1, <2>2
<1>3. n \in Good
  <2> HIDE DEF Good
  <2> QED BY <1>1, <1>2, Upwards
<1> QED BY <1>3

\* Ascending lists every number of a set once.
LEMMA AscendingLists ==
    ASSUME NEW n \in Nat, NEW S \in SUBSET (1..n)
    PROVE  /\ Ascending(S) \in Seq(S)
           /\ Len(Ascending(S)) = Cardinality(S)
           /\ \A i, j \in DOMAIN Ascending(S) : Ascending(S)[i] = Ascending(S)[j] => i = j
           /\ \A k \in S : \E i \in DOMAIN Ascending(S) : Ascending(S)[i] = k
<1> DEFINE c == Cardinality(S)
           a == Ascending(S)
<1>1. IsFiniteSet(S) /\ c \in Nat
  <2>1. IsFiniteSet(1..n) BY FS_Interval
  <2>2. IsFiniteSet(S) BY <2>1, FS_Subset
  <2> QED BY <2>2, FS_CardinalityType
<1>2. a \in [1..c -> S] /\ \A i, j \in 1..c : i < j => a[i] < a[j]
  BY AscendingExists DEF Ascending
<1> HIDE DEF a
<1>3. a \in Seq(S) /\ Len(a) = c BY <1>1, <1>2
<1>4. ASSUME NEW i \in 1..c, NEW j \in 1..c, a[i] = a[j] PROVE i = j
  <2>1. a[i] \in 1..n /\ a[j] \in 1..n BY <1>2
  <2> QED BY <1>1, <1>2, <1>4, <2>1
<1>5. a \in Injection(1..c, S) BY <1>2, <1>4 DEF Injection, IsInjective
<1>6. a \in Surjection(1..c, S)
  <2>1. IsFiniteSet(1..c) /\ Cardinality(1..c) = c BY <1>1, FS_Interval
  <2> QED BY <1>1, <1>5, <2>1, FS_Injection
<1>7. \A k \in S : \E i \in 1..c : a[i] = k BY <1>6 DEF Surjection
<1> QED BY <1>2, <1>3, <1>4, <1>7 DEF a

----------------------------------------------------------------------------
(***************************************************************************)
(* Chunks: every item is in some chunk, and in one place of it.            *)
(***************************************************************************)
LEMMA MaxOfTwo ==
    ASSUME NEW a \in Int, NEW b \in Int
    PROVE  Max({a, b}) = IF a >= b THEN a ELSE b
BY DEF Max

LEMMA MinOfTwo ==
    ASSUME NEW a \in Int, NEW b \in Int
    PROVE  Min({a, b}) = IF a <= b THEN a ELSE b
BY DEF Min

\* How many chunks there are.
LEMMA ChunkCount ==
    ASSUME NEW n \in Nat, NEW l \in Nat \ {0}
    PROVE  LET m == (n + l - 1) \div l
           IN  /\ m \in Nat
               /\ \A b \in 1..m : (b - 1) * l < n /\ (b - 1) * l \in Nat
               /\ \A i \in 1..n : ((i - 1) \div l) + 1 \in 1..m
<1> DEFINE m == (n + l - 1) \div l
<1>1. m \in Nat /\ n + l - 1 \in Nat OBVIOUS
<1>2. l * m <= n + l - 1 /\ n + l - 1 < l * m + l OBVIOUS
<1> HIDE DEF m
<1>3. ASSUME NEW b \in 1..m PROVE (b - 1) * l < n /\ (b - 1) * l \in Nat
  <2>1. b - 1 \in Nat /\ b - 1 <= m - 1 /\ m - 1 \in Nat BY <1>1
  <2>2. l * (b - 1) <= l * (m - 1) BY <2>1
  <2>3. l * (m - 1) = l * m - l BY <1>1
  <2>4. (b - 1) * l = l * (b - 1) /\ l * (b - 1) \in Nat BY <2>1
  <2> QED BY <1>1, <1>2, <2>2, <2>3, <2>4
<1>4. ASSUME NEW i \in 1..n PROVE ((i - 1) \div l) + 1 \in 1..m
  <2> DEFINE q == (i - 1) \div l
  <2>1. q \in Nat /\ l * q <= i - 1 OBVIOUS
  <2> HIDE DEF q
  <2>2. SUFFICES ASSUME q >= m PROVE FALSE BY <1>1, <2>1 DEF q
  <2>3. l * m <= l * q BY <1>1, <2>1, <2>2
  <2> QED BY <1>1, <1>2, <2>1, <2>3
<1> QED BY <1>1, <1>3, <1>4 DEF m

\* Where the k-th item of the b-th chunk stood.
Place(size, b, k) == (b - 1) * Max({1, size}) + k

\* Every position of the chunks holds the item of its place, every item is at some
\* position, and no two positions are at one place.
HoldsItems(items, size, c) ==
    \A b \in DOMAIN c : \A k \in DOMAIN c[b] :
      /\ Place(size, b, k) \in DOMAIN items
      /\ c[b][k] = items[Place(size, b, k)]

CoversItems(items, size, c) ==
    \A i \in DOMAIN items : \E b \in DOMAIN c : \E k \in DOMAIN c[b] :
      Place(size, b, k) = i

PlacesApart(size, c) ==
    \A a, b \in DOMAIN c : \A j \in DOMAIN c[a], k \in DOMAIN c[b] :
      Place(size, a, j) = Place(size, b, k) => a = b /\ j = k

\* Chunking keeps every item.
LEMMA ChunkParts ==
    ASSUME NEW X, NEW items \in Seq(X), NEW size \in Nat,
           NEW c, c = Chunk(items, size)
    PROVE  /\ c \in Seq(Seq(X))
           /\ items # <<>> => c # <<>>
           /\ HoldsItems(items, size, c)
           /\ CoversItems(items, size, c)
           /\ \A b \in DOMAIN c : DOMAIN c[b] \subseteq 1..Max({1, size})
<1> DEFINE l == Max({1, size})
           n == Len(items)
           m == (n + l - 1) \div l
           part(b) == SubSeq(items, (b - 1) * l + 1, Min({b * l, n}))
<1>1. l \in Nat \ {0} BY MaxOfTwo
<1> HIDE DEF l
<1>2. n \in Nat /\ DOMAIN items = 1..n OBVIOUS
<1>3. /\ m \in Nat
      /\ \A b \in 1..m : (b - 1) * l < n /\ (b - 1) * l \in Nat
      /\ \A i \in 1..n : ((i - 1) \div l) + 1 \in 1..m
  BY <1>1, <1>2, ChunkCount
<1>4. c = [b \in 1..m |-> part(b)] BY DEF Chunk, l
<1> HIDE DEF m, n
<1> DEFINE size_(b) == IF b * l <= n THEN l ELSE n - (b - 1) * l
<1>5. ASSUME NEW b \in 1..m
      PROVE  /\ c[b] \in Seq(X)
             /\ Len(c[b]) = size_(b) /\ size_(b) \in 1..l
             /\ \A k \in 1..size_(b) : /\ Place(size, b, k) \in 1..n
                                       /\ c[b][k] = items[Place(size, b, k)]
  <2> DEFINE f == (b - 1) * l
             t == Min({b * l, n})
  <2>1. f \in Nat /\ f < n /\ b * l = f + l /\ b * l \in Nat BY <1>1, <1>3
  <2>2. t = IF b * l <= n THEN b * l ELSE n BY <1>2, <2>1, MinOfTwo
  <2>3. t \in Int /\ f + 1 \in Int /\ t <= n /\ f + 1 <= t BY <1>1, <1>2, <2>1, <2>2
  <2> HIDE DEF f, t
  <2>4. c[b] = SubSeq(items, f + 1, t) BY <1>4 DEF f, t
  <2>5. \A i \in (f + 1)..t : items[i] \in X BY <1>2, <2>1, <2>3 DEF n
  <2>6. /\ c[b] \in Seq(X)
        /\ Len(c[b]) = t - f
        /\ \A i \in 1..(t - f) : c[b][i] = items[f + i]
    <3>1. /\ SubSeq(items, f + 1, t) \in Seq(X)
          /\ Len(SubSeq(items, f + 1, t)) = IF f + 1 <= t THEN t - (f + 1) + 1 ELSE 0
          /\ \A i \in 1..(t - (f + 1) + 1) :
               SubSeq(items, f + 1, t)[i] = items[(f + 1) + i - 1]
      BY <2>3, <2>5, SubSeqProperties, SMTT(30)
    <3>2. t - (f + 1) + 1 = t - f BY <2>1, <2>3
    <3>3. \A i \in 1..(t - f) : (f + 1) + i - 1 = f + i BY <2>1
    <3> QED BY <2>3, <2>4, <3>1, <3>2, <3>3
  <2>7. size_(b) = t - f
    <3>1. size_(b) = IF b * l <= n THEN l ELSE n - f BY DEF f
    <3> HIDE DEF size_
    <3>2. CASE b * l <= n BY <1>1, <2>1, <2>2, <3>1, <3>2
    <3>3. CASE ~(b * l <= n) BY <2>1, <2>2, <3>1, <3>3
    <3> QED BY <3>2, <3>3
  <2>8. size_(b) \in 1..l
    <3>1. t - f \in 1..l BY <1>1, <1>2, <2>1, <2>2
    <3> QED BY <2>7, <3>1
  <2>9. ASSUME NEW k \in 1..(t - f) PROVE f + k \in 1..n BY <1>2, <2>1, <2>3
  <2>10. \A k : Place(size, b, k) = f + k BY DEF Place, f, l
  <2> HIDE DEF size_
  <2> QED BY <2>6, <2>7, <2>8, <2>9, <2>10
<1>6. c \in Seq(Seq(X)) /\ DOMAIN c = 1..m
  <2>1. DOMAIN c = 1..m BY <1>4
  <2>2. c = [b \in 1..m |-> c[b]] BY <1>4
  <2>3. \A b \in 1..m : c[b] \in Seq(X) BY <1>5
  <2>4. m \in Nat BY <1>3
  <2>5. c \in Seq(Seq(X)) BY ONLY <2>2, <2>3, <2>4
  <2> QED BY <2>1, <2>5
<1>7. ASSUME NEW i \in 1..n PROVE \E b \in 1..m : \E k \in DOMAIN c[b] : Place(size, b, k) = i
  <2> DEFINE q == (i - 1) \div l
             b == q + 1
             k == i - l * q
  <2>1. q \in Nat /\ i - 1 = l * q + ((i - 1) % l) /\ (i - 1) % l \in 0..(l - 1) BY <1>1
  <2>2. b \in 1..m BY <1>3
  <2> HIDE DEF q
  <2>3. k \in 1..l BY <1>1, <2>1
  <2>4. Place(size, b, k) = i
    <3>1. (b - 1) * l = l * q BY <1>1, <2>1
    <3> QED BY <1>1, <2>1, <3>1 DEF Place, l
  <2>5. k <= size_(b)
    <3>1. (b - 1) * l = l * q /\ l * q \in Nat BY <1>1, <2>1
    <3> QED BY <1>1, <1>2, <2>1, <2>3, <3>1
  <2>6. k \in DOMAIN c[b]
    <3> HIDE DEF size_, k, b
    <3>1. DOMAIN c[b] = 1..size_(b) /\ size_(b) \in Nat BY <1>5, <2>2
    <3>2. k \in Nat /\ k >= 1 BY <2>3, <1>1
    <3> QED BY <2>5, <3>1, <3>2
  <2> HIDE DEF b, k
  <2> QED BY <2>2, <2>4, <2>6
<1>9. \A b \in 1..m : DOMAIN c[b] = 1..size_(b) /\ DOMAIN c[b] \subseteq 1..l
  <2> HIDE DEF size_
  <2>1. ASSUME NEW b \in 1..m PROVE DOMAIN c[b] = 1..size_(b) /\ size_(b) \in 1..l
    BY <1>5
  <2> QED BY <2>1, <1>1
<1>10. items # <<>> => c # <<>>
  <2> SUFFICES ASSUME items # <<>>, c = <<>> PROVE FALSE OBVIOUS
  <2>1. 1 \in 1..n BY <1>2 DEF n
  <2>2. m # 0 BY <2>1, <1>7
  <2> QED BY <2>2, <1>6, <1>3
<1> HIDE DEF size_
<1>11. HoldsItems(items, size, c) BY <1>2, <1>5, <1>6, <1>9 DEF HoldsItems
<1>13. CoversItems(items, size, c) BY <1>2, <1>6, <1>7 DEF CoversItems
<1>12. \A b \in DOMAIN c : DOMAIN c[b] \subseteq 1..Max({1, size}) BY <1>6, <1>9 DEF l
<1> QED BY <1>6, <1>10, <1>11, <1>12, <1>13
\* No two positions of the chunks hold the same item.
LEMMA ChunksApart ==
    ASSUME NEW X, NEW items \in Seq(X), NEW size \in Nat,
           NEW c, c = Chunk(items, size)
    PROVE  PlacesApart(size, c)
<1> DEFINE l == Max({1, size})
<1>1. l \in Nat \ {0} BY MaxOfTwo
<1>2. c \in Seq(Seq(X)) /\ \A b \in DOMAIN c : DOMAIN c[b] \subseteq 1..l BY ChunkParts
<1> SUFFICES ASSUME NEW a \in DOMAIN c, NEW b \in DOMAIN c,
                    NEW j \in DOMAIN c[a], NEW k \in DOMAIN c[b],
                    Place(size, a, j) = Place(size, b, k)
             PROVE  a = b /\ j = k
  BY DEF PlacesApart
<1> HIDE DEF l
<1>3. j \in 1..l /\ k \in 1..l /\ a - 1 \in Nat /\ b - 1 \in Nat BY <1>2
<1>4. (a - 1) * l + j = (b - 1) * l + k BY DEF Place, l
<1>5. ASSUME NEW x \in Nat, NEW y \in Nat, NEW u \in 1..l, NEW v \in 1..l,
             x * l + u = y * l + v, x < y
      PROVE  FALSE
  <2>1. l * (x + 1) <= l * y BY <1>1, <1>5
  <2>2. l * (x + 1) = x * l + l /\ l * y = y * l /\ x * l \in Nat /\ y * l \in Nat BY <1>1
  <2> QED BY <1>1, <1>5, <2>1, <2>2
<1>6. ~(a - 1 < b - 1) /\ ~(b - 1 < a - 1) BY <1>3, <1>4, <1>5
<1>7. a = b
  <2>1. a \in Nat /\ b \in Nat BY <1>2
  <2> QED BY <1>3, <1>6, <2>1
<1>8. (a - 1) * l \in Nat BY <1>1, <1>3
<1> QED BY <1>1, <1>3, <1>4, <1>7, <1>8

\* What chunking does to a sequence, whatever it is a sequence of.
LEMMA ChunkItems ==
    ASSUME NEW items, IsSequence(items), NEW size \in Nat,
           NEW c, c = Chunk(items, size)
    PROVE  HoldsItems(items, size, c) /\ CoversItems(items, size, c) /\ PlacesApart(size, c)
<1>0. PICK X : X = {items[i] : i \in DOMAIN items} OBVIOUS
<1>1. items \in Seq(X) BY <1>0 DEF IsSequence
<1> QED BY <1>1, ChunkParts, ChunksApart

----------------------------------------------------------------------------
(***************************************************************************)
(* Leases and sequences.                                                   *)
(***************************************************************************)
\* A sequence over some set is a sequence.
LEMMA SequenceOf ==
    ASSUME NEW X, NEW s \in Seq(X)
    PROVE  IsSequence(s) /\ \A i \in DOMAIN s : s[i] \in X
<1>1. s = [i \in 1..Len(s) |-> s[i]] /\ Len(s) \in Nat /\ DOMAIN s = 1..Len(s)
      /\ \A i \in 1..Len(s) : s[i] \in X
  OBVIOUS
<1>2. s \in Seq({s[i] : i \in DOMAIN s}) BY <1>1
<1> QED BY <1>1, <1>2 DEF IsSequence

\* Taking the first off a sequence.
LEMMA HeadAndTail ==
    ASSUME NEW s, IsSequence(s), s # <<>>
    PROVE  /\ Len(s) \in Nat \ {0} /\ DOMAIN s = 1..Len(s)
           /\ Head(s) = s[1] /\ 1 \in DOMAIN s
           /\ IsSequence(Tail(s)) /\ Len(Tail(s)) = Len(s) - 1
           /\ \A i \in DOMAIN Tail(s) : i + 1 \in DOMAIN s /\ Tail(s)[i] = s[i + 1]
           /\ \A i \in DOMAIN s : i = 1 \/ (i - 1 \in DOMAIN Tail(s) /\ Tail(s)[i - 1] = s[i])
           /\ Tail(s) = <<>> <=> Len(s) = 1
<1> DEFINE X == {s[i] : i \in DOMAIN s}
<1>1. s \in Seq(X) BY DEF IsSequence
<1> HIDE DEF X
<1>2. Len(s) \in Nat \ {0} /\ DOMAIN s = 1..Len(s) /\ Head(s) = s[1] BY <1>1
<1>3. /\ Tail(s) \in Seq(X) /\ Len(Tail(s)) = Len(s) - 1
      /\ \A i \in 1..Len(Tail(s)) : Tail(s)[i] = s[i + 1]
  BY <1>1, HeadTailProperties
<1>4. DOMAIN Tail(s) = 1..(Len(s) - 1) BY <1>3
<1>5. IsSequence(Tail(s))
  <2> HIDE DEF X
  <2> QED BY <1>3, SequenceOf
<1>6. Tail(s) = <<>> <=> Len(s) = 1 BY <1>2, <1>3
<1> QED BY <1>2, <1>3, <1>4, <1>5, <1>6

LEMMA LeasesAreNat == Leases \subseteq Nat
BY FleetAssumption DEF Leases, LeaseFor, OrDefault

\* What a store declares is a batch limit and a lease.
LEMMA DeclaredLimits ==
    ASSUME NEW d \in Deployments
    PROVE  /\ DescribeCapabilities(Fleet, d).batchLimit \in Nat
           /\ DescribeCapabilities(Fleet, d).lease \in Nat
           /\ OrDefault(d.batchLimit, Fleet.batchLimit) \in Nat
           /\ LeaseFor(Fleet, d) \in Leases
<1>1. /\ Fleet.lease \in Nat /\ Fleet.batchLimit \in Nat
      /\ d.lease \in Nat /\ d.batchLimit \in Nat
  BY FleetAssumption
<1>2. LeaseFor(Fleet, d) \in Nat /\ OrDefault(d.batchLimit, Fleet.batchLimit) \in Nat
  BY <1>1 DEF LeaseFor, OrDefault
<1>3. LeaseFor(Fleet, d) \in Leases BY DEF Leases
<1>4. CASE d = NotDeployed BY <1>1, <1>2, <1>3, <1>4 DEF DescribeCapabilities
<1>5. CASE d # NotDeployed BY <1>2, <1>3, <1>5 DEF DescribeCapabilities
<1> QED BY <1>4, <1>5

\* Time does not take a lease back.
LEMMA LeaseKept ==
    ASSUME NEW e, GrantedLease(e), now \in Nat, now' \in Nat, now <= now'
    PROVE  GrantedLease(e)'
BY DEF GrantedLease

LEMMA LiveKept ==
    ASSUME NEW live, LiveOK(live), now \in Nat, now' \in Nat, now <= now'
    PROVE  LiveOK(live)'
<1>1. live.lease \in Nat /\ live.leaseExpiresAt \in Int BY LeasesAreNat DEF LiveOK
<1>2. live.leaseExpiresAt <= now' + live.lease BY <1>1 DEF LiveOK
<1> QED BY <1>1, <1>2, LeaseKept DEF LiveOK

\* A call is as well-formed later as it is now.
LEMMA CallKept ==
    ASSUME NEW call, CallOK(call), now \in Nat, now' \in Nat, now <= now'
    PROVE  CallOK(call)'
<1>1. ASSUME ExpressOK(call) PROVE ExpressOK(call)'
  <2>1. call.at <= now' BY <1>1 DEF ExpressOK
  <2>2. WorklistOK(call)' BY <1>1 DEF ExpressOK
  <2>3. SaidOK(call)' BY <1>1 DEF ExpressOK, SaidOK
  <2>4. ASSUME BatchOK(call) PROVE BatchOK(call)'
    <3>1. \A e : GrantedLease(e) => GrantedLease(e)' BY LeaseKept
    <3> QED BY <2>4, <3>1 DEF BatchOK, AheadOK
  <2> QED BY <1>1, <2>1, <2>2, <2>3, <2>4 DEF ExpressOK
<1>2. ASSUME RequestOK(call) PROVE RequestOK(call)'
  <2>1. \A e : GrantedLease(e) => GrantedLease(e)' BY LeaseKept
  <2>2. \A live : LiveOK(live) => LiveOK(live)' BY LiveKept
  <2> QED BY <1>2, <2>1, <2>2 DEF RequestOK
<1> QED BY <1>1, <1>2 DEF CallOK

\* A tag that is lit goes dark within the lease of the command.
LEMMA ShowsWithinLease ==
    ASSUME NEW e, GrantedLease(e), now \in Nat
    PROVE  /\ Shows(e).until \in Int
           /\ Shows(e) # Dark => \E lease \in Leases : Shows(e).until <= now + lease
<1> DEFINE until == DarkAt(Fleet, now, e.requestedAt, e.expiresAt)
<1>1. until \in Int /\ until <= now + e.lease
  <2>1. e.lease \in Nat /\ e.expiresAt \in Int /\ e.requestedAt \in Nat BY LeasesAreNat DEF GrantedLease
  <2>2. Max({0, e.expiresAt - e.requestedAt}) =
          IF 0 >= e.expiresAt - e.requestedAt THEN 0 ELSE e.expiresAt - e.requestedAt
    BY <2>1, MaxOfTwo
  <2> QED BY <2>1, <2>2 DEF GrantedLease, DarkAt
<1>2. e.lease \in Leases BY DEF GrantedLease
<1> HIDE DEF until
<1>3. Shows(e) = IF until <= now THEN Dark
                 ELSE [task |-> e.task, shows |-> EncodeExpression(Fleet, e.rendering), until |-> until]
  BY DEF Shows, until
<1>4. Dark.until = 0 BY DEF Dark
<1> QED BY <1>1, <1>2, <1>3, <1>4

----------------------------------------------------------------------------
(***************************************************************************)
(* A batch that is done.                                                   *)
(***************************************************************************)
\* The batch in hand, among those still to come.
LEMMA BatchInHand ==
    ASSUME NEW call, WorklistOK(call), call.todo # <<>>
    PROVE  /\ 1 \in DOMAIN call.todo /\ Head(call.todo) = call.todo[1]
           /\ IsSequence(call.todo)
           /\ Head(call.todo) \in Seq(CommandsOf(call))
           /\ \A i, j \in DOMAIN Head(call.todo) :
                Head(call.todo)[i].task = Head(call.todo)[j].task => i = j
           /\ \A i \in DOMAIN Head(call.todo) : Head(call.todo)[i].task \notin DOMAIN call.outcome
<1>1. call.todo \in Seq(Seq(CommandsOf(call))) BY DEF WorklistOK
<1>2. IsSequence(call.todo) BY <1>1, SequenceOf
<1>3. 1 \in DOMAIN call.todo /\ Head(call.todo) = call.todo[1] BY <1>2, HeadAndTail
<1>4. call.todo[1] \in Seq(CommandsOf(call)) BY <1>1, <1>3, SequenceOf
<1> QED BY <1>2, <1>3, <1>4 DEF WorklistOK

\* What is left of a worklist when its first batch has its outcomes.
LEMMA RestOfWorklist ==
    ASSUME NEW call, WorklistOK(call), call.pc # "capabilities", call.todo # <<>>,
           NEW n, n.tasks = call.tasks, n.at = call.at, n.todo = Tail(call.todo),
           DOMAIN n.outcome = DOMAIN call.outcome
                              \cup {Head(call.todo)[i].task : i \in DOMAIN Head(call.todo)}
    PROVE  WorklistOK(n) /\ (n.todo = <<>> <=> Len(call.todo) = 1)
<1>0. PICK todo : todo = call.todo OBVIOUS
<1>1. PICK rest : rest = n.todo OBVIOUS
<1>2. CommandsOf(n) = CommandsOf(call) /\ Asked(n) = Asked(call) BY DEF CommandsOf, Asked
<1>3. todo \in Seq(Seq(CommandsOf(call))) /\ todo # <<>> /\ rest = Tail(todo)
  BY <1>0, <1>1 DEF WorklistOK
<1>4. rest \in Seq(Seq(CommandsOf(call))) BY <1>3, HeadTailProperties
<1>5. /\ Len(todo) \in Nat \ {0} /\ DOMAIN todo = 1..Len(todo) /\ Head(todo) = todo[1]
      /\ Len(rest) = Len(todo) - 1
      /\ \A b \in DOMAIN rest : b + 1 \in DOMAIN todo /\ rest[b] = todo[b + 1]
      /\ \A b \in DOMAIN todo : b = 1 \/ (b - 1 \in DOMAIN rest /\ rest[b - 1] = todo[b])
      /\ rest = <<>> <=> Len(todo) = 1
  <2>1. IsSequence(todo) BY <1>3, SequenceOf
  <2> QED BY <1>3, <2>1, HeadAndTail
<1>6. DOMAIN rest \subseteq Nat \ {0} BY <1>4
<1>7. /\ \A b, c \in DOMAIN todo : \A i \in DOMAIN todo[b], j \in DOMAIN todo[c] :
           todo[b][i].task = todo[c][j].task => b = c /\ i = j
      /\ \A b \in DOMAIN todo : \A i \in DOMAIN todo[b] :
           todo[b][i].task \notin DOMAIN call.outcome
  BY <1>0 DEF WorklistOK
<1>8. ASSUME NEW b \in DOMAIN rest, NEW c \in DOMAIN rest,
             NEW i \in DOMAIN rest[b], NEW j \in DOMAIN rest[c],
             rest[b][i].task = rest[c][j].task
      PROVE  b = c /\ i = j
  <2>1. b + 1 = c + 1 /\ i = j BY <1>5, <1>7, <1>8
  <2> QED BY <2>1, <1>6
<1> DEFINE theirs == {todo[1][i].task : i \in DOMAIN todo[1]}
           These(b) == {todo[b][i].task : i \in DOMAIN todo[b]}
           Those(b) == {rest[b][i].task : i \in DOMAIN rest[b]}
<1>9. DOMAIN n.outcome = DOMAIN call.outcome \cup theirs BY <1>0, <1>5
<1>10. ASSUME NEW b \in DOMAIN rest, NEW i \in DOMAIN rest[b]
       PROVE  rest[b][i].task \notin DOMAIN n.outcome
  <2>1. b + 1 \in DOMAIN todo /\ rest[b] = todo[b + 1] /\ b + 1 # 1 /\ 1 \in DOMAIN todo
    BY <1>5, <1>6
  <2>2. rest[b][i].task \notin DOMAIN call.outcome BY <2>1, <1>7
  <2>3. rest[b][i].task \notin theirs BY <1>7, <2>1
  <2> HIDE DEF theirs
  <2> QED BY <1>9, <2>2, <2>3
<1>11. Asked(n) = DOMAIN n.outcome \cup UNION {Those(b) : b \in DOMAIN rest}
  <2>1. Asked(n) = DOMAIN call.outcome \cup UNION {These(b) : b \in DOMAIN todo}
    BY <1>0, <1>2 DEF WorklistOK
  <2>2. \A b \in DOMAIN rest : b + 1 \in DOMAIN todo /\ Those(b) = These(b + 1) BY <1>5
  <2>3. \A b \in DOMAIN todo : b = 1 \/ (b - 1 \in DOMAIN rest /\ Those(b - 1) = These(b))
    BY <1>5
  <2>4. 1 \in DOMAIN todo /\ These(1) = theirs BY <1>5
  <2> HIDE DEF These, Those, theirs
  <2>5. UNION {These(b) : b \in DOMAIN todo} = theirs \cup UNION {Those(b) : b \in DOMAIN rest}
    BY <2>2, <2>3, <2>4
  <2> QED BY <1>9, <2>1, <2>5
<1>12. /\ IsSequence(n.tasks) /\ n.tasks # <<>>
       /\ \A i, j \in DOMAIN n.tasks : n.tasks[i].id = n.tasks[j].id => i = j
  BY DEF WorklistOK
<1>13. WorklistOK(n)
  <2>1. n.todo \in Seq(Seq(CommandsOf(n))) BY <1>1, <1>2, <1>4
  <2>2. \A b, c \in DOMAIN n.todo : \A i \in DOMAIN n.todo[b], j \in DOMAIN n.todo[c] :
           n.todo[b][i].task = n.todo[c][j].task => b = c /\ i = j
    BY <1>1, <1>8
  <2>3. \A b \in DOMAIN n.todo : \A i \in DOMAIN n.todo[b] :
           n.todo[b][i].task \notin DOMAIN n.outcome
    BY <1>1, <1>10
  <2>4. Asked(n) = DOMAIN n.outcome
                   \cup UNION {{n.todo[b][i].task : i \in DOMAIN n.todo[b]} : b \in DOMAIN n.todo}
    BY <1>1, <1>11
  <2> HIDE DEF Those, These, theirs
  <2> QED BY ONLY <1>12, <2>1, <2>2, <2>3, <2>4 DEF WorklistOK
<1> QED BY <1>0, <1>1, <1>5, <1>13

\* The outcomes of a batch join those before it.
LEMMA BatchDoneOK ==
    ASSUME NEW call, IsExpress(call), call.at \in Nat, call.at <= now,
           WorklistOK(call), call.pc # "capabilities", call.todo # <<>>,
           \A t \in DOMAIN call.outcome \cap DOMAIN call.said :
             call.outcome[t].status = Told[call.said[t]],
           NEW results,
           \A i \in DOMAIN results \cap DOMAIN Head(call.todo) :
             Head(call.todo)[i].task \in DOMAIN call.said =>
               results[i].status = Told[call.said[Head(call.todo)[i].task]],
           \A t \in DOMAIN call.said \ DOMAIN call.outcome :
             \E i \in DOMAIN results \cap DOMAIN Head(call.todo) : Head(call.todo)[i].task = t
    PROVE  ExpressOK(BatchDone(call, results))
<1> DEFINE batch == Head(call.todo)
           theirs == {batch[i].task : i \in DOMAIN batch}
           Of(t) == CHOOSE j \in DOMAIN batch : batch[j].task = t
           all == [t \in DOMAIN call.outcome \cup theirs |->
                     IF t \in DOMAIN call.outcome THEN call.outcome[t]
                     ELSE IF Of(t) \in DOMAIN results THEN results[Of(t)]
                          ELSE Unavailable("fleet_unreachable")]
           n == BatchDone(call, results)
           past == IF Len(call.todo) = 1 THEN "done" ELSE "store"
<1>1. /\ batch \in Seq(CommandsOf(call)) /\ batch = call.todo[1]
      /\ \A i, j \in DOMAIN batch : batch[i].task = batch[j].task => i = j
      /\ \A i \in DOMAIN batch : batch[i].task \notin DOMAIN call.outcome
      /\ IsSequence(call.todo) /\ 1 \in DOMAIN call.todo
  BY BatchInHand
<1>2. /\ IsExpress(n)
      /\ n.pc = past /\ n.at = call.at /\ n.tasks = call.tasks /\ n.todo = Tail(call.todo)
      /\ n.outcome = all /\ n.said = call.said
  <2>1. n = [call EXCEPT !.pc = past, !.todo = Tail(call.todo), !.prepared = <<>>,
                         !.acks = <<>>, !.results = <<>>, !.outcome = all]
    BY DEF BatchDone
  <2> HIDE DEF all, past, n
  <2> QED BY <2>1 DEF IsExpress
<1> HIDE DEF n, batch
<1>3. DOMAIN n.outcome = DOMAIN call.outcome \cup theirs BY <1>2
<1>4. WorklistOK(n) /\ (n.todo = <<>> <=> Len(call.todo) = 1)
  <2> HIDE DEF all, past
  <2>1. n.tasks = call.tasks /\ n.at = call.at /\ n.todo = Tail(call.todo) BY <1>2
  <2>2. DOMAIN n.outcome = DOMAIN call.outcome
                           \cup {Head(call.todo)[i].task : i \in DOMAIN Head(call.todo)}
    BY <1>3 DEF batch
  <2> QED BY <2>1, <2>2, RestOfWorklist
<1>5. SaidOK(n)
  <2>1. ASSUME NEW t \in DOMAIN n.said
        PROVE  t \in DOMAIN n.outcome /\ n.outcome[t].status = Told[n.said[t]]
    <3>1. CASE t \in DOMAIN call.outcome BY <1>2, <3>1
    <3>2. CASE t \notin DOMAIN call.outcome
      <4>1. PICK i \in DOMAIN results \cap DOMAIN batch : batch[i].task = t
        BY <1>2, <3>2 DEF batch
      <4>2. Of(t) = i BY <1>1, <4>1
      <4>3. t \in theirs BY <4>1
      <4>4. all[t] = IF Of(t) \in DOMAIN results THEN results[Of(t)]
                     ELSE Unavailable("fleet_unreachable")
        <5> HIDE DEF Of, theirs
        <5> QED BY <3>2, <4>3
      <4> HIDE DEF Of, theirs, all
      <4>5. n.outcome[t] = results[i] BY <1>2, <4>1, <4>2, <4>4
      <4>6. results[i].status = Told[call.said[t]] BY <1>2, <4>1 DEF batch
      <4> QED BY <1>2, <1>3, <4>3, <4>5, <4>6
    <3> QED BY <3>1, <3>2
  <2>2. n.pc # "acks" BY <1>2
  <2> QED BY <2>1, <2>2 DEF SaidOK
<1> HIDE DEF all, theirs
<1>6. /\ n.pc \in {"store", "done"}
      /\ n.pc = "store" => n.todo # <<>>
      /\ n.pc = "done" => n.todo = <<>>
  BY <1>2, <1>4
<1>7. n.at \in Nat /\ n.at <= now BY <1>2
<1> QED BY <1>2, <1>4, <1>5, <1>6, <1>7 DEF ExpressOK, n

----------------------------------------------------------------------------
(***************************************************************************)
(* The steps of an express call, one by one.                               *)
(***************************************************************************)
\* Chunking a worklist, or a batch, keeps the sequence of every chunk.
LEMMA ChunksAreSequences ==
    ASSUME NEW items, IsSequence(items), NEW size \in Nat,
           NEW c, c = Chunk(items, size)
    PROVE  /\ IsSequence(c)
           /\ \A b \in DOMAIN c : IsSequence(c[b])
           /\ items # <<>> => c # <<>>
<1> DEFINE X == {items[i] : i \in DOMAIN items}
<1>1. items \in Seq(X) BY DEF IsSequence
<1> HIDE DEF X
<1>2. c \in Seq(Seq(X)) /\ (items # <<>> => c # <<>>) BY <1>1, ChunkParts
<1>3. IsSequence(c) /\ \A b \in DOMAIN c : c[b] \in Seq(X) BY <1>2, SequenceOf
<1>4. \A b \in DOMAIN c : IsSequence(c[b]) BY <1>3, SequenceOf
<1> QED BY <1>2, <1>3, <1>4

\* Every task of the worklist gets its command, in some chunk.
LEMMA ReadCapabilitiesOK ==
    ASSUME NEW call, ExpressOK(call), call.pc = "capabilities", NEW d \in Deployments
    PROVE  LET capabilities == DescribeCapabilities(Fleet, d)
               commands == [i \in DOMAIN call.tasks |->
                              BuildExpressCommand(call.tasks[i], capabilities, call.at,
                                                  StandardDispatchPolicy)]
           IN  ExpressOK([call EXCEPT !.pc = "store",
                                      !.todo = Chunk(commands, capabilities.batchLimit)])
<1> DEFINE capabilities == DescribeCapabilities(Fleet, d)
           size == capabilities.batchLimit
           CommandFor(i) == BuildExpressCommand(call.tasks[i], capabilities, call.at,
                                             StandardDispatchPolicy)
           commands == [i \in DOMAIN call.tasks |-> CommandFor(i)]
<1>0. PICK todo : todo = Chunk(commands, size) OBVIOUS
<1>1. PICK n : n = [call EXCEPT !.pc = "store", !.todo = todo] OBVIOUS
<1>2. /\ IsExpress(n) /\ n.pc = "store" /\ n.todo = todo /\ n.tasks = call.tasks
      /\ n.at = call.at /\ n.outcome = <<>> /\ n.said = call.said
  BY <1>1 DEF ExpressOK, IsExpress
<1>3. size \in Nat BY DeclaredLimits
<1>4. WorklistOK(call) /\ call.outcome = <<>> /\ SaidOK(call) /\ call.at \in Nat /\ call.at <= now
  BY DEF ExpressOK
<1>5. /\ IsSequence(call.tasks) /\ call.tasks # <<>>
      /\ \A i, j \in DOMAIN call.tasks : call.tasks[i].id = call.tasks[j].id => i = j
  BY <1>4 DEF WorklistOK
<1>6. \A i : CommandFor(i).task = call.tasks[i].id BY DEF BuildExpressCommand
<1>7. \A i \in DOMAIN call.tasks : CommandFor(i) \in CommandsOf(call) BY DEF CommandsOf
<1> HIDE DEF CommandFor, size
<1>8. commands \in Seq(CommandsOf(call)) /\ commands # <<>>
  <2>1. call.tasks = [i \in 1..Len(call.tasks) |-> call.tasks[i]] /\ Len(call.tasks) \in Nat
        /\ DOMAIN call.tasks = 1..Len(call.tasks)
    BY <1>5, HeadAndTail DEF IsSequence
  <2>2. 1 \in DOMAIN call.tasks BY <1>5, HeadAndTail
  <2>3. commands \in Seq(CommandsOf(call)) BY <1>7, <2>1
  <2> QED BY <2>2, <2>3
<1>9. DOMAIN commands = DOMAIN call.tasks
      /\ \A i \in DOMAIN call.tasks : commands[i].task = call.tasks[i].id
  BY <1>6
<1> HIDE DEF commands
<1>10. /\ todo \in Seq(Seq(CommandsOf(call))) /\ todo # <<>>
       /\ \A b \in DOMAIN todo : \A k \in DOMAIN todo[b] :
            /\ Place(size, b, k) \in DOMAIN commands
            /\ todo[b][k] = commands[Place(size, b, k)]
       /\ \A a, b \in DOMAIN todo : \A j \in DOMAIN todo[a], k \in DOMAIN todo[b] :
            Place(size, a, j) = Place(size, b, k) => a = b /\ j = k
       /\ \A i \in DOMAIN commands : \E b \in DOMAIN todo : \E k \in DOMAIN todo[b] :
            Place(size, b, k) = i
  <2>1. commands # <<>> /\ commands \in Seq(CommandsOf(call)) /\ size \in Nat BY <1>3, <1>8
  <2>2. todo = Chunk(commands, size) BY <1>0
  <2>3. todo # <<>> /\ todo \in Seq(Seq(CommandsOf(call))) BY <2>1, <2>2, ChunkParts
  <2>4. IsSequence(commands) BY <2>1, SequenceOf
  <2>5. /\ HoldsItems(commands, size, todo) /\ CoversItems(commands, size, todo)
        /\ PlacesApart(size, todo)
    BY <2>1, <2>2, <2>4, ChunkItems
  <2> QED BY <2>3, <2>5 DEF HoldsItems, CoversItems, PlacesApart
<1>11. ASSUME NEW a \in DOMAIN todo, NEW b \in DOMAIN todo,
              NEW i \in DOMAIN todo[a], NEW j \in DOMAIN todo[b],
              todo[a][i].task = todo[b][j].task
       PROVE  a = b /\ i = j
  <2>1. Place(size, a, i) = Place(size, b, j) BY <1>5, <1>9, <1>10, <1>11
  <2> QED BY <1>10, <2>1
<1>12. Asked(n) = UNION {{todo[b][i].task : i \in DOMAIN todo[b]} : b \in DOMAIN todo}
  <2>1. Asked(n) = {call.tasks[i].id : i \in DOMAIN call.tasks} BY <1>2 DEF Asked
  <2>2. ASSUME NEW i \in DOMAIN call.tasks
        PROVE  \E b \in DOMAIN todo : \E k \in DOMAIN todo[b] : todo[b][k].task = call.tasks[i].id
    <3>1. PICK b \in DOMAIN todo : \E k \in DOMAIN todo[b] : Place(size, b, k) = i
      BY <1>9, <1>10
    <3>2. PICK k \in DOMAIN todo[b] : Place(size, b, k) = i BY <3>1
    <3>3. todo[b][k] = commands[i] BY <1>10, <3>2
    <3> QED BY <1>9, <3>3
  <2>3. ASSUME NEW b \in DOMAIN todo, NEW k \in DOMAIN todo[b]
        PROVE  \E i \in DOMAIN call.tasks : todo[b][k].task = call.tasks[i].id
    <3>1. /\ Place(size, b, k) \in DOMAIN commands
          /\ todo[b][k] = commands[Place(size, b, k)]
      BY <1>10
    <3> QED BY <1>9, <3>1
  <2> QED BY <2>1, <2>2, <2>3
<1>13. WorklistOK(n)
  <2>1. CommandsOf(n) = CommandsOf(call) BY <1>2 DEF CommandsOf
  <2>2. DOMAIN n.outcome = {} BY <1>2
  <2>3. \A a, b \in DOMAIN n.todo : \A i \in DOMAIN n.todo[a], j \in DOMAIN n.todo[b] :
           n.todo[a][i].task = n.todo[b][j].task => a = b /\ i = j
    BY <1>2, <1>11
  <2> QED BY <1>2, <1>5, <1>10, <1>12, <2>1, <2>2, <2>3 DEF WorklistOK
<1>14. SaidOK(n)
  <2>1. \A t \in DOMAIN call.said \ DOMAIN call.outcome : call.pc \in {"gateway", "acks"}
    BY <1>4 DEF SaidOK
  <2>2. DOMAIN call.outcome = {} BY <1>4
  <2>3. DOMAIN n.said = {} BY <1>2, <2>1, <2>2
  <2> QED BY <1>2, <2>3 DEF SaidOK
<1>15. ExpressOK(n) BY <1>2, <1>4, <1>10, <1>13, <1>14 DEF ExpressOK
<1> QED BY <1>0, <1>1, <1>15 DEF commands, size, CommandFor

\* A fleet that can express nothing leaves every task to the handheld list.

\* Before the gateway is asked, it has said nothing that is not in an outcome.
LEMMA NothingSaidYet ==
    ASSUME NEW call, SaidOK(call), call.pc \notin {"gateway", "acks"}
    PROVE  /\ DOMAIN call.said \subseteq DOMAIN call.outcome
           /\ \A t \in DOMAIN call.outcome \cap DOMAIN call.said :
                call.outcome[t].status = Told[call.said[t]]
BY DEF SaidOK

\* A fleet that can express nothing leaves every task to the handheld list.
LEMMA CannotExpressOK ==
    ASSUME NEW call, ExpressOK(call), call.pc = "capabilities"
    PROVE  ExpressOK([call EXCEPT !.pc = "done",
                        !.outcome = [t \in Asked(call) |-> Unavailable("no_supported_mode")]])
<1> DEFINE all == [t \in Asked(call) |-> Unavailable("no_supported_mode")]
<1>1. PICK n : n = [call EXCEPT !.pc = "done", !.outcome = all] OBVIOUS
<1>2. /\ WorklistOK(call) /\ call.outcome = <<>> /\ SaidOK(call) /\ call.todo = <<>>
      /\ call.at \in Nat /\ call.at <= now
  BY DEF ExpressOK
<1>3. /\ IsExpress(n) /\ n.pc = "done" /\ n.todo = <<>> /\ n.tasks = call.tasks
      /\ n.at = call.at /\ n.outcome = all /\ n.said = call.said
  BY <1>1, <1>2 DEF ExpressOK, IsExpress
<1>4. DOMAIN n.said = {} BY <1>2, <1>3, NothingSaidYet
<1>5. SaidOK(n) BY <1>3, <1>4 DEF SaidOK
<1>6. WorklistOK(n)
  <2>1. Asked(n) = Asked(call) /\ DOMAIN n.outcome = Asked(call) BY <1>3 DEF Asked
  <2>2. n.todo \in Seq(Seq(CommandsOf(n))) /\ DOMAIN n.todo = {} BY <1>3
  <2> HIDE DEF all
  <2>3. /\ IsSequence(n.tasks) /\ n.tasks # <<>>
        /\ \A i, j \in DOMAIN n.tasks : n.tasks[i].id = n.tasks[j].id => i = j
    BY <1>2, <1>3 DEF WorklistOK
  <2> QED BY <2>1, <2>2, <2>3 DEF WorklistOK
<1>7. ExpressOK(n) BY <1>2, <1>3, <1>5, <1>6 DEF ExpressOK
<1> QED BY <1>1, <1>7

\* A store whose tags cannot be reached leaves the batch in hand to it, too.
LEMMA StoreUnusableOK ==
    ASSUME NEW call, ExpressOK(call), call.pc = "store", NEW results
    PROVE  ExpressOK(BatchDone(call, results))
<1>1. /\ WorklistOK(call) /\ SaidOK(call) /\ call.todo # <<>> /\ IsExpress(call)
      /\ call.at \in Nat /\ call.at <= now
  BY DEF ExpressOK
<1>2. /\ DOMAIN call.said \subseteq DOMAIN call.outcome
      /\ \A t \in DOMAIN call.outcome \cap DOMAIN call.said :
           call.outcome[t].status = Told[call.said[t]]
  BY <1>1, NothingSaidYet
<1>3. \A i \in DOMAIN Head(call.todo) : Head(call.todo)[i].task \notin DOMAIN call.said
  BY <1>1, <1>2, BatchInHand
<1>4. \A i \in DOMAIN results \cap DOMAIN Head(call.todo) :
        Head(call.todo)[i].task \in DOMAIN call.said =>
          results[i].status = Told[call.said[Head(call.todo)[i].task]]
  BY <1>3
<1>5. \A t \in DOMAIN call.said \ DOMAIN call.outcome :
        \E i \in DOMAIN results \cap DOMAIN Head(call.todo) : Head(call.todo)[i].task = t
  BY <1>2
<1> QED BY <1>1, <1>2, <1>4, <1>5, BatchDoneOK

\* What is prepared of a command was granted its lease.
LEMMA PreparedLease ==
    ASSUME NEW call, call.at \in Nat, call.at <= now,
           NEW command \in CommandsOf(call),
           NEW index, NEW binding, NEW d \in Deployments
    PROVE  GrantedLease(Prepared(index, command, binding, LeaseFor(Fleet, d)))
<1> DEFINE lease == LeaseFor(Fleet, d)
<1>1. lease \in Leases /\ lease \in Nat BY DeclaredLimits, LeasesAreNat
<1>2. command.requestedAt = call.at /\ command.expiresAt \in Int
  <2>1. PICK i \in DOMAIN call.tasks : \E e \in Deployments :
          command = BuildExpressCommand(call.tasks[i], DescribeCapabilities(Fleet, e), call.at,
                                        StandardDispatchPolicy)
    BY DEF CommandsOf
  <2>2. PICK e \in Deployments :
          command = BuildExpressCommand(call.tasks[i], DescribeCapabilities(Fleet, e), call.at,
                                        StandardDispatchPolicy)
    BY <2>1
  <2>3. /\ command.requestedAt = call.at
        /\ command.expiresAt = call.at + DescribeCapabilities(Fleet, e).lease
    BY <2>2 DEF BuildExpressCommand
  <2> QED BY <2>3, DeclaredLimits
<1> DEFINE p == Prepared(index, command, binding, lease)
<1>3. /\ p.requestedAt = call.at /\ p.lease = lease
      /\ p.expiresAt = Earlier(command.expiresAt, call.at + lease)
  BY <1>2 DEF Prepared, ExpiresAt
<1> HIDE DEF p, lease
<1>4. p.expiresAt \in Int /\ p.expiresAt <= call.at + lease BY <1>1, <1>2, <1>3 DEF Earlier
<1>5. GrantedLease(p) BY <1>1, <1>3, <1>4 DEF GrantedLease
<1> QED BY <1>5 DEF p, lease

\* The commands of a batch that pass the local checks, in the order of the batch.
IsPrepared(entries, S, batch) ==
    /\ IsSequence(entries)
    /\ \A k \in DOMAIN entries :
         /\ entries[k].index \in S
         /\ entries[k].task = batch[entries[k].index].task
         /\ GrantedLease(entries[k])
    /\ \A j, k \in DOMAIN entries : entries[j].index = entries[k].index => j = k

PreparedFrom(entries, going, batch, d) ==
    /\ entries = [k \in DOMAIN going |-> entries[k]]
    /\ \A k \in DOMAIN going : \E binding :
         entries[k] = Prepared(going[k], batch[going[k]], binding, LeaseFor(Fleet, d))

LEMMA EntriesOfBatch ==
    ASSUME NEW call, call.at \in Nat, call.at <= now,
           NEW batch \in Seq(CommandsOf(call)), NEW S \in SUBSET DOMAIN batch,
           NEW going, going = Ascending(S), NEW d \in Deployments,
           NEW entries, PreparedFrom(entries, going, batch, d)
    PROVE  IsPrepared(entries, S, batch) /\ (entries = <<>> <=> going = <<>>)
<1>1. Len(batch) \in Nat /\ DOMAIN batch = 1..Len(batch) OBVIOUS
<1>2. /\ going \in Seq(S)
      /\ \A i, j \in DOMAIN going : going[i] = going[j] => i = j
  BY <1>1, AscendingLists
<1>3. Len(going) \in Nat /\ DOMAIN going = 1..Len(going) /\ \A k \in DOMAIN going : going[k] \in S
  BY <1>2
<1>4. ASSUME NEW k \in DOMAIN going
      PROVE  /\ entries[k].index = going[k]
             /\ entries[k].task = batch[going[k]].task
             /\ GrantedLease(entries[k])
  <2>1. PICK binding :
          entries[k] = Prepared(going[k], batch[going[k]], binding, LeaseFor(Fleet, d))
    BY DEF PreparedFrom
  <2>2. batch[going[k]] \in CommandsOf(call) BY <1>3
  <2>3. GrantedLease(Prepared(going[k], batch[going[k]], binding, LeaseFor(Fleet, d)))
    BY <2>2, PreparedLease
  <2>4. /\ Prepared(going[k], batch[going[k]], binding, LeaseFor(Fleet, d)).index = going[k]
        /\ Prepared(going[k], batch[going[k]], binding, LeaseFor(Fleet, d)).task
             = batch[going[k]].task
    BY DEF Prepared
  <2> QED BY <2>1, <2>3, <2>4
<1>5. IsSequence(entries) /\ DOMAIN entries = DOMAIN going
  <2>0. entries = [k \in DOMAIN going |-> entries[k]] BY DEF PreparedFrom
  <2>1. entries \in Seq({entries[i] : i \in DOMAIN entries}) BY <1>3, <2>0
  <2> QED BY <2>0, <2>1 DEF IsSequence
<1>6. entries = <<>> <=> going = <<>> BY <1>2, <1>3, <1>5
<1> QED BY <1>2, <1>3, <1>4, <1>5, <1>6 DEF IsPrepared

\* The batch is sent in chunks; a batch of which nothing is to be sent is done.
LEMMA PrepareOK ==
    ASSUME NEW call, ExpressOK(call), call.pc = "store",
           NEW S \in SUBSET DOMAIN Head(call.todo),
           NEW answers, DOMAIN answers = DOMAIN Head(call.todo) \ S,
           NEW entries, IsPrepared(entries, S, Head(call.todo)), NEW size \in Nat,
           NEW n, n = [call EXCEPT !.pc = "gateway", !.results = answers,
                                   !.prepared = Chunk(entries, size)]
    PROVE  ExpressOK(IF entries = <<>> THEN BatchDone(n, answers) ELSE n)
<1>0. PICK batch : batch = Head(call.todo) OBVIOUS
<1>1. PICK ahead : ahead = Chunk(entries, size) OBVIOUS
<1>2. /\ WorklistOK(call) /\ SaidOK(call) /\ call.todo # <<>> /\ IsExpress(call)
      /\ call.at \in Nat /\ call.at <= now
  BY DEF ExpressOK
<1>3. /\ IsExpress(n) /\ n.pc = "gateway" /\ n.todo = call.todo /\ n.tasks = call.tasks
      /\ n.at = call.at /\ n.outcome = call.outcome /\ n.said = call.said
      /\ n.results = answers /\ n.prepared = ahead
  BY <1>1, <1>2 DEF IsExpress
<1>4. WorklistOK(n)
  <2>1. CommandsOf(n) = CommandsOf(call) /\ Asked(n) = Asked(call)
    BY <1>3 DEF CommandsOf, Asked
  <2> QED BY <1>2, <1>3, <2>1 DEF WorklistOK, ExpressOK
<1>5. /\ DOMAIN n.said \subseteq DOMAIN n.outcome
      /\ \A t \in DOMAIN n.outcome \cap DOMAIN n.said : n.outcome[t].status = Told[n.said[t]]
  BY <1>2, <1>3, NothingSaidYet
<1>6. \A i \in DOMAIN batch : batch[i].task \notin DOMAIN n.said
  BY <1>0, <1>2, <1>3, <1>5, BatchInHand
<1>7. CASE entries = <<>>
  <2>1. ExpressOK(BatchDone(n, answers))
    <3>1. \A i \in DOMAIN answers \cap DOMAIN Head(n.todo) :
            Head(n.todo)[i].task \in DOMAIN n.said =>
              answers[i].status = Told[n.said[Head(n.todo)[i].task]]
      BY <1>0, <1>3, <1>6
    <3>2. \A t \in DOMAIN n.said \ DOMAIN n.outcome :
            \E i \in DOMAIN answers \cap DOMAIN Head(n.todo) : Head(n.todo)[i].task = t
      BY <1>5
    <3>3. /\ n.pc # "capabilities" /\ n.todo # <<>> /\ n.at \in Nat /\ n.at <= now
          /\ IsExpress(n)
      BY <1>2, <1>3
    <3> QED BY ONLY <1>4, <1>5, <3>1, <3>2, <3>3, BatchDoneOK
  <2> QED BY <1>7, <2>1
<1>8. CASE entries # <<>>
  <2>1. IsSequence(entries) BY DEF IsPrepared
  <2>2. IsSequence(ahead) /\ (\A c \in DOMAIN ahead : IsSequence(ahead[c])) /\ ahead # <<>>
    BY <1>1, <1>8, <2>1, ChunksAreSequences
  <2>3. HoldsItems(entries, size, ahead) /\ PlacesApart(size, ahead)
    BY <1>1, <2>1, ChunkItems
  <2>4. ASSUME NEW c \in DOMAIN ahead, NEW k \in DOMAIN ahead[c]
        PROVE  /\ ahead[c][k].index \in DOMAIN batch \ DOMAIN answers
               /\ ahead[c][k].task = batch[ahead[c][k].index].task
               /\ GrantedLease(ahead[c][k])
    <3>1. /\ Place(size, c, k) \in DOMAIN entries
          /\ ahead[c][k] = entries[Place(size, c, k)]
      BY <2>3 DEF HoldsItems
    <3> QED BY <1>0, <3>1 DEF IsPrepared
  <2>5. ASSUME NEW b \in DOMAIN ahead, NEW c \in DOMAIN ahead,
               NEW j \in DOMAIN ahead[b], NEW k \in DOMAIN ahead[c],
               ahead[b][j].index = ahead[c][k].index
        PROVE  b = c /\ j = k
    <3>1. /\ Place(size, b, j) \in DOMAIN entries /\ ahead[b][j] = entries[Place(size, b, j)]
          /\ Place(size, c, k) \in DOMAIN entries /\ ahead[c][k] = entries[Place(size, c, k)]
      BY <2>3 DEF HoldsItems
    <3>2. Place(size, b, j) = Place(size, c, k) BY <2>5, <3>1 DEF IsPrepared
    <3> QED BY <2>3, <3>2 DEF PlacesApart
  <2>6. BatchOK(n)
    <3>1. Head(n.todo) = batch /\ n.prepared = ahead /\ n.results = answers BY <1>0, <1>3
    <3>2. AheadOK(ahead, batch, DOMAIN answers) BY ONLY <2>2, <2>4, <2>5 DEF AheadOK
    <3>3. ResultsOK(answers, batch, n.said) BY <1>0, <1>6 DEF ResultsOK
    <3> QED BY ONLY <2>2, <3>1, <3>2, <3>3 DEF BatchOK
  <2>7. SaidOK(n) BY <1>3, <1>5 DEF SaidOK
  <2>8. ExpressOK(n) BY <1>2, <1>3, <1>4, <2>6, <2>7 DEF ExpressOK
  <2> QED BY <1>8, <2>8
<1> QED BY <1>7, <1>8

----------------------------------------------------------------------------
(***************************************************************************)
(* The gateway answers, and its answers become results.                    *)
(***************************************************************************)
\* The chunk in hand, among those still to go out.
LEMMA ChunkInHand ==
    ASSUME NEW call, WorklistOK(call), call.todo # <<>>, BatchOK(call)
    PROVE  /\ Head(call.prepared) = call.prepared[1] /\ 1 \in DOMAIN call.prepared
           /\ IsSequence(Head(call.prepared))
           /\ \A k \in DOMAIN Head(call.prepared) :
                /\ Head(call.prepared)[k].index \in DOMAIN Head(call.todo) \ DOMAIN call.results
                /\ Head(call.prepared)[k].task
                     = Head(call.todo)[Head(call.prepared)[k].index].task
                /\ GrantedLease(Head(call.prepared)[k])
                /\ Head(call.prepared)[k].task \notin DOMAIN call.outcome
           /\ \A j, k \in DOMAIN Head(call.prepared) :
                \/ Head(call.prepared)[j].index = Head(call.prepared)[k].index
                \/ Head(call.prepared)[j].task = Head(call.prepared)[k].task
                => j = k
<1>0. PICK chunk : chunk = Head(call.prepared) OBVIOUS
<1>1. PICK batch : batch = Head(call.todo) OBVIOUS
<1>2. AheadOK(call.prepared, batch, DOMAIN call.results) /\ call.prepared # <<>>
  BY <1>1 DEF BatchOK
<1>3. chunk = call.prepared[1] /\ 1 \in DOMAIN call.prepared
  BY <1>0, <1>2, HeadAndTail DEF AheadOK
<1>4. /\ IsSequence(chunk)
      /\ \A k \in DOMAIN chunk : /\ chunk[k].index \in DOMAIN batch \ DOMAIN call.results
                                 /\ chunk[k].task = batch[chunk[k].index].task
                                 /\ GrantedLease(chunk[k])
      /\ \A j, k \in DOMAIN chunk : chunk[j].index = chunk[k].index => j = k
  <2>1. IsSequence(chunk) BY <1>2, <1>3 DEF AheadOK
  <2>2. \A k \in DOMAIN chunk : /\ chunk[k].index \in DOMAIN batch \ DOMAIN call.results
                                /\ chunk[k].task = batch[chunk[k].index].task
                                /\ GrantedLease(chunk[k])
    BY <1>2, <1>3 DEF AheadOK
  <2>3. \A j, k \in DOMAIN chunk : chunk[j].index = chunk[k].index => j = k
    BY ONLY <1>2, <1>3 DEF AheadOK
  <2> QED BY <2>1, <2>2, <2>3
<1>5. /\ \A i, j \in DOMAIN batch : batch[i].task = batch[j].task => i = j
      /\ \A i \in DOMAIN batch : batch[i].task \notin DOMAIN call.outcome
  BY <1>1, BatchInHand
<1>6. \A j, k \in DOMAIN chunk : chunk[j].task = chunk[k].task => j = k BY <1>4, <1>5
<1>7. \A k \in DOMAIN chunk : chunk[k].task \notin DOMAIN call.outcome BY <1>4, <1>5
<1> QED BY <1>0, <1>1, <1>3, <1>4, <1>6, <1>7

\* Of a command that is going out the gateway has said nothing yet.
LEMMA ChunkNotSaid ==
    ASSUME NEW call, ExpressOK(call), call.pc = "gateway",
           NEW k \in DOMAIN Head(call.prepared)
    PROVE  Head(call.prepared)[k].task \notin DOMAIN call.said
<1>1. WorklistOK(call) /\ call.todo # <<>> /\ BatchOK(call) /\ SaidOK(call) BY DEF ExpressOK
<1>2. PICK i \in DOMAIN Head(call.todo) :
        /\ i \notin DOMAIN call.results /\ Head(call.prepared)[k].task = Head(call.todo)[i].task
        /\ Head(call.prepared)[k].task \notin DOMAIN call.outcome
  BY <1>1, ChunkInHand
<1>3. \A j \in DOMAIN call.results : j \in DOMAIN Head(call.todo)
  BY <1>1 DEF BatchOK, ResultsOK
<1>4. \A j \in DOMAIN call.results : Head(call.todo)[j].task # Head(call.todo)[i].task
  BY <1>1, <1>2, <1>3, BatchInHand
<1>5. \A t \in DOMAIN call.said \ DOMAIN call.outcome :
        \E j \in DOMAIN call.results : Head(call.todo)[j].task = t
  BY <1>1 DEF SaidOK
<1> QED BY <1>2, <1>4, <1>5

\* What was said before stays, and the commands of the chunk are answered, or not.
SaidGrows(said, more, sent, did, answered) ==
    /\ DOMAIN more = DOMAIN said \cup {sent[k].task : k \in DOMAIN sent}
    /\ \A t \in DOMAIN said : more[t] = said[t]
    /\ \A k \in DOMAIN sent : sent[k].task \notin DOMAIN said =>
         more[sent[k].task] = IF k <= answered THEN did[k] ELSE "silent"

\* A call that has heard from the gateway.
HeardFrom(call, n, sent, did, answered) ==
    /\ IsExpress(n) /\ n.pc = "acks" /\ n.acks = [k \in 1..answered |-> did[k]]
    /\ did \in [DOMAIN sent -> Outcomes] /\ answered \in 0..Len(sent)
    /\ SaidGrows(call.said, n.said, sent, did, answered)
    /\ n.at = call.at /\ n.tasks = call.tasks /\ n.todo = call.todo
    /\ n.prepared = call.prepared /\ n.results = call.results /\ n.outcome = call.outcome

\* The gateway answers for the chunk that went out.
LEMMA GatewayExpressOK ==
    ASSUME NEW call, ExpressOK(call), call.pc = "gateway",
           NEW sent, sent = Head(call.prepared), NEW n, NEW did, NEW answered,
           HeardFrom(call, n, sent, did, answered)
    PROVE  ExpressOK(n)
<1>1. /\ WorklistOK(call) /\ SaidOK(call) /\ call.todo # <<>> /\ BatchOK(call)
      /\ call.at \in Nat /\ call.at <= now
  BY DEF ExpressOK
<1>11. /\ IsExpress(n) /\ n.pc = "acks" /\ n.acks = [k \in 1..answered |-> did[k]]
      /\ did \in [DOMAIN sent -> Outcomes] /\ answered \in 0..Len(sent)
      /\ SaidGrows(call.said, n.said, sent, did, answered)
      /\ n.at = call.at /\ n.tasks = call.tasks /\ n.todo = call.todo
      /\ n.prepared = call.prepared /\ n.results = call.results /\ n.outcome = call.outcome
  BY DEF HeardFrom
<1>12. PICK said : said = n.said OBVIOUS
<1>13. PICK acks : acks = n.acks OBVIOUS
<1>0. /\ DOMAIN said = DOMAIN call.said \cup {sent[k].task : k \in DOMAIN sent}
      /\ \A t \in DOMAIN call.said : said[t] = call.said[t]
      /\ \A k \in DOMAIN sent : sent[k].task \notin DOMAIN call.said =>
           said[sent[k].task] = IF k <= answered THEN did[k] ELSE "silent"
  BY <1>11, <1>12 DEF SaidGrows
<1>2. PICK batch : batch = Head(call.todo) OBVIOUS
<1>3. /\ IsSequence(sent)
      /\ \A k \in DOMAIN sent : /\ sent[k].index \in DOMAIN batch \ DOMAIN call.results
                                /\ sent[k].task = batch[sent[k].index].task
                                /\ sent[k].task \notin DOMAIN call.outcome
                                /\ sent[k].task \notin DOMAIN call.said
  BY <1>1, <1>2, ChunkInHand, ChunkNotSaid
<1>4. WorklistOK(n)
  <2>1. CommandsOf(n) = CommandsOf(call) /\ Asked(n) = Asked(call) BY <1>11 DEF CommandsOf, Asked
  <2> QED BY <1>1, <1>11, <2>1 DEF WorklistOK
<1>5. \A i, j \in DOMAIN batch : batch[i].task = batch[j].task => i = j
  BY <1>1, <1>2, BatchInHand
<1>6. BatchOK(n)
  <2>1. /\ AheadOK(call.prepared, batch, DOMAIN call.results) /\ call.prepared # <<>>
        /\ ResultsOK(call.results, batch, call.said)
    BY <1>1, <1>2 DEF BatchOK
  <2>2. ASSUME NEW i \in DOMAIN call.results, batch[i].task \in DOMAIN said
        PROVE  call.results[i].status = Told[said[batch[i].task]]
    <3>1. \A k \in DOMAIN sent : batch[i].task # sent[k].task
      BY <1>3, <1>5, <2>1 DEF ResultsOK
    <3>2. batch[i].task \in DOMAIN call.said BY <1>0, <2>2, <3>1
    <3>3. call.results[i].status = Told[call.said[batch[i].task]] BY <2>1, <3>2 DEF ResultsOK
    <3> QED BY <1>0, <3>2, <3>3
  <2>3. ResultsOK(call.results, batch, said) BY <2>1, <2>2 DEF ResultsOK
  <2> QED BY <1>2, <1>11, <1>12, <2>1, <2>3 DEF BatchOK
<1>14. /\ n.outcome = call.outcome /\ n.said = said /\ n.results = call.results
       /\ Head(n.todo) = batch /\ Head(n.prepared) = sent
  BY <1>2, <1>11, <1>12
<1>7. SaidOK(n)
  <2>1. ASSUME NEW t \in DOMAIN n.outcome \cap DOMAIN n.said
        PROVE  n.outcome[t].status = Told[n.said[t]]
    <3>1. t \in DOMAIN call.said BY <1>0, <1>3, <1>14
    <3>2. call.outcome[t].status = Told[call.said[t]] BY <1>1, <1>14, <3>1 DEF SaidOK
    <3> QED BY <1>0, <1>14, <3>1, <3>2
  <2>2. ASSUME NEW t \in DOMAIN n.said \ DOMAIN n.outcome
        PROVE  \/ \E i \in DOMAIN n.results : Head(n.todo)[i].task = t
               \/ \E k \in DOMAIN Head(n.prepared) : Head(n.prepared)[k].task = t
    <3>1. CASE t \in DOMAIN call.said
      <4>1. \/ \E i \in DOMAIN call.results : batch[i].task = t
            \/ \E k \in DOMAIN sent : sent[k].task = t
        BY <1>1, <1>2, <1>14, <3>1 DEF SaidOK
      <4> QED BY <1>14, <4>1
    <3>2. CASE t \notin DOMAIN call.said BY <1>0, <1>14, <3>2
    <3> QED BY <3>1, <3>2
  <2>3. DOMAIN sent = 1..Len(sent) /\ Len(sent) \in Nat BY <1>3 DEF IsSequence
  <2>4. DOMAIN n.acks \subseteq DOMAIN Head(n.prepared) BY <1>11, <2>3
  <2>5. ASSUME NEW k \in DOMAIN sent
        PROVE  /\ sent[k].task \in DOMAIN said
               /\ said[sent[k].task] = IF k \in DOMAIN acks THEN acks[k] ELSE "silent"
               /\ k \in DOMAIN acks => acks[k] \in Outcomes
    <3>1. DOMAIN acks = 1..answered BY <1>11, <1>13, <2>3
    <3>2. k \in 1..answered <=> k <= answered BY <1>11, <2>3
    <3>3. \A j \in 1..answered : acks[j] = did[j] BY <1>11, <1>13
    <3> QED BY <1>0, <1>3, <1>11, <3>1, <3>2, <3>3
  <2>6. \A k \in DOMAIN Head(n.prepared) :
          /\ Head(n.prepared)[k].task \in DOMAIN n.said
          /\ n.said[Head(n.prepared)[k].task] = IF k \in DOMAIN n.acks THEN n.acks[k] ELSE "silent"
          /\ k \in DOMAIN n.acks => n.acks[k] \in Outcomes
    BY ONLY <1>11, <1>12, <1>13, <2>5, sent = Head(call.prepared)
  <2> QED BY ONLY <1>11, <2>1, <2>2, <2>4, <2>6 DEF SaidOK
<1> QED BY <1>1, <1>11, <1>4, <1>6, <1>7 DEF ExpressOK

\* The chunks that are left when one has its results.
LEMMA RestOfChunks ==
    ASSUME NEW ahead, ahead # <<>>, NEW batch, NEW answered, AheadOK(ahead, batch, answered),
           NEW more,
           more = answered \cup {Head(ahead)[k].index : k \in DOMAIN Head(ahead)}
    PROVE  AheadOK(Tail(ahead), batch, more)
<1>1. PICK rest : rest = Tail(ahead) OBVIOUS
<1>2. /\ IsSequence(ahead)
      /\ \A c \in DOMAIN ahead : IsSequence(ahead[c])
      /\ \A c \in DOMAIN ahead : \A k \in DOMAIN ahead[c] :
           /\ ahead[c][k].index \in DOMAIN batch \ answered
           /\ ahead[c][k].task = batch[ahead[c][k].index].task
           /\ GrantedLease(ahead[c][k])
      /\ \A b, c \in DOMAIN ahead : \A j \in DOMAIN ahead[b], k \in DOMAIN ahead[c] :
           ahead[b][j].index = ahead[c][k].index => b = c /\ j = k
  BY DEF AheadOK
<1>3. /\ IsSequence(rest) /\ Head(ahead) = ahead[1] /\ 1 \in DOMAIN ahead
      /\ \A c \in DOMAIN rest : c + 1 \in DOMAIN ahead /\ rest[c] = ahead[c + 1]
  BY <1>1, <1>2, HeadAndTail
<1>4. DOMAIN rest \subseteq Nat \ {0} BY <1>3 DEF IsSequence
<1>5. \A c \in DOMAIN rest : IsSequence(rest[c]) BY <1>2, <1>3
<1>6. ASSUME NEW c \in DOMAIN rest, NEW k \in DOMAIN rest[c]
      PROVE  /\ rest[c][k].index \in DOMAIN batch \ more
             /\ rest[c][k].task = batch[rest[c][k].index].task
             /\ GrantedLease(rest[c][k])
  <2>1. c + 1 \in DOMAIN ahead /\ rest[c] = ahead[c + 1] /\ c + 1 # 1 BY <1>3, <1>4
  <2>2. k \in DOMAIN ahead[c + 1] BY <2>1
  <2>3. \A j \in DOMAIN ahead[1] : ahead[1][j].index # ahead[c + 1][k].index
    BY <1>2, <1>3, <2>1, <2>2
  <2>4. rest[c][k].index \notin more BY <1>2, <1>3, <2>1, <2>2, <2>3
  <2> QED BY <1>2, <2>1, <2>2, <2>4
<1>7. ASSUME NEW b \in DOMAIN rest, NEW c \in DOMAIN rest,
             NEW j \in DOMAIN rest[b], NEW k \in DOMAIN rest[c],
             rest[b][j].index = rest[c][k].index
      PROVE  b = c /\ j = k
  <2>1. b + 1 = c + 1 /\ j = k BY <1>2, <1>3, <1>7
  <2> QED BY <1>4, <2>1
<1>8. AheadOK(rest, batch, more) BY ONLY <1>3, <1>5, <1>6, <1>7 DEF AheadOK
<1> QED BY <1>1, <1>8

\* What an ack makes of a command is what the gateway said of it.
LEMMA ResultTellsTheAck ==
    ASSUME NEW entry, NEW acks, NEW k, NEW answer,
           answer = IF k \in DOMAIN acks THEN acks[k] ELSE "silent",
           k \in DOMAIN acks => acks[k] \in Outcomes
    PROVE  ResultOf(entry, acks, k).status = Told[answer]
<1>1. CASE k \notin DOMAIN acks BY <1>1 DEF ResultOf, Told, Unavailable
<1>2. CASE k \in DOMAIN acks
  <2>1. acks[k] \in {"applied", "queued", "refused"} /\ answer = acks[k]
    BY <1>2, FleetAssumption
  <2>2. CASE acks[k] = "refused"
    BY <1>2, <2>1, <2>2 DEF ResultOf, Told, Refused, Unavailable
  <2>3. CASE acks[k] = "queued" BY <1>2, <2>1, <2>3 DEF ResultOf, Told, Queued
  <2>4. CASE acks[k] = "applied" BY <1>2, <2>1, <2>4 DEF ResultOf, Told, Expressed
  <2> QED BY <2>1, <2>2, <2>3, <2>4
<1> QED BY <1>1, <1>2

\* What the gateway said of the batch in hand is in its results.
SaidInResults(call, results) ==
    \A t \in DOMAIN call.said \ DOMAIN call.outcome :
      \E i \in DOMAIN results : Head(call.todo)[i].task = t

\* The results of a chunk join those of the batch.
LEMMA ChunkResults ==
    ASSUME NEW call, ExpressOK(call), call.pc = "acks",
           NEW results,
           results = Joined(call.results, Head(call.prepared),
                            Answered(Head(call.prepared), call.acks))
    PROVE  /\ DOMAIN results = DOMAIN call.results
                \cup {Head(call.prepared)[k].index : k \in DOMAIN Head(call.prepared)}
           /\ ResultsOK(results, Head(call.todo), call.said)
           /\ SaidInResults(call, results)
<1>0. PICK chunk : chunk = Head(call.prepared) OBVIOUS
<1>1. PICK batch : batch = Head(call.todo) OBVIOUS
<1>2. WorklistOK(call) /\ SaidOK(call) /\ call.todo # <<>> /\ BatchOK(call) BY DEF ExpressOK
<1> DEFINE done == Answered(chunk, call.acks)
<1>3. ResultsOK(call.results, batch, call.said) BY <1>1, <1>2 DEF BatchOK
<1>4. \A k \in DOMAIN chunk : /\ chunk[k].index \in DOMAIN batch \ DOMAIN call.results
                              /\ chunk[k].task = batch[chunk[k].index].task
  BY <1>0, <1>1, <1>2, ChunkInHand
<1>5. \A j, k \in DOMAIN chunk : chunk[j].index = chunk[k].index => j = k
  BY <1>0, <1>1, <1>2, ChunkInHand
<1>6. \A k \in DOMAIN chunk : done[k].status = Told[call.said[chunk[k].task]]
  <2>1. \A k \in DOMAIN chunk :
          /\ call.said[chunk[k].task] = IF k \in DOMAIN call.acks THEN call.acks[k] ELSE "silent"
          /\ k \in DOMAIN call.acks => call.acks[k] \in Outcomes
    BY <1>0, <1>2 DEF SaidOK
  <2> TAKE k \in DOMAIN chunk
  <2>2. ResultOf(chunk[k], call.acks, k).status = Told[call.said[chunk[k].task]]
    BY <2>1, ResultTellsTheAck
  <2> QED BY <2>2 DEF Answered, Position
<1> HIDE DEF done
<1>12. results = Joined(call.results, chunk, done) BY <1>0 DEF done
<1>7. DOMAIN results = DOMAIN call.results \cup {chunk[k].index : k \in DOMAIN chunk}
  BY <1>12 DEF Joined
<1>8. ASSUME NEW k \in DOMAIN chunk PROVE results[chunk[k].index] = done[k]
  <2>1. (CHOOSE j \in DOMAIN chunk : chunk[j].index = chunk[k].index) = k BY <1>5
  <2>2. chunk[k].index \in DOMAIN results /\ chunk[k].index \notin DOMAIN call.results
    BY <1>4, <1>7
  <2>3. results[chunk[k].index]
          = done[CHOOSE j \in DOMAIN chunk : chunk[j].index = chunk[k].index]
    BY <1>12, <2>2, <1>7 DEF Joined
  <2> QED BY <2>1, <2>3
<1>9. \A i \in DOMAIN call.results : results[i] = call.results[i] BY <1>7, <1>12 DEF Joined
<1>10. ResultsOK(results, batch, call.said)
  <2>1. DOMAIN results \subseteq DOMAIN batch BY <1>3, <1>4, <1>7 DEF ResultsOK
  <2>2. ASSUME NEW i \in DOMAIN results, batch[i].task \in DOMAIN call.said
        PROVE  results[i].status = Told[call.said[batch[i].task]]
    <3>1. CASE i \in DOMAIN call.results BY <1>3, <1>9, <2>2, <3>1 DEF ResultsOK
    <3>2. CASE i \notin DOMAIN call.results
      <4>1. PICK k \in DOMAIN chunk : chunk[k].index = i BY <1>7, <3>2
      <4> QED BY ONLY <1>4, <1>6, <1>8, <4>1
    <3> QED BY <3>1, <3>2
  <2> QED BY ONLY <2>1, <2>2 DEF ResultsOK
<1>11. ASSUME NEW t \in DOMAIN call.said \ DOMAIN call.outcome
       PROVE  \E i \in DOMAIN results : batch[i].task = t
  <2>1. \/ \E i \in DOMAIN call.results : batch[i].task = t
        \/ \E k \in DOMAIN chunk : chunk[k].task = t
    BY <1>0, <1>1, <1>2 DEF SaidOK
  <2> QED BY <1>4, <1>7, <2>1
<1> QED BY <1>0, <1>1, <1>7, <1>10, <1>11 DEF SaidInResults

\* The next chunk goes out, or the batch is done.
LEMMA ApplyAcksOK ==
    ASSUME NEW call, ExpressOK(call), call.pc = "acks",
           NEW results,
           DOMAIN results = DOMAIN call.results
             \cup {Head(call.prepared)[k].index : k \in DOMAIN Head(call.prepared)},
           ResultsOK(results, Head(call.todo), call.said),
           SaidInResults(call, results),
           NEW n, IsExpress(n), n.pc = "gateway", n.results = results,
           n.prepared = Tail(call.prepared), n.said = call.said, n.outcome = call.outcome,
           n.at = call.at, n.tasks = call.tasks, n.todo = call.todo
    PROVE  ExpressOK(IF Len(call.prepared) = 1 THEN BatchDone(n, results) ELSE n)
<1>1. /\ WorklistOK(call) /\ SaidOK(call) /\ call.todo # <<>> /\ BatchOK(call)
      /\ call.at \in Nat /\ call.at <= now
  BY DEF ExpressOK
<1>2. PICK batch : batch = Head(call.todo) OBVIOUS
<1>3. WorklistOK(n)
  <2>1. CommandsOf(n) = CommandsOf(call) /\ Asked(n) = Asked(call) BY DEF CommandsOf, Asked
  <2> QED BY <1>1, <2>1 DEF WorklistOK
<1>4. \A t \in DOMAIN n.outcome \cap DOMAIN n.said : n.outcome[t].status = Told[n.said[t]]
  BY <1>1 DEF SaidOK
<1>5. DOMAIN results \subseteq DOMAIN batch BY <1>2 DEF ResultsOK
<1>6. CASE Len(call.prepared) = 1
  <2>1. \A i \in DOMAIN results \cap DOMAIN Head(n.todo) :
          Head(n.todo)[i].task \in DOMAIN n.said =>
            results[i].status = Told[n.said[Head(n.todo)[i].task]]
    BY DEF ResultsOK
  <2>2. \A t \in DOMAIN n.said \ DOMAIN n.outcome :
          \E i \in DOMAIN results \cap DOMAIN Head(n.todo) : Head(n.todo)[i].task = t
    BY <1>2, <1>5 DEF SaidInResults
  <2>3. n.pc # "capabilities" /\ n.todo # <<>> /\ n.at \in Nat /\ n.at <= now BY <1>1
  <2>4. ExpressOK(BatchDone(n, results))
    BY ONLY IsExpress(n), <1>3, <1>4, <2>1, <2>2, <2>3, BatchDoneOK
  <2> QED BY <1>6, <2>4
<1>7. CASE Len(call.prepared) # 1
  <2>1. AheadOK(call.prepared, batch, DOMAIN call.results) /\ call.prepared # <<>>
    BY <1>1, <1>2 DEF BatchOK
  <2>2. AheadOK(Tail(call.prepared), batch, DOMAIN results) BY <2>1, RestOfChunks
  <2>3. Tail(call.prepared) # <<>> BY <1>7, <2>1, HeadAndTail DEF AheadOK
  <2>4. BatchOK(n) BY <1>2, <2>2, <2>3 DEF BatchOK
  <2>5. SaidOK(n)
    <3>1. n.pc # "acks" /\ n.pc = "gateway" OBVIOUS
    <3>2. \A t \in DOMAIN n.said \ DOMAIN n.outcome :
            \E i \in DOMAIN n.results : Head(n.todo)[i].task = t
      BY DEF SaidInResults
    <3> QED BY ONLY <1>4, <3>1, <3>2 DEF SaidOK
  <2>6. ExpressOK(n) BY <1>1, <1>3, <2>4, <2>5 DEF ExpressOK
  <2> QED BY <1>7, <2>6
<1> QED BY <1>6, <1>7

\* What an ack lights was granted its lease.
LEMMA LiveFromLease ==
    ASSUME NEW e, GrantedLease(e), now \in Nat
    PROVE  LiveOK(LiveFrom(e))
<1>1. e.lease \in Nat /\ e.requestedAt \in Nat /\ e.expiresAt \in Int
  BY LeasesAreNat DEF GrantedLease
<1>2. e.expiresAt <= now + e.lease BY <1>1 DEF GrantedLease
<1> QED BY <1>1, <1>2 DEF LiveFrom, LiveOK, GrantedLease

\* A lease is extended by no more than itself.
LEMMA RenewedLease ==
    ASSUME NEW live, LiveOK(live), NEW at \in Nat, at <= now, now \in Nat, NEW expiry \in Int
    PROVE  LiveOK(Renewed(live, at, expiry))
<1>1. live.lease \in Nat BY LeasesAreNat DEF LiveOK
<1>2. /\ Renewed(live, at, expiry).lease = live.lease
      /\ Renewed(live, at, expiry).payload = live.payload
      /\ Renewed(live, at, expiry).leaseExpiresAt = Earlier(expiry, at + live.lease)
      /\ DOMAIN Renewed(live, at, expiry) = DOMAIN live
  BY DEF Renewed, LiveOK
<1>3. Earlier(expiry, at + live.lease) \in Int
      /\ Earlier(expiry, at + live.lease) <= now + live.lease
  BY <1>1 DEF Earlier
<1> QED BY <1>1, <1>2, <1>3 DEF LiveOK

----------------------------------------------------------------------------
(***************************************************************************)
(* What a step of the fleet keeps.                                         *)
(***************************************************************************)
\* A call that is asked for starts with its whole worklist ahead.
LEMMA AskedOK ==
    ASSUME NEW tasks, IsSequence(tasks), tasks # <<>>,
           \A i, j \in DOMAIN tasks : tasks[i].id = tasks[j].id => i = j,
           now \in Nat,
           NEW call,
           call = [op |-> "express", pc |-> "capabilities", at |-> now, tasks |-> tasks,
                   todo |-> <<>>, prepared |-> <<>>, acks |-> <<>>, results |-> <<>>,
                   outcome |-> <<>>, said |-> <<>>]
    PROVE  CallOK(call)
<1>1. IsExpress(call) /\ call.at \in Nat /\ call.at <= now BY DEF IsExpress
<1>2. WorklistOK(call)
  <2>1. call.todo \in Seq(Seq(CommandsOf(call))) /\ DOMAIN call.todo = {} OBVIOUS
  <2>2. call.tasks = tasks /\ call.pc = "capabilities" OBVIOUS
  <2> QED BY <2>1, <2>2 DEF WorklistOK
<1>3. SaidOK(call)
  <2>1. DOMAIN call.said = {} /\ call.pc # "acks" OBVIOUS
  <2> QED BY <2>1 DEF SaidOK
<1>4. ExpressOK(call) BY <1>1, <1>2, <1>3 DEF ExpressOK
<1> QED BY <1>4 DEF CallOK, ExpressOK, IsExpress

LEMMA RequestedOK ==
    ASSUME NEW live, LiveOK(live), now \in Nat, NEW t,
           NEW call,
           \/ call = Request("refresh", t, live, "gateway", <<live.payload>>)
           \/ call = Request("clear", t, live, "bindings", <<>>)
    PROVE  CallOK(call)
<1>1. CASE call = Request("refresh", t, live, "gateway", <<live.payload>>)
  <2>1. /\ call.op = "refresh" /\ call.pc = "gateway" /\ call.at = now /\ call.live = live
        /\ call.sent = <<live.payload>>
        /\ DOMAIN call = {"op", "pc", "at", "task", "live", "sent", "acks"}
    BY <1>1 DEF Request
  <2>2. \A k \in DOMAIN call.sent : GrantedLease(call.sent[k]) BY <2>1 DEF LiveOK
  <2>3. RequestOK(call) BY <2>1, <2>2 DEF RequestOK
  <2> QED BY <2>1, <2>3 DEF CallOK
<1>2. CASE call = Request("clear", t, live, "bindings", <<>>)
  <2>1. /\ call.op = "clear" /\ call.pc = "bindings" /\ call.at = now /\ call.live = live
        /\ DOMAIN call = {"op", "pc", "at", "task", "live", "sent", "acks"}
    BY <1>2 DEF Request
  <2>2. RequestOK(call) BY <2>1 DEF RequestOK
  <2> QED BY <2>1, <2>2 DEF CallOK
<1> QED BY <1>1, <1>2

\* A step rewrites one call, and leaves the others.
LEMMA OneCallMoves ==
    ASSUME IInv, now' = now, NEW h \in Handler, NEW call, CallOK(call),
           calls' = [calls EXCEPT ![h] = call]
    PROVE  DOMAIN calls' = Handler /\ \A g \in Handler : CallOK(calls[g])'
<1>1. DOMAIN calls = Handler /\ now \in Nat /\ \A g \in Handler : CallOK(calls[g]) BY DEF IInv
<1>2. ASSUME NEW g \in Handler PROVE CallOK(calls[g])'
  <2>1. PICK c : c = calls'[g] OBVIOUS
  <2>2. CallOK(c) BY <1>1, <2>1
  <2>3. CallOK(c)' BY <1>1, <2>2, CallKept
  <2> QED BY <2>1, <2>3
<1> QED BY <1>1, <1>2

LEMMA NoCallMoves ==
    ASSUME IInv, now' = now, calls' = calls
    PROVE  DOMAIN calls' = Handler /\ \A g \in Handler : CallOK(calls[g])'
<1>1. DOMAIN calls = Handler /\ now \in Nat /\ \A g \in Handler : CallOK(calls[g]) BY DEF IInv
<1>2. ASSUME NEW g \in Handler PROVE CallOK(calls[g])'
  <2>1. PICK c : c = calls[g] OBVIOUS
  <2>2. CallOK(c)' BY <1>1, <2>1, CallKept
  <2> QED BY <2>1, <2>2
<1> QED BY <1>1, <1>2

\* A step that leaves the tags alone, and the registry.
LEMMA TagsAlone ==
    ASSUME IInv, now' = now, tags' = tags, waiting' = waiting
    PROVE  TagsOK' /\ DOMAIN tags' = Tag /\ DOMAIN waiting' = Tag
<1>1. TagsOK /\ DOMAIN tags = Tag /\ DOMAIN waiting = Tag BY DEF IInv
<1>2. \A e : GrantedLease(e) => GrantedLease(e)' BY DEF GrantedLease
<1> QED BY <1>1, <1>2 DEF TagsOK

LEMMA RegistryAlone ==
    ASSUME IInv, now' = now, DOMAIN expressions' \subseteq DOMAIN expressions,
           \A t \in DOMAIN expressions' : expressions'[t] = expressions[t]
    PROVE  \A t \in DOMAIN expressions' : LiveOK(expressions[t])'
<1>1. \A t \in DOMAIN expressions : LiveOK(expressions[t]) BY DEF IInv
<1>2. now \in Nat BY DEF IInv
<1>3. ASSUME NEW t \in DOMAIN expressions' PROVE LiveOK(expressions[t])'
  <2>1. PICK live : live = expressions'[t] OBVIOUS
  <2>2. LiveOK(live) BY <1>1, <2>1
  <2>3. LiveOK(live)' BY <1>2, <2>2, LiveKept
  <2> QED BY <2>1, <2>3
<1> QED BY <1>3

\* A step that writes only live entries keeps the registry.
LEMMA RegistryRewritten ==
    ASSUME now \in Nat, now' = now, \A t \in DOMAIN expressions' : LiveOK(expressions'[t])
    PROVE  \A t \in DOMAIN expressions' : LiveOK(expressions[t])'
<1>1. ASSUME NEW t \in DOMAIN expressions' PROVE LiveOK(expressions[t])'
  <2>1. PICK live : live = expressions'[t] OBVIOUS
  <2>2. LiveOK(live)' BY <2>1, LiveKept
  <2> QED BY <2>1, <2>2
<1> QED BY <1>1

LEMMA ExpressIsOK ==
    ASSUME NEW call, ExpressOK(call)
    PROVE  CallOK(call)
BY DEF CallOK, ExpressOK, IsExpress

LEMMA RequestIsOK ==
    ASSUME NEW call, RequestOK(call)
    PROVE  CallOK(call)
BY DEF CallOK, RequestOK

LEMMA CallInHand ==
    ASSUME IInv, NEW h \in Handler
    PROVE  /\ calls[h].op = "express" => ExpressOK(calls[h])
           /\ calls[h].op \in {"refresh", "clear"} => RequestOK(calls[h])
           /\ calls[h] # Idle => calls[h].op \in {"express", "refresh", "clear"}
<1>1. CallOK(calls[h]) BY DEF IInv
<1>2. Idle.op = "none" BY DEF Idle
<1>3. ASSUME calls[h] # Idle, calls[h].op # "express" PROVE calls[h].op \in {"refresh", "clear"}
  BY <1>1, <1>3 DEF CallOK, RequestOK
<1> QED BY <1>1, <1>2, <1>3 DEF CallOK

\* What a step of the adapter that leaves the tags alone has to keep.
LEMMA AdapterStep ==
    ASSUME IInv, UNCHANGED <<now, outside>>,
           DOMAIN calls' = Handler, \A h \in Handler : CallOK(calls[h])',
           \A t \in DOMAIN expressions' : LiveOK(expressions[t])'
    PROVE  IInv'
<1>1. now' = now /\ tags' = tags /\ waiting' = waiting BY DEF outside
<1>2. now \in Nat BY DEF IInv
<1>3. TagsOK' /\ DOMAIN tags' = Tag /\ DOMAIN waiting' = Tag BY <1>1, TagsAlone
<1> QED BY <1>1, <1>2, <1>3 DEF IInv

LEMMA DispatchKeeps ==
    ASSUME IInv, NEW h \in Handler, NEW ts \in Worklists, Dispatch(h, ts)
    PROVE  IInv'
<1> DEFINE tasks == [i \in DOMAIN ts |-> AsRead(ts[i], work[ts[i]].priority)]
<1>1. /\ ts \in Seq(Task) /\ ts # <<>>
      /\ \A i, j \in DOMAIN ts : ts[i] = ts[j] => i = j
  BY FleetAssumption
<1>2. now \in Nat BY DEF IInv
<1>3. IsSequence(tasks) /\ tasks # <<>>
  <2>1. DOMAIN ts = 1..Len(ts) /\ Len(ts) \in Nat /\ 1 \in DOMAIN ts BY <1>1
  <2> HIDE DEF AsRead
  <2>2. tasks \in Seq({tasks[i] : i \in DOMAIN tasks}) BY <2>1
  <2>3. DOMAIN tasks # {} BY <2>1
  <2> QED BY <2>2, <2>3 DEF IsSequence
<1>4. \A i, j \in DOMAIN tasks : tasks[i].id = tasks[j].id => i = j BY <1>1 DEF AsRead
<1> HIDE DEF tasks
<1>5. PICK call :
        call = [op |-> "express", pc |-> "capabilities", at |-> now, tasks |-> tasks,
                todo |-> <<>>, prepared |-> <<>>, acks |-> <<>>, results |-> <<>>,
                outcome |-> <<>>, said |-> <<>>]
  OBVIOUS
<1>6. CallOK(call) BY <1>2, <1>3, <1>4, <1>5, AskedOK
<1>7. calls' = [calls EXCEPT ![h] = call] BY <1>5 DEF Dispatch, Ask, Open, tasks
<1>8. now' = now /\ expressions' = expressions /\ UNCHANGED <<now, outside>>
  BY DEF Dispatch, registry
<1>9. DOMAIN calls' = Handler /\ \A g \in Handler : CallOK(calls[g])'
  BY <1>6, <1>7, <1>8, OneCallMoves
<1>10. \A t \in DOMAIN expressions' : LiveOK(expressions[t])' BY <1>8, RegistryAlone
<1> QED BY <1>8, <1>9, <1>10, AdapterStep

LEMMA EscalateKeeps ==
    ASSUME IInv, NEW h \in Handler, NEW t \in Handled, Escalate(h, t)
    PROVE  IInv'
<1>1. PICK tasks : tasks = <<AsRead(t, work'[t].priority)>> OBVIOUS
<1>2. now \in Nat BY DEF IInv
<1>3. IsSequence(tasks) /\ tasks # <<>> /\ DOMAIN tasks = {1} BY <1>1 DEF IsSequence
<1>4. \A i, j \in DOMAIN tasks : tasks[i].id = tasks[j].id => i = j BY <1>3
<1>5. PICK call :
        call = [op |-> "express", pc |-> "capabilities", at |-> now, tasks |-> tasks,
                todo |-> <<>>, prepared |-> <<>>, acks |-> <<>>, results |-> <<>>,
                outcome |-> <<>>, said |-> <<>>]
  OBVIOUS
<1>6. CallOK(call) BY <1>2, <1>3, <1>4, <1>5, AskedOK
<1>7. calls' = [calls EXCEPT ![h] = call] BY <1>1, <1>5 DEF Escalate, Ask, Open
<1>8. now' = now /\ expressions' = expressions /\ UNCHANGED <<now, outside>>
  BY DEF Escalate, registry
<1>9. DOMAIN calls' = Handler /\ \A g \in Handler : CallOK(calls[g])'
  BY <1>6, <1>7, <1>8, OneCallMoves
<1>10. \A u \in DOMAIN expressions' : LiveOK(expressions[u])' BY <1>8, RegistryAlone
<1> QED BY <1>8, <1>9, <1>10, AdapterStep

LEMMA ReadCapabilitiesKeeps ==
    ASSUME IInv, NEW h \in Handler, NEW d \in Deployments, ReadCapabilities(h, d)
    PROVE  IInv'
<1>1. PICK call : call = calls[h] OBVIOUS
<1>2. call.op = "express" /\ call.pc = "capabilities" BY <1>1 DEF ReadCapabilities, At
<1>3. ExpressOK(call) BY <1>1, <1>2, CallInHand
<1>4. PICK capabilities : capabilities = DescribeCapabilities(Fleet, d) OBVIOUS
<1>5. PICK commands :
        commands = [i \in DOMAIN call.tasks |->
                      BuildExpressCommand(call.tasks[i], capabilities, call.at,
                                          StandardDispatchPolicy)]
  OBVIOUS
<1>6. PICK n : n = IF CanExpress(capabilities)
                   THEN [call EXCEPT !.pc = "store",
                                     !.todo = Chunk(commands, capabilities.batchLimit)]
                   ELSE [call EXCEPT !.pc = "done",
                           !.outcome = [t \in Asked(call) |-> Unavailable("no_supported_mode")]]
  OBVIOUS
<1>7. calls' = [calls EXCEPT ![h] = n]
  BY <1>1, <1>4, <1>5, <1>6 DEF ReadCapabilities, Goes
<1>8. ExpressOK(n) BY <1>2, <1>3, <1>4, <1>5, <1>6, ReadCapabilitiesOK, CannotExpressOK
<1>9. now' = now /\ expressions' = expressions /\ UNCHANGED <<now, outside>>
  BY DEF ReadCapabilities, registry
<1>10. DOMAIN calls' = Handler /\ \A g \in Handler : CallOK(calls[g])'
  BY <1>7, <1>8, <1>9, ExpressIsOK, OneCallMoves
<1>11. \A t \in DOMAIN expressions' : LiveOK(expressions[t])' BY <1>9, RegistryAlone
<1> QED BY <1>9, <1>10, <1>11, AdapterStep

LEMMA StoreUnusableKeeps ==
    ASSUME IInv, NEW h \in Handler, NEW d \in Deployments, StoreUnusable(h, d)
    PROVE  IInv'
<1>1. PICK call : call = calls[h] OBVIOUS
<1>2. call.op = "express" /\ call.pc = "store" BY <1>1 DEF StoreUnusable, At
<1>3. ExpressOK(call) BY <1>1, <1>2, CallInHand
<1>4. PICK results : calls' = [calls EXCEPT ![h] = BatchDone(call, results)]
  BY <1>1 DEF StoreUnusable, Goes
<1>5. CallOK(BatchDone(call, results)) BY <1>2, <1>3, StoreUnusableOK, ExpressIsOK
<1>6. now' = now /\ expressions' = expressions /\ UNCHANGED <<now, outside>>
  BY DEF StoreUnusable, registry
<1>7. DOMAIN calls' = Handler /\ \A g \in Handler : CallOK(calls[g])'
  <2>1. PICK n : n = BatchDone(call, results) OBVIOUS
  <2> QED BY <1>4, <1>5, <1>6, <2>1, OneCallMoves
<1>8. \A t \in DOMAIN expressions' : LiveOK(expressions[t])' BY <1>6, RegistryAlone
<1> QED BY <1>6, <1>7, <1>8, AdapterStep

\* A command says when it was asked for.
LEMMA CommandTimes ==
    ASSUME NEW call, call.at \in Nat, NEW command \in CommandsOf(call)
    PROVE  command.requestedAt = call.at /\ command.expiresAt \in Int
<1>1. PICK i \in DOMAIN call.tasks : \E e \in Deployments :
        command = BuildExpressCommand(call.tasks[i], DescribeCapabilities(Fleet, e), call.at,
                                      StandardDispatchPolicy)
  BY DEF CommandsOf
<1>2. PICK e \in Deployments :
        command = BuildExpressCommand(call.tasks[i], DescribeCapabilities(Fleet, e), call.at,
                                      StandardDispatchPolicy)
  BY <1>1
<1>3. /\ command.requestedAt = call.at
      /\ command.expiresAt = call.at + DescribeCapabilities(Fleet, e).lease
  BY <1>2 DEF BuildExpressCommand
<1> QED BY <1>3, DeclaredLimits

\* The leases that a pre-flight extends.
LEMMA PrepareRenews ==
    ASSUME IInv, NEW call, ExpressOK(call), call.pc = "store",
           NEW batch, batch = Head(call.todo),
           DOMAIN expressions' = DOMAIN expressions,
           \A t \in DOMAIN expressions :
             \/ expressions'[t] = expressions[t]
             \/ \E i \in DOMAIN batch :
                  expressions'[t] = Renewed(expressions[t], batch[i].requestedAt, batch[i].expiresAt)
    PROVE  \A t \in DOMAIN expressions' : LiveOK(expressions'[t])
<1>1. /\ WorklistOK(call) /\ call.todo # <<>> /\ call.at \in Nat /\ call.at <= now
  BY DEF ExpressOK
<1>2. batch \in Seq(CommandsOf(call)) BY <1>1, BatchInHand
<1>3. now \in Nat /\ \A t \in DOMAIN expressions : LiveOK(expressions[t]) BY DEF IInv
<1>4. ASSUME NEW t \in DOMAIN expressions' PROVE LiveOK(expressions'[t])
  <2>1. t \in DOMAIN expressions /\ LiveOK(expressions[t]) BY <1>3
  <2>2. ASSUME NEW i \in DOMAIN batch,
               expressions'[t] = Renewed(expressions[t], batch[i].requestedAt, batch[i].expiresAt)
        PROVE  LiveOK(expressions'[t])
    <3>1. batch[i] \in CommandsOf(call) BY <1>2
    <3>2. batch[i].requestedAt = call.at /\ batch[i].expiresAt \in Int
      BY <1>1, <3>1, CommandTimes
    <3>3. PICK live : live = expressions[t] OBVIOUS
    <3> QED BY <1>1, <1>3, <2>1, <2>2, <3>2, <3>3, RenewedLease
  <2> QED BY <2>1, <2>2
<1> QED BY <1>4

LEMMA PrepareKeeps ==
    ASSUME IInv, NEW h \in Handler, NEW d \in Deployments, Prepare(h, d)
    PROVE  IInv'
<1>1. PICK call : call = calls[h] OBVIOUS
<1>2. PICK batch : batch = Head(call.todo) OBVIOUS
<1>3. call.op = "express" /\ call.pc = "store" BY <1>1 DEF Prepare, At
<1>4. ExpressOK(call) BY <1>1, <1>3, CallInHand
<1> DEFINE Of(i) == bindings[batch[i].facing]
<1>5. PICK checks : checks = [i \in DOMAIN batch |-> Preflight(batch[i], Of(i))] OBVIOUS
<1>6. PICK S : S = {i \in DOMAIN batch : checks[i] = "go"} OBVIOUS
<1>7. PICK going : going = Ascending(S) OBVIOUS
<1>8. PICK entries :
        entries = [k \in DOMAIN going |->
                     Prepared(going[k], batch[going[k]], Of(going[k]), LeaseFor(Fleet, d))]
  OBVIOUS
<1>9. PICK answers :
        answers = [i \in {j \in DOMAIN batch : checks[j] # "go"} |->
                      IF checks[i] = "renew" THEN Expressed(expressions[batch[i].task].rendering.mode)
                      ELSE Unavailable(checks[i])]
  OBVIOUS
<1>10. PICK size : size = OrDefault(d.batchLimit, Fleet.batchLimit) OBVIOUS
<1>11. PICK n : n = [call EXCEPT !.pc = "gateway", !.results = answers,
                                 !.prepared = Chunk(entries, size)]
  OBVIOUS
<1>12. PICK m : m = IF going = <<>> THEN BatchDone(n, answers) ELSE n OBVIOUS
<1>13. calls' = [calls EXCEPT ![h] = m]
  BY <1>1, <1>2, <1>5, <1>6, <1>7, <1>8, <1>9, <1>10, <1>11, <1>12, ZenonT(30) DEF Prepare, Goes
<1>14. /\ DOMAIN expressions' = DOMAIN expressions
       /\ \A t \in DOMAIN expressions :
             \/ expressions'[t] = expressions[t]
             \/ \E i \in DOMAIN batch :
                  expressions'[t] = Renewed(expressions[t], batch[i].requestedAt, batch[i].expiresAt)
  <2>1. DOMAIN expressions' = DOMAIN expressions BY DEF Prepare
  <2>2. ASSUME NEW t \in DOMAIN expressions, expressions'[t] # expressions[t]
        PROVE  \E i \in DOMAIN batch :
                 expressions'[t] = Renewed(expressions[t], batch[i].requestedAt, batch[i].expiresAt)
    <3>1. PICK i : i = CHOOSE j \in DOMAIN batch : batch[j].task = t OBVIOUS
    <3>2. /\ \E j \in DOMAIN batch : batch[j].task = t
          /\ expressions'[t] = Renewed(expressions[t], batch[i].requestedAt, batch[i].expiresAt)
      BY <1>1, <1>2, <2>2, <3>1 DEF Prepare
    <3>3. i \in DOMAIN batch BY <3>1, <3>2
    <3> QED BY <3>2, <3>3
  <2> QED BY <2>1, <2>2
<1>15. UNCHANGED <<now, outside>> BY DEF Prepare
<1>16. call.at \in Nat /\ call.at <= now /\ WorklistOK(call) /\ call.todo # <<>>
  BY <1>3, <1>4 DEF ExpressOK
<1>17. batch \in Seq(CommandsOf(call)) BY <1>2, <1>16, BatchInHand
<1>18. IsPrepared(entries, S, batch) /\ (entries = <<>> <=> going = <<>>)
  <2>1. S \in SUBSET DOMAIN batch BY <1>6
  <2>2. PreparedFrom(entries, going, batch, d) BY <1>8 DEF PreparedFrom
  <2> QED BY ONLY <1>7, <1>16, <1>17, <2>1, <2>2, d \in Deployments, EntriesOfBatch
<1>19. CallOK(m)
  <2>1. S \in SUBSET DOMAIN Head(call.todo) /\ DOMAIN answers = DOMAIN Head(call.todo) \ S
    BY <1>2, <1>6, <1>9
  <2>2. size \in Nat BY <1>10, DeclaredLimits
  <2>3. ExpressOK(IF entries = <<>> THEN BatchDone(n, answers) ELSE n)
    BY <1>2, <1>3, <1>4, <1>11, <1>18, <2>1, <2>2, PrepareOK
  <2> QED BY <1>12, <1>18, <2>3, ExpressIsOK
<1> HIDE DEF Of
<1>20. DOMAIN calls' = Handler /\ \A g \in Handler : CallOK(calls[g])'
  BY <1>13, <1>15, <1>19, OneCallMoves
<1>21. \A t \in DOMAIN expressions' : LiveOK(expressions[t])'
  <2>1. \A t \in DOMAIN expressions' : LiveOK(expressions'[t])
    BY <1>2, <1>3, <1>4, <1>14, PrepareRenews
  <2>2. now \in Nat /\ now' = now BY <1>15 DEF IInv
  <2> QED BY <2>1, <2>2, RegistryRewritten
<1> QED BY <1>15, <1>20, <1>21, AdapterStep

LEMMA ApplyAcksKeeps ==
    ASSUME IInv, NEW h \in Handler, ApplyAcks(h)
    PROVE  IInv'
<1>1. PICK call : call = calls[h] OBVIOUS
<1>2. PICK chunk : chunk = Head(call.prepared) OBVIOUS
<1>3. call.op = "express" /\ call.pc = "acks" BY <1>1 DEF ApplyAcks, At
<1>4. ExpressOK(call) BY <1>1, <1>3, CallInHand
<1>5. PICK done : done = Answered(chunk, call.acks) OBVIOUS
<1>6. PICK results : results = Joined(call.results, chunk, done) OBVIOUS
<1>7. PICK n : n = [call EXCEPT !.pc = "gateway", !.results = results,
                                !.prepared = Tail(call.prepared), !.acks = <<>>]
  OBVIOUS
<1>8. PICK m : m = IF Len(call.prepared) = 1 THEN BatchDone(n, results) ELSE n OBVIOUS
<1>9. calls' = [calls EXCEPT ![h] = m]
  BY <1>1, <1>2, <1>5, <1>6, <1>7, <1>8 DEF ApplyAcks, Goes
<1>10. UNCHANGED <<now, outside>> BY DEF ApplyAcks
<1>11. /\ WorklistOK(call) /\ call.todo # <<>> /\ BatchOK(call) /\ IsExpress(call)
  BY <1>3, <1>4 DEF ExpressOK
<1>12. CallOK(m)
  <2>1. /\ DOMAIN results = DOMAIN call.results
             \cup {Head(call.prepared)[k].index : k \in DOMAIN Head(call.prepared)}
        /\ ResultsOK(results, Head(call.todo), call.said)
        /\ SaidInResults(call, results)
    <3>1. results = Joined(call.results, Head(call.prepared),
                           Answered(Head(call.prepared), call.acks))
      BY <1>2, <1>5, <1>6
    <3>2. ResultsOK(results, Head(call.todo), call.said)
      BY ONLY <1>3, <1>4, <3>1, ChunkResults
    <3>3. SaidInResults(call, results)
      BY ONLY <1>3, <1>4, <3>1, ChunkResults
    <3>4. DOMAIN results = DOMAIN call.results
             \cup {Head(call.prepared)[k].index : k \in DOMAIN Head(call.prepared)}
      BY <3>1 DEF Joined
    <3> QED BY ONLY <3>2, <3>3, <3>4
  <2>3. /\ IsExpress(n) /\ n.pc = "gateway" /\ n.results = results
        /\ n.prepared = Tail(call.prepared) /\ n.said = call.said /\ n.outcome = call.outcome
        /\ n.at = call.at /\ n.tasks = call.tasks /\ n.todo = call.todo
    BY <1>7, <1>11 DEF IsExpress
  <2>4. ExpressOK(IF Len(call.prepared) = 1 THEN BatchDone(n, results) ELSE n)
    BY ONLY <1>3, <1>4, <2>1, <2>3, ApplyAcksOK
  <2> QED BY <1>8, <2>4, ExpressIsOK
<1>13. DOMAIN calls' = Handler /\ \A g \in Handler : CallOK(calls[g])'
  BY <1>9, <1>10, <1>12, OneCallMoves
<1>14. \A t \in DOMAIN expressions' : LiveOK(expressions[t])'
  <2>1. now \in Nat /\ now' = now /\ \A t \in DOMAIN expressions : LiveOK(expressions[t])
    BY <1>10 DEF IInv
  <2>2. PICK lit : lit = {k \in DOMAIN chunk : done[k].status = "expressed"} OBVIOUS
  <2>3. DOMAIN expressions' = DOMAIN expressions \cup {chunk[k].task : k \in lit}
    BY <1>1, <1>2, <1>5, <2>2 DEF ApplyAcks
  <2>4. ASSUME NEW t \in DOMAIN expressions' PROVE LiveOK(expressions'[t])
    <3>1. CASE \E k \in lit : chunk[k].task = t
      <4>1. PICK k : k = CHOOSE j \in lit : chunk[j].task = t OBVIOUS
      <4>2. k \in DOMAIN chunk BY <2>2, <3>1, <4>1
      <4>3. GrantedLease(chunk[k]) BY <1>2, <1>11, <4>2, ChunkInHand
      <4>4. expressions'[t] = LiveFrom(chunk[k])
        BY <1>1, <1>2, <1>5, <2>2, <2>3, <3>1, <4>1 DEF ApplyAcks
      <4> QED BY <2>1, <4>3, <4>4, LiveFromLease
    <3>2. CASE ~\E k \in lit : chunk[k].task = t
      <4>1. t \in DOMAIN expressions BY <2>3, <3>2
      <4>2. expressions'[t] = expressions[t]
        BY <1>1, <1>2, <1>5, <2>2, <2>3, <3>2 DEF ApplyAcks
      <4> QED BY <2>1, <4>1, <4>2
    <3> QED BY <3>1, <3>2
  <2> QED BY <2>1, <2>4, RegistryRewritten
<1> QED BY <1>10, <1>13, <1>14, AdapterStep

LEMMA RefreshKeeps ==
    ASSUME IInv, NEW h \in Handler, NEW t \in Handled, Refresh(h, t)
    PROVE  IInv'
<1>1. UNCHANGED <<now, outside>> /\ t \in DOMAIN expressions BY DEF Refresh, Live
<1>2. now \in Nat BY DEF IInv
<1>3. PICK live : live = expressions[t] OBVIOUS
<1>4. LiveOK(live) BY <1>1, <1>3 DEF IInv
<1>5. DOMAIN calls' = Handler /\ \A g \in Handler : CallOK(calls[g])'
  <2>1. CASE UNCHANGED calls BY <1>1, <2>1, NoCallMoves
  <2>2. CASE Open(h, Request("refresh", t, expressions[t], "gateway", <<expressions[t].payload>>))
    <3>1. PICK call : call = Request("refresh", t, live, "gateway", <<live.payload>>) OBVIOUS
    <3>2. CallOK(call) BY <1>2, <1>4, <3>1, RequestedOK
    <3>3. calls' = [calls EXCEPT ![h] = call] BY <1>3, <2>2, <3>1 DEF Open
    <3> QED BY <1>1, <3>2, <3>3, OneCallMoves
  <2> QED BY <2>1, <2>2 DEF Refresh
<1>6. \A u \in DOMAIN expressions' : LiveOK(expressions[u])'
  <2>1. /\ DOMAIN expressions' \subseteq DOMAIN expressions
        /\ \A u \in DOMAIN expressions' : expressions'[u] = expressions[u]
    BY DEF Refresh, Forget
  <2> QED BY <1>1, <2>1, RegistryAlone
<1> QED BY <1>1, <1>5, <1>6, AdapterStep

\* A call that ends.
LEMMA CallEnds ==
    ASSUME IInv, now' = now, NEW h \in Handler, Goes(h, Idle)
    PROVE  DOMAIN calls' = Handler /\ \A g \in Handler : CallOK(calls[g])'
<1>1. PICK call : call = Idle OBVIOUS
<1>2. CallOK(call) BY <1>1 DEF CallOK
<1>3. calls' = [calls EXCEPT ![h] = call] BY <1>1 DEF Goes
<1> QED BY <1>2, <1>3, OneCallMoves

LEMMA RefreshedKeeps ==
    ASSUME IInv, NEW h \in Handler, Refreshed(h)
    PROVE  IInv'
<1>1. PICK call : call = calls[h] OBVIOUS
<1>2. call.op = "refresh" BY <1>1 DEF Refreshed, At
<1>3. RequestOK(call) BY <1>1, <1>2, CallInHand
<1>4. UNCHANGED <<now, outside>> BY DEF Refreshed
<1>5. DOMAIN calls' = Handler /\ \A g \in Handler : CallOK(calls[g])'
  BY <1>4, CallEnds DEF Refreshed
<1>6. now \in Nat /\ now' = now /\ \A t \in DOMAIN expressions : LiveOK(expressions[t])
  BY <1>4 DEF IInv
<1>7. LiveOK(call.live) /\ call.at \in Nat /\ call.at <= now BY <1>3 DEF RequestOK
<1>8. LiveOK(Renewed(call.live, call.at, call.at + call.live.lease))
  <2>1. call.live.lease \in Nat BY <1>7, LeasesAreNat DEF LiveOK
  <2> QED BY <1>6, <1>7, <2>1, RenewedLease
<1>9. PICK live : live = Renewed(call.live, call.at, call.at + call.live.lease) OBVIOUS
<1>10. expressions' = IF Accepted(call.acks) THEN Record(expressions, call.task, live)
                      ELSE expressions
  BY <1>1, <1>9 DEF Refreshed
<1>11. \A t \in DOMAIN expressions' : LiveOK(expressions'[t])
  BY <1>6, <1>8, <1>9, <1>10 DEF Record
<1>12. \A t \in DOMAIN expressions' : LiveOK(expressions[t])' BY <1>6, <1>11, RegistryRewritten
<1> QED BY <1>4, <1>5, <1>12, AdapterStep

LEMMA VerifyKeeps ==
    ASSUME IInv, NEW h \in Handler, NEW t \in Handled, Verify(h, t)
    PROVE  IInv'
<1>1. UNCHANGED <<now, outside>> /\ expressions' = expressions BY DEF Verify, registry
<1>2. now \in Nat BY DEF IInv
<1>3. DOMAIN calls' = Handler /\ \A g \in Handler : CallOK(calls[g])'
  <2>1. CASE Live(t)
    <3>1. PICK live : live = expressions[t] OBVIOUS
    <3>2. LiveOK(live) BY <2>1, <3>1 DEF IInv, Live
    <3>3. PICK call : call = Request("clear", t, live, "bindings", <<>>) OBVIOUS
    <3>4. CallOK(call) BY <1>2, <3>2, <3>3, RequestedOK
    <3>5. calls' = [calls EXCEPT ![h] = call] BY <2>1, <3>1, <3>3 DEF Verify, Open
    <3> QED BY <1>1, <3>4, <3>5, OneCallMoves
  <2>2. CASE ~Live(t) BY <1>1, <2>2, NoCallMoves DEF Verify
  <2> QED BY <2>1, <2>2
<1>4. \A u \in DOMAIN expressions' : LiveOK(expressions[u])' BY <1>1, RegistryAlone
<1> QED BY <1>1, <1>3, <1>4, AdapterStep

LEMMA ReleaseKeeps ==
    ASSUME IInv, NEW h \in Handler, Release(h)
    PROVE  IInv'
<1>1. PICK call : call = calls[h] OBVIOUS
<1>2. call.op = "clear" BY <1>1 DEF Release, At
<1>3. RequestOK(call) BY <1>1, <1>2, CallInHand
<1>4. UNCHANGED <<now, outside>> BY DEF Release
<1>5. PICK sent : sent = <<[task |-> call.task, tag |-> bindings[FacingOf[call.task]].tag]>>
  OBVIOUS
<1>6. Goes(h, Idle) \/ calls' = [calls EXCEPT ![h] = [call EXCEPT !.pc = "gateway", !.sent = sent]]
  BY <1>1, <1>5 DEF Release, Goes
<1>7. DOMAIN calls' = Handler /\ \A g \in Handler : CallOK(calls[g])'
  <2>1. PICK n : n = [call EXCEPT !.pc = "gateway", !.sent = sent] OBVIOUS
  <2>2. RequestOK(n) BY <1>2, <1>3, <2>1 DEF RequestOK
  <2> QED BY <1>4, <1>6, <2>1, <2>2, CallEnds, RequestIsOK, OneCallMoves
<1>8. \A t \in DOMAIN expressions' : LiveOK(expressions[t])'
  <2>1. /\ DOMAIN expressions' \subseteq DOMAIN expressions
        /\ \A t \in DOMAIN expressions' : expressions'[t] = expressions[t]
    BY DEF Release, ForgetLive, Forget
  <2> QED BY <1>4, <2>1, RegistryAlone
<1> QED BY <1>4, <1>7, <1>8, AdapterStep

LEMMA ClearedKeeps ==
    ASSUME IInv, NEW h \in Handler, Cleared(h)
    PROVE  IInv'
<1>1. UNCHANGED <<now, outside>> BY DEF Cleared
<1>2. DOMAIN calls' = Handler /\ \A g \in Handler : CallOK(calls[g])'
  BY <1>1, CallEnds DEF Cleared
<1>3. /\ DOMAIN expressions' \subseteq DOMAIN expressions
      /\ \A t \in DOMAIN expressions' : expressions'[t] = expressions[t]
  BY DEF Cleared, ForgetLive, Forget
<1>4. \A t \in DOMAIN expressions' : LiveOK(expressions[t])' BY <1>1, <1>3, RegistryAlone
<1> QED BY <1>1, <1>2, <1>4, AdapterStep

LEMMA ReturnKeeps ==
    ASSUME IInv, NEW h \in Handler, Return(h)
    PROVE  IInv'
<1>1. UNCHANGED <<now, outside>> /\ expressions' = expressions BY DEF Return, registry
<1>2. DOMAIN calls' = Handler /\ \A g \in Handler : CallOK(calls[g])'
  BY <1>1, CallEnds DEF Return
<1>3. \A t \in DOMAIN expressions' : LiveOK(expressions[t])' BY <1>1, RegistryAlone
<1> QED BY <1>1, <1>2, <1>3, AdapterStep

\* A command the gateway holds, or has for a tag, keeps to its lease.
CommandOK(c) == ~c.release => GrantedLease(c.entry)

LEMMA ExecutedWithinLease ==
    ASSUME NEW c, CommandOK(c), now \in Nat
    PROVE  /\ Executed(c).until \in Int
           /\ Executed(c) # Dark => \E lease \in Leases : Executed(c).until <= now + lease
<1>1. CASE c.release BY <1>1 DEF Executed, Dark
<1>2. CASE ~c.release
  <2>1. GrantedLease(c.entry) BY <1>2 DEF CommandOK
  <2>2. Executed(c) = Shows(c.entry) BY <1>2 DEF Executed
  <2>3. PICK e : e = c.entry OBVIOUS
  <2> QED BY <2>1, <2>2, <2>3, ShowsWithinLease
<1> QED BY <1>1, <1>2

\* What is sent for a call keeps to its lease.
LEMMA SentOK ==
    ASSUME IInv, NEW h \in Handler, calls[h] # Idle, calls[h].pc = "gateway",
           NEW sent,
           sent = IF calls[h].op = "express" THEN Head(calls[h].prepared) ELSE calls[h].sent,
           NEW k \in DOMAIN sent
    PROVE  CommandOK(Command(calls[h].op, sent[k]))
<1>1. PICK call : call = calls[h] OBVIOUS
<1>2. CASE call.op = "express"
  <2>1. ExpressOK(call) BY <1>1, <1>2, CallInHand
  <2>2. WorklistOK(call) /\ call.todo # <<>> /\ BatchOK(call) BY <1>1, <2>1 DEF ExpressOK
  <2>3. sent = Head(call.prepared) BY <1>1, <1>2
  <2>4. GrantedLease(sent[k]) BY <2>2, <2>3, ChunkInHand
  <2> QED BY <2>4 DEF CommandOK, Command
<1>3. CASE call.op = "refresh"
  <2>1. RequestOK(call) BY <1>1, <1>3, CallInHand
  <2>2. GrantedLease(sent[k]) BY <1>1, <1>3, <2>1 DEF RequestOK
  <2> QED BY <2>2 DEF CommandOK, Command
<1>4. CASE call.op = "clear" BY <1>1, <1>4 DEF CommandOK, Command
<1> QED BY <1>1, <1>2, <1>3, <1>4, CallInHand

\* The tags and the commands held, written one tag at a time.
LEMMA TagsRewritten ==
    ASSUME IInv, now' = now, DOMAIN tags' = Tag, DOMAIN waiting' = Tag,
           \A g \in Tag : \/ tags'[g] = tags[g]
                          \/ \E c : CommandOK(c) /\ tags'[g] = Executed(c),
           \A g \in Tag : waiting'[g] \in {waiting[g], NoCommand} \/ CommandOK(waiting'[g])
    PROVE  TagsOK'
<1>1. TagsOK /\ now \in Nat BY DEF IInv
<1>2. ASSUME NEW g \in Tag
      PROVE  /\ tags'[g].until \in Int
             /\ tags'[g] # Dark => \E lease \in Leases : tags'[g].until <= now' + lease
  <2>1. CASE tags'[g] = tags[g] BY <1>1, <2>1 DEF TagsOK
  <2>2. CASE tags'[g] # tags[g]
    <3>1. PICK c : CommandOK(c) /\ tags'[g] = Executed(c) BY <2>2
    <3> QED BY <1>1, <3>1, ExecutedWithinLease
  <2> QED BY <2>1, <2>2
<1>3. ASSUME NEW g \in Tag, waiting'[g] # NoCommand, ~waiting'[g].release
      PROVE  GrantedLease(waiting[g].entry)'
  <2>1. PICK e : e = waiting'[g].entry OBVIOUS
  <2>2. GrantedLease(e) BY <1>1, <1>3, <2>1 DEF TagsOK, CommandOK
  <2>3. GrantedLease(e)' BY <1>1, <2>2, LeaseKept
  <2> QED BY <2>1, <2>3
<1> QED BY <1>2, <1>3 DEF TagsOK

\* What a chunk's tasks were answered.
LEMMA SaidOfChunk ==
    ASSUME NEW said, NEW sent, NEW did, NEW answered,
           \A j, k \in DOMAIN sent : sent[j].task = sent[k].task => j = k
    PROVE  SaidGrows(said, SaidOf(said, sent, did, answered), sent, did, answered)
<1>1. ASSUME NEW k \in DOMAIN sent
      PROVE  (CHOOSE j \in DOMAIN sent : sent[j].task = sent[k].task) = k
  OBVIOUS
<1> QED BY <1>1 DEF SaidOf, SaidGrows

LEMMA GatewayAnswersKeeps ==
    ASSUME IInv, NEW h \in Handler, GatewayAnswers(h)
    PROVE  IInv'
<1> DEFINE sent == IF calls[h].op = "express" THEN Head(calls[h].prepared) ELSE calls[h].sent
           last(g, S) == {k \in S : sent[k].tag = g /\ \A j \in S : sent[j].tag = g => j <= k}
           Now(did, g) == {k \in last(g, {j \in DOMAIN sent : did[j] # "refused"}) :
                             did[k] = "applied"}
           Later(did, g) == {k \in last(g, {j \in DOMAIN sent : did[j] # "refused"}) :
                               did[k] = "queued"}
           heard(did, answered) == [calls[h] EXCEPT !.pc = "acks",
                                       !.acks = [k \in 1..answered |-> did[k]]]
<1>1. calls[h] # Idle /\ calls[h].pc = "gateway" /\ UNCHANGED <<now, registry>>
  BY DEF GatewayAnswers
<1>2. PICK did \in [DOMAIN sent -> Outcomes],
           answered \in (IF MayCutShort THEN 0..Len(sent) ELSE {Len(sent)}) :
        /\ Goes(h, IF calls[h].op # "express" THEN heard(did, answered)
                   ELSE [heard(did, answered) EXCEPT
                           !.said = SaidOf(calls[h].said, sent, did, answered)])
        /\ tags' = [g \in Tag |->
             IF Now(did, g) = {} THEN tags[g]
             ELSE Executed(Command(calls[h].op, sent[CHOOSE k \in Now(did, g) : TRUE]))]
        /\ waiting' = [g \in Tag |->
             IF Later(did, g) # {}
             THEN Command(calls[h].op, sent[CHOOSE k \in Later(did, g) : TRUE])
             ELSE IF Now(did, g) # {} THEN NoCommand ELSE waiting[g]]
  BY DEF GatewayAnswers
<1>3. \A g : Now(did, g) \subseteq DOMAIN sent /\ Later(did, g) \subseteq DOMAIN sent OBVIOUS
<1> HIDE DEF Now, Later, last, sent
<1>4. \A k \in DOMAIN sent : CommandOK(Command(calls[h].op, sent[k]))
  <2> TAKE k \in DOMAIN sent
  <2> QED BY <1>1, SentOK DEF sent
<1>5. TagsOK'
  <2>1. ASSUME NEW g \in Tag
        PROVE  tags'[g] = tags[g] \/ \E c : CommandOK(c) /\ tags'[g] = Executed(c)
    <3>1. CASE Now(did, g) = {} BY <1>2, <3>1
    <3>2. CASE Now(did, g) # {}
      <4>1. PICK k : k = CHOOSE j \in Now(did, g) : TRUE OBVIOUS
      <4>2. k \in DOMAIN sent BY <1>3, <3>2, <4>1
      <4>3. tags'[g] = Executed(Command(calls[h].op, sent[k])) BY <1>2, <3>2, <4>1
      <4> QED BY <1>4, <4>2, <4>3
    <3> QED BY <3>1, <3>2
  <2>2. ASSUME NEW g \in Tag
        PROVE  waiting'[g] \in {waiting[g], NoCommand} \/ CommandOK(waiting'[g])
    <3>1. CASE Later(did, g) = {} BY <1>2, <3>1
    <3>2. CASE Later(did, g) # {}
      <4>1. PICK k : k = CHOOSE j \in Later(did, g) : TRUE OBVIOUS
      <4>2. k \in DOMAIN sent BY <1>3, <3>2, <4>1
      <4>3. waiting'[g] = Command(calls[h].op, sent[k]) BY <1>2, <3>2, <4>1
      <4> QED BY <1>4, <4>2, <4>3
    <3> QED BY <3>1, <3>2
  <2>3. DOMAIN tags' = Tag /\ DOMAIN waiting' = Tag BY <1>2
  <2> QED BY <1>1, <2>1, <2>2, <2>3, TagsRewritten
<1>6. DOMAIN calls' = Handler /\ \A g \in Handler : CallOK(calls[g])'
  <2>1. PICK call : call = calls[h] OBVIOUS
  <2>2. PICK acks : acks = [k \in 1..answered |-> did[k]] OBVIOUS
  <2>3. CASE call.op # "express"
    <3>1. PICK n : n = [call EXCEPT !.pc = "acks", !.acks = acks] OBVIOUS
    <3>2. RequestOK(call) BY <1>1, <2>1, <2>3, CallInHand
    <3>3. RequestOK(n) BY <3>1, <3>2 DEF RequestOK
    <3>4. calls' = [calls EXCEPT ![h] = n] BY <1>2, <2>1, <2>2, <2>3, <3>1 DEF Goes
    <3> QED BY <1>1, <3>3, <3>4, RequestIsOK, OneCallMoves
  <2>4. CASE call.op = "express"
    <3>1. ExpressOK(call) BY <2>1, <2>4, CallInHand
    <3>2. sent = Head(call.prepared) BY <2>1, <2>4 DEF sent
    <3>3. /\ WorklistOK(call) /\ call.todo # <<>> /\ BatchOK(call) /\ IsExpress(call)
      BY <1>1, <2>1, <3>1 DEF ExpressOK
    <3>4. IsSequence(sent) /\ \A j, k \in DOMAIN sent : sent[j].task = sent[k].task => j = k
      BY <3>2, <3>3, ChunkInHand
    <3>5. PICK said : said = SaidOf(call.said, sent, did, answered) OBVIOUS
    <3>6. PICK n : n = [[call EXCEPT !.pc = "acks", !.acks = acks] EXCEPT !.said = said] OBVIOUS
    <3>7. calls' = [calls EXCEPT ![h] = n]
      BY <1>2, <2>1, <2>2, <2>4, <3>5, <3>6 DEF Goes
    <3>8. /\ IsExpress(n) /\ n.pc = "acks" /\ n.acks = acks /\ n.said = said
          /\ n.at = call.at /\ n.tasks = call.tasks /\ n.todo = call.todo
          /\ n.prepared = call.prepared /\ n.results = call.results /\ n.outcome = call.outcome
      BY <3>3, <3>6 DEF IsExpress
    <3>9. SaidGrows(call.said, said, sent, did, answered) BY ONLY <3>4, <3>5, SaidOfChunk
    <3>10. answered \in 0..Len(sent)
      <4>1. Len(sent) \in Nat BY <3>4 DEF IsSequence
      <4> QED BY <4>1
    <3>11. ExpressOK(n)
      <4>1. call.pc = "gateway" BY <1>1, <2>1
      <4>2. HeardFrom(call, n, sent, did, answered)
        BY ONLY <2>2, <3>8, <3>9, <3>10, did \in [DOMAIN sent -> Outcomes] DEF HeardFrom
      <4> QED BY ONLY <3>1, <3>2, <4>1, <4>2, GatewayExpressOK
    <3> QED BY <1>1, <3>7, <3>11, ExpressIsOK, OneCallMoves
  <2> QED BY <2>3, <2>4
<1>7. expressions' = expressions /\ now' = now BY <1>1 DEF registry
<1>8. \A t \in DOMAIN expressions' : LiveOK(expressions[t])' BY <1>7, RegistryAlone
<1>9. DOMAIN tags' = Tag /\ DOMAIN waiting' = Tag BY <1>2
<1>10. now' \in Nat BY <1>7 DEF IInv
<1> QED BY <1>5, <1>6, <1>8, <1>9, <1>10 DEF IInv

LEMMA WakeUpKeeps ==
    ASSUME IInv, NEW g \in Tag, WakeUp(g)
    PROVE  IInv'
<1>1. /\ now' = now /\ calls' = calls /\ expressions' = expressions
      /\ tags' = [tags EXCEPT ![g] = Executed(waiting[g])]
      /\ waiting' = [waiting EXCEPT ![g] = NoCommand]
      /\ waiting[g] # NoCommand
  BY DEF WakeUp, registry
<1>2. TagsOK /\ DOMAIN tags = Tag /\ DOMAIN waiting = Tag /\ now \in Nat BY DEF IInv
<1>3. CommandOK(waiting[g]) BY <1>1, <1>2 DEF CommandOK, TagsOK
<1>4. \A f \in Tag : tags'[f] = tags[f] \/ \E c : CommandOK(c) /\ tags'[f] = Executed(c)
  BY <1>1, <1>2, <1>3
<1>5. \A f \in Tag : waiting'[f] \in {waiting[f], NoCommand} \/ CommandOK(waiting'[f])
  BY <1>1, <1>2
<1>6. DOMAIN tags' = Tag /\ DOMAIN waiting' = Tag BY <1>1, <1>2
<1>7. TagsOK' BY <1>1, <1>4, <1>5, <1>6, TagsRewritten
<1>8. DOMAIN calls' = Handler /\ \A h \in Handler : CallOK(calls[h])' BY <1>1, NoCallMoves
<1>9. \A t \in DOMAIN expressions' : LiveOK(expressions[t])' BY <1>1, RegistryAlone
<1> QED BY <1>1, <1>2, <1>6, <1>7, <1>8, <1>9 DEF IInv

LEMMA RebindKeeps ==
    ASSUME IInv, NEW f, Rebind(f)
    PROVE  IInv'
<1>1. /\ now' = now /\ calls' = calls /\ expressions' = expressions
      /\ tags' = tags /\ waiting' = waiting
  BY DEF Rebind, registry
<1>2. DOMAIN calls' = Handler /\ \A h \in Handler : CallOK(calls[h])' BY <1>1, NoCallMoves
<1>3. \A t \in DOMAIN expressions' : LiveOK(expressions[t])' BY <1>1, RegistryAlone
<1>4. TagsOK' /\ DOMAIN tags' = Tag /\ DOMAIN waiting' = Tag BY <1>1, TagsAlone
<1>5. now' \in Nat BY <1>1 DEF IInv
<1> QED BY <1>2, <1>3, <1>4, <1>5 DEF IInv

LEMMA RestartKeeps ==
    ASSUME IInv, Restart
    PROVE  IInv'
<1>1. UNCHANGED <<now, outside>> /\ calls' = [h \in Handler |-> Idle] /\ expressions' = <<>>
  BY DEF Restart
<1>2. DOMAIN calls' = Handler /\ \A h \in Handler : CallOK(calls[h])'
  <2>1. ASSUME NEW h \in Handler PROVE CallOK(calls[h])' BY <1>1 DEF CallOK
  <2> QED BY <1>1, <2>1
<1>3. DOMAIN expressions' = {} BY <1>1
<1>4. \A t \in DOMAIN expressions' : LiveOK(expressions[t])' BY <1>3
<1> QED BY <1>1, <1>2, <1>4, AdapterStep

LEMMA TimePassesKeeps ==
    ASSUME IInv, TimePasses
    PROVE  IInv'
<1>1. /\ now' = now + 1 /\ calls' = calls /\ expressions' = expressions /\ waiting' = waiting
      /\ tags' = [g \in Tag |-> IF tags[g].until <= now + 1 THEN Dark ELSE tags[g]]
  BY DEF TimePasses, registry
<1>2. /\ now \in Nat /\ TagsOK /\ DOMAIN calls = Handler /\ DOMAIN waiting = Tag
      /\ \A t \in DOMAIN expressions : LiveOK(expressions[t])
      /\ \A h \in Handler : CallOK(calls[h])
  BY DEF IInv
<1>3. now' \in Nat /\ now <= now' BY <1>1, <1>2
<1>4. ASSUME NEW h \in Handler PROVE CallOK(calls[h])'
  <2>1. PICK call : call = calls[h] OBVIOUS
  <2>2. CallOK(call)' BY <1>2, <1>3, <2>1, CallKept
  <2> QED BY <1>1, <2>1, <2>2
<1>5. ASSUME NEW t \in DOMAIN expressions' PROVE LiveOK(expressions[t])'
  <2>1. PICK live : live = expressions[t] OBVIOUS
  <2>2. LiveOK(live) BY <1>1, <1>2, <2>1
  <2>3. LiveOK(live)' BY <1>2, <1>3, <2>2, LiveKept
  <2> QED BY <1>1, <2>1, <2>3
<1>6. ASSUME NEW g \in Tag
      PROVE  /\ tags'[g].until \in Int
             /\ tags'[g] # Dark => \E lease \in Leases : tags'[g].until <= now' + lease
  <2>1. CASE tags'[g] = Dark BY <2>1 DEF Dark
  <2>2. CASE tags'[g] # Dark
    <3>1. tags'[g] = tags[g] BY <1>1, <2>2
    <3>2. PICK lease \in Leases : tags[g].until <= now + lease BY <1>2, <2>2, <3>1 DEF TagsOK
    <3>3. tags[g].until \in Int /\ lease \in Nat BY <1>2, LeasesAreNat DEF TagsOK
    <3>4. tags[g].until <= now' + lease BY <1>1, <1>2, <3>2, <3>3
    <3> QED BY <3>1, <3>3, <3>4
  <2> QED BY <2>1, <2>2
<1>7. ASSUME NEW g \in Tag, waiting'[g] # NoCommand, ~waiting'[g].release
      PROVE  GrantedLease(waiting[g].entry)'
  <2>1. PICK e : e = waiting[g].entry OBVIOUS
  <2>2. GrantedLease(e) BY <1>1, <1>2, <1>7, <2>1 DEF TagsOK
  <2>3. GrantedLease(e)' BY <1>2, <1>3, <2>2, LeaseKept
  <2> QED BY <1>1, <2>1, <2>3
<1>8. TagsOK' BY <1>6, <1>7 DEF TagsOK
<1>9. DOMAIN tags' = Tag BY <1>1
<1> QED BY <1>1, <1>2, <1>3, <1>4, <1>5, <1>8, <1>9 DEF IInv

LEMMA InitHolds == Init => IInv
<1> SUFFICES ASSUME Init PROVE IInv OBVIOUS
<1>1. /\ now = 0 /\ expressions = <<>> /\ calls = [h \in Handler |-> Idle]
      /\ tags = [g \in Tag |-> Dark] /\ waiting = [g \in Tag |-> NoCommand]
  BY DEF Init
<1>2. \A h \in Handler : CallOK(calls[h]) BY <1>1 DEF CallOK
<1>3. DOMAIN expressions = {} BY <1>1
<1>4. TagsOK
  <2>1. \A g \in Tag : tags[g] = Dark /\ waiting[g] = NoCommand BY <1>1
  <2>2. Dark.until \in Int BY DEF Dark
  <2> QED BY <2>1, <2>2 DEF TagsOK
<1> QED BY <1>1, <1>2, <1>3, <1>4 DEF IInv

LEMMA NextKeeps == IInv /\ [Next]_vars => IInv'
<1> SUFFICES ASSUME IInv, [Next]_vars PROVE IInv' OBVIOUS
<1>1. CASE UNCHANGED vars
  <2>1. now' = now /\ calls' = calls /\ expressions' = expressions /\ UNCHANGED <<now, outside>>
    BY <1>1 DEF vars, registry
  <2>2. DOMAIN calls' = Handler /\ \A h \in Handler : CallOK(calls[h])' BY <2>1, NoCallMoves
  <2>3. \A t \in DOMAIN expressions' : LiveOK(expressions[t])' BY <2>1, RegistryAlone
  <2> QED BY <2>1, <2>2, <2>3, AdapterStep
<1>2. CASE Next
  <2>1. ASSUME NEW h \in Handler, Starts(h) PROVE IInv'
    <3>1. \/ \E ts \in Worklists : Dispatch(h, ts)
          \/ \E t \in Handled : Escalate(h, t) \/ Refresh(h, t) \/ Verify(h, t)
      BY <2>1 DEF Starts
    <3> QED BY <3>1, DispatchKeeps, EscalateKeeps, RefreshKeeps, VerifyKeeps
  <2>2. ASSUME NEW h \in Handler, Resumes(h) PROVE IInv'
    <3>1. \/ \E d \in Deployments :
               ReadCapabilities(h, d) \/ StoreUnusable(h, d) \/ Prepare(h, d)
          \/ ApplyAcks(h) \/ Refreshed(h) \/ Release(h) \/ Cleared(h) \/ Return(h)
      BY <2>2 DEF Resumes
    <3>2. CASE \E d \in Deployments :
                 ReadCapabilities(h, d) \/ StoreUnusable(h, d) \/ Prepare(h, d)
      BY <3>2, ReadCapabilitiesKeeps, StoreUnusableKeeps, PrepareKeeps
    <3>3. CASE ApplyAcks(h) BY <3>3, ApplyAcksKeeps
    <3>4. CASE Refreshed(h) BY <3>4, RefreshedKeeps
    <3>5. CASE Release(h) BY <3>5, ReleaseKeeps
    <3>6. CASE Cleared(h) BY <3>6, ClearedKeeps
    <3>7. CASE Return(h) BY <3>7, ReturnKeeps
    <3> QED BY <3>1, <3>2, <3>3, <3>4, <3>5, <3>6, <3>7
  <2>3. ASSUME NEW h \in Handler, GatewayAnswers(h) PROVE IInv' BY <2>3, GatewayAnswersKeeps
  <2>4. ASSUME NEW g \in Tag, WakeUp(g) PROVE IInv' BY <2>4, WakeUpKeeps
  <2>5. ASSUME NEW t \in Handled, Rebind(FacingOf[t]) PROVE IInv'
    <3>1. PICK f : f = FacingOf[t] OBVIOUS
    <3> QED BY <2>5, <3>1, RebindKeeps
  <2>6. CASE Restart BY <2>6, RestartKeeps
  <2>7. CASE TimePasses BY <2>7, TimePassesKeeps
  <2>8. \/ \E h \in Handler : Starts(h) \/ Resumes(h) \/ GatewayAnswers(h)
        \/ \E g \in Tag : WakeUp(g)
        \/ \E t \in Handled : Rebind(FacingOf[t])
        \/ Restart
        \/ TimePasses
    BY <1>2 DEF Next
  <2> QED BY <2>1, <2>2, <2>3, <2>4, <2>5, <2>6, <2>7, <2>8
<1> QED BY <1>1, <1>2

----------------------------------------------------------------------------
(***************************************************************************)
(* The index of the registry.                                              *)
(***************************************************************************)
\* The steps that touch neither the registry's entries nor its index.
LEMMA Untouched ==
    ASSUME IndexNeverDangles, UNCHANGED <<expressions, byId>>
    PROVE  IndexNeverDangles'
BY DEF IndexNeverDangles

\* An entry and what leads to it go together.
LEMMA ForgetKeepsIndex ==
    ASSUME IndexNeverDangles, NEW t, ForgetLive(t)
    PROVE  IndexNeverDangles'
BY DEF IndexNeverDangles, ForgetLive, Forget

\* Leases are extended in place.
LEMMA PrepareKeepsIndex ==
    ASSUME IndexNeverDangles, NEW h, NEW d, Prepare(h, d)
    PROVE  IndexNeverDangles'
<1>1. DOMAIN expressions' = DOMAIN expressions BY DEF Prepare
<1>2. UNCHANGED byId BY DEF Prepare
<1> QED BY <1>1, <1>2 DEF IndexNeverDangles

\* What an ack lights enters the registry and the index in one step.
LEMMA AcksKeepIndex ==
    ASSUME IndexNeverDangles, NEW h, ApplyAcks(h)
    PROVE  IndexNeverDangles'
<1>1. \E new : /\ byId' = byId \cup new
               /\ DOMAIN expressions' = DOMAIN expressions \cup new
  BY DEF ApplyAcks
<1> QED BY <1>1 DEF IndexNeverDangles

LEMMA RefreshKeepsIndex ==
    ASSUME IndexNeverDangles, NEW h, NEW t, Refresh(h, t)
    PROVE  IndexNeverDangles'
<1>1. CASE expressions[t].leaseExpiresAt <= now
  <2>1. ForgetLive(t) BY <1>1 DEF Refresh, ForgetLive
  <2> QED BY <2>1, ForgetKeepsIndex
<1>2. CASE ~(expressions[t].leaseExpiresAt <= now)
  BY <1>2, Untouched DEF Refresh
<1> QED BY <1>1, <1>2

\* A refresh that ends may bring an entry back without its index, never the reverse.
LEMMA RefreshedKeepsIndex ==
    ASSUME IndexNeverDangles, NEW h, Refreshed(h)
    PROVE  IndexNeverDangles'
<1>1. DOMAIN expressions \subseteq DOMAIN expressions'
  <2>1. CASE Accepted(calls[h].acks) BY <2>1 DEF Refreshed, Record
  <2>2. CASE ~Accepted(calls[h].acks) BY <2>2 DEF Refreshed
  <2> QED BY <2>1, <2>2
<1>2. UNCHANGED byId BY DEF Refreshed
<1> QED BY <1>1, <1>2 DEF IndexNeverDangles

LEMMA ReleaseKeepsIndex ==
    ASSUME IndexNeverDangles, NEW h, Release(h)
    PROVE  IndexNeverDangles'
<1>1. ForgetLive(calls[h].task) \/ UNCHANGED <<expressions, byId>> BY DEF Release
<1> QED BY <1>1, ForgetKeepsIndex, Untouched

LEMMA ClearedKeepsIndex ==
    ASSUME IndexNeverDangles, NEW h, Cleared(h)
    PROVE  IndexNeverDangles'
<1>1. ForgetLive(calls[h].task) \/ UNCHANGED <<expressions, byId>> BY DEF Cleared
<1> QED BY <1>1, ForgetKeepsIndex, Untouched

----------------------------------------------------------------------------
(***************************************************************************)
(* The theorems.                                                           *)
(***************************************************************************)
\* The inductive invariant holds of the fleet, whatever its vendor, its stores, its
\* tasks and its tags, and however its calls overlap.
THEOREM Invariance == Spec => []IInv
BY InitHolds, NextKeeps, PTL DEF Spec

\* Every tag that is lit, and every expression the registry claims, ends within one
\* lease of now, through renewals, late answers, rebinds and restarts.
THEOREM LeasesBoundTheLight == Spec => []LeasedAhead
<1>1. IInv => LeasedAhead
  <2> SUFFICES ASSUME IInv PROVE LeasedAhead OBVIOUS
  <2>1. \A g \in Tag : tags[g] # Dark => \E lease \in Leases : tags[g].until <= now + lease
    BY DEF IInv, TagsOK
  <2>2. ASSUME NEW t \in DOMAIN expressions
        PROVE  \E lease \in Leases : expressions[t].leaseExpiresAt <= now + lease
    BY DEF IInv, LiveOK
  <2> QED BY <2>1, <2>2 DEF LeasedAhead
<1> QED BY <1>1, Invariance, PTL

\* A dispatch answers for every task of its worklist, and answers of each what the
\* gateway said of it, through batches, chunks and answers that stop short.
THEOREM ToldWhatTheGatewaySaid == Spec => []AnswersMatchAcks
<1>1. IInv => AnswersMatchAcks
  <2> SUFFICES ASSUME IInv, NEW h \in Handler, calls[h] # Idle, calls[h].pc = "done"
               PROVE  /\ DOMAIN calls[h].outcome = Asked(calls[h])
                      /\ \A t \in DOMAIN calls[h].said :
                           calls[h].outcome[t].status = Told[calls[h].said[t]]
    BY DEF AnswersMatchAcks
  <2>1. PICK call : call = calls[h] OBVIOUS
  <2>2. ExpressOK(call) BY <2>1, CallInHand DEF RequestOK
  <2>3. WorklistOK(call) /\ SaidOK(call) /\ call.todo = <<>> BY <2>1, <2>2 DEF ExpressOK
  <2>4. DOMAIN call.outcome = Asked(call)
    <3>1. DOMAIN call.todo = {} BY <2>3
    <3>2. UNION {{call.todo[b][i].task : i \in DOMAIN call.todo[b]} : b \in DOMAIN call.todo} = {}
      BY <3>1
    <3> QED BY <2>1, <2>3, <3>2 DEF WorklistOK
  <2>5. \A t \in DOMAIN call.said : call.outcome[t].status = Told[call.said[t]]
    BY <2>1, <2>3, NothingSaidYet
  <2> QED BY <2>1, <2>4, <2>5
<1> QED BY <1>1, Invariance, PTL

\* The index by expression id never leads to an entry that is gone, whichever calls
\* overlap, whatever the gateway answers, and across restarts (fleet-adapter.ts).
THEOREM IndexIsSound == Spec => []IndexNeverDangles
<1>1. Init => IndexNeverDangles BY DEF Init, IndexNeverDangles
<1>2. IndexNeverDangles /\ [Next]_vars => IndexNeverDangles'
  <2> SUFFICES ASSUME IndexNeverDangles, [Next]_vars
               PROVE  IndexNeverDangles'
    OBVIOUS
  <2>1. ASSUME NEW h \in Handler, Starts(h) PROVE IndexNeverDangles'
    <3>1. ASSUME NEW ts \in Worklists, Dispatch(h, ts) PROVE IndexNeverDangles'
      BY <3>1, Untouched DEF Dispatch, registry
    <3>2. ASSUME NEW t \in Handled, Escalate(h, t) PROVE IndexNeverDangles'
      BY <3>2, Untouched DEF Escalate, registry
    <3>3. ASSUME NEW t \in Handled, Refresh(h, t) PROVE IndexNeverDangles'
      BY <3>3, RefreshKeepsIndex
    <3>4. ASSUME NEW t \in Handled, Verify(h, t) PROVE IndexNeverDangles'
      BY <3>4, Untouched DEF Verify, registry
    <3> QED BY <2>1, <3>1, <3>2, <3>3, <3>4 DEF Starts
  <2>2. ASSUME NEW h \in Handler, Resumes(h) PROVE IndexNeverDangles'
    <3>1. ASSUME NEW d \in Deployments, ReadCapabilities(h, d) PROVE IndexNeverDangles'
      BY <3>1, Untouched DEF ReadCapabilities, registry
    <3>2. ASSUME NEW d \in Deployments, StoreUnusable(h, d) PROVE IndexNeverDangles'
      BY <3>2, Untouched DEF StoreUnusable, registry
    <3>3. ASSUME Return(h) PROVE IndexNeverDangles'
      BY <3>3, Untouched DEF Return, registry
    <3> QED BY <2>2, <3>1, <3>2, <3>3, PrepareKeepsIndex, AcksKeepIndex,
               RefreshedKeepsIndex, ReleaseKeepsIndex, ClearedKeepsIndex DEF Resumes
  <2>3. ASSUME NEW h \in Handler, GatewayAnswers(h) PROVE IndexNeverDangles'
    BY <2>3, Untouched DEF GatewayAnswers, registry
  <2>4. ASSUME NEW g \in Tag, WakeUp(g) PROVE IndexNeverDangles'
    BY <2>4, Untouched DEF WakeUp, registry
  <2>5. ASSUME NEW f, Rebind(f) PROVE IndexNeverDangles'
    BY <2>5, Untouched DEF Rebind, registry
  <2>6. CASE Restart BY <2>6 DEF Restart, IndexNeverDangles
  <2>7. CASE TimePasses BY <2>7, Untouched DEF TimePasses, registry
  <2>8. CASE UNCHANGED vars BY <2>8, Untouched DEF vars, registry
  <2> QED BY <2>1, <2>2, <2>3, <2>4, <2>5, <2>6, <2>7, <2>8 DEF Next
<1> QED BY <1>1, <1>2, PTL DEF Spec
=============================================================================
