-------------------------- MODULE RedpacketProofs ---------------------------
(***************************************************************************)
(* Redpacket and the drawing of its shares, proved for every number of     *)
(* requests, users, deliveries and restarts, and for every amount and      *)
(* number of shares.  Of RedpacketDraws the shares are proved to add up    *)
(* and to leave no one out.  Of Redpacket, types, SharesCovered, ClaimOnce *)
(* and ClosedByRefund follow from the inductive invariant IInv; Books,     *)
(* ClaimsPaid, NoLockout and PurseTracksBalance each from an invariant of  *)
(* its own that is inductive relative to IInv (and to BooksInv).           *)
(***************************************************************************)
EXTENDS Redpacket, RedpacketDraws, FiniteSetTheorems, TLAPS

-----------------------------------------------------------------------------
(* Lemmas about the shares. *)

\* The quotient of `balance.Div(restNumbers)`, times the number of shares, never
\* exceeds the balance.
LEMMA QuotientBound ==
    ASSUME NEW b \in Nat, NEW n \in Nat \ {0}
    PROVE  /\ b \div n \in Nat
           /\ n * (b \div n) <= b
           /\ b < n * (b \div n) + n
  OBVIOUS

\* A random share is a natural no larger than the balance: the balance that
\* redpacketRand returns is never negative.
LEMMA RandShareFits ==
    ASSUME NEW b \in Nat, NEW n \in Nat \ {0}, NEW v \in RandShares(b, n)
    PROVE  v \in Nat /\ v <= b
  <1>. DEFINE q == b \div n
  <1>1. q \in Nat /\ n * q <= b
    BY QuotientBound
  <1>2. CASE n = 1
    BY <1>2 DEF RandShares
  <1>3. CASE n # 1 /\ q = 0
    BY <1>3 DEF RandShares, RandMax
  <1>4. CASE n # 1 /\ q > 0
    <2>1. v \in 0 .. q * 2 - 1
      BY <1>1, <1>4 DEF RandShares, RandMax
    <2>2. n * q >= 2 * q
      <3>1. n >= 2
        BY <1>4
      <3>. QED
        BY <1>1, <3>1
    <2>. HIDE DEF q
    <2>. QED
      BY <1>1, <2>1, <2>2
  <1>. QED
    BY <1>1, <1>2, <1>3, <1>4

\* When the balance is worth at least one unit per share, so is what a random
\* share leaves for the shares after it.
LEMMA RandShareLeaves ==
    ASSUME NEW b \in Nat, NEW n \in Nat \ {0}, NEW v \in RandShares(b, n), b >= n
    PROVE  b - v >= n - 1
  <1>. DEFINE q == b \div n
  <1>1. q \in Nat /\ n * q <= b /\ b < n * q + n
    BY QuotientBound
  <1>2. CASE n = 1
    BY <1>2 DEF RandShares
  <1>3. CASE n # 1
    <2>1. q > 0
      BY <1>1
    <2>2. v \in 0 .. q * 2 - 1
      BY <1>1, <1>3, <2>1 DEF RandShares, RandMax
    <2>. HIDE DEF q
    <2>3. (n - 2) * q >= n - 2
      BY <1>1, <1>3, <2>1
    <2>4. n * q = (n - 2) * q + 2 * q
      BY <1>1
    <2>. QED
      BY <1>1, <2>2, <2>3, <2>4
  <1>. QED
    BY <1>2, <1>3

\* The same of redpacketLucked's loop, whose shares are worth at least 1 too, and
\* which hands rand.Int a positive bound.
LEMMA LuckedShareLeaves ==
    ASSUME NEW b \in Nat, NEW n \in Nat \ {0}, b >= n
    PROVE  /\ LuckedMax(b, n) - 1 > 0
           /\ \A v \in LuckedShares(b, n) : v \in Nat /\ v >= 1 /\ v <= b /\ b - v >= n - 1
  <1>. DEFINE q == b \div n
  <1>1. q \in Nat /\ n * q <= b /\ b < n * q + n
    BY QuotientBound
  <1>2. q > 0
    BY <1>1
  <1>3. LuckedMax(b, n) - 1 > 0
    BY <1>1, <1>2 DEF LuckedMax
  <1>4. ASSUME NEW v \in LuckedShares(b, n)
        PROVE  v \in Nat /\ v >= 1 /\ v <= b /\ b - v >= n - 1
    <2>1. CASE n = 1
      BY <2>1 DEF LuckedShares
    <2>2. CASE n # 1
      <3>1. v \in 1 .. q * 2 - 1
        BY <2>2 DEF LuckedShares, LuckedMax
      <3>. HIDE DEF q
      <3>2. (n - 2) * q >= n - 2
        BY <1>1, <1>2, <2>2
      <3>3. n * q = (n - 2) * q + 2 * q
        BY <1>1
      <3>. QED
        BY <1>1, <1>2, <2>2, <3>1, <3>2, <3>3
    <2>. QED
      BY <2>1, <2>2
  <1>. QED
    BY <1>3, <1>4

-----------------------------------------------------------------------------
(* RedpacketDraws: the shares drawn one after the other. *)

\* What is left is worth a unit per share left, if the amount was, and that of
\* redpacketLucked always is.
Solvent ==
    /\ price >= restNumbers + Len(packets) => restPrice >= restNumbers
    /\ algo = "lucked" => price >= restNumbers + Len(packets)
    /\ algo = "lucked" => \A i \in DOMAIN packets : packets[i] >= 1

DrawsInv == DrawTypeOK /\ Solvent

LEMMA InitDrawsInv == DrawInit => DrawsInv
  <1>. SUFFICES ASSUME DrawInit PROVE DrawsInv
    OBVIOUS
  <1>1. DrawTypeOK
    BY DrawsAssumption DEF DrawInit, DrawTypeOK
  <1>2. algo = "lucked" => price >= restNumbers
    BY DrawsAssumption, QuotientBound DEF DrawInit
  <1>3. Solvent
    BY <1>1, <1>2 DEF DrawInit, Solvent, DrawTypeOK
  <1>. QED
    BY <1>1, <1>3 DEF DrawsInv

LEMMA DrawKeepsDrawsInv ==
    ASSUME DrawsInv, Draw
    PROVE  DrawsInv'
  <1>. USE DEF DrawsInv
  <1>1. restNumbers \in Nat \ {0} /\ restPrice \in Nat
    BY DEF Draw, DrawTypeOK
  <1>2. PICK value \in NextShares : /\ packets' = Append(packets, value)
                               /\ restPrice' = restPrice - value
    BY DEF Draw
  <1>3. algo = "lucked" => restPrice >= restNumbers
    BY DEF Solvent
  <1>4. /\ value \in Nat /\ value <= restPrice
        /\ restPrice >= restNumbers => restPrice - value >= restNumbers - 1
        /\ algo = "lucked" => value >= 1
    BY <1>1, <1>3, RandShareFits, RandShareLeaves, LuckedShareLeaves DEF NextShares
  <1>5. packets' \in Seq(Nat) /\ Len(packets') = Len(packets) + 1
    BY <1>2, <1>4 DEF DrawTypeOK
  <1>6. DrawTypeOK'
    BY <1>1, <1>2, <1>4, <1>5 DEF Draw, DrawTypeOK
  <1>7. algo = "lucked" => \A i \in DOMAIN packets' : packets'[i] >= 1
    BY <1>2, <1>4, <1>5 DEF DrawTypeOK, Solvent
  <1>8. Solvent'
    BY <1>1, <1>2, <1>4, <1>5, <1>7 DEF Draw, DrawTypeOK, Solvent
  <1>. QED
    BY <1>6, <1>8

LEMMA NextDrawsInv == DrawsInv /\ [DrawNext]_drawVars => DrawsInv'
  <1>1. DrawsInv /\ UNCHANGED drawVars => DrawsInv'
    BY DEF DrawsInv, DrawTypeOK, Solvent, drawVars
  <1>. QED
    BY <1>1, DrawKeepsDrawsInv DEF DrawNext, Done

THEOREM DrawsInvariant == DrawSpec => []DrawsInv
  BY InitDrawsInv, NextDrawsInv, PTL DEF DrawSpec

\* No share is ever taken that is not there.
THEOREM DrawsTypeCorrect == DrawSpec => []DrawTypeOK
  BY DrawsInvariant, PTL DEF DrawsInv

\* A packet worth a unit per share stays so to the last share.
THEOREM NoneIsLeftOut == DrawSpec => []NoneLeftOut
  <1>1. DrawsInv => NoneLeftOut
    BY DEF DrawsInv, Solvent, NoneLeftOut
  <1>. QED
    BY <1>1, DrawsInvariant, PTL

\* rand.Int is never handed a bound it panics on.
THEOREM LuckedNeverPanics == DrawSpec => []NeverPanics
  <1>1. DrawsInv => NeverPanics
    BY LuckedShareLeaves DEF DrawsInv, DrawTypeOK, Solvent, NeverPanics
  <1>. QED
    BY <1>1, DrawsInvariant, PTL

-----------------------------------------------------------------------------
(* The shares add up. *)

\* What is drawn and what is left make up the amount, and the last share takes
\* all that is left.
SumInv ==
    /\ IsFiniteSet(DrawnUnits)
    /\ restPrice + Cardinality(DrawnUnits) = price
    /\ restNumbers = 0 => restPrice = 0

LEMMA InitSumInv == DrawInit => SumInv
  <1>. SUFFICES ASSUME DrawInit PROVE SumInv
    OBVIOUS
  <1>1. DrawnUnits = {}
    BY DEF DrawInit, DrawnUnits
  <1>2. IsFiniteSet(DrawnUnits) /\ Cardinality(DrawnUnits) = 0
    BY <1>1, FS_EmptySet
  <1>. QED
    BY <1>2, DrawsAssumption DEF DrawInit, SumInv

LEMMA DrawKeepsSumInv ==
    ASSUME DrawsInv, SumInv, Draw
    PROVE  SumInv'
  <1>. DEFINE n == Len(packets) + 1
  <1>1. /\ packets \in Seq(Nat) /\ n \in Nat /\ price \in Nat
        /\ restNumbers \in Nat \ {0} /\ restPrice \in Nat
    BY DEF Draw, DrawsInv, DrawTypeOK
  <1>2. PICK value \in NextShares : /\ packets' = Append(packets, value)
                               /\ restPrice' = restPrice - value
    BY DEF Draw
  <1>3. value \in Nat
    BY <1>1, RandShareFits, LuckedShareLeaves DEF NextShares, DrawsInv, Solvent
  <1>4. restNumbers = 1 => value = restPrice
    BY <1>2 DEF NextShares, LuckedShares, RandShares
  <1>. DEFINE more == {n} \X (1 .. value)
  <1>5. DrawnUnits' = DrawnUnits \cup more /\ DrawnUnits \cap more = {}
    <2>1. /\ DOMAIN packets = 1 .. n - 1 /\ DOMAIN packets' = 1 .. n
          /\ packets'[n] = value
          /\ \A i \in 1 .. n - 1 : packets'[i] = packets[i]
      BY <1>1, <1>2, <1>3
    <2>2. 1 .. n = (1 .. n - 1) \cup {n} /\ n \notin 1 .. n - 1
      BY <1>1
    <2>. HIDE DEF n
    <2>. QED
      BY <2>1, <2>2 DEF DrawnUnits
  <1>6. IsFiniteSet(more) /\ Cardinality(more) = value
    <2>1. IsFiniteSet({n}) /\ Cardinality({n}) = 1
      BY FS_Singleton
    <2>2. IsFiniteSet(1 .. value) /\ Cardinality(1 .. value) = value
      BY <1>3, FS_Interval
    <2>3. IsFiniteSet(more) /\ Cardinality(more) = Cardinality({n}) * Cardinality(1 .. value)
      BY <2>1, <2>2, FS_Product
    <2>. HIDE DEF more, n
    <2>. QED
      BY <1>3, <2>1, <2>2, <2>3
  <1>. HIDE DEF more, n
  <1>7. Cardinality(DrawnUnits) \in Nat /\ Cardinality(DrawnUnits \cap more) = 0
    BY <1>5, FS_CardinalityType, FS_EmptySet DEF SumInv
  <1>8. /\ IsFiniteSet(DrawnUnits \cup more)
        /\ Cardinality(DrawnUnits \cup more) =
              Cardinality(DrawnUnits) + Cardinality(more) - Cardinality(DrawnUnits \cap more)
    BY <1>6, FS_Union DEF SumInv
  <1>9. Cardinality(DrawnUnits') = Cardinality(DrawnUnits) + value
    BY <1>3, <1>5, <1>6, <1>7, <1>8
  <1>10. restPrice' + Cardinality(DrawnUnits') = price'
    <2>1. restPrice + Cardinality(DrawnUnits) = price /\ price' = price
      BY DEF Draw, SumInv
    <2>. QED
      BY <1>1, <1>2, <1>3, <1>7, <1>9, <2>1
  <1>11. restNumbers' = 0 => restPrice' = 0
    BY <1>1, <1>2, <1>4 DEF Draw
  <1>. QED
    BY <1>5, <1>8, <1>10, <1>11 DEF SumInv

LEMMA NextSumInv == DrawsInv /\ SumInv /\ [DrawNext]_drawVars => SumInv'
  <1>1. SumInv /\ UNCHANGED drawVars => SumInv'
    BY DEF SumInv, DrawnUnits, drawVars
  <1>. QED
    BY <1>1, DrawKeepsSumInv DEF DrawNext, Done

\* The shares of a packet add up to its amount, for every amount, every number of
\* shares and every run of draws: the loop of redpacketLucked and the calls of
\* redpacketRand that claims make one by one lose nothing.
THEOREM SharesAddUp == DrawSpec => []Exact
  <1>1. SumInv => Exact
    BY FS_CardinalityType DEF SumInv, Exact
  <1>2. DrawSpec => []SumInv
    BY DrawsInvariant, InitSumInv, NextSumInv, PTL DEF DrawSpec
  <1>. QED
    BY <1>1, <1>2, PTL

-----------------------------------------------------------------------------
(* Redpacket: types, and what a request may rely on. *)

USE RedpacketAssumption

\* The document CreateRedpacket inserts is covered.
LEMMA NewDocCovered ==
    ASSUME NEW t \in Terms, t.total >= 1,
           t.type = "average" => t.amount = t.avg * t.total,
           t.type = "lucked" => t.amount >= t.total
    PROVE  Covered(t, t.amount, 0)
  BY DEF Covered, Terms

\* A share of a covered document can be paid from its balance, and what is left
\* is covered.
LEMMA ShareKeepsCovered ==
    ASSUME NEW t \in Terms, NEW b \in Nat, NEW c \in Nat,
           Covered(t, b, c), c < t.total,
           NEW v \in Shares(t, b, c)
    PROVE  /\ v \in Nat
           /\ v <= b
           /\ Covered(t, b - v, c + 1)
  <1>. DEFINE n == t.total - c
  <1>1. n \in Nat \ {0}
    BY DEF Terms
  <1>2. CASE t.type = "average"
    <2>1. v = t.avg /\ b = t.avg * n
      BY <1>2 DEF Covered, Shares
    <2>2. b = t.avg * (n - 1) + t.avg /\ t.avg * (n - 1) \in Nat
      BY <1>1, <2>1 DEF Terms
    <2>3. n - 1 = 0 => b - v = 0
      BY <1>1, <2>1, <2>2 DEF Terms
    <2>4. t.total - (c + 1) = n - 1
      BY DEF Terms
    <2>. HIDE DEF n
    <2>. QED
      BY <1>1, <1>2, <2>1, <2>2, <2>3, <2>4 DEF Covered, Terms
  <1>3. CASE t.type # "average"
    <2>1. v \in RandShares(b, n)
      BY <1>3 DEF Shares
    <2>2. v \in Nat /\ v <= b
      BY <1>1, <2>1, RandShareFits
    <2>3. t.type = "lucked" => b - v >= n - 1
      BY <1>1, <1>3, <2>1, RandShareLeaves DEF Covered
    <2>4. n = 1 => v = b
      BY <2>1 DEF RandShares
    <2>. QED
      BY <1>1, <1>3, <2>2, <2>3, <2>4 DEF Covered, Terms
  <1>. QED
    BY <1>2, <1>3

-----------------------------------------------------------------------------
(* Lemmas about the document. *)

LEMMA NewDocType == \A n \in Nat : NewDoc(n) \in Doc
  BY DEF NewDoc, Doc, PayStatus

LEMMA NoDocType == NoDoc \in Doc
  BY NewDocType DEF NoDoc

\* An Update, whatever copy it writes, leaves a well-formed document.
LEMMA UpdateKeepsType ==
    ASSUME MongoTypeOK, NEW doc \in Doc, NEW own, Update(doc, own),
           UNCHANGED <<terms, saved, claims, lock>>
    PROVE  MongoTypeOK'
  <1>1. DOMAIN doc = DOMAIN NoDoc
    BY NoDocType DEF Doc
  <1>2. lost' \subseteq DOMAIN NoDoc
    BY <1>1 DEF MongoTypeOK, Update
  <1>. QED
    BY <1>2 DEF MongoTypeOK, Update

\* An Update that unmarks a packet leaves a trace.
LEMMA UpdateLeavesTrace ==
    ASSUME MarkedOrLost, NEW doc \in Doc, NEW own, Update(doc, own),
           "isTimeout" \notin own, UNCHANGED <<refunds, wpc>>
    PROVE  MarkedOrLost'
  <1>1. lost \subseteq lost'
    BY DEF Update
  <1>2. doc["isTimeout"] # rp["isTimeout"] => "isTimeout" \in lost'
    <2>1. "isTimeout" \in DOMAIN doc
      BY DEF Doc
    <2>. QED
      BY <2>1 DEF Update
  <1>3. rp' = doc
    BY DEF Update
  <1>4. rp.isTimeout => rp'.isTimeout \/ "isTimeout" \in lost'
    BY <1>2, <1>3
  <1>. QED
    BY <1>1, <1>4 DEF MarkedOrLost

-----------------------------------------------------------------------------
\* The initial states satisfy the inductive invariant.
LEMMA InitIInv == Init => IInv
  <1>. SUFFICES ASSUME Init PROVE IInv
    OBVIOUS
  <1>1. TypeOK
    <2>1. MongoTypeOK
      BY NoDocType DEF Init, MongoTypeOK, NoTerms, Terms
    <2>2. ClaimerTypeOK
      BY DEF Init, ClaimerTypeOK, NoSnap, NoPend
    <2>3. HandlerTypeOK
      BY NoDocType DEF Init, HandlerTypeOK
    <2>4. RedisTypeOK
      <3>1. key \in BOOLEAN
        BY DEF Init
      <3>2. count \in Int /\ tasks \in Nat
        BY DEF Init
      <3>. QED
        BY <3>1, <3>2 DEF RedisTypeOK
    <2>5. SenderTypeOK
      BY DEF Init, SenderTypeOK
    <2>6. WorkerTypeOK
      BY DEF Init, WorkerTypeOK
    <2>7. HistoryTypeOK
      BY DEF Init, HistoryTypeOK
    <2>8. GatewayTypeOK
      BY DEF Init, GatewayTypeOK
    <2>. QED
      BY <2>1, <2>2, <2>3, <2>4, <2>5, <2>6, <2>7, <2>8 DEF TypeOK
  <1>2. TermsFit /\ Started /\ CopiesCovered
    BY DEF Init, TermsFit, Started, CopiesCovered, SharesCovered
  <1>3. SharePending /\ FreshIsOpen /\ ClaimOnce /\ MarkedOrLost
    BY DEF Init, SharePending, FreshIsOpen, ClaimOnce, MarkedOrLost
  <1>. QED
    BY <1>1, <1>2, <1>3 DEF IInv

\* The inductive invariant is kept by every step of CreateRedpacket and of the
\* gateway that settles its payment.
LEMMA CreationSteps ==
    ASSUME IInv,
           \/ \E type \in Types, amount \in Amounts, total \in 1 .. MaxCount :
              Create(type, amount, total)
           \/ CreatorStep \/ GatewaySettles
    PROVE  IInv'
  <1>. USE DEF IInv, TypeOK, mongo, redis, sender, claimer, handler, worker, gateway,
              history
  <1>1. ASSUME NEW type \in Types, NEW amount \in Amounts, NEW total \in 1 .. MaxCount,
                Create(type, amount, total)
         PROVE  IInv'
    <2>. USE <1>1 DEF Create
    <2>1. MongoTypeOK' /\ SenderTypeOK'
      BY DEF MongoTypeOK, SenderTypeOK, TermsOf, Terms
    <2>2. TermsFit'
      BY DEF TermsFit, MongoTypeOK, TermsOf, Terms
    <2>3. Started'
      BY DEF Started, RedisTypeOK, GatewayTypeOK, WorkerTypeOK, HandlerTypeOK,
               ClaimerTypeOK, TermsOf, Terms
    <2>4. CopiesCovered'
      <3>1. /\ ~saved
            /\ \A h \in Handlers : hpc[h] = "idle"
            /\ \A s \in Slots : cpc[s] = "idle"
        BY DEF Started
      <3>. QED
        BY <3>1 DEF CopiesCovered, SharesCovered
    <2>5. SharePending'
      <3>1. \A s \in Slots : cpc[s] = "idle"
        BY DEF Started
      <3>. QED
        BY <3>1 DEF SharePending
    <2>6. RedisTypeOK' /\ ClaimerTypeOK' /\ HandlerTypeOK' /\ WorkerTypeOK' /\
            GatewayTypeOK' /\ HistoryTypeOK' /\ FreshIsOpen' /\ ClaimOnce' /\
            MarkedOrLost'
      BY DEF RedisTypeOK, ClaimerTypeOK, HandlerTypeOK, WorkerTypeOK, GatewayTypeOK,
               HistoryTypeOK, FreshIsOpen, ClaimOnce, MarkedOrLost, HasClaim
    <2>. QED
      BY <2>1, <2>2, <2>3, <2>4, <2>5, <2>6
  <1>2. CASE CreatePay
    <2>. USE <1>2 DEF CreatePay
    <2>1. SenderTypeOK' /\ GatewayTypeOK' /\ HistoryTypeOK'
      BY DEF SenderTypeOK, GatewayTypeOK, HistoryTypeOK, CreateFails, Fault, Trouble
    <2>2. TermsFit' /\ Started'
      BY DEF TermsFit, MongoTypeOK, Started, RedisTypeOK, GatewayTypeOK,
               WorkerTypeOK, HandlerTypeOK, ClaimerTypeOK, CreateFails, Fault,
               Trouble
    <2>3. MongoTypeOK' /\ RedisTypeOK' /\ ClaimerTypeOK' /\ HandlerTypeOK' /\
            WorkerTypeOK' /\ CopiesCovered' /\ SharePending' /\ FreshIsOpen' /\
            ClaimOnce' /\ MarkedOrLost'
      BY DEF MongoTypeOK, RedisTypeOK, ClaimerTypeOK, HandlerTypeOK, WorkerTypeOK,
               CopiesCovered, SharePending, FreshIsOpen, ClaimOnce, MarkedOrLost,
               SharesCovered, HasClaim
    <2>. QED
      BY <2>1, <2>2, <2>3
  <1>3. CASE CreateCommit
    <2>. USE <1>3 DEF CreateCommit
    <2>1. SenderTypeOK' /\ HistoryTypeOK'
      BY DEF SenderTypeOK, HistoryTypeOK, CreateFails, Fault, Trouble, NewDoc
    <2>2. TermsFit' /\ Started' /\ FreshIsOpen'
      BY DEF TermsFit, MongoTypeOK, Started, RedisTypeOK, GatewayTypeOK,
               WorkerTypeOK, HandlerTypeOK, ClaimerTypeOK, FreshIsOpen, HasClaim,
               CreateFails, Fault, Trouble, NewDoc
    <2>3. MongoTypeOK'
      <3>1. NewDoc(terms.amount) \in Doc
        BY NewDocType DEF MongoTypeOK, Terms
      <3>. QED
        BY <3>1 DEF MongoTypeOK
    <2>4. CopiesCovered'
      <3>1. CASE rp' = NewDoc(terms.amount)
        <4>1. Covered(terms, terms.amount, 0)
          BY NewDocCovered DEF MongoTypeOK, TermsFit
        <4>2. rp'.balance = terms.amount /\ rp'.claimCount = 0
          BY <3>1 DEF NewDoc
        <4>. QED
          BY <4>1, <4>2 DEF CopiesCovered, SharesCovered
      <3>2. CASE UNCHANGED <<saved, rp>>
        BY <3>2 DEF CopiesCovered, SharesCovered
      <3>. QED
        BY <3>1, <3>2
    <2>5. MarkedOrLost'
      <3>1. refunds = 0 /\ wpc = "idle"
        BY DEF Started, RedisTypeOK, GatewayTypeOK, WorkerTypeOK
      <3>. QED
        BY <3>1 DEF MarkedOrLost
    <2>6. RedisTypeOK' /\ ClaimerTypeOK' /\ HandlerTypeOK' /\ WorkerTypeOK' /\
            GatewayTypeOK' /\ SharePending' /\ ClaimOnce'
      BY DEF RedisTypeOK, ClaimerTypeOK, HandlerTypeOK, WorkerTypeOK, GatewayTypeOK,
               SharePending, ClaimOnce
    <2>. QED
      BY <2>1, <2>2, <2>3, <2>4, <2>5, <2>6
  <1>4. CASE CreateUpdate
    <2>. USE <1>4 DEF CreateUpdate
    <2>1. SenderTypeOK' /\ HistoryTypeOK'
      BY DEF SenderTypeOK, HistoryTypeOK, Fault, Trouble, Update, NewDoc
    <2>2. TermsFit' /\ Started' /\ SharePending' /\ FreshIsOpen'
      BY DEF TermsFit, MongoTypeOK, Started, RedisTypeOK, GatewayTypeOK,
               WorkerTypeOK, HandlerTypeOK, ClaimerTypeOK, SharePending,
               FreshIsOpen, HasClaim, Fault, Trouble, Update, NewDoc
    <2>3. MongoTypeOK'
      <3>1. NewDoc(terms.amount) \in Doc
        BY NewDocType DEF MongoTypeOK, Terms
      <3>. QED
        BY <3>1, UpdateKeepsType DEF MongoTypeOK
    <2>4. CopiesCovered'
      <3>1. Covered(terms, terms.amount, 0)
        BY NewDocCovered DEF MongoTypeOK, TermsFit
      <3>2. SharesCovered'
        BY <3>1 DEF CopiesCovered, SharesCovered, Update, NewDoc
      <3>. QED
        BY <3>2 DEF CopiesCovered
    <2>5. MarkedOrLost'
      <3>1. NewDoc(terms.amount) \in Doc
        BY NewDocType DEF MongoTypeOK, Terms
      <3>. QED
        BY <3>1, UpdateLeavesTrace DEF MarkedOrLost
    <2>6. RedisTypeOK' /\ ClaimerTypeOK' /\ HandlerTypeOK' /\ WorkerTypeOK' /\
            GatewayTypeOK' /\ ClaimOnce'
      BY DEF RedisTypeOK, ClaimerTypeOK, HandlerTypeOK, WorkerTypeOK, GatewayTypeOK,
               ClaimOnce
    <2>. QED
      BY <2>1, <2>2, <2>3, <2>4, <2>5, <2>6
  <1>5. CASE CreateWait
    <2>. USE <1>5 DEF CreateWait
    <2>1. SenderTypeOK'
      BY DEF SenderTypeOK
    <2>2. TermsFit' /\ Started'
      BY DEF TermsFit, MongoTypeOK, Started, RedisTypeOK, GatewayTypeOK,
               WorkerTypeOK, HandlerTypeOK, ClaimerTypeOK
    <2>3. MongoTypeOK' /\ RedisTypeOK' /\ ClaimerTypeOK' /\ HandlerTypeOK' /\
            WorkerTypeOK' /\ GatewayTypeOK' /\ HistoryTypeOK' /\ CopiesCovered' /\
            SharePending' /\ FreshIsOpen' /\ ClaimOnce' /\ MarkedOrLost'
      BY DEF MongoTypeOK, RedisTypeOK, ClaimerTypeOK, HandlerTypeOK, WorkerTypeOK,
               GatewayTypeOK, HistoryTypeOK, CopiesCovered, SharePending,
               FreshIsOpen, ClaimOnce, MarkedOrLost, SharesCovered, HasClaim
    <2>. QED
      BY <2>1, <2>2, <2>3
  <1>6. CASE GatewaySettles
    <2>. USE <1>6 DEF GatewaySettles
    <2>1. GatewayTypeOK'
      BY DEF GatewayTypeOK, Terms
    <2>2. MongoTypeOK' /\ RedisTypeOK' /\ SenderTypeOK' /\ ClaimerTypeOK' /\
            HandlerTypeOK' /\ WorkerTypeOK' /\ HistoryTypeOK' /\ TermsFit' /\
            Started' /\ CopiesCovered' /\ SharePending' /\ FreshIsOpen' /\
            ClaimOnce' /\ MarkedOrLost'
      BY DEF MongoTypeOK, RedisTypeOK, SenderTypeOK, ClaimerTypeOK, HandlerTypeOK,
               WorkerTypeOK, HistoryTypeOK, TermsFit, Started, CopiesCovered,
               SharePending, FreshIsOpen, ClaimOnce, MarkedOrLost, SharesCovered,
               HasClaim
    <2>. QED
      BY <2>1, <2>2
  <1>. QED
    BY <1>1, <1>2, <1>3, <1>4, <1>5, <1>6 DEF CreatorStep

\* It is kept by every step of a callback.
LEMMA CallbackSteps ==
    ASSUME IInv,
           NEW h \in Handlers, HandlerStep(h) \/ CallbackError(h)
    PROVE  IInv'
  <1>. USE DEF IInv, TypeOK, mongo, redis, sender, claimer, handler, worker, gateway,
              history
  <1>1. CASE SendRead(h)
    <2>. USE <1>1 DEF SendRead
    <2>1. HistoryTypeOK'
      BY DEF HistoryTypeOK, Delivers, Trouble, SendSteps
    <2>2. Started' /\ CopiesCovered'
      BY DEF Started, RedisTypeOK, GatewayTypeOK, WorkerTypeOK, HandlerTypeOK,
               ClaimerTypeOK, CopiesCovered, SharesCovered, MongoTypeOK, Delivers,
               Trouble, SendSteps
    <2>3. HandlerTypeOK'
      <3>1. rp \in Doc
        BY DEF MongoTypeOK
      <3>. QED
        BY <3>1 DEF HandlerTypeOK, SendSteps
    <2>4. MongoTypeOK' /\ RedisTypeOK' /\ SenderTypeOK' /\ ClaimerTypeOK' /\
            WorkerTypeOK' /\ GatewayTypeOK' /\ TermsFit' /\ SharePending' /\
            FreshIsOpen' /\ ClaimOnce' /\ MarkedOrLost'
      BY DEF MongoTypeOK, RedisTypeOK, SenderTypeOK, ClaimerTypeOK, WorkerTypeOK,
               GatewayTypeOK, TermsFit, SharePending, FreshIsOpen, ClaimOnce,
               MarkedOrLost, HasClaim
    <2>. QED
      BY <2>1, <2>2, <2>3, <2>4
  <1>2. CASE SendUpdate(h)
    <2>. USE <1>2 DEF SendUpdate
    <2>1. Started'
      BY DEF Started, RedisTypeOK, GatewayTypeOK, WorkerTypeOK, HandlerTypeOK,
               ClaimerTypeOK, Update, SendSteps, Doc, PayStatus
    <2>2. CopiesCovered'
      BY DEF CopiesCovered, SharesCovered, HandlerTypeOK, ClaimerTypeOK,
               MongoTypeOK, Update, SendSteps, Doc, PayStatus
    <2>3. SharePending'
      BY DEF SharePending, ClaimerTypeOK, MongoTypeOK, Update, SendSteps, Doc,
               PayStatus
    <2>4. FreshIsOpen'
      BY DEF FreshIsOpen, HasClaim, Update, SendSteps, Doc, PayStatus
    <2>5. MongoTypeOK'
      <3>1. \A status \in PayStatus : [hcopy[h] EXCEPT !.payStatus = status] \in Doc
        BY DEF HandlerTypeOK, Doc
      <3>2. \E doc \in Doc : Update(doc, {"payStatus"})
        BY <3>1 DEF PayStatus
      <3>. QED
        BY <3>2, UpdateKeepsType
    <2>6. HandlerTypeOK'
      BY NoDocType DEF HandlerTypeOK, SendSteps
    <2>7. MarkedOrLost'
      <3>1. \A status \in PayStatus : [hcopy[h] EXCEPT !.payStatus = status] \in Doc
        BY DEF HandlerTypeOK, Doc
      <3>2. \E doc \in Doc : Update(doc, {"payStatus"})
        BY <3>1 DEF PayStatus
      <3>. QED
        BY <3>2, UpdateLeavesTrace
    <2>8. RedisTypeOK' /\ SenderTypeOK' /\ ClaimerTypeOK' /\ WorkerTypeOK' /\
            GatewayTypeOK' /\ HistoryTypeOK' /\ TermsFit' /\ ClaimOnce'
      BY DEF RedisTypeOK, SenderTypeOK, ClaimerTypeOK, WorkerTypeOK, GatewayTypeOK,
               HistoryTypeOK, TermsFit, ClaimOnce
    <2>. QED
      BY <2>1, <2>2, <2>3, <2>4, <2>5, <2>6, <2>7, <2>8
  <1>3. CASE SendSet(h)
    <2>. USE <1>3 DEF SendSet
    <2>1. HandlerTypeOK'
      BY DEF HandlerTypeOK, SendSteps, Terms
    <2>2. Started' /\ CopiesCovered'
      BY DEF Started, RedisTypeOK, GatewayTypeOK, WorkerTypeOK, HandlerTypeOK,
               ClaimerTypeOK, CopiesCovered, SharesCovered, MongoTypeOK, SendSteps,
               Terms
    <2>3. RedisTypeOK'
      <3>1. key' \in BOOLEAN
        OBVIOUS
      <3>2. count' \in Int /\ tasks' \in Nat
        BY DEF MongoTypeOK, RedisTypeOK, Terms
      <3>. QED
        BY <3>1, <3>2 DEF RedisTypeOK
    <2>4. MongoTypeOK' /\ SenderTypeOK' /\ ClaimerTypeOK' /\ WorkerTypeOK' /\
            GatewayTypeOK' /\ HistoryTypeOK' /\ TermsFit' /\ SharePending' /\
            FreshIsOpen' /\ ClaimOnce' /\ MarkedOrLost'
      BY DEF MongoTypeOK, SenderTypeOK, ClaimerTypeOK, WorkerTypeOK, GatewayTypeOK,
               HistoryTypeOK, TermsFit, SharePending, FreshIsOpen, ClaimOnce,
               MarkedOrLost, HasClaim
    <2>. QED
      BY <2>1, <2>2, <2>3, <2>4
  <1>4. CASE SendFinish(h)
    <2>. USE <1>4 DEF SendFinish
    <2>1. RedisTypeOK' /\ SenderTypeOK' /\ HandlerTypeOK' /\ GatewayTypeOK' /\
            HistoryTypeOK'
      BY DEF RedisTypeOK, SenderTypeOK, HandlerTypeOK, GatewayTypeOK, HistoryTypeOK,
               Fault, Trouble
    <2>2. Started' /\ CopiesCovered'
      BY DEF Started, RedisTypeOK, GatewayTypeOK, WorkerTypeOK, HandlerTypeOK,
               ClaimerTypeOK, CopiesCovered, SharesCovered, MongoTypeOK, Fault,
               Trouble
    <2>3. MongoTypeOK' /\ ClaimerTypeOK' /\ WorkerTypeOK' /\ TermsFit' /\
            SharePending' /\ FreshIsOpen' /\ ClaimOnce' /\ MarkedOrLost'
      BY DEF MongoTypeOK, ClaimerTypeOK, WorkerTypeOK, TermsFit, SharePending,
               FreshIsOpen, ClaimOnce, MarkedOrLost, HasClaim
    <2>. QED
      BY <2>1, <2>2, <2>3
  <1>5. CASE CallbackError(h)
    <2>. USE <1>5 DEF CallbackError
    <2>1. HistoryTypeOK'
      BY DEF HistoryTypeOK, Fault, Trouble
    <2>2. Started' /\ CopiesCovered'
      BY DEF Started, RedisTypeOK, GatewayTypeOK, WorkerTypeOK, HandlerTypeOK,
               ClaimerTypeOK, CopiesCovered, SharesCovered, MongoTypeOK, Fault,
               Trouble
    <2>3. HandlerTypeOK'
      BY NoDocType DEF HandlerTypeOK
    <2>4. MongoTypeOK' /\ RedisTypeOK' /\ SenderTypeOK' /\ ClaimerTypeOK' /\
            WorkerTypeOK' /\ GatewayTypeOK' /\ TermsFit' /\ SharePending' /\
            FreshIsOpen' /\ ClaimOnce' /\ MarkedOrLost'
      BY DEF MongoTypeOK, RedisTypeOK, SenderTypeOK, ClaimerTypeOK, WorkerTypeOK,
               GatewayTypeOK, TermsFit, SharePending, FreshIsOpen, ClaimOnce,
               MarkedOrLost, HasClaim
    <2>. QED
      BY <2>1, <2>2, <2>3, <2>4
  <1>6. CASE RefundRead(h)
    <2>. USE <1>6 DEF RefundRead
    <2>1. HistoryTypeOK'
      BY DEF HistoryTypeOK, Delivers, Trouble, RefundSteps
    <2>2. Started'
      BY DEF Started, RedisTypeOK, GatewayTypeOK, WorkerTypeOK, HandlerTypeOK,
               ClaimerTypeOK, Delivers, Trouble, RefundSteps
    <2>3. HandlerTypeOK'
      <3>1. rp \in Doc
        BY DEF MongoTypeOK
      <3>. QED
        BY <3>1 DEF HandlerTypeOK, RefundSteps
    <2>4. CopiesCovered'
      <3>1. Covered(terms, rp.balance, rp.claimCount)
        BY DEF CopiesCovered, SharesCovered, Started
      <3>. QED
        BY <3>1 DEF CopiesCovered, SharesCovered, HandlerTypeOK
    <2>5. MongoTypeOK' /\ RedisTypeOK' /\ SenderTypeOK' /\ ClaimerTypeOK' /\
            WorkerTypeOK' /\ GatewayTypeOK' /\ TermsFit' /\ SharePending' /\
            FreshIsOpen' /\ ClaimOnce' /\ MarkedOrLost'
      BY DEF MongoTypeOK, RedisTypeOK, SenderTypeOK, ClaimerTypeOK, WorkerTypeOK,
               GatewayTypeOK, TermsFit, SharePending, FreshIsOpen, ClaimOnce,
               MarkedOrLost, HasClaim
    <2>. QED
      BY <2>1, <2>2, <2>3, <2>4, <2>5
  <1>7. CASE RefundUpdate(h)
    <2>. USE <1>7 DEF RefundUpdate
    <2>1. GatewayTypeOK'
      BY DEF GatewayTypeOK, Update, Doc, PayStatus, RefundSteps
    <2>2. Started' /\ CopiesCovered' /\ SharePending' /\ FreshIsOpen'
      BY DEF Started, RedisTypeOK, GatewayTypeOK, WorkerTypeOK, HandlerTypeOK,
               ClaimerTypeOK, CopiesCovered, SharesCovered, MongoTypeOK,
               SharePending, FreshIsOpen, HasClaim, Update, Doc, PayStatus,
               RefundSteps
    <2>3. MongoTypeOK'
      <3>1. [hcopy[h] EXCEPT !.refundTx = TRUE] \in Doc
        BY DEF HandlerTypeOK, Doc
      <3>. QED
        BY <3>1, UpdateKeepsType
    <2>4. HandlerTypeOK'
      BY NoDocType DEF HandlerTypeOK
    <2>5. MarkedOrLost'
      <3>1. [hcopy[h] EXCEPT !.refundTx = TRUE] \in Doc
        BY DEF HandlerTypeOK, Doc
      <3>. QED
        BY <3>1, UpdateLeavesTrace
    <2>6. RedisTypeOK' /\ SenderTypeOK' /\ ClaimerTypeOK' /\ WorkerTypeOK' /\
            HistoryTypeOK' /\ TermsFit' /\ ClaimOnce'
      BY DEF RedisTypeOK, SenderTypeOK, ClaimerTypeOK, WorkerTypeOK, HistoryTypeOK,
               TermsFit, ClaimOnce
    <2>. QED
      BY <2>1, <2>2, <2>3, <2>4, <2>5, <2>6
  <1>. QED
    BY <1>1, <1>2, <1>3, <1>4, <1>5, <1>6, <1>7 DEF HandlerStep

\* It is kept by every step of ClaimRedpacket.
LEMMA ClaimSteps ==
    ASSUME IInv,
           NEW s \in Slots, ClaimGate(s) \/ ClaimStep(s) \/ ClaimError(s)
    PROVE  IInv'
  <1>. USE DEF IInv, TypeOK, mongo, redis, sender, claimer, handler, worker, gateway,
              history
  <1>1. CASE ClaimGate(s)
    <2>. USE <1>1 DEF ClaimGate
    <2>1. ClaimerTypeOK'
      BY DEF ClaimerTypeOK, Known
    <2>2. Started' /\ CopiesCovered' /\ SharePending'
      BY DEF Started, RedisTypeOK, GatewayTypeOK, WorkerTypeOK, HandlerTypeOK,
               ClaimerTypeOK, CopiesCovered, SharesCovered, MongoTypeOK,
               SharePending, Known
    <2>3. MongoTypeOK' /\ RedisTypeOK' /\ SenderTypeOK' /\ HandlerTypeOK' /\
            WorkerTypeOK' /\ GatewayTypeOK' /\ HistoryTypeOK' /\ TermsFit' /\
            FreshIsOpen' /\ ClaimOnce' /\ MarkedOrLost'
      BY DEF MongoTypeOK, RedisTypeOK, SenderTypeOK, HandlerTypeOK, WorkerTypeOK,
               GatewayTypeOK, HistoryTypeOK, TermsFit, FreshIsOpen, ClaimOnce,
               MarkedOrLost, HasClaim
    <2>. QED
      BY <2>1, <2>2, <2>3
  <1>2. CASE ClaimRead(s)
    <2>. USE <1>2 DEF ClaimRead
    <2>1. MongoTypeOK'
      BY DEF MongoTypeOK, Refused, Doc
    <2>2. Started' /\ SharePending' /\ FreshIsOpen'
      BY DEF Started, RedisTypeOK, GatewayTypeOK, WorkerTypeOK, HandlerTypeOK,
               ClaimerTypeOK, SharePending, MongoTypeOK, FreshIsOpen, HasClaim,
               Refused, Doc
    <2>3. ClaimerTypeOK'
      <3>1. [balance |-> rp.balance, claimCount |-> rp.claimCount]
                \in [balance : Nat, claimCount : Nat]
        BY DEF MongoTypeOK, Doc
      <3>. QED
        BY <3>1 DEF ClaimerTypeOK
    <2>4. CopiesCovered'
      <3>1. Covered(terms, rp.balance, rp.claimCount)
        BY DEF CopiesCovered, SharesCovered, Started
      <3>2. ~Refused(s) => rp.claimCount < terms.total
        BY <3>1 DEF Refused, Covered, MongoTypeOK, Doc, Terms
      <3>. QED
        BY <3>1, <3>2 DEF CopiesCovered, SharesCovered, ClaimerTypeOK
    <2>5. RedisTypeOK' /\ SenderTypeOK' /\ HandlerTypeOK' /\ WorkerTypeOK' /\
            GatewayTypeOK' /\ HistoryTypeOK' /\ TermsFit' /\ ClaimOnce' /\
            MarkedOrLost'
      BY DEF RedisTypeOK, SenderTypeOK, HandlerTypeOK, WorkerTypeOK, GatewayTypeOK,
               HistoryTypeOK, TermsFit, ClaimOnce, MarkedOrLost
    <2>. QED
      BY <2>1, <2>2, <2>3, <2>4, <2>5
  <1>3. CASE ClaimWrite(s)
    <2>. USE <1>3 DEF ClaimWrite
    <2>1. MongoTypeOK'
      BY DEF MongoTypeOK, WriteConflict, Abort, NoSnap, NoPend
    <2>2. Started'
      BY DEF Started, RedisTypeOK, GatewayTypeOK, WorkerTypeOK, HandlerTypeOK,
               ClaimerTypeOK, WriteConflict, Abort, NoSnap, NoPend
    <2>3. CopiesCovered'
      BY DEF CopiesCovered, SharesCovered, HandlerTypeOK, ClaimerTypeOK,
               MongoTypeOK, WriteConflict, Abort, NoSnap, NoPend
    <2>4. SharePending'
      BY DEF SharePending, ClaimerTypeOK, MongoTypeOK, WriteConflict, Abort, NoSnap,
               NoPend
    <2>5. FreshIsOpen'
      BY DEF FreshIsOpen, HasClaim, WriteConflict, Abort, NoSnap, NoPend
    <2>6. ClaimerTypeOK'
      <3>1. ASSUME NEW v \in Shares(terms, snap[s].balance, snap[s].claimCount)
            PROVE  [NoPend EXCEPT !.price = v] \in [id : Nat, price : Nat]
        <4>1. v \in Nat
          BY <3>1, ShareKeepsCovered DEF CopiesCovered, ClaimerTypeOK, MongoTypeOK
        <4>. QED
          BY <4>1 DEF NoPend
      <3>. QED
        BY <3>1 DEF ClaimerTypeOK, Abort, NoSnap, NoPend
    <2>7. RedisTypeOK' /\ SenderTypeOK' /\ HandlerTypeOK' /\ WorkerTypeOK' /\
            GatewayTypeOK' /\ HistoryTypeOK' /\ TermsFit' /\ ClaimOnce' /\
            MarkedOrLost'
      BY DEF RedisTypeOK, SenderTypeOK, HandlerTypeOK, WorkerTypeOK, GatewayTypeOK,
               HistoryTypeOK, TermsFit, ClaimOnce, MarkedOrLost
    <2>. QED
      BY <2>1, <2>2, <2>3, <2>4, <2>5, <2>6, <2>7
  <1>4. CASE ClaimPay(s)
    <2>. USE <1>4 DEF ClaimPay
    <2>1. MongoTypeOK' /\ HistoryTypeOK'
      BY DEF MongoTypeOK, HistoryTypeOK, OrderPayout, Abort, NoSnap, NoPend, Fault,
               Trouble, Payout
    <2>2. Started'
      BY DEF Started, RedisTypeOK, GatewayTypeOK, WorkerTypeOK, HandlerTypeOK,
               ClaimerTypeOK, OrderPayout, Abort, NoSnap, NoPend, Fault, Trouble,
               Payout
    <2>3. CopiesCovered'
      BY DEF CopiesCovered, SharesCovered, HandlerTypeOK, ClaimerTypeOK,
               MongoTypeOK, OrderPayout, Abort, NoSnap, NoPend, Fault, Trouble,
               Payout
    <2>4. SharePending'
      BY DEF SharePending, ClaimerTypeOK, MongoTypeOK, OrderPayout, Abort, NoSnap,
               NoPend, Fault, Trouble, Payout
    <2>5. FreshIsOpen'
      BY DEF FreshIsOpen, HasClaim, OrderPayout, Abort, NoSnap, NoPend, Fault,
               Trouble, Payout
    <2>6. ClaimerTypeOK'
      <3>1. [pend EXCEPT !.id = Len(payouts) + 1] \in [id : Nat, price : Nat]
        <4>1. Len(payouts) + 1 \in Nat
          BY DEF GatewayTypeOK
        <4>. QED
          BY <4>1 DEF ClaimerTypeOK
      <3>2. CASE Abort(s, "idle")
        BY <3>2 DEF ClaimerTypeOK, Abort, NoSnap, NoPend
      <3>3. CASE ~Abort(s, "idle")
        BY <3>1, <3>3 DEF ClaimerTypeOK
      <3>. QED
        BY <3>2, <3>3
    <2>7. GatewayTypeOK'
      <3>1. [user |-> Owner[s], amount |-> pend.price] \in Payout /\ pend.price \in Nat
        BY DEF ClaimerTypeOK, Payout
      <3>2. CASE OrderPayout(s)
        BY <3>1, <3>2 DEF GatewayTypeOK, OrderPayout
      <3>3. CASE UNCHANGED <<payouts, purse>>
        BY <3>3 DEF GatewayTypeOK
      <3>. QED
        BY <3>2, <3>3
    <2>8. RedisTypeOK' /\ SenderTypeOK' /\ HandlerTypeOK' /\ WorkerTypeOK' /\
            TermsFit' /\ ClaimOnce' /\ MarkedOrLost'
      BY DEF RedisTypeOK, SenderTypeOK, HandlerTypeOK, WorkerTypeOK, TermsFit,
               ClaimOnce, MarkedOrLost
    <2>. QED
      BY <2>1, <2>2, <2>3, <2>4, <2>5, <2>6, <2>7, <2>8
  <1>5. CASE ClaimError(s)
    <2>. USE <1>5 DEF ClaimError
    <2>1. MongoTypeOK' /\ ClaimerTypeOK' /\ HistoryTypeOK'
      BY DEF MongoTypeOK, ClaimerTypeOK, HistoryTypeOK, Abort, NoSnap, NoPend,
               Fault, Trouble
    <2>2. Started' /\ CopiesCovered' /\ SharePending' /\ FreshIsOpen'
      BY DEF Started, RedisTypeOK, GatewayTypeOK, WorkerTypeOK, HandlerTypeOK,
               ClaimerTypeOK, CopiesCovered, SharesCovered, MongoTypeOK,
               SharePending, FreshIsOpen, HasClaim, Abort, NoSnap, NoPend, Fault,
               Trouble
    <2>3. RedisTypeOK' /\ SenderTypeOK' /\ HandlerTypeOK' /\ WorkerTypeOK' /\
            GatewayTypeOK' /\ TermsFit' /\ ClaimOnce' /\ MarkedOrLost'
      BY DEF RedisTypeOK, SenderTypeOK, HandlerTypeOK, WorkerTypeOK, GatewayTypeOK,
               TermsFit, ClaimOnce, MarkedOrLost
    <2>. QED
      BY <2>1, <2>2, <2>3
  <1>6. CASE ClaimCommit(s)
    <2>. USE <1>6 DEF ClaimCommit
    <2>1. HistoryTypeOK'
      BY DEF HistoryTypeOK, Abort, NoSnap, NoPend, Fault, Trouble, Claim
    <2>2. Started' /\ SharePending' /\ FreshIsOpen'
      BY DEF Started, RedisTypeOK, GatewayTypeOK, WorkerTypeOK, HandlerTypeOK,
               ClaimerTypeOK, SharePending, MongoTypeOK, FreshIsOpen, HasClaim,
               Abort, NoSnap, NoPend, Fault, Trouble, Claim
    <2>3. MongoTypeOK'
      <3>1. /\ snap[s].balance - pend.price \in Nat
            /\ snap[s].claimCount + 1 \in Nat
        <4>1. pend.price \in Nat /\ pend.price <= snap[s].balance
          BY ShareKeepsCovered
             DEF CopiesCovered, SharePending, ClaimerTypeOK, MongoTypeOK
        <4>. QED
          BY <4>1 DEF ClaimerTypeOK
      <3>2. [rp EXCEPT !.balance = snap[s].balance - pend.price,
                       !.claimCount = snap[s].claimCount + 1] \in Doc
        BY <3>1 DEF MongoTypeOK, Doc
      <3>3. [id |-> pend.id, user |-> Owner[s], amount |-> pend.price] \in Claim
        BY DEF ClaimerTypeOK, Claim
      <3>. QED
        BY <3>2, <3>3 DEF MongoTypeOK, Abort
    <2>4. ClaimerTypeOK'
      <3>1. NoSnap \in [balance : Nat, claimCount : Nat] /\ NoPend \in [id : Nat, price : Nat]
        BY DEF NoSnap, NoPend
      <3>2. CASE Abort(s, "read")
        BY <3>1, <3>2 DEF ClaimerTypeOK, Abort
      <3>3. CASE cpc' = [cpc EXCEPT ![s] = "decr"]
        BY <3>1, <3>3 DEF ClaimerTypeOK, Abort
      <3>. QED
        BY <3>2, <3>3
    <2>5. CopiesCovered'
      <3>1. Covered(terms, snap[s].balance - pend.price, snap[s].claimCount + 1)
        BY ShareKeepsCovered
           DEF CopiesCovered, SharePending, ClaimerTypeOK, MongoTypeOK
      <3>2. SharesCovered'
        BY <3>1 DEF CopiesCovered, SharesCovered, MongoTypeOK, Doc
      <3>. QED
        BY <3>2 DEF CopiesCovered, ClaimerTypeOK, Abort
    <2>6. ClaimOnce'
      <3>1. ~HasClaim(Owner[s])
        BY DEF SharePending, FreshIsOpen
      <3>. QED
        BY <3>1 DEF ClaimOnce, HasClaim
    <2>7. MarkedOrLost'
      <3>1. rp'.isTimeout = rp.isTimeout
        BY DEF MongoTypeOK, Doc
      <3>. QED
        BY <3>1 DEF MarkedOrLost
    <2>8. RedisTypeOK' /\ SenderTypeOK' /\ HandlerTypeOK' /\ WorkerTypeOK' /\
            GatewayTypeOK' /\ TermsFit'
      BY DEF RedisTypeOK, SenderTypeOK, HandlerTypeOK, WorkerTypeOK, GatewayTypeOK,
               TermsFit
    <2>. QED
      BY <2>1, <2>2, <2>3, <2>4, <2>5, <2>6, <2>7, <2>8
  <1>7. CASE ClaimDecr(s)
    <2>. USE <1>7 DEF ClaimDecr
    <2>1. ClaimerTypeOK' /\ HistoryTypeOK'
      BY DEF ClaimerTypeOK, HistoryTypeOK, Fault, Trouble
    <2>2. Started' /\ CopiesCovered' /\ SharePending'
      BY DEF Started, RedisTypeOK, GatewayTypeOK, WorkerTypeOK, HandlerTypeOK,
               ClaimerTypeOK, CopiesCovered, SharesCovered, MongoTypeOK,
               SharePending, Fault, Trouble
    <2>3. RedisTypeOK'
      <3>1. key' \in BOOLEAN
        BY DEF RedisTypeOK
      <3>2. count' \in Int /\ tasks' \in Nat
        BY DEF RedisTypeOK
      <3>. QED
        BY <3>1, <3>2 DEF RedisTypeOK
    <2>4. MongoTypeOK' /\ SenderTypeOK' /\ HandlerTypeOK' /\ WorkerTypeOK' /\
            GatewayTypeOK' /\ TermsFit' /\ FreshIsOpen' /\ ClaimOnce' /\
            MarkedOrLost'
      BY DEF MongoTypeOK, SenderTypeOK, HandlerTypeOK, WorkerTypeOK, GatewayTypeOK,
               TermsFit, FreshIsOpen, ClaimOnce, MarkedOrLost, HasClaim
    <2>. QED
      BY <2>1, <2>2, <2>3, <2>4
  <1>. QED
    BY <1>1, <1>2, <1>3, <1>4, <1>5, <1>6, <1>7 DEF ClaimStep

\* It is kept by every step of HandleRedpacketDoneTask.
LEMMA TaskSteps ==
    ASSUME IInv,
           TaskStep
    PROVE  IInv'
  <1>. USE DEF IInv, TypeOK, mongo, redis, sender, claimer, handler, worker, gateway,
              history
  <1>1. CASE TaskStart
    <2>. USE <1>1 DEF TaskStart
    <2>1. WorkerTypeOK' /\ HistoryTypeOK'
      BY DEF WorkerTypeOK, HistoryTypeOK, Fault, Trouble
    <2>2. Started' /\ MarkedOrLost'
      BY DEF Started, RedisTypeOK, GatewayTypeOK, WorkerTypeOK, HandlerTypeOK,
               ClaimerTypeOK, MarkedOrLost, Fault, Trouble
    <2>3. RedisTypeOK'
      <3>1. key' \in BOOLEAN
        BY DEF RedisTypeOK
      <3>2. count' \in Int /\ tasks' \in Nat
        BY DEF RedisTypeOK
      <3>. QED
        BY <3>1, <3>2 DEF RedisTypeOK
    <2>4. MongoTypeOK' /\ SenderTypeOK' /\ ClaimerTypeOK' /\ HandlerTypeOK' /\
            GatewayTypeOK' /\ TermsFit' /\ CopiesCovered' /\ SharePending' /\
            FreshIsOpen' /\ ClaimOnce'
      BY DEF MongoTypeOK, SenderTypeOK, ClaimerTypeOK, HandlerTypeOK, GatewayTypeOK,
               TermsFit, CopiesCovered, SharePending, FreshIsOpen, ClaimOnce,
               SharesCovered, HasClaim
    <2>. QED
      BY <2>1, <2>2, <2>3, <2>4
  <1>2. CASE TaskMark
    <2>. USE <1>2 DEF TaskMark
    <2>1. MongoTypeOK'
      BY DEF MongoTypeOK, Fault, Trouble, TaskFails, Doc
    <2>2. RedisTypeOK'
      BY DEF RedisTypeOK, Fault, Trouble, TaskFails, Doc
    <2>3. WorkerTypeOK'
      BY DEF WorkerTypeOK, Fault, Trouble, TaskFails, Doc
    <2>4. HistoryTypeOK'
      BY DEF HistoryTypeOK, Fault, Trouble, TaskFails, Doc
    <2>5. Started'
      BY DEF Started, RedisTypeOK, GatewayTypeOK, WorkerTypeOK, HandlerTypeOK,
               ClaimerTypeOK, Fault, Trouble, TaskFails, Doc
    <2>6. CopiesCovered'
      BY DEF CopiesCovered, SharesCovered, HandlerTypeOK, ClaimerTypeOK,
               MongoTypeOK, Fault, Trouble, TaskFails, Doc
    <2>7. SharePending'
      BY DEF SharePending, ClaimerTypeOK, MongoTypeOK, Fault, Trouble, TaskFails,
               Doc
    <2>8. FreshIsOpen'
      BY DEF FreshIsOpen, HasClaim, Fault, Trouble, TaskFails, Doc
    <2>9. MarkedOrLost'
      <3>1. CASE rp' = [rp EXCEPT !.isTimeout = TRUE]
        <4>1. rp'.isTimeout
          BY <3>1 DEF MongoTypeOK, Doc
        <4>. QED
          BY <4>1 DEF MarkedOrLost
      <3>2. CASE TaskFails /\ rp' = rp
        BY <3>2 DEF MarkedOrLost, TaskFails
      <3>. QED
        BY <3>1, <3>2
    <2>10. SenderTypeOK' /\ ClaimerTypeOK' /\ HandlerTypeOK' /\ GatewayTypeOK' /\
             TermsFit' /\ ClaimOnce'
      BY DEF SenderTypeOK, ClaimerTypeOK, HandlerTypeOK, GatewayTypeOK, TermsFit,
               ClaimOnce
    <2>. QED
      BY <2>1, <2>2, <2>3, <2>4, <2>5, <2>6, <2>7, <2>8, <2>9, <2>10
  <1>3. CASE TaskRead
    <2>. USE <1>3 DEF TaskRead
    <2>1. Started' /\ MarkedOrLost'
      BY DEF Started, RedisTypeOK, GatewayTypeOK, WorkerTypeOK, HandlerTypeOK,
               ClaimerTypeOK, MarkedOrLost, RefundDue, TaskDone, Doc
    <2>2. RedisTypeOK'
      <3>1. key' \in BOOLEAN
        BY DEF RedisTypeOK
      <3>2. count' \in Int /\ tasks' \in Nat
        BY DEF RedisTypeOK, TaskDone, Started
      <3>. QED
        BY <3>1, <3>2 DEF RedisTypeOK
    <2>3. WorkerTypeOK'
      <3>1. rp.balance \in Nat
        BY DEF MongoTypeOK, Doc
      <3>. QED
        BY <3>1 DEF WorkerTypeOK, TaskDone
    <2>4. MongoTypeOK' /\ SenderTypeOK' /\ ClaimerTypeOK' /\ HandlerTypeOK' /\
            GatewayTypeOK' /\ HistoryTypeOK' /\ TermsFit' /\ CopiesCovered' /\
            SharePending' /\ FreshIsOpen' /\ ClaimOnce'
      BY DEF MongoTypeOK, SenderTypeOK, ClaimerTypeOK, HandlerTypeOK, GatewayTypeOK,
               HistoryTypeOK, TermsFit, CopiesCovered, SharePending, FreshIsOpen,
               ClaimOnce, SharesCovered, HasClaim
    <2>. QED
      BY <2>1, <2>2, <2>3, <2>4
  <1>4. CASE TaskPay
    <2>. USE <1>4 DEF TaskPay
    <2>1. RedisTypeOK' /\ WorkerTypeOK' /\ HistoryTypeOK'
      BY DEF RedisTypeOK, WorkerTypeOK, HistoryTypeOK, OrderRefund, TaskFails,
               Fault, Trouble
    <2>2. Started' /\ MarkedOrLost'
      BY DEF Started, RedisTypeOK, GatewayTypeOK, WorkerTypeOK, HandlerTypeOK,
               ClaimerTypeOK, MarkedOrLost, OrderRefund, TaskFails, Fault, Trouble
    <2>3. GatewayTypeOK'
      <3>1. wcopy \in Nat
        BY DEF WorkerTypeOK
      <3>. QED
        BY <3>1 DEF GatewayTypeOK, OrderRefund
    <2>4. MongoTypeOK' /\ SenderTypeOK' /\ ClaimerTypeOK' /\ HandlerTypeOK' /\
            TermsFit' /\ CopiesCovered' /\ SharePending' /\ FreshIsOpen' /\
            ClaimOnce'
      BY DEF MongoTypeOK, SenderTypeOK, ClaimerTypeOK, HandlerTypeOK, TermsFit,
               CopiesCovered, SharePending, FreshIsOpen, ClaimOnce, SharesCovered,
               HasClaim
    <2>. QED
      BY <2>1, <2>2, <2>3, <2>4
  <1>5. CASE TaskCommit
    <2>. USE <1>5 DEF TaskCommit
    <2>1. WorkerTypeOK' /\ HistoryTypeOK'
      BY DEF WorkerTypeOK, HistoryTypeOK, TaskDone, Fault, Trouble
    <2>2. Started' /\ MarkedOrLost'
      BY DEF Started, RedisTypeOK, GatewayTypeOK, WorkerTypeOK, HandlerTypeOK,
               ClaimerTypeOK, MarkedOrLost, TaskDone, Fault, Trouble
    <2>3. RedisTypeOK'
      <3>1. key' \in BOOLEAN
        BY DEF RedisTypeOK
      <3>2. count' \in Int /\ tasks' \in Nat
        BY DEF RedisTypeOK, TaskDone, Started
      <3>. QED
        BY <3>1, <3>2 DEF RedisTypeOK
    <2>4. MongoTypeOK' /\ SenderTypeOK' /\ ClaimerTypeOK' /\ HandlerTypeOK' /\
            GatewayTypeOK' /\ TermsFit' /\ CopiesCovered' /\ SharePending' /\
            FreshIsOpen' /\ ClaimOnce'
      BY DEF MongoTypeOK, SenderTypeOK, ClaimerTypeOK, HandlerTypeOK, GatewayTypeOK,
               TermsFit, CopiesCovered, SharePending, FreshIsOpen, ClaimOnce,
               SharesCovered, HasClaim
    <2>. QED
      BY <2>1, <2>2, <2>3, <2>4
  <1>. QED
    BY <1>1, <1>2, <1>3, <1>4, <1>5 DEF TaskStep

\* It is kept by a restart of the server.
LEMMA CrashStep ==
    ASSUME IInv, Crash
    PROVE  IInv'
  <1>. USE DEF IInv, TypeOK, Crash, redis, gateway
  <1>1. MongoTypeOK' /\ RedisTypeOK' /\ SenderTypeOK' /\ WorkerTypeOK' /\ GatewayTypeOK'
    BY DEF MongoTypeOK, RedisTypeOK, SenderTypeOK, WorkerTypeOK, GatewayTypeOK
  <1>2. ClaimerTypeOK' /\ HistoryTypeOK'
    BY DEF ClaimerTypeOK, HistoryTypeOK, NoSnap, NoPend
  <1>3. HandlerTypeOK'
    BY NoDocType DEF HandlerTypeOK
  <1>4. TermsFit' /\ Started'
    BY DEF TermsFit, Started
  <1>5. CopiesCovered' /\ SharePending'
    BY DEF CopiesCovered, SharesCovered, SharePending
  <1>6. FreshIsOpen' /\ ClaimOnce' /\ MarkedOrLost'
    BY DEF FreshIsOpen, ClaimOnce, MarkedOrLost
  <1>. QED
    BY <1>1, <1>2, <1>3, <1>4, <1>5, <1>6

LEMMA StutterStep ==
    ASSUME IInv, UNCHANGED vars
    PROVE  IInv'
  <1>. USE DEF IInv, TypeOK, vars, mongo, redis, sender, claimer, handler, worker,
              gateway, history
  <1>1. TypeOK'
    BY DEF MongoTypeOK, RedisTypeOK, SenderTypeOK, ClaimerTypeOK, HandlerTypeOK,
           WorkerTypeOK, GatewayTypeOK, HistoryTypeOK
  <1>2. TermsFit' /\ Started' /\ CopiesCovered' /\ SharePending'
    BY DEF TermsFit, Started, CopiesCovered, SharesCovered, SharePending
  <1>3. FreshIsOpen' /\ ClaimOnce' /\ MarkedOrLost'
    BY DEF FreshIsOpen, ClaimOnce, MarkedOrLost, HasClaim
  <1>. QED
    BY <1>1, <1>2, <1>3

\* The inductive invariant is inductive.
LEMMA NextIInv == IInv /\ [Next]_vars => IInv'
  <1>. SUFFICES ASSUME IInv, [Next]_vars PROVE IInv'
    OBVIOUS
  <1>. QED
    BY CreationSteps, CallbackSteps, ClaimSteps, TaskSteps, CrashStep, StutterStep
       DEF Next

THEOREM Invariant == Spec => []IInv
  BY InitIInv, NextIInv, PTL DEF Spec

-----------------------------------------------------------------------------
(* What follows from it. *)

\* The variables keep their types: no draw takes a balance below zero, however
\* claims, callbacks that are late or repeated, the task and restarts interleave.
THEOREM TypeCorrect == Spec => []TypeOK
  BY Invariant, PTL DEF IInv

\* The stored document, whichever copy was written last, can serve the shares it
\* still promises, and holds nothing when all are given away.
THEOREM BalanceServesShares == Spec => []SharesCovered
  <1>1. IInv => SharesCovered
    BY DEF IInv, CopiesCovered
  <1>. QED
    BY <1>1, Invariant, PTL

\* No user has two claims of a packet, though two requests of that user may pass
\* every check before either has written.
THEOREM OneClaimEach == Spec => []ClaimOnce
  BY Invariant, PTL DEF IInv

\* Only the commit of a claim adds one, and it was drawn from an open packet.
LEMMA ClaimsChange ==
    ASSUME Next, claims' # claims
    PROVE  \E s \in Slots : ClaimCommit(s) /\ lock' = NoSlot /\ cpc[s] = "commit"
  <1>. USE DEF mongo
  <1>1. \A type \in Types, amount \in Amounts, total \in 1 .. MaxCount :
            Create(type, amount, total) => claims' = claims
    BY DEF Create
  <1>2. CreatorStep \/ GatewaySettles \/ Crash => claims' = claims
    BY DEF CreatorStep, CreatePay, CreateCommit, CreateUpdate, CreateWait,
           GatewaySettles, Crash
  <1>3. \A h \in Handlers : HandlerStep(h) \/ CallbackError(h) => claims' = claims
    BY DEF HandlerStep, SendRead, SendUpdate, SendSet, SendFinish, RefundRead,
           RefundUpdate, CallbackError
  <1>4. TaskStep => claims' = claims
    BY DEF TaskStep, TaskStart, TaskMark, TaskRead, TaskPay, TaskCommit
  <1>5. ASSUME NEW s \in Slots, ClaimGate(s) \/ ClaimStep(s) \/ ClaimError(s)
        PROVE  ClaimCommit(s) /\ lock' = NoSlot /\ cpc[s] = "commit"
    BY <1>5 DEF ClaimGate, ClaimStep, ClaimRead, ClaimWrite, ClaimPay, ClaimCommit,
                ClaimDecr, ClaimError, Abort
  <1>. QED
    BY <1>1, <1>2, <1>3, <1>4, <1>5 DEF Next

\* Once a refund is ordered no claim is added, as long as no Update has put
\* is_timeout back to false.
THEOREM RefundCloses == Spec => ClosedByRefund
  <1>1. ASSUME IInv, Next, refunds > 0, "isTimeout" \notin lost
        PROVE  claims' = claims
    <2>1. SUFFICES ASSUME claims' # claims PROVE FALSE
      OBVIOUS
    <2>2. PICK s \in Slots : cpc[s] = "commit"
      BY <1>1, <2>1, ClaimsChange
    <2>3. s \in fresh
      BY <1>1, <2>2 DEF IInv, SharePending
    <2>4. ~rp.isTimeout
      BY <1>1, <2>3 DEF IInv, FreshIsOpen
    <2>5. rp.isTimeout
      BY <1>1 DEF IInv, MarkedOrLost
    <2>. QED
      BY <2>4, <2>5
  <1>2. IInv /\ [Next]_vars =>
            [refunds > 0 /\ "isTimeout" \notin lost =>
                Cardinality(claims') = Cardinality(claims)]_vars
    BY <1>1
  <1>. QED
    BY <1>2, Invariant, PTL DEF Spec, ClosedByRefund

-----------------------------------------------------------------------------
(* Books: the claims account for what left the balance.                     *)

\* One more claim adds the units of its amount.
LEMMA UnitsOfOneMore ==
    ASSUME NEW cs, IsFiniteSet(Units(cs)), NEW d, d \notin cs, d.amount \in Nat
    PROVE  /\ IsFiniteSet(Units(cs \cup {d}))
           /\ Cardinality(Units(cs \cup {d})) = Cardinality(Units(cs)) + d.amount
  <1>. DEFINE more == {d} \X (1 .. d.amount)
  <1>1. IsFiniteSet(more) /\ Cardinality(more) = d.amount
    <2>1. IsFiniteSet({d}) /\ Cardinality({d}) = 1
      BY FS_Singleton
    <2>2. IsFiniteSet(1 .. d.amount) /\ Cardinality(1 .. d.amount) = d.amount
      BY FS_Interval
    <2>3. IsFiniteSet(more) /\ Cardinality(more) = Cardinality({d}) * Cardinality(1 .. d.amount)
      BY <2>1, <2>2, FS_Product
    <2>. HIDE DEF more
    <2>. QED
      BY <2>1, <2>2, <2>3
  <1>2. Units(cs \cup {d}) = Units(cs) \cup more
    BY DEF Units
  <1>3. Units(cs) \cap more = {}
    BY DEF Units
  <1>. HIDE DEF more
  <1>4. Cardinality(Units(cs) \cap more) = 0
    BY <1>3, FS_EmptySet
  <1>5. Cardinality(Units(cs)) \in Nat
    BY FS_CardinalityType
  <1>6. /\ IsFiniteSet(Units(cs) \cup more)
        /\ Cardinality(Units(cs) \cup more) =
              Cardinality(Units(cs)) + Cardinality(more) - Cardinality(Units(cs) \cap more)
    BY <1>1, FS_Union
  <1>7. Cardinality(Units(cs) \cup more) = Cardinality(Units(cs)) + d.amount
    BY <1>1, <1>4, <1>5, <1>6
  <1>. QED
    BY <1>2, <1>6, <1>7

LEMMA NoUnits == IsFiniteSet({}) /\ IsFiniteSet(Units({})) /\ Cardinality(Units({})) = 0
  <1>1. Units({}) = {}
    BY DEF Units
  <1>. QED
    BY <1>1, FS_EmptySet

\* An Update changes a balance or a claim count only at the price of BalanceKept.
LEMMA UpdateKeepsBooks ==
    ASSUME Books, NEW doc \in Doc, NEW own, Update(doc, own),
           own \cap {"balance", "claimCount"} = {},
           UNCHANGED <<terms, saved, claims>>
    PROVE  Books'
  <1>. SUFFICES ASSUME BalanceKept' PROVE /\ BalanceKept
                                          /\ rp'.balance = rp.balance
                                          /\ rp'.claimCount = rp.claimCount
    BY DEF Books
  <1>1. BalanceKept
    BY DEF BalanceKept, Update
  <1>2. {"balance", "claimCount"} \subseteq DOMAIN doc \ own
    BY DEF Doc
  <1>3. doc["balance"] = rp["balance"] /\ doc["claimCount"] = rp["claimCount"]
    BY <1>2 DEF BalanceKept, Update
  <1>. QED
    BY <1>1, <1>3 DEF Update

LEMMA InitBooksInv == Init => BooksInv
  BY NoUnits DEF Init, BooksInv, SnapsCurrent, Books

\* Most steps change nothing that Books is about.
LEMMA BooksFrame ==
    ASSUME BooksInv, UNCHANGED <<terms, saved, rp, claims, lost, cpc, snap, fresh>>
    PROVE  BooksInv'
  BY DEF BooksInv, SnapsCurrent, Books, BalanceKept

\* The steps of a claim up to its commit change no book.
LEMMA BooksSnapFrame ==
    ASSUME BooksInv, UNCHANGED <<terms, saved, rp, claims, lost>>, SnapsCurrent'
    PROVE  BooksInv'
  BY DEF BooksInv, Books, BalanceKept

LEMMA CreationBooks ==
    ASSUME IInv, BooksInv,
           \/ \E type \in Types, amount \in Amounts, total \in 1 .. MaxCount :
              Create(type, amount, total)
           \/ CreatorStep \/ GatewaySettles
    PROVE  BooksInv'
  <1>. USE DEF IInv, mongo, claimer
  <1>1. ASSUME NEW type \in Types, NEW amount \in Amounts, NEW total \in 1 .. MaxCount,
               Create(type, amount, total)
        PROVE  BooksInv'
    <2>1. ~saved'
      BY <1>1 DEF Create, Started
    <2>. QED
      BY <1>1, <2>1 DEF Create, BooksInv, SnapsCurrent, Books
  <1>2. CASE CreateCommit
    <2>1. ~saved /\ \A s \in Slots : cpc[s] = "idle"
      BY <1>2 DEF CreateCommit, Started
    <2>2. claims = {}
      BY <2>1 DEF BooksInv
    <2>3. fresh = {}
      BY <2>1 DEF BooksInv, SnapsCurrent, TypeOK, MongoTypeOK
    <2>4. SnapsCurrent'
      BY <1>2, <2>3 DEF CreateCommit, SnapsCurrent
    <2>5. CASE rp' = NewDoc(terms.amount)
      <3>1. rp'.claimCount = 0 /\ rp'.balance = terms.amount
        BY <2>5 DEF NewDoc
      <3>2. terms.amount \in Nat
        BY DEF TypeOK, MongoTypeOK, Terms
      <3>3. Cardinality(claims) = 0 /\ Cardinality(Units(claims)) = 0
        BY <2>2, NoUnits, FS_EmptySet
      <3>4. Books'
        BY <1>2, <3>1, <3>2, <3>3 DEF CreateCommit, Books
      <3>. QED
        BY <1>2, <2>2, <2>4, <3>4 DEF CreateCommit, BooksInv
    <2>6. CASE UNCHANGED <<saved, rp>>
      BY <1>2, <2>4, <2>6, BooksSnapFrame DEF CreateCommit
    <2>. QED
      BY <1>2, <2>5, <2>6 DEF CreateCommit
  <1>3. CASE CreateUpdate
    <2>1. CASE Update(NewDoc(terms.amount), {})
      <3>1. NewDoc(terms.amount) \in Doc
        BY NewDocType DEF TypeOK, MongoTypeOK, Terms
      <3>2. Books'
        BY <1>3, <2>1, <3>1, UpdateKeepsBooks DEF CreateUpdate, BooksInv
      <3>. QED
        BY <1>3, <2>1, <3>2 DEF CreateUpdate, BooksInv, Update, SnapsCurrent
    <2>2. CASE UNCHANGED <<rp, fresh, lost>>
      BY <1>3, <2>2, BooksFrame DEF CreateUpdate
    <2>. QED
      BY <1>3, <2>1, <2>2 DEF CreateUpdate
  <1>4. CASE CreatePay \/ CreateWait \/ GatewaySettles
    BY <1>4, BooksFrame DEF CreatePay, CreateWait, GatewaySettles
  <1>. QED
    BY <1>1, <1>2, <1>3, <1>4 DEF CreatorStep

LEMMA CallbackBooks ==
    ASSUME IInv, BooksInv, NEW h \in Handlers, HandlerStep(h) \/ CallbackError(h)
    PROVE  BooksInv'
  <1>. USE DEF mongo, claimer
  <1>1. ASSUME NEW doc \in Doc, NEW own, Update(doc, own),
               own \cap {"balance", "claimCount"} = {},
               UNCHANGED <<terms, saved, claims>>
        PROVE  BooksInv'
    <2>1. Books'
      BY <1>1, UpdateKeepsBooks DEF BooksInv
    <2>. QED
      BY <1>1, <2>1 DEF BooksInv, Update, SnapsCurrent
  <1>2. hcopy[h] \in Doc
    BY DEF IInv, TypeOK, HandlerTypeOK
  <1>3. CASE SendUpdate(h)
    <2>1. \A status \in PayStatus : [hcopy[h] EXCEPT !.payStatus = status] \in Doc
      BY <1>2 DEF Doc
    <2>2. \E doc \in Doc : Update(doc, {"payStatus"})
      BY <1>3, <2>1 DEF SendUpdate, PayStatus
    <2>. QED
      BY <1>1, <1>3, <2>2 DEF SendUpdate
  <1>4. CASE RefundUpdate(h)
    <2>1. [hcopy[h] EXCEPT !.refundTx = TRUE] \in Doc
      BY <1>2 DEF Doc
    <2>. QED
      BY <1>1, <1>4, <2>1 DEF RefundUpdate
  <1>5. CASE \/ SendRead(h) \/ SendSet(h) \/ SendFinish(h) \/ RefundRead(h)
             \/ CallbackError(h)
    BY <1>5, BooksFrame DEF SendRead, SendSet, SendFinish, RefundRead, CallbackError
  <1>. QED
    BY <1>3, <1>4, <1>5 DEF HandlerStep

LEMMA ClaimBooks ==
    ASSUME IInv, BooksInv, NEW s \in Slots,
           ClaimGate(s) \/ ClaimStep(s) \/ ClaimError(s)
    PROVE  BooksInv'
  <1>. USE DEF mongo
  <1>0. /\ cpc \in [Slots -> {"idle", "read", "write", "pay", "commit", "decr"}]
        /\ snap \in [Slots -> [balance : Nat, claimCount : Nat]]
        /\ fresh \subseteq Slots
        /\ rp \in Doc
        /\ SnapsCurrent
    BY DEF IInv, TypeOK, ClaimerTypeOK, MongoTypeOK, BooksInv
  <1>1. CASE ClaimGate(s) \/ ClaimDecr(s) \/ ClaimError(s)
    <2>1. SnapsCurrent'
      BY <1>0, <1>1 DEF ClaimGate, ClaimDecr, ClaimError, Abort, SnapsCurrent
    <2>. QED
      BY <1>1, <2>1, BooksSnapFrame DEF ClaimGate, ClaimDecr, ClaimError
  <1>2. CASE ClaimRead(s)
    <2>1. SnapsCurrent'
      BY <1>0, <1>2 DEF ClaimRead, SnapsCurrent
    <2>. QED
      BY <1>2, <2>1, BooksSnapFrame DEF ClaimRead
  <1>3. CASE ClaimWrite(s) \/ ClaimPay(s)
    <2>1. SnapsCurrent'
      BY <1>0, <1>3 DEF ClaimWrite, ClaimPay, Abort, SnapsCurrent
    <2>. QED
      BY <1>3, <2>1, BooksSnapFrame DEF ClaimWrite, ClaimPay
  <1>4. CASE ClaimCommit(s) /\ UNCHANGED <<rp, claims>>
    <2>1. SnapsCurrent'
      BY <1>0, <1>4 DEF ClaimCommit, Abort, SnapsCurrent
    <2>. QED
      BY <1>4, <2>1, BooksSnapFrame DEF ClaimCommit
  <1>5. CASE ClaimCommit(s) /\ ~UNCHANGED <<rp, claims>>
    <2>. DEFINE new == [id |-> pend.id, user |-> Owner[s], amount |-> pend.price]
    <2>1. /\ rp' = [rp EXCEPT !.balance = snap[s].balance - pend.price,
                              !.claimCount = snap[s].claimCount + 1]
          /\ claims' = claims \cup {new}
          /\ fresh' = {}
      BY <1>5 DEF ClaimCommit
    <2>2. s \in fresh
      BY <1>5 DEF ClaimCommit, IInv, SharePending
    <2>3. snap[s].balance = rp.balance /\ snap[s].claimCount = rp.claimCount
      BY <1>0, <2>2 DEF SnapsCurrent
    <2>4. rp'.balance = rp.balance - pend.price /\ rp'.claimCount = rp.claimCount + 1
      BY <1>0, <2>1, <2>3 DEF Doc
    <2>5. new \notin claims
      BY <2>2 DEF IInv, FreshIsOpen, HasClaim
    <2>6. new.amount \in Nat
      BY DEF IInv, TypeOK, ClaimerTypeOK
    <2>7. /\ IsFiniteSet(claims') /\ IsFiniteSet(Units(claims)')
          /\ Cardinality(claims') = Cardinality(claims) + 1
          /\ Cardinality(Units(claims)') = Cardinality(Units(claims)) + pend.price
      <3>1. IsFiniteSet(claims) /\ IsFiniteSet(Units(claims))
        BY DEF BooksInv
      <3>2. Units(claims)' = Units(claims \cup {new})
        BY <2>1 DEF Units
      <3>3. new.amount = pend.price
        OBVIOUS
      <3>4. /\ IsFiniteSet(Units(claims \cup {new}))
            /\ Cardinality(Units(claims \cup {new})) = Cardinality(Units(claims)) + new.amount
        <4>. HIDE DEF new
        <4>. QED
          BY <3>1, <2>5, <2>6, UnitsOfOneMore
      <3>. QED
        BY <2>1, <2>5, <3>1, <3>2, <3>3, <3>4, FS_AddElement
    <2>8. saved /\ saved'
      BY <1>5 DEF ClaimCommit, IInv, Started
    <2>9. Books'
      <3>1. /\ rp.balance \in Nat /\ pend.price \in Nat
            /\ Cardinality(claims) \in Nat /\ Cardinality(Units(claims)) \in Nat
            /\ terms.amount \in Nat
        BY <1>0, FS_CardinalityType
           DEF Doc, BooksInv, IInv, TypeOK, ClaimerTypeOK, MongoTypeOK, Terms
      <3>2. BalanceKept' => BalanceKept
        BY <1>5 DEF ClaimCommit, BalanceKept
      <3>3. terms' = terms
        BY <1>5 DEF ClaimCommit
      <3>4. BalanceKept => /\ rp.claimCount = Cardinality(claims)
                           /\ rp.balance + Cardinality(Units(claims)) = terms.amount
        BY <2>8 DEF BooksInv, Books
      <3>. HIDE DEF new
      <3>. QED
        BY <2>4, <2>7, <3>1, <3>2, <3>3, <3>4 DEF Books
    <2>. QED
      BY <2>1, <2>7, <2>8, <2>9 DEF BooksInv, SnapsCurrent
  <1>. QED
    BY <1>1, <1>2, <1>3, <1>4, <1>5 DEF ClaimStep

LEMMA TaskBooks ==
    ASSUME IInv, BooksInv, TaskStep
    PROVE  BooksInv'
  <1>. USE DEF mongo, claimer
  <1>1. CASE TaskMark
    <2>1. CASE UNCHANGED <<rp, fresh>>
      BY <1>1, <2>1, BooksFrame DEF TaskMark
    <2>2. CASE rp' = [rp EXCEPT !.isTimeout = TRUE] /\ fresh' = {}
      <3>1. rp'.balance = rp.balance /\ rp'.claimCount = rp.claimCount
        BY <2>2 DEF IInv, TypeOK, MongoTypeOK, Doc
      <3>. QED
        BY <1>1, <2>2, <3>1 DEF TaskMark, BooksInv, Books, BalanceKept, SnapsCurrent
    <2>. QED
      BY <1>1, <2>1, <2>2 DEF TaskMark
  <1>2. CASE TaskStart \/ TaskRead \/ TaskPay \/ TaskCommit
    BY <1>2, BooksFrame DEF TaskStart, TaskRead, TaskPay, TaskCommit
  <1>. QED
    BY <1>1, <1>2 DEF TaskStep

LEMMA CrashBooks ==
    ASSUME BooksInv, Crash
    PROVE  BooksInv'
  BY BooksSnapFrame DEF Crash, SnapsCurrent

LEMMA NextBooksInv == IInv /\ BooksInv /\ [Next]_vars => BooksInv'
  <1>1. BooksInv /\ UNCHANGED vars => BooksInv'
    BY BooksFrame DEF vars, mongo, claimer
  <1>. QED
    BY <1>1, CreationBooks, CallbackBooks, ClaimBooks, TaskBooks, CrashBooks DEF Next

\* As long as no Update has brought an old balance or claim count back, the
\* recorded claims are as many as the document counts, and what they were given
\* is what left the balance: no unit is made or lost between the two documents.
THEOREM BooksBalance == Spec => []Books
  <1>1. Spec => []BooksInv
    BY Invariant, InitBooksInv, NextBooksInv, PTL DEF Spec
  <1>. QED
    BY <1>1, PTL DEF BooksInv

-----------------------------------------------------------------------------
(* ClaimsPaid: claims and payment orders match.                              *)

LEMMA AtMostOne ==
    ASSUME NEW S, \A s, t \in S : s = t
    PROVE  Cardinality(S) = IF S = {} THEN 0 ELSE 1
  <1>1. CASE S = {}
    BY <1>1, FS_EmptySet
  <1>2. ASSUME NEW s \in S PROVE Cardinality(S) = 1
    <2>1. S = {s}
      OBVIOUS
    <2>2. Cardinality({s}) = 1
      BY FS_Singleton
    <2>. QED
      BY <2>1, <2>2
  <1>. QED
    BY <1>1, <1>2

\* Only the transaction that holds the document waits for a commit.
LEMMA WaitingHolds ==
    ASSUME IInv
    PROVE  /\ \A s \in Waiting : lock = s
           /\ Cardinality(Waiting) = IF Waiting = {} THEN 0 ELSE 1
  <1>1. \A s \in Waiting : lock = s
    BY DEF IInv, SharePending, Waiting
  <1>. QED
    BY <1>1, AtMostOne

LEMMA WaitingHoldsNext ==
    ASSUME IInv'
    PROVE  Cardinality(Waiting') = IF Waiting' = {} THEN 0 ELSE 1
  <1>1. \A s \in Waiting' : lock' = s
    BY DEF IInv, SharePending, Waiting
  <1>. QED
    BY <1>1, AtMostOne

LEMMA InitOrdersInv == Init => OrdersInv
  <1>. SUFFICES ASSUME Init PROVE OrdersInv
    OBVIOUS
  <1>1. Waiting = {} /\ claims = {} /\ Len(payouts) = 0
    BY DEF Init, Waiting
  <1>2. Cardinality(Waiting) = 0 /\ Cardinality(claims) = 0
    BY <1>1, FS_EmptySet
  <1>. QED
    BY <1>1, <1>2 DEF Init, OrdersInv, ClaimsPaid, OrderPending

\* A step that orders nothing, commits nothing and gives nothing up keeps the
\* books of the orders.
LEMMA OrdersFrame ==
    ASSUME IInv, OrdersInv, UNCHANGED <<payouts, claims, pend, Waiting>>,
           IsFiniteSet(claims),
           faults' \in {faults, faults + 1}, crashes' = crashes
    PROVE  OrdersInv'
  <1>1. /\ Cardinality(claims) \in Nat /\ Cardinality(Waiting) \in Nat
        /\ faults \in Nat /\ crashes \in Nat /\ Len(payouts) \in Nat
    BY FS_CardinalityType, WaitingHolds DEF IInv, TypeOK, HistoryTypeOK, GatewayTypeOK
  <1>2. Len(payouts') <= Cardinality(claims') + Cardinality(Waiting') + faults' + crashes'
    BY <1>1 DEF OrdersInv, ClaimsPaid
  <1>3. ClaimsPaid'
    BY <1>2 DEF OrdersInv, ClaimsPaid
  <1>4. OrderPending'
    BY DEF OrdersInv, OrderPending
  <1>. QED
    BY <1>3, <1>4 DEF OrdersInv

\* The steps of everyone but the claiming requests.
LEMMA OtherOrders ==
    ASSUME IInv, OrdersInv, IsFiniteSet(claims),
           \/ \E type \in Types, amount \in Amounts, total \in 1 .. MaxCount :
              Create(type, amount, total)
           \/ CreatorStep \/ GatewaySettles
           \/ \E h \in Handlers : HandlerStep(h) \/ CallbackError(h)
           \/ TaskStep
    PROVE  OrdersInv'
  <1>. USE DEF mongo, claimer, gateway, history, Fault
  <1>1. ASSUME NEW type \in Types, NEW amount \in Amounts, NEW total \in 1 .. MaxCount,
               Create(type, amount, total)
        PROVE  OrdersInv'
    BY <1>1, OrdersFrame DEF Create, Waiting
  <1>2. CASE CreatorStep \/ GatewaySettles
    BY <1>2, OrdersFrame DEF CreatorStep, CreatePay, CreateCommit, CreateUpdate, CreateWait,
                             GatewaySettles, Waiting
  <1>3. ASSUME NEW h \in Handlers, HandlerStep(h) \/ CallbackError(h)
        PROVE  OrdersInv'
    <2>1. /\ UNCHANGED <<payouts, claims, pend, cpc, crashes>>
          /\ faults' \in {faults, faults + 1}
      BY <1>3 DEF HandlerStep, SendRead, SendUpdate, SendSet, SendFinish, RefundRead,
                  RefundUpdate, CallbackError
    <2>. QED
      BY <2>1, OrdersFrame DEF Waiting
  <1>4. CASE TaskStep
    <2>1. /\ UNCHANGED <<payouts, claims, pend, cpc, crashes>>
          /\ faults' \in {faults, faults + 1}
      BY <1>4 DEF TaskStep, TaskStart, TaskMark, TaskRead, TaskPay, TaskCommit
    <2>. QED
      BY <2>1, OrdersFrame DEF Waiting
  <1>. QED
    BY <1>1, <1>2, <1>3, <1>4

LEMMA ClaimOrders ==
    ASSUME IInv, IInv', OrdersInv, IsFiniteSet(claims), NEW s \in Slots,
           ClaimGate(s) \/ ClaimStep(s) \/ ClaimError(s)
    PROVE  OrdersInv'
  <1>. USE DEF mongo, gateway, history
  <1>0. /\ cpc \in [Slots -> {"idle", "read", "write", "pay", "commit", "decr"}]
        /\ payouts \in Seq(Payout) /\ Len(payouts) \in Nat
        /\ faults \in Nat /\ crashes \in Nat
        /\ Cardinality(claims) \in Nat
    BY FS_CardinalityType
       DEF IInv, TypeOK, ClaimerTypeOK, GatewayTypeOK, HistoryTypeOK
  <1>1. CASE ClaimGate(s) \/ ClaimDecr(s) \/ ClaimRead(s)
    <2>1. Waiting' = Waiting
      BY <1>0, <1>1 DEF ClaimGate, ClaimDecr, ClaimRead, Waiting
    <2>. QED
      BY <1>1, <2>1, OrdersFrame DEF ClaimGate, ClaimDecr, ClaimRead, Fault
  <1>2. CASE (ClaimWrite(s) \/ ClaimError(s)) /\ cpc'[s] # "pay"
    <2>1. lock # s
      BY <1>2 DEF ClaimWrite, ClaimError, IInv, SharePending
    <2>2. Waiting' = Waiting
      BY <1>0, <1>2 DEF ClaimWrite, ClaimError, Abort, Waiting
    <2>3. pend' = pend
      BY <1>0, <1>2, <2>1 DEF ClaimWrite, ClaimError, Abort
    <2>. QED
      BY <1>2, <2>2, <2>3, OrdersFrame DEF ClaimWrite, ClaimError, Fault
  <1>3. CASE (ClaimWrite(s) \/ ClaimError(s)) /\ cpc'[s] = "pay"
    <2>1. lock = NoSlot /\ cpc' = [cpc EXCEPT ![s] = "pay"] /\ cpc[s] = "write"
      BY <1>0, <1>3 DEF ClaimWrite, ClaimError, Abort, WriteConflict
    <2>2. Waiting = {}
      BY <2>1, WaitingHolds DEF Waiting
    <2>3. Waiting' = {}
      BY <1>0, <2>1, <2>2 DEF Waiting
    <2>4. UNCHANGED <<payouts, claims, faults, crashes>>
      BY <1>0, <1>3, <2>1 DEF ClaimWrite, ClaimError, Abort
    <2>5. ClaimsPaid'
      BY <2>2, <2>3, <2>4 DEF OrdersInv, ClaimsPaid
    <2>. QED
      BY <2>3, <2>5 DEF OrdersInv, OrderPending
  <1>4. CASE ClaimPay(s)
    <2>. DEFINE order == [user |-> Owner[s], amount |-> pend.price]
    <2>0. order \in Payout
      BY DEF IInv, TypeOK, ClaimerTypeOK, Payout
    <2>1. Waiting = {}
      <3>1. lock = s
        BY <1>4 DEF ClaimPay, IInv, SharePending
      <3>. QED
        BY <1>4, <3>1, WaitingHolds DEF ClaimPay, Waiting
    <2>2. Cardinality(Waiting) = 0
      BY <2>1, FS_EmptySet
    <2>3. \/ payouts' = Append(payouts, order)
          \/ payouts' = payouts
      BY <1>4 DEF ClaimPay, OrderPayout
    <2>4. /\ Len(payouts) <= Len(payouts') /\ Len(payouts') <= Len(payouts) + 1
          /\ \A i \in 1 .. Len(payouts) : payouts'[i] = payouts[i]
      <3>. HIDE DEF order
      <3>. QED
        BY <1>0, <2>0, <2>3
    <2>5. claims' = claims
      BY <1>4 DEF ClaimPay
    <2>6. /\ \A c \in claims' :
                /\ c.id \in 1 .. Len(payouts')
                /\ payouts'[c.id] = [user |-> c.user, amount |-> c.amount]
          /\ \A c, d \in claims' : c.id = d.id => c = d
      <3>1. Len(payouts') \in Nat
        BY <1>0, <2>0, <2>3
      <3>. QED
        BY <1>0, <2>4, <2>5, <3>1 DEF OrdersInv, ClaimsPaid
    <2>7. CASE /\ OrderPayout(s)
               /\ pend' = [pend EXCEPT !.id = Len(payouts) + 1]
               /\ cpc' = [cpc EXCEPT ![s] = "commit"]
               /\ faults' = faults /\ crashes' = crashes
      <3>1. Waiting' = {s}
        BY <1>0, <2>1, <2>7 DEF Waiting
      <3>2. Cardinality(Waiting') = 1
        BY <3>1, FS_Singleton
      <3>3. ClaimsPaid'
        BY <1>0, <2>2, <2>4, <2>5, <2>6, <2>7, <3>2 DEF OrdersInv, ClaimsPaid
      <3>4. /\ payouts' = Append(payouts, order)
            /\ pend'.id = Len(payouts) + 1 /\ pend'.price = pend.price
        BY <2>7 DEF OrderPayout, IInv, TypeOK, ClaimerTypeOK
      <3>5. /\ Len(payouts') = Len(payouts) + 1
            /\ payouts'[Len(payouts) + 1] = order
        <4>. HIDE DEF order
        <4>. QED
          BY <1>0, <2>0, <3>4
      <3>6. \A c \in claims : c.id # Len(payouts) + 1
        <4>1. \A c \in claims : c.id \in 1 .. Len(payouts)
          BY DEF OrdersInv, ClaimsPaid
        <4>. QED
          BY <1>0, <4>1
      <3>7. OrderPending'
        BY <1>0, <2>5, <3>1, <3>4, <3>5, <3>6 DEF OrderPending
      <3>. QED
        BY <3>3, <3>7 DEF OrdersInv
    <2>8. CASE /\ cpc' = [cpc EXCEPT ![s] = "idle"]
               /\ faults' = faults + 1 /\ crashes' = crashes
      <3>1. Waiting' = {}
        BY <1>0, <2>1, <2>8 DEF Waiting
      <3>2. Cardinality(Waiting') = 0
        BY <3>1, FS_EmptySet
      <3>3. ClaimsPaid'
        BY <1>0, <2>2, <2>4, <2>5, <2>6, <2>8, <3>2 DEF OrdersInv, ClaimsPaid
      <3>. QED
        BY <3>1, <3>3 DEF OrdersInv, OrderPending
    <2>. QED
      BY <1>4, <2>7, <2>8 DEF ClaimPay, Abort, Fault
  <1>5. CASE ClaimCommit(s)
    <2>. DEFINE new == [id |-> pend.id, user |-> Owner[s], amount |-> pend.price]
    <2>1. cpc[s] = "commit" /\ lock = s
      BY <1>5 DEF ClaimCommit, IInv, SharePending
    <2>2. Waiting = {s}
      BY <2>1, WaitingHolds DEF Waiting
    <2>3. Cardinality(Waiting) = 1
      BY <2>2, FS_Singleton
    <2>4. Waiting' = {}
      BY <1>0, <1>5, <2>2 DEF ClaimCommit, Abort, Waiting
    <2>5. Cardinality(Waiting') = 0
      BY <2>4, FS_EmptySet
    <2>6. payouts' = payouts /\ crashes' = crashes
      BY <1>5 DEF ClaimCommit
    <2>7. CASE claims' = claims \cup {new} /\ faults' = faults
      <3>1. new \notin claims
        BY <2>1 DEF IInv, SharePending, FreshIsOpen, HasClaim
      <3>2. Cardinality(claims') = Cardinality(claims) + 1
        <4>. HIDE DEF new
        <4>. QED
          BY <2>7, <3>1, FS_AddElement
      <3>3. /\ new.id \in 1 .. Len(payouts)
            /\ payouts[new.id] = [user |-> new.user, amount |-> new.amount]
            /\ \A c \in claims : c.id # new.id
        BY <2>2 DEF OrdersInv, OrderPending
      <3>4. Len(payouts') <= Cardinality(claims') + Cardinality(Waiting') + faults' + crashes'
        BY <1>0, <2>3, <2>5, <2>6, <2>7, <3>2 DEF OrdersInv, ClaimsPaid
      <3>5. ClaimsPaid'
        <4>. HIDE DEF new
        <4>. QED
          BY <2>6, <2>7, <3>3, <3>4 DEF OrdersInv, ClaimsPaid
      <3>. QED
        BY <2>4, <3>5 DEF OrdersInv, OrderPending
    <2>8. CASE claims' = claims /\ faults' = faults + 1
      <3>1. Len(payouts') <= Cardinality(claims') + Cardinality(Waiting') + faults' + crashes'
        BY <1>0, <2>3, <2>5, <2>6, <2>8 DEF OrdersInv, ClaimsPaid
      <3>2. ClaimsPaid'
        BY <2>6, <2>8, <3>1 DEF OrdersInv, ClaimsPaid
      <3>. QED
        BY <2>4, <3>2 DEF OrdersInv, OrderPending
    <2>. QED
      BY <1>5, <2>7, <2>8 DEF ClaimCommit, Fault
  <1>. QED
    BY <1>1, <1>2, <1>3, <1>4, <1>5 DEF ClaimStep

LEMMA CrashOrders ==
    ASSUME IInv, OrdersInv, IsFiniteSet(claims), Crash
    PROVE  OrdersInv'
  <1>1. Waiting' = {}
    BY DEF Crash, Waiting
  <1>2. Cardinality(Waiting') = 0 /\ Cardinality(Waiting) \in 0 .. 1
    BY <1>1, FS_EmptySet, WaitingHolds
  <1>3. /\ UNCHANGED <<payouts, claims, faults>> /\ crashes' = crashes + 1
        /\ Cardinality(claims) \in Nat /\ Len(payouts) \in Nat
        /\ faults \in Nat /\ crashes \in Nat
    BY FS_CardinalityType DEF Crash, gateway, IInv, TypeOK, GatewayTypeOK, HistoryTypeOK
  <1>4. Len(payouts') <= Cardinality(claims') + Cardinality(Waiting') + faults' + crashes'
    BY <1>2, <1>3 DEF OrdersInv, ClaimsPaid
  <1>5. ClaimsPaid'
    BY <1>3, <1>4 DEF OrdersInv, ClaimsPaid
  <1>. QED
    BY <1>1, <1>5 DEF OrdersInv, OrderPending

LEMMA NextOrdersInv == IInv /\ IInv' /\ BooksInv /\ OrdersInv /\ [Next]_vars => OrdersInv'
  <1>. SUFFICES ASSUME IInv, IInv', BooksInv, OrdersInv, [Next]_vars PROVE OrdersInv'
    OBVIOUS
  <1>1. IsFiniteSet(claims)
    BY DEF BooksInv
  <1>2. CASE UNCHANGED vars
    BY <1>1, <1>2, OrdersFrame DEF vars, mongo, claimer, gateway, history, Waiting
  <1>. QED
    BY <1>1, <1>2, OtherOrders, ClaimOrders, CrashOrders DEF Next

\* Every recorded claim was ordered at its amount under an order of its own, and
\* the orders without a claim are no more than the commits awaited, the errors and
\* the restarts.
THEOREM ClaimsArePaid == Spec => []ClaimsPaid
  <1>1. Spec => []OrdersInv
    BY Invariant, InitBooksInv, NextBooksInv, InitOrdersInv, NextOrdersInv, PTL DEF Spec
  <1>. QED
    BY <1>1, PTL DEF OrdersInv

-----------------------------------------------------------------------------
(* NoLockout: the counter in Redis and the document.                         *)

\* When the counter has to be right.
Counting ==
    /\ wpc = "idle" /\ ~rp.isTimeout
    /\ lost \subseteq {"payStatus"} /\ faults + crashes = 0

\* An Update that loses nothing but the status of the payment leaves the balance,
\* the claim count and the mark as they are.
LEMMA UpdateWithoutLoss ==
    ASSUME NEW doc \in Doc, NEW own, Update(doc, own),
           own \subseteq {"payStatus", "refundTx"}, lost' \subseteq {"payStatus"}
    PROVE  /\ lost \subseteq {"payStatus"}
           /\ rp'.balance = rp.balance
           /\ rp'.claimCount = rp.claimCount
           /\ rp'.isTimeout = rp.isTimeout
  <1>1. {"balance", "claimCount", "isTimeout"} \subseteq DOMAIN doc \ own
    BY DEF Doc
  <1>2. lost' = lost \cup {f \in DOMAIN doc \ own : doc[f] # rp[f]}
    BY DEF Update
  <1>3. \A f \in {"balance", "claimCount", "isTimeout"} : doc[f] = rp[f]
    BY <1>1, <1>2
  <1>. QED
    BY <1>2, <1>3 DEF Update

\* The documents the callbacks and the creator write are documents.
LEMMA WrittenDocs ==
    ASSUME IInv
    PROVE  /\ NewDoc(terms.amount) \in Doc
           /\ \A h \in Handlers :
                 /\ \A status \in PayStatus : [hcopy[h] EXCEPT !.payStatus = status] \in Doc
                 /\ [hcopy[h] EXCEPT !.refundTx = TRUE] \in Doc
  <1>1. NewDoc(terms.amount) \in Doc
    BY NewDocType DEF IInv, TypeOK, MongoTypeOK, Terms
  <1>2. \A h \in Handlers : hcopy[h] \in Doc
    BY DEF IInv, TypeOK, HandlerTypeOK
  <1>. QED
    BY <1>1, <1>2 DEF Doc

\* A step of CreateRedpacket or of a callback that writes the document and loses
\* nothing but the status of the payment changes neither balance nor claim count.
LEMMA WritersWithoutLoss ==
    ASSUME IInv, lost' \subseteq {"payStatus"},
           \/ CreateUpdate
           \/ \E h \in Handlers : SendUpdate(h) \/ RefundUpdate(h)
    PROVE  /\ lost \subseteq {"payStatus"}
           /\ rp'.balance = rp.balance
           /\ rp'.claimCount = rp.claimCount
           /\ rp'.isTimeout = rp.isTimeout
  <1>1. CASE CreateUpdate
    BY <1>1, WrittenDocs, UpdateWithoutLoss DEF CreateUpdate
  <1>2. ASSUME NEW h \in Handlers, SendUpdate(h)
        PROVE  \E doc \in Doc : Update(doc, {"payStatus"})
    BY <1>2, WrittenDocs DEF SendUpdate, PayStatus
  <1>3. ASSUME NEW h \in Handlers, RefundUpdate(h)
        PROVE  \E doc \in Doc : Update(doc, {"refundTx"})
    BY <1>3, WrittenDocs DEF RefundUpdate
  <1>. QED
    BY <1>1, <1>2, <1>3, UpdateWithoutLoss

\* Whatever adds no loss and does not unmark the packet finds the counter counting.
LEMMA StillCounting ==
    ASSUME IInv, Counting', lost \subseteq {"payStatus"}, rp'.isTimeout = rp.isTimeout,
           wpc' = wpc, crashes' = crashes, faults' \in {faults, faults + 1}
    PROVE  Counting
  <1>1. faults + crashes = 0
    <2>1. faults \in Nat /\ crashes \in Nat
      BY DEF IInv, TypeOK, HistoryTypeOK
    <2>2. faults' + crashes' = 0
      BY DEF Counting
    <2>3. CASE faults' = faults
      BY <2>2, <2>3
    <2>4. CASE faults' = faults + 1
      BY <2>1, <2>2, <2>4
    <2>. QED
      BY <2>3, <2>4
  <1>2. ~rp.isTimeout /\ wpc = "idle"
    BY DEF Counting
  <1>. QED
    BY <1>1, <1>2 DEF Counting

LEMMA InitCounterInv == Init => CounterInv
  <1>. SUFFICES ASSUME Init PROVE CounterInv
    OBVIOUS
  <1>1. Uncounted = {}
    BY DEF Init, Uncounted
  <1>2. IsFiniteSet(Uncounted) /\ Cardinality(Uncounted) = 0
    BY <1>1, FS_EmptySet
  <1>3. rp.claimCount = 0 /\ ~key /\ \A s \in Slots : cpc[s] = "idle"
    BY DEF Init, NoDoc, NewDoc
  <1>. QED
    BY <1>2, <1>3 DEF CounterInv

\* A step that moves neither the counter nor a claim keeps the counter right.
LEMMA CounterFrame ==
    ASSUME CounterInv, saved => saved', UNCHANGED <<terms, key, count, cpc>>,
           Counting' => Counting /\ rp'.claimCount = rp.claimCount
    PROVE  CounterInv'
  <1>1. Uncounted' = Uncounted
    BY DEF Uncounted
  <1>2. CASE ~Counting'
    BY <1>1, <1>2 DEF CounterInv, Counting
  <1>3. CASE Counting'
    BY <1>1, <1>3 DEF CounterInv, Counting
  <1>. QED
    BY <1>2, <1>3

LEMMA CreationCounter ==
    ASSUME IInv, CounterInv,
           \/ \E type \in Types, amount \in Amounts, total \in 1 .. MaxCount :
              Create(type, amount, total)
           \/ CreatorStep \/ GatewaySettles
    PROVE  CounterInv'
  <1>. USE DEF mongo, redis, claimer, worker, history
  <1>0. faults \in Nat /\ crashes \in Nat /\ rp \in Doc
    BY DEF IInv, TypeOK, HistoryTypeOK, MongoTypeOK
  <1>1. ASSUME ~saved, UNCHANGED <<key, cpc>>, rp'.claimCount \in Nat
        PROVE  CounterInv'
    <2>1. ~key /\ \A s \in Slots : cpc[s] = "idle"
      BY <1>1 DEF CounterInv, IInv, Started
    <2>2. Uncounted' = {}
      BY <1>1, <2>1 DEF Uncounted
    <2>. QED
      BY <1>1, <2>1, <2>2, FS_EmptySet DEF CounterInv
  <1>2. ASSUME NEW type \in Types, NEW amount \in Amounts, NEW total \in 1 .. MaxCount,
               Create(type, amount, total)
        PROVE  CounterInv'
    BY <1>0, <1>1, <1>2 DEF Create, IInv, Started, Doc
  <1>3. CASE CreateCommit
    <2>1. ~saved
      BY <1>3 DEF CreateCommit, IInv, Started
    <2>2. rp'.claimCount \in Nat
      BY <1>0, <1>3 DEF CreateCommit, NewDoc, Doc
    <2>. QED
      BY <1>1, <1>3, <2>1, <2>2 DEF CreateCommit
  <1>4. CASE CreateUpdate
    <2>1. Counting' => Counting /\ rp'.claimCount = rp.claimCount
      <3>1. wpc' = wpc /\ crashes' = crashes /\ faults' \in {faults, faults + 1}
        BY <1>4 DEF CreateUpdate, Fault
      <3>2. SUFFICES ASSUME Counting' PROVE Counting /\ rp'.claimCount = rp.claimCount
        OBVIOUS
      <3>3. /\ lost \subseteq {"payStatus"}
            /\ rp'.claimCount = rp.claimCount /\ rp'.isTimeout = rp.isTimeout
        BY <1>4, <3>2, WritersWithoutLoss DEF Counting
      <3>. QED
        BY <3>1, <3>2, <3>3, StillCounting
    <2>. QED
      BY <1>4, <2>1, CounterFrame DEF CreateUpdate
  <1>5. CASE CreatePay \/ CreateWait \/ GatewaySettles
    <2>1. Counting' => Counting /\ rp'.claimCount = rp.claimCount
      <3>1. /\ UNCHANGED <<rp, lost, wpc, crashes>> /\ faults' \in {faults, faults + 1}
        BY <1>5 DEF CreatePay, CreateWait, GatewaySettles, Fault
      <3>. QED
        BY <3>1, StillCounting DEF Counting
    <2>. QED
      BY <1>5, <2>1, CounterFrame DEF CreatePay, CreateWait, GatewaySettles
  <1>. QED
    BY <1>2, <1>3, <1>4, <1>5 DEF CreatorStep

LEMMA CallbackCounter ==
    ASSUME IInv, CounterInv, NEW h \in Handlers, HandlerStep(h) \/ CallbackError(h)
    PROVE  CounterInv'
  <1>. USE DEF mongo, redis, claimer, worker, history
  <1>0. faults \in Nat /\ crashes \in Nat /\ rp \in Doc /\ terms.total \in Nat
    BY DEF IInv, TypeOK, HistoryTypeOK, MongoTypeOK, Terms
  <1>1. CASE SendUpdate(h) \/ RefundUpdate(h)
    <2>1. Counting' => Counting /\ rp'.claimCount = rp.claimCount
      <3>1. UNCHANGED <<wpc, crashes, faults>>
        BY <1>1 DEF SendUpdate, RefundUpdate
      <3>2. SUFFICES ASSUME Counting' PROVE Counting /\ rp'.claimCount = rp.claimCount
        OBVIOUS
      <3>3. /\ lost \subseteq {"payStatus"}
            /\ rp'.claimCount = rp.claimCount /\ rp'.isTimeout = rp.isTimeout
        BY <1>1, <3>2, WritersWithoutLoss DEF Counting
      <3>. QED
        BY <3>1, <3>2, <3>3, StillCounting
    <2>. QED
      BY <1>1, <2>1, CounterFrame DEF SendUpdate, RefundUpdate
  <1>2. CASE SendSet(h)
    <2>1. saved
      BY <1>2 DEF SendSet, IInv, Started
    <2>2. Uncounted' = Uncounted
      BY <1>2 DEF SendSet, Uncounted
    <2>3. Cardinality(Uncounted) \in Nat
      BY FS_CardinalityType DEF CounterInv
    <2>4. rp.claimCount \in Nat
      BY <1>0 DEF Doc
    <2>. QED
      BY <1>0, <1>2, <2>1, <2>2, <2>3, <2>4 DEF SendSet, CounterInv
  <1>3. CASE SendRead(h) \/ SendFinish(h) \/ RefundRead(h) \/ CallbackError(h)
    <2>1. Counting' => Counting /\ rp'.claimCount = rp.claimCount
      <3>1. /\ UNCHANGED <<rp, lost, wpc, crashes>> /\ faults' \in {faults, faults + 1}
        BY <1>3 DEF SendRead, SendFinish, RefundRead, CallbackError, Fault
      <3>. QED
        BY <3>1, StillCounting DEF Counting
    <2>. QED
      BY <1>3, <2>1, CounterFrame DEF SendRead, SendFinish, RefundRead, CallbackError
  <1>. QED
    BY <1>1, <1>2, <1>3 DEF HandlerStep

LEMMA ClaimCounter ==
    ASSUME IInv, BooksInv, CounterInv, NEW s \in Slots,
           ClaimGate(s) \/ ClaimStep(s) \/ ClaimError(s)
    PROVE  CounterInv'
  <1>. USE DEF mongo, redis, worker, history
  <1>0. /\ cpc \in [Slots -> {"idle", "read", "write", "pay", "commit", "decr"}]
        /\ faults \in Nat /\ crashes \in Nat /\ rp \in Doc /\ rp.claimCount \in Nat
        /\ terms.total \in Nat /\ count \in Int
        /\ Cardinality(Uncounted) \in Nat
    BY FS_CardinalityType
       DEF IInv, TypeOK, HistoryTypeOK, MongoTypeOK, ClaimerTypeOK, RedisTypeOK, Terms, Doc,
           CounterInv
  <1>1. ASSUME UNCHANGED <<saved, terms, key, count>>, Uncounted' = Uncounted,
               Counting' => /\ Counting /\ rp'.claimCount = rp.claimCount
                            /\ key
        PROVE  CounterInv'
    BY <1>1 DEF CounterInv, Counting
  <1>2. cpc[s] # "idle" => saved /\ (Counting => key)
    BY DEF IInv, Started, CounterInv, Counting
  <1>3. CASE ClaimGate(s) \/ ClaimRead(s) \/ ClaimWrite(s) \/ ClaimPay(s) \/ ClaimError(s)
    <2>1. Uncounted' = Uncounted
      BY <1>0, <1>3 DEF ClaimGate, ClaimRead, ClaimWrite, ClaimPay, ClaimError, Abort, Uncounted
    <2>2. Counting' => Counting
      BY <1>0, <1>3 DEF ClaimGate, ClaimRead, ClaimWrite, ClaimPay, ClaimError, Counting, Fault
    <2>3. Counting => key
      BY <1>2, <1>3 DEF ClaimGate, ClaimRead, ClaimWrite, ClaimPay, ClaimError
    <2>4. UNCHANGED <<saved, terms, key, count, rp>>
      BY <1>3 DEF ClaimGate, ClaimRead, ClaimWrite, ClaimPay, ClaimError
    <2>. QED
      BY <1>1, <2>1, <2>2, <2>3, <2>4
  <1>4. CASE ClaimCommit(s) /\ UNCHANGED rp
    <2>1. CASE Abort(s, "read") /\ Fault
      <3>1. Uncounted' = Uncounted
        BY <1>0, <1>4, <2>1 DEF ClaimCommit, Abort, Uncounted
      <3>2. ~Counting'
        BY <1>0, <1>4, <2>1 DEF ClaimCommit, Counting, Fault
      <3>. QED
        BY <1>1, <1>4, <3>1, <3>2 DEF ClaimCommit
    <2>2. CASE rp' = [rp EXCEPT !.balance = snap[s].balance - pend.price,
                                !.claimCount = snap[s].claimCount + 1]
      <3>1. s \in fresh
        BY <1>4 DEF ClaimCommit, IInv, SharePending
      <3>2. snap[s].claimCount = rp.claimCount
        BY <3>1 DEF BooksInv, SnapsCurrent
      <3>3. rp'.claimCount = rp.claimCount + 1
        BY <1>0, <2>2, <3>2 DEF Doc
      <3>. QED
        BY <1>0, <1>4, <3>3
    <2>. QED
      BY <1>4, <2>1, <2>2 DEF ClaimCommit
  <1>5. CASE ClaimCommit(s) /\ ~UNCHANGED rp
    <2>1. /\ rp' = [rp EXCEPT !.balance = snap[s].balance - pend.price,
                              !.claimCount = snap[s].claimCount + 1]
          /\ cpc' = [cpc EXCEPT ![s] = "decr"]
          /\ UNCHANGED <<saved, terms, key, count, lost, faults, crashes, wpc>>
          /\ cpc[s] = "commit"
      BY <1>5 DEF ClaimCommit
    <2>2. s \in fresh
      BY <2>1 DEF IInv, SharePending
    <2>3. snap[s].claimCount = rp.claimCount
      BY <2>2 DEF BooksInv, SnapsCurrent
    <2>4. rp'.claimCount = rp.claimCount + 1 /\ rp'.isTimeout = rp.isTimeout
      BY <1>0, <2>1, <2>3 DEF Doc
    <2>5. Uncounted' = Uncounted \cup {s} /\ s \notin Uncounted
      BY <1>0, <2>1 DEF Uncounted
    <2>6. IsFiniteSet(Uncounted') /\ Cardinality(Uncounted') = Cardinality(Uncounted) + 1
      BY <2>5, FS_AddElement DEF CounterInv
    <2>. QED
      BY <1>0, <1>2, <2>1, <2>4, <2>6 DEF CounterInv, Counting
  <1>6. CASE ClaimDecr(s)
    <2>1. cpc[s] = "decr" /\ cpc' = [cpc EXCEPT ![s] = "idle"]
          /\ UNCHANGED <<saved, terms, rp, lost, wpc, crashes>>
      BY <1>6 DEF ClaimDecr
    <2>2. Uncounted' = Uncounted \ {s} /\ s \in Uncounted
      BY <1>0, <2>1 DEF Uncounted
    <2>3. IsFiniteSet(Uncounted') /\ Cardinality(Uncounted') = Cardinality(Uncounted) - 1
      BY <2>2, FS_RemoveElement DEF CounterInv
    <2>4. CASE faults' = faults + 1
      BY <1>0, <1>2, <2>1, <2>3, <2>4 DEF CounterInv
    <2>5. CASE key' = TRUE /\ count' = (IF key THEN count ELSE 0) - 1 /\ faults' = faults
      BY <1>0, <1>2, <2>1, <2>3, <2>5 DEF CounterInv, Counting
    <2>. QED
      BY <1>6, <2>4, <2>5 DEF ClaimDecr, Fault
  <1>. QED
    BY <1>3, <1>4, <1>5, <1>6 DEF ClaimStep

LEMMA TaskCounter ==
    ASSUME IInv, CounterInv, TaskStep
    PROVE  CounterInv'
  <1>. USE DEF mongo, claimer, history
  <1>0. faults \in Nat /\ crashes \in Nat
    BY DEF IInv, TypeOK, HistoryTypeOK
  <1>1. ~Counting'
    <2>1. CASE TaskStart
      BY <2>1 DEF TaskStart, Counting
    <2>2. CASE TaskMark
      BY <1>0, <2>2 DEF TaskMark, Counting, Fault
    <2>3. CASE TaskRead
      BY <2>3 DEF TaskRead, IInv, MarkedOrLost, Counting
    <2>4. CASE TaskPay
      BY <1>0, <2>4 DEF TaskPay, Counting, Fault
    <2>5. CASE TaskCommit
      BY <2>5 DEF TaskCommit, IInv, MarkedOrLost, Counting
    <2>. QED
      BY <2>1, <2>2, <2>3, <2>4, <2>5 DEF TaskStep
  <1>2. UNCHANGED <<saved, cpc>> /\ key' \in {key, FALSE}
    BY DEF TaskStep, TaskStart, TaskMark, TaskRead, TaskPay, TaskCommit
  <1>3. Uncounted' = Uncounted
    BY <1>2 DEF Uncounted
  <1>4. ~saved' => ~key'
    BY <1>2 DEF CounterInv
  <1>. QED
    BY <1>1, <1>3, <1>4 DEF CounterInv, Counting

LEMMA CrashCounter ==
    ASSUME IInv, CounterInv, Crash
    PROVE  CounterInv'
  <1>1. Uncounted' = {}
    BY DEF Crash, Uncounted
  <1>2. ~Counting'
    BY DEF Crash, Counting, IInv, TypeOK, HistoryTypeOK
  <1>3. UNCHANGED <<saved, key>>
    BY DEF Crash, redis
  <1>. QED
    BY <1>1, <1>2, <1>3, FS_EmptySet DEF CounterInv, Counting

LEMMA NextCounterInv == IInv /\ BooksInv /\ CounterInv /\ [Next]_vars => CounterInv'
  <1>1. CounterInv /\ UNCHANGED vars => CounterInv'
    BY CounterFrame DEF vars, mongo, redis, claimer, worker, history, Counting
  <1>. QED
    BY <1>1, CreationCounter, CallbackCounter, ClaimCounter, TaskCounter, CrashCounter DEF Next

\* The counter in Redis never turns a claim away while the document still holds a
\* share, whatever requests interleave and however often the callback is repeated.
THEOREM NoOneLockedOut == Spec => []NoLockout
  <1>1. IInv /\ CounterInv => NoLockout
    <2>. SUFFICES ASSUME IInv, CounterInv PROVE NoLockout
      OBVIOUS
    <2>1. /\ Cardinality(Uncounted) \in Nat /\ terms.total \in Nat /\ rp.claimCount \in Nat
          /\ count \in Int
      BY FS_CardinalityType
         DEF CounterInv, IInv, TypeOK, MongoTypeOK, RedisTypeOK, Terms, Doc
    <2>. QED
      BY <2>1 DEF CounterInv, NoLockout
  <1>2. Spec => []CounterInv
    BY Invariant, InitBooksInv, NextBooksInv, InitCounterInv, NextCounterInv, PTL DEF Spec
  <1>. QED
    BY <1>1, <1>2, Invariant, PTL

-----------------------------------------------------------------------------
(* PurseTracksBalance: the account and the document.                         *)

\* Nothing that went wrong is ever forgotten.
LEMMA TroubleStays ==
    ASSUME IInv, Next
    PROVE  /\ lost \subseteq lost' \/ UNCHANGED lost
           /\ dups' \in {dups, dups + 1}
           /\ faults' \in {faults, faults + 1}
           /\ crashes' \in {crashes, crashes + 1}
  <1>. USE DEF mongo, history, Fault, Trouble
  <1>1. ASSUME NEW type \in Types, NEW amount \in Amounts, NEW total \in 1 .. MaxCount,
               Create(type, amount, total)
        PROVE  UNCHANGED <<lost, dups, faults, crashes>>
    BY <1>1 DEF Create
  <1>2. CASE CreatorStep
    BY <1>2 DEF CreatorStep, CreatePay, CreateCommit, CreateUpdate, CreateWait, Update
  <1>3. CASE GatewaySettles
    BY <1>3 DEF GatewaySettles
  <1>4. ASSUME NEW h \in Handlers, HandlerStep(h) \/ CallbackError(h)
        PROVE  /\ lost \subseteq lost'
               /\ dups' \in {dups, dups + 1}
               /\ faults' \in {faults, faults + 1}
               /\ crashes' = crashes
    <2>1. CASE SendRead(h) \/ RefundRead(h)
      BY <2>1 DEF SendRead, RefundRead, Delivers
    <2>2. CASE SendUpdate(h) \/ RefundUpdate(h)
      BY <2>2 DEF SendUpdate, RefundUpdate, Update
    <2>3. CASE SendSet(h) \/ SendFinish(h) \/ CallbackError(h)
      BY <2>3 DEF SendSet, SendFinish, CallbackError
    <2>. QED
      BY <1>4, <2>1, <2>2, <2>3 DEF HandlerStep
  <1>5. ASSUME NEW s \in Slots, ClaimGate(s) \/ ClaimStep(s) \/ ClaimError(s)
        PROVE  /\ UNCHANGED <<lost, dups, crashes>>
               /\ faults' \in {faults, faults + 1}
    <2>1. CASE ClaimGate(s) \/ ClaimRead(s) \/ ClaimWrite(s) \/ ClaimError(s)
      BY <2>1 DEF ClaimGate, ClaimRead, ClaimWrite, ClaimError
    <2>2. CASE ClaimPay(s) \/ ClaimCommit(s) \/ ClaimDecr(s)
      BY <2>2 DEF ClaimPay, ClaimCommit, ClaimDecr
    <2>. QED
      BY <1>5, <2>1, <2>2 DEF ClaimStep
  <1>6. CASE TaskStep
    BY <1>6 DEF TaskStep, TaskStart, TaskMark, TaskRead, TaskPay, TaskCommit
  <1>7. CASE Crash
    BY <1>7 DEF Crash
  <1>. QED
    BY <1>1, <1>2, <1>3, <1>4, <1>5, <1>6, <1>7 DEF Next

\* A step that ends calm began calm, and nothing went wrong in it.
LEMMA CalmBefore ==
    ASSUME IInv, Next, Calm'
    PROVE  Calm /\ UNCHANGED <<dups, faults, crashes>> /\ lost' \subseteq {"payStatus"}
  <1>1. dups \in Nat /\ faults \in Nat /\ crashes \in Nat
    BY DEF IInv, TypeOK, HistoryTypeOK
  <1>2. dups' = 0 /\ faults' = 0 /\ crashes' = 0 /\ lost' \subseteq {"payStatus"}
    BY DEF Calm
  <1>3. dups = 0
    BY <1>1, <1>2, TroubleStays
  <1>4. faults = 0
    BY <1>1, <1>2, TroubleStays
  <1>5. crashes = 0
    BY <1>1, <1>2, TroubleStays
  <1>6. lost \subseteq {"payStatus"}
    BY <1>2, TroubleStays
  <1>. QED
    BY <1>2, <1>3, <1>4, <1>5, <1>6 DEF Calm

\* While nothing goes wrong an open snapshot excludes the task's refund.
LEMMA OpenNotRefunded ==
    ASSUME IInv, Calm, NEW s \in Slots, lock = s
    PROVE  refunds = 0 /\ wpc \notin {"read", "pay", "commit"}
  <1>1. ~rp.isTimeout /\ "isTimeout" \notin lost
    BY DEF IInv, SharePending, FreshIsOpen, Calm
  <1>2. refunds \in Nat
    BY DEF IInv, TypeOK, GatewayTypeOK
  <1>. QED
    BY <1>1, <1>2 DEF IInv, MarkedOrLost

LEMMA InitPurseInv == Init => PurseInv
  BY DEF Init, PurseInv, CalmInv, Unpaid, OneTask, RefundReady, PaidEarly, PurseTracksBalance,
         SendSteps

\* A step that moves no money, no counter and no process keeps the purse.
LEMMA PurseFrame ==
    ASSUME CalmInv, Calm,
           UNCHANGED <<sendTx, purse, key, tasks, cpc, hpc, saved, terms, acked, refunds, wpc,
                       wcopy, pend>>,
           rp'.balance = rp.balance
    PROVE  CalmInv'
  BY DEF CalmInv, Unpaid, OneTask, RefundReady, PaidEarly, PurseTracksBalance, Waiting

LEMMA CreationPurse ==
    ASSUME IInv, CalmInv, Calm, creator \in {"idle", "pay"} => sendTx = "none",
           UNCHANGED <<dups, faults, crashes>>, lost' \subseteq {"payStatus"},
           \/ \E type \in Types, amount \in Amounts, total \in 1 .. MaxCount :
              Create(type, amount, total)
           \/ CreatorStep \/ GatewaySettles
    PROVE  CalmInv'
  <1>. USE DEF mongo, redis, claimer, handler, worker, gateway
  <1>0. faults \in Nat /\ faults' # faults + 1
    BY DEF IInv, TypeOK, HistoryTypeOK
  <1>1. ASSUME NEW type \in Types, NEW amount \in Amounts, NEW total \in 1 .. MaxCount,
               Create(type, amount, total)
        PROVE  CalmInv'
    <2>1. sendTx = "none" /\ ~saved
      BY <1>1 DEF Create, IInv, Started
    <2>2. UNCHANGED <<sendTx, saved>>
      BY <1>1 DEF Create
    <2>3. Unpaid' /\ OneTask' /\ RefundReady'
      BY <1>1, <2>1, <2>2 DEF Create, CalmInv, Unpaid, OneTask, RefundReady
    <2>. QED
      BY <2>1, <2>2, <2>3 DEF CalmInv, PaidEarly, PurseTracksBalance
  <1>2. CASE CreatePay
    <2>1. sendTx = "none" /\ sendTx' = "pending"
      BY <1>0, <1>2 DEF CreatePay, Fault
    <2>2. UNCHANGED <<purse, key, tasks, cpc, hpc, saved, terms, acked, refunds, wpc, wcopy,
                      pend, rp>>
      BY <1>2 DEF CreatePay
    <2>3. Unpaid' /\ OneTask' /\ RefundReady'
      BY <2>1, <2>2 DEF CalmInv, Unpaid, OneTask, RefundReady
    <2>. QED
      BY <2>1, <2>3 DEF CalmInv, PaidEarly, PurseTracksBalance
  <1>3. CASE CreateCommit
    <2>1. ~saved /\ saved' = TRUE /\ rp' = NewDoc(terms.amount)
      BY <1>0, <1>3 DEF CreateCommit, IInv, Started, Fault
    <2>2. rp'.balance = terms.amount
      BY <2>1 DEF NewDoc
    <2>3. UNCHANGED <<sendTx, purse, key, tasks, cpc, hpc, terms, acked, refunds, wpc, wcopy,
                      pend>>
      BY <1>3 DEF CreateCommit
    <2>4. refunds = 0 /\ wpc = "idle" /\ Waiting' = {}
      BY <2>1, <2>3 DEF IInv, TypeOK, GatewayTypeOK, Started, Waiting
    <2>5. Unpaid' /\ OneTask' /\ RefundReady' /\ PaidEarly'
      BY <2>1, <2>2, <2>3, <2>4 DEF CalmInv, Unpaid, OneTask, RefundReady, PaidEarly
    <2>6. PurseTracksBalance'
      <3>1. terms.amount \in Nat
        BY DEF IInv, TypeOK, MongoTypeOK, Terms
      <3>. QED
        BY <2>1, <2>2, <2>3, <2>4, <3>1 DEF CalmInv, PaidEarly, PurseTracksBalance
    <2>. QED
      BY <2>5, <2>6 DEF CalmInv
  <1>4. CASE CreateUpdate
    <2>1. rp'.balance = rp.balance
      BY <1>4, WritersWithoutLoss
    <2>. QED
      BY <1>4, <2>1, PurseFrame DEF CreateUpdate
  <1>5. CASE CreateWait
    BY <1>5, PurseFrame DEF CreateWait
  <1>6. CASE GatewaySettles
    <2>1. sendTx = "pending"
      BY <1>6 DEF GatewaySettles
    <2>2. /\ purse = 0 /\ refunds = 0
          /\ \A s \in Slots : cpc[s] = "idle"
          /\ saved => rp.balance = terms.amount
      BY <2>1 DEF CalmInv, Unpaid
    <2>3. UNCHANGED <<key, tasks, cpc, hpc, saved, terms, acked, refunds, wpc, wcopy, pend, rp>>
      BY <1>6 DEF GatewaySettles
    <2>4. terms.amount \in Nat
      BY DEF IInv, TypeOK, MongoTypeOK, Terms
    <2>5. purse' = IF sendTx' = "completed" THEN terms.amount ELSE 0
      BY <1>6, <2>2, <2>4 DEF GatewaySettles
    <2>6. Waiting' = {}
      BY <2>2, <2>3 DEF Waiting
    <2>7. Unpaid' /\ OneTask' /\ RefundReady' /\ PaidEarly'
      BY <2>1, <2>3, <2>5 DEF CalmInv, Unpaid, OneTask, RefundReady, PaidEarly
    <2>8. PurseTracksBalance'
      BY <2>2, <2>3, <2>4, <2>5, <2>6 DEF PurseTracksBalance
    <2>. QED
      BY <2>7, <2>8 DEF CalmInv
  <1>. QED
    BY <1>1, <1>2, <1>3, <1>4, <1>5, <1>6 DEF CreatorStep

LEMMA CallbackPurse ==
    ASSUME IInv, CalmInv, Calm, NEW h \in Handlers,
           UNCHANGED <<dups, faults, crashes>>, lost' \subseteq {"payStatus"},
           HandlerStep(h) \/ CallbackError(h)
    PROVE  CalmInv'
  <1>. USE DEF mongo, redis, claimer, worker, gateway
  <1>0. /\ faults \in Nat /\ faults' # faults + 1
        /\ dups \in Nat /\ dups' # dups + 1
        /\ hpc \in [Handlers -> {"idle"} \cup SendSteps \cup RefundSteps]
    BY DEF IInv, TypeOK, HistoryTypeOK, HandlerTypeOK
  <1>1. ASSUME UNCHANGED <<sendTx, purse, key, tasks, cpc, saved, terms, refunds, wpc, wcopy,
                           pend>>,
               rp'.balance = rp.balance, Unpaid', OneTask'
        PROVE  CalmInv'
    BY <1>1 DEF CalmInv, RefundReady, PaidEarly, PurseTracksBalance, Waiting
  <1>2. CASE SendRead(h)
    <2>1. "send" \notin acked /\ \A g \in Handlers : hpc[g] \notin SendSteps
      BY <1>0, <1>2 DEF SendRead, Delivers
    <2>2. hpc' = [hpc EXCEPT ![h] = "send.update"]
      BY <1>2 DEF SendRead
    <2>3. Unpaid'
      BY <1>0, <1>2, <2>2 DEF SendRead, CalmInv, Unpaid
    <2>4. OneTask'
      BY <1>0, <1>2, <2>1, <2>2 DEF SendRead, CalmInv, OneTask
    <2>. QED
      BY <1>1, <1>2, <2>3, <2>4 DEF SendRead
  <1>3. CASE SendUpdate(h)
    <2>1. rp'.balance = rp.balance
      BY <1>3, WritersWithoutLoss
    <2>2. hpc' = [hpc EXCEPT ![h] = IF sendTx = "completed" THEN "send.set" ELSE "send.finish"]
      BY <1>3 DEF SendUpdate
    <2>3. Unpaid'
      BY <1>0, <1>3, <2>1, <2>2 DEF SendUpdate, CalmInv, Unpaid
    <2>4. OneTask'
      BY <1>0, <1>3, <2>2 DEF SendUpdate, CalmInv, OneTask, SendSteps
    <2>. QED
      BY <1>1, <1>3, <2>1, <2>3, <2>4 DEF SendUpdate
  <1>4. CASE SendSet(h)
    <2>1. sendTx = "completed"
      BY <1>4 DEF SendSet, CalmInv, Unpaid
    <2>2. Unpaid'
      BY <1>4, <2>1 DEF SendSet, Unpaid
    <2>3. OneTask'
      BY <1>0, <1>4 DEF SendSet, CalmInv, OneTask, SendSteps
    <2>4. RefundReady' /\ PaidEarly' /\ PurseTracksBalance'
      BY <1>4 DEF SendSet, CalmInv, RefundReady, PaidEarly, PurseTracksBalance, Waiting
    <2>. QED
      BY <2>2, <2>3, <2>4 DEF CalmInv
  <1>5. CASE SendFinish(h)
    <2>1. hpc[h] \in SendSteps
      BY <1>5 DEF SendFinish, SendSteps
    <2>2. "send" \notin acked /\ tasks = 0 /\ refunds = 0
      BY <2>1 DEF CalmInv, OneTask
    <2>3. tasks' = IF sendTx = "completed" THEN 1 ELSE 0
      BY <1>0, <1>5, <2>2 DEF SendFinish, Fault
    <2>4. hpc' = [hpc EXCEPT ![h] = "idle"] /\ acked' = acked \cup {"send"}
      BY <1>5 DEF SendFinish
    <2>5. \A g \in Handlers : hpc'[g] \notin SendSteps
      BY <1>0, <2>1, <2>4 DEF CalmInv, OneTask, SendSteps
    <2>6. UNCHANGED <<sendTx, purse, key, cpc, saved, terms, refunds, wpc, wcopy, pend, rp>>
      BY <1>5 DEF SendFinish
    <2>7. Unpaid'
      BY <1>0, <2>3, <2>4, <2>6 DEF CalmInv, Unpaid
    <2>8. OneTask'
      BY <2>2, <2>3, <2>4, <2>5, <2>6 DEF OneTask
    <2>9. RefundReady' /\ PaidEarly' /\ PurseTracksBalance'
      BY <2>6 DEF CalmInv, RefundReady, PaidEarly, PurseTracksBalance, Waiting
    <2>. QED
      BY <2>7, <2>8, <2>9 DEF CalmInv
  <1>6. CASE CallbackError(h)
    BY <1>0, <1>6 DEF CallbackError, Fault
  <1>7. CASE RefundRead(h)
    <2>1. hpc' = [hpc EXCEPT ![h] = "refund.update"]
      BY <1>7 DEF RefundRead
    <2>2. Unpaid'
      BY <1>0, <1>7, <2>1 DEF RefundRead, CalmInv, Unpaid
    <2>3. OneTask'
      BY <1>0, <1>7, <2>1 DEF RefundRead, CalmInv, OneTask, SendSteps
    <2>. QED
      BY <1>1, <1>7, <2>2, <2>3 DEF RefundRead
  <1>8. CASE RefundUpdate(h)
    <2>1. rp'.balance = rp.balance
      BY <1>8, WritersWithoutLoss
    <2>2. hpc' = [hpc EXCEPT ![h] = "idle"] /\ acked' = acked \cup {"refund"}
      BY <1>8 DEF RefundUpdate
    <2>3. Unpaid'
      BY <1>0, <1>8, <2>1, <2>2 DEF RefundUpdate, CalmInv, Unpaid
    <2>4. OneTask'
      BY <1>0, <1>8, <2>2 DEF RefundUpdate, CalmInv, OneTask, SendSteps
    <2>. QED
      BY <1>1, <1>8, <2>1, <2>3, <2>4 DEF RefundUpdate
  <1>. QED
    BY <1>2, <1>3, <1>4, <1>5, <1>6, <1>7, <1>8 DEF HandlerStep

LEMMA ClaimPurse ==
    ASSUME IInv, BooksInv, CalmInv, Calm, NEW s \in Slots,
           UNCHANGED <<dups, faults, crashes>>,
           ClaimGate(s) \/ ClaimStep(s) \/ ClaimError(s)
    PROVE  CalmInv'
  <1>. USE DEF mongo, redis, handler, worker, gateway
  <1>0. /\ faults \in Nat /\ faults' # faults + 1
        /\ cpc \in [Slots -> {"idle", "read", "write", "pay", "commit", "decr"}]
        /\ rp \in Doc /\ rp.balance \in Nat /\ pend.price \in Nat /\ purse \in Int
        /\ pend \in [id : Nat, price : Nat]
    BY DEF IInv, TypeOK, HistoryTypeOK, ClaimerTypeOK, MongoTypeOK, GatewayTypeOK, Doc
  <1>1. sendTx = "completed"
    <2>1. cpc[s] # "idle" \/ key
      BY DEF ClaimGate, ClaimStep, ClaimRead, ClaimWrite, ClaimPay, ClaimCommit, ClaimDecr,
             ClaimError
    <2>. QED
      BY <2>1 DEF CalmInv, Unpaid
  <1>2. UNCHANGED <<sendTx, saved, terms, acked, refunds, wpc, wcopy, hpc, tasks>>
    BY DEF ClaimGate, ClaimStep, ClaimRead, ClaimWrite, ClaimPay, ClaimCommit, ClaimDecr,
           ClaimError
  <1>3. Unpaid' /\ OneTask'
    BY <1>1, <1>2 DEF CalmInv, Unpaid, OneTask
  <1>4. CASE ClaimGate(s) \/ ClaimRead(s) \/ ClaimDecr(s)
    <2>1. Waiting' = Waiting
      BY <1>0, <1>4 DEF ClaimGate, ClaimRead, ClaimDecr, Waiting
    <2>2. UNCHANGED <<rp, pend, purse>>
      BY <1>4 DEF ClaimGate, ClaimRead, ClaimDecr
    <2>. QED
      BY <1>2, <1>3, <2>1, <2>2 DEF CalmInv, RefundReady, PaidEarly, PurseTracksBalance
  <1>5. CASE ClaimWrite(s)
    <2>1. UNCHANGED <<rp, purse>>
      BY <1>5 DEF ClaimWrite
    <2>2. Waiting' = Waiting
      BY <1>0, <1>5 DEF ClaimWrite, Abort, Waiting
    <2>3. Waiting # {} => pend' = pend
      BY <1>5, WaitingHolds DEF ClaimWrite, WriteConflict, Abort, Waiting
    <2>. QED
      BY <1>2, <1>3, <2>1, <2>2, <2>3 DEF CalmInv, RefundReady, PaidEarly, PurseTracksBalance
  <1>6. CASE ClaimError(s)
    BY <1>0, <1>6 DEF ClaimError, Fault
  <1>7. CASE ClaimPay(s)
    <2>1. cpc[s] = "pay" /\ lock = s
      BY <1>7 DEF ClaimPay, IInv, SharePending
    <2>2. refunds = 0 /\ wpc \notin {"read", "pay", "commit"}
      BY <2>1, OpenNotRefunded
    <2>3. Waiting = {}
      BY <2>1, WaitingHolds DEF Waiting
    <2>4. /\ purse' = purse - pend.price
          /\ pend' = [pend EXCEPT !.id = Len(payouts) + 1]
          /\ cpc' = [cpc EXCEPT ![s] = "commit"]
          /\ rp' = rp
      BY <1>0, <1>7 DEF ClaimPay, OrderPayout, Fault
    <2>5. s \in Waiting' /\ pend'.price = pend.price
      BY <1>0, <2>4 DEF Waiting
    <2>6. saved
      BY <2>1 DEF IInv, Started
    <2>7. purse = rp.balance
      BY <1>0, <1>1, <2>2, <2>3, <2>6 DEF CalmInv, PurseTracksBalance
    <2>8. PurseTracksBalance'
      BY <1>0, <1>2, <2>2, <2>4, <2>5, <2>7 DEF PurseTracksBalance
    <2>. QED
      BY <1>2, <1>3, <2>2, <2>6, <2>8 DEF CalmInv, RefundReady, PaidEarly
  <1>8. CASE ClaimCommit(s)
    <2>1. cpc[s] = "commit" /\ lock = s /\ s \in fresh
      BY <1>8 DEF ClaimCommit, IInv, SharePending
    <2>2. refunds = 0 /\ wpc \notin {"read", "pay", "commit"}
      BY <2>1, OpenNotRefunded
    <2>3. Waiting = {s}
      BY <2>1, WaitingHolds DEF Waiting
    <2>4. /\ rp' = [rp EXCEPT !.balance = snap[s].balance - pend.price,
                              !.claimCount = snap[s].claimCount + 1]
          /\ cpc' = [cpc EXCEPT ![s] = "decr"]
          /\ purse' = purse
      BY <1>0, <1>8 DEF ClaimCommit, Fault
    <2>5. rp'.balance = rp.balance - pend.price
      <3>1. snap[s].balance = rp.balance
        BY <2>1 DEF BooksInv, SnapsCurrent
      <3>. QED
        BY <1>0, <2>4, <3>1 DEF Doc
    <2>6. Waiting' = {}
      BY <1>0, <2>3, <2>4 DEF Waiting
    <2>7. saved
      BY <2>1 DEF IInv, Started
    <2>8. purse = rp.balance - pend.price
      BY <1>0, <1>1, <2>2, <2>3, <2>7 DEF CalmInv, PurseTracksBalance
    <2>9. PurseTracksBalance'
      BY <1>0, <1>2, <2>2, <2>4, <2>5, <2>6, <2>8 DEF PurseTracksBalance
    <2>. QED
      BY <1>2, <1>3, <2>2, <2>7, <2>9 DEF CalmInv, RefundReady, PaidEarly
  <1>. QED
    BY <1>4, <1>5, <1>6, <1>7, <1>8 DEF ClaimStep

LEMMA TaskPurse ==
    ASSUME IInv, CalmInv, Calm, UNCHANGED <<dups, faults, crashes>>, TaskStep
    PROVE  CalmInv'
  <1>. USE DEF mongo, claimer, handler, gateway
  <1>0. /\ faults \in Nat /\ faults' # faults + 1
        /\ rp \in Doc /\ rp.balance \in Nat /\ purse \in Int /\ tasks \in Nat /\ refunds \in Nat
    BY DEF IInv, TypeOK, HistoryTypeOK, MongoTypeOK, GatewayTypeOK, RedisTypeOK, Doc
  <1>1. tasks = 1 /\ saved
    BY <1>0 DEF TaskStep, TaskStart, TaskMark, TaskRead, TaskPay, TaskCommit, IInv, Started,
                CalmInv, OneTask
  <1>2. sendTx = "completed" /\ "send" \in acked
    BY <1>1 DEF CalmInv, Unpaid, OneTask
  <1>3. UNCHANGED <<sendTx, acked, saved, terms, cpc, pend, hpc>> /\ Waiting' = Waiting
    BY DEF TaskStep, TaskStart, TaskMark, TaskRead, TaskPay, TaskCommit, Waiting
  <1>4. Unpaid' /\ PaidEarly'
    BY <1>1, <1>2, <1>3 DEF Unpaid, PaidEarly
  <1>5. ASSUME tasks' \in 0 .. 1, refunds' <= 1,
               tasks' = 1 => refunds' = 0 \/ wpc' = "commit"
        PROVE  OneTask'
    BY <1>2, <1>3, <1>5 DEF CalmInv, OneTask
  <1>6. CASE TaskStart \/ TaskMark
    <2>1. rp'.balance = rp.balance
      BY <1>0, <1>6 DEF TaskStart, TaskMark, Doc, Fault
    <2>2. UNCHANGED <<tasks, refunds, purse>> /\ wpc' \in {"mark", "read"} /\ wpc \in {"idle", "mark"}
      BY <1>0, <1>6 DEF TaskStart, TaskMark, Fault
    <2>3. OneTask'
      BY <1>1, <1>5, <2>2 DEF CalmInv, OneTask
    <2>. QED
      BY <1>3, <1>4, <2>1, <2>2, <2>3 DEF CalmInv, RefundReady, PurseTracksBalance
  <1>7. CASE TaskRead
    <2>1. UNCHANGED <<rp, refunds, purse>> /\ wpc = "read"
      BY <1>7 DEF TaskRead
    <2>2. RefundReady'
      BY <1>7 DEF TaskRead, TaskDone, RefundReady
    <2>3. OneTask'
      <3>1. tasks' \in 0 .. 1
        BY <1>1, <1>7 DEF TaskRead, TaskDone
      <3>. QED
        BY <1>1, <1>5, <2>1, <3>1 DEF CalmInv, OneTask
    <2>. QED
      BY <1>3, <1>4, <2>1, <2>2, <2>3 DEF CalmInv, PurseTracksBalance
  <1>8. CASE TaskPay
    <2>1. /\ refunds' = refunds + 1 /\ purse' = purse - wcopy /\ wpc' = "commit"
          /\ UNCHANGED <<tasks, rp>>
      BY <1>0, <1>8 DEF TaskPay, OrderRefund, Fault
    <2>2. wpc = "pay" /\ refunds = 0
      BY <1>1, <1>8 DEF TaskPay, CalmInv, OneTask
    <2>3. Waiting = {}
      BY <2>2, WaitingHolds, OpenNotRefunded DEF Waiting
    <2>4. purse = rp.balance /\ wcopy = rp.balance
      BY <1>0, <1>1, <1>2, <2>2, <2>3 DEF CalmInv, RefundReady, PurseTracksBalance
    <2>5. purse' = 0 /\ refunds' = 1
      BY <1>0, <2>1, <2>2, <2>4
    <2>6. PurseTracksBalance'
      BY <1>3, <2>3, <2>5 DEF PurseTracksBalance
    <2>7. OneTask'
      BY <1>1, <1>5, <2>1, <2>5
    <2>. QED
      BY <1>4, <2>1, <2>6, <2>7 DEF CalmInv, RefundReady
  <1>9. CASE TaskCommit
    <2>1. UNCHANGED <<rp, refunds, purse>> /\ wpc' = "idle" /\ tasks' = 0
      BY <1>0, <1>1, <1>9 DEF TaskCommit, TaskDone, Fault
    <2>2. OneTask'
      BY <1>5, <2>1 DEF CalmInv, OneTask
    <2>. QED
      BY <1>3, <1>4, <2>1, <2>2 DEF CalmInv, RefundReady, PurseTracksBalance
  <1>. QED
    BY <1>6, <1>7, <1>8, <1>9 DEF TaskStep

\* The payment of a packet starts after its request.
LEMMA PaymentStarts ==
    ASSUME IInv, creator \in {"idle", "pay"} => sendTx = "none", Next
    PROVE  creator' \in {"idle", "pay"} => sendTx' = "none"
  <1>. USE DEF sender, gateway
  <1>1. CASE \E type \in Types, amount \in Amounts, total \in 1 .. MaxCount :
                Create(type, amount, total)
    BY <1>1 DEF Create
  <1>2. CASE CreatorStep \/ GatewaySettles
    BY <1>2 DEF CreatorStep, CreatePay, CreateCommit, CreateUpdate, CreateWait, CreateFails,
                GatewaySettles
  <1>3. CASE \E h \in Handlers : HandlerStep(h) \/ CallbackError(h)
    <2>1. UNCHANGED <<creator, sendTx>>
      BY <1>3 DEF HandlerStep, SendRead, SendUpdate, SendSet, SendFinish, RefundRead,
                  RefundUpdate, CallbackError
    <2>. QED
      BY <2>1
  <1>4. CASE \E s \in Slots : ClaimGate(s) \/ ClaimStep(s) \/ ClaimError(s)
    <2>1. UNCHANGED <<creator, sendTx>>
      BY <1>4 DEF ClaimGate, ClaimStep, ClaimRead, ClaimWrite, ClaimPay, ClaimCommit,
                  ClaimDecr, ClaimError
    <2>. QED
      BY <2>1
  <1>5. CASE TaskStep
    <2>1. UNCHANGED <<creator, sendTx>>
      BY <1>5 DEF TaskStep, TaskStart, TaskMark, TaskRead, TaskPay, TaskCommit
    <2>. QED
      BY <2>1
  <1>6. CASE Crash
    BY <1>6 DEF Crash
  <1>. QED
    BY <1>1, <1>2, <1>3, <1>4, <1>5, <1>6 DEF Next

LEMMA NextPurseInv == IInv /\ BooksInv /\ PurseInv /\ [Next]_vars => PurseInv'
  <1>. SUFFICES ASSUME IInv, BooksInv, PurseInv, [Next]_vars PROVE PurseInv'
    OBVIOUS
  <1>1. CASE UNCHANGED vars
    <2>1. Calm' => Calm
      BY <1>1 DEF vars, mongo, history, Calm
    <2>. QED
      BY <1>1, <2>1, PurseFrame
         DEF PurseInv, vars, mongo, redis, sender, claimer, handler, worker, gateway
  <1>2. CASE Next
    <2>1. creator' \in {"idle", "pay"} => sendTx' = "none"
      BY <1>2, PaymentStarts DEF PurseInv
    <2>2. ASSUME Calm' PROVE CalmInv'
      <3>1. Calm /\ UNCHANGED <<dups, faults, crashes>> /\ lost' \subseteq {"payStatus"}
        BY <1>2, <2>2, CalmBefore
      <3>2. CalmInv /\ (creator \in {"idle", "pay"} => sendTx = "none")
        BY <3>1 DEF PurseInv
      <3>3. ~Crash
        BY <3>1 DEF Crash, IInv, TypeOK, HistoryTypeOK
      <3>. QED
        BY <1>2, <3>1, <3>2, <3>3, CreationPurse, CallbackPurse, ClaimPurse, TaskPurse DEF Next
    <2>. QED
      BY <2>1, <2>2 DEF PurseInv
  <1>. QED
    BY <1>1, <1>2

LEMMA PurseInvariant == Spec => []PurseInv
  BY Invariant, InitBooksInv, NextBooksInv, InitPurseInv, NextPurseInv, PTL DEF Spec

\* While nothing goes wrong the account holds for the packet exactly what the
\* document says is left, so the service pays no one from other people's packets.
THEOREM PurseIsBalance == Spec => []PurseTracksBalance
  <1>1. PurseInv => PurseTracksBalance
    BY DEF PurseInv, CalmInv, PurseTracksBalance
  <1>. QED
    BY <1>1, PurseInvariant, PTL

\* While nothing goes wrong the sender is refunded once: the second refund that
\* the code allows takes an error, a restart, a callback delivered twice or an
\* Update that lost more than the status of the payment.
THEOREM CalmRefundsOnce == Spec => [](Calm => RefundedOnce)
  <1>1. PurseInv => (Calm => RefundedOnce)
    BY DEF PurseInv, CalmInv, OneTask, RefundedOnce
  <1>. QED
    BY <1>1, PurseInvariant, PTL
=============================================================================
