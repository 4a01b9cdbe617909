--------------------------- MODULE RedpacketDraws ---------------------------
(***************************************************************************)
(* A red packet split to the end: the loop of redpacketLucked, and the     *)
(* successive calls of redpacketRand that successive claims make and that  *)
(* TestRedpacketRand (redpacket_test.go) spells out.                       *)
(***************************************************************************)
EXTENDS RedpacketSplit, Integers, Sequences, FiniteSets

CONSTANTS MaxPrice,     \* largest amount to split
          MaxNumbers    \* largest number of shares (RedPacketMaxCount)

ASSUME DrawsAssumption == MaxPrice \in Nat /\ MaxNumbers \in Nat \ {0}

VARIABLES algo,         \* "lucked" or "rand": the function that draws
          price,        \* the amount to split
          restPrice,    \* what is left of it
          restNumbers,  \* how many shares are still to draw
          packets       \* the shares drawn so far, in order

drawVars == <<algo, price, restPrice, restNumbers, packets>>

Algos == {"lucked", "rand"}

DrawTypeOK ==
    /\ algo \in Algos
    /\ price \in Nat
    /\ restPrice \in Nat
    /\ restNumbers \in Nat
    /\ packets \in Seq(Nat)

\* CreateRedpacket lets a packet of type RedpacketTypeLucked through only when
\* a share is worth at least 1 on average.  redpacketRand also serves the
\* packets of an unknown type, whose amount nothing compares with their number.
DrawInit ==
    /\ algo \in Algos
    /\ price \in 0 .. MaxPrice
    /\ restNumbers \in 1 .. MaxNumbers
    /\ algo = "lucked" => price \div restNumbers >= 1
    /\ restPrice = price
    /\ packets = <<>>

\* MUTANT: the last share is drawn like the others, and a remainder is kept.
NextSharesLastDrawn ==
    IF algo = "lucked"
    THEN 1 .. LuckedMax(restPrice, restNumbers)
    ELSE 0 .. RandMax(restPrice, restNumbers) - 1

\* MUTANT: the bound of the draw is itself drawn.
NextSharesWithBound ==
    IF restNumbers = 1 THEN {restPrice} ELSE 0 .. RandMax(restPrice, restNumbers)

\* The amounts the next share may have.
NextShares ==
    IF algo = "lucked"
    THEN LuckedShares(restPrice, restNumbers)
    ELSE RandShares(restPrice, restNumbers)

\* One share leaves the packet.
Draw ==
    /\ restNumbers > 0
    /\ \E value \in NextShares :
          /\ packets' = Append(packets, value)
          /\ restPrice' = restPrice - value
    /\ restNumbers' = restNumbers - 1
    /\ UNCHANGED <<algo, price>>

Done == restNumbers = 0 /\ UNCHANGED drawVars

DrawNext == Draw \/ Done

DrawSpec == DrawInit /\ [][DrawNext]_drawVars

-----------------------------------------------------------------------------
(* Properties. *)

\* The units of money in the shares drawn so far, one element for each.
DrawnUnits == UNION {{i} \X (1 .. packets[i]) : i \in DOMAIN packets}

\* When every share is drawn they add up to the amount, which is what
\* testRedPacket and TestRedpacketRand compare for a few amounts.
Exact ==
    restNumbers = 0 => restPrice = 0 /\ Cardinality(DrawnUnits) = price

\* A packet worth at least one unit per share stays so whatever is drawn, so the
\* last share is never empty; the shares of redpacketLucked never are.
NoneLeftOut ==
    /\ price >= restNumbers + Len(packets) => restPrice >= restNumbers
    /\ algo = "lucked" => \A i \in DOMAIN packets : packets[i] >= 1

\* redpacketLucked always hands rand.Int a positive bound: rand.Int panics on
\* any other.
NeverPanics ==
    algo = "lucked" /\ restNumbers > 1 => LuckedMax(restPrice, restNumbers) - 1 > 0
=============================================================================
