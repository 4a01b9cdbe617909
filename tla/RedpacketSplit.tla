--------------------------- MODULE RedpacketSplit ---------------------------
(***************************************************************************)
(* How one share of a red packet is drawn from what is left of it          *)
(* (internal/service/redpacket.go).  Amounts are decimal strings in the    *)
(* documents and math/big integers in the arithmetic; here they are        *)
(* naturals.  rand.Int(rand.Reader, max) returns any value of 0..max-1 and *)
(* panics when max <= 0.                                                   *)
(***************************************************************************)
EXTENDS Naturals

\* The amount of one share when it is drawn at random from `balance` with
\* `count` shares left: the `max` of redpacketRand, never below 1.
RandMax(balance, count) ==
    LET twice == (balance \div count) * 2
    IN  IF twice > 1 THEN twice ELSE 1

\* The amounts redpacketRand(balance, count) may return.  The last share takes
\* all that is left, and a share may be worth nothing.
RandShares(balance, count) ==
    IF count = 1 THEN {balance} ELSE 0 .. RandMax(balance, count) - 1

\* The `max` of one turn of redpacketLucked's loop before 1 is taken off (here the
\* loop hands LuckedMax - 1 to rand.Int).
LuckedMax(restPrice, restNumbers) == (restPrice \div restNumbers) * 2

\* The amounts one turn of redpacketLucked may put in a packet: rand.Int plus 1.
LuckedShares(restPrice, restNumbers) ==
    IF restNumbers = 1
    THEN {restPrice}
    ELSE 1 .. LuckedMax(restPrice, restNumbers) - 1
=============================================================================
