------------------------ MODULE DaoSubscribeProofs -------------------------
(***************************************************************************)
(* The safety properties of DaoSubscribe, for any number of requests and   *)
(* deliveries, faults and restarts: IInv is inductive.                     *)
(***************************************************************************)
EXTENDS DaoSubscribe, TLAPS

\* A request that looks for an order keeps the invariant.
LEMMA FindSteps ==
  ASSUME IInv, NEW r \in Requests,
         Arrive(r) \/ FindNone(r) \/ FindOld(r) \/ FindError(r)
  PROVE  IInv'
  <1> USE SubscribeAssumption DEF IInv, psub, request, delivery, gateway, history,
                                  Ended, Settled, DaoSubscribeT
  <1>1. CASE Arrive(r)
    <2>1. TypeOK'
      BY <1>1 DEF Arrive, IsSubscribeDAO, Answer, Fault, TypeOK
    <2>2. (OrdersNamed /\ ChannelsNamed)'
      BY <1>1 DEF Arrive, IsSubscribeDAO, Answer, OrdersNamed, ChannelsNamed,
        TypeOK
    <2>3. (ClosedWasOpen /\ NoStray)'
      BY <1>1 DEF Arrive, IsSubscribeDAO, Answer, ClosedWasOpen, NoStray, TypeOK
    <2>4. (OrderFollowsPayment /\ HeardIsStored)'
      BY <1>1 DEF Arrive, IsSubscribeDAO, OrderFollowsPayment, HeardIsStored
    <2>5. ToldIsPaid'
      BY <1>1 DEF Arrive, IsSubscribeDAO, Answer, Fault, Trouble, ToldIsPaid,
        TypeOK, OrdersNamed, OrderFollowsPayment, HeardIsStored, SubStatus
    <2>6. (ClosedByAnother /\ PanicIsShared)'
      BY <1>1 DEF Arrive, IsSubscribeDAO, Answer, ClosedByAnother, PanicIsShared,
        TypeOK
    <2>7. MakersAreRivals'
      BY <1>1 DEF Arrive, IsSubscribeDAO, Answer, Fault, MakersAreRivals, TypeOK
    <2> QED  BY <2>1, <2>2, <2>3, <2>4, <2>5, <2>6, <2>7 DEF IInv
  <1>2. CASE FindNone(r)
    <2>1. TypeOK'
      BY <1>2 DEF FindNone, Creating, TypeOK
    <2>2. (OrdersNamed /\ ChannelsNamed)'
      BY <1>2 DEF FindNone, OrdersNamed, ChannelsNamed, TypeOK
    <2>3. (ClosedWasOpen /\ NoStray)'
      BY <1>2 DEF FindNone, ClosedWasOpen, NoStray
    <2>4. (OrderFollowsPayment /\ HeardIsStored)'
      BY <1>2 DEF FindNone, OrderFollowsPayment, HeardIsStored, OrdersNamed
    <2>5. ToldIsPaid'
      BY <1>2 DEF FindNone, ToldIsPaid
    <2>6. (ClosedByAnother /\ PanicIsShared)'
      BY <1>2 DEF FindNone, ClosedByAnother, PanicIsShared, OrdersNamed
    <2>7. MakersAreRivals'
      BY <1>2 DEF FindNone, Found, Creating, MakersAreRivals, TypeOK
    <2> QED  BY <2>1, <2>2, <2>3, <2>4, <2>5, <2>6, <2>7 DEF IInv
  <1>3. CASE FindOld(r)
    <2>1. TypeOK'
      BY <1>3 DEF FindOld, Found, Answer, TypeOK
    <2>2. (OrdersNamed /\ ChannelsNamed)'
      BY <1>3 DEF FindOld, Found, Answer, OrdersNamed, ChannelsNamed, TypeOK
    <2>3. (ClosedWasOpen /\ NoStray)'
      BY <1>3 DEF FindOld, Answer, ClosedWasOpen, NoStray, TypeOK
    <2>4. (OrderFollowsPayment /\ HeardIsStored)'
      BY <1>3 DEF FindOld, OrderFollowsPayment, HeardIsStored, TypeOK, OrdersNamed
    <2>5. ToldIsPaid'
      BY <1>3 DEF FindOld, Found, Answer, ToldIsPaid, TypeOK,
        OrderFollowsPayment, SubStatus
    <2>6. (ClosedByAnother /\ PanicIsShared)'
      BY <1>3 DEF FindOld, Answer, ClosedByAnother, PanicIsShared, TypeOK,
        OrdersNamed
    <2>7. MakersAreRivals'
      BY <1>3 DEF FindOld, Answer, MakersAreRivals, TypeOK, OrdersNamed
    <2> QED  BY <2>1, <2>2, <2>3, <2>4, <2>5, <2>6, <2>7 DEF IInv
  <1>4. CASE FindError(r)
    <2>1. TypeOK'
      BY <1>4 DEF FindError, Answer, Fault, TypeOK
    <2>2. (OrdersNamed /\ ChannelsNamed)'
      BY <1>4 DEF FindError, Answer, OrdersNamed, ChannelsNamed
    <2>3. (ClosedWasOpen /\ NoStray)'
      BY <1>4 DEF FindError, Answer, ClosedWasOpen, NoStray
    <2>4. (OrderFollowsPayment /\ HeardIsStored)'
      BY <1>4 DEF FindError, OrderFollowsPayment, HeardIsStored
    <2>5. ToldIsPaid'
      BY <1>4 DEF FindError, Answer, ToldIsPaid
    <2>6. (ClosedByAnother /\ PanicIsShared)'
      BY <1>4 DEF FindError, Answer, ClosedByAnother, PanicIsShared
    <2>7. MakersAreRivals'
      BY <1>4 DEF FindError, Fault, MakersAreRivals, TypeOK
    <2> QED  BY <2>1, <2>2, <2>3, <2>4, <2>5, <2>6, <2>7 DEF IInv
  <1> QED  BY <1>1, <1>2, <1>3, <1>4

\* A request that makes an order keeps the invariant.
LEMMA OrderSteps ==
  ASSUME IInv, NEW r \in Requests,
         Order(r) \/ Commit(r) \/ UpdateTxID(r)
  PROVE  IInv'
  <1> USE SubscribeAssumption DEF IInv, psub, request, delivery, gateway, history,
                                  Ended, Settled, DaoSubscribeT
  <1>1. CASE Order(r)
    <2>1. TypeOK'
      BY <1>1 DEF Order, Leave, Fault, Trouble, TypeOK, OrdersNamed, ChannelsNamed
    <2>2. (OrdersNamed /\ ChannelsNamed)'
      BY <1>1 DEF Order, Leave, OrdersNamed, ChannelsNamed, TypeOK
    <2>3. (ClosedWasOpen /\ NoStray)'
      BY <1>1 DEF Order, Leave, ClosedWasOpen, NoStray, TypeOK, OrdersNamed
    <2>4. (OrderFollowsPayment /\ HeardIsStored)'
      BY <1>1 DEF Order, Leave, OrderFollowsPayment, HeardIsStored, TypeOK,
        OrdersNamed
    <2>5. ToldIsPaid'
      BY <1>1 DEF Order, ToldIsPaid, TypeOK, OrdersNamed
    <2>6. (ClosedByAnother /\ PanicIsShared)'
      BY <1>1 DEF Order, Leave, ClosedByAnother, PanicIsShared, TypeOK,
        ClosedWasOpen
    <2>7. MakersAreRivals'
      BY <1>1 DEF Order, Fault, MakersAreRivals, TypeOK
    <2> QED  BY <2>1, <2>2, <2>3, <2>4, <2>5, <2>6, <2>7 DEF IInv
  <1>2. CASE Commit(r)
    <2>1. TypeOK'
      BY <1>2 DEF Commit, Leave, Fault, TypeOK
    <2>2. (OrdersNamed /\ ChannelsNamed)'
      BY <1>2 DEF Commit, Leave, OrdersNamed, ChannelsNamed, TypeOK
    <2>3. (ClosedWasOpen /\ NoStray)'
      BY <1>2 DEF Commit, Leave, ClosedWasOpen, NoStray, TypeOK
    <2>4. (OrderFollowsPayment /\ HeardIsStored)'
      BY <1>2 DEF Commit, Leave, OrderFollowsPayment, HeardIsStored, TypeOK,
        OrdersNamed
    <2>5. ToldIsPaid'
      BY <1>2 DEF Commit, ToldIsPaid, TypeOK, OrdersNamed
    <2>6. (ClosedByAnother /\ PanicIsShared)'
      BY <1>2 DEF Commit, Leave, ClosedByAnother, PanicIsShared, TypeOK
    <2>7. MakersAreRivals'
      BY <1>2 DEF Commit, Fault, MakersAreRivals, TypeOK
    <2> QED  BY <2>1, <2>2, <2>3, <2>4, <2>5, <2>6, <2>7 DEF IInv
  <1>3. CASE UpdateTxID(r)
    <2>1. TypeOK'
      BY <1>3 DEF UpdateTxID, TypeOK
    <2>2. (OrdersNamed /\ ChannelsNamed)'
      BY <1>3 DEF UpdateTxID, OrdersNamed, ChannelsNamed
    <2>3. (ClosedWasOpen /\ NoStray)'
      BY <1>3 DEF UpdateTxID, ClosedWasOpen, NoStray
    <2>4. (OrderFollowsPayment /\ HeardIsStored)'
      BY <1>3 DEF UpdateTxID, OrderFollowsPayment, HeardIsStored
    <2>5. ToldIsPaid'
      BY <1>3 DEF UpdateTxID, ToldIsPaid
    <2>6. (ClosedByAnother /\ PanicIsShared)'
      BY <1>3 DEF UpdateTxID, ClosedByAnother, PanicIsShared
    <2>7. MakersAreRivals'
      BY <1>3 DEF UpdateTxID, MakersAreRivals
    <2> QED  BY <2>1, <2>2, <2>3, <2>4, <2>5, <2>6, <2>7 DEF IInv
  <1> QED  BY <1>1, <1>2, <1>3

\* A request that subscribes, waits or returns keeps the invariant.
LEMMA WaitSteps ==
  ASSUME IInv, NEW r \in Requests,
         Load(r) \/ Store(r) \/ Hear(r) \/ HearClosed(r) \/ Timeout(r) \/ Return(r)
  PROVE  IInv'
  <1> USE SubscribeAssumption DEF IInv, psub, request, delivery, gateway, history,
                                  Ended, Settled, DaoSubscribeT
  <1>1. CASE Load(r)
    <2>1. TypeOK'
      BY <1>1 DEF Load, TypeOK, OrdersNamed
    <2>2. (OrdersNamed /\ ChannelsNamed)'
      BY <1>1 DEF Load, OrdersNamed, ChannelsNamed, TypeOK, NoStray
    <2>3. (ClosedWasOpen /\ NoStray)'
      BY <1>1 DEF Load, ClosedWasOpen, NoStray, TypeOK
    <2>4. (OrderFollowsPayment /\ HeardIsStored)'
      BY <1>1 DEF Load, OrderFollowsPayment, HeardIsStored
    <2>5. ToldIsPaid'
      BY <1>1 DEF Load, ToldIsPaid
    <2>6. (ClosedByAnother /\ PanicIsShared)'
      BY <1>1 DEF Load, ClosedByAnother, PanicIsShared, TypeOK, OrdersNamed,
        NoStray
    <2>7. MakersAreRivals'
      BY <1>1 DEF Load, MakersAreRivals, TypeOK
    <2> QED  BY <2>1, <2>2, <2>3, <2>4, <2>5, <2>6, <2>7 DEF IInv
  <1>2. CASE Store(r)
    <2>1. TypeOK'
      BY <1>2 DEF Store, TypeOK
    <2>2. (OrdersNamed /\ ChannelsNamed)'
      BY <1>2 DEF Store, OrdersNamed, ChannelsNamed, TypeOK
    <2>3. (ClosedWasOpen /\ NoStray)'
      BY <1>2 DEF Store, ClosedWasOpen, NoStray, TypeOK
    <2>4. (OrderFollowsPayment /\ HeardIsStored)'
      BY <1>2 DEF Store, OrderFollowsPayment, HeardIsStored
    <2>5. ToldIsPaid'
      BY <1>2 DEF Store, ToldIsPaid
    <2>6. (ClosedByAnother /\ PanicIsShared)'
      BY <1>2 DEF Store, ClosedByAnother, PanicIsShared, TypeOK, ClosedWasOpen,
        NoStray
    <2>7. MakersAreRivals'
      BY <1>2 DEF Store, MakersAreRivals
    <2> QED  BY <2>1, <2>2, <2>3, <2>4, <2>5, <2>6, <2>7 DEF IInv
  <1>3. CASE Hear(r)
    <2>1. TypeOK'
      BY <1>3 DEF Hear, Leave, TypeOK, OrdersNamed, ChannelsNamed
    <2>2. (OrdersNamed /\ ChannelsNamed)'
      BY <1>3 DEF Hear, Leave, OrdersNamed, ChannelsNamed, TypeOK
    <2>3. (ClosedWasOpen /\ NoStray)'
      BY <1>3 DEF Hear, Leave, ClosedWasOpen, NoStray
    <2>4. (OrderFollowsPayment /\ HeardIsStored)'
      BY <1>3 DEF Hear, Leave, OrderFollowsPayment, HeardIsStored, TypeOK,
        ChannelsNamed
    <2>5. ToldIsPaid'
      BY <1>3 DEF Hear, ToldIsPaid
    <2>6. (ClosedByAnother /\ PanicIsShared)'
      BY <1>3 DEF Hear, Leave, ClosedByAnother, PanicIsShared, TypeOK,
        ChannelsNamed
    <2>7. MakersAreRivals'
      BY <1>3 DEF Hear, Leave, MakersAreRivals
    <2> QED  BY <2>1, <2>2, <2>3, <2>4, <2>5, <2>6, <2>7 DEF IInv
  <1>4. CASE HearClosed(r)
    <2>1. TypeOK'
      BY <1>4 DEF HearClosed, Leave, TypeOK
    <2>2. (OrdersNamed /\ ChannelsNamed)'
      BY <1>4 DEF HearClosed, Leave, OrdersNamed, ChannelsNamed
    <2>3. (ClosedWasOpen /\ NoStray)'
      BY <1>4 DEF HearClosed, Leave, ClosedWasOpen, NoStray
    <2>4. (OrderFollowsPayment /\ HeardIsStored)'
      BY <1>4 DEF HearClosed, Leave, OrderFollowsPayment, HeardIsStored
    <2>5. ToldIsPaid'
      BY <1>4 DEF HearClosed, ToldIsPaid
    <2>6. (ClosedByAnother /\ PanicIsShared)'
      BY <1>4 DEF HearClosed, Leave, ClosedByAnother, PanicIsShared
    <2>7. MakersAreRivals'
      BY <1>4 DEF HearClosed, Leave, MakersAreRivals
    <2> QED  BY <2>1, <2>2, <2>3, <2>4, <2>5, <2>6, <2>7 DEF IInv
  <1>5. CASE Timeout(r)
    <2>1. TypeOK'
      BY <1>5 DEF Timeout, Leave, TypeOK
    <2>2. (OrdersNamed /\ ChannelsNamed)'
      BY <1>5 DEF Timeout, Leave, OrdersNamed, ChannelsNamed
    <2>3. (ClosedWasOpen /\ NoStray)'
      BY <1>5 DEF Timeout, Leave, ClosedWasOpen, NoStray
    <2>4. (OrderFollowsPayment /\ HeardIsStored)'
      BY <1>5 DEF Timeout, Leave, OrderFollowsPayment, HeardIsStored
    <2>5. ToldIsPaid'
      BY <1>5 DEF Timeout, ToldIsPaid
    <2>6. (ClosedByAnother /\ PanicIsShared)'
      BY <1>5 DEF Timeout, Leave, ClosedByAnother, PanicIsShared, NoStray
    <2>7. MakersAreRivals'
      BY <1>5 DEF Timeout, Leave, MakersAreRivals, OrdersNamed
    <2> QED  BY <2>1, <2>2, <2>3, <2>4, <2>5, <2>6, <2>7 DEF IInv
  <1>6. CASE Return(r)
    <2>1. TypeOK'
      BY <1>6 DEF Return, Cancel, Answer, Fault, TypeOK, OrdersNamed
    <2>2. (OrdersNamed /\ ChannelsNamed)'
      BY <1>6 DEF Return, Answer, OrdersNamed, ChannelsNamed, TypeOK, NoStray
    <2>3. (ClosedWasOpen /\ NoStray)'
      BY <1>6 DEF Return, Cancel, Answer, ClosedWasOpen, NoStray, TypeOK,
        OrdersNamed, ChannelsNamed
    <2>4. (OrderFollowsPayment /\ HeardIsStored)'
      BY <1>6 DEF Return, OrderFollowsPayment, HeardIsStored
    <2>5. ToldIsPaid'
      BY <1>6 DEF Return, Cancel, Answer, Fault, ToldIsPaid, TypeOK, OrdersNamed,
        HeardIsStored, SubStatus
    <2>6. (ClosedByAnother /\ PanicIsShared)'
      BY <1>6 DEF Return, Cancel, Answer, Fault, Trouble, ClosedByAnother,
        PanicIsShared, TypeOK, OrdersNamed, ChannelsNamed, NoStray
    <2>7. MakersAreRivals'
      BY <1>6 DEF Return, Cancel, Answer, Fault, Trouble, MakersAreRivals, TypeOK
    <2> QED  BY <2>1, <2>2, <2>3, <2>4, <2>5, <2>6, <2>7 DEF IInv
  <1> QED  BY <1>1, <1>2, <1>3, <1>4, <1>5, <1>6

\* The end of a payment keeps the invariant.
LEMMA SettleStep ==
  ASSUME IInv, NEW o \in Requests, GatewaySettles(o)
  PROVE  IInv'
  <1> USE SubscribeAssumption DEF IInv, psub, request, delivery, gateway, history,
                                  Ended, Settled, DaoSubscribeT
  <1>1. CASE GatewaySettles(o)
    <2>1. TypeOK'
      BY <1>1 DEF GatewaySettles, TypeOK
    <2>2. (OrdersNamed /\ ChannelsNamed)'
      BY <1>1 DEF GatewaySettles, OrdersNamed, ChannelsNamed
    <2>3. (ClosedWasOpen /\ NoStray)'
      BY <1>1 DEF GatewaySettles, ClosedWasOpen, NoStray
    <2>4. (OrderFollowsPayment /\ HeardIsStored)'
      BY <1>1 DEF GatewaySettles, OrderFollowsPayment, HeardIsStored
    <2>5. ToldIsPaid'
      BY <1>1 DEF GatewaySettles, ToldIsPaid
    <2>6. (ClosedByAnother /\ PanicIsShared)'
      BY <1>1 DEF GatewaySettles, ClosedByAnother, PanicIsShared
    <2>7. MakersAreRivals'
      BY <1>1 DEF GatewaySettles, MakersAreRivals
    <2> QED  BY <2>1, <2>2, <2>3, <2>4, <2>5, <2>6, <2>7 DEF IInv
  <1> QED  BY <1>1

\* A callback that stores the end of a payment keeps the invariant.
LEMMA DeliverySteps ==
  ASSUME IInv, NEW h \in Handlers, NEW o \in Requests, Deliver(h, o)
  PROVE  IInv'
  <1> USE SubscribeAssumption DEF IInv, psub, request, delivery, gateway, history,
                                  Ended, Settled, DaoSubscribeT
  <1>1. CASE Deliver(h, o)
    <2>1. TypeOK'
      BY <1>1 DEF Deliver, Delivers, SubStatus, TypeOK
    <2>2. (OrdersNamed /\ ChannelsNamed)'
      BY <1>1 DEF Deliver, SubStatus, OrdersNamed, ChannelsNamed, TypeOK
    <2>3. (ClosedWasOpen /\ NoStray)'
      BY <1>1 DEF Deliver, ClosedWasOpen, NoStray
    <2>4. (OrderFollowsPayment /\ HeardIsStored)'
      BY <1>1 DEF Deliver, OrderFollowsPayment, HeardIsStored, TypeOK
    <2>5. ToldIsPaid'
      BY <1>1 DEF Deliver, ToldIsPaid, OrderFollowsPayment
    <2>6. (ClosedByAnother /\ PanicIsShared)'
      BY <1>1 DEF Deliver, ClosedByAnother, PanicIsShared
    <2>7. MakersAreRivals'
      BY <1>1 DEF Deliver, SubStatus, MakersAreRivals
    <2> QED  BY <2>1, <2>2, <2>3, <2>4, <2>5, <2>6, <2>7 DEF IInv
  <1> QED  BY <1>1

\* The two halves of Notify keep the invariant.
LEMMA NotifySteps ==
  ASSUME IInv, NEW h \in Handlers, NotifyLoad(h) \/ NotifySend(h)
  PROVE  IInv'
  <1> USE SubscribeAssumption DEF IInv, psub, request, delivery, gateway, history,
                                  Ended, Settled, DaoSubscribeT
  <1>1. CASE NotifyLoad(h)
    <2>1. TypeOK'
      BY <1>1 DEF NotifyLoad, HandlerIdle, TypeOK, ChannelsNamed
    <2>2. (OrdersNamed /\ ChannelsNamed)'
      BY <1>1 DEF NotifyLoad, HandlerIdle, OrdersNamed, ChannelsNamed, TypeOK,
        NoStray
    <2>3. (ClosedWasOpen /\ NoStray)'
      BY <1>1 DEF NotifyLoad, ClosedWasOpen, NoStray
    <2>4. (OrderFollowsPayment /\ HeardIsStored)'
      BY <1>1 DEF NotifyLoad, OrderFollowsPayment, HeardIsStored
    <2>5. ToldIsPaid'
      BY <1>1 DEF NotifyLoad, ToldIsPaid
    <2>6. (ClosedByAnother /\ PanicIsShared)'
      BY <1>1 DEF NotifyLoad, ClosedByAnother, PanicIsShared
    <2>7. MakersAreRivals'
      BY <1>1 DEF NotifyLoad, MakersAreRivals
    <2> QED  BY <2>1, <2>2, <2>3, <2>4, <2>5, <2>6, <2>7 DEF IInv
  <1>2. CASE NotifySend(h)
    <2>1. TypeOK'
      BY <1>2 DEF NotifySend, HandlerIdle, SubStatus, TypeOK, ChannelsNamed
    <2>2. (OrdersNamed /\ ChannelsNamed)'
      BY <1>2 DEF NotifySend, HandlerIdle, OrdersNamed, ChannelsNamed, TypeOK
    <2>3. (ClosedWasOpen /\ NoStray)'
      BY <1>2 DEF NotifySend, ClosedWasOpen, NoStray
    <2>4. (OrderFollowsPayment /\ HeardIsStored)'
      BY <1>2 DEF NotifySend, OrderFollowsPayment, HeardIsStored, TypeOK,
        ChannelsNamed
    <2>5. ToldIsPaid'
      BY <1>2 DEF NotifySend, ToldIsPaid
    <2>6. (ClosedByAnother /\ PanicIsShared)'
      BY <1>2 DEF NotifySend, ClosedByAnother, PanicIsShared
    <2>7. MakersAreRivals'
      BY <1>2 DEF NotifySend, MakersAreRivals
    <2> QED  BY <2>1, <2>2, <2>3, <2>4, <2>5, <2>6, <2>7 DEF IInv
  <1> QED  BY <1>1, <1>2

\* A restart keeps the invariant.
LEMMA CrashStep ==
  ASSUME IInv, Crash
  PROVE  IInv'
  <1> USE SubscribeAssumption DEF IInv, psub, request, delivery, gateway, history,
                                  Ended, Settled, DaoSubscribeT
  <1>1. CASE Crash
    <2>1. TypeOK'
      BY <1>1 DEF Crash, TypeOK
    <2>2. (OrdersNamed /\ ChannelsNamed)'
      BY <1>1 DEF Crash, OrdersNamed, ChannelsNamed
    <2>3. (ClosedWasOpen /\ NoStray)'
      BY <1>1 DEF Crash, ClosedWasOpen, NoStray
    <2>4. (OrderFollowsPayment /\ HeardIsStored)'
      BY <1>1 DEF Crash, OrderFollowsPayment, HeardIsStored
    <2>5. ToldIsPaid'
      BY <1>1 DEF Crash, ToldIsPaid
    <2>6. (ClosedByAnother /\ PanicIsShared)'
      BY <1>1 DEF Crash, ClosedByAnother, PanicIsShared
    <2>7. MakersAreRivals'
      BY <1>1 DEF Crash, MakersAreRivals, TypeOK
    <2> QED  BY <2>1, <2>2, <2>3, <2>4, <2>5, <2>6, <2>7 DEF IInv
  <1> QED  BY <1>1

LEMMA StutterStep == ASSUME IInv, UNCHANGED vars PROVE IInv'
  <1> USE DEF vars, psub, request, delivery, gateway, history, IInv
  <1>1. (TypeOK /\ OrdersNamed /\ ChannelsNamed /\ ClosedWasOpen /\ NoStray)'
    BY DEF TypeOK, OrdersNamed, ChannelsNamed, ClosedWasOpen, NoStray
  <1>2. (OrderFollowsPayment /\ HeardIsStored /\ ToldIsPaid)'
    BY DEF OrderFollowsPayment, HeardIsStored, ToldIsPaid
  <1>3. (ClosedByAnother /\ PanicIsShared /\ MakersAreRivals)'
    BY DEF ClosedByAnother, PanicIsShared, MakersAreRivals
  <1> QED  BY <1>1, <1>2, <1>3

LEMMA InitIInv == Init => IInv
  <1> SUFFICES ASSUME Init PROVE IInv
    OBVIOUS
  <1> USE SubscribeAssumption DEF Init, IInv, Ended, Settled, DaoSubscribeT
  <1>1. TypeOK
    BY DEF TypeOK
  <1>2. OrdersNamed /\ ChannelsNamed /\ ClosedWasOpen /\ NoStray
    BY DEF OrdersNamed, ChannelsNamed, ClosedWasOpen, NoStray
  <1>3. OrderFollowsPayment /\ HeardIsStored /\ ToldIsPaid
    BY DEF OrderFollowsPayment, HeardIsStored, ToldIsPaid
  <1>4. ClosedByAnother /\ PanicIsShared /\ MakersAreRivals
    BY DEF ClosedByAnother, PanicIsShared, MakersAreRivals
  <1> QED  BY <1>1, <1>2, <1>3, <1>4

LEMMA NextIInv == IInv /\ [Next]_vars => IInv'
  <1> SUFFICES ASSUME IInv, [Next]_vars PROVE IInv'
    OBVIOUS
  <1>1. ASSUME NEW r \in Requests, Arrive(r) \/ RequestStep(r) \/ FindError(r) \/ Timeout(r)
        PROVE  IInv'
    BY <1>1, FindSteps, OrderSteps, WaitSteps DEF RequestStep
  <1>2. ASSUME NEW o \in Requests, GatewaySettles(o) PROVE IInv'
    BY <1>2, SettleStep
  <1>3. ASSUME NEW h \in Handlers, NEW o \in Requests, Deliver(h, o) PROVE IInv'
    BY <1>3, DeliverySteps
  <1>4. ASSUME NEW h \in Handlers, NotifyLoad(h) \/ NotifySend(h) PROVE IInv'
    BY <1>4, NotifySteps
  <1> QED  BY <1>1, <1>2, <1>3, <1>4, CrashStep, StutterStep DEF Next

THEOREM Invariant == Spec => []IInv
  BY InitIInv, NextIInv, PTL DEF Spec

-----------------------------------------------------------------------------
(* What follows from it. *)

\* Every variable keeps its type.
THEOREM TypeCorrect == Spec => []TypeOK
  BY Invariant, PTL DEF IInv

\* However NewSubscribe's Load and Store and Cancel's delete by key interleave, the
\* map holds only open channels of requests that will still cancel them.
THEOREM NothingStrays == Spec => []NoStray
  BY Invariant, PTL DEF IInv

\* What a request hears is the stored end of its own order's payment.
THEOREM AnswersAreStored == Spec => []HeardIsStored
  BY Invariant, PTL DEF IInv

\* A user is told of a subscription only if there is a paid and stored order.
THEOREM SubscribersHavePaid == Spec => []ToldIsPaid
  BY Invariant, PTL DEF IInv

\* No request panics on a closed channel unless another waited for its order.
THEOREM PanicNeedsAnother == Spec => []PanicIsShared
  BY Invariant, PTL DEF IInv

\* A user is charged twice only by two requests that raced, or after a failure.
THEOREM SecondChargeIsRace == Spec => []PaidTwiceIsRace
  <1>1. ASSUME IInv PROVE PaidTwiceIsRace
    <2> USE <1>1 DEF IInv
    <2>1. \A o \in Charged : o \in Requests /\ oid[o] = o
      BY DEF Charged, OrdersNamed
    <2> QED  BY <2>1 DEF MakersAreRivals, PaidTwiceIsRace
  <1> QED  BY <1>1, Invariant, PTL
=============================================================================
