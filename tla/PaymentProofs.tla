---------------------------- MODULE PaymentProofs ----------------------------
(* Machine-checked proofs of Payment's safety properties, for every number *)
(* of users, orders, tokens, packets and threads.                          *)
EXTENDS PaymentProperties, TLAPS

\* What Start and Finished write into a thread is well typed.
LEMMA FinishedType ==
    ASSUME NEW w \in Workers, WorkerType, Finished(w) PROVE WorkerType'
<1>1. NoJob \in Job /\ NoDraft \in Draft
  BY DEF NoJob, Job, NoDraft, Draft, PaidKinds
<1> QED
  BY <1>1 DEF WorkerType, Finished

LEMMA StartType ==
    ASSUME NEW w \in Workers, NEW o \in Orders, NEW kind \in PaidKinds,
           NEW phase \in {"precreate", "marked"}, WorkerType,
           Start(w, phase, o, kind)
    PROVE  WorkerType'
<1>1. [order |-> o, kind |-> kind] \in Job
  BY DEF Job
<1> QED
  BY <1>1 DEF WorkerType, Start

\* A busy thread's order is an existing row, so its user and packet exist.
LEMMA BusyOrder ==
    ASSUME TypeOK, OrderInv, WorkerInv, NEW w \in Workers, pc[w] # "idle"
    PROVE  /\ job[w].order \in Orders /\ job[w].kind \in PaidKinds
           /\ UserOf(w) \in Users
           /\ order[job[w].order].packet \in Packets
           /\ PacketOf(w) \in [present : BOOLEAN, enabled : BOOLEAN,
                               months : Months]
           /\ orderStatus[job[w].order] # "absent"
<1>1. job[w] \in Job
  BY DEF TypeOK, WorkerType
<1>2. job[w].order \in Orders /\ job[w].kind \in PaidKinds
  BY <1>1 DEF WorkerInv, Job
<1>3. orderStatus[job[w].order] # "absent"
  BY DEF WorkerInv
<1> QED
  BY <1>2, <1>3 DEF OrderInv, UserOf, PacketOf, TypeOK

\* The variables keep their types: no action of the server, the job, the
\* administrator or Alipay writes a value of another shape.
LEMMA TypeStep ==
    TypeOK /\ OrderInv /\ WorkerInv /\ [Next]_vars => TypeOK'
<1> SUFFICES ASSUME TypeOK, OrderInv, WorkerInv, [Next]_vars PROVE TypeOK'
  OBVIOUS
<1>a. WorkerType
  BY DEF TypeOK
<1> USE DEF TypeOK, tokenVars, orderVars, alipayVars, history
<1>1. ASSUME NEW u \in Users, NEW t \in Tokens, OpenPayPage(u, t) PROVE TypeOK'
  BY <1>1 DEF OpenPayPage, workerVars, WorkerType, TokenStatus
<1>2. ASSUME NEW w \in Workers, NEW u \in Users, NEW t \in Tokens,
             NEW p \in Packets, NEW o \in Orders, NEW alipay \in BOOLEAN,
             CreateOrder(w, u, t, p, o, alipay)
      PROVE  TypeOK'
  <2>1. WorkerType'
    <3>1. CASE alipay
      BY <1>2, <1>a, <3>1, StartType DEF CreateOrder, PaidKinds
    <3>2. CASE ~alipay
      BY <1>2, <1>a, <3>2 DEF CreateOrder, workerVars, WorkerType
    <3> QED
      BY <3>1, <3>2
  <2> QED
    BY <1>2, <2>1 DEF CreateOrder, OrderStatus, TokenStatus
<1>3. ASSUME NEW w \in Workers, PrecreateOk(w) PROVE TypeOK'
  BY <1>3, <1>a, FinishedType DEF PrecreateOk, TradeStatus
<1>4. ASSUME NEW w \in Workers, PrecreateFails(w) PROVE TypeOK'
  BY <1>4, <1>a, FinishedType DEF PrecreateFails, OrderStatus
<1>5. ASSUME NEW w \in Workers, ComputeActivation(w) PROVE TypeOK'
  <2>1. /\ UserOf(w) \in Users
        /\ PacketOf(w) \in [present : BOOLEAN, enabled : BOOLEAN,
                            months : Months]
    BY <1>5, BusyOrder DEF ComputeActivation
  <2>2. /\ PacketOf(w).months \in Int
        /\ users[UserOf(w)].expiration \in Int
        /\ users[UserOf(w)].cumulative \in Int
        /\ granted[UserOf(w)] \in Int
    BY <2>1, PaymentAssumption
  <2>3. Later(users[UserOf(w)].expiration, now) \in Int
    BY <2>2 DEF Later
  <2>4. draft'[w] \in Draft /\ draft' \in [Workers -> Draft]
    BY <1>5, <2>2, <2>3 DEF ComputeActivation, Draft, WorkerType
  <2>5. WorkerType'
    BY <1>5, <2>4 DEF ComputeActivation, WorkerType
  <2> QED
    BY <1>5, <2>5 DEF ComputeActivation
<1>6. ASSUME NEW w \in Workers, RollBackActivation(w) PROVE TypeOK'
  BY <1>6, <1>a, FinishedType DEF RollBackActivation
<1>7. ASSUME NEW w \in Workers, CommitActivation(w) PROVE TypeOK'
  <2>1. /\ job[w].order \in Orders /\ job[w].kind \in PaidKinds
        /\ UserOf(w) \in Users
    BY <1>7, BusyOrder DEF CommitActivation
  <2>2. job[w] \in Notice
    BY <2>1 DEF WorkerType, Job, Notice
  <2>3. WorkerType'
    BY <1>7, <1>a, FinishedType DEF CommitActivation
  <2>4. draft[w] \in Draft
    BY <1>a DEF WorkerType
  <2>5. /\ users' \in [Users -> [expiration : Int, cumulative : Int]]
        /\ granted' \in [Users -> Int]
    BY <1>7, <2>1, <2>4 DEF CommitActivation, Draft
  <2>6. raced' \in [Users -> BOOLEAN]
    BY <1>7, <2>1 DEF CommitActivation
  <2>7. /\ orderStatus' \in [Orders -> OrderStatus]
        /\ activated' \in [Orders -> Nat]
        /\ acked' \subseteq Notice
    BY <1>7, <2>1, <2>2 DEF CommitActivation, OrderStatus
  <2> QED
    BY <1>7, <2>3, <2>5, <2>6, <2>7 DEF CommitActivation
<1>8. ASSUME NEW n \in notices, NEW w \in Workers, MarkSuccess(w, n) PROVE TypeOK'
  BY <1>8, <1>a, StartType DEF MarkSuccess, ReportsPayment, Notice
<1>9. ASSUME NEW n \in notices, IgnoreDuplicate(n) PROVE TypeOK'
  BY <1>9 DEF IgnoreDuplicate, workerVars, WorkerType
<1>10. ASSUME NEW n \in notices, HandleTradeClosed(n) PROVE TypeOK'
  BY <1>10 DEF HandleTradeClosed, OrderStatus, workerVars, WorkerType
<1>11. ASSUME CloseExpiredPendingOrders PROVE TypeOK'
  BY <1>11 DEF CloseExpiredPendingOrders, ClosedStatus, Lapsed, OrderStatus, TokenStatus, workerVars,
               WorkerType
<1>12. ASSUME NEW p \in Packets, DeletePacket(p) PROVE TypeOK'
  BY <1>12 DEF DeletePacket, WritePacket, workerVars, WorkerType
<1>13. ASSUME NEW p \in Packets, NEW enabled \in BOOLEAN, NEW m \in Months,
              SavePacket(p, enabled, m)
       PROVE  TypeOK'
  BY <1>13 DEF SavePacket, WritePacket, workerVars, WorkerType
<1>14. ASSUME NEW t \in Tokens, TokenTimeUp(t) PROVE TypeOK'
  BY <1>14 DEF TokenTimeUp, workerVars, WorkerType
<1>15. ASSUME NEW o \in Orders, OrderTimeUp(o) PROVE TypeOK'
  BY <1>15 DEF OrderTimeUp, workerVars, WorkerType
<1>16. ASSUME NEW o \in Orders, Pay(o) \/ TimeOut(o) \/ Refund(o) \/ Finish(o)
       PROVE  TypeOK'
  <2>1. PICK from, to \in TradeStatus,
             kind \in {"TRADE_SUCCESS", "TRADE_FINISHED", "TRADE_CLOSED"} :
             TradeMoves(o, from, to, kind)
    BY <1>16 DEF Pay, TimeOut, Refund, Finish, TradeStatus
  <2>2. [order |-> o, kind |-> kind] \in Notice
    BY DEF Notice, PaidKinds
  <2> QED
    BY <2>1, <2>2 DEF TradeMoves, workerVars, WorkerType
<1>17. ASSUME Tick PROVE TypeOK'
  BY <1>17 DEF Tick, workerVars, WorkerType
<1>18. ASSUME Crash PROVE TypeOK'
  <2>1. NoJob \in Job /\ NoDraft \in Draft
    BY DEF NoJob, Job, NoDraft, Draft, PaidKinds
  <2> QED
    BY <1>18, <2>1 DEF Crash, WorkerType
<1>19. ASSUME UNCHANGED vars PROVE TypeOK'
  BY <1>19 DEF vars, workerVars, WorkerType
<1> QED
  BY <1>1, <1>2, <1>3, <1>4, <1>5, <1>6, <1>7, <1>8, <1>9, <1>10, <1>11, <1>12,
     <1>13, <1>14, <1>15, <1>16, <1>17, <1>18, <1>19 DEF Next

\* Notified orders exist: Alipay only knows orders the server announced.
LEMMA NoticeOrder ==
    ASSUME TypeOK, OrderInv, NoticeInv, NEW n \in notices
    PROVE  n.order \in Orders /\ orderStatus[n.order] # "absent"
<1>1. n.order \in Orders
  BY DEF TypeOK, Notice
<1>2. trades[n.order] # "none"
  BY DEF NoticeInv, EverPaid
<1> QED
  BY <1>1, <1>2 DEF OrderInv

\* OrderInv is kept: rows refer to existing users and packets and to a token
\* that useSubmitToken has spent.
LEMMA OrderStep ==
    TypeOK /\ OrderInv /\ NoticeInv /\ WorkerInv /\ [Next]_vars => OrderInv'
<1> SUFFICES ASSUME TypeOK, OrderInv, NoticeInv, WorkerInv, [Next]_vars
             PROVE  OrderInv'
  OBVIOUS
<1>a. /\ tokenStatus \in [Tokens -> TokenStatus]
      /\ orderStatus \in [Orders -> OrderStatus]
      /\ trades \in [Orders -> TradeStatus]
      /\ order \in [Orders -> [user : Users \cup {NoUser},
                               packet : Packets \cup {NoPacket},
                               token : Tokens \cup {NoToken},
                               alipay : BOOLEAN]]
  BY DEF TypeOK
<1> USE DEF OrderInv, tokenVars, orderVars, alipayVars
<1>1. ASSUME NEW u \in Users, NEW t \in Tokens, OpenPayPage(u, t) PROVE OrderInv'
  BY <1>1, <1>a DEF OpenPayPage
<1>2. ASSUME NEW w \in Workers, NEW u \in Users, NEW t \in Tokens,
             NEW p \in Packets, NEW o \in Orders, NEW alipay \in BOOLEAN,
             CreateOrder(w, u, t, p, o, alipay)
      PROVE  OrderInv'
  BY <1>2, <1>a DEF CreateOrder
<1>3. ASSUME NEW w \in Workers, PrecreateOk(w) PROVE OrderInv'
  BY <1>3, <1>a, BusyOrder DEF PrecreateOk
<1>4. ASSUME NEW w \in Workers, PrecreateFails(w) PROVE OrderInv'
  BY <1>4, <1>a, BusyOrder DEF PrecreateFails
<1>5. ASSUME NEW w \in Workers, CommitActivation(w) PROVE OrderInv'
  BY <1>5, <1>a, BusyOrder DEF CommitActivation
<1>6. ASSUME NEW n \in notices, HandleTradeClosed(n) PROVE OrderInv'
  BY <1>6, <1>a, NoticeOrder DEF HandleTradeClosed
<1>7. ASSUME CloseExpiredPendingOrders PROVE OrderInv'
  BY <1>7, <1>a DEF CloseExpiredPendingOrders, ClosedStatus, Lapsed, Stale
<1>8. ASSUME NEW o \in Orders, Pay(o) \/ TimeOut(o) \/ Refund(o) \/ Finish(o)
      PROVE  OrderInv'
  <2>1. PICK from \in TradeStatus \ {"none"}, to \in TradeStatus,
             kind \in {"TRADE_SUCCESS", "TRADE_FINISHED", "TRADE_CLOSED"} :
             TradeMoves(o, from, to, kind)
    BY <1>8 DEF Pay, TimeOut, Refund, Finish, TradeStatus
  <2> QED
    BY <2>1, <1>a DEF TradeMoves
<1>9. ASSUME UNCHANGED <<tokenStatus, order, orderStatus, trades>>
      PROVE  OrderInv'
  BY <1>9
<1>10. ASSUME NEW w \in Workers, ComputeActivation(w) \/ RollBackActivation(w)
       PROVE  OrderInv'
  BY <1>9, <1>10 DEF ComputeActivation, RollBackActivation
<1>11. ASSUME NEW n \in notices,
              (\E w \in Workers : MarkSuccess(w, n)) \/ IgnoreDuplicate(n)
       PROVE  OrderInv'
  BY <1>9, <1>11 DEF MarkSuccess, IgnoreDuplicate
<1>12. ASSUME NEW p \in Packets,
              \/ DeletePacket(p)
              \/ \E enabled \in BOOLEAN, m \in Months : SavePacket(p, enabled, m)
       PROVE  OrderInv'
  BY <1>9, <1>12 DEF DeletePacket, SavePacket, WritePacket
<1>13. ASSUME \/ \E t \in Tokens : TokenTimeUp(t)
              \/ \E o \in Orders : OrderTimeUp(o)
              \/ Tick \/ Crash \/ UNCHANGED vars
       PROVE  OrderInv'
  BY <1>9, <1>13 DEF TokenTimeUp, OrderTimeUp, Tick, Crash, vars
<1> QED
  BY <1>1, <1>2, <1>3, <1>4, <1>5, <1>6, <1>7, <1>8, <1>10, <1>11, <1>12, <1>13
     DEF Next

\* A token's order is unique, because creating an order spends the token.
LEMMA TokenStep ==
    TypeOK /\ OrderInv /\ TokenBacksOneOrder /\ [Next]_vars
        => TokenBacksOneOrder'
<1> SUFFICES ASSUME TypeOK, OrderInv, TokenBacksOneOrder, [Next]_vars
             PROVE  TokenBacksOneOrder'
  OBVIOUS
<1>1. ASSUME NEW w \in Workers, NEW u \in Users, NEW t \in Tokens,
             NEW p \in Packets, NEW o \in Orders, NEW alipay \in BOOLEAN,
             CreateOrder(w, u, t, p, o, alipay)
      PROVE  TokenBacksOneOrder'
  <2>1. \A o2 \in Orders : order[o2].token # t
    BY <1>1, PaymentAssumption DEF CreateOrder, Usable, OrderInv
  <2> QED
    BY <1>1, <2>1 DEF CreateOrder, TokenBacksOneOrder, TypeOK
<1>2. ASSUME UNCHANGED order PROVE TokenBacksOneOrder'
  BY <1>2 DEF TokenBacksOneOrder
<1>3. CASE \E w \in Workers, u \in Users, t \in Tokens, p \in Packets,
              o \in Orders, alipay \in BOOLEAN : CreateOrder(w, u, t, p, o, alipay)
  BY <1>1, <1>3
<1>4. CASE UNCHANGED vars
  BY <1>2, <1>4 DEF vars, orderVars
<1> QED
  BY <1>2, <1>3, <1>4 DEF Next, OpenPayPage, PrecreateOk, PrecreateFails,
     ComputeActivation, RollBackActivation, CommitActivation, MarkSuccess,
     IgnoreDuplicate, HandleTradeClosed, CloseExpiredPendingOrders,
     DeletePacket, SavePacket, WritePacket, TokenTimeUp, OrderTimeUp, Pay,
     TimeOut, Refund, Finish, TradeMoves, Tick, Crash, orderVars

\* NoticeInv is kept: a notification outlives the trade state it reports only
\* for states that cannot be undone, and a payment is acknowledged only by the
\* commit of an activation or on finding the order SUCCESS.
LEMMA NoticeStep ==
    TypeOK /\ OrderInv /\ NoticeInv /\ ActivationInv /\ WorkerInv
        /\ [Next]_vars => NoticeInv'
<1> SUFFICES ASSUME TypeOK, OrderInv, NoticeInv, ActivationInv, WorkerInv,
                    [Next]_vars
             PROVE  NoticeInv'
  OBVIOUS
<1>a. /\ trades \in [Orders -> TradeStatus] /\ activated \in [Orders -> Nat]
      /\ notices \subseteq Notice /\ acked \subseteq Notice
  BY DEF TypeOK
<1>b. \A n \in Notice : n.order \in Orders
  BY DEF Notice
<1> USE DEF NoticeInv, EverPaid, PaidKinds, alipayVars, history
<1>1. ASSUME NEW w \in Workers, PrecreateOk(w) PROVE NoticeInv'
  <2>1. pc[w] = "precreate" /\ trades[job[w].order] = "none"
    BY <1>1 DEF PrecreateOk, WorkerInv
  <2>2. \A n \in notices : trades[n.order] # "none"
    OBVIOUS
  <2>3. \A n \in notices : trades'[n.order] = trades[n.order]
    BY <1>1, <1>a, <2>1, <2>2 DEF PrecreateOk
  <2> QED
    BY <1>1, <2>3 DEF PrecreateOk
<1>2. ASSUME NEW n \in notices, IgnoreDuplicate(n) PROVE NoticeInv'
  <2>1. activated[n.order] > 0
    BY <1>2, <1>a, <1>b DEF IgnoreDuplicate, ReportsPayment, Unpaid, ActivationInv
  <2> QED
    BY <1>2, <2>1 DEF IgnoreDuplicate
<1>3. ASSUME NEW n \in notices, HandleTradeClosed(n) PROVE NoticeInv'
  BY <1>3 DEF HandleTradeClosed
<1>4. ASSUME NEW w \in Workers, CommitActivation(w) PROVE NoticeInv'
  <2>1. job[w].order \in Orders /\ pc[w] = "computed"
    BY <1>4, BusyOrder DEF CommitActivation
  <2>2. \A o \in Orders : activated'[o] >= activated[o]
    BY <1>4, <1>a, <2>1 DEF CommitActivation
  <2>3. activated'[job[w].order] > 0
    BY <1>4, <1>a, <2>1 DEF CommitActivation
  <2>4. \A n \in acked' : n.kind \in PaidKinds => activated'[n.order] > 0
    BY <1>4, <1>a, <1>b, <2>1, <2>2, <2>3 DEF CommitActivation
  <2> QED
    BY <1>4, <2>4 DEF CommitActivation
<1>5. ASSUME NEW o \in Orders, Pay(o) \/ TimeOut(o) \/ Refund(o) \/ Finish(o)
      PROVE  NoticeInv'
  <2>1. CASE Pay(o)
    BY <2>1, <1>a, <1>b DEF Pay, TradeMoves
  <2>2. CASE TimeOut(o)
    BY <2>2, <1>a, <1>b DEF TimeOut, TradeMoves
  <2>3. CASE Refund(o)
    BY <2>3, <1>a, <1>b DEF Refund, TradeMoves
  <2>4. CASE Finish(o)
    BY <2>4, <1>a, <1>b DEF Finish, TradeMoves
  <2> QED
    BY <1>5, <2>1, <2>2, <2>3, <2>4
<1>6. ASSUME UNCHANGED <<trades, notices, acked, activated>> PROVE NoticeInv'
  BY <1>6
<1>7. CASE UNCHANGED vars
  BY <1>6, <1>7 DEF vars
<1>8. ASSUME NEW w \in Workers, \/ PrecreateFails(w) \/ ComputeActivation(w)
                               \/ RollBackActivation(w)
                               \/ \E n \in notices : MarkSuccess(w, n)
      PROVE  NoticeInv'
  BY <1>6, <1>8 DEF PrecreateFails, ComputeActivation, RollBackActivation,
                    MarkSuccess
<1> QED
  BY <1>1, <1>2, <1>3, <1>4, <1>5, <1>6, <1>7, <1>8 DEF Next, OpenPayPage,
     CreateOrder, CloseExpiredPendingOrders, DeletePacket, SavePacket,
     WritePacket, TokenTimeUp, OrderTimeUp, Tick, Crash

\* ActivationInv is kept: activation happens once per order that is not
\* refunded, because SUCCESS can only be left through a refund.
LEMMA ActivationStep ==
    TypeOK /\ OrderInv /\ NoticeInv /\ ActivationInv /\ WorkerInv
        /\ [Next]_vars => ActivationInv'
<1> SUFFICES ASSUME TypeOK, OrderInv, NoticeInv, ActivationInv, WorkerInv,
                    [Next]_vars
             PROVE  ActivationInv'
  OBVIOUS
<1>a. /\ trades \in [Orders -> TradeStatus] /\ activated \in [Orders -> Nat]
      /\ orderStatus \in [Orders -> OrderStatus] /\ notices \subseteq Notice
  BY DEF TypeOK
<1>b. \A n \in Notice : n.order \in Orders
  BY DEF Notice
<1> USE DEF ActivationInv, EverPaid, PaidKinds, alipayVars, history, orderVars
<1>1. ASSUME NEW w \in Workers, NEW u \in Users, NEW t \in Tokens,
             NEW p \in Packets, NEW o \in Orders, NEW alipay \in BOOLEAN,
             CreateOrder(w, u, t, p, o, alipay)
      PROVE  ActivationInv'
  BY <1>1, <1>a DEF CreateOrder, OrderInv
<1>2. ASSUME NEW w \in Workers, PrecreateOk(w) PROVE ActivationInv'
  BY <1>2, <1>a, BusyOrder DEF PrecreateOk, WorkerInv
<1>3. ASSUME NEW w \in Workers, PrecreateFails(w) PROVE ActivationInv'
  BY <1>3, <1>a, BusyOrder DEF PrecreateFails, WorkerInv
<1>4. ASSUME CloseExpiredPendingOrders PROVE ActivationInv'
  BY <1>4, <1>a DEF CloseExpiredPendingOrders, ClosedStatus, Lapsed
<1>5. ASSUME NEW w \in Workers, CommitActivation(w) PROVE ActivationInv'
  <2>1. /\ job[w].order \in Orders /\ pc[w] = "computed"
        /\ job[w].kind \in PaidKinds
    BY <1>5, BusyOrder DEF CommitActivation
  <2>2. job[w] \in notices /\ orderStatus[job[w].order] # "SUCCESS"
    BY <2>1 DEF WorkerInv
  <2>3. trades[job[w].order] \in {"paid", "finished", "refunded"}
    BY <2>1, <2>2 DEF NoticeInv
  <2>4. trades[job[w].order] # "refunded" => activated[job[w].order] = 0
    BY <1>a, <2>1, <2>2
  <2> QED
    BY <1>5, <1>a, <2>1, <2>2, <2>3, <2>4 DEF CommitActivation
<1>6. ASSUME NEW n \in notices, HandleTradeClosed(n) PROVE ActivationInv'
  <2>1. trades[n.order] \in {"timedOut", "refunded"} /\ n.order \in Orders
    BY <1>6, <1>a, <1>b DEF HandleTradeClosed, NoticeInv
  <2> QED
    BY <1>6, <1>a, <2>1 DEF HandleTradeClosed
<1>7. ASSUME NEW o \in Orders, Pay(o) \/ TimeOut(o) \/ Refund(o) \/ Finish(o)
      PROVE  ActivationInv'
  BY <1>7, <1>a DEF Pay, TimeOut, Refund, Finish, TradeMoves
<1>8. ASSUME UNCHANGED <<trades, orderStatus, activated>> PROVE ActivationInv'
  BY <1>8
<1>9. CASE UNCHANGED vars
  BY <1>8, <1>9 DEF vars
<1>10. ASSUME NEW w \in Workers, \/ ComputeActivation(w) \/ RollBackActivation(w)
                               \/ \E n \in notices : MarkSuccess(w, n)
      PROVE  ActivationInv'
  BY <1>8, <1>10 DEF ComputeActivation, RollBackActivation, MarkSuccess
<1> QED
  BY <1>1, <1>2, <1>3, <1>4, <1>5, <1>6, <1>7, <1>8, <1>9, <1>10 DEF Next,
     OpenPayPage, IgnoreDuplicate, DeletePacket, SavePacket, WritePacket,
     TokenTimeUp, OrderTimeUp, Tick, Crash

\* OneWorkerPerOrder is kept: an order is created by one request, which ends
\* before Alipay can notify it, and then the row lock admits one transaction.
LEMMA OneWorkerStep ==
    TypeOK /\ OrderInv /\ NoticeInv /\ WorkerInv /\ OneWorkerPerOrder
        /\ [Next]_vars => OneWorkerPerOrder'
<1> SUFFICES ASSUME TypeOK, OrderInv, NoticeInv, WorkerInv, OneWorkerPerOrder,
                    [Next]_vars
             PROVE  OneWorkerPerOrder'
  OBVIOUS
<1>a. /\ pc \in [Workers -> {"idle", "precreate", "marked", "computed"}]
      /\ job \in [Workers -> Job]
  BY DEF TypeOK, WorkerType
<1> USE DEF OneWorkerPerOrder, Start, Finished, workerVars
<1>1. ASSUME NEW w \in Workers, NEW u \in Users, NEW t \in Tokens,
             NEW p \in Packets, NEW o \in Orders, NEW alipay \in BOOLEAN,
             CreateOrder(w, u, t, p, o, alipay)
      PROVE  OneWorkerPerOrder'
  <2>1. \A v \in Workers : pc[v] # "idle" => job[v].order # o
    BY <1>1 DEF CreateOrder, WorkerInv
  <2>2. CASE alipay
    BY <1>1, <1>a, <2>1, <2>2 DEF CreateOrder
  <2>3. CASE ~alipay
    BY <1>1, <2>3 DEF CreateOrder
  <2> QED
    BY <2>2, <2>3
<1>2. ASSUME NEW n \in notices, NEW w \in Workers, MarkSuccess(w, n)
      PROVE  OneWorkerPerOrder'
  <2>1. trades[n.order] # "none"
    BY DEF NoticeInv, EverPaid
  <2>2. \A v \in Workers : pc[v] # "idle" => job[v].order # n.order
    BY <1>2, <1>a, <2>1 DEF MarkSuccess, Locked, WorkerInv
  <2> QED
    BY <1>2, <1>a, <2>2 DEF MarkSuccess
<1>3. ASSUME NEW w \in Workers,
             \/ PrecreateOk(w) \/ PrecreateFails(w)
             \/ RollBackActivation(w) \/ CommitActivation(w)
      PROVE  OneWorkerPerOrder'
  <2>1. Finished(w)
    BY <1>3 DEF PrecreateOk, PrecreateFails, RollBackActivation,
                CommitActivation
  <2> QED
    BY <1>a, <2>1
<1>4. ASSUME NEW w \in Workers, ComputeActivation(w) PROVE OneWorkerPerOrder'
  BY <1>4, <1>a DEF ComputeActivation
<1>5. ASSUME Crash PROVE OneWorkerPerOrder'
  BY <1>5 DEF Crash
<1>6. ASSUME UNCHANGED <<pc, job>> PROVE OneWorkerPerOrder'
  BY <1>6
<1>7. CASE UNCHANGED vars
  BY <1>6, <1>7 DEF vars
<1> QED
  BY SMTT(60), <1>1, <1>2, <1>3, <1>4, <1>5, <1>6, <1>7 DEF Next, OpenPayPage,
     IgnoreDuplicate, HandleTradeClosed, CloseExpiredPendingOrders,
     DeletePacket, SavePacket, WritePacket, TokenTimeUp, OrderTimeUp, Pay,
     TimeOut, Refund, Finish, TradeMoves, Tick

\* LedgerIsExact is kept: a commit whose user row has not changed since it was
\* read adds exactly the months of its packet.
LEMMA LedgerStep ==
    TypeOK /\ OrderInv /\ WorkerInv /\ LedgerIsExact /\ [Next]_vars
        => LedgerIsExact'
<1> SUFFICES ASSUME TypeOK, OrderInv, WorkerInv, LedgerIsExact, [Next]_vars
             PROVE  LedgerIsExact'
  OBVIOUS
<1>1. ASSUME NEW w \in Workers, CommitActivation(w) PROVE LedgerIsExact'
  <2>1. /\ job[w].order \in Orders /\ UserOf(w) \in Users /\ pc[w] = "computed"
    BY <1>1, BusyOrder DEF CommitActivation
  <2>2. draft[w] \in Draft
    BY DEF TypeOK, WorkerType
  <2>3. /\ draft[w].months \in Int /\ draft[w].seen \in Int
        /\ draft[w].cumulative \in Int /\ draft[w].expiration \in Int
    BY <2>2 DEF Draft
  <2>4. ~raced[UserOf(w)] =>
           /\ draft[w].cumulative = draft[w].seen + draft[w].months
           /\ draft[w].expiration >= draft[w].seen + draft[w].months
    BY <2>1 DEF WorkerInv, UserOf
  <2>5. /\ users \in [Users -> [expiration : Int, cumulative : Int]]
        /\ granted \in [Users -> Int] /\ raced \in [Users -> BOOLEAN]
    BY DEF TypeOK
  <2>6. /\ users' = [users EXCEPT ![UserOf(w)] =
                        [expiration |-> draft[w].expiration,
                         cumulative |-> draft[w].cumulative]]
        /\ granted' = [granted EXCEPT ![UserOf(w)] =
                          granted[UserOf(w)] + draft[w].months]
        /\ raced' = [raced EXCEPT ![UserOf(w)] = raced[UserOf(w)]
                        \/ draft[w].seen # granted[UserOf(w)]]
    BY <1>1 DEF CommitActivation
  <2>7. ASSUME NEW u \in Users, ~raced'[u]
        PROVE  /\ users'[u].cumulative = granted'[u]
               /\ users'[u].expiration >= granted'[u]
    <3>1. CASE u # UserOf(w)
      BY <2>1, <2>5, <2>6, <2>7, <3>1 DEF LedgerIsExact
    <3>2. CASE u = UserOf(w)
      <4>1. ~raced[u] /\ draft[w].seen = granted[u]
        BY <2>5, <2>6, <2>7, <3>2
      <4>2. /\ users'[u].cumulative = draft[w].cumulative
            /\ users'[u].expiration = draft[w].expiration
            /\ granted'[u] = granted[u] + draft[w].months
        BY <2>1, <2>5, <2>6, <3>2
      <4> QED
        BY <2>4, <3>2, <4>1, <4>2
    <3> QED
      BY <3>1, <3>2
  <2> QED
    BY <2>7 DEF LedgerIsExact
<1>2. ASSUME UNCHANGED <<users, granted, raced>> PROVE LedgerIsExact'
  BY <1>2 DEF LedgerIsExact
<1>3. CASE UNCHANGED vars
  BY <1>2, <1>3 DEF vars, history
<1> QED
  BY <1>1, <1>2, <1>3 DEF Next, OpenPayPage, CreateOrder, PrecreateOk,
     PrecreateFails, ComputeActivation, RollBackActivation, MarkSuccess,
     IgnoreDuplicate, HandleTradeClosed, CloseExpiredPendingOrders,
     DeletePacket, SavePacket, WritePacket, TokenTimeUp, OrderTimeUp, Pay,
     TimeOut, Refund, Finish, TradeMoves, Tick, Crash, history

\* What one thread relies on is not undone by the others.
LEMMA WorkerStep ==
    TypeOK /\ OrderInv /\ NoticeInv /\ ActivationInv /\ WorkerInv
        /\ OneWorkerPerOrder /\ LedgerIsExact /\ [Next]_vars => WorkerInv'
<1> SUFFICES ASSUME TypeOK, OrderInv, NoticeInv, ActivationInv, WorkerInv,
                    OneWorkerPerOrder, LedgerIsExact, [Next]_vars
             PROVE  WorkerInv'
  OBVIOUS
<1>a. /\ pc \in [Workers -> {"idle", "precreate", "marked", "computed"}]
      /\ job \in [Workers -> Job] /\ draft \in [Workers -> Draft]
      /\ orderStatus \in [Orders -> OrderStatus]
      /\ trades \in [Orders -> TradeStatus]
      /\ notices \subseteq Notice
      /\ order \in [Orders -> [user : Users \cup {NoUser},
                               packet : Packets \cup {NoPacket},
                               token : Tokens \cup {NoToken},
                               alipay : BOOLEAN]]
  BY DEF TypeOK, WorkerType
<1> USE DEF Start, Finished
<1>1. ASSUME NEW w \in Workers, NEW u \in Users, NEW t \in Tokens,
             NEW p \in Packets, NEW o \in Orders, NEW alipay \in BOOLEAN,
             CreateOrder(w, u, t, p, o, alipay)
      PROVE  WorkerInv'
  <2>1. \A v \in Workers : pc[v] # "idle" => job[v].order # o
    BY <1>1 DEF CreateOrder, WorkerInv
  <2>2. trades[o] = "none"
    BY <1>1 DEF CreateOrder, OrderInv
  <2>3. CASE alipay
    BY <1>1, <1>a, <2>1, <2>2, <2>3
       DEF CreateOrder, WorkerInv, alipayVars, history
  <2>4. CASE ~alipay
    BY <1>1, <1>a, <2>1, <2>4
       DEF CreateOrder, WorkerInv, workerVars, alipayVars, history
  <2> QED
    BY <2>3, <2>4
<1>2. ASSUME NEW w \in Workers, PrecreateOk(w) PROVE WorkerInv'
  <2>1. \A v \in Workers : (pc[v] # "idle" /\ v # w) =>
                              job[v].order # job[w].order
    BY <1>2 DEF PrecreateOk, OneWorkerPerOrder
  <2> QED
    BY <1>2, <1>a, <2>1 DEF PrecreateOk, WorkerInv, orderVars, history
<1>3. ASSUME NEW w \in Workers, PrecreateFails(w) PROVE WorkerInv'
  <2>1. \A v \in Workers : (pc[v] # "idle" /\ v # w) =>
                              job[v].order # job[w].order
    BY <1>3 DEF PrecreateFails, OneWorkerPerOrder
  <2> QED
    BY <1>3, <1>a, <2>1 DEF PrecreateFails, WorkerInv, alipayVars, history
<1>4. ASSUME NEW w \in Workers, ComputeActivation(w) PROVE WorkerInv'
  <2>1. /\ job[w].order \in Orders /\ UserOf(w) \in Users /\ pc[w] = "marked"
        /\ PacketOf(w) \in [present : BOOLEAN, enabled : BOOLEAN,
                            months : Months]
    BY <1>4, BusyOrder DEF ComputeActivation
  <2>2. /\ users[UserOf(w)] \in [expiration : Int, cumulative : Int]
        /\ granted[UserOf(w)] \in Int /\ now \in Int
    BY <2>1 DEF TypeOK
  <2>3. PacketOf(w).months \in Int
    BY <2>1, PaymentAssumption
  <2>4. Later(users[UserOf(w)].expiration, now) >= users[UserOf(w)].expiration
        /\ Later(users[UserOf(w)].expiration, now) \in Int
    BY <2>2 DEF Later
  <2>5. draft'[w] = [months |-> PacketOf(w).months,
                     expiration |-> Later(users[UserOf(w)].expiration, now)
                                        + PacketOf(w).months,
                     cumulative |-> users[UserOf(w)].cumulative
                                        + PacketOf(w).months,
                     seen |-> granted[UserOf(w)]]
    BY <1>4, <1>a DEF ComputeActivation
  <2>6. ~raced[UserOf(w)] =>
           /\ draft'[w].cumulative = draft'[w].seen + draft'[w].months
           /\ draft'[w].expiration >= draft'[w].seen + draft'[w].months
    BY <2>1, <2>2, <2>3, <2>4, <2>5 DEF LedgerIsExact
  <2>7. \A v \in Workers : v # w => pc'[v] = pc[v] /\ draft'[v] = draft[v]
    BY <1>4, <1>a DEF ComputeActivation
  <2>8. /\ UNCHANGED <<job, orderStatus, order, trades, notices, raced>>
        /\ pc'[w] = "computed"
    BY <1>4, <1>a DEF ComputeActivation, orderVars, alipayVars, history
  <2>9. /\ orderStatus[job[w].order] \notin {"absent", "SUCCESS"}
        /\ job[w] \in notices
    BY <2>1 DEF WorkerInv
  <2> DEFINE Sound(v) ==
        LET o == job[v].order IN
        /\ pc[v] # "idle" => o \in Orders /\ orderStatus[o] # "absent"
        /\ pc[v] = "precreate" =>
              trades[o] = "none" /\ orderStatus[o] \in {"PENDING", "CLOSED"}
        /\ pc[v] \in {"marked", "computed"} =>
              /\ job[v] \in notices
              /\ orderStatus[o] # "SUCCESS"
        /\ pc[v] = "computed" /\ ~raced[order[o].user] =>
              /\ draft[v].cumulative = draft[v].seen + draft[v].months
              /\ draft[v].expiration >= draft[v].seen + draft[v].months
  <2>10. ASSUME NEW v \in Workers PROVE Sound(v)'
    <3>1. Sound(v)
      BY DEF WorkerInv
    <3>2. CASE v = w
      BY <2>1, <2>6, <2>8, <2>9, <3>2 DEF UserOf
    <3>3. CASE v # w
      BY <2>7, <2>8, <3>1, <3>3
    <3> QED
      BY <3>2, <3>3
  <2> QED
    BY <2>10 DEF WorkerInv
<1>5. ASSUME NEW w \in Workers, RollBackActivation(w) PROVE WorkerInv'
  BY <1>5, <1>a DEF RollBackActivation, WorkerInv, orderVars, alipayVars, history
<1>6. ASSUME NEW w \in Workers, CommitActivation(w) PROVE WorkerInv'
  <2>1. \A v \in Workers : (pc[v] # "idle" /\ v # w) =>
                              job[v].order # job[w].order
    BY <1>6 DEF CommitActivation, OneWorkerPerOrder
  <2>2. UserOf(w) \in Users
    BY <1>6, BusyOrder DEF CommitActivation
  <2>3. \A u \in Users : raced[u] => raced'[u]
    <3>1. raced \in [Users -> BOOLEAN]
      BY DEF TypeOK
    <3>2. raced' = [raced EXCEPT ![UserOf(w)] = raced[UserOf(w)]
                        \/ draft[w].seen # granted[UserOf(w)]]
      BY <1>6 DEF CommitActivation
    <3>3. ASSUME NEW u \in Users, raced[u] PROVE raced'[u]
      <4>1. CASE u = UserOf(w)
        <5>1. raced'[u] = (raced[u] \/ draft[w].seen # granted[UserOf(w)])
          BY <3>1, <3>2, <4>1, Zenon
        <5> QED
          BY <5>1, <3>3, Zenon
      <4>2. CASE u # UserOf(w)
        <5>1. raced'[u] = raced[u]
          BY <3>1, <3>2, <4>2, Zenon
        <5> QED
          BY <5>1, <3>3, Zenon
      <4> QED
        BY <4>1, <4>2
    <3> QED
      BY <3>3
  <2>4. \A v \in Workers : pc[v] # "idle" => order[job[v].order].user \in Users
    BY BusyOrder DEF UserOf
  <2> QED
    BY <1>6, <1>a, <2>1, <2>3, <2>4 DEF CommitActivation, WorkerInv, alipayVars
<1>7. ASSUME NEW n \in notices, NEW w \in Workers, MarkSuccess(w, n)
      PROVE  WorkerInv'
  <2>1. n.order \in Orders /\ orderStatus[n.order] # "absent"
    BY NoticeOrder
  <2>2. [order |-> n.order, kind |-> n.kind] = n
    BY <1>a DEF Notice
  <2> QED
    BY <1>7, <1>a, <2>1, <2>2
       DEF MarkSuccess, Unpaid, WorkerInv, orderVars, alipayVars, history
<1>8. ASSUME NEW n \in notices, HandleTradeClosed(n) PROVE WorkerInv'
  BY <1>8, <1>a DEF HandleTradeClosed, WorkerInv, workerVars, alipayVars, history
<1>9. ASSUME CloseExpiredPendingOrders PROVE WorkerInv'
  BY <1>9, <1>a DEF CloseExpiredPendingOrders, ClosedStatus, Lapsed, WorkerInv, workerVars,
                    alipayVars, history
<1>10. ASSUME NEW o \in Orders, Pay(o) \/ TimeOut(o) \/ Refund(o) \/ Finish(o)
       PROVE  WorkerInv'
  BY <1>10, <1>a DEF Pay, TimeOut, Refund, Finish, TradeMoves, WorkerInv,
                     workerVars, orderVars, history
<1>11. ASSUME Crash PROVE WorkerInv'
  BY <1>11 DEF Crash, WorkerInv
<1>12. ASSUME UNCHANGED <<pc, job, draft, order, orderStatus, trades, notices,
                          raced>>
       PROVE  WorkerInv'
  BY <1>12 DEF WorkerInv
<1>13. CASE UNCHANGED vars
  BY <1>12, <1>13 DEF vars, workerVars, orderVars, alipayVars, history
<1>14. ASSUME NEW n \in notices, IgnoreDuplicate(n) PROVE WorkerInv'
  BY <1>12, <1>14 DEF IgnoreDuplicate, workerVars, orderVars, alipayVars, history
<1> QED
  BY <1>1, <1>2, <1>3, <1>4, <1>5, <1>6, <1>7, <1>8, <1>9, <1>10, <1>11, <1>12,
     <1>13, <1>14 DEF Next, OpenPayPage, DeletePacket, SavePacket, WritePacket,
     TokenTimeUp, OrderTimeUp, Tick, workerVars, orderVars, alipayVars, history

-----------------------------------------------------------------------------
\* Nothing has happened yet: every part of the invariant holds at the start.
LEMMA InitInv == Init => IInv
<1> SUFFICES ASSUME Init PROVE IInv
  OBVIOUS
<1>1. TypeOK
  <2>1. NoJob \in Job /\ NoDraft \in Draft
    BY DEF NoJob, Job, NoDraft, Draft, PaidKinds
  <2>2. WorkerType
    BY <2>1 DEF Init, WorkerType
  <2>3. packets \in [Packets -> [present : BOOLEAN, enabled : BOOLEAN,
                                months : Months]]
    BY DEF Init
  <2> QED
    BY <2>2, <2>3 DEF Init, TypeOK, TokenStatus, OrderStatus, TradeStatus
<1>2. OrderInv /\ TokenBacksOneOrder
  BY <1>1 DEF Init, OrderInv, TokenBacksOneOrder
<1>3. NoticeInv /\ ActivationInv
  BY DEF Init, NoticeInv, ActivationInv
<1>4. WorkerInv /\ OneWorkerPerOrder
  BY DEF Init, WorkerInv, OneWorkerPerOrder
<1>5. LedgerIsExact
  BY DEF Init, LedgerIsExact
<1> QED
  BY <1>1, <1>2, <1>3, <1>4, <1>5 DEF IInv

\* The inductive invariant: types, rows, notifications, activations, threads
\* and the ledger are consistent in every reachable state.
THEOREM Inductive == Spec => []IInv
<1>1. IInv /\ [Next]_vars => IInv'
  BY TypeStep, OrderStep, TokenStep, NoticeStep, ActivationStep, WorkerStep,
     OneWorkerStep, LedgerStep DEF IInv
<1> QED
  BY InitInv, <1>1, PTL DEF Spec

\* Type correctness of the payment component.
THEOREM TypeCorrect == Spec => []TypeOK
<1>1. IInv => TypeOK
  BY DEF IInv
<1> QED
  BY Inductive, <1>1, PTL

\* Only orders whose trade was paid at Alipay extend a subscription.
THEOREM OnlyPaid == Spec => []OnlyPaidIsActivated
<1>1. IInv => OnlyPaidIsActivated
  BY DEF IInv, ActivationInv, OnlyPaidIsActivated
<1> QED
  BY Inductive, <1>1, PTL

\* An order that is not refunded extends the subscription at most once, for
\* any number of repeated notifications and request threads.
THEOREM ActivatedOnce == Spec => []ActivatedOnceUnlessRefunded
<1>1. IInv => ActivatedOnceUnlessRefunded
  BY DEF IInv, TypeOK, ActivationInv, ActivatedOnceUnlessRefunded
<1> QED
  BY Inductive, <1>1, PTL

\* SUCCESS in the order row and "success" to Alipay both imply that the
\* activation has been committed.
THEOREM NoPartialActivation == Spec => []SuccessMeansActivated
<1>1. IInv => SuccessMeansActivated
  BY DEF IInv, ActivationInv, NoticeInv, SuccessMeansActivated
<1> QED
  BY Inductive, <1>1, PTL

\* Months bought and months credited agree unless activations overlapped.
THEOREM Ledger == Spec => []LedgerIsExact
<1>1. IInv => LedgerIsExact
  BY DEF IInv
<1> QED
  BY Inductive, <1>1, PTL

\* A second order for the same submit token never exists, for any number of
\* threads and restarts (useSubmitToken).
THEOREM OneOrderPerToken == Spec => []TokenBacksOneOrder
<1>1. IInv => TokenBacksOneOrder
  BY DEF IInv
<1> QED
  BY Inductive, <1>1, PTL

\* The FAILED that the creating request writes without looking at the row never
\* lands on an order the user could have paid.
THEOREM FailedIsHarmless == Spec => []FailedIsNeverPayable
<1>1. IInv => FailedIsNeverPayable
  BY DEF IInv, ActivationInv, FailedIsNeverPayable
<1> QED
  BY Inductive, <1>1, PTL

\* Only the TRADE_CLOSED of a refund takes an order out of SUCCESS: the expiry
\* job looks at PENDING orders, the FAILED of a slow request belongs to an order
\* that was never payable, and an activation writes SUCCESS itself.
LEMMA SuccessStep ==
    ASSUME IInv, [Next]_vars, NEW o \in Orders,
           orderStatus[o] = "SUCCESS", orderStatus'[o] # "SUCCESS"
    PROVE  orderStatus'[o] = "CLOSED" /\ trades[o] = "refunded"
<1>a. /\ orderStatus \in [Orders -> OrderStatus]
      /\ trades \in [Orders -> TradeStatus] /\ notices \subseteq Notice
      /\ activated \in [Orders -> Nat]
      /\ WorkerInv /\ ActivationInv /\ NoticeInv /\ TypeOK
  BY DEF IInv, TypeOK
<1>b. activated[o] > 0 /\ trades[o] \in EverPaid
  BY <1>a DEF ActivationInv
<1>1. ASSUME NEW n \in notices, HandleTradeClosed(n)
      PROVE  orderStatus'[o] = "CLOSED" /\ trades[o] = "refunded"
  <2>1. n.order = o /\ orderStatus'[o] = "CLOSED"
    BY <1>1, <1>a DEF HandleTradeClosed
  <2>2. trades[o] \in {"timedOut", "refunded"}
    BY <1>1, <1>a, <2>1 DEF HandleTradeClosed, NoticeInv, PaidKinds
  <2> QED
    BY <1>b, <2>1, <2>2 DEF EverPaid
<1>2. ASSUME NEW w \in Workers, PrecreateFails(w) PROVE FALSE
  <2>1. job[w].order \in Orders /\ trades[job[w].order] = "none"
    BY <1>2, <1>a, BusyOrder DEF PrecreateFails, WorkerInv
  <2>2. job[w].order # o
    BY <1>b, <2>1 DEF EverPaid
  <2> QED
    BY <1>2, <1>a, <2>2 DEF PrecreateFails
<1>3. ASSUME NEW w \in Workers, CommitActivation(w) PROVE FALSE
  BY <1>3, <1>a DEF CommitActivation
<1>4. ASSUME CloseExpiredPendingOrders PROVE FALSE
  BY <1>4 DEF CloseExpiredPendingOrders, ClosedStatus, Lapsed
<1>5. ASSUME NEW w \in Workers, NEW u \in Users, NEW t \in Tokens,
             NEW p \in Packets, NEW q \in Orders, NEW alipay \in BOOLEAN,
             CreateOrder(w, u, t, p, q, alipay)
      PROVE  FALSE
  BY <1>5, <1>a DEF CreateOrder
<1>6. ASSUME UNCHANGED orderStatus PROVE FALSE
  BY <1>6
<1>7. CASE UNCHANGED vars
  BY <1>6, <1>7 DEF vars, orderVars
<1> QED
  BY <1>1, <1>2, <1>3, <1>4, <1>5, <1>6, <1>7 DEF Next, OpenPayPage,
     PrecreateOk, ComputeActivation, RollBackActivation, MarkSuccess,
     IgnoreDuplicate, DeletePacket, SavePacket, WritePacket, TokenTimeUp,
     OrderTimeUp, Pay, Refund, TimeOut, Finish, TradeMoves, Tick, Crash,
     orderVars

\* A payment that was taken is not taken back, except by a refund.
THEOREM NotTakenBack == Spec => PaymentIsNotTakenBack
<1>1. IInv /\ [Next]_vars =>
        [\A o \in Orders :
           (orderStatus[o] = "SUCCESS" /\ orderStatus'[o] # "SUCCESS")
              => orderStatus'[o] = "CLOSED" /\ trades[o] = "refunded"]_vars
  BY SuccessStep
<1> QED
  BY Inductive, <1>1, PTL DEF Spec, PaymentIsNotTakenBack

-----------------------------------------------------------------------------
(* Payment implements Billing.                                              *)

Settled == [o \in Orders |-> CASE trades[o] \in {"paid", "finished"} -> "paid"
                               [] trades[o] = "refunded" -> "refunded"
                               [] OTHER -> "open"]

\* Every step of Payment is a step of Billing, or leaves settled and credits.
LEMMA BillingStep ==
    IInv /\ [Next]_vars => [Contract!Next]_<<Settled, activated>>
<1> SUFFICES ASSUME IInv, [Next]_vars
             PROVE  [Contract!Next]_<<Settled, activated>>
  OBVIOUS
<1>a. /\ trades \in [Orders -> TradeStatus] /\ activated \in [Orders -> Nat]
      /\ OrderInv /\ WorkerInv /\ ActivationInv /\ NoticeInv /\ TypeOK
  BY DEF IInv, TypeOK
<1> USE DEF Contract!Next, Contract!Settle, Contract!Credit, Settled
<1>1. ASSUME NEW o \in Orders, Pay(o) PROVE Contract!Next
  BY <1>1, <1>a DEF Pay, TradeMoves, history
<1>2. ASSUME NEW o \in Orders, Refund(o) PROVE Contract!Next
  BY <1>2, <1>a DEF Refund, TradeMoves, history
<1>3. ASSUME NEW o \in Orders, TimeOut(o) \/ Finish(o)
      PROVE  UNCHANGED <<Settled, activated>>
  BY <1>3, <1>a DEF TimeOut, Finish, TradeMoves, history
<1>4. ASSUME NEW w \in Workers, PrecreateOk(w)
      PROVE  UNCHANGED <<Settled, activated>>
  BY <1>4, <1>a DEF PrecreateOk, WorkerInv, history
<1>5. ASSUME NEW w \in Workers, CommitActivation(w) PROVE Contract!Next
  <2>1. job[w].order \in Orders /\ pc[w] = "computed" /\ job[w].kind \in PaidKinds
    BY <1>5, <1>a, BusyOrder DEF CommitActivation
  <2>2. trades[job[w].order] \in EverPaid /\ orderStatus[job[w].order] # "SUCCESS"
    BY <1>a, <2>1 DEF WorkerInv, NoticeInv
  <2>3. \/ trades[job[w].order] = "refunded"
        \/ trades[job[w].order] \in {"paid", "finished"}
           /\ activated[job[w].order] = 0
    BY <1>a, <2>1, <2>2 DEF ActivationInv, EverPaid
  <2>4. /\ Settled' = Settled
        /\ activated' = [activated EXCEPT ![job[w].order] = @ + 1]
    BY <1>5 DEF CommitActivation, alipayVars
  <2>5. Contract!Credit(job[w].order)
    BY <2>1, <2>3, <2>4
  <2> QED
    BY <2>1, <2>5
<1>6. ASSUME UNCHANGED <<trades, activated>>
      PROVE  UNCHANGED <<Settled, activated>>
  BY <1>6
<1>7. CASE UNCHANGED vars
  BY <1>6, <1>7 DEF vars, alipayVars, history
<1> HIDE DEF Contract!Next, Settled
<1> QED
  BY SMTT(60), <1>1, <1>2, <1>3, <1>4, <1>5, <1>6, <1>7 DEF Next, OpenPayPage,
     CreateOrder, PrecreateFails, ComputeActivation, RollBackActivation,
     MarkSuccess, IgnoreDuplicate, HandleTradeClosed,
     CloseExpiredPendingOrders, DeletePacket, SavePacket, WritePacket,
     TokenTimeUp, OrderTimeUp, Tick, Crash, alipayVars, history

\* The detailed component implements the promise: each paid order is credited
\* once, whatever the interleaving, the repetitions and the restarts.
THEOREM Implements == Spec => ImplementsBilling
<1>1. Init => Contract!Init
  BY DEF Init, Contract!Init
<1>2. IInv /\ [Next]_vars => [Contract!Next]_(Contract!billingVars)
  BY BillingStep DEF Contract!billingVars, Settled
<1> QED
  BY Inductive, <1>1, <1>2, PTL DEF Spec, ImplementsBilling, Contract!Spec
=============================================================================
