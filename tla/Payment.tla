------------------------------- MODULE Payment -------------------------------
(***************************************************************************)
(* Subscription payment of the control server: a submit token guards the   *)
(* creation of an order, Alipay notifies the outcome of the trade, and a   *)
(* transaction marks the order paid and extends the user's subscription.   *)
(* Request threads (Workers) interleave between database statements; a row *)
(* updated by an open transaction stays locked until it ends (InnoDB).     *)
(* Definitions named Bug_... are faulty variants of the definition below   *)
(* them; no specification uses them. They show which mistake in the code   *)
(* each property would expose.                                             *)
(***************************************************************************)
EXTENDS Integers, FiniteSets

CONSTANTS
    Users, Tokens, Orders, Packets, Workers,
    Months,          \* values of duration_months + bonus_months of a packet
    MaxNow,          \* bound: months the clock may advance
    MaxCrashes,      \* bound: restarts of the server
    MaxActivations,  \* bound: activations of one order
    NoUser, NoToken, NoPacket, NoOrder

ASSUME PaymentAssumption ==
    /\ Months \subseteq Int
    /\ MaxNow \in Nat /\ MaxCrashes \in Nat /\ MaxActivations \in Nat
    /\ NoUser \notin Users /\ NoToken \notin Tokens
    /\ NoPacket \notin Packets /\ NoOrder \notin Orders

VARIABLES
    tokenStatus, tokenUser, tokenTimeUp,    \* xray_payment_submit_token
    order,          \* xray_payment_order: what never changes in a row
    orderStatus, orderTimeUp,               \* and what does
    packets,        \* xray_packet
    users,          \* xray_user: expiration, cumulative_months
    now,            \* the clock of the server, in months
    pc, job, draft, \* what each request thread does, for which order, and
                    \* the values it has computed and not yet written
    trades,         \* Alipay's record of each order's trade
    notices,        \* notifications Alipay has sent; each may arrive again
    acked,          \* notifications answered "success"
    crashes,
    activated,      \* history: activations of each order
    granted,        \* history: months activated for each user
    raced           \* history: two activations of this user overlapped

tokenVars == <<tokenStatus, tokenUser, tokenTimeUp>>
orderVars == <<order, orderStatus, orderTimeUp>>
workerVars == <<pc, job, draft>>
alipayVars == <<trades, notices>>
history == <<activated, granted, raced>>
vars == <<tokenVars, orderVars, packets, users, now, workerVars, alipayVars,
          acked, crashes, history>>

TokenStatus == {"absent", "unused", "used", "expired"}
OrderStatus == {"absent", "PENDING", "SUCCESS", "FAILED", "CLOSED"}
TradeStatus == {"none", "waiting", "paid", "finished", "refunded", "timedOut"}
PaidKinds == {"TRADE_SUCCESS", "TRADE_FINISHED"}
Notice == [order : Orders, kind : PaidKinds \cup {"TRADE_CLOSED"}]

\* A thread is idle, waits for Alipay's precreate answer, or is inside
\* markSuccessAndActivate: after the order UPDATE ("marked"), or after it
\* has read packet and user and holds the values to write ("computed").
Job == [order : Orders \cup {NoOrder}, kind : PaidKinds]
NoJob == [order |-> NoOrder, kind |-> "TRADE_SUCCESS"]
Draft == [months : Int, expiration : Int, cumulative : Int, seen : Int]
NoDraft == [months |-> 0, expiration |-> 0, cumulative |-> 0, seen |-> 0]

WorkerType == /\ pc \in [Workers -> {"idle", "precreate", "marked", "computed"}]
              /\ job \in [Workers -> Job]
              /\ draft \in [Workers -> Draft]

TypeOK ==
    /\ tokenStatus \in [Tokens -> TokenStatus]
    /\ tokenUser \in [Tokens -> Users \cup {NoUser}]
    /\ tokenTimeUp \in [Tokens -> BOOLEAN]
    /\ order \in [Orders -> [user : Users \cup {NoUser},
                             packet : Packets \cup {NoPacket},
                             token : Tokens \cup {NoToken},
                             alipay : BOOLEAN]]
    /\ orderStatus \in [Orders -> OrderStatus]
    /\ orderTimeUp \in [Orders -> BOOLEAN]
    /\ packets \in [Packets -> [present : BOOLEAN, enabled : BOOLEAN,
                                months : Months]]
    /\ users \in [Users -> [expiration : Int, cumulative : Int]]
    /\ now \in Nat
    /\ WorkerType
    /\ trades \in [Orders -> TradeStatus]
    /\ notices \subseteq Notice
    /\ acked \subseteq Notice
    /\ crashes \in Nat
    /\ activated \in [Orders -> Nat]
    /\ granted \in [Users -> Int]
    /\ raced \in [Users -> BOOLEAN]

\* Nobody has opened the payment page yet. (xray_payment_submit_token is created
\* by no script of the repository; its columns are those its mapper names.)
Init ==
    /\ tokenStatus = [t \in Tokens |-> "absent"]
    /\ tokenUser = [t \in Tokens |-> NoUser]
    /\ tokenTimeUp = [t \in Tokens |-> FALSE]
    /\ order = [o \in Orders |-> [user |-> NoUser, packet |-> NoPacket,
                                  token |-> NoToken, alipay |-> FALSE]]
    /\ orderStatus = [o \in Orders |-> "absent"]
    /\ orderTimeUp = [o \in Orders |-> FALSE]
    /\ packets \in [Packets -> [present : {TRUE}, enabled : {TRUE},
                                months : {m \in Months : m > 0}]]
    /\ users = [u \in Users |-> [expiration |-> 0, cumulative |-> 0]]
    /\ now = 0
    /\ pc = [w \in Workers |-> "idle"]
    /\ job = [w \in Workers |-> NoJob]
    /\ draft = [w \in Workers |-> NoDraft]
    /\ trades = [o \in Orders |-> "none"]
    /\ notices = {} /\ acked = {}
    /\ crashes = 0
    /\ activated = [o \in Orders |-> 0]
    /\ granted = [u \in Users |-> 0]
    /\ raced = [u \in Users |-> FALSE]

-----------------------------------------------------------------------------
\* Rows a transaction has updated and not committed.
Locked(o) == \E w \in Workers : /\ job[w].order = o
                                /\ pc[w] \in {"marked", "computed"}

Start(w, phase, o, kind) ==
    /\ pc[w] = "idle"
    /\ pc' = [pc EXCEPT ![w] = phase]
    /\ job' = [job EXCEPT ![w] = [order |-> o, kind |-> kind]]
    /\ UNCHANGED draft

Finished(w) == /\ pc' = [pc EXCEPT ![w] = "idle"]
               /\ job' = [job EXCEPT ![w] = NoJob]
               /\ draft' = [draft EXCEPT ![w] = NoDraft]

(* Submit tokens and orders. *)

\* GET /pay: the first visit inserts the token (insert ignore: of two visits
\* that both saw none, the first insert stands). Other visits write nothing.
OpenPayPage(u, t) ==
    /\ tokenStatus[t] = "absent"
    /\ tokenStatus' = [tokenStatus EXCEPT ![t] = "unused"]
    /\ tokenUser' = [tokenUser EXCEPT ![t] = u]
    /\ UNCHANGED <<tokenTimeUp, orderVars, packets, users, now, workerVars,
                   alipayVars, acked, crashes, history>>

Bug_Usable(u, t) == tokenUser[t] = u /\ ~tokenTimeUp[t]

\* useSubmitToken's WHERE clause.
Usable(u, t) == /\ tokenStatus[t] = "unused"
                /\ tokenUser[t] = u
                /\ ~tokenTimeUp[t]

\* createOrder up to the commit of createOrderWithSubmitToken; an alipay order
\* goes on to the precreate call in the same request.
CreateOrder(w, u, t, p, o, alipay) ==
    /\ packets[p].present /\ packets[p].enabled
    /\ Usable(u, t)
    /\ orderStatus[o] = "absent"
    /\ tokenStatus' = [tokenStatus EXCEPT ![t] = "used"]
    /\ order' = [order EXCEPT ![o] = [user |-> u, packet |-> p, token |-> t,
                                      alipay |-> alipay]]
    /\ orderStatus' = [orderStatus EXCEPT ![o] = "PENDING"]
    /\ IF alipay THEN Start(w, "precreate", o, "TRADE_SUCCESS")
       ELSE pc[w] = "idle" /\ UNCHANGED workerVars
    /\ UNCHANGED <<tokenUser, tokenTimeUp, orderTimeUp, packets, users, now,
                   alipayVars, acked, crashes, history>>

\* createAlipayOrder returns the QR code: from here on the user can pay.
PrecreateOk(w) ==
    /\ pc[w] = "precreate"
    /\ trades' = [trades EXCEPT ![job[w].order] = "waiting"]
    /\ Finished(w)
    /\ UNCHANGED <<tokenVars, orderVars, packets, users, now, notices, acked,
                   crashes, history>>

Bug_PrecreateFails(w) ==
    /\ pc[w] = "precreate"
    /\ orderStatus' = [orderStatus EXCEPT ![job[w].order] = "FAILED"]
    /\ UNCHANGED <<tokenVars, order, orderTimeUp, packets, users, now,
                   workerVars, alipayVars, acked, crashes, history>>

\* createAlipayOrder throws: updateOrderStatus(orderNo, "FAILED"), whatever
\* the status is by now. No QR code reaches the user.
PrecreateFails(w) ==
    /\ pc[w] = "precreate"
    /\ ~Locked(job[w].order)
    /\ orderStatus' = [orderStatus EXCEPT ![job[w].order] = "FAILED"]
    /\ Finished(w)
    /\ UNCHANGED <<tokenVars, order, orderTimeUp, packets, users, now,
                   alipayVars, acked, crashes, history>>

Bug_Lapsed(o) == orderTimeUp[o]
Bug_LapsedNever(o) == FALSE
Bug_ClosedStatus(o) == IF orderTimeUp[o] THEN "EXPIRED" ELSE orderStatus[o]

\* The minutely job: close expired PENDING orders, expire unused tokens.
Lapsed(o) == orderStatus[o] = "PENDING" /\ orderTimeUp[o]
ClosedStatus(o) == IF Lapsed(o) THEN "CLOSED" ELSE orderStatus[o]
Stale(t) == tokenStatus[t] = "unused" /\ tokenTimeUp[t]

CloseExpiredPendingOrders ==
    /\ \A o \in Orders : ~Locked(o)
    /\ \/ \E o \in Orders : Lapsed(o)
       \/ \E t \in Tokens : Stale(t)
    /\ orderStatus' = [o \in Orders |-> ClosedStatus(o)]
    /\ tokenStatus' = [t \in Tokens |->
                         IF Stale(t) THEN "expired" ELSE tokenStatus[t]]
    /\ UNCHANGED <<tokenUser, tokenTimeUp, order, orderTimeUp, packets, users,
                   now, workerVars, alipayVars, acked, crashes, history>>

-----------------------------------------------------------------------------
(* Alipay's notification handler. *)

Bug_Unpaid(o) == TRUE
Bug_UnpaidPending(o) == orderStatus[o] = "PENDING"

\* The handler's test on trade_status, and the WHERE clause of
\* markOrderSuccessIfNotPaid.
ReportsPayment(n) == n.kind \in PaidKinds
Unpaid(o) == orderStatus[o] # "SUCCESS"

\* A TRADE_SUCCESS or TRADE_FINISHED reaches a thread, and the transaction's
\* conditional UPDATE finds the order not yet SUCCESS.
MarkSuccess(w, n) ==
    /\ n \in notices /\ ReportsPayment(n)
    /\ order[n.order].alipay
    /\ ~Locked(n.order)
    /\ Unpaid(n.order)
    /\ activated[n.order] < MaxActivations
    /\ Start(w, "marked", n.order, n.kind)
    /\ UNCHANGED <<tokenVars, orderVars, packets, users, now, alipayVars, acked,
                   crashes, history>>

\* The same, but the order is SUCCESS already: nothing is activated and the
\* answer is "success".
IgnoreDuplicate(n) ==
    /\ n \in notices \ acked /\ ReportsPayment(n)
    /\ order[n.order].alipay
    /\ ~Locked(n.order)
    /\ ~Unpaid(n.order)
    /\ acked' = acked \cup {n}
    /\ UNCHANGED <<tokenVars, orderVars, packets, users, now, workerVars,
                   alipayVars, crashes, history>>

PacketOf(w) == packets[order[job[w].order].packet]
UserOf(w) == order[job[w].order].user
Bug_Later(a, b) == b
Later(a, b) == IF a > b THEN a ELSE b

\* activatePacketForOrder reads packet and user and computes the new row.
ComputeActivation(w) ==
    /\ pc[w] = "marked"
    /\ PacketOf(w).present /\ PacketOf(w).months > 0
    /\ pc' = [pc EXCEPT ![w] = "computed"]
    /\ draft' = [draft EXCEPT ![w] =
          [months |-> PacketOf(w).months,
           expiration |-> Later(users[UserOf(w)].expiration, now)
                              + PacketOf(w).months,
           cumulative |-> users[UserOf(w)].cumulative + PacketOf(w).months,
           seen |-> granted[UserOf(w)]]]
    /\ UNCHANGED <<tokenVars, orderVars, packets, users, now, job, alipayVars,
                   acked, crashes, history>>

Bug_RollBackActivation(w) ==
    /\ pc[w] = "marked" /\ ~(PacketOf(w).present /\ PacketOf(w).months > 0)
    /\ orderStatus' = [orderStatus EXCEPT ![job[w].order] = "SUCCESS"]
    /\ Finished(w)
    /\ UNCHANGED <<tokenVars, order, orderTimeUp, packets, users, now,
                   alipayVars, acked, crashes, history>>

\* The packet is gone or grants nothing: the transaction rolls back and the
\* answer is "fail", so Alipay will send the notification again.
RollBackActivation(w) ==
    /\ pc[w] = "marked"
    /\ ~(PacketOf(w).present /\ PacketOf(w).months > 0)
    /\ Finished(w)
    /\ UNCHANGED <<tokenVars, orderVars, packets, users, now, alipayVars, acked,
                   crashes, history>>

\* updateXrayUser writes the computed values, the transaction commits (order
\* and user become visible together) and the answer is "success".
CommitActivation(w) ==
    /\ pc[w] = "computed"
    /\ orderStatus' = [orderStatus EXCEPT ![job[w].order] = "SUCCESS"]
    /\ users' = [users EXCEPT ![UserOf(w)] =
                    [expiration |-> draft[w].expiration,
                     cumulative |-> draft[w].cumulative]]
    /\ acked' = acked \cup {job[w]}
    /\ activated' = [activated EXCEPT ![job[w].order] = @ + 1]
    /\ granted' = [granted EXCEPT ![UserOf(w)] = @ + draft[w].months]
    /\ raced' = [raced EXCEPT ![UserOf(w)] =
                    @ \/ draft[w].seen # granted[UserOf(w)]]
    /\ Finished(w)
    /\ UNCHANGED <<tokenVars, order, orderTimeUp, packets, now, alipayVars,
                   crashes>>

\* TRADE_CLOSED: updateOrderStatus(orderNo, "CLOSED") without any condition.
HandleTradeClosed(n) ==
    /\ n \in notices /\ n.kind = "TRADE_CLOSED"
    /\ order[n.order].alipay
    /\ ~Locked(n.order)
    /\ orderStatus' = [orderStatus EXCEPT ![n.order] = "CLOSED"]
    /\ acked' = acked \cup {n}
    /\ UNCHANGED <<tokenVars, order, orderTimeUp, packets, users, now,
                   workerVars, alipayVars, crashes, history>>

-----------------------------------------------------------------------------
(* Administration, the clock, restarts, and Alipay itself (external). *)

WritePacket(p, present, enabled, months) ==
    /\ packets[p].present
    /\ packets' = [packets EXCEPT ![p] = [present |-> present,
                                          enabled |-> enabled,
                                          months |-> months]]
    /\ UNCHANGED <<tokenVars, orderVars, users, now, workerVars, alipayVars,
                   acked, crashes, history>>

SavePacket(p, enabled, months) == WritePacket(p, TRUE, enabled, months)
DeletePacket(p) ==
    WritePacket(p, FALSE, packets[p].enabled, packets[p].months)

\* The token's five minutes, or the order's ten, have passed.
TokenTimeUp(t) ==
    /\ tokenStatus[t] = "unused" /\ ~tokenTimeUp[t]
    /\ tokenTimeUp' = [tokenTimeUp EXCEPT ![t] = TRUE]
    /\ UNCHANGED <<tokenStatus, tokenUser, orderVars, packets, users, now,
                   workerVars, alipayVars, acked, crashes, history>>

OrderTimeUp(o) ==
    /\ orderStatus[o] = "PENDING" /\ ~orderTimeUp[o]
    /\ orderTimeUp' = [orderTimeUp EXCEPT ![o] = TRUE]
    /\ UNCHANGED <<tokenVars, order, orderStatus, packets, users, now,
                   workerVars, alipayVars, acked, crashes, history>>

Tick ==
    /\ now < MaxNow
    /\ now' = now + 1
    /\ UNCHANGED <<tokenVars, orderVars, packets, users, workerVars, alipayVars,
                   acked, crashes, history>>

\* A restart kills every request; open transactions roll back.
Crash ==
    /\ crashes < MaxCrashes
    /\ crashes' = crashes + 1
    /\ pc' = [w \in Workers |-> "idle"]
    /\ job' = [w \in Workers |-> NoJob]
    /\ draft' = [w \in Workers |-> NoDraft]
    /\ UNCHANGED <<tokenVars, orderVars, packets, users, now, alipayVars, acked,
                   history>>

\* A trade changes state at Alipay, which starts to notify it.
TradeMoves(o, from, to, kind) ==
    /\ trades[o] = from
    /\ trades' = [trades EXCEPT ![o] = to]
    /\ notices' = notices \cup {[order |-> o, kind |-> kind]}
    /\ UNCHANGED <<tokenVars, orderVars, packets, users, now, workerVars, acked,
                   crashes, history>>

Pay(o) == TradeMoves(o, "waiting", "paid", "TRADE_SUCCESS")
TimeOut(o) == TradeMoves(o, "waiting", "timedOut", "TRADE_CLOSED")
Refund(o) == TradeMoves(o, "paid", "refunded", "TRADE_CLOSED")
Finish(o) == TradeMoves(o, "paid", "finished", "TRADE_FINISHED")

-----------------------------------------------------------------------------
Next ==
    \/ \E u \in Users, t \in Tokens : OpenPayPage(u, t)
    \/ \E w \in Workers, u \in Users, t \in Tokens, p \in Packets, o \in Orders,
          alipay \in BOOLEAN : CreateOrder(w, u, t, p, o, alipay)
    \/ \E w \in Workers : \/ PrecreateOk(w)
                          \/ PrecreateFails(w)
                          \/ ComputeActivation(w)
                          \/ RollBackActivation(w)
                          \/ CommitActivation(w)
    \/ \E n \in notices : \/ \E w \in Workers : MarkSuccess(w, n)
                          \/ IgnoreDuplicate(n)
                          \/ HandleTradeClosed(n)
    \/ CloseExpiredPendingOrders
    \/ \E p \in Packets : \/ DeletePacket(p)
                          \/ \E enabled \in BOOLEAN, m \in Months :
                                SavePacket(p, enabled, m)
    \/ \E t \in Tokens : TokenTimeUp(t)
    \/ \E o \in Orders : \/ OrderTimeUp(o)
                         \/ Pay(o) \/ TimeOut(o) \/ Refund(o) \/ Finish(o)
    \/ Tick
    \/ Crash

Spec == Init /\ [][Next]_vars

\* Alipay repeats a notification until it is answered "success"; a thread that
\* has started goes on; the scheduled job runs; deadlines pass.
Deliver(n) == \/ \E w \in Workers : MarkSuccess(w, n)
              \/ IgnoreDuplicate(n)
              \/ HandleTradeClosed(n) /\ n \notin acked

Proceed(w) == \/ PrecreateOk(w) \/ PrecreateFails(w) \/ ComputeActivation(w)
              \/ RollBackActivation(w) \/ CommitActivation(w)

Fairness ==
    /\ \A n \in Notice : SF_vars(Deliver(n))
    /\ \A w \in Workers : WF_vars(Proceed(w))
    /\ \A o \in Orders : WF_vars(OrderTimeUp(o))
    /\ SF_vars(CloseExpiredPendingOrders)

FairSpec == Spec /\ Fairness
=============================================================================
