-------------------------- MODULE PaymentProperties --------------------------
(* What the payment component promises, stated over Payment's variables. *)
EXTENDS Payment

EverPaid == {"paid", "finished", "refunded"}

\* A subscription is extended only for an order whose trade the user really
\* paid at Alipay (alipayNotify's branch on trade_status).
OnlyPaidIsActivated ==
    \A o \in Orders : activated[o] > 0 => trades[o] \in EverPaid

\* However often Alipay repeats TRADE_SUCCESS or adds TRADE_FINISHED, and
\* whatever the expiry job did to the order in between, a paid order is
\* activated at most once - as long as it is not refunded: the TRADE_CLOSED of
\* a refund overwrites SUCCESS and re-opens the order to a repeated
\* TRADE_SUCCESS (markSuccessAndActivate, updateOrderStatus).
ActivatedOnceUnlessRefunded ==
    \A o \in Orders : trades[o] # "refunded" => activated[o] <= 1

\* The order row says SUCCESS, and Alipay is told "success" and so stops
\* repeating a payment, only if the activation was committed: a packet that
\* vanished between order and payment, or a restart, leaves neither half behind.
SuccessMeansActivated ==
    /\ \A o \in Orders : orderStatus[o] = "SUCCESS" => activated[o] > 0
    /\ \A n \in acked : n.kind \in PaidKinds => activated[n.order] > 0

\* FAILED is written without looking at the row; it never lands on an order
\* somebody could pay, because the QR code is handed out by the same request.
FailedIsNeverPayable ==
    \A o \in Orders : orderStatus[o] = "FAILED" => trades[o] = "none"

\* activatePacketForOrder reads the user, then writes absolute values. Unless
\* two activations of the user overlapped, cumulative_months is the sum of
\* what was activated and the expiration covers at least that long.
LedgerIsExact ==
    \A u \in Users : ~raced[u] =>
        /\ users[u].cumulative = granted[u]
        /\ users[u].expiration >= granted[u]

\* One submit token yields one order: refreshing or double-clicking the pay
\* page cannot create a second one (useSubmitToken).
TokenBacksOneOrder ==
    \A o1, o2 \in Orders :
        (order[o1].token = order[o2].token /\ order[o1].token # NoToken)
            => o1 = o2

\* An order leaves SUCCESS only for CLOSED, and only after a refund: neither
\* the expiry job nor the FAILED of a slow request takes a payment back.
PaymentIsNotTakenBack ==
    [][\A o \in Orders :
          (orderStatus[o] = "SUCCESS" /\ orderStatus'[o] # "SUCCESS")
              => orderStatus'[o] = "CLOSED" /\ trades[o] = "refunded"]_vars

\* A payment is eventually activated or refunded, if the packet the order is
\* for is from some moment on present and worth at least a month: failed
\* activations are made up for by Alipay's repeated notification, and an order
\* the expiry job closed too early is not lost.
PacketGood(o) == /\ order[o].packet \in Packets
                 /\ packets[order[o].packet].present
                 /\ packets[order[o].packet].months > 0

PaidIsActivated ==
    \A o \in Orders :
        <>[]PacketGood(o) =>
            (trades[o] = "paid" ~> (activated[o] > 0 \/ trades[o] = "refunded"))

\* No order stays PENDING for ever: it is paid, fails, or is closed.
PendingIsResolved ==
    \A o \in Orders : orderStatus[o] = "PENDING" ~>
                      orderStatus[o] # "PENDING"

-----------------------------------------------------------------------------
(* Payment implements Billing: Alipay's trade says whether an order is      *)
(* settled, and each committed activation is one credit.                    *)
Contract == INSTANCE Billing WITH
    settled <- [o \in Orders |-> CASE trades[o] \in {"paid", "finished"} -> "paid"
                                   [] trades[o] = "refunded" -> "refunded"
                                   [] OTHER -> "open"],
    credits <- activated

\* Every step of the server, the job, the administrator and Alipay is a step
\* of Billing or changes nothing in it.
ImplementsBilling == Contract!Spec

-----------------------------------------------------------------------------
(* The inductive invariant behind the safety properties, in named parts.    *)

\* An existing order belongs to a user, a packet and a spent token.
OrderInv ==
    \A o \in Orders :
        IF orderStatus[o] = "absent"
        THEN order[o].token = NoToken /\ trades[o] = "none"
        ELSE /\ order[o].user \in Users /\ order[o].packet \in Packets
             /\ order[o].token \in Tokens
             /\ tokenStatus[order[o].token] = "used"

\* Alipay only notifies what happened.
NoticeInv ==
    /\ \A n \in notices : IF n.kind \in PaidKinds
                          THEN trades[n.order] \in EverPaid
                          ELSE trades[n.order] \in {"timedOut", "refunded"}
    /\ \A n \in acked : n.kind \in PaidKinds => activated[n.order] > 0

\* What has been activated was paid, and is SUCCESS unless it was refunded.
ActivationInv ==
    \A o \in Orders :
        /\ activated[o] > 0 => trades[o] \in EverPaid
        /\ orderStatus[o] = "SUCCESS" => activated[o] > 0
        /\ (activated[o] > 0 /\ trades[o] # "refunded")
              => activated[o] = 1 /\ orderStatus[o] = "SUCCESS"
        /\ orderStatus[o] = "FAILED" => trades[o] = "none"

\* What a thread is about to do was possible when it last looked, and still is.
WorkerInv ==
    \A w \in Workers :
        LET o == job[w].order IN
        /\ pc[w] # "idle" => o \in Orders /\ orderStatus[o] # "absent"
        /\ pc[w] = "precreate" =>
              trades[o] = "none" /\ orderStatus[o] \in {"PENDING", "CLOSED"}
        /\ pc[w] \in {"marked", "computed"} =>
              /\ job[w] \in notices
              /\ orderStatus[o] # "SUCCESS"
        /\ pc[w] = "computed" /\ ~raced[order[o].user] =>
              /\ draft[w].cumulative = draft[w].seen + draft[w].months
              /\ draft[w].expiration >= draft[w].seen + draft[w].months

\* One thread per order: the creating request, or the holder of the row lock.
OneWorkerPerOrder ==
    \A v, w \in Workers :
        (pc[v] # "idle" /\ pc[w] # "idle"
            /\ job[v].order = job[w].order) => v = w

IInv == /\ TypeOK /\ OrderInv /\ TokenBacksOneOrder /\ NoticeInv
        /\ ActivationInv /\ WorkerInv /\ OneWorkerPerOrder /\ LedgerIsExact
=============================================================================
