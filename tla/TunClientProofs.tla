--------------------------- MODULE TunClientProofs ---------------------------
(***************************************************************************)
(* A TCP connection through tun2socks, for any window and buffer sizes and *)
(* any number of bytes: both streams stay intact, and each is a BytePipe;  *)
(* what the window lets in fits the buffer; lwIP's callbacks know what     *)
(* became of the pcb; no byte is held that nothing will move on; and       *)
(* neither end is closed on the other before it has got everything.        *)
(***************************************************************************)
EXTENDS TunClientProperties, SequenceTheorems, TLAPS

-----------------------------------------------------------------------------
(* Streams. *)

LEMMA FollowsConcat ==
    ASSUME NEW s \in Seq(Nat), NEW t \in Seq(Nat), NEW k \in Nat,
           Follows(s, k), Follows(t, k + Len(s))
    PROVE  /\ s \o t \in Seq(Nat) /\ Len(s \o t) = Len(s) + Len(t)
           /\ Follows(s \o t, k)
<1>1. /\ s \o t \in Seq(Nat) /\ Len(s \o t) = Len(s) + Len(t)
      /\ \A i \in 1 .. Len(s) + Len(t) :
            (s \o t)[i] = IF i <= Len(s) THEN s[i] ELSE t[i - Len(s)]
  BY ConcatProperties
<1>2. \A i \in 1 .. Len(s) + Len(t) : (s \o t)[i] = k + i
  <2> SUFFICES ASSUME NEW i \in 1 .. Len(s) + Len(t) PROVE (s \o t)[i] = k + i
    OBVIOUS
  <2>1. Len(s) \in Nat /\ Len(t) \in Nat
    BY LenProperties
  <2>2. CASE i <= Len(s)
    BY <1>1, <2>1, <2>2 DEF Follows
  <2>3. CASE ~(i <= Len(s))
    <3>1. i - Len(s) \in 1 .. Len(t) /\ k + Len(s) + (i - Len(s)) = k + i
      BY <2>1, <2>3
    <3> QED
      BY <1>1, <2>3, <3>1 DEF Follows
  <2> QED
    BY <2>2, <2>3
<1> QED
  BY <1>1, <1>2 DEF Follows

LEMMA FollowsParts ==
    ASSUME NEW s \in Seq(Nat), NEW n \in 0 .. Len(s), NEW k \in Nat, Follows(s, k)
    PROVE  /\ FirstOf(s, n) \in Seq(Nat) /\ Len(FirstOf(s, n)) = n
           /\ Follows(FirstOf(s, n), k)
           /\ From(s, n) \in Seq(Nat) /\ Len(From(s, n)) = Len(s) - n
           /\ Follows(From(s, n), k + n)
<1>1. Len(s) \in Nat /\ \A i \in 1 .. Len(s) : s[i] \in Nat
  BY LenProperties, ElementOfSeq
<1>2. /\ FirstOf(s, n) \in Seq(Nat) /\ Len(FirstOf(s, n)) = n
      /\ \A i \in 1 .. n : FirstOf(s, n)[i] = s[i]
  BY <1>1 DEF FirstOf
<1>3. /\ From(s, n) \in Seq(Nat) /\ Len(From(s, n)) = Len(s) - n
      /\ \A i \in 1 .. Len(s) - n : From(s, n)[i] = s[i + n]
  BY <1>1 DEF From
<1>4. Follows(FirstOf(s, n), k)
  <2> SUFFICES ASSUME NEW i \in 1 .. n PROVE FirstOf(s, n)[i] = k + i
    BY <1>2 DEF Follows
  <2>1. i \in 1 .. Len(s)
    BY <1>1
  <2> QED
    BY <1>2, <2>1 DEF Follows
<1>5. Follows(From(s, n), k + n)
  <2> SUFFICES ASSUME NEW i \in 1 .. Len(s) - n PROVE From(s, n)[i] = k + n + i
    BY <1>3 DEF Follows
  <2>1. i + n \in 1 .. Len(s)
    BY <1>1
  <2> QED
    BY <1>1, <1>3, <2>1 DEF Follows
<1> QED
  BY <1>2, <1>3, <1>4, <1>5

LEMMA FollowsBytes ==
    ASSUME NEW k \in Nat, NEW n \in Nat
    PROVE  /\ Bytes(k + 1, k + n) \in Seq(Nat) /\ Len(Bytes(k + 1, k + n)) = n
           /\ Follows(Bytes(k + 1, k + n), k)
<1> DEFINE b == Bytes(k + 1, k + n)
<1>1. b = [i \in 1 .. n |-> k + i]
  <2>1. k + n - (k + 1) + 1 = n
    OBVIOUS
  <2>2. \A i \in 1 .. n : k + 1 + i - 1 = k + i
    OBVIOUS
  <2> QED
    BY <2>1, <2>2 DEF Bytes
<1> HIDE DEF b
<1>2. b \in Seq(Nat) /\ Len(b) = n
  BY <1>1
<1> QED
  BY <1>1, <1>2 DEF Follows, b

LEMMA FollowsEmpty == \A k : Follows(<<>>, k)
  BY DEF Follows

LEMMA InOrderFollows == \A s : InOrder(s) <=> Follows(s, 0)
  BY DEF InOrder, Follows

-----------------------------------------------------------------------------
(* Jobs. *)

LEMMA JobTails ==
    /\ Tail(<<"connected">>) = <<>> /\ Tail(<<"continue">>) = <<>>
    /\ Tail(<<"send">>) = <<>> /\ Tail(<<"sendDone">>) = <<>>
    /\ Tail(<<"recv">>) = <<>> /\ Tail(<<"recvDone">>) = <<>>
    /\ Tail(<<"send", "recv">>) = <<"recv">>
    /\ Tail(<<"sendDone", "recv">>) = <<"recv">>
    /\ Tail(<<"recv", "send">>) = <<"send">>
    /\ Tail(<<"recvDone", "send">>) = <<"send">>
  OBVIOUS

LEMMA JobPairs ==
    ASSUME NEW a, NEW b
    PROVE  <<a>> \o <<b>> = <<a, b>> /\ <<a>> \o <<>> = <<a>> /\ <<>> \o <<a>> = <<a>>
           /\ <<>> \o <<>> = <<>>
<1> DEFINE S == {a, b}
<1>1. <<a>> \in Seq(S) /\ <<b>> \in Seq(S) /\ <<a, b>> \in Seq(S)
  OBVIOUS
<1>2. <<a>> \o <<b>> = <<a, b>>
  <2>1. /\ <<a>> \o <<b>> \in Seq(S) /\ Len(<<a>> \o <<b>>) = 2
        /\ (<<a>> \o <<b>>)[1] = a /\ (<<a>> \o <<b>>)[2] = b
    <3>1. Len(<<a>>) = 1 /\ Len(<<b>>) = 1
      OBVIOUS
    <3> HIDE DEF S
    <3> QED
      BY <1>1, <3>1, ConcatProperties
  <2>2. Len(<<a, b>>) = 2
    OBVIOUS
  <2> DEFINE x == <<a>> \o <<b>>
             y == <<a, b>>
  <2>3. \A i \in 1 .. 2 : x[i] = y[i]
    <3> SUFFICES ASSUME NEW i \in 1 .. 2 PROVE x[i] = y[i]
      OBVIOUS
    <3>1. i = 1 \/ i = 2
      OBVIOUS
    <3>2. y[1] = a /\ y[2] = b
      OBVIOUS
    <3> HIDE DEF x, y
    <3> QED
      BY <2>1, <3>1, <3>2 DEF x
  <2> HIDE DEF S, x, y
  <2>4. x \in Seq(S) /\ y \in Seq(S) /\ Len(x) = 2 /\ Len(y) = 2
    BY <1>1, <2>1, <2>2 DEF x, y
  <2>5. x = y
    BY <2>3, <2>4, SeqEqual
  <2> QED
    BY <2>5 DEF x, y
<1> QED
  BY <1>1, <1>2

\* Which jobs have moved bytes that their handlers do not know of yet.
JobsSay ==
    /\ Running("sendDone") <=> jobs \in {<<"sendDone">>, <<"sendDone", "recv">>}
    /\ Running("recvDone") <=> jobs \in {<<"recvDone">>, <<"recvDone", "send">>}
    /\ Running("send") <=> jobs \in {<<"send">>, <<"send", "recv">>}
    /\ Running("recv") <=> jobs \in {<<"recv">>, <<"recv", "send">>}
    /\ (\E i \in 1 .. Len(jobs) : jobs[i] \in {"recv", "recvDone"}) <=>
          jobs \in {<<"recv">>, <<"recvDone">>, <<"send", "recv">>,
                    <<"sendDone", "recv">>, <<"recv", "send">>,
                    <<"recvDone", "send">>}

LEMMA JobsAre == jobs \in JobLists => JobsSay
<1> SUFFICES ASSUME jobs \in JobLists PROVE JobsSay
  OBVIOUS
<1>1. CASE jobs = <<>>
  BY <1>1 DEF JobsSay, Running
<1>2. CASE jobs \in {<<"connected">>, <<"continue">>}
  BY <1>2 DEF JobsSay, Running
<1>3. CASE jobs \in {<<"send">>, <<"sendDone">>, <<"recv">>, <<"recvDone">>}
  BY <1>3 DEF JobsSay, Running
<1>4. CASE jobs \in {<<"send", "recv">>, <<"sendDone", "recv">>}
  BY <1>4 DEF JobsSay, Running
<1>5. CASE jobs \in {<<"recv", "send">>, <<"recvDone", "send">>}
  BY <1>5 DEF JobsSay, Running
<1> QED
  BY <1>1, <1>2, <1>3, <1>4, <1>5 DEF JobLists

LEMMA JobsAreNext == (jobs \in JobLists)' => JobsSay'
  BY JobsAre, PTL

-----------------------------------------------------------------------------
(* The steps, with what their guards say of the jobs.                       *)

NothingMoved == ~socks_closed /\ ~Running("sendDone") /\ ~Running("recvDone")
                /\ (cb = "none" => input = <<>>)

Shakes == Connected \/ ContinueJob \/ Handshake
Ends == SocksEnds /\ NothingMoved /\ (state # "UP" \/ RecvEnds)
Sends == \E rest \in {<<>>, <<"recv">>} :
            SendMoves(rest) /\ NothingMoved /\ (rest = <<"recv">> => recvBusy)
Receives == \E rest \in {<<>>, <<"send">>} :
            RecvMoves(rest) /\ NothingMoved /\ recvBusy
Waits == \E rest \in {<<>>, <<"recv">>, <<"send">>} :
            MustWait(rest) /\ NothingMoved /\ (rest = <<"recv">> => recvBusy)
ServerActs == ServerSends \/ \E how \in {"fin", "rst"} : ServerCloses(how)

LEMMA NextIs ==
    ASSUME IInv, Next
    PROVE  \/ AcceptFails \/ Accept \/ NextConnection \/ Shakes \/ HandshakeEnds
           \/ Ends \/ Sends \/ Receives \/ Waits \/ SendDoneJob \/ RecvDoneJob
           \/ Segments \/ ErrFunc \/ NoCallback \/ RecvFunc \/ ClosedFunc
           \/ SentFunc \/ CallbackReturns \/ ServerActs \/ Murder
<1>0. jobs \in JobLists /\ JobsSay /\ JobsInv
  BY JobsAre DEF IInv, JobsInv
<1>1. CASE HandshakeFails
  <2>1. SocksEnds /\ ~socks_closed /\ input = <<>> /\ state # "UP"
    BY <1>1 DEF HandshakeFails, SocksEnds, HandshakeRuns
  <2>2. jobs = <<>> \/ Head(jobs) \in {"connected", "continue"}
    BY <1>1 DEF HandshakeFails
  <2>3. ~Running("sendDone") /\ ~Running("recvDone")
    BY <2>2 DEF Running
  <2> QED
    BY <2>1, <2>3 DEF Ends, NothingMoved
<1>2. CASE SendJob
  <2>1. Running("send") /\ jobs \in {<<"send">>, <<"send", "recv">>}
    BY <1>0, <1>2 DEF SendJob, JobsSay, Running
  <2>2. NothingMoved
    <3>1. ~Running("sendDone") /\ ~Running("recvDone") /\ jobs # <<>>
      BY <2>1 DEF Running
    <3> QED
      BY <1>0, <3>1 DEF JobsInv, NothingMoved
  <2>3. /\ Tail(jobs) \in {<<>>, <<"recv">>}
        /\ Tail(jobs) = <<"recv">> => recvBusy
    <3>1. CASE jobs = <<"send">>
      BY <3>1, JobTails
    <3>2. CASE jobs = <<"send", "recv">>
      BY <1>0, <3>2, JobTails DEF JobsInv, JobsSay
    <3> QED
      BY <2>1, <3>1, <3>2
  <2> QED
    BY <1>2, <2>2, <2>3 DEF SendJob, Sends, Waits, Ends, RecvEnds
<1>3. CASE RecvJob
  <2>1. Running("recv") /\ jobs \in {<<"recv">>, <<"recv", "send">>}
    BY <1>0, <1>3 DEF RecvJob, JobsSay, Running
  <2>2. NothingMoved /\ recvBusy
    <3>1. ~Running("sendDone") /\ ~Running("recvDone") /\ jobs # <<>>
      BY <2>1 DEF Running
    <3> QED
      BY <1>0, <2>1, <3>1 DEF JobsInv, NothingMoved, JobsSay
  <2>3. Tail(jobs) \in {<<>>, <<"send">>}
    BY <2>1, JobTails
  <2> QED
    BY <1>3, <2>2, <2>3 DEF RecvJob, Receives, Waits, Ends
<1>4. CASE SendReady \/ RecvReady \/ FdError
  <2>1. Quiet /\ ~socks_closed
    BY <1>0, <1>4 DEF SendReady, RecvReady, FdError, JobsInv, TypeOK, IInv
  <2>2. NothingMoved
    BY <2>1 DEF Quiet, NothingMoved, Running
  <2> QED
    BY <1>4, <2>2 DEF SendReady, RecvReady, FdError, Sends, Receives, Ends, RecvEnds
<1> QED
  BY <1>1, <1>2, <1>3, <1>4 DEF Next, Shakes, ServerActs

-----------------------------------------------------------------------------
(* lwIP's callbacks and the fate of the pcb.                                *)

LEMMA FateStep == ASSUME IInv, Next PROVE FateInv'
<1> USE DEF conn, struct, io, app, server
<1>0. /\ CallbackKnowsFate /\ (cb = "none" => killed = 0)
      /\ cbs # {} => pcb = "open" /\ life = "live"
      /\ client_closed <=> pcb # "open"
      /\ cb \in {"none", "accept", "recv", "sent"}
      /\ cb = "none" /\ input # <<>> => jobs = <<>>
  BY DEF IInv, FateInv, LifeInv, TypeOK, JobsInv
<1>1. CASE UNCHANGED <<cb, killed, pcb, life>>
  BY <1>0, <1>1 DEF FateInv, CallbackKnowsFate
<1>2. CASE Shakes \/ HandshakeEnds \/ Sends \/ Receives \/ Waits \/ Segments
           \/ NoCallback \/ ServerActs
  <2>1. UNCHANGED <<cb, killed, pcb, life>>
    BY <1>2 DEF Shakes, Connected, ContinueJob, Handshake, HandshakeEnds, Sends,
       SendMoves, Receives, RecvMoves, Waits, MustWait, Segments, Segment,
       NoCallback, ServerActs, ServerSends, ServerCloses
  <2> QED
    BY <1>1, <2>1
<1>3. CASE AcceptFails \/ Accept \/ NextConnection
  BY <1>0, <1>3 DEF AcceptFails, Accept, NextConnection, Quiet, FateInv, CallbackKnowsFate
<1>4. CASE Ends
  BY <1>0, <1>4 DEF Ends, NothingMoved, SocksEnds, FreeSocks, SocksGone, Killed,
     InCallback, TcpClose, FateInv, CallbackKnowsFate
<1>5. CASE SendDoneJob
  BY <1>0, <1>5 DEF SendDoneJob, SocksGone, Killed, InCallback, FateInv, CallbackKnowsFate
<1>6. CASE RecvDoneJob
  BY <1>0, <1>6 DEF RecvDoneJob, SendOut, AbortClient, HandleFreed, TcpAbort, SocksGone,
     SocksStays, Killed, InCallback, FateInv, CallbackKnowsFate
<1>7. CASE ErrFunc \/ Murder
  BY <1>0, <1>7 DEF ErrFunc, Murder, Quiet, HandleFreed, SocksGone, SocksStays,
     Killed, InCallback, TcpAbort, FateInv, CallbackKnowsFate
<1>8. CASE RecvFunc
  BY <1>0, <1>8 DEF RecvFunc, FateInv, CallbackKnowsFate
<1>9. CASE ClosedFunc
  BY <1>0, <1>9 DEF ClosedFunc, Calls, FreeClient, TcpClose, HandleFreed, SocksGone,
     SocksStays, Killed, InCallback, FateInv, CallbackKnowsFate
<1>10. CASE SentFunc
  BY <1>0, <1>10 DEF SentFunc, Calls, SendOut, AbortClient, TcpAbort, FreeClient, TcpClose,
     HandleFreed, SocksGone, SocksStays, Killed, InCallback, FateInv, CallbackKnowsFate
<1>11. CASE CallbackReturns
  BY <1>0, <1>11 DEF CallbackReturns, FateInv, CallbackKnowsFate
<1> QED
  BY NextIs, <1>2, <1>3, <1>4, <1>5, <1>6, <1>7, <1>8, <1>9, <1>10, <1>11

-----------------------------------------------------------------------------
(* What lwIP has still to report of a segment.                              *)

LEMMA InputTail ==
    ASSUME IInv, input # <<>>, input' = Tail(input)
    PROVE  /\ InputInv' /\ input' \in Seq([name : CallbackNames, len : Nat])
           /\ Unread' = IF Head(input).name = "recv" THEN 0 ELSE Unread
           /\ Head(input).name = "recv" => Unread = Head(input).len
           /\ Confirmed' = 0
           /\ Confirmed = IF Head(input).name = "sent" THEN Head(input).len ELSE 0
           /\ Head(input).len \in Nat
<1> DEFINE S == [name : CallbackNames, len : Nat]
           n == Len(input)
<1>1. input \in Seq(S) /\ InputInv /\ \A e \in S : e.len \in Nat
  BY DEF IInv, TypeOK
<1> HIDE DEF S
<1>2. /\ Tail(input) \in Seq(S) /\ n \in Nat /\ n >= 1 /\ Len(Tail(input)) = n - 1
      /\ Head(input) = input[1] /\ \A i \in 1 .. n - 1 : Tail(input)[i] = input[i + 1]
      /\ input[1] \in S
  BY <1>1, HeadTailProperties, LenProperties, ElementOfSeq, EmptySeq
<1>3. InputInv'
  BY <1>1, <1>2 DEF InputInv
<1>4. Confirmed' = 0
  BY <1>1, <1>2 DEF Confirmed, Report, InputInv
<1>5. Confirmed = IF Head(input).name = "sent" THEN Head(input).len ELSE 0
  BY <1>1, <1>2 DEF Confirmed, Report
<1>6. /\ Unread' = IF Head(input).name = "recv" THEN 0 ELSE Unread
      /\ Head(input).name = "recv" => Unread = Head(input).len
  BY <1>1, <1>2 DEF Unread, Report, InputInv
<1> QED
  BY <1>1, <1>2, <1>3, <1>4, <1>5, <1>6 DEF S

LEMMA SegmentInput ==
    ASSUME NEW acked \in Nat, NEW data \in Nat, NEW fin \in BOOLEAN,
           Segment(acked, data, fin)
    PROVE  /\ InputInv' /\ input' \in Seq([name : CallbackNames, len : Nat])
           /\ Unread' = data /\ Confirmed' = acked
<1> DEFINE S == [name : CallbackNames, len : Nat]
           sent == [name |-> "sent", len |-> acked]
           recv == [name |-> "recv", len |-> data]
           closed == [name |-> "closed", len |-> 0]
           a == IF acked > 0 THEN <<sent>> ELSE <<>>
           b == IF data > 0 THEN <<recv>> ELSE <<>>
           c == IF fin THEN <<closed>> ELSE <<>>
<1>1. input' = a \o b \o c
  BY DEF Segment
<1>2. /\ sent \in S /\ recv \in S /\ closed \in S
      /\ sent.name = "sent" /\ sent.len = acked
      /\ recv.name = "recv" /\ recv.len = data
      /\ closed.name = "closed" /\ closed.len = 0
  BY DEF CallbackNames
<1> HIDE DEF S, sent, recv, closed
<1>3. a \in Seq(S) /\ b \in Seq(S) /\ c \in Seq(S)
  BY <1>2
<1>4. /\ IF acked > 0 THEN Len(a) = 1 /\ a[1] = sent ELSE Len(a) = 0
      /\ IF data > 0 THEN Len(b) = 1 /\ b[1] = recv ELSE Len(b) = 0
      /\ IF fin THEN Len(c) = 1 /\ c[1] = closed ELSE Len(c) = 0
  OBVIOUS
<1> HIDE DEF a, b, c
<1> DEFINE ab == a \o b
<1>5. /\ ab \in Seq(S) /\ Len(ab) = Len(a) + Len(b)
      /\ \A i \in 1 .. Len(a) + Len(b) :
            ab[i] = IF i <= Len(a) THEN a[i] ELSE b[i - Len(a)]
  BY <1>3, ConcatProperties
<1> HIDE DEF ab
<1>6. /\ input' \in Seq(S) /\ Len(input') = Len(ab) + Len(c)
      /\ \A i \in 1 .. Len(ab) + Len(c) :
            input'[i] = IF i <= Len(ab) THEN ab[i] ELSE c[i - Len(ab)]
  BY <1>1, <1>3, <1>5, ConcatProperties DEF ab
<1> DEFINE la == Len(a)
           lb == Len(b)
           lc == Len(c)
           l == Len(input')
           at(i) == input'[i]
<1>7. /\ la = (IF acked > 0 THEN 1 ELSE 0) /\ lb = (IF data > 0 THEN 1 ELSE 0)
      /\ lc = IF fin THEN 1 ELSE 0
      /\ la = 1 => a[1] = sent
      /\ lb = 1 => b[1] = recv
      /\ lc = 1 => c[1] = closed
  BY <1>4
<1>8. /\ l = la + lb + lc
      /\ \A i \in 1 .. la + lb + lc :
            at(i) = IF i <= la + lb THEN IF i <= la THEN a[i] ELSE b[i - la]
                    ELSE c[i - (la + lb)]
  <2>1. la \in Nat /\ lb \in Nat /\ lc \in Nat
    BY <1>7
  <2>2. Len(ab) = la + lb
    BY <1>5
  <2> HIDE DEF la, lb, lc
  <2>3. \A i \in 1 .. la + lb : ab[i] = IF i <= la THEN a[i] ELSE b[i - la]
    BY <1>5 DEF la, lb
  <2>4. \A i \in 1 .. la + lb + lc :
            at(i) = IF i <= la + lb THEN ab[i] ELSE c[i - (la + lb)]
    BY <1>6, <2>2 DEF lc
  <2>5. l = la + lb + lc
    BY <1>6, <2>2 DEF lc
  <2> HIDE DEF at, l
  <2>6. \A i \in 1 .. la + lb + lc :
            at(i) = IF i <= la + lb THEN IF i <= la THEN a[i] ELSE b[i - la]
                    ELSE c[i - (la + lb)]
    <3> SUFFICES ASSUME NEW i \in 1 .. la + lb + lc
                 PROVE  at(i) = IF i <= la + lb
                                THEN IF i <= la THEN a[i] ELSE b[i - la]
                                ELSE c[i - (la + lb)]
      OBVIOUS
    <3>1. CASE i <= la + lb
      <4>1. i \in 1 .. la + lb
        BY <2>1, <3>1
      <4> QED
        BY <2>3, <2>4, <3>1, <4>1
    <3>2. CASE ~(i <= la + lb)
      BY <2>4, <3>2
    <3> QED
      BY <3>1, <3>2
  <2> QED
    BY <2>5, <2>6
<1> HIDE DEF la, lb, lc, l, at
<1>9. /\ la = 1 => at(1) = sent
      /\ lb = 1 => at(la + 1) = recv
      /\ lc = 1 => at(la + lb + 1) = closed
  <2>1. la \in {0, 1} /\ lb \in {0, 1} /\ lc \in {0, 1}
    BY <1>7
  <2>2. la = 1 => 1 \in 1 .. la + lb + lc /\ 1 <= la + lb /\ 1 <= la
    BY <2>1
  <2>3. lb = 1 => /\ la + 1 \in 1 .. la + lb + lc /\ la + 1 <= la + lb
                  /\ ~(la + 1 <= la) /\ la + 1 - la = 1
    BY <2>1
  <2>4. lc = 1 => /\ la + lb + 1 \in 1 .. la + lb + lc
                  /\ ~(la + lb + 1 <= la + lb) /\ la + lb + 1 - (la + lb) = 1
    BY <2>1
  <2>5. la = 1 => at(1) = a[1]
    BY <1>8, <2>2
  <2>6. lb = 1 => at(la + 1) = b[1]
    <3>1. \A i : lb = 1 /\ i = la + 1 => at(i) = b[i - la]
      BY <1>8, <2>3
    <3> QED
      BY <2>1, <2>3, <3>1
  <2>7. lc = 1 => at(la + lb + 1) = c[1]
    <3>1. \A i : lc = 1 /\ i = la + lb + 1 => at(i) = c[i - (la + lb)]
      BY <1>8, <2>4
    <3> QED
      BY <2>1, <2>4, <3>1
  <2> QED
    BY <1>7, <2>5, <2>6, <2>7
<1>10. InputInv'
  <2>1. /\ l <= 3
        /\ \A i \in 1 .. l :
              /\ at(i).name = "sent" => i = 1
              /\ at(i).name = "recv" => i <= 2
              /\ i = 2 /\ at(i).name = "recv" => at(1).name = "sent"
    BY <1>2, <1>7, <1>8, <1>9
  <2> QED
    BY <2>1 DEF InputInv, l, at
<1>11. Confirmed' = acked
  <2>1. (IF l >= 1 /\ at(1).name = "sent" THEN at(1).len ELSE 0) = acked
    BY <1>2, <1>7, <1>8, <1>9
  <2> QED
    BY <2>1 DEF Confirmed, Report, l, at
<1>12. Unread' = data
  <2>1. (IF l >= 1 /\ at(1).name = "recv" THEN at(1).len ELSE 0)
        + (IF l >= 2 /\ at(2).name = "recv" THEN at(2).len ELSE 0) = data
    BY <1>2, <1>7, <1>8, <1>9
  <2> QED
    BY <2>1 DEF Unread, Report, l, at
<1> QED
  BY <1>6, <1>10, <1>11, <1>12 DEF S

LEMMA NoInput ==
    /\ input = <<>> => Unread = 0 /\ Confirmed = 0
    /\ input' = <<>> => Unread' = 0 /\ Confirmed' = 0 /\ InputInv'
    /\ input' = input => Unread' = Unread /\ Confirmed' = Confirmed
                         /\ (InputInv => InputInv')
  BY DEF Unread, Confirmed, Report, InputInv

LEMMA InputStep ==
    ASSUME IInv, Next
    PROVE  InputInv' /\ input' \in Seq([name : CallbackNames, len : Nat])
<1> USE DEF conn, struct, io, app, server
<1>0. InputInv /\ input \in Seq([name : CallbackNames, len : Nat])
  BY DEF IInv, TypeOK
<1>1. CASE input' = input
  BY <1>0, <1>1, NoInput
<1>2. CASE input' = <<>>
  BY <1>2, NoInput
<1>3. CASE input # <<>> /\ input' = Tail(input)
  BY <1>3, InputTail
<1>4. CASE Shakes \/ HandshakeEnds \/ Sends \/ Receives \/ Waits \/ Ends
           \/ ServerActs \/ AcceptFails \/ Accept \/ SendDoneJob \/ RecvDoneJob
           \/ ErrFunc \/ Murder
  <2>1. input' = input
    BY <1>4 DEF Shakes, Connected, ContinueJob, Handshake, HandshakeEnds, Sends,
       SendMoves, Receives, RecvMoves, Waits, MustWait, Ends, SocksEnds, ServerActs,
       ServerSends, ServerCloses, AcceptFails, Accept, SendDoneJob, RecvDoneJob,
       ErrFunc, Murder
  <2> QED
    BY <1>1, <2>1
<1>5. CASE NextConnection \/ CallbackReturns
  BY <1>1, <1>2, <1>5 DEF NextConnection, CallbackReturns
<1>6. CASE NoCallback \/ RecvFunc \/ ClosedFunc \/ SentFunc
  BY <1>1, <1>3, <1>6 DEF NoCallback, RecvFunc, ClosedFunc, SentFunc, Calls
<1>7. CASE Segments
  <2> PICK acked \in 0 .. Len(flight), data \in 0 .. Lesser(rcv_wnd, MaxUp - appSent),
           fin \in BOOLEAN : Segment(acked, data, fin)
    BY <1>7 DEF Segments
  <2>1. acked \in Nat /\ data \in Nat
    OBVIOUS
  <2> QED
    BY <2>1, SegmentInput
<1> QED
  BY NextIs, <1>4, <1>5, <1>6, <1>7

-----------------------------------------------------------------------------
(* What is left of the two connections.                                     *)

LEMMA LifeStep == ASSUME IInv, Next PROVE LifeInv'
<1> USE DEF conn, struct, io, app, server
<1>0. /\ LifeInv /\ JobsInv /\ JobsSay /\ sendLen \in Nat /\ cbs \subseteq {"err", "recv", "sent"}
      /\ (input' = input => Confirmed' = Confirmed) /\ (input' = <<>> => Confirmed' = 0)
      /\ client_closed \in BOOLEAN /\ socks_closed \in BOOLEAN /\ socks_up \in BOOLEAN
  BY NoInput, JobsAre DEF IInv, TypeOK, JobsInv
<1>1. CASE Shakes \/ Waits \/ ServerActs
  <2>1. CASE Connected \/ ContinueJob \/ Handshake
    <3>1. state # "UP"
      <4>1. CASE Connected
        BY <4>1 DEF Connected
      <4>2. CASE ContinueJob
        BY <1>0, <4>2 DEF ContinueJob, JobsInv
      <4>3. CASE Handshake
        <5> PICK s \in SocksStates : <<state, s>> \in HandshakeSteps
          BY <4>3 DEF Handshake
        <5> QED
          BY DEF HandshakeSteps
      <4> QED
        BY <2>1, <4>1, <4>2, <4>3
    <3>2. /\ UNCHANGED <<client_closed, pcb, life, cbs, socks_closed, socks_up, buf,
                       socks_recv_buf, pending, recvBusy, flight, rcv_wnd, input>>
          /\ UNCHANGED <<appSent, appGot, srvRead, srvGot>>
      BY <2>1 DEF Connected, ContinueJob, Handshake
    <3>3. ~socks_up
      BY <1>0, <3>1 DEF LifeInv
    <3>4. Confirmed' = Confirmed
      BY <1>0, <3>2
    <3> HIDE DEF conn, struct, io, app, server
    <3> QED
      BY <1>0, <3>2, <3>3, <3>4 DEF LifeInv
  <2>2. CASE Waits
    BY <1>0, <2>2 DEF LifeInv, Waits, MustWait
  <2>3. CASE ServerActs
    <3>1. UNCHANGED <<client_closed, pcb, life, cbs, socks_closed, socks_up, buf, state,
                      socks_recv_buf, pending, recvBusy, flight, rcv_wnd, input,
                      appSent, appGot, srvRead, srvGot>>
      BY <2>3 DEF ServerActs, ServerSends, ServerCloses
    <3>2. Confirmed' = Confirmed
      BY <1>0, <3>1
    <3> HIDE DEF conn, struct, io, app, server
    <3> QED
      BY <1>0, <3>1, <3>2 DEF LifeInv
  <2> QED
    BY <1>1, <2>1, <2>2, <2>3 DEF Shakes
<1>2. CASE AcceptFails \/ Accept \/ NextConnection
  <2>1. CASE AcceptFails
    BY <1>0, <2>1 DEF LifeInv, AcceptFails
  <2>2. CASE Accept
    BY <1>0, <2>2 DEF LifeInv, Accept
  <2>3. CASE NextConnection
    BY <1>0, <2>3 DEF LifeInv, NextConnection
  <2> QED
    BY <1>2, <2>1, <2>2, <2>3
<1>3. CASE HandshakeEnds
  BY <1>0, <1>3 DEF LifeInv, HandshakeEnds, HandshakeRuns
<1>4. CASE Ends
  BY <1>0, <1>4 DEF LifeInv, Ends, NothingMoved, SocksEnds, FreeSocks, SocksGone, TcpClose
<1>5. CASE Sends
  <2>1. pcb # "none"
    <3> SUFFICES ASSUME pcb = "none" PROVE FALSE
      OBVIOUS
    <3>1. Len(buf) = 0
      BY <1>0 DEF LifeInv
    <3> QED
      BY <1>0, <1>5, <3>1 DEF Sends, SendMoves, JobsInv
  <2> QED
    BY <1>0, <1>5, <2>1 DEF LifeInv, Sends, SendMoves
<1>6. CASE Receives
  BY <1>0, <1>6 DEF LifeInv, Receives, RecvMoves
<1>7. CASE SendDoneJob
  <2>1. pcb = "none" => Taken = <<>>
    BY <1>0 DEF LifeInv, JobsInv, Taken, From
  <2>2. CASE SentEverything
    BY <1>0, <1>7, <2>1, <2>2 DEF LifeInv, SendDoneJob, SocksGone, SentEverything
  <2>3. CASE ~SentEverything
    BY <1>0, <1>7, <2>1, <2>3 DEF LifeInv, SendDoneJob
  <2> QED
    BY <2>2, <2>3
<1>8. CASE RecvDoneJob
  BY <1>0, <1>8 DEF LifeInv, RecvDoneJob, SendOut, AbortClient, TcpAbort, HandleFreed,
     SocksGone, SocksStays, ReceiveAgain, JobsInv, JobsSay, Running
<1>9. CASE Segments
  <2> PICK acked \in 0 .. Len(flight), data \in 0 .. Lesser(rcv_wnd, MaxUp - appSent),
           fin \in BOOLEAN : Segment(acked, data, fin)
    BY <1>9 DEF Segments
  <2>1. acked \in Nat /\ data \in Nat
    OBVIOUS
  <2>2. Confirmed' = acked
    BY <2>1, SegmentInput
  <2>3. ~socks_up => acked = 0 /\ From(flight, acked) = <<>>
    <3>1. ~socks_up => flight = <<>> /\ Len(flight) = 0
      BY <1>0 DEF LifeInv
    <3> QED
      BY <3>1 DEF From
  <2> QED
    BY <1>0, <2>2, <2>3 DEF LifeInv, Segment
<1>10. CASE ErrFunc \/ Murder
  <2>1. CASE ErrFunc
    BY <1>0, <2>1 DEF LifeInv, ErrFunc, HandleFreed, SocksGone, SocksStays
  <2>2. CASE Murder
    BY <1>0, <2>2 DEF LifeInv, Murder, SocksGone, TcpAbort
  <2> QED
    BY <1>10, <2>1, <2>2
<1>11. CASE NoCallback \/ RecvFunc \/ ClosedFunc \/ SentFunc
  <2>0. input # <<>> /\ (input' = Tail(input) => Confirmed' = 0)
    BY <1>11, InputTail DEF NoCallback, RecvFunc, ClosedFunc, SentFunc, Calls
  <2>1. CASE NoCallback
    BY <1>0, <2>0, <2>1 DEF LifeInv, NoCallback, Calls
  <2>2. CASE RecvFunc
    BY <1>0, <2>0, <2>2 DEF LifeInv, RecvFunc, Window
  <2>3. CASE ClosedFunc
    BY <1>0, <2>0, <2>3 DEF LifeInv, ClosedFunc, Calls, FreeClient, TcpClose, HandleFreed,
       SocksGone, SocksStays
  <2>4. CASE SentFunc
    BY <1>0, <2>0, <2>4 DEF LifeInv, SentFunc, Calls, SendOut, AbortClient, TcpAbort,
       FreeClient, TcpClose, HandleFreed, SocksGone, SocksStays, ReceiveAgain
  <2> QED
    BY <1>11, <2>1, <2>2, <2>3, <2>4
<1>12. CASE CallbackReturns
  BY <1>0, <1>12 DEF LifeInv, CallbackReturns
<1> QED
  BY NextIs, <1>1, <1>2, <1>3, <1>4, <1>5, <1>6, <1>7, <1>8, <1>9, <1>10, <1>11, <1>12

-----------------------------------------------------------------------------
(* The jobs.                                                                *)

LEMMA JobsMade ==
    /\ \A rest \in {<<>>, <<"recv">>} :
          /\ <<"sendDone">> \o rest \in {<<"sendDone">>, <<"sendDone", "recv">>}
          /\ <<"send">> \o rest \in {<<"send">>, <<"send", "recv">>}
          /\ (<<"sendDone">> \o rest = <<"sendDone", "recv">>
              \/ <<"send">> \o rest = <<"send", "recv">>) => rest = <<"recv">>
    /\ \A rest \in {<<>>, <<"send">>} :
          /\ <<"recvDone">> \o rest \in {<<"recvDone">>, <<"recvDone", "send">>}
          /\ <<"recv">> \o rest \in {<<"recv">>, <<"recv", "send">>}
    /\ \A rest \in {<<>>, <<"send">>, <<"recv">>} : <<>> \o rest = rest
<1>1. <<"send">> # <<"send", "recv">> /\ <<"sendDone">> # <<"sendDone", "recv">>
  OBVIOUS
<1> QED
  BY <1>1, JobPairs

\* What JobsInv asks of the jobs themselves.
JobsFit ==
    /\ \/ jobs \in {<<>>, <<"connected">>, <<"send">>, <<"sendDone">>}
       \/ jobs = <<"continue">> /\ state # "UP"
       \/ recvBusy /\ jobs \in {<<"recv">>, <<"recvDone">>, <<"send", "recv">>,
                <<"sendDone", "recv">>, <<"recv", "send">>, <<"recvDone", "send">>}
    /\ socks_closed => jobs = <<>> /\ sendLen = 0 /\ ~recvBusy
    /\ cb = "none" /\ input # <<>> => jobs = <<>>

LEMMA JobsFitInv ==
    /\ JobsFit /\ sendLen <= Len(buf) => JobsInv
    /\ JobsInv => JobsFit
<1>1. ASSUME JobsFit, sendLen <= Len(buf) PROVE JobsInv
  <2>1. jobs \in JobLists
    BY <1>1 DEF JobsFit, JobLists
  <2>2. JobsSay
    BY <2>1, JobsAre
  <2>3. /\ jobs = <<"continue">> => state # "UP"
        /\ jobs \in {<<"recv">>, <<"recvDone">>, <<"send", "recv">>,
                <<"sendDone", "recv">>, <<"recv", "send">>, <<"recvDone", "send">>}
           => recvBusy
    BY <1>1 DEF JobsFit
  <2> QED
    BY <1>1, <2>1, <2>2, <2>3 DEF JobsInv, JobsSay, JobsFit
<1>2. ASSUME JobsInv PROVE JobsFit
  <2>1. JobsSay
    BY <1>2, JobsAre DEF JobsInv
  <2>2. jobs \in JobLists
    BY <1>2 DEF JobsInv
  <2>3. \/ jobs \in {<<>>, <<"connected">>, <<"send">>, <<"sendDone">>}
        \/ jobs = <<"continue">>
        \/ jobs \in {<<"recv">>, <<"recvDone">>, <<"send", "recv">>,
                <<"sendDone", "recv">>, <<"recv", "send">>, <<"recvDone", "send">>}
    BY <2>2 DEF JobLists
  <2> QED
    BY <1>2, <2>1, <2>3 DEF JobsInv, JobsSay, JobsFit
<1> QED
  BY <1>1, <1>2

LEMMA JobsFitNext == JobsFit' /\ (sendLen <= Len(buf))' => JobsInv'
  BY JobsFitInv, PTL

LEMMA NextInput ==
    ASSUME IInv, input # <<>>
    PROVE  Head(input).len \in Nat
<1> DEFINE S == [name : CallbackNames, len : Nat]
<1>1. input \in Seq(S) /\ \A e \in S : e.len \in Nat
  BY DEF IInv, TypeOK
<1> HIDE DEF S
<1>2. Head(input) \in S
  BY <1>1, HeadTailProperties
<1> QED
  BY <1>1, <1>2

\* client_recv_func with room: the buffer goes on where it ended.
LEMMA RecvFuncBuf ==
    ASSUME IInv, RecvFunc, ~NoRoom(Head(input).len)
    PROVE  /\ buf' \in Seq(Nat) /\ Len(buf') = Len(buf) + Head(input).len
           /\ Follows(buf', Len(srvGot))
           /\ Head(input).len \in Nat /\ Unread = Head(input).len
           /\ MovedUp = 0 /\ ~socks_closed
<1> DEFINE n == Head(input).len
           k == Len(srvGot) + Len(buf)
           bytes == Bytes(appSent - n + 1, appSent)
<1>1. /\ input # <<>> /\ input' = Tail(input) /\ "recv" \in cbs /\ jobs = <<>>
      /\ Head(input).name = "recv" /\ buf' = buf \o bytes
  BY DEF RecvFunc
<1>2. n \in Nat /\ Unread = n
  BY <1>1, InputTail
<1>3. /\ buf \in Seq(Nat) /\ Len(buf) \in Nat /\ Len(srvGot) \in Nat /\ appSent \in Nat
      /\ WindowInv /\ UpInv /\ LifeInv
  BY LenProperties DEF IInv, TypeOK
<1>4. MovedUp = 0 /\ ~socks_closed
  BY <1>1, <1>3 DEF MovedUp, Running, LifeInv
<1>5. k + n = appSent
  BY <1>1, <1>2, <1>3, <1>4 DEF WindowInv
<1>6. Follows(buf, Len(srvGot))
  BY <1>3, <1>4 DEF UpInv
<1> HIDE DEF n
<1>7. bytes = Bytes(k + 1, k + n)
  <2>1. appSent - n + 1 = k + 1
    BY <1>2, <1>3, <1>5
  <2> QED
    BY <1>5, <2>1
<1>8. bytes \in Seq(Nat) /\ Len(bytes) = n /\ Follows(bytes, k)
  <2>1. k \in Nat
    BY <1>3
  <2> HIDE DEF bytes, k
  <2> QED
    BY <1>2, <1>7, <2>1, FollowsBytes
<1> HIDE DEF bytes
<1> QED
  BY <1>1, <1>2, <1>3, <1>4, <1>6, <1>8, FollowsConcat DEF n

\* A job whose Send or Recv is done is made by the Send or Recv only.
JobsMove == \/ Sends \/ Receives
            \/ UNCHANGED <<jobs, sendLen, recvLen>>
            \/ jobs' \in {<<>>, <<"connected">>, <<"continue">>, <<"send">>,
                          <<"recv">>, <<"send", "recv">>, <<"recv", "send">>}

LEMMA JobsStep == ASSUME IInv, Next PROVE JobsInv' /\ JobsMove
<1> USE DEF conn, struct, io, app, server
<1>0. /\ JobsInv /\ JobsFit /\ JobsSay /\ jobs \in JobLists /\ sendLen <= Len(buf)
      /\ sendLen \in Nat /\ buf \in Seq(Nat) /\ Len(buf) \in Nat
  BY JobsAre, JobsFitInv, LenProperties DEF IInv, TypeOK, JobsInv
<1>1. CASE Shakes
  <2>1. CASE Connected
    BY <1>0, <2>1, JobsFitNext DEF JobsFit, JobsMove, Connected, HandshakeRuns
  <2>2. CASE ContinueJob
    BY <1>0, <2>2, JobsFitNext DEF JobsFit, JobsMove, ContinueJob
  <2>3. CASE Handshake
    BY <1>0, <2>3, JobsFitNext DEF JobsFit, JobsMove, Handshake
  <2> QED
    BY <1>1, <2>1, <2>2, <2>3 DEF Shakes
<1>2. CASE HandshakeEnds
  <2>1. /\ jobs' \in {<<>>, <<"recv">>, <<"send">>, <<"recv", "send">>}
        /\ (jobs' = <<"recv">> \/ jobs' = <<"recv", "send">>) => recvBusy'
    <3>1. <<>> \o <<>> = <<>> /\ <<>> \o <<"send">> = <<"send">>
          /\ <<"recv">> \o <<>> = <<"recv">> /\ <<"recv">> \o <<"send">> = <<"recv", "send">>
      BY JobPairs
    <3>2. <<>> # <<"recv">> /\ <<"send">> # <<"recv">> /\ <<>> # <<"recv", "send">>
          /\ <<"send">> # <<"recv", "send">>
      OBVIOUS
    <3> QED
      BY <1>2, <3>1, <3>2 DEF HandshakeEnds, Up
  <2>2. ~socks_closed' /\ sendLen' <= Len(buf') /\ input' = <<>>
    BY <1>0, <1>2 DEF HandshakeEnds, HandshakeRuns, Up
  <2> QED
    BY <2>1, <2>2, JobsFitNext DEF JobsFit, JobsMove
<1>3. CASE Ends \/ Murder
  <2>1. jobs' = <<>> /\ sendLen' = 0 /\ recvBusy' = FALSE /\ buf' = buf
    BY <1>3 DEF Ends, Murder, SocksEnds, FreeSocks, SocksGone
  <2> QED
    BY <1>0, <2>1, JobsFitNext DEF JobsFit, JobsMove
<1>4. CASE Sends
  <2> PICK rest \in {<<>>, <<"recv">>} :
              SendMoves(rest) /\ NothingMoved /\ (rest = <<"recv">> => recvBusy)
    BY <1>4 DEF Sends
  <2>1. /\ jobs' = <<"sendDone">> \o rest /\ sendLen' \in 1 .. sendLen
        /\ buf' = buf /\ socks_closed' = socks_closed /\ ~socks_closed
        /\ recvBusy' = recvBusy /\ input' = input /\ cb' = cb
    BY DEF SendMoves, NothingMoved
  <2>2. jobs' = <<"sendDone">> \/ (jobs' = <<"sendDone", "recv">> /\ recvBusy')
    BY <2>1, JobsMade
  <2>3. sendLen' <= Len(buf')
    BY <1>0, <2>1
  <2>4. cb = "none" => input = <<>>
    BY DEF NothingMoved
  <2> QED
    BY <1>4, <2>1, <2>2, <2>3, <2>4, JobsFitNext DEF JobsFit, JobsMove
<1>5. CASE Receives
  <2> PICK rest \in {<<>>, <<"send">>} : RecvMoves(rest) /\ NothingMoved /\ recvBusy
    BY <1>5 DEF Receives
  <2>1. /\ jobs' = <<"recvDone">> \o rest /\ sendLen' = sendLen
        /\ buf' = buf /\ socks_closed' = socks_closed /\ ~socks_closed
        /\ recvBusy' /\ input' = input /\ cb' = cb
    BY DEF RecvMoves, NothingMoved
  <2>2. jobs' \in {<<"recvDone">>, <<"recvDone", "send">>}
    BY <2>1, JobsMade
  <2>4. cb = "none" => input = <<>>
    BY DEF NothingMoved
  <2> QED
    BY <1>0, <1>5, <2>1, <2>2, <2>4, JobsFitNext DEF JobsFit, JobsMove
<1>6. CASE Waits
  <2> PICK rest \in {<<>>, <<"recv">>, <<"send">>} :
              MustWait(rest) /\ NothingMoved /\ (rest = <<"recv">> => recvBusy)
    BY <1>6 DEF Waits
  <2>1. /\ jobs' = rest /\ sendLen' = sendLen
        /\ buf' = buf /\ socks_closed' = socks_closed /\ ~socks_closed
        /\ recvBusy' = recvBusy /\ input' = input /\ cb' = cb
    BY DEF MustWait, NothingMoved
  <2>4. cb = "none" => input = <<>>
    BY DEF NothingMoved
  <2> QED
    BY <1>0, <2>1, <2>4, JobsFitNext DEF JobsFit, JobsMove
<1>7. CASE SendDoneJob
  <2>1. /\ Tail(jobs) \in {<<>>, <<"recv">>} /\ (Tail(jobs) = <<"recv">> => recvBusy)
        /\ ~socks_closed /\ (cb = "none" => input = <<>>)
    <3>1. jobs \in {<<"sendDone">>, <<"sendDone", "recv">>} /\ jobs # <<>>
      BY <1>0, <1>7 DEF SendDoneJob, JobsSay, Running
    <3>2. CASE jobs = <<"sendDone">>
      BY <1>0, <3>1, <3>2, JobTails DEF JobsFit
    <3>3. CASE jobs = <<"sendDone", "recv">>
      <4>1. recvBusy
        BY <1>0, <3>3 DEF JobsInv, JobsSay
      <4> QED
        BY <1>0, <3>1, <3>3, <4>1, JobTails DEF JobsFit
    <3> QED
      BY <3>1, <3>2, <3>3
  <2>2. CASE SentEverything
    <3>1. jobs' = <<>> /\ sendLen' = 0 /\ recvBusy' = FALSE /\ buf' = <<>>
      BY <1>7, <2>2 DEF SendDoneJob, SocksGone, SentEverything
    <3> QED
      BY <3>1, JobsFitNext DEF JobsFit, JobsMove
  <2>3. CASE ~SentEverything
    <3>1. /\ jobs' = (IF Taken # <<>> THEN <<"send">> ELSE <<>>) \o Tail(jobs)
          /\ sendLen' = Len(buf') /\ recvBusy' = recvBusy
          /\ socks_closed' = socks_closed /\ cb' = cb /\ input' = input
      BY <1>7, <2>3 DEF SendDoneJob
    <3>2. \/ jobs' \in {<<>>, <<"send">>}
          \/ recvBusy' /\ jobs' \in {<<"recv">>, <<"send", "recv">>}
      BY <2>1, <3>1, JobsMade
    <3>3. Taken \in Seq(Nat) /\ buf' = Taken
      BY <1>0, <1>7 DEF Taken, From, SendDoneJob
    <3>4. sendLen' <= Len(buf')
      BY <3>1, <3>3, LenProperties
    <3> QED
      BY <2>1, <3>1, <3>2, <3>4, JobsFitNext DEF JobsFit, JobsMove
  <2> QED
    BY <2>2, <2>3
<1>8. CASE RecvDoneJob
  <2>1. /\ Tail(jobs) \in {<<>>, <<"send">>}
        /\ ~socks_closed /\ (cb = "none" => input = <<>>)
    <3>1. jobs \in {<<"recvDone">>, <<"recvDone", "send">>} /\ jobs # <<>>
      BY <1>0, <1>8 DEF RecvDoneJob, JobsSay, Running
    <3> QED
      BY <1>0, <3>1, JobTails DEF JobsFit
  <2>2. /\ buf' = buf /\ cb' = cb /\ input' = input
    BY <1>8 DEF RecvDoneJob
  <2>3. \/ jobs' = <<>> /\ sendLen' = 0 /\ recvBusy' = FALSE
        \/ /\ UNCHANGED <<sendLen, socks_closed>>
           /\ \/ jobs' = Tail(jobs)
              \/ jobs' = <<>> \o Tail(jobs)
              \/ jobs' = <<"recv">> \o Tail(jobs) /\ recvBusy'
    BY <1>8 DEF RecvDoneJob, SendOut, AbortClient, HandleFreed, SocksGone, SocksStays,
       ReceiveAgain
  <2>4. CASE jobs' = <<>> /\ sendLen' = 0 /\ recvBusy' = FALSE
    BY <1>0, <2>2, <2>4, JobsFitNext DEF JobsFit, JobsMove
  <2>5. CASE /\ UNCHANGED <<sendLen, socks_closed>>
             /\ \/ jobs' = Tail(jobs)
                \/ jobs' = <<>> \o Tail(jobs)
                \/ jobs' = <<"recv">> \o Tail(jobs) /\ recvBusy'
    <3>1. \/ jobs' \in {<<>>, <<"send">>}
          \/ recvBusy' /\ jobs' \in {<<"recv">>, <<"recv", "send">>}
      BY <2>1, <2>5, JobsMade
    <3> QED
      BY <1>0, <2>1, <2>2, <2>5, <3>1, JobsFitNext DEF JobsFit, JobsMove
  <2> QED
    BY <2>3, <2>4, <2>5
<1>9. CASE AcceptFails \/ Accept \/ NextConnection
  <2>1. CASE AcceptFails
    BY <1>0, <2>1, JobsFitNext DEF JobsFit, JobsMove, AcceptFails
  <2>2. CASE Accept
    BY <1>0, <2>2, JobsFitNext DEF JobsFit, JobsMove, Accept, Quiet
  <2>3. CASE NextConnection
    BY <1>0, <2>3, JobsFitNext DEF JobsFit, JobsMove, NextConnection
  <2> QED
    BY <1>9, <2>1, <2>2, <2>3
<1>10. CASE Segments
  <2>1. jobs' = <<>> /\ UNCHANGED <<sendLen, buf, socks_closed, recvBusy>>
    BY <1>10 DEF Segments, Segment, Quiet
  <2> QED
    BY <1>0, <2>1, JobsFitNext DEF JobsFit, JobsMove
<1>11. CASE ErrFunc \/ ClosedFunc
  <2>1. buf' = buf /\ jobs = <<>>
    BY <1>11 DEF ErrFunc, ClosedFunc, Calls, Quiet
  <2>2. \/ jobs' = <<>> /\ sendLen' = 0 /\ ~recvBusy'
        \/ jobs' = <<>> /\ UNCHANGED <<sendLen, socks_closed>> /\ (recvBusy' => recvBusy)
    BY <1>11, <2>1 DEF ErrFunc, ClosedFunc, FreeClient, HandleFreed, SocksGone, SocksStays
  <2> QED
    BY <1>0, <2>1, <2>2, JobsFitNext DEF JobsFit, JobsMove
<1>12. CASE NoCallback \/ CallbackReturns \/ ServerActs
  <2>1. CASE NoCallback \/ CallbackReturns
    <3>1. jobs' = <<>> /\ UNCHANGED <<sendLen, buf, socks_closed, recvBusy>>
      BY <2>1 DEF NoCallback, CallbackReturns, Calls
    <3> QED
      BY <1>0, <3>1, JobsFitNext DEF JobsFit, JobsMove
  <2>2. CASE ServerActs
    <3>1. UNCHANGED <<jobs, state, sendLen, recvLen, buf, socks_closed, recvBusy, cb, input>>
      BY <2>2 DEF ServerActs, ServerSends, ServerCloses
    <3> QED
      BY <1>0, <3>1, JobsFitNext DEF JobsFit, JobsMove
  <2> QED
    BY <1>12, <2>1, <2>2
<1>13. CASE RecvFunc
  <2>1. CASE NoRoom(Head(input).len)
    BY <1>0, <1>13, <2>1, JobsFitNext DEF JobsFit, JobsMove, RecvFunc
  <2>2. CASE ~NoRoom(Head(input).len)
    <3> DEFINE n == Head(input).len
    <3>1. Len(buf') = Len(buf) + n /\ n \in Nat /\ ~socks_closed
      BY <1>13, <2>2, RecvFuncBuf
    <3>2. /\ cb' = "recv" /\ UNCHANGED <<socks_closed, recvBusy>> /\ jobs = <<>>
          /\ \/ jobs' = <<"send">> /\ sendLen' = n
             \/ UNCHANGED <<jobs, sendLen>>
      BY <1>13, <2>2 DEF RecvFunc
    <3> HIDE DEF n
    <3>3. sendLen' <= Len(buf')
      BY <1>0, <3>1, <3>2
    <3> QED
      BY <1>0, <3>1, <3>2, <3>3, JobsFitNext DEF JobsFit, JobsMove
  <2> QED
    BY <2>1, <2>2
<1>14. CASE SentFunc
  <2>1. /\ cb' = "sent" /\ buf' = buf /\ jobs = <<>>
        /\ \/ jobs' = <<>> /\ sendLen' = 0 /\ recvBusy' = FALSE
           \/ /\ UNCHANGED <<sendLen, socks_closed>>
              /\ \/ jobs' = <<>> /\ (recvBusy' => recvBusy)
                 \/ jobs' = <<>> \o <<>> /\ recvBusy' = FALSE
                 \/ jobs' = <<"recv">> \o <<>> /\ recvBusy' /\ ~socks_closed
    BY <1>14 DEF SentFunc, Calls, SendOut, AbortClient, FreeClient, HandleFreed,
       SocksGone, SocksStays, ReceiveAgain
  <2>2. <<>> \o <<>> = <<>> /\ <<"recv">> \o <<>> = <<"recv">>
    BY JobPairs
  <2> QED
    BY <1>0, <2>1, <2>2, JobsFitNext DEF JobsFit, JobsMove
<1> QED
  BY NextIs, <1>1, <1>2, <1>3, <1>4, <1>5, <1>6, <1>7, <1>8, <1>9, <1>10, <1>11, <1>12,
     <1>13, <1>14

\* What has been moved and not yet accounted for, before and after a step.
LEMMA MovedNext ==
    ASSUME IInv, Next
    PROVE  /\ srvGot' = srvGot => MovedUp' = 0 \/ UNCHANGED <<jobs, MovedUp>>
           /\ srvRead' = srvRead => MovedDown' = 0 \/ UNCHANGED <<jobs, MovedDown>>
           /\ NothingMoved \/ jobs = <<>> => MovedUp = 0 /\ MovedDown = 0
           /\ MovedUp \in Nat /\ MovedDown \in Nat
           /\ Len(buf) \in Nat /\ MovedUp <= Len(buf)
<1>1. JobsMove /\ JobsSay /\ JobsInv
  BY JobsStep, JobsAre DEF IInv, JobsInv
<1>2. /\ NothingMoved \/ jobs = <<>> => MovedUp = 0 /\ MovedDown = 0
      /\ MovedUp \in Nat /\ MovedDown \in Nat
      /\ Len(buf) \in Nat /\ MovedUp <= Len(buf)
  BY <1>1, LenProperties DEF IInv, TypeOK, NothingMoved, MovedUp, MovedDown, Running, JobsInv
<1>3. CASE Sends
  <2> PICK rest \in {<<>>, <<"recv">>} : SendMoves(rest)
    BY <1>3 DEF Sends
  <2>1. jobs' = <<"sendDone">> \o rest
    BY DEF SendMoves
  <2>0. srvGot' # srvGot
    <3> PICK n \in 1 .. sendLen : srvGot' = srvGot \o FirstOf(buf, n)
      BY DEF SendMoves
    <3>1. /\ buf \in Seq(Nat) /\ srvGot \in Seq(Nat) /\ Len(srvGot) \in Nat
          /\ sendLen \in Nat /\ sendLen <= Len(buf)
      BY LenProperties DEF IInv, TypeOK, JobsInv
    <3>2. FirstOf(buf, n) \in Seq(Nat) /\ Len(FirstOf(buf, n)) = n
      BY <1>2, <3>1 DEF FirstOf
    <3> DEFINE f == FirstOf(buf, n)
    <3>3. Len(srvGot \o f) = Len(srvGot) + n
      <4>1. f \in Seq(Nat) /\ Len(f) = n
        BY <3>2
      <4> HIDE DEF f
      <4> QED
        BY <3>1, <4>1, ConcatProperties
    <3> QED
      BY <3>1, <3>3
  <2>2. jobs' \in {<<"sendDone">>, <<"sendDone", "recv">>}
    BY <2>1, JobsMade
  <2>3. MovedDown' = 0
    BY <2>2 DEF MovedDown, Running
  <2> QED
    BY <1>2, <2>0, <2>3
<1>4. CASE Receives
  <2> PICK rest \in {<<>>, <<"send">>} : RecvMoves(rest)
    BY <1>4 DEF Receives
  <2>1. jobs' = <<"recvDone">> \o rest
    BY DEF RecvMoves
  <2>2. jobs' \in {<<"recvDone">>, <<"recvDone", "send">>}
    BY <2>1, JobsMade
  <2>3. MovedUp' = 0
    BY <2>2 DEF MovedUp, Running
  <2>4. srvRead' # srvRead
    BY DEF RecvMoves, IInv, TypeOK
  <2> QED
    BY <1>2, <2>3, <2>4
<1>5. CASE UNCHANGED <<jobs, sendLen, recvLen>>
  BY <1>2, <1>5 DEF MovedUp, MovedDown, Running
<1>6. CASE jobs' \in {<<>>, <<"connected">>, <<"continue">>, <<"send">>,
                     <<"recv">>, <<"send", "recv">>, <<"recv", "send">>}
  <2>1. MovedUp' = 0 /\ MovedDown' = 0
    BY <1>6 DEF MovedUp, MovedDown, Running
  <2> QED
    BY <1>2, <2>1
<1> QED
  BY <1>1, <1>3, <1>4, <1>5, <1>6 DEF JobsMove

-----------------------------------------------------------------------------
(* The stream towards the server.                                           *)

LEMMA UpStep == ASSUME IInv, Next PROVE UpInv'
<1> USE DEF conn, struct, io, app, server
<1>0. /\ UpInv /\ LifeInv /\ Follows(srvGot, 0) /\ JobsSay
      /\ buf \in Seq(Nat) /\ srvGot \in Seq(Nat) /\ Len(srvGot) \in Nat /\ Len(buf) \in Nat
      /\ sendLen \in Nat /\ sendLen <= Len(buf)
  BY JobsAre, LenProperties, InOrderFollows DEF IInv, TypeOK, UpInv, JobsInv
<1>1. ASSUME UNCHANGED <<buf, srvGot>>,
             socks_closed' \/ (~socks_closed /\ (MovedUp' = MovedUp
                               \/ (MovedUp = 0 /\ MovedUp' = 0)))
      PROVE  UpInv'
  BY <1>0, <1>1 DEF UpInv, InOrder, Follows
<1>2. CASE Shakes \/ Waits \/ Receives \/ HandshakeEnds \/ Segments \/ NoCallback
           \/ CallbackReturns
  <2>1. MovedUp = 0
    <3>1. NothingMoved \/ jobs = <<>> \/ jobs \in {<<"connected">>, <<"continue">>}
      BY <1>2 DEF Shakes, Waits, Receives, Connected, ContinueJob, Handshake,
         HandshakeEnds, Segments, Segment, NoCallback, CallbackReturns, Quiet, Calls
    <3>2. jobs \in {<<"connected">>, <<"continue">>} => ~Running("sendDone")
      BY DEF Running
    <3> QED
      BY <3>1, <3>2, MovedNext DEF MovedUp
  <2>2. UNCHANGED <<buf, srvGot, socks_closed>>
    BY <1>2 DEF Shakes, Connected, ContinueJob, Handshake, HandshakeEnds, Receives,
       RecvMoves, Waits, MustWait, Segments, Segment, NoCallback, CallbackReturns
  <2>3. socks_closed \in BOOLEAN
    BY DEF IInv, TypeOK
  <2> QED
    BY <1>1, <2>1, <2>2, <2>3, MovedNext
<1>3. CASE AcceptFails \/ ServerActs
  <2>1. UNCHANGED <<buf, srvGot, socks_closed, MovedUp>>
    BY <1>3 DEF AcceptFails, ServerActs, ServerSends, ServerCloses, MovedUp, Running
  <2> QED
    BY <1>0, <1>1, <2>1 DEF UpInv
<1>4. CASE Accept
  <2>1. UNCHANGED <<buf, srvGot>> /\ buf = <<>> /\ Len(srvGot) = 0 /\ srvGot = <<>>
    BY <1>0, <1>4 DEF Accept, LifeInv
  <2>2. MovedUp' = 0
    BY <1>4 DEF Accept, MovedUp, Running
  <2> QED
    BY <1>0, <2>1, <2>2, FollowsEmpty DEF UpInv
<1>5. CASE NextConnection
  BY <1>5 DEF NextConnection, UpInv, InOrder
<1>6. CASE Ends \/ Murder
  <2>1. UNCHANGED <<buf, srvGot>> /\ socks_closed'
    BY <1>6 DEF Ends, Murder, SocksEnds, FreeSocks, SocksGone
  <2> QED
    BY <1>1, <2>1
<1>7. CASE Sends
  <2> PICK rest \in {<<>>, <<"recv">>} : SendMoves(rest) /\ NothingMoved
    BY <1>7 DEF Sends
  <2> PICK n \in 1 .. sendLen : /\ srvGot' = srvGot \o FirstOf(buf, n)
                                /\ sendLen' = n /\ jobs' = <<"sendDone">> \o rest
                                /\ buf' = buf
    BY DEF SendMoves
  <2>1. MovedUp = 0 /\ Follows(buf, Len(srvGot))
    BY <1>0, MovedNext DEF NothingMoved, UpInv
  <2>2. n \in 0 .. Len(buf)
    BY <1>0
  <2>3. /\ FirstOf(buf, n) \in Seq(Nat) /\ Len(FirstOf(buf, n)) = n
        /\ Follows(FirstOf(buf, n), 0 + Len(srvGot))
    BY <1>0, <2>1, <2>2, FollowsParts
  <2>4. Len(srvGot') = Len(srvGot) + n /\ Follows(srvGot', 0)
    BY <1>0, <2>3, FollowsConcat
  <2>5. MovedUp' = n
    <3>1. jobs' \in {<<"sendDone">>, <<"sendDone", "recv">>}
      BY JobsMade
    <3> QED
      BY <3>1 DEF MovedUp, Running
  <2>6. Len(srvGot') - MovedUp' = Len(srvGot) /\ MovedUp' <= Len(srvGot')
    BY <1>0, <2>4, <2>5
  <2>7. InOrder(srvGot')
    BY <2>4, InOrderFollows
  <2> QED
    BY <2>1, <2>6, <2>7 DEF UpInv
<1>8. CASE SendDoneJob
  <2>1. MovedUp = sendLen /\ buf' = Taken /\ srvGot' = srvGot
    BY <1>8 DEF SendDoneJob, MovedUp, Running
  <2>2. jobs # jobs' => MovedUp' = 0
    BY <2>1, MovedNext
  <2>3. socks_closed' \/ (~socks_closed /\ MovedUp' = 0)
    <3>1. CASE SentEverything
      BY <1>8, <3>1 DEF SendDoneJob, SocksGone
    <3>2. CASE ~SentEverything
      <4>1. Tail(jobs) \in {<<>>, <<"recv">>} /\ ~socks_closed
        <5>1. jobs \in {<<"sendDone">>, <<"sendDone", "recv">>} /\ jobs # <<>>
          BY <1>0, <1>8 DEF SendDoneJob, JobsSay, Running
        <5> QED
          BY <5>1, JobTails DEF IInv, JobsInv
      <4>2. jobs' = (IF Taken # <<>> THEN <<"send">> ELSE <<>>) \o Tail(jobs)
        BY <1>8, <3>2 DEF SendDoneJob
      <4>3. jobs' \in {<<>>, <<"send">>, <<"recv">>, <<"send", "recv">>}
        BY <4>1, <4>2, JobsMade
      <4>4. MovedUp' = 0
        BY <4>3 DEF MovedUp, Running
      <4> QED
        BY <4>1, <4>4
    <3> QED
      BY <3>1, <3>2
  <2>4. CASE socks_closed'
    BY <1>0, <2>1, <2>4 DEF UpInv
  <2>5. CASE ~socks_closed /\ MovedUp' = 0
    <3> DEFINE k == Len(srvGot) - sendLen
    <3>1. k \in Nat /\ Follows(buf, k) /\ k + sendLen = Len(srvGot)
      BY <1>0, <2>1, <2>5 DEF UpInv
    <3>2. sendLen \in 0 .. Len(buf)
      BY <1>0
    <3> HIDE DEF k
    <3>3. Follows(Taken, k + sendLen)
      BY <1>0, <3>1, <3>2, FollowsParts DEF Taken
    <3>4. Len(srvGot') - MovedUp' = k + sendLen /\ MovedUp' <= Len(srvGot')
      BY <1>0, <2>1, <2>5, <3>1
    <3> QED
      BY <1>0, <2>1, <3>3, <3>4 DEF UpInv
  <2> QED
    BY <2>3, <2>4, <2>5
<1>9. CASE RecvDoneJob \/ ErrFunc \/ ClosedFunc \/ SentFunc
  <2>1. UNCHANGED <<buf, srvGot>> /\ (socks_closed' \/ socks_closed' = socks_closed)
    BY <1>9 DEF RecvDoneJob, ErrFunc, ClosedFunc, SentFunc, SendOut, AbortClient,
       FreeClient, HandleFreed, SocksGone, SocksStays
  <2>2. MovedUp = 0
    <3>1. jobs = <<>> \/ Running("recvDone")
      BY <1>9 DEF RecvDoneJob, ErrFunc, ClosedFunc, SentFunc, Calls, Quiet, Running
    <3>2. Running("recvDone") => ~Running("sendDone")
      BY DEF Running
    <3> QED
      BY <3>1, <3>2, MovedNext DEF MovedUp
  <2>3. MovedUp' = 0
    BY <2>1, <2>2, MovedNext
  <2>4. socks_closed \in BOOLEAN
    BY DEF IInv, TypeOK
  <2> QED
    BY <1>1, <2>1, <2>2, <2>3, <2>4
<1>10. CASE RecvFunc
  <2>1. srvGot' = srvGot /\ UNCHANGED socks_closed /\ jobs = <<>>
    BY <1>10 DEF RecvFunc
  <2>2. MovedUp = 0 /\ MovedUp' = 0
    BY <2>1, MovedNext
  <2>3. CASE NoRoom(Head(input).len)
    <3>1. UNCHANGED buf
      BY <1>10, <2>3 DEF RecvFunc
    <3> QED
      BY <1>0, <1>1, <2>1, <2>2, <3>1 DEF UpInv
  <2>4. CASE ~NoRoom(Head(input).len)
    BY <1>0, <1>10, <2>1, <2>2, <2>4, RecvFuncBuf DEF UpInv
  <2> QED
    BY <2>3, <2>4
<1> QED
  BY NextIs, <1>2, <1>3, <1>4, <1>5, <1>6, <1>7, <1>8, <1>9, <1>10

\* A Send moves bytes from one account to the other.
LEMMA SendsMove ==
    ASSUME IInv, Sends
    PROVE  Len(srvGot') - MovedUp' = Len(srvGot) - MovedUp
<1> PICK rest \in {<<>>, <<"recv">>} : SendMoves(rest) /\ NothingMoved
  BY DEF Sends
<1> PICK n \in 1 .. sendLen : /\ srvGot' = srvGot \o FirstOf(buf, n)
                              /\ sendLen' = n /\ jobs' = <<"sendDone">> \o rest
  BY DEF SendMoves
<1>0. /\ buf \in Seq(Nat) /\ srvGot \in Seq(Nat) /\ Len(srvGot) \in Nat /\ Len(buf) \in Nat
      /\ sendLen \in Nat /\ sendLen <= Len(buf)
  BY LenProperties DEF IInv, TypeOK, JobsInv
<1> DEFINE f == FirstOf(buf, n)
<1>1. f \in Seq(Nat) /\ Len(f) = n
  BY <1>0 DEF FirstOf
<1>2. Len(srvGot \o f) = Len(srvGot) + n
  <2> HIDE DEF f
  <2> QED
    BY <1>0, <1>1, ConcatProperties
<1>3. MovedUp' = n
  <2>1. jobs' \in {<<"sendDone">>, <<"sendDone", "recv">>}
    BY JobsMade
  <2> QED
    BY <2>1 DEF MovedUp, Running
<1>4. MovedUp = 0
  BY DEF NothingMoved, MovedUp
<1> QED
  BY <1>0, <1>2, <1>3, <1>4

-----------------------------------------------------------------------------
(* The window.                                                              *)

LEMMA WindowStep == ASSUME IInv, Next PROVE WindowInv'
<1> USE DEF conn, struct, io, app, server
<1>0. /\ WindowInv /\ LifeInv /\ JobsSay
      /\ buf \in Seq(Nat) /\ srvGot \in Seq(Nat) /\ Len(srvGot) \in Nat /\ Len(buf) \in Nat
      /\ sendLen \in Nat /\ sendLen <= Len(buf) /\ rcv_wnd \in Nat /\ appSent \in Nat
      /\ "recv" \in cbs => pcb = "open" /\ ~client_closed /\ ~socks_closed
      /\ MovedUp \in Nat /\ (input = <<>> => Unread = 0)
      /\ (input' = input => Unread' = Unread)
  BY JobsAre, LenProperties, MovedNext, NoInput DEF IInv, TypeOK, JobsInv, LifeInv
<1>1. ASSUME UNCHANGED <<buf, srvGot, rcv_wnd, appSent>>, MovedUp' = MovedUp,
             "recv" \in cbs' => "recv" \in cbs /\ Unread' = Unread
      PROVE  WindowInv'
  BY <1>0, <1>1 DEF WindowInv
<1>2. CASE Shakes \/ Waits \/ Receives \/ HandshakeEnds
  <2>1. MovedUp = 0
    <3>1. NothingMoved \/ jobs = <<>> \/ jobs \in {<<"connected">>, <<"continue">>}
      BY <1>2 DEF Shakes, Waits, Receives, Connected, ContinueJob, Handshake,
         HandshakeEnds
    <3>2. jobs \in {<<"connected">>, <<"continue">>} => ~Running("sendDone")
      BY DEF Running
    <3> QED
      BY <3>1, <3>2, MovedNext DEF MovedUp
  <2>2. UNCHANGED <<buf, srvGot, rcv_wnd, appSent, input>> /\ ("recv" \in cbs' => "recv" \in cbs)
    BY <1>2 DEF Shakes, Connected, ContinueJob, Handshake, HandshakeEnds, Receives,
       RecvMoves, Waits, MustWait
  <2>3. MovedUp' = 0
    BY <2>1, <2>2, MovedNext
  <2> QED
    BY <1>0, <1>1, <2>1, <2>2, <2>3
<1>3. CASE ServerActs
  <2>1. UNCHANGED <<buf, srvGot, rcv_wnd, appSent, cbs, input, jobs, sendLen>>
    BY <1>3 DEF ServerActs, ServerSends, ServerCloses
  <2>2. MovedUp' = MovedUp
    BY <2>1 DEF MovedUp, Running
  <2> QED
    BY <1>0, <1>1, <2>1, <2>2
<1>4. CASE AcceptFails \/ NextConnection \/ Ends \/ ErrFunc \/ Murder \/ ClosedFunc
  <2>1. pcb # "open" => cbs = {}
    BY <1>0 DEF LifeInv
  <2>2. "recv" \notin cbs'
    <3>1. CASE AcceptFails \/ NextConnection \/ ErrFunc \/ ClosedFunc
      BY <1>0, <2>1, <3>1 DEF AcceptFails, NextConnection, ErrFunc, ClosedFunc, FreeClient, TcpClose
    <3>2. CASE Ends
      BY <1>0, <3>2 DEF Ends, SocksEnds, FreeSocks, TcpClose
    <3>3. CASE Murder
      BY <1>0, <3>3 DEF Murder, TcpAbort
    <3> QED
      BY <1>4, <3>1, <3>2, <3>3
  <2> QED
    BY <2>2 DEF WindowInv
<1>5. CASE Accept
  <2>1. /\ UNCHANGED <<buf, srvGot, rcv_wnd, appSent, input>>
        /\ buf = <<>> /\ srvGot = <<>> /\ rcv_wnd = Wnd /\ appSent = 0 /\ input = <<>>
    BY <1>0, <1>5 DEF Accept, LifeInv
  <2>2. MovedUp' = 0 /\ Unread' = 0 /\ Len(buf') = 0 /\ Len(srvGot') = 0
    BY <1>0, <1>5, <2>1 DEF Accept, MovedUp, Running
  <2> QED
    BY <2>1, <2>2, TunAssumption DEF WindowInv
<1>6. CASE Sends
  <2>1. Len(srvGot') - MovedUp' = Len(srvGot) - MovedUp
    BY <1>6, SendsMove
  <2>2. UNCHANGED <<buf, rcv_wnd, appSent, cbs, input>>
    BY <1>6 DEF Sends, SendMoves
  <2> QED
    BY <1>0, <2>1, <2>2 DEF WindowInv
<1>7. CASE SendDoneJob
  <2>1. MovedUp = sendLen /\ buf' = Taken /\ UNCHANGED <<srvGot, appSent, input, cbs>>
    BY <1>7 DEF SendDoneJob, MovedUp, Running
  <2>2. "recv" \in cbs => ~SentEverything
    BY <1>0 DEF SentEverything
  <2>3. ~SentEverything /\ ~client_closed => rcv_wnd' = rcv_wnd + sendLen
    BY <1>7 DEF SendDoneJob
  <2>4. Len(Taken) = Len(buf) - sendLen
    BY <1>0 DEF Taken, From
  <2>5. "recv" \in cbs => MovedUp' = 0
    <3> SUFFICES ASSUME ~SentEverything PROVE MovedUp' = 0
      BY <2>2
    <3>1. jobs \in {<<"sendDone">>, <<"sendDone", "recv">>}
      BY <1>0, <1>7 DEF SendDoneJob, JobsSay, Running
    <3>2. Tail(jobs) \in {<<>>, <<"recv">>}
      BY <3>1, JobTails
    <3>3. jobs' = (IF Taken # <<>> THEN <<"send">> ELSE <<>>) \o Tail(jobs)
      BY <1>7 DEF SendDoneJob
    <3>4. jobs' \in {<<>>, <<"send">>, <<"recv">>, <<"send", "recv">>}
      BY <3>2, <3>3, JobsMade
    <3> QED
      BY <3>4 DEF MovedUp, Running
  <2> HIDE DEF conn, struct, io, app, server
  <2> QED
    BY <1>0, <2>1, <2>2, <2>3, <2>4, <2>5 DEF WindowInv
<1>8. CASE RecvDoneJob \/ SentFunc
  <2>1. MovedUp = 0
    <3>1. jobs = <<>> \/ Running("recvDone")
      BY <1>8 DEF RecvDoneJob, SentFunc, Calls, Running
    <3>2. Running("recvDone") => ~Running("sendDone")
      BY DEF Running
    <3> QED
      BY <3>1, <3>2, MovedNext DEF MovedUp
  <2>2. UNCHANGED <<buf, srvGot, appSent>>
    BY <1>8 DEF RecvDoneJob, SentFunc
  <2>3. MovedUp' = 0
    BY <2>1, <2>2, MovedNext
  <2>4. cbs' = {} \/ UNCHANGED <<cbs, rcv_wnd>>
    BY <1>8 DEF RecvDoneJob, SentFunc, SendOut, AbortClient, TcpAbort, FreeClient, TcpClose
  <2>5. Unread' = Unread
    <3>1. CASE RecvDoneJob
      BY <1>0, <3>1 DEF RecvDoneJob
    <3>2. CASE SentFunc
      <4>1. input # <<>> /\ input' = Tail(input) /\ Head(input).name = "sent"
        BY <3>2 DEF SentFunc, Calls
      <4> QED
        BY <4>1, InputTail
    <3> QED
      BY <1>8, <3>1, <3>2
  <2>6. CASE cbs' = {}
    BY <2>6 DEF WindowInv
  <2>7. CASE UNCHANGED <<cbs, rcv_wnd>>
    BY <1>1, <2>1, <2>2, <2>3, <2>5, <2>7
  <2> QED
    BY <2>4, <2>6, <2>7
<1>9. CASE Segments
  <2> PICK acked \in 0 .. Len(flight), data \in 0 .. Lesser(rcv_wnd, MaxUp - appSent),
           fin \in BOOLEAN : Segment(acked, data, fin)
    BY <1>9 DEF Segments
  <2>1. acked \in Nat /\ data \in Nat
    OBVIOUS
  <2>2. Unread' = data
    BY <2>1, SegmentInput
  <2>3. /\ UNCHANGED <<buf, srvGot, cbs>> /\ appSent' = appSent + data
        /\ rcv_wnd' = rcv_wnd - data /\ input = <<>> /\ jobs = <<>>
    BY DEF Segment, Quiet
  <2>4. MovedUp = 0 /\ MovedUp' = 0 /\ Unread = 0
    BY <1>0, <2>3, MovedNext
  <2>5. "recv" \in cbs => Len(srvGot) + Len(buf) = appSent /\ rcv_wnd + Len(buf) = Wnd
    BY <1>0, <2>4, TunAssumption DEF WindowInv
  <2>6. "recv" \in cbs =>
           /\ Len(srvGot) - 0 + Len(buf) + data = appSent + data
           /\ (rcv_wnd - data) + Len(buf) + data = Wnd
    <3> DEFINE got == Len(srvGot)
               held == Len(buf)
    <3>1. got \in Nat /\ held \in Nat /\ rcv_wnd \in Nat /\ appSent \in Nat
      BY <1>0
    <3>2. "recv" \in cbs => got + held = appSent /\ rcv_wnd + held = Wnd
      BY <2>5
    <3> HIDE DEF got, held
    <3>3. "recv" \in cbs => got - 0 + held + data = appSent + data
      BY <2>1, <3>1, <3>2
    <3>4. "recv" \in cbs => (rcv_wnd - data) + held + data = Wnd
      BY <2>1, <3>1, <3>2
    <3> QED
      BY <3>3, <3>4 DEF got, held
  <2> QED
    BY <2>2, <2>3, <2>4, <2>6 DEF WindowInv
<1>10. CASE NoCallback
  <2>1. /\ UNCHANGED <<buf, srvGot, cbs, appSent>> /\ jobs = <<>>
        /\ input # <<>> /\ input' = Tail(input)
        /\ "recv" \in cbs => Head(input).name = "sent" /\ "sent" \notin cbs
        /\ rcv_wnd' = IF pcb = "open" THEN rcv_wnd + Head(input).len ELSE rcv_wnd
    BY <1>10 DEF NoCallback, Calls
  <2>2. MovedUp = 0 /\ MovedUp' = 0
    BY <2>1, MovedNext
  <2>3. "recv" \in cbs => Head(input).len = 0 /\ Unread' = Unread
    <3> SUFFICES ASSUME "recv" \in cbs PROVE Head(input).len = 0 /\ Unread' = Unread
      OBVIOUS
    <3>1. ~socks_up
      BY <1>0, <2>1 DEF LifeInv
    <3>2. Confirmed = 0
      BY <1>0, <3>1 DEF LifeInv
    <3> QED
      BY <2>1, <3>2, InputTail
  <2>4. "recv" \in cbs => rcv_wnd' = rcv_wnd
    <3> DEFINE n == Head(input).len
    <3>1. "recv" \in cbs => n = 0
      BY <2>3
    <3>2. rcv_wnd' = IF pcb = "open" THEN rcv_wnd + n ELSE rcv_wnd
      BY <2>1
    <3> HIDE DEF n
    <3> QED
      BY <1>0, <3>1, <3>2
  <2> QED
    BY <1>0, <1>1, <2>1, <2>2, <2>3, <2>4 DEF WindowInv
<1>11. CASE RecvFunc
  <2>1. srvGot' = srvGot /\ UNCHANGED <<cbs, appSent>> /\ jobs = <<>>
    BY <1>11 DEF RecvFunc
  <2>2. MovedUp = 0 /\ MovedUp' = 0
    BY <2>1, MovedNext
  <2>3. CASE NoRoom(Head(input).len)
    <3>1. UNCHANGED <<buf, input, rcv_wnd>>
      BY <1>11, <2>3 DEF RecvFunc
    <3> QED
      BY <1>0, <1>1, <2>1, <2>2, <3>1
  <2>4. CASE ~NoRoom(Head(input).len)
    <3> DEFINE n == Head(input).len
    <3>1. /\ input # <<>> /\ input' = Tail(input) /\ Head(input).name = "recv"
          /\ rcv_wnd' = rcv_wnd
      BY <1>11, <2>4 DEF RecvFunc, Window
    <3>2. n \in Nat /\ Len(buf') = Len(buf) + n /\ Unread = n /\ Unread' = 0
      BY <1>11, <2>4, <3>1, RecvFuncBuf, InputTail
    <3> HIDE DEF n
    <3> QED
      BY <1>0, <2>1, <2>2, <3>1, <3>2 DEF WindowInv
  <2> QED
    BY <2>3, <2>4
<1>12. CASE CallbackReturns
  <2>1. /\ UNCHANGED <<buf, srvGot, rcv_wnd, appSent, cbs>> /\ jobs = <<>> /\ cb # "none"
        /\ killed # 1 => input' = input
    BY <1>12 DEF CallbackReturns
  <2>2. MovedUp = 0 /\ MovedUp' = 0
    BY <2>1, MovedNext
  <2>3. killed = 1 => "recv" \notin cbs
    BY <1>0, <2>1 DEF IInv, FateInv, CallbackKnowsFate
  <2> QED
    BY <1>0, <1>1, <2>1, <2>2, <2>3
<1> QED
  BY NextIs, <1>2, <1>3, <1>4, <1>5, <1>6, <1>7, <1>8, <1>9, <1>10, <1>11, <1>12

-----------------------------------------------------------------------------
(* The stream towards the app.                                              *)

\* client_socks_recv_send_out queues the next bytes and keeps the others.
LEMMA SendOutKeeps ==
    ASSUME IInv, pcb = "open", NEW data \in Seq(Nat), NEW unconfirmed \in Nat, NEW rest,
           SendOut(data, unconfirmed, rest), Follows(data, Len(appGot) + Len(flight))
    PROVE  /\ socks_recv_buf' \in Seq(Nat) /\ flight' \in Seq(Nat) /\ pending' \in Nat
           /\ pcb' = "open" =>
                 /\ Follows(flight', Len(appGot)) /\ Len(flight') <= SndBuf
                 /\ Follows(socks_recv_buf', Len(appGot) + Len(flight'))
                 /\ pending' = unconfirmed + Len(flight') - Len(flight)
                 /\ recvBusy' => socks_recv_buf' = <<>>
                 /\ Len(flight') + Len(socks_recv_buf') = Len(flight) + Len(data)
<1>0. /\ flight \in Seq(Nat) /\ appGot \in Seq(Nat) /\ Len(flight) \in Nat
      /\ Len(appGot) \in Nat /\ Len(data) \in Nat /\ SndBuf \in Nat /\ Len(flight) <= SndBuf
      /\ Follows(flight, Len(appGot))
  BY LenProperties, TunAssumption DEF IInv, TypeOK, DownInv
<1>1. CASE socks_recv_buf' = data /\ pending' = unconfirmed /\ AbortClient(rest)
  <2>1. pcb' = "aborted" /\ flight' = <<>>
    BY <1>1 DEF AbortClient, TcpAbort
  <2> QED
    BY <1>1, <2>1
<1>2. CASE \E n \in {0, Lesser(Len(data), SndBuf - Len(flight))} :
              /\ socks_recv_buf' = From(data, n)
              /\ pending' = unconfirmed + n
              /\ \/ AbortClient(rest)
                 \/ /\ flight' = flight \o FirstOf(data, n)
                    /\ recvBusy' => From(data, n) = <<>>
  <2> PICK n \in {0, Lesser(Len(data), SndBuf - Len(flight))} :
              /\ socks_recv_buf' = From(data, n)
              /\ pending' = unconfirmed + n
              /\ \/ AbortClient(rest)
                 \/ /\ flight' = flight \o FirstOf(data, n)
                    /\ recvBusy' => From(data, n) = <<>>
    BY <1>2
  <2> DEFINE k == Len(appGot) + Len(flight)
             first == FirstOf(data, n)
             left == From(data, n)
  <2>1. n \in 0 .. Len(data) /\ Len(flight) + n <= SndBuf /\ k \in Nat
    BY <1>0 DEF Lesser
  <2>2. /\ first \in Seq(Nat) /\ Len(first) = n /\ Follows(first, k)
        /\ left \in Seq(Nat) /\ Len(left) = Len(data) - n /\ Follows(left, k + n)
    <3>1. Follows(data, k)
      OBVIOUS
    <3> HIDE DEF k
    <3> QED
      BY <2>1, <3>1, FollowsParts
  <2> HIDE DEF first, left
  <2>3. CASE AbortClient(rest)
    <3>1. pcb' = "aborted" /\ flight' = <<>>
      BY <2>3 DEF AbortClient, TcpAbort
    <3>2. socks_recv_buf' = left /\ pending' = unconfirmed + n
      BY DEF left
    <3> QED
      BY <2>1, <2>2, <3>1, <3>2
  <2>4. CASE flight' = flight \o first /\ (recvBusy' => left = <<>>)
    <3>1. /\ flight' \in Seq(Nat) /\ Len(flight') = Len(flight) + n
          /\ Follows(flight', Len(appGot))
      BY <1>0, <2>2, <2>4, FollowsConcat
    <3>2. Follows(left, Len(appGot) + Len(flight'))
      <4>1. k + n = Len(appGot) + Len(flight')
        BY <1>0, <2>1, <3>1
      <4> QED
        BY <2>2, <4>1
    <3>3. socks_recv_buf' = left /\ pending' = unconfirmed + n
      BY DEF left
    <3>4. n \in Nat /\ Len(flight') <= SndBuf
          /\ pending' = unconfirmed + Len(flight') - Len(flight) /\ pending' \in Nat
      BY <1>0, <2>1, <3>1, <3>3
    <3>5. Len(flight') + Len(socks_recv_buf') = Len(flight) + Len(data)
      <4>1. Len(socks_recv_buf') = Len(data) - n
        BY <2>2, <3>3
      <4>2. n \in Nat
        BY <1>0, <2>1
      <4>3. \A a, b, c \in Nat : (a + c) + (b - c) = a + b
        OBVIOUS
      <4> HIDE DEF k
      <4> QED
        BY <1>0, <3>1, <4>1, <4>2, <4>3
    <3> QED
      BY <2>2, <2>4, <3>1, <3>2, <3>3, <3>4, <3>5
  <2> QED
    BY <2>3, <2>4 DEF first, left
<1>3. \A n : From(data, n) = <<>> \/ From(data, n) # <<>>
  OBVIOUS
<1> QED
  BY <1>1, <1>2 DEF SendOut, ReceiveAgain

\* What client_socks_recv_handler_done takes from BSocksClient.
LEMMA RecvDoneData ==
    ASSUME IInv, RecvDoneJob, ~client_closed
    PROVE  /\ Bytes(srvRead - recvLen + 1, srvRead) \in Seq(Nat)
           /\ Follows(Bytes(srvRead - recvLen + 1, srvRead), Len(appGot) + Len(flight))
           /\ Len(appGot) + Len(flight) + Len(Bytes(srvRead - recvLen + 1, srvRead)) = srvRead
           /\ pcb = "open"
<1> DEFINE k == Len(appGot) + Len(flight)
           data == Bytes(srvRead - recvLen + 1, srvRead)
<1>1. /\ JobsInv /\ JobsSay /\ LifeInv /\ DownInv /\ recvLen \in Nat /\ srvRead \in Nat
      /\ Len(appGot) \in Nat /\ Len(flight) \in Nat
  BY JobsAre, LenProperties DEF IInv, TypeOK, JobsInv
<1>2. Running("recvDone") /\ recvBusy /\ ~socks_closed /\ pcb = "open"
  BY <1>1 DEF RecvDoneJob, Running, JobsSay, JobsInv, LifeInv
<1>3. k + recvLen = srvRead
  <2>1. Len(socks_recv_buf) = 0 /\ MovedDown = recvLen
    BY <1>1, <1>2 DEF DownInv, MovedDown
  <2> QED
    BY <1>1, <1>2, <2>1 DEF DownInv
<1>4. data = Bytes(k + 1, k + recvLen)
  <2>1. srvRead - recvLen + 1 = k + 1
    BY <1>1, <1>3
  <2> QED
    BY <1>3, <2>1
<1>5. data \in Seq(Nat) /\ Len(data) = recvLen /\ Follows(data, k)
  <2>1. k \in Nat
    BY <1>1
  <2> HIDE DEF data, k
  <2> QED
    BY <1>1, <1>4, <2>1, FollowsBytes
<1> HIDE DEF data
<1> QED
  BY <1>2, <1>3, <1>5 DEF data

LEMMA ConfirmedNat == IInv => Confirmed \in Nat
<1> SUFFICES ASSUME IInv PROVE Confirmed \in Nat
  OBVIOUS
<1> DEFINE S == [name : CallbackNames, len : Nat]
<1>1. input \in Seq(S) /\ \A e \in S : e.len \in Nat
  BY DEF IInv, TypeOK
<1> HIDE DEF S
<1>2. Len(input) >= 1 => input[1] \in S
  BY <1>1, LenProperties, ElementOfSeq
<1> QED
  BY <1>1, <1>2 DEF Confirmed, Report

LEMMA DownStep == ASSUME IInv, Next PROVE DownInv'
<1> USE DEF conn, struct, io, app, server
<1>0. /\ DownInv /\ LifeInv /\ JobsSay
      /\ flight \in Seq(Nat) /\ appGot \in Seq(Nat) /\ socks_recv_buf \in Seq(Nat)
      /\ Len(flight) \in Nat /\ Len(appGot) \in Nat /\ Len(socks_recv_buf) \in Nat
      /\ pending \in Nat /\ recvLen \in Nat /\ srvRead \in Nat /\ MovedDown \in Nat
      /\ client_closed <=> pcb # "open"
      /\ (input = <<>> => Confirmed = 0)
      /\ (input' = input => Confirmed' = Confirmed)
  BY JobsAre, LenProperties, MovedNext, NoInput DEF IInv, TypeOK, JobsInv, LifeInv
<1>1. ASSUME pcb' # "open", appGot' = appGot PROVE DownInv'
  BY <1>0, <1>1 DEF DownInv, InOrder
<1>2. ASSUME UNCHANGED <<appGot, flight, socks_recv_buf, pending>>,
             Confirmed' = Confirmed,
             pcb' = "open" =>
                /\ pcb = "open"
                /\ recvBusy' => recvBusy \/ ~socks_up
                /\ socks_closed' \/ (~socks_closed /\ MovedDown' - srvRead' = MovedDown - srvRead),
             MovedDown' \in Nat, srvRead' \in Nat
      PROVE  DownInv'
  <2>1. CASE pcb' # "open"
    BY <1>1, <1>2, <2>1
  <2>2. CASE pcb' = "open"
    <3>1. ~socks_up => socks_recv_buf = <<>>
      BY <1>0 DEF LifeInv
    <3>2. InOrder(appGot') /\ (recvBusy' => socks_recv_buf' = <<>>)
      BY <1>0, <1>2, <2>2, <3>1 DEF DownInv, InOrder
    <3>3. ~socks_closed' =>
             Len(appGot') + Len(flight') + Len(socks_recv_buf') + MovedDown' = srvRead'
      <4> SUFFICES ASSUME ~socks_closed'
                   PROVE Len(appGot) + Len(flight) + Len(socks_recv_buf) + MovedDown' = srvRead'
        BY <1>2
      <4>1. Len(appGot) + Len(flight) + Len(socks_recv_buf) + MovedDown = srvRead
        BY <1>0, <1>2, <2>2 DEF DownInv
      <4>2. MovedDown' - srvRead' = MovedDown - srvRead
        BY <1>2, <2>2
      <4> DEFINE f == Len(appGot) + Len(flight) + Len(socks_recv_buf)
                 a == MovedDown
                 b == srvRead
                 m == MovedDown'
                 r == srvRead'
      <4>3. f \in Nat /\ a \in Nat /\ b \in Nat /\ m \in Nat /\ r \in Nat
        BY <1>0, <1>2
      <4>4. f + a = b /\ m - r = a - b
        BY <4>1, <4>2
      <4> HIDE DEF f, a, b, m, r
      <4>5. f + m = r
        BY <4>3, <4>4
      <4> QED
        BY <4>5 DEF f, m, r
    <3> QED
      BY <1>0, <1>2, <2>2, <3>2, <3>3 DEF DownInv
  <2> QED
    BY <2>1, <2>2
<1>3. CASE Shakes \/ Waits \/ Sends \/ ServerActs
  <2>1. /\ UNCHANGED <<appGot, flight, socks_recv_buf, pending, pcb, recvBusy, socks_closed,
                      srvRead, input>>
        /\ (jobs' = jobs /\ recvLen' = recvLen) \/ MovedDown = 0
    <3>1. CASE Shakes \/ Waits \/ Sends
      <4>1. NothingMoved \/ jobs = <<>> \/ jobs \in {<<"connected">>, <<"continue">>}
        BY <3>1 DEF Shakes, Waits, Sends, Connected, ContinueJob, Handshake
      <4>2. jobs \in {<<"connected">>, <<"continue">>} => ~Running("recvDone")
        BY DEF Running
      <4>3. MovedDown = 0
        BY <4>1, <4>2, MovedNext DEF MovedDown
      <4>4. UNCHANGED <<appGot, flight, socks_recv_buf, pending, pcb, recvBusy, socks_closed,
                        srvRead, input>>
        BY <3>1 DEF Shakes, Connected, ContinueJob, Handshake, Waits, MustWait, Sends, SendMoves
      <4> QED
        BY <4>3, <4>4
    <3>2. CASE ServerActs
      BY <3>2 DEF ServerActs, ServerSends, ServerCloses
    <3> QED
      BY <1>3, <3>1, <3>2
  <2>2. MovedDown' = MovedDown
    BY <2>1, MovedNext DEF MovedDown, Running
  <2>3. socks_closed \in BOOLEAN
    BY DEF IInv, TypeOK
  <2> QED
    BY <1>0, <1>2, <2>1, <2>2, <2>3
<1>4. CASE HandshakeEnds
  <2>1. /\ UNCHANGED <<appGot, flight, socks_recv_buf, pending, pcb, socks_closed,
                      srvRead, input>>
        /\ jobs = <<>> /\ ~socks_closed /\ state # "UP"
    BY <1>4 DEF HandshakeEnds, HandshakeRuns
  <2>2. ~socks_up
    BY <1>0, <2>1 DEF LifeInv
  <2>3. MovedDown = 0 /\ MovedDown' = 0
    BY <2>1, MovedNext
  <2> QED
    BY <1>0, <1>2, <2>1, <2>2, <2>3
<1>5. CASE AcceptFails \/ ErrFunc \/ Murder \/ ClosedFunc
  <2>1. appGot' = appGot
    BY <1>5 DEF AcceptFails, ErrFunc, Murder, ClosedFunc
  <2>2. pcb' # "open"
    <3>1. CASE Murder
      BY <1>0, <3>1 DEF Murder, TcpAbort
    <3>2. CASE AcceptFails \/ ErrFunc \/ ClosedFunc
      BY <3>2 DEF AcceptFails, ErrFunc, ClosedFunc, FreeClient, TcpClose
    <3> QED
      BY <1>5, <3>1, <3>2
  <2> QED
    BY <1>1, <2>1, <2>2
<1>6. CASE NextConnection
  BY <1>6 DEF NextConnection, DownInv, InOrder
<1>7. CASE Accept
  <2>1. /\ UNCHANGED <<appGot, flight, socks_recv_buf, pending, recvBusy, srvRead, input>>
        /\ appGot = <<>> /\ flight = <<>> /\ socks_recv_buf = <<>> /\ pending = 0
        /\ srvRead = 0 /\ input = <<>>
    BY <1>0, <1>7 DEF Accept, LifeInv
  <2>2. MovedDown' = 0 /\ Confirmed' = 0 /\ Len(appGot') = 0 /\ Len(flight') = 0
        /\ Len(socks_recv_buf') = 0
    BY <1>0, <1>7, <2>1 DEF Accept, MovedDown, Running
  <2>3. Follows(flight', Len(appGot')) /\ Follows(socks_recv_buf', Len(appGot') + Len(flight'))
    BY <2>1, FollowsEmpty
  <2>4. InOrder(appGot')
    BY <1>0, <2>1 DEF DownInv
  <2> QED
    BY <2>1, <2>2, <2>3, <2>4, TunAssumption DEF DownInv
<1>8. CASE Receives
  <2> PICK rest \in {<<>>, <<"send">>} : RecvMoves(rest) /\ NothingMoved
    BY <1>8 DEF Receives
  <2> PICK n \in 1 .. Lesser(RecvBuf, srvSent - srvRead) :
            /\ srvRead' = srvRead + n
            /\ recvLen' = n /\ jobs' = <<"recvDone">> \o rest
            /\ UNCHANGED <<struct, conn, input, app, recvBusy>>
    BY DEF RecvMoves
  <2>0. n \in Nat
    OBVIOUS
  <2>1. MovedDown' = n
    <3>1. jobs' \in {<<"recvDone">>, <<"recvDone", "send">>}
      BY JobsMade
    <3> QED
      BY <3>1 DEF MovedDown, Running
  <2>2. MovedDown = 0
    BY DEF NothingMoved, MovedDown
  <2>3. socks_closed \in BOOLEAN /\ MovedDown' - srvRead' = MovedDown - srvRead
        /\ MovedDown' \in Nat /\ srvRead' \in Nat
    BY <1>0, <2>0, <2>1, <2>2 DEF IInv, TypeOK
  <2> QED
    BY <1>0, <1>2, <2>3
<1>9. CASE Ends
  <2>1. CASE StillToDeliver /\ ~client_closed
    <3>1. /\ UNCHANGED <<appGot, flight, socks_recv_buf, pending, pcb, srvRead, input>>
          /\ ~recvBusy' /\ socks_closed' /\ jobs' = <<>>
      BY <1>9, <2>1 DEF Ends, SocksEnds, FreeSocks, SocksGone
    <3>2. MovedDown' = 0
      BY <3>1 DEF MovedDown, Running
    <3> QED
      BY <1>0, <1>2, <3>1, <3>2
  <2>2. CASE ~(StillToDeliver /\ ~client_closed)
    <3>1. appGot' = appGot /\ pcb' # "open"
      BY <1>0, <1>9, <2>2 DEF Ends, SocksEnds, FreeSocks, TcpClose
    <3> QED
      BY <1>1, <3>1
  <2> QED
    BY <2>1, <2>2
<1>10. CASE SendDoneJob
  <2>1. CASE SentEverything
    <3>1. appGot' = appGot /\ pcb' # "open"
      BY <1>0, <1>10, <2>1 DEF SendDoneJob, SentEverything
    <3> QED
      BY <1>1, <3>1
  <2>2. CASE ~SentEverything
    <3>1. /\ UNCHANGED <<appGot, flight, socks_recv_buf, pending, pcb, recvBusy, socks_closed,
                        srvRead, input>>
          /\ Running("sendDone")
      BY <1>10, <2>2 DEF SendDoneJob, Running
    <3>2. MovedDown = 0
      BY <3>1 DEF MovedDown, Running
    <3>3. MovedDown' = 0
      BY <3>1, <3>2, MovedNext
    <3>4. socks_closed \in BOOLEAN
      BY DEF IInv, TypeOK
    <3> QED
      BY <1>0, <1>2, <3>1, <3>2, <3>3, <3>4
  <2> QED
    BY <2>1, <2>2
<1>11. CASE RecvFunc
  <2>1. /\ UNCHANGED <<appGot, flight, socks_recv_buf, pending, pcb, recvBusy, socks_closed,
                      srvRead>>
        /\ jobs = <<>> /\ input # <<>> /\ Head(input).name = "recv"
        /\ input' = input \/ input' = Tail(input)
    BY <1>11 DEF RecvFunc
  <2>2. Confirmed' = Confirmed
    BY <1>0, <2>1, InputTail
  <2>3. MovedDown = 0 /\ MovedDown' = 0
    BY <2>1, MovedNext
  <2>4. socks_closed \in BOOLEAN
    BY DEF IInv, TypeOK
  <2> QED
    BY <1>0, <1>2, <2>1, <2>2, <2>3, <2>4
<1>12. CASE NoCallback
  <2>1. /\ UNCHANGED <<appGot, flight, socks_recv_buf, pending, pcb, recvBusy, socks_closed,
                      srvRead>>
        /\ jobs = <<>> /\ input # <<>> /\ input' = Tail(input)
        /\ Head(input).name = "sent" => "sent" \notin cbs
    BY <1>12 DEF NoCallback, Calls
  <2>2. MovedDown = 0 /\ MovedDown' = 0
    BY <2>1, MovedNext
  <2>3. CASE pcb # "open"
    BY <1>1, <2>1, <2>3
  <2>4. CASE pcb = "open"
    <3>1. Confirmed' = Confirmed
      <4>1. Head(input).name = "sent" => ~socks_up
        BY <1>0, <2>1, <2>4 DEF LifeInv
      <4>2. ~socks_up => Confirmed = 0
        BY <1>0 DEF LifeInv
      <4> QED
        BY <2>1, <4>1, <4>2, InputTail
    <3>2. socks_closed \in BOOLEAN
      BY DEF IInv, TypeOK
    <3> QED
      BY <1>0, <1>2, <2>1, <2>2, <2>4, <3>1, <3>2
  <2> QED
    BY <2>3, <2>4
<1>13. CASE CallbackReturns
  <2>1. /\ UNCHANGED <<appGot, flight, socks_recv_buf, pending, pcb, recvBusy, socks_closed,
                      srvRead>>
        /\ jobs = <<>> /\ cb # "none"
        /\ killed # 1 => input' = input
    BY <1>13 DEF CallbackReturns
  <2>2. MovedDown = 0 /\ MovedDown' = 0
    BY <2>1, MovedNext
  <2>3. CASE pcb # "open"
    BY <1>1, <2>1, <2>3
  <2>4. CASE pcb = "open"
    <3>1. killed # 1
      BY <2>1, <2>4 DEF IInv, FateInv, CallbackKnowsFate
    <3>2. socks_closed \in BOOLEAN
      BY DEF IInv, TypeOK
    <3> QED
      BY <1>0, <1>2, <2>1, <2>2, <2>4, <3>1, <3>2
  <2> QED
    BY <2>3, <2>4
<1>14. CASE Segments
  <2> PICK acked \in 0 .. Len(flight), data \in 0 .. Lesser(rcv_wnd, MaxUp - appSent),
           fin \in BOOLEAN : Segment(acked, data, fin)
    BY <1>14 DEF Segments
  <2>1. acked \in Nat /\ data \in Nat
    OBVIOUS
  <2>2. Confirmed' = acked
    BY <2>1, SegmentInput
  <2>3. /\ UNCHANGED <<socks_recv_buf, pending, pcb, recvBusy, socks_closed, srvRead>>
        /\ appGot' = appGot \o FirstOf(flight, acked) /\ flight' = From(flight, acked)
        /\ input = <<>> /\ jobs = <<>> /\ pcb = "open"
    BY DEF Segment, Quiet
  <2>4. MovedDown = 0 /\ MovedDown' = 0
    BY <2>3, MovedNext
  <2> DEFINE k == Len(appGot)
             f == Len(flight)
             first == FirstOf(flight, acked)
             left == From(flight, acked)
  <2>5. Follows(flight, k) /\ acked \in 0 .. Len(flight) /\ k \in Nat
    BY <1>0, <2>3 DEF DownInv
  <2>6. /\ first \in Seq(Nat) /\ Len(first) = acked /\ Follows(first, 0 + k)
        /\ left \in Seq(Nat) /\ Len(left) = f - acked /\ Follows(left, k + acked)
    <3> HIDE DEF k
    <3> QED
      BY <1>0, <2>5, FollowsParts
  <2>7. Follows(appGot, 0)
    BY <1>0, InOrderFollows DEF DownInv
  <2>8. Len(appGot') = k + acked /\ Follows(appGot', 0)
    <3> HIDE DEF first
    <3>1. appGot' = appGot \o first
      BY <2>3 DEF first
    <3> QED
      BY <1>0, <2>6, <2>7, <3>1, FollowsConcat
  <2>9. InOrder(appGot')
    BY <2>8, InOrderFollows
  <2>10. Len(flight') = f - acked /\ Follows(flight', k + acked) /\ f \in Nat
    BY <1>0, <2>3, <2>6
  <2> DEFINE g == Len(appGot')
             h == Len(flight')
             l == Len(socks_recv_buf)
  <2>11. /\ Follows(socks_recv_buf, k + f) /\ f <= SndBuf /\ pending = f
         /\ recvBusy => socks_recv_buf = <<>>
         /\ ~socks_closed => k + f + l = srvRead
    BY <1>0, <2>3, <2>4 DEF DownInv
  <2>12. g + h = k + f /\ h <= SndBuf /\ pending = h + acked
         /\ (~socks_closed => g + h + l + 0 = srvRead)
    <3>1. g = k + acked /\ h = f - acked /\ l \in Nat /\ SndBuf \in Nat
      BY <1>0, <2>8, <2>10, TunAssumption
    <3> HIDE DEF g, h, k, f, l
    <3> QED
      BY <2>1, <2>5, <2>10, <2>11, <3>1
  <2>13. Follows(flight', g)
    BY <2>8, <2>10
  <2> HIDE DEF k, f
  <2> QED
    BY <2>2, <2>3, <2>4, <2>9, <2>11, <2>12, <2>13 DEF DownInv
<1>15. CASE RecvDoneJob
  <2>1. UNCHANGED <<appGot, srvRead, input>> /\ Running("recvDone")
    BY <1>15 DEF RecvDoneJob, Running
  <2>2. CASE client_closed
    <3>1. pcb' # "open"
      BY <1>0, <1>15, <2>2 DEF RecvDoneJob
    <3> QED
      BY <1>1, <2>1, <3>1
  <2>3. CASE ~client_closed
    <3> DEFINE data == Bytes(srvRead - recvLen + 1, srvRead)
               k == Len(appGot)
               f == Len(flight)
               d == Len(data)
    <3>1. /\ data \in Seq(Nat) /\ Follows(data, Len(appGot) + Len(flight))
          /\ k + f + d = srvRead /\ pcb = "open"
      BY <1>15, <2>3, RecvDoneData
    <3>2. SendOut(data, pending, Tail(jobs))
      BY <1>15, <2>3 DEF RecvDoneJob
    <3>3. pcb' = "open" =>
                 /\ Follows(flight', k) /\ Len(flight') <= SndBuf
                 /\ Follows(socks_recv_buf', k + Len(flight'))
                 /\ pending' = pending + Len(flight') - f
                 /\ recvBusy' => socks_recv_buf' = <<>>
                 /\ Len(flight') + Len(socks_recv_buf') = f + d
          /\ flight' \in Seq(Nat) /\ socks_recv_buf' \in Seq(Nat)
      <4> HIDE DEF data
      <4> QED
        BY <1>0, <3>1, <3>2, SendOutKeeps DEF d
    <3>4. CASE pcb' # "open"
      BY <1>1, <2>1, <3>4
    <3>5. CASE pcb' = "open"
      <4>1. MovedDown' = 0
        <5>1. jobs' # jobs
          <6>1. jobs \in {<<"recvDone">>, <<"recvDone", "send">>}
            BY <1>0, <2>1 DEF JobsSay
          <6>2. Tail(jobs) \in {<<>>, <<"send">>}
            BY <6>1, JobTails
          <6>3. \/ jobs' = <<>> \o Tail(jobs)
                \/ jobs' = <<"recv">> \o Tail(jobs)
            BY <3>2, <3>5 DEF SendOut, ReceiveAgain, AbortClient, TcpAbort
          <6>4. jobs' \in {<<>>, <<"send">>, <<"recv">>, <<"recv", "send">>}
            BY <6>2, <6>3, JobsMade
          <6> QED
            BY <6>1, <6>4
        <5> QED
          BY <2>1, <5>1, MovedNext
      <4> DEFINE h == Len(flight')
                 l == Len(socks_recv_buf')
                 c == Confirmed
      <4>2. h \in Nat /\ l \in Nat /\ k \in Nat /\ f \in Nat /\ d \in Nat
        BY <1>0, <3>1, <3>3, LenProperties
      <4>3. pending = f + c
        BY <1>0, <3>1 DEF DownInv
      <4>4. c \in Int
        BY ConfirmedNat
      <4>5. pending' = h + c
        <5>1. pending' = pending + h - f
          BY <3>3, <3>5
        <5> HIDE DEF h, f, c
        <5> QED
          BY <4>2, <4>3, <4>4, <5>1
      <4>6. k + h + l + 0 = srvRead'
        <5>1. h + l = f + d /\ k + f + d = srvRead'
          BY <2>1, <3>1, <3>3, <3>5
        <5> HIDE DEF h, l, k, f, d
        <5> QED
          BY <4>2, <5>1
      <4>7. Confirmed' = c
        BY <1>0, <2>1
      <4>8. InOrder(appGot')
        BY <1>0, <2>1 DEF DownInv
      <4> HIDE DEF data, f, d, c
      <4> QED
        BY <2>1, <3>3, <3>5, <4>1, <4>5, <4>6, <4>7, <4>8 DEF DownInv
    <3> QED
      BY <3>4, <3>5
  <2> QED
    BY <2>2, <2>3
<1>16. CASE SentFunc
  <2>1. /\ UNCHANGED <<appGot, srvRead>> /\ jobs = <<>> /\ input # <<>>
        /\ input' = Tail(input) /\ Head(input).name = "sent" /\ "sent" \in cbs
    BY <1>16 DEF SentFunc, Calls
  <2>2. pcb = "open" /\ MovedDown = 0 /\ MovedDown' = 0
    BY <1>0, <2>1, MovedNext DEF LifeInv
  <2> DEFINE c == Head(input).len
             f == Len(flight)
             k == Len(appGot)
             d == Len(socks_recv_buf)
  <2>3. c \in Nat /\ Confirmed = c /\ Confirmed' = 0
    BY <2>1, InputTail
  <2>4. pending - c = f
    <3>1. pending = f + c
      BY <1>0, <2>2, <2>3 DEF DownInv
    <3> HIDE DEF f, c
    <3>2. f \in Nat
      BY <1>0 DEF f
    <3> QED
      BY <2>3, <3>1, <3>2
  <2>5. CASE socks_recv_buf # <<>>
    <3>1. SendOut(socks_recv_buf, f, <<>>)
      <4>1. SendOut(socks_recv_buf, pending - c, <<>>)
        BY <1>16, <2>5 DEF SentFunc
      <4> HIDE DEF f, c
      <4> QED
        BY <2>4, <4>1
    <3>2. Follows(socks_recv_buf, k + f)
      BY <1>0, <2>2 DEF DownInv
    <3>3. pcb' = "open" =>
                 /\ Follows(flight', k) /\ Len(flight') <= SndBuf
                 /\ Follows(socks_recv_buf', k + Len(flight'))
                 /\ pending' = f + Len(flight') - f
                 /\ recvBusy' => socks_recv_buf' = <<>>
                 /\ Len(flight') + Len(socks_recv_buf') = f + d
          /\ flight' \in Seq(Nat) /\ socks_recv_buf' \in Seq(Nat)
      <4>1. f \in Nat
        BY <1>0
      <4> QED
        BY <1>0, <2>2, <3>1, <3>2, <4>1, SendOutKeeps
    <3>4. CASE pcb' # "open"
      BY <1>1, <2>1, <3>4
    <3>5. CASE pcb' = "open"
      <4> DEFINE h == Len(flight')
                 l == Len(socks_recv_buf')
      <4>1. h \in Nat /\ l \in Nat /\ k \in Nat /\ f \in Nat /\ d \in Nat
        BY <1>0, <3>3, LenProperties
      <4>2. pending' = h + 0
        <5>1. pending' = f + h - f
          BY <3>3, <3>5
        <5> HIDE DEF h, f
        <5> QED
          BY <4>1, <5>1
      <4>3. ~socks_closed' => k + h + l + 0 = srvRead'
        <5>1. h + l = f + d /\ (~socks_closed => k + f + d = srvRead')
          BY <1>0, <2>1, <2>2, <3>3, <3>5 DEF DownInv
        <5>2. ~socks_closed' => ~socks_closed
          BY <3>1 DEF SendOut, AbortClient, HandleFreed, SocksGone, SocksStays
        <5> HIDE DEF h, l, k, f, d
        <5> QED
          BY <4>1, <5>1, <5>2
      <4>4. InOrder(appGot')
        BY <1>0, <2>1 DEF DownInv
      <4> HIDE DEF f, d
      <4> QED
        BY <2>1, <2>2, <2>3, <3>3, <3>5, <4>2, <4>3, <4>4 DEF DownInv
    <3> QED
      BY <3>4, <3>5
  <2>6. CASE socks_recv_buf = <<>>
    <3>1. /\ pending' = f /\ socks_recv_buf' = socks_recv_buf
          /\ pcb' = "closed" \/ UNCHANGED <<pcb, flight, recvBusy, socks_closed>>
      BY <1>16, <2>4, <2>6 DEF SentFunc, FreeClient, TcpClose
    <3>2. CASE pcb' # "open"
      BY <1>1, <2>1, <3>2
    <3>3. CASE pcb' = "open"
      <4>1. /\ UNCHANGED <<pcb, flight, recvBusy, socks_closed, appGot, srvRead, socks_recv_buf>>
            /\ pending' = f + 0
        BY <1>0, <2>1, <3>1, <3>3
      <4>2. Confirmed' = 0 /\ MovedDown' = 0 /\ MovedDown = 0
        BY <2>2, <2>3
      <4> HIDE DEF conn, struct, io, app, server
      <4> QED
        BY <1>0, <2>2, <4>1, <4>2 DEF DownInv, InOrder
    <3> QED
      BY <3>2, <3>3
  <2> QED
    BY <2>5, <2>6
<1> QED
  BY NextIs, <1>3, <1>4, <1>5, <1>6, <1>7, <1>8, <1>9, <1>10, <1>11, <1>12, <1>13,
     <1>14, <1>15, <1>16

-----------------------------------------------------------------------------
(* Types.                                                                   *)

FlagsOK ==
    /\ life \in {"none", "live", "freed"}
    /\ client_closed \in BOOLEAN /\ socks_up \in BOOLEAN
    /\ socks_closed \in BOOLEAN /\ recvBusy \in BOOLEAN
    /\ cb \in {"none", "accept", "recv", "sent"} /\ killed \in {-1, 0, 1}
    /\ state \in SocksStates
    /\ pcb \in {"none", "open", "closed", "aborted", "dead"}
    /\ cbs \subseteq {"err", "recv", "sent"}
    /\ appEnd \in {"open", "fin", "rst"} /\ srvEnd \in {"open", "fin", "rst"}
CountsOK ==
    /\ buf \in Seq(Nat) /\ socks_recv_buf \in Seq(Nat) /\ pending \in Nat
    /\ sendLen \in Nat /\ recvLen \in Nat /\ rcv_wnd \in Nat /\ flight \in Seq(Nat)
    /\ appSent \in Nat /\ appGot \in Seq(Nat)
    /\ srvSent \in Nat /\ srvRead \in Nat /\ srvGot \in Seq(Nat)

\* What a step leaves or makes of the flags, and of the counts that only
\* the end of a client resets.
FlagsMove ==
    /\ life' \in {life, "none", "live", "freed"}
    /\ client_closed' = client_closed \/ client_closed' \in BOOLEAN
    /\ socks_up' = socks_up \/ socks_up' \in BOOLEAN
    /\ socks_closed' = socks_closed \/ socks_closed' \in BOOLEAN
    /\ recvBusy' = recvBusy \/ recvBusy' \in BOOLEAN
    /\ cb' \in {cb, "none", "accept", "recv", "sent"}
    /\ killed' \in {killed, -1, 0, 1}
    /\ state' = state \/ state' \in SocksStates
    /\ pcb' \in {pcb, "none", "open", "closed", "aborted", "dead"}
    /\ cbs' \subseteq cbs \cup {"err", "recv", "sent"}
    /\ appEnd' \in {appEnd, "open", "fin", "rst"}
    /\ srvEnd' \in {srvEnd, "open", "fin", "rst"}

LEMMA FlagsStep == ASSUME IInv, Next PROVE FlagsOK'
<1> USE DEF conn, struct, io, app, server
<1>0. FlagsOK
  BY DEF IInv, TypeOK, FlagsOK
<1>1. Shakes => FlagsMove
  BY <1>0 DEF FlagsMove, Shakes, Connected, ContinueJob, Handshake, SocksStates
<1>2. AcceptFails \/ Accept \/ NextConnection => FlagsMove
  BY <1>0 DEF FlagsMove, AcceptFails, Accept, NextConnection, SocksStates
<1>3. HandshakeEnds => FlagsMove
  BY <1>0 DEF FlagsMove, HandshakeEnds, SocksStates
<1>4. Ends => FlagsMove
  BY <1>0 DEF FlagsMove, Ends, SocksEnds, FreeSocks, SocksGone, TcpClose, Killed
<1>5. Sends \/ Receives \/ Waits => FlagsMove
  BY <1>0 DEF FlagsMove, Sends, SendMoves, Receives, RecvMoves, Waits, MustWait
<1>6. SendDoneJob => FlagsMove
  BY <1>0 DEF FlagsMove, SendDoneJob, SocksGone, Killed
<1>7. RecvDoneJob => FlagsMove
  BY <1>0 DEF FlagsMove, RecvDoneJob, SendOut, AbortClient, TcpAbort, HandleFreed, SocksGone,
     SocksStays, ReceiveAgain, Killed
<1>8. Segments => FlagsMove
  BY <1>0 DEF FlagsMove, Segments, Segment
<1>9. ErrFunc \/ Murder => FlagsMove
  BY <1>0 DEF FlagsMove, ErrFunc, Murder, HandleFreed, SocksGone, SocksStays, Killed, TcpAbort
<1>10. NoCallback \/ RecvFunc => FlagsMove
  BY <1>0 DEF FlagsMove, NoCallback, RecvFunc
<1>11. ClosedFunc => FlagsMove
  BY <1>0 DEF FlagsMove, ClosedFunc, FreeClient, TcpClose, HandleFreed, SocksGone, SocksStays,
     Killed
<1>12. SentFunc => FlagsMove
  BY <1>0 DEF FlagsMove, SentFunc, SendOut, AbortClient, TcpAbort, FreeClient, TcpClose,
     HandleFreed, SocksGone, SocksStays, ReceiveAgain, Killed
<1>13. CallbackReturns \/ ServerActs => FlagsMove
  BY <1>0 DEF FlagsMove, CallbackReturns, ServerActs, ServerSends, ServerCloses
<1>14. FlagsMove => FlagsOK'
  BY <1>0 DEF FlagsMove, FlagsOK
<1> QED
  BY NextIs, <1>1, <1>2, <1>3, <1>4, <1>5, <1>6, <1>7, <1>8, <1>9, <1>10, <1>11, <1>12, <1>13,
     <1>14

CountsMove ==
    /\ buf' = buf \/ buf' = <<>>
    /\ socks_recv_buf' = socks_recv_buf \/ socks_recv_buf' = <<>>
    /\ pending' = pending \/ pending' = 0
    /\ sendLen' = sendLen \/ sendLen' = 0 \/ sendLen' = Len(buf)
    /\ recvLen' = recvLen \/ recvLen' = 0
    /\ rcv_wnd' = rcv_wnd \/ rcv_wnd' = Wnd
    /\ flight' = flight \/ flight' = <<>>
    /\ appSent' = appSent \/ appSent' = 0
    /\ appGot' = appGot \/ appGot' = <<>>
    /\ srvSent' = srvSent \/ srvSent' = srvSent + 1 \/ srvSent' = 0
    /\ srvRead' = srvRead \/ srvRead' = 0
    /\ srvGot' = srvGot \/ srvGot' = <<>>

LEMMA CountsStep == ASSUME IInv, Next PROVE CountsOK'
<1> USE DEF conn, struct, io, app, server
<1>0. /\ CountsOK /\ Len(buf) \in Nat /\ Len(flight) \in Nat /\ sendLen <= Len(buf)
  BY LenProperties DEF IInv, TypeOK, CountsOK, JobsInv
<1>1. Shakes \/ HandshakeEnds \/ Waits \/ CallbackReturns \/ ServerActs => CountsMove
  BY DEF CountsMove, Shakes, Connected, ContinueJob, Handshake, HandshakeEnds, Up,
     Waits, MustWait, CallbackReturns, ServerActs, ServerSends, ServerCloses
<1>2. AcceptFails \/ Accept \/ NextConnection => CountsMove
  BY DEF CountsMove, AcceptFails, Accept, NextConnection
<1>3. Ends => CountsMove
  BY DEF CountsMove, Ends, SocksEnds, FreeSocks, SocksGone, TcpClose
<1>4. CASE Sends
  <2> PICK rest \in {<<>>, <<"recv">>}, n \in 1 .. sendLen :
              /\ srvGot' = srvGot \o FirstOf(buf, n) /\ sendLen' = n
              /\ UNCHANGED <<struct, recvLen, conn, app, srvSent, srvRead>>
    BY <1>4 DEF Sends, SendMoves
  <2> DEFINE f == FirstOf(buf, n)
  <2>1. f \in Seq(Nat)
    <3>1. buf \in Seq(Nat) /\ n \in 1 .. Len(buf)
      BY <1>0 DEF CountsOK
    <3> QED
      BY <3>1 DEF FirstOf
  <2>2. srvGot \o f \in Seq(Nat)
    <3> HIDE DEF f
    <3> QED
      BY <1>0, <2>1, ConcatProperties DEF CountsOK
  <2> QED
    BY <1>0, <2>2 DEF CountsOK
<1>5. CASE Receives
  BY <1>0, <1>5 DEF CountsOK, Receives, RecvMoves
<1>6. CASE SendDoneJob
  <2>1. Taken \in Seq(Nat) /\ Len(Taken) \in Nat
    BY <1>0 DEF CountsOK, Taken, From
  <2>2. /\ UNCHANGED <<socks_recv_buf, pending, flight, appSent, appGot, srvSent, srvRead, srvGot>>
        /\ buf' = Taken /\ (recvLen' = recvLen \/ recvLen' = 0)
        /\ sendLen' = Len(Taken) \/ sendLen' = 0
        /\ rcv_wnd' = rcv_wnd \/ rcv_wnd' = rcv_wnd + sendLen
    BY <1>6 DEF SendDoneJob, SocksGone
  <2> QED
    BY <1>0, <2>1, <2>2 DEF CountsOK
<1>7. CASE RecvDoneJob
  <2>1. CASE client_closed
    BY <1>0, <1>7, <2>1 DEF CountsOK, RecvDoneJob
  <2>2. CASE ~client_closed
    <3> DEFINE data == Bytes(srvRead - recvLen + 1, srvRead)
    <3>1. data \in Seq(Nat) /\ Follows(data, Len(appGot) + Len(flight)) /\ pcb = "open"
      BY <1>7, <2>2, RecvDoneData
    <3>2. SendOut(data, pending, Tail(jobs))
      BY <1>7, <2>2 DEF RecvDoneJob
    <3>3. socks_recv_buf' \in Seq(Nat) /\ flight' \in Seq(Nat) /\ pending' \in Nat
      <4> HIDE DEF data
      <4> QED
        BY <1>0, <3>1, <3>2, SendOutKeeps DEF CountsOK
    <3>4. sendLen' \in {sendLen, 0} /\ recvLen' \in {recvLen, 0} /\ rcv_wnd' = rcv_wnd
      BY <3>2 DEF SendOut, AbortClient, TcpAbort, HandleFreed, SocksGone, SocksStays
    <3>5. UNCHANGED <<buf, appSent, appGot, srvSent, srvRead, srvGot>>
      BY <1>7, <2>2 DEF RecvDoneJob
    <3> QED
      BY <1>0, <3>3, <3>4, <3>5 DEF CountsOK
  <2> QED
    BY <2>1, <2>2
<1>8. CASE Segments
  <2> PICK acked \in 0 .. Len(flight), data \in 0 .. Lesser(rcv_wnd, MaxUp - appSent),
           fin \in BOOLEAN : Segment(acked, data, fin)
    BY <1>8 DEF Segments
  <2>1. acked \in Nat /\ data \in Nat /\ data <= rcv_wnd
    BY <1>0, TunAssumption DEF CountsOK, Lesser
  <2> DEFINE first == FirstOf(flight, acked)
  <2>2. first \in Seq(Nat) /\ From(flight, acked) \in Seq(Nat)
    <3>1. \A i \in 1 .. Len(flight) : flight[i] \in Nat
      BY <1>0, ElementOfSeq DEF CountsOK
    <3>2. first \in Seq(Nat)
      BY <1>0, <3>1 DEF FirstOf
    <3>3. From(flight, acked) \in Seq(Nat)
      BY <1>0, <3>1 DEF From
    <3> QED
      BY <3>2, <3>3
  <2>3. appGot \o first \in Seq(Nat)
    <3> HIDE DEF first
    <3> QED
      BY <1>0, <2>2, ConcatProperties DEF CountsOK
  <2> QED
    BY <1>0, <2>1, <2>2, <2>3 DEF CountsOK, Segment
<1>9. ErrFunc \/ Murder \/ ClosedFunc => CountsMove
  BY DEF CountsMove, ErrFunc, Murder, ClosedFunc, FreeClient, TcpClose, HandleFreed,
     SocksGone, SocksStays, TcpAbort
<1>10. CASE NoCallback
  <2>1. Head(input).len \in Nat
    BY <1>10, NextInput DEF NoCallback, Calls
  <2> QED
    BY <1>0, <1>10, <2>1 DEF CountsOK, NoCallback
<1>11. CASE RecvFunc
  <2>1. CASE NoRoom(Head(input).len)
    BY <1>0, <1>11, <2>1 DEF CountsOK, RecvFunc
  <2>2. CASE ~NoRoom(Head(input).len)
    <3>1. buf' \in Seq(Nat) /\ Head(input).len \in Nat
      BY <1>11, <2>2, RecvFuncBuf
    <3> QED
      BY <1>0, <1>11, <2>2, <3>1 DEF CountsOK, RecvFunc, Window
  <2> QED
    BY <2>1, <2>2
<1>12. CASE SentFunc
  <2> DEFINE c == Head(input).len
             f == Len(flight)
  <2>1. /\ UNCHANGED <<buf, appSent, appGot, srvSent, srvRead, srvGot>>
        /\ sendLen' \in {sendLen, 0} /\ recvLen' \in {recvLen, 0} /\ rcv_wnd' = rcv_wnd
    BY <1>12 DEF SentFunc, SendOut, AbortClient, TcpAbort, FreeClient, TcpClose, HandleFreed,
       SocksGone, SocksStays
  <2>2. pending - c = f /\ pcb = "open" /\ Follows(socks_recv_buf, Len(appGot) + f)
    <3>1. /\ input # <<>> /\ input' = Tail(input) /\ Head(input).name = "sent" /\ "sent" \in cbs
      BY <1>12 DEF SentFunc, Calls
    <3>2. c \in Nat /\ Confirmed = c
      BY <3>1, InputTail
    <3>3. pcb = "open"
      BY <3>1 DEF IInv, LifeInv
    <3>4. pending = f + c /\ Follows(socks_recv_buf, Len(appGot) + f)
      BY <3>2, <3>3 DEF IInv, DownInv
    <3> HIDE DEF c, f
    <3>5. f \in Nat
      BY <1>0 DEF f
    <3> QED
      BY <3>2, <3>3, <3>4, <3>5
  <2>3. CASE socks_recv_buf # <<>>
    <3>1. SendOut(socks_recv_buf, pending - c, <<>>)
      BY <1>12, <2>3 DEF SentFunc
    <3>2. pending - c \in Nat
      BY <1>0, <2>2
    <3>3. socks_recv_buf' \in Seq(Nat) /\ flight' \in Seq(Nat) /\ pending' \in Nat
      <4> DEFINE u == pending - c
      <4> HIDE DEF u
      <4>1. u \in Nat /\ SendOut(socks_recv_buf, u, <<>>)
        BY <3>1, <3>2 DEF u
      <4> QED
        BY <1>0, <2>2, <4>1, SendOutKeeps DEF CountsOK
    <3> QED
      BY <1>0, <2>1, <3>3 DEF CountsOK
  <2>4. CASE socks_recv_buf = <<>>
    <3>1. /\ pending' = pending - c /\ socks_recv_buf' = socks_recv_buf
          /\ flight' \in {flight, <<>>}
      BY <1>12, <2>4 DEF SentFunc, FreeClient, TcpClose
    <3>2. pending' \in Nat
      BY <1>0, <2>2, <3>1
    <3>3. flight' \in Seq(Nat) /\ socks_recv_buf' \in Seq(Nat)
      <4>1. <<>> \in Seq(Nat) /\ flight \in Seq(Nat) /\ socks_recv_buf \in Seq(Nat)
        BY <1>0 DEF CountsOK
      <4> QED
        BY <3>1, <4>1
    <3> QED
      BY <1>0, <2>1, <3>2, <3>3 DEF CountsOK
  <2> QED
    BY <2>3, <2>4
<1>13. CountsMove => CountsOK'
  <2> SUFFICES ASSUME CountsMove PROVE CountsOK'
    OBVIOUS
  <2>1. <<>> \in Seq(Nat) /\ Wnd \in Nat
    BY TunAssumption
  <2>2. (buf \in Seq(Nat) /\ socks_recv_buf \in Seq(Nat) /\ flight \in Seq(Nat)
         /\ appGot \in Seq(Nat) /\ srvGot \in Seq(Nat))'
    BY <1>0, <2>1 DEF CountsMove, CountsOK
  <2>3. (pending \in Nat /\ sendLen \in Nat /\ recvLen \in Nat /\ rcv_wnd \in Nat
         /\ appSent \in Nat /\ srvSent \in Nat /\ srvRead \in Nat)'
    <3>1. /\ pending \in Nat /\ sendLen \in Nat /\ recvLen \in Nat /\ rcv_wnd \in Nat
          /\ appSent \in Nat /\ srvSent \in Nat /\ srvRead \in Nat /\ Len(buf) \in Nat
      BY <1>0 DEF CountsOK
    <3>2. (pending \in Nat /\ sendLen \in Nat /\ recvLen \in Nat)'
      BY <3>1 DEF CountsMove
    <3>3. (rcv_wnd \in Nat /\ appSent \in Nat /\ srvSent \in Nat /\ srvRead \in Nat)'
      BY <2>1, <3>1 DEF CountsMove
    <3> QED
      BY <3>2, <3>3
  <2> QED
    BY <2>2, <2>3 DEF CountsOK
<1> QED
  BY NextIs, <1>1, <1>2, <1>3, <1>4, <1>5, <1>6, <1>7, <1>8, <1>9, <1>10, <1>11, <1>12, <1>13

-----------------------------------------------------------------------------
(* The theorems.                                                            *)

LEMMA TypeStep == ASSUME IInv, Next PROVE TypeOK'
<1>1. JobsInv'
  BY JobsStep
<1>2. (jobs \in Seq(JobNames))'
  <2>1. JobLists \subseteq Seq(JobNames)
    BY DEF JobLists, JobNames
  <2> QED
    BY <1>1, <2>1 DEF JobsInv
<1> QED
  BY <1>2, FlagsStep, CountsStep, InputStep DEF TypeOK, FlagsOK, CountsOK

LEMMA Initially == Init => IInv
<1> SUFFICES ASSUME Init PROVE IInv
  OBVIOUS
<1> USE DEF Init
<1>1. TypeOK
  <2>1. \A T : <<>> \in Seq(T)
    OBVIOUS
  <2>2. Wnd \in Nat
    BY TunAssumption
  <2>3. /\ life \in {"none", "live", "freed"}
        /\ client_closed \in BOOLEAN /\ socks_up \in BOOLEAN
        /\ socks_closed \in BOOLEAN /\ recvBusy \in BOOLEAN
        /\ cb \in {"none", "accept", "recv", "sent"} /\ killed \in {-1, 0, 1}
        /\ state \in SocksStates
        /\ pcb \in {"none", "open", "closed", "aborted", "dead"}
        /\ cbs \subseteq {"err", "recv", "sent"}
        /\ appEnd \in {"open", "fin", "rst"} /\ srvEnd \in {"open", "fin", "rst"}
    BY DEF SocksStates
  <2> QED
    BY <2>1, <2>2, <2>3 DEF TypeOK
<1>2. Unread = 0 /\ Confirmed = 0 /\ MovedUp = 0 /\ MovedDown = 0
  BY DEF Unread, Confirmed, Report, MovedUp, MovedDown, Running
<1>3. JobsInv /\ InputInv
  BY DEF JobsInv, JobLists, InputInv
<1>4. LifeInv /\ FateInv
  BY <1>2 DEF LifeInv, FateInv, CallbackKnowsFate
<1>5. UpInv /\ WindowInv /\ DownInv
  BY DEF UpInv, WindowInv, DownInv, InOrder
<1> QED
  BY <1>1, <1>3, <1>4, <1>5 DEF IInv

LEMMA Stutters == IInv /\ UNCHANGED vars => IInv'
<1> SUFFICES ASSUME IInv, UNCHANGED vars PROVE IInv'
  OBVIOUS
<1> USE DEF vars, struct, io, conn, app, server
<1>1. UNCHANGED <<Unread, Confirmed, MovedUp, MovedDown>>
  BY DEF MovedUp, MovedDown, Running, Unread, Confirmed, Report
<1>2. TypeOK' /\ JobsInv' /\ InputInv'
  BY DEF IInv, TypeOK, JobsInv, InputInv
<1>3. LifeInv' /\ FateInv'
  BY <1>1 DEF IInv, LifeInv, FateInv, CallbackKnowsFate
<1>4. UpInv' /\ WindowInv' /\ DownInv'
  BY <1>1 DEF IInv, UpInv, WindowInv, DownInv, InOrder, Follows
<1> QED
  BY <1>2, <1>3, <1>4 DEF IInv

\* The invariant behind the others: where every byte is, who still has to be
\* told, and which of the two connections is left.
THEOREM Inductive == Spec => []IInv
<1>1. IInv /\ Next => IInv'
  BY TypeStep, JobsStep, InputStep, LifeStep, FateStep, UpStep, WindowStep, DownStep DEF IInv
<1> QED
  BY <1>1, Initially, Stutters, PTL DEF Spec

\* Every variable of client_accept to client_murder keeps its type.
THEOREM TypesHold == Spec => []TypeOK
<1>1. IInv => TypeOK
  BY DEF IInv
<1> QED
  BY <1>1, Inductive, PTL

\* Neither direction loses, repeats or reorders a byte, whatever the
\* partial writes and reads and the order of callbacks and jobs.
THEOREM StreamsStayIntact == Spec => []StreamsAreIntact
<1>1. IInv => StreamsAreIntact
  BY DEF IInv, UpInv, DownInv, StreamsAreIntact
<1> QED
  BY <1>1, Inductive, PTL

\* The app never gets a window larger than what is free in buf, so
\* client_recv_func always has room.
THEOREM RoomIsKept == Spec => []WindowFitsBuffer
<1>1. IInv => WindowFitsBuffer
  <2> SUFFICES ASSUME IInv, "recv" \in cbs, NEW i \in 1 .. Len(input), input[i].name = "recv"
               PROVE  ~NoRoom(input[i].len)
    BY DEF WindowFitsBuffer
  <2> DEFINE n == input[i].len
  <2>1. /\ rcv_wnd + Len(buf) + Unread = Wnd /\ rcv_wnd \in Nat /\ Len(buf) \in Nat
        /\ i \in {1, 2}
    <3>1. rcv_wnd \in Nat /\ Len(buf) \in Nat /\ Len(input) \in Nat /\ i <= 2
      BY LenProperties DEF IInv, TypeOK, InputInv
    <3> QED
      BY <3>1 DEF IInv, WindowInv
  <2>2. n \in Nat /\ n <= Unread /\ Unread \in Nat
    <3> DEFINE S == [name : CallbackNames, len : Nat]
    <3>1. input \in Seq(S) /\ \A e \in S : e.len \in Nat
      BY DEF IInv, TypeOK
    <3> HIDE DEF S
    <3>2. \A j \in 1 .. Len(input) : input[j].len \in Nat
      BY <3>1, ElementOfSeq
    <3>3. Report(1, "recv") \in Nat /\ Report(2, "recv") \in Nat
      <4>1. Len(input) \in Nat
        BY <3>1, LenProperties
      <4> QED
        BY <3>2, <4>1 DEF Report
    <3>4. Report(i, "recv") = n
      <4>1. Len(input) >= i
        BY <3>1, LenProperties
      <4> QED
        BY <4>1 DEF Report
    <3> QED
      BY <2>1, <3>2, <3>3, <3>4 DEF Unread
  <2> HIDE DEF n
  <2>3. ~(n > Wnd - Len(buf))
    BY <2>1, <2>2, TunAssumption
  <2> QED
    BY <2>3 DEF NoRoom, n
<1> QED
  BY <1>1, Inductive, PTL

\* A callback of lwIP returns ERR_ABRT if and only if the pcb was aborted
\* while it ran, and never goes on with a client freed meanwhile.
THEOREM FateIsKnown == Spec => []CallbackKnowsFate
<1>1. IInv => CallbackKnowsFate
  BY DEF IInv, FateInv
<1> QED
  BY <1>1, Inductive, PTL

-----------------------------------------------------------------------------
(* Who moves what next.                                                     *)

\* client_socks_recv_send_out leaves bytes that wait only behind others that
\* an acknowledgement will confirm, and reads on when none is left.
LEMMA SendOutFlows ==
    ASSUME IInv, pcb = "open", NEW data \in Seq(Nat), NEW unconfirmed \in Nat, NEW rest,
           SendOut(data, unconfirmed, rest)
    PROVE  \/ AbortClient(rest)
           \/ /\ UNCHANGED <<life, client_closed, socks_closed, state, sendLen, pcb>>
              /\ socks_recv_buf' # <<>> \/ data # <<>> => pending' > 0
              /\ socks_recv_buf' = <<>> /\ ~socks_closed => recvBusy'
<1>0. /\ Len(flight) \in Nat /\ Len(data) \in Nat /\ SndBuf \in Nat
      /\ Len(flight) <= SndBuf
  BY LenProperties, TunAssumption DEF IInv, TypeOK, DownInv
<1> SUFFICES ASSUME ~AbortClient(rest)
             PROVE  /\ UNCHANGED <<life, client_closed, socks_closed, state, sendLen, pcb>>
                    /\ socks_recv_buf' # <<>> \/ data # <<>> => pending' > 0
                    /\ socks_recv_buf' = <<>> /\ ~socks_closed => recvBusy'
  OBVIOUS
<1> PICK n \in {0, Lesser(Len(data), SndBuf - Len(flight))} :
             /\ socks_recv_buf' = From(data, n) /\ pending' = unconfirmed + n
             /\ ~(From(data, n) # <<>> /\ unconfirmed + n = 0)
             /\ ReceiveAgain(From(data, n) = <<>> /\ ~socks_closed, rest)
             /\ UNCHANGED <<life, client_closed, socks_closed, state, sendLen, pcb>>
  BY DEF SendOut
<1>1. n \in 0 .. Len(data)
  BY <1>0 DEF Lesser
<1>2. socks_recv_buf' # <<>> => pending' > 0
  BY <1>1
<1>3. data # <<>> => pending' > 0
  <2> SUFFICES ASSUME data # <<>>, From(data, n) = <<>> PROVE pending' > 0
    BY <1>2
  <2>1. Len(From(data, n)) = Len(data) - n
    BY <1>0, <1>1 DEF From
  <2>2. Len(data) # 0
    BY EmptySeq
  <2>3. n > 0
    BY <1>0, <1>1, <2>1, <2>2
  <2> QED
    BY <1>1, <2>3
<1>4. socks_recv_buf' = <<>> /\ ~socks_closed => recvBusy'
  BY DEF ReceiveAgain
<1> QED
  BY <1>2, <1>3, <1>4

\* The acknowledgement client_sent_func hears of is for bytes that are pending.
LEMMA SentUnconfirmed ==
    ASSUME IInv, SentFunc
    PROVE  /\ pcb = "open" /\ jobs = <<>>
           /\ pending - Head(input).len = Len(flight) /\ Len(flight) \in Nat
<1>1. input # <<>> /\ input' = Tail(input) /\ Head(input).name = "sent"
      /\ jobs = <<>> /\ cbs # {}
  BY DEF SentFunc, Calls
<1>2. pcb = "open" /\ pending = Len(flight) + Confirmed
  BY <1>1 DEF IInv, LifeInv, DownInv
<1>3. Confirmed = Head(input).len /\ Head(input).len \in Nat
  BY <1>1, InputTail
<1>4. Len(flight) \in Nat
  BY LenProperties DEF IInv, TypeOK
<1> QED
  BY <1>1, <1>2, <1>3, <1>4

\* An action that ends the client, or leaves it bytes to hand on to SOCKS.
LEMMA FreedOrClosing ==
    ASSUME NEW aborting \in BOOLEAN, NEW rest, HandleFreed(aborting, rest)
    PROVE  /\ client_closed'
           /\ \/ life' = "freed" /\ socks_closed'
              \/ /\ buf # <<>> /\ ~socks_closed
                 /\ UNCHANGED <<life, socks_closed, state, sendLen>>
  BY DEF HandleFreed, SocksGone, SocksStays

LEMMA FlowStep == ASSUME IInv, FlowInv, Next PROVE FlowInv'
<1> USE DEF conn, struct, io, app, server
<1> USE DEF FlowInv
<1>0. /\ LifeInv /\ JobsInv /\ WriteFlows /\ ReadFlows /\ AcksFlow /\ ClosingFlows
      /\ client_closed <=> pcb # "open"
      /\ buf \in Seq(Nat) /\ Len(buf) \in Nat /\ sendLen \in Nat /\ sendLen <= Len(buf)
      /\ socks_recv_buf \in Seq(Nat) /\ pending \in Nat
      /\ client_closed \in BOOLEAN /\ socks_closed \in BOOLEAN /\ socks_up \in BOOLEAN
  BY LenProperties DEF IInv, TypeOK, JobsInv, LifeInv
<1> DEFINE Same == UNCHANGED <<life, client_closed, socks_up, socks_closed, socks_recv_buf, pending>>
<1>1. ASSUME Same, UNCHANGED <<buf, sendLen, recvBusy>> PROVE FlowInv'
  BY <1>0, <1>1 DEF WriteFlows, ReadFlows, AcksFlow, ClosingFlows
<1>2. ASSUME ~socks_up', ~client_closed' \/ life' # "live" PROVE FlowInv'
  BY <1>2 DEF WriteFlows, ReadFlows, AcksFlow, ClosingFlows
<1>3. ASSUME socks_closed', client_closed', life' # "live" PROVE FlowInv'
  BY <1>3 DEF WriteFlows, ReadFlows, AcksFlow, ClosingFlows
\* The client is given up: freed, or kept for the bytes towards the server.
<1>4. ASSUME NEW aborting \in BOOLEAN, NEW rest, HandleFreed(aborting, rest),
             UNCHANGED <<socks_up, buf>>
      PROVE  FlowInv'
  <2>1. CASE life' = "freed" /\ socks_closed'
    BY <1>3, <1>4, <2>1, FreedOrClosing
  <2>2. CASE buf # <<>> /\ ~socks_closed
             /\ UNCHANGED <<life, socks_closed, state, sendLen>>
    BY <1>0, <1>4, <2>2, FreedOrClosing DEF WriteFlows, ReadFlows, AcksFlow, ClosingFlows
  <2> QED
    BY <1>4, <2>1, <2>2, FreedOrClosing
<1>5. ASSUME pcb = "open", NEW data \in Seq(Nat), NEW unconfirmed \in Nat, NEW rest,
             SendOut(data, unconfirmed, rest), UNCHANGED <<socks_up, buf>>,
             data = <<>> => ~socks_closed
      PROVE  FlowInv'
  <2>1. CASE AbortClient(rest)
    BY <1>4, <1>5, <2>1 DEF AbortClient
  <2>2. CASE /\ UNCHANGED <<life, client_closed, socks_closed, state, sendLen, pcb>>
             /\ socks_recv_buf' # <<>> \/ data # <<>> => pending' > 0
             /\ socks_recv_buf' = <<>> /\ ~socks_closed => recvBusy'
    <3>1. WriteFlows' /\ ClosingFlows'
      BY <1>0, <1>5, <2>2 DEF WriteFlows, ClosingFlows
    <3>2. ReadFlows' /\ AcksFlow'
      BY <1>0, <1>5, <2>2 DEF ReadFlows, AcksFlow
    <3> QED
      BY <3>1, <3>2
  <2> QED
    BY <1>5, <2>1, <2>2, SendOutFlows
<1>6. CASE Shakes \/ Receives \/ Waits \/ Segments \/ NoCallback \/ CallbackReturns
           \/ ServerActs
  <2>1. Same /\ UNCHANGED <<buf, sendLen, recvBusy>>
    BY <1>6 DEF Shakes, Connected, ContinueJob, Handshake, Receives, RecvMoves,
       Waits, MustWait, Segments, Segment, NoCallback, CallbackReturns,
       ServerActs, ServerSends, ServerCloses
  <2> QED
    BY <1>1, <2>1
<1>7. CASE AcceptFails \/ Accept \/ NextConnection
  <2>1. CASE AcceptFails
    BY <1>1, <2>1 DEF AcceptFails
  <2>2. CASE Accept
    BY <1>0, <1>2, <2>2 DEF Accept, LifeInv
  <2>3. CASE NextConnection
    BY <1>2, <2>3 DEF NextConnection
  <2> QED
    BY <1>7, <2>1, <2>2, <2>3
<1>8. CASE HandshakeEnds
  <2>1. ~socks_up /\ socks_recv_buf = <<>>
    BY <1>0, <1>8 DEF HandshakeEnds, LifeInv
  <2>2. /\ sendLen' = Len(buf) /\ recvBusy' = ~client_closed /\ ~socks_closed
        /\ UNCHANGED <<life, client_closed, socks_closed, buf, socks_recv_buf, pending>>
    BY <1>8 DEF HandshakeEnds, HandshakeRuns, Up
  <2>3. (buf # <<>>) <=> (Len(buf) > 0)
    BY <1>0, EmptySeq
  <2> QED
    BY <1>0, <2>1, <2>2, <2>3 DEF WriteFlows, ReadFlows, AcksFlow, ClosingFlows
<1>9. CASE Ends
  <2>1. /\ socks_closed' /\ UNCHANGED <<socks_up, buf, socks_recv_buf, pending>>
        /\ \/ StillToDeliver /\ ~client_closed' /\ ~client_closed
           \/ client_closed' /\ life' = "freed"
    BY <1>9 DEF Ends, SocksEnds, FreeSocks, SocksGone
  <2>2. CASE StillToDeliver /\ ~client_closed' /\ ~client_closed
    BY <1>0, <2>1, <2>2 DEF StillToDeliver, WriteFlows, ReadFlows, AcksFlow, ClosingFlows
  <2> QED
    BY <1>3, <2>1, <2>2
<1>10. CASE Sends
  <2> PICK n \in 1 .. sendLen : sendLen' = n
    BY <1>10 DEF Sends, SendMoves
  <2>1. Same /\ UNCHANGED <<buf, recvBusy>>
    BY <1>10 DEF Sends, SendMoves
  <2>2. sendLen > 0 /\ sendLen' > 0
    BY <1>0
  <2> QED
    BY <1>0, <2>1, <2>2 DEF WriteFlows, ReadFlows, AcksFlow, ClosingFlows
<1>11. CASE SendDoneJob
  <2>0. buf' = Taken /\ UNCHANGED <<client_closed, socks_up, socks_recv_buf, pending>>
    BY <1>11 DEF SendDoneJob
  <2>1. CASE SentEverything
    BY <1>3, <1>11, <2>0, <2>1 DEF SendDoneJob, SocksGone, SentEverything
  <2>2. CASE ~SentEverything
    <3>1. /\ sendLen' = Len(Taken) /\ UNCHANGED <<life, recvBusy, socks_closed>>
          /\ client_closed => Taken # <<>>
      BY <1>11, <2>2 DEF SendDoneJob, SentEverything
    <3>2. (Taken # <<>>) <=> (Len(Taken) > 0)
      <4>1. Taken \in Seq(Nat)
        BY <1>0 DEF Taken, From
      <4> QED
        BY <4>1, EmptySeq, LenProperties
    <3> QED
      BY <1>0, <2>0, <3>1, <3>2 DEF WriteFlows, ReadFlows, AcksFlow, ClosingFlows
  <2> QED
    BY <2>1, <2>2
<1>12. CASE RecvDoneJob
  <2>0. UNCHANGED <<socks_up, buf>> /\ ~socks_closed
    BY <1>0, <1>12 DEF RecvDoneJob, JobsInv
  <2>1. CASE client_closed
    <3>1. Same /\ UNCHANGED <<buf, sendLen>>
      BY <1>12, <2>1 DEF RecvDoneJob
    <3> QED
      BY <1>0, <2>1, <3>1 DEF WriteFlows, ReadFlows, AcksFlow, ClosingFlows
  <2>2. CASE ~client_closed
    <3>1. SendOut(Bytes(srvRead - recvLen + 1, srvRead), pending, Tail(jobs))
      BY <1>12, <2>2 DEF RecvDoneJob
    <3> QED
      BY <1>0, <1>5, <1>12, <2>0, <2>2, <3>1, RecvDoneData
  <2> QED
    BY <2>1, <2>2
<1>13. CASE ErrFunc
  BY <1>4, <1>13 DEF ErrFunc
<1>14. CASE ClosedFunc
  BY <1>4, <1>14 DEF ClosedFunc, FreeClient
<1>15. CASE RecvFunc
  <2>1. CASE NoRoom(Head(input).len)
    BY <1>1, <1>15, <2>1 DEF RecvFunc
  <2>2. CASE ~NoRoom(Head(input).len)
    <3> DEFINE n == Head(input).len
    <3>1. buf' \in Seq(Nat) /\ Len(buf') = Len(buf) + n /\ n \in Nat /\ ~socks_closed
      BY <1>15, <2>2, RecvFuncBuf
    <3>2. /\ Same /\ UNCHANGED recvBusy
          /\ IF buf = <<>> /\ socks_up THEN sendLen' = n ELSE sendLen' = sendLen
      BY <1>15, <2>2 DEF RecvFunc
    <3>3. /\ (buf # <<>>) <=> (Len(buf) > 0)
          /\ (buf' # <<>>) <=> (Len(buf') > 0)
      BY <1>0, <3>1, EmptySeq, LenProperties
    <3>4. ~client_closed
      BY <1>0, <1>15 DEF RecvFunc, LifeInv
    <3> HIDE DEF n
    <3>5. WriteFlows'
      BY <1>0, <3>1, <3>2, <3>3 DEF WriteFlows
    <3> QED
      BY <1>0, <3>2, <3>4, <3>5 DEF ReadFlows, AcksFlow, ClosingFlows
  <2> QED
    BY <2>1, <2>2
<1>16. CASE SentFunc
  <2> DEFINE unconfirmed == pending - Head(input).len
  <2>0. pcb = "open" /\ unconfirmed \in Nat
    BY <1>16, SentUnconfirmed
  <2>1. UNCHANGED <<socks_up, buf>>
    BY <1>16 DEF SentFunc
  <2> HIDE DEF unconfirmed
  <2>2. CASE socks_recv_buf # <<>>
    <3>1. SendOut(socks_recv_buf, unconfirmed, <<>>)
      BY <1>16, <2>2 DEF SentFunc, unconfirmed
    <3> QED
      BY <1>0, <1>5, <2>0, <2>1, <2>2, <3>1
  <2>3. CASE socks_recv_buf = <<>> /\ socks_closed /\ unconfirmed = 0
    BY <1>4, <1>16, <2>1, <2>3 DEF SentFunc, FreeClient, unconfirmed
  <2>4. CASE socks_recv_buf = <<>> /\ ~(socks_closed /\ unconfirmed = 0)
    <3>1. /\ pending' = unconfirmed
          /\ UNCHANGED <<life, client_closed, socks_closed, sendLen, recvBusy,
                         socks_recv_buf>>
      BY <1>16, <2>4 DEF SentFunc, unconfirmed
    <3> QED
      BY <1>0, <2>0, <2>1, <2>4, <3>1 DEF WriteFlows, ReadFlows, AcksFlow, ClosingFlows
  <2> QED
    BY <2>2, <2>3, <2>4
<1>17. CASE Murder
  BY <1>3, <1>17 DEF Murder, SocksGone
<1> QED
  BY NextIs, <1>6, <1>7, <1>8, <1>9, <1>10, <1>11, <1>12, <1>13, <1>14, <1>15, <1>16, <1>17
LEMMA FlowInitially == Init => FlowInv
  BY DEF Init, FlowInv, WriteFlows, ReadFlows, AcksFlow, ClosingFlows

LEMMA FlowStutters == FlowInv /\ UNCHANGED vars => FlowInv'
  BY DEF vars, struct, io, conn, app, server,
         FlowInv, WriteFlows, ReadFlows, AcksFlow, ClosingFlows

LEMMA FlowsAlways == Spec => []FlowInv
<1>1. IInv /\ FlowInv /\ Next => FlowInv'
  BY FlowStep
<1> QED
  BY <1>1, FlowInitially, FlowStutters, Inductive, PTL DEF Spec

\* Whenever the event loop waits, every byte a client holds has a write, an
\* acknowledgement or a read under way that moves it on, and a client whose
\* app is gone is kept for bytes on their way to SOCKS only.
THEOREM NothingStaysStuck == Spec => []NothingIsStuck
<1>1. ASSUME IInv, FlowInv PROVE NothingIsStuck
  <2> SUFFICES ASSUME Quiet, life = "live", socks_up PROVE
        /\ ~socks_closed => ((buf # <<>>) <=> (sendLen > 0))
        /\ (~client_closed /\ ~socks_closed)
               => (recvBusy \/ socks_recv_buf # <<>>)
        /\ (~client_closed /\ (socks_closed \/ socks_recv_buf # <<>>))
               => flight # <<>>
        /\ client_closed => (buf # <<>> /\ ~socks_closed)
    BY DEF NothingIsStuck
  <2>1. (~client_closed /\ (socks_closed \/ socks_recv_buf # <<>>)) => flight # <<>>
    <3> SUFFICES ASSUME ~client_closed, socks_closed \/ socks_recv_buf # <<>>
                 PROVE  flight # <<>>
      OBVIOUS
    <3>1. pcb = "open" /\ Confirmed = 0 /\ pending > 0
      BY <1>1, NoInput DEF Quiet, IInv, LifeInv, FlowInv, AcksFlow
    <3>2. pending = Len(flight) + Confirmed
      BY <1>1, <3>1 DEF IInv, DownInv
    <3>3. flight = <<>> => Len(flight) = 0
      OBVIOUS
    <3> QED
      BY <3>1, <3>2, <3>3
  <2> QED
    BY <1>1, <2>1 DEF FlowInv, WriteFlows, ReadFlows, ClosingFlows
<1> QED
  BY <1>1, Inductive, FlowsAlways, PTL

-----------------------------------------------------------------------------
(* The accounts of both directions, to the end of the connections.          *)

LEMMA OpenedStep == ASSUME IInv, Opened, Next PROVE Opened'
<1> USE DEF conn, struct, io, app, server
<1>0. socks_closed \in BOOLEAN /\ pcb # "open" => cbs = {}
  BY DEF IInv, TypeOK, LifeInv
<1>1. ASSUME UNCHANGED <<state, socks_up>>,
             pcb' = "none" => socks_closed' \/ (pcb = "none" /\ socks_closed' = socks_closed)
      PROVE  Opened'
  BY <1>1 DEF Opened
<1>2. CASE Shakes
  <2>1. UNCHANGED <<socks_up, socks_closed, pcb>>
    BY <1>2 DEF Shakes, Connected, ContinueJob, Handshake
  <2>2. state' # "UP"
    BY <1>2 DEF Shakes, Connected, ContinueJob, Handshake, HandshakeSteps
  <2> QED
    BY <2>1, <2>2 DEF Opened
<1>3. CASE HandshakeEnds
  BY <1>3 DEF HandshakeEnds, Opened
<1>4. CASE AcceptFails \/ Accept \/ NextConnection
  BY <1>4 DEF AcceptFails, Accept, NextConnection, Opened
<1>5. CASE Sends \/ Receives \/ Waits \/ Segments \/ NoCallback \/ RecvFunc
           \/ CallbackReturns \/ ServerActs
  <2>1. UNCHANGED <<state, socks_up, socks_closed, pcb>>
    BY <1>5 DEF Sends, SendMoves, Receives, RecvMoves, Waits, MustWait, Segments,
       Segment, NoCallback, RecvFunc, CallbackReturns, ServerActs, ServerSends, ServerCloses
  <2> QED
    BY <1>1, <2>1
<1>6. CASE Ends \/ Murder \/ SendDoneJob
  <2>1. UNCHANGED <<state, socks_up>>
        /\ (socks_closed' \/ UNCHANGED <<socks_closed, pcb>>)
    BY <1>6 DEF Ends, Murder, SendDoneJob, SocksEnds, FreeSocks, SocksGone
  <2> QED
    BY <1>1, <2>1
<1>7. CASE RecvDoneJob
  <2>1. UNCHANGED <<state, socks_up>>
        /\ (socks_closed' \/ (pcb' \in {"aborted", pcb} /\ socks_closed' = socks_closed))
    BY <1>7 DEF RecvDoneJob, SendOut, AbortClient, TcpAbort, HandleFreed, SocksGone, SocksStays
  <2> QED
    BY <1>1, <2>1
<1>8. CASE ErrFunc \/ ClosedFunc
  <2>1. /\ UNCHANGED <<state, socks_up>> /\ pcb' # "none"
        /\ (socks_closed' \/ socks_closed' = socks_closed)
    BY <1>8 DEF ErrFunc, ClosedFunc, FreeClient, TcpClose, HandleFreed, SocksGone, SocksStays
  <2> QED
    BY <1>1, <2>1
<1>9. CASE SentFunc
  <2>1. /\ UNCHANGED <<state, socks_up>>
        /\ (socks_closed' \/ socks_closed' = socks_closed)
        /\ pcb' \in {"aborted", "closed", pcb}
    BY <1>9 DEF SentFunc, SendOut, AbortClient, TcpAbort, FreeClient, TcpClose,
       HandleFreed, SocksGone, SocksStays
  <2> QED
    BY <1>1, <2>1
<1> QED
  BY NextIs, <1>2, <1>3, <1>4, <1>5, <1>6, <1>7, <1>8, <1>9

\* lwIP reports the end of the app's stream only when a segment carried it.
LEMMA SegmentFin ==
    ASSUME NEW acked \in Nat, NEW data \in Nat, Segment(acked, data, FALSE)
    PROVE  \A i \in 1 .. Len(input') : input'[i].name # "closed"
<1> DEFINE S == [name : {"sent", "recv"}, len : Nat]
           a == IF acked > 0 THEN <<[name |-> "sent", len |-> acked]>> ELSE <<>>
           b == IF data > 0 THEN <<[name |-> "recv", len |-> data]>> ELSE <<>>
<1>1. input' = a \o b \o <<>>
  BY DEF Segment
<1>2. a \in Seq(S) /\ b \in Seq(S) /\ <<>> \in Seq(S)
  <2>1. [name |-> "sent", len |-> acked] \in S /\ [name |-> "recv", len |-> data] \in S
    OBVIOUS
  <2> HIDE DEF S
  <2> QED
    BY <2>1
<1>3. \A e \in S : e.name # "closed"
  OBVIOUS
<1> HIDE DEF S, a, b
<1>4. input' \in Seq(S)
  BY <1>1, <1>2, ConcatProperties
<1> QED
  BY <1>3, <1>4, ElementOfSeq

LEMMA FinStep == ASSUME IInv, FinIsKnown, Next PROVE FinIsKnown'
<1> USE DEF conn, struct, io, app, server
<1> DEFINE S == [name : CallbackNames, len : Nat]
<1>0. input \in Seq(S)
  BY DEF IInv, TypeOK
<1> HIDE DEF S
<1>1. CASE input' = <<>>
  BY <1>1 DEF FinIsKnown
<1>2. CASE input' = input /\ (appEnd' = appEnd \/ appEnd' # "open")
  BY <1>2 DEF FinIsKnown
<1>3. CASE input # <<>> /\ input' = Tail(input) /\ appEnd' = appEnd
  <2>1. /\ Len(input) \in Nat /\ Len(Tail(input)) = Len(input) - 1
        /\ \A i \in 1 .. Len(input) - 1 : Tail(input)[i] = input[i + 1]
    BY <1>0, <1>3, HeadTailProperties, LenProperties
  <2> SUFFICES ASSUME NEW i \in 1 .. Len(input) - 1, Tail(input)[i].name = "closed"
               PROVE  appEnd # "open"
    BY <1>3, <2>1 DEF FinIsKnown
  <2>2. i + 1 \in 1 .. Len(input) /\ input[i + 1].name = "closed"
    BY <2>1
  <2> QED
    BY <2>2 DEF FinIsKnown
<1>4. CASE Shakes \/ HandshakeEnds \/ Sends \/ Receives \/ Waits \/ Ends
           \/ ServerActs \/ AcceptFails \/ Accept \/ SendDoneJob \/ RecvDoneJob
           \/ ErrFunc \/ Murder
  <2>1. input' = input /\ appEnd' \in {appEnd, "rst"}
    BY <1>4 DEF Shakes, Connected, ContinueJob, Handshake, HandshakeEnds, Sends,
       SendMoves, Receives, RecvMoves, Waits, MustWait, Ends, SocksEnds, ServerActs,
       ServerSends, ServerCloses, AcceptFails, Accept, SendDoneJob, RecvDoneJob,
       ErrFunc, Murder
  <2> QED
    BY <1>2, <2>1
<1>5. CASE NextConnection \/ CallbackReturns
  BY <1>1, <1>2, <1>5 DEF NextConnection, CallbackReturns
<1>6. CASE NoCallback \/ RecvFunc \/ ClosedFunc \/ SentFunc
  BY <1>2, <1>3, <1>6 DEF NoCallback, RecvFunc, ClosedFunc, SentFunc, Calls
<1>7. CASE Segments
  <2> PICK acked \in 0 .. Len(flight), data \in 0 .. Lesser(rcv_wnd, MaxUp - appSent),
           fin \in BOOLEAN : Segment(acked, data, fin)
    BY <1>7 DEF Segments
  <2>1. acked \in Nat /\ data \in Nat
    OBVIOUS
  <2>2. CASE fin
    BY <2>2 DEF Segment, FinIsKnown
  <2>3. CASE ~fin
    <3>1. Segment(acked, data, FALSE)
      BY <2>3
    <3> QED
      BY <2>1, <3>1, SegmentFin DEF FinIsKnown
  <2> QED
    BY <2>2, <2>3
<1> QED
  BY NextIs, <1>4, <1>5, <1>6, <1>7

\* A segment moves bytes from those in flight to those the app has.
LEMMA SegmentMoves ==
    ASSUME IInv, NEW acked \in 0 .. Len(flight), NEW data \in Nat, NEW fin \in BOOLEAN,
           Segment(acked, data, fin)
    PROVE  /\ Len(appGot') \in Nat /\ Len(flight') \in Nat
           /\ Len(appGot') + Len(flight') = Len(appGot) + Len(flight)
           /\ Len(appGot') = Len(appGot) + acked
<1> DEFINE first == FirstOf(flight, acked)
           left == From(flight, acked)
<1>0. /\ appGot \in Seq(Nat) /\ Len(appGot) \in Nat /\ flight \in Seq(Nat)
      /\ Len(flight) \in Nat
  BY LenProperties DEF IInv, TypeOK
<1>1. /\ first \in Seq(Nat) /\ Len(first) = acked
      /\ left \in Seq(Nat) /\ Len(left) = Len(flight) - acked
  BY <1>0 DEF FirstOf, From
<1>2. appGot' = appGot \o first /\ flight' = left
  BY DEF Segment
<1> HIDE DEF first, left
<1>3. Len(appGot') = Len(appGot) + acked /\ Len(flight') = Len(flight) - acked
  BY <1>0, <1>1, <1>2, ConcatProperties
<1> DEFINE g == Len(appGot)
           f == Len(flight)
           g1 == Len(appGot')
           f1 == Len(flight')
<1>4. g \in Nat /\ f \in Nat /\ acked \in 0 .. f /\ g1 = g + acked /\ f1 = f - acked
  BY <1>0, <1>3
<1> HIDE DEF g, f, g1, f1
<1>5. g1 \in Nat /\ f1 \in Nat /\ g1 + f1 = g + f
  BY <1>4
<1> QED
  BY <1>4, <1>5 DEF g, f, g1, f1

LEMMA DownAccountStep == ASSUME IInv, DownAccount, Next PROVE DownAccount'
<1> USE DEF conn, struct, io, app, server
<1>0. /\ LifeInv /\ JobsInv /\ DownInv
      /\ client_closed <=> pcb # "open"
      /\ socks_recv_buf \in Seq(Nat) /\ pending \in Nat
      /\ Len(appGot) \in Nat /\ Len(flight) \in Nat /\ Len(socks_recv_buf) \in Nat
      /\ srvRead \in Nat
  BY LenProperties DEF IInv, TypeOK, LifeInv
<1>1. ASSUME pcb' # "open" \/ ~socks_up' \/ ~socks_closed' PROVE DownAccount'
  BY <1>1 DEF DownAccount
<1>2. ASSUME UNCHANGED <<socks_recv_buf, appGot, flight, pcb, socks_up, socks_closed,
                         srvEnd, srvRead, srvSent>>
      PROVE  DownAccount'
  BY <1>2 DEF DownAccount
<1>3. CASE Shakes \/ HandshakeEnds \/ Sends \/ Receives \/ Waits \/ ServerActs
  <2>1. ~socks_closed /\ socks_closed' = socks_closed
    <3>1. CASE Shakes \/ HandshakeEnds
      BY <1>0, <3>1 DEF Shakes, Connected, ContinueJob, Handshake, HandshakeEnds,
         HandshakeRuns, JobsInv
    <3>2. CASE Sends \/ Receives \/ Waits
      BY <3>2 DEF Sends, SendMoves, Receives, RecvMoves, Waits, MustWait, NothingMoved
    <3>3. CASE ServerActs
      BY <3>3 DEF ServerActs, ServerSends, ServerCloses
    <3> QED
      BY <1>3, <3>1, <3>2, <3>3
  <2> QED
    BY <1>1, <2>1
<1>4. CASE AcceptFails \/ Accept \/ NextConnection
  BY <1>1, <1>4 DEF AcceptFails, Accept, NextConnection
<1>5. CASE NoCallback \/ CallbackReturns
  BY <1>2, <1>5 DEF NoCallback, CallbackReturns
<1>6. CASE Ends
  <2>0. ~socks_closed /\ MovedDown = 0
    BY <1>6 DEF Ends, NothingMoved, MovedDown
  <2>1. CASE pcb' # "open" \/ ~socks_up'
    BY <1>1, <2>1
  <2>2. CASE pcb' = "open" /\ socks_up'
    <3>1. /\ UNCHANGED <<socks_recv_buf, appGot, flight, pcb, socks_up, srvEnd, srvRead, srvSent>>
          /\ state # "UP" \/ RecvEnds
      BY <1>0, <1>6, <2>2 DEF Ends, SocksEnds, FreeSocks, TcpClose
    <3>2. srvEnd = "rst" \/ (srvEnd = "fin" /\ srvRead = srvSent)
      BY <1>0, <2>2, <3>1 DEF LifeInv, RecvEnds
    <3>3. Len(appGot) + Len(flight) + Len(socks_recv_buf) = srvRead
      BY <1>0, <2>0, <2>2, <3>1 DEF DownInv
    <3> QED
      BY <3>1, <3>2, <3>3 DEF DownAccount
  <2> QED
    BY <2>1, <2>2
<1>7. CASE SendDoneJob
  <2>1. ~socks_closed
    BY <1>0, <1>7 DEF SendDoneJob, JobsInv
  <2>2. CASE SentEverything
    BY <1>0, <1>1, <1>7, <2>2 DEF SendDoneJob, SentEverything
  <2>3. CASE ~SentEverything
    BY <1>1, <1>7, <2>1, <2>3 DEF SendDoneJob
  <2> QED
    BY <2>2, <2>3
<1>8. CASE RecvDoneJob
  <2>1. ~socks_closed
    BY <1>0, <1>8 DEF RecvDoneJob, JobsInv
  <2>2. socks_closed' = socks_closed \/ pcb' = "aborted"
    BY <1>8 DEF RecvDoneJob, SendOut, AbortClient, TcpAbort
  <2> QED
    BY <1>1, <2>1, <2>2
<1>9. CASE ErrFunc \/ ClosedFunc \/ Murder
  <2>1. pcb' # "open"
    BY <1>0, <1>9 DEF ErrFunc, ClosedFunc, Murder, FreeClient, TcpClose, TcpAbort
  <2> QED
    BY <1>1, <2>1
<1>10. CASE RecvFunc
  <2>1. ~socks_closed /\ socks_closed' = socks_closed
    BY <1>0, <1>10 DEF RecvFunc, LifeInv
  <2> QED
    BY <1>1, <2>1
<1>11. CASE Segments
  <2> PICK acked \in 0 .. Len(flight), data \in 0 .. Lesser(rcv_wnd, MaxUp - appSent),
           fin \in BOOLEAN : Segment(acked, data, fin)
    BY <1>11 DEF Segments
  <2>1. UNCHANGED <<socks_recv_buf, pcb, socks_up, socks_closed, srvEnd, srvRead, srvSent>>
    BY DEF Segment
  <2>2. Len(appGot') + Len(flight') = Len(appGot) + Len(flight)
    <3>1. data \in Nat
      OBVIOUS
    <3> QED
      BY <3>1, SegmentMoves
  <2> QED
    BY <2>1, <2>2 DEF DownAccount
<1>12. CASE SentFunc
  <2> DEFINE unconfirmed == pending - Head(input).len
  <2>0. pcb = "open" /\ unconfirmed \in Nat
    BY <1>12, SentUnconfirmed
  <2>1. UNCHANGED <<appGot, socks_up, srvEnd, srvRead, srvSent>>
    BY <1>12 DEF SentFunc
  <2> HIDE DEF unconfirmed
  <2>2. CASE socks_recv_buf # <<>>
    <3>1. SendOut(socks_recv_buf, unconfirmed, <<>>)
      BY <1>12, <2>2 DEF SentFunc, unconfirmed
    <3>2. CASE pcb' # "open"
      BY <1>1, <3>2
    <3>3. CASE pcb' = "open"
      <4>1. Len(flight') + Len(socks_recv_buf') = Len(flight) + Len(socks_recv_buf)
        BY <1>0, <2>0, <3>1, <3>3, SendOutKeeps DEF DownInv
      <4>2. socks_closed' = socks_closed
        BY <3>1, <3>3 DEF SendOut, AbortClient, TcpAbort
      <4>3. Len(flight') \in Nat /\ Len(socks_recv_buf') \in Nat
        BY <1>0, <2>0, <3>1, SendOutKeeps, LenProperties DEF DownInv
      <4> DEFINE a == Len(appGot)
                 f == Len(flight)
                 b == Len(socks_recv_buf)
                 f1 == Len(flight')
                 b1 == Len(socks_recv_buf')
      <4>4. a \in Nat /\ f \in Nat /\ b \in Nat /\ f1 \in Nat /\ b1 \in Nat /\ f1 + b1 = f + b
        BY <1>0, <4>1, <4>3
      <4> HIDE DEF a, f, b, f1, b1
      <4>5. a + f1 + b1 = a + f + b
        BY <4>4
      <4>6. Len(appGot) + Len(flight') + Len(socks_recv_buf')
            = Len(appGot) + Len(flight) + Len(socks_recv_buf)
        BY <4>5 DEF a, f, b, f1, b1
      <4> QED
        BY <2>0, <2>1, <4>2, <4>6 DEF DownAccount
    <3> QED
      BY <3>2, <3>3
  <2>3. CASE socks_recv_buf = <<>>
    <3>1. pcb' = "closed" \/ UNCHANGED <<socks_recv_buf, flight, pcb, socks_closed>>
      BY <1>12, <2>3 DEF SentFunc, FreeClient, TcpClose
    <3> QED
      BY <1>1, <1>2, <2>1, <3>1
  <2> QED
    BY <2>2, <2>3
<1> QED
  BY NextIs, <1>3, <1>4, <1>5, <1>6, <1>7, <1>8, <1>9, <1>10, <1>11, <1>12

\* What client_handle_freed_client finds when the app's end of the connection
\* closes or fails: all the app has sent is with the server or in buf.
LEMMA FreedAccount ==
    ASSUME IInv, ErrFunc \/ ClosedFunc, ~socks_closed
    PROVE  MovedUp = 0 /\ Len(srvGot) + Len(buf) = appSent
<1>1. pcb = "open" /\ jobs = <<>>
  BY DEF ErrFunc, Quiet, ClosedFunc, Calls, IInv, LifeInv
<1>2. Unread = 0
  <2>1. CASE ErrFunc
    BY <2>1, NoInput DEF ErrFunc, Quiet
  <2>2. CASE ClosedFunc
    <3> DEFINE S == [name : CallbackNames, len : Nat]
    <3>1. input # <<>> /\ Head(input).name = "closed" /\ input \in Seq(S) /\ InputInv
      BY <2>2 DEF ClosedFunc, Calls, IInv, TypeOK
    <3> HIDE DEF S
    <3>2. Head(input) = input[1]
      BY <3>1, HeadTailProperties
    <3>3. Len(input) \in Nat
      BY <3>1, LenProperties
    <3>4. Report(1, "recv") = 0 /\ Report(2, "recv") = 0
      BY <3>1, <3>2, <3>3 DEF Report, InputInv
    <3> QED
      BY <3>4 DEF Unread
  <2> QED
    BY <2>1, <2>2
<1>3. MovedUp = 0
  BY <1>1 DEF MovedUp, Running
<1>4. Len(srvGot) - MovedUp + Len(buf) + Unread = appSent
  BY <1>1 DEF IInv, LifeInv, WindowInv
<1>5. Len(srvGot) \in Nat /\ Len(buf) \in Nat
  BY LenProperties DEF IInv, TypeOK
<1> QED
  BY <1>2, <1>3, <1>4, <1>5

LEMMA UpAccountStep == ASSUME IInv, UpAccount, Next PROVE UpAccount'
<1> USE DEF conn, struct, io, app, server
<1>0. /\ LifeInv /\ JobsInv /\ JobsSay
      /\ client_closed <=> pcb # "open"
      /\ buf \in Seq(Nat) /\ Len(buf) \in Nat /\ Len(srvGot) \in Nat /\ appSent \in Nat
      /\ sendLen \in Nat /\ sendLen <= Len(buf) /\ MovedUp \in Nat
      /\ socks_closed \in BOOLEAN
  BY JobsAre, LenProperties, MovedNext DEF IInv, TypeOK, LifeInv, JobsInv
<1>1. ASSUME UNCHANGED <<buf, srvGot>>, MovedUp' = MovedUp,
             appSent' = appSent \/ (appSent' \in Nat /\ appSent' >= appSent /\ pcb' = "open"),
             socks_closed' \/ socks_closed' = socks_closed,
             pcb' \in {"closed", "dead"} => pcb \in {"closed", "dead"} \/ socks_closed'
      PROVE  UpAccount'
  <2> SUFFICES ASSUME ~socks_closed' PROVE UpAccount'
    BY DEF UpAccount
  <2> DEFINE x == Len(srvGot) - MovedUp + Len(buf)
  <2>1. x \in Int
    BY <1>0
  <2>2. Len(srvGot') - MovedUp' + Len(buf') = x
    BY <1>1
  <2>3. x <= appSent /\ (pcb \in {"closed", "dead"} => x = appSent)
    BY <1>1 DEF UpAccount
  <2> HIDE DEF x
  <2> QED
    BY <1>0, <1>1, <2>1, <2>2, <2>3 DEF UpAccount
<1>2. ASSUME socks_closed' PROVE UpAccount'
  BY <1>2 DEF UpAccount
<1>3. CASE Shakes \/ Waits \/ Receives \/ HandshakeEnds \/ NoCallback \/ CallbackReturns
  <2>1. MovedUp = 0
    <3>1. NothingMoved \/ jobs = <<>> \/ jobs \in {<<"connected">>, <<"continue">>}
      BY <1>3 DEF Shakes, Waits, Receives, Connected, ContinueJob, Handshake,
         HandshakeEnds, NoCallback, CallbackReturns, Calls
    <3>2. jobs \in {<<"connected">>, <<"continue">>} => ~Running("sendDone")
      BY DEF Running
    <3> QED
      BY <3>1, <3>2, MovedNext DEF MovedUp
  <2>2. UNCHANGED <<buf, srvGot, appSent, socks_closed, pcb>>
    BY <1>3 DEF Shakes, Connected, ContinueJob, Handshake, HandshakeEnds, Receives,
       RecvMoves, Waits, MustWait, NoCallback, CallbackReturns
  <2>3. MovedUp' = 0
    BY <2>1, <2>2, MovedNext
  <2> QED
    BY <1>1, <2>1, <2>2, <2>3
<1>4. CASE AcceptFails \/ ServerActs
  <2>1. UNCHANGED <<buf, srvGot, appSent, socks_closed, jobs, sendLen>>
        /\ pcb' \in {"aborted", pcb}
    BY <1>4 DEF AcceptFails, ServerActs, ServerSends, ServerCloses
  <2>2. MovedUp' = MovedUp
    BY <2>1 DEF MovedUp, Running
  <2> QED
    BY <1>1, <2>1, <2>2
<1>5. CASE Accept
  <2>1. /\ UNCHANGED <<buf, srvGot, appSent>> /\ pcb' = "open"
        /\ buf = <<>> /\ srvGot = <<>> /\ appSent = 0
    BY <1>0, <1>5 DEF Accept, LifeInv
  <2>2. MovedUp' = 0 /\ Len(buf') = 0 /\ Len(srvGot') = 0
    BY <1>5, <2>1 DEF Accept, MovedUp, Running
  <2> QED
    BY <2>1, <2>2 DEF UpAccount
<1>6. CASE NextConnection \/ Ends \/ Murder
  BY <1>2, <1>6 DEF NextConnection, Ends, Murder, SocksEnds, FreeSocks, SocksGone
<1>7. CASE Sends
  <2>1. Len(srvGot') - MovedUp' = Len(srvGot) - MovedUp
    BY <1>7, SendsMove
  <2>2. UNCHANGED <<buf, appSent, pcb, socks_closed>>
    BY <1>7 DEF Sends, SendMoves
  <2> QED
    BY <2>1, <2>2 DEF UpAccount
<1>8. CASE Segments
  <2> PICK acked \in 0 .. Len(flight), data \in 0 .. Lesser(rcv_wnd, MaxUp - appSent),
           fin \in BOOLEAN : Segment(acked, data, fin)
    BY <1>8 DEF Segments
  <2>1. /\ UNCHANGED <<buf, srvGot, pcb, socks_closed, jobs, sendLen>> /\ pcb = "open"
        /\ appSent' = appSent + data /\ data \in Nat
    BY DEF Segment, Quiet
  <2>2. MovedUp' = MovedUp
    BY <2>1 DEF MovedUp, Running
  <2>3. appSent' \in Nat /\ appSent' >= appSent
    BY <1>0, <2>1
  <2> QED
    BY <1>1, <2>1, <2>2, <2>3
<1>9. CASE SendDoneJob
  <2>1. ~socks_closed /\ MovedUp = sendLen
    BY <1>0, <1>9 DEF SendDoneJob, JobsInv, MovedUp, Running
  <2>2. CASE SentEverything
    BY <1>2, <1>9, <2>2 DEF SendDoneJob, SocksGone
  <2>3. CASE ~SentEverything
    <3>1. /\ buf' = Taken /\ UNCHANGED <<srvGot, appSent, pcb, socks_closed>>
          /\ jobs' = (IF Taken # <<>> THEN <<"send">> ELSE <<>>) \o Tail(jobs)
      BY <1>9, <2>3 DEF SendDoneJob
    <3>2. Len(Taken) = Len(buf) - sendLen
      BY <1>0 DEF Taken, From
    <3>3. MovedUp' = 0
      <4>1. jobs \in {<<"sendDone">>, <<"sendDone", "recv">>}
        BY <1>0, <1>9 DEF SendDoneJob, JobsSay, Running
      <4>2. Tail(jobs) \in {<<>>, <<"recv">>}
        BY <4>1, JobTails
      <4>3. jobs' \in {<<>>, <<"send">>, <<"recv">>, <<"send", "recv">>}
        BY <3>1, <4>2, JobsMade
      <4> QED
        BY <4>3 DEF MovedUp, Running
    <3>4. Len(srvGot') - MovedUp' + Len(buf') = Len(srvGot) - MovedUp + Len(buf)
      <4> DEFINE g == Len(srvGot)
                 b == Len(buf)
      <4>1. g \in Nat /\ b \in Nat /\ g - 0 + (b - sendLen) = g - sendLen + b
        BY <1>0
      <4> HIDE DEF g, b
      <4>2. Len(srvGot') - MovedUp' + Len(buf') = g - 0 + (b - sendLen)
        BY <3>1, <3>2, <3>3 DEF g, b
      <4>3. Len(srvGot) - MovedUp + Len(buf) = g - sendLen + b
        BY <2>1 DEF g, b
      <4> QED
        BY <4>1, <4>2, <4>3
    <3> QED
      BY <3>1, <3>4 DEF UpAccount
  <2> QED
    BY <2>2, <2>3
<1>10. CASE RecvDoneJob \/ SentFunc
  <2>1. MovedUp = 0
    <3>1. jobs = <<>> \/ Running("recvDone")
      BY <1>10 DEF RecvDoneJob, SentFunc, Calls, Running
    <3>2. Running("recvDone") => ~Running("sendDone")
      BY DEF Running
    <3> QED
      BY <3>1, <3>2, MovedNext DEF MovedUp
  <2>2. UNCHANGED <<buf, srvGot, appSent>>
    BY <1>10 DEF RecvDoneJob, SentFunc
  <2>3. MovedUp' = 0
    BY <2>1, <2>2, MovedNext
  <2>4. CASE RecvDoneJob
    <3>1. pcb' \in {"aborted", pcb} /\ (socks_closed' \/ socks_closed' = socks_closed)
      BY <2>4 DEF RecvDoneJob, SendOut, AbortClient, TcpAbort, HandleFreed, SocksGone, SocksStays
    <3> QED
      BY <1>1, <2>1, <2>2, <2>3, <3>1
  <2>5. CASE SentFunc
    <3>1. /\ socks_closed' \/ socks_closed' = socks_closed
          /\ pcb' \in {"aborted", pcb} \/ socks_closed'
      <4>1. CASE socks_recv_buf # <<>>
        BY <2>5, <4>1 DEF SentFunc, SendOut, AbortClient, TcpAbort, HandleFreed,
           SocksGone, SocksStays
      <4>2. CASE socks_recv_buf = <<>>
        BY <2>5, <4>2 DEF SentFunc, FreeClient, HandleFreed, SocksGone, SocksStays
      <4> QED
        BY <4>1, <4>2
    <3> QED
      BY <1>1, <2>1, <2>2, <2>3, <3>1
  <2> QED
    BY <1>10, <2>4, <2>5
<1>11. CASE ErrFunc \/ ClosedFunc
  <2>1. UNCHANGED <<buf, srvGot, appSent>> /\ (~socks_closed' => ~socks_closed)
    BY <1>11 DEF ErrFunc, ClosedFunc, FreeClient, HandleFreed, SocksGone, SocksStays
  <2>2. CASE socks_closed'
    BY <1>2, <2>2
  <2>3. CASE ~socks_closed'
    <3>1. MovedUp = 0 /\ Len(srvGot) + Len(buf) = appSent
      BY <1>11, <2>1, <2>3, FreedAccount
    <3>2. MovedUp' = 0
      BY <2>1, <3>1, MovedNext
    <3>3. Len(srvGot') - MovedUp' + Len(buf') = appSent'
      BY <1>0, <2>1, <3>1, <3>2
    <3> QED
      BY <1>0, <2>1, <3>3 DEF UpAccount
  <2> QED
    BY <2>2, <2>3
<1>12. CASE RecvFunc
  <2>1. CASE NoRoom(Head(input).len)
    <3>1. UNCHANGED <<buf, srvGot, appSent, pcb, socks_closed, jobs, sendLen>>
      BY <1>12, <2>1 DEF RecvFunc
    <3>2. MovedUp' = MovedUp
      BY <3>1 DEF MovedUp, Running
    <3> QED
      BY <1>1, <3>1, <3>2
  <2>2. CASE ~NoRoom(Head(input).len)
    <3> DEFINE n == Head(input).len
    <3>1. /\ Len(buf') = Len(buf) + n /\ n \in Nat /\ Unread = n /\ MovedUp = 0
      BY <1>12, <2>2, RecvFuncBuf
    <3>2. UNCHANGED <<srvGot, appSent, pcb, socks_closed>> /\ "recv" \in cbs
      BY <1>12 DEF RecvFunc
    <3>3. MovedUp' = 0
      BY <3>1, <3>2, MovedNext
    <3>4. Len(srvGot) - MovedUp + Len(buf) + Unread = appSent
      BY <3>2 DEF IInv, WindowInv
    <3> HIDE DEF n
    <3>5. Len(srvGot') - MovedUp' + Len(buf') = appSent
      BY <1>0, <3>1, <3>2, <3>3, <3>4
    <3> QED
      BY <1>0, <3>2, <3>5 DEF UpAccount
  <2> QED
    BY <2>1, <2>2
<1> QED
  BY NextIs, <1>3, <1>4, <1>5, <1>6, <1>7, <1>8, <1>9, <1>10, <1>11, <1>12

\* Neither end gets what was not sent.
LEMMA NothingInventedStep ==
    ASSUME IInv, DownAccount, UpAccount, NothingInvented, Next
    PROVE  NothingInvented'
<1> USE DEF conn, struct, io, app, server
<1>0. /\ LifeInv /\ JobsInv /\ DownInv
      /\ Len(buf) \in Nat /\ Len(srvGot) \in Nat /\ appSent \in Nat
      /\ Len(appGot) \in Nat /\ Len(flight) \in Nat /\ Len(socks_recv_buf) \in Nat
      /\ srvRead \in Nat /\ srvSent \in Nat /\ MovedDown \in Nat
  BY LenProperties, MovedNext DEF IInv, TypeOK
<1>1. CASE UNCHANGED <<srvGot, appSent, appGot, srvRead, srvSent>>
  BY <1>1 DEF NothingInvented
<1>2. CASE Shakes \/ HandshakeEnds \/ Waits \/ Ends \/ AcceptFails \/ Accept
           \/ SendDoneJob \/ RecvDoneJob \/ ErrFunc \/ NoCallback \/ RecvFunc
           \/ ClosedFunc \/ SentFunc \/ CallbackReturns \/ Murder
  <2>1. UNCHANGED <<srvGot, appSent, appGot, srvRead, srvSent>>
    BY <1>2 DEF Shakes, Connected, ContinueJob, Handshake, HandshakeEnds, Waits,
       MustWait, Ends, SocksEnds, AcceptFails, Accept, SendDoneJob, RecvDoneJob,
       ErrFunc, NoCallback, RecvFunc, ClosedFunc, SentFunc, CallbackReturns, Murder
  <2> QED
    BY <1>1, <2>1
<1>3. CASE NextConnection
  BY <1>3 DEF NextConnection, NothingInvented
<1>4. CASE Sends
  <2>1. UNCHANGED <<buf, appSent, appGot, srvRead, srvSent>> /\ ~socks_closed /\ MovedUp = 0
    BY <1>4 DEF Sends, SendMoves, NothingMoved, MovedUp
  <2>2. Len(srvGot') - MovedUp' = Len(srvGot)
    BY <1>0, <1>4, <2>1, SendsMove
  <2>3. MovedUp' <= Len(buf) /\ MovedUp' \in Nat
    <3> PICK rest \in {<<>>, <<"recv">>}, n \in 1 .. sendLen :
           sendLen' = n /\ jobs' = <<"sendDone">> \o rest
      BY <1>4 DEF Sends, SendMoves
    <3>1. sendLen <= Len(buf) /\ sendLen \in Nat
      BY DEF IInv, TypeOK, JobsInv
    <3> QED
      BY <1>0, <3>1 DEF MovedUp
  <2>4. Len(srvGot) + Len(buf) <= appSent
    BY <1>0, <2>1 DEF UpAccount
  <2>5. Len(srvGot') \in Nat
    <3>1. srvGot' \in Seq(Nat)
      BY <1>4, TypeStep DEF TypeOK
    <3> QED
      BY <3>1, LenProperties
  <2>6. Len(srvGot') <= appSent
    BY <1>0, <2>2, <2>3, <2>4, <2>5
  <2> QED
    BY <2>1, <2>6 DEF NothingInvented
<1>5. CASE Receives
  <2> PICK n \in 1 .. Lesser(RecvBuf, srvSent - srvRead) : srvRead' = srvRead + n
    BY <1>5 DEF Receives, RecvMoves
  <2>1. UNCHANGED <<srvGot, appSent, appGot, srvSent>>
    BY <1>5 DEF Receives, RecvMoves
  <2>2. srvRead' <= srvSent /\ srvRead' >= srvRead /\ srvRead' \in Nat
    BY <1>0, TunAssumption DEF Lesser
  <2> QED
    BY <1>0, <2>1, <2>2 DEF NothingInvented
<1>6. CASE Segments
  <2> PICK acked \in 0 .. Len(flight), data \in 0 .. Lesser(rcv_wnd, MaxUp - appSent),
           fin \in BOOLEAN : Segment(acked, data, fin)
    BY <1>6 DEF Segments
  <2>0. UNCHANGED <<srvGot, srvRead, srvSent>> /\ appSent' = appSent + data /\ data \in Nat
        /\ pcb = "open"
    BY DEF Segment
  <2>1. Len(appGot) + Len(flight) <= srvRead
    <3>1. CASE ~socks_up
      <4>1. Len(flight) = 0
        BY <1>0, <3>1 DEF LifeInv
      <4> QED
        BY <1>0, <4>1 DEF NothingInvented
    <3>2. CASE socks_up /\ socks_closed
      BY <1>0, <2>0, <3>2 DEF DownAccount
    <3>3. CASE ~socks_closed
      BY <1>0, <2>0, <3>3 DEF DownInv
    <3> QED
      BY <3>1, <3>2, <3>3
  <2>2. Len(appGot') = Len(appGot) + acked
    BY <2>0, SegmentMoves
  <2> QED
    BY <1>0, <2>0, <2>1, <2>2 DEF NothingInvented
<1>7. CASE ServerActs
  BY <1>0, <1>7 DEF ServerActs, ServerSends, ServerCloses, NothingInvented
<1> QED
  BY NextIs, <1>2, <1>3, <1>4, <1>5, <1>6, <1>7

LEMMA EndStep == ASSUME IInv, EndInv, Next PROVE EndInv'
  BY OpenedStep, FinStep, DownAccountStep, UpAccountStep, NothingInventedStep DEF EndInv

LEMMA EndInitially == Init => EndInv
<1> SUFFICES ASSUME Init PROVE EndInv
  OBVIOUS
<1>1. Len(srvGot) = 0 /\ Len(appGot) = 0 /\ Len(input) = 0
  BY DEF Init
<1> QED
  BY <1>1 DEF Init, EndInv, Opened, FinIsKnown, DownAccount, UpAccount, NothingInvented

LEMMA EndStutters == EndInv /\ UNCHANGED vars => EndInv'
<1> SUFFICES ASSUME EndInv, UNCHANGED vars PROVE EndInv'
  OBVIOUS
<1> USE DEF vars, struct, io, conn, app, server
<1>1. MovedUp' = MovedUp
  BY DEF MovedUp, Running
<1> QED
  BY <1>1 DEF EndInv, Opened, FinIsKnown, DownAccount, UpAccount, NothingInvented

LEMMA EndAlways == Spec => []EndInv
<1>1. IInv /\ EndInv /\ Next => EndInv'
  BY EndStep
<1> QED
  BY <1>1, EndInitially, EndStutters, Inductive, PTL DEF Spec

-----------------------------------------------------------------------------
(* How connections end.                                                     *)

\* All the server has sent was read, queued and confirmed.
LEMMA AllConfirmed ==
    ASSUME IInv, pcb = "open", socks_recv_buf = <<>>, Len(flight) = 0,
           Len(appGot) + Len(flight) + Len(socks_recv_buf) = srvRead, srvRead = srvSent
    PROVE  appGot = Bytes(1, srvSent)
<1>1. appGot \in Seq(Nat) /\ Len(appGot) \in Nat /\ InOrder(appGot)
  BY LenProperties DEF IInv, TypeOK, DownInv
<1>2. Len(appGot) = srvSent
  BY <1>1
<1>3. Bytes(1, srvSent) = [i \in 1 .. srvSent |-> i]
  <2>1. srvSent - 1 + 1 = srvSent /\ \A i \in 1 .. srvSent : 1 + i - 1 = i
    BY <1>1, <1>2
  <2> QED
    BY <2>1 DEF Bytes
<1>4. appGot = [i \in 1 .. srvSent |-> i]
  BY <1>1, <1>2 DEF InOrder
<1> QED
  BY <1>3, <1>4

\* The pcb is closed while the app still sends: the server is at its end, and
\* there is nothing left that the app would miss.
LEMMA CloseIsGraceful ==
    ASSUME IInv, FlowInv, EndInv, Next,
           pcb = "open", pcb' = "closed", appEnd = "open", srvEnd = "fin", state = "UP"
    PROVE  appGot = Bytes(1, srvSent)
<1> USE DEF conn, struct, io, app, server
<1>0. /\ socks_up /\ ~client_closed /\ pending = Len(flight) + Confirmed
      /\ Confirmed \in Nat /\ Len(flight) \in Nat
  BY LenProperties, ConfirmedNat DEF EndInv, Opened, IInv, LifeInv, DownInv, TypeOK
<1>1. CASE Ends
  <2>1. /\ ~StillToDeliver /\ ~socks_closed /\ MovedDown = 0
        /\ srvRead = srvSent
    BY <1>0, <1>1 DEF Ends, SocksEnds, FreeSocks, NothingMoved, RecvEnds, MovedDown
  <2>2. socks_recv_buf = <<>> /\ ~(pending > 0)
    BY <1>0, <2>1 DEF StillToDeliver
  <2>3. Len(flight) = 0
    BY <1>0, <2>2
  <2>4. Len(appGot) + Len(flight) + Len(socks_recv_buf) = srvRead
    <3>1. Len(appGot) + Len(flight) + Len(socks_recv_buf) + MovedDown = srvRead
      BY <2>1 DEF IInv, DownInv
    <3>2. Len(appGot) \in Nat
      BY LenProperties DEF IInv, TypeOK
    <3> QED
      BY <2>1, <2>2, <2>3, <3>1, <3>2
  <2> QED
    BY <2>1, <2>2, <2>3, <2>4, AllConfirmed
<1>2. CASE ClosedFunc
  <2> DEFINE S == [name : CallbackNames, len : Nat]
  <2>1. input \in Seq(S) /\ input # <<>> /\ Head(input).name = "closed"
    BY <1>2 DEF ClosedFunc, Calls, IInv, TypeOK
  <2> HIDE DEF S
  <2>2. 1 \in 1 .. Len(input) /\ Head(input) = input[1]
    BY <2>1, HeadTailProperties, LenProperties, EmptySeq
  <2> QED
    BY <2>1, <2>2 DEF EndInv, FinIsKnown
<1>3. CASE SentFunc
  <2>1. socks_recv_buf = <<>> /\ socks_closed /\ pending - Head(input).len = 0
    <3>1. ~SendOut(socks_recv_buf, pending - Head(input).len, <<>>)
      BY DEF SendOut, AbortClient, TcpAbort
    <3> QED
      BY <1>3, <3>1 DEF SentFunc
  <2>2. Len(flight) = 0
    BY <1>3, <2>1, SentUnconfirmed
  <2> QED
    BY <1>0, <2>1, <2>2, AllConfirmed DEF EndInv, DownAccount
<1>4. CASE RecvDoneJob
  BY <1>4 DEF RecvDoneJob, SendOut, AbortClient, TcpAbort
<1>5. CASE Shakes \/ HandshakeEnds \/ Sends \/ Receives \/ Waits \/ SendDoneJob
           \/ Segments \/ NoCallback \/ RecvFunc \/ CallbackReturns \/ ServerActs
  BY <1>5 DEF Shakes, Connected, ContinueJob, Handshake, HandshakeEnds, Sends, SendMoves,
     Receives, RecvMoves, Waits, MustWait, SendDoneJob, Segments, Segment, NoCallback,
     RecvFunc, CallbackReturns, ServerActs, ServerSends, ServerCloses
<1>6. CASE AcceptFails \/ Accept \/ NextConnection \/ ErrFunc \/ Murder
  BY <1>0, <1>6 DEF AcceptFails, Accept, NextConnection, ErrFunc, Murder, TcpAbort
<1> QED
  BY NextIs, <1>1, <1>2, <1>3, <1>4, <1>5, <1>6

\* The client is freed after the app's end and before the server's: the
\* server has everything.
LEMMA FreeIsGraceful ==
    ASSUME IInv, FlowInv, EndInv, Next,
           life = "live", life' = "freed", state = "UP", pcb' \in {"closed", "dead"},
           srvEnd = "open"
    PROVE  Len(srvGot) = appSent
<1> USE DEF conn, struct, io, app, server
<1>0. /\ socks_up /\ (pcb = "open" => ~socks_closed)
      /\ client_closed <=> pcb # "open"
      /\ Len(srvGot) \in Nat /\ Len(buf) \in Nat /\ sendLen \in Nat /\ sendLen <= Len(buf)
      /\ buf \in Seq(Nat)
  BY LenProperties DEF EndInv, Opened, DownAccount, IInv, LifeInv, TypeOK, JobsInv
<1>1. CASE Ends
  BY <1>1 DEF Ends, RecvEnds
<1>2. CASE SendDoneJob
  <2>1. SentEverything /\ pcb' = pcb
    BY <1>2 DEF SendDoneJob
  <2>2. ~socks_closed /\ MovedUp = sendLen
    BY <1>2 DEF SendDoneJob, IInv, JobsInv, MovedUp, Running
  <2>3. Len(srvGot) - MovedUp + Len(buf) = appSent
    BY <2>1, <2>2 DEF EndInv, UpAccount
  <2>4. Len(buf) - sendLen = 0
    <3>1. Len(Taken) = Len(buf) - sendLen
      BY <1>0 DEF Taken, From
    <3> QED
      BY <2>1, <3>1 DEF SentEverything
  <2> QED
    BY <1>0, <2>2, <2>3, <2>4
<1>3. CASE ErrFunc \/ ClosedFunc
  <2>1. pcb = "open"
    BY <1>3 DEF ErrFunc, ClosedFunc, IInv, LifeInv
  <2>2. buf = <<>>
    BY <1>0, <1>3, <2>1 DEF ErrFunc, ClosedFunc, FreeClient, HandleFreed
  <2> QED
    BY <1>0, <1>3, <2>1, <2>2, FreedAccount
<1>4. CASE SentFunc
  <2>1. pcb = "open"
    BY <1>4, SentUnconfirmed
  <2>2. CASE socks_recv_buf # <<>>
    BY <1>4, <2>2 DEF SentFunc, SendOut, AbortClient, TcpAbort
  <2>3. CASE socks_recv_buf = <<>>
    BY <1>0, <1>4, <2>1, <2>3 DEF SentFunc
  <2> QED
    BY <2>2, <2>3
<1>5. CASE RecvDoneJob
  BY <1>5 DEF RecvDoneJob, SendOut, AbortClient, TcpAbort
<1>6. CASE Shakes \/ HandshakeEnds \/ Sends \/ Receives \/ Waits
           \/ Segments \/ NoCallback \/ RecvFunc \/ CallbackReturns \/ ServerActs
  BY <1>6 DEF Shakes, Connected, ContinueJob, Handshake, HandshakeEnds, Sends, SendMoves,
     Receives, RecvMoves, Waits, MustWait, Segments, Segment, NoCallback,
     RecvFunc, CallbackReturns, ServerActs, ServerSends, ServerCloses
<1>7. CASE AcceptFails \/ Accept \/ NextConnection \/ Murder
  BY <1>7 DEF AcceptFails, Accept, NextConnection, Murder
<1> QED
  BY NextIs, <1>1, <1>2, <1>3, <1>4, <1>5, <1>6, <1>7

\* client_free_socks and client_sent_func keep the app's connection until it
\* has confirmed all the server sent, client_handle_freed_client the SOCKS
\* connection until it has taken all the app sent.
THEOREM EndsStayGraceful == Spec => EndsAreGraceful
<1>1. IInv /\ FlowInv /\ EndInv /\ [Next]_vars =>
        [ /\ (pcb = "open" /\ pcb' = "closed" /\ appEnd = "open" /\ srvEnd = "fin")
               => (state = "UP" => appGot = Bytes(1, srvSent))
          /\ (/\ life = "live" /\ life' = "freed" /\ state = "UP"
              /\ pcb' \in {"closed", "dead"} /\ srvEnd = "open")
               => Len(srvGot) = appSent ]_vars
  BY CloseIsGraceful, FreeIsGraceful
<1> QED
  BY <1>1, Inductive, FlowsAlways, EndAlways, PTL DEF Spec, EndsAreGraceful

-----------------------------------------------------------------------------
(* Two pipes.                                                               *)

LEMMA InOrderPrefix ==
    ASSUME NEW s \in Seq(Nat), InOrder(s)
    PROVE  s = UpPipe!Prefix(Len(s)) /\ s = DownPipe!Prefix(Len(s)) /\ Len(s) \in Nat
<1>1. Len(s) \in Nat /\ s = [i \in 1 .. Len(s) |-> i]
  BY LenProperties DEF InOrder
<1> QED
  BY <1>1 DEF UpPipe!Prefix, DownPipe!Prefix

\* What a step does to the pipes: it begins or ends a connection, moves bytes
\* in or out, or nothing the two ends could tell.
Streams == <<appSent, srvGot, srvSent, appGot>>
LEMMA PipeMoves ==
    ASSUME IInv, EndInv, Next
    PROVE  \/ pcb = "none" /\ pcb' # "none" /\ UNCHANGED Streams
           \/ /\ pcb # "none" /\ pcb' = "none"
              /\ appSent' = 0 /\ srvGot' = <<>> /\ srvSent' = 0 /\ appGot' = <<>>
           \/ (pcb # "none" <=> pcb' # "none") /\ UNCHANGED Streams
           \/ pcb # "none" /\ pcb' = pcb /\ (Sends \/ Segments \/ ServerSends)
<1> USE DEF conn, struct, io, app, server
<1>0. /\ client_closed <=> pcb # "open"
      /\ pcb # "open" => cbs = {}
      /\ pcb = "none" => socks_closed
  BY DEF IInv, LifeInv, EndInv, Opened
<1>1. CASE AcceptFails \/ Accept \/ NextConnection
  BY <1>1 DEF AcceptFails, Accept, NextConnection, Streams
<1>2. CASE Shakes \/ HandshakeEnds \/ Receives \/ Waits \/ SendDoneJob
           \/ NoCallback \/ RecvFunc \/ CallbackReturns
  BY <1>2 DEF Shakes, Connected, ContinueJob, Handshake, HandshakeEnds,
     Receives, RecvMoves, Waits, MustWait, SendDoneJob, NoCallback,
     RecvFunc, CallbackReturns, Streams
<1>3. CASE Ends \/ ErrFunc \/ ClosedFunc \/ Murder
  <2>1. UNCHANGED Streams
    BY <1>3 DEF Ends, SocksEnds, ErrFunc, ClosedFunc, Murder, Streams
  <2>2. pcb' = pcb \/ (pcb = "open" /\ pcb' # "none")
    BY <1>0, <1>3 DEF Ends, SocksEnds, FreeSocks, ErrFunc, ClosedFunc, FreeClient,
       TcpClose, Murder, TcpAbort
  <2> QED
    BY <2>1, <2>2
<1>4. CASE RecvDoneJob \/ SentFunc
  <2>1. UNCHANGED Streams
    BY <1>4 DEF RecvDoneJob, SentFunc, Streams
  <2>2. pcb' = pcb \/ (pcb = "open" /\ pcb' # "none")
    BY <1>0, <1>4 DEF RecvDoneJob, SentFunc, SendOut, AbortClient, TcpAbort,
       FreeClient, TcpClose
  <2> QED
    BY <2>1, <2>2
<1>5. CASE Sends
  BY <1>0, <1>5 DEF Sends, SendMoves, NothingMoved
<1>6. CASE Segments
  BY <1>6 DEF Segments, Segment
<1>7. CASE ServerActs
  BY <1>0, <1>7 DEF ServerActs, ServerSends, ServerCloses, Streams
<1> QED
  BY NextIs, <1>1, <1>2, <1>3, <1>4, <1>5, <1>6, <1>7

LEMMA UpPipeStep ==
    ASSUME IInv, IInv', EndInv, EndInv', Next PROVE [UpPipe!Next]_(UpPipe!vars)
<1> USE DEF conn, struct, io, app, server
<1> USE DEF UpPipe!Next, UpPipe!vars
<1>0. /\ appSent \in Nat /\ srvGot \in Seq(Nat) /\ Len(srvGot) \in Nat
      /\ Len(srvGot') <= appSent' /\ srvGot' = UpPipe!Prefix(Len(srvGot'))
      /\ Len(srvGot') \in Nat
  BY InOrderPrefix, LenProperties DEF IInv, TypeOK, UpInv, EndInv, NothingInvented
<1>1. CASE pcb = "none" /\ pcb' # "none" /\ UNCHANGED Streams
  BY <1>1 DEF Streams, UpPipe!Open
<1>2. CASE /\ pcb # "none" /\ pcb' = "none"
           /\ appSent' = 0 /\ srvGot' = <<>> /\ srvSent' = 0 /\ appGot' = <<>>
  BY <1>2 DEF UpPipe!Renew
<1>3. CASE (pcb # "none" <=> pcb' # "none") /\ UNCHANGED Streams
  BY <1>3 DEF Streams
<1>4. CASE pcb # "none" /\ pcb' = pcb /\ Sends
  <2> PICK n \in 1 .. sendLen : srvGot' = srvGot \o FirstOf(buf, n)
    BY <1>4 DEF Sends, SendMoves
  <2>1. appSent' = appSent
    BY <1>4 DEF Sends, SendMoves
  <2>2. Len(srvGot') >= Len(srvGot) + 1
    <3> DEFINE f == FirstOf(buf, n)
    <3>1. buf \in Seq(Nat) /\ sendLen \in Nat /\ sendLen <= Len(buf) /\ Len(buf) \in Nat
      BY LenProperties DEF IInv, TypeOK, JobsInv
    <3>2. f \in Seq(Nat) /\ Len(f) = n
      BY <3>1 DEF FirstOf
    <3> HIDE DEF f
    <3>3. Len(srvGot \o f) = Len(srvGot) + Len(f)
      BY <1>0, <3>2, ConcatProperties
    <3>4. srvGot' = srvGot \o f
      BY DEF f
    <3> QED
      BY <1>0, <3>2, <3>3, <3>4
  <2>3. Len(srvGot') \in Len(srvGot) + 1 .. appSent
    BY <1>0, <2>1, <2>2
  <2> QED
    BY <1>0, <1>4, <2>1, <2>3 DEF UpPipe!Arrive
<1>5. CASE pcb # "none" /\ pcb' = pcb /\ Segments
  <2> PICK acked \in 0 .. Len(flight), data \in 0 .. Lesser(rcv_wnd, MaxUp - appSent),
           fin \in BOOLEAN : Segment(acked, data, fin)
    BY <1>5 DEF Segments
  <2>1. srvGot' = srvGot /\ appSent' = appSent + data /\ data \in Nat
    BY DEF Segment
  <2>2. CASE data = 0
    BY <1>0, <1>5, <2>1, <2>2
  <2>3. CASE data # 0
    <3>1. appSent' \in Nat /\ appSent' > appSent
      BY <1>0, <2>1, <2>3
    <3> QED
      BY <1>5, <2>1, <3>1 DEF UpPipe!Give
  <2> QED
    BY <2>2, <2>3
<1>6. CASE pcb # "none" /\ pcb' = pcb /\ ServerSends
  BY <1>6 DEF ServerSends
<1> QED
  BY PipeMoves, <1>1, <1>2, <1>3, <1>4, <1>5, <1>6

LEMMA DownPipeStep ==
    ASSUME IInv, IInv', EndInv, EndInv', Next PROVE [DownPipe!Next]_(DownPipe!vars)
<1> USE DEF conn, struct, io, app, server
<1> USE DEF DownPipe!Next, DownPipe!vars
<1>0. /\ srvSent \in Nat /\ appGot \in Seq(Nat) /\ Len(appGot) \in Nat
      /\ srvRead' \in Nat /\ srvSent' \in Nat
      /\ Len(appGot') <= srvRead' /\ srvRead' <= srvSent'
      /\ appGot' = DownPipe!Prefix(Len(appGot')) /\ Len(appGot') \in Nat
  BY InOrderPrefix, LenProperties DEF IInv, TypeOK, DownInv, EndInv, NothingInvented
<1>1. CASE pcb = "none" /\ pcb' # "none" /\ UNCHANGED Streams
  BY <1>1 DEF Streams, DownPipe!Open
<1>2. CASE /\ pcb # "none" /\ pcb' = "none"
           /\ appSent' = 0 /\ srvGot' = <<>> /\ srvSent' = 0 /\ appGot' = <<>>
  BY <1>2 DEF DownPipe!Renew
<1>3. CASE (pcb # "none" <=> pcb' # "none") /\ UNCHANGED Streams
  BY <1>3 DEF Streams
<1>4. CASE pcb # "none" /\ pcb' = pcb /\ Sends
  BY <1>4 DEF Sends, SendMoves
<1>5. CASE pcb # "none" /\ pcb' = pcb /\ Segments
  <2> PICK acked \in 0 .. Len(flight), data \in 0 .. Lesser(rcv_wnd, MaxUp - appSent),
           fin \in BOOLEAN : Segment(acked, data, fin)
    BY <1>5 DEF Segments
  <2>1. Len(appGot') = Len(appGot) + acked /\ srvSent' = srvSent /\ acked \in Nat
    <3>1. data \in Nat /\ acked \in Nat
      OBVIOUS
    <3>2. srvSent' = srvSent
      BY DEF Segment
    <3>3. Len(appGot') = Len(appGot) + acked
      BY <3>1, SegmentMoves
    <3> QED
      BY <3>1, <3>2, <3>3
  <2>2. CASE acked = 0
    <3>1. appGot' = appGot
      <4>1. appGot \in Seq(Nat) /\ InOrder(appGot) /\ Len(appGot') = Len(appGot)
        BY <1>0, <2>1, <2>2 DEF IInv, DownInv
      <4> QED
        BY <1>0, <4>1, InOrderPrefix
    <3> QED
      BY <1>5, <2>1, <3>1
  <2>3. CASE acked # 0
    <3>1. Len(appGot') \in Len(appGot) + 1 .. srvSent
      BY <1>0, <2>1, <2>3
    <3> QED
      BY <1>0, <1>5, <2>1, <3>1 DEF DownPipe!Arrive
  <2> QED
    BY <2>2, <2>3
<1>6. CASE pcb # "none" /\ pcb' = pcb /\ ServerSends
  <2>1. srvSent' \in Nat /\ srvSent' > srvSent /\ appGot' = appGot
    BY <1>0, <1>6 DEF ServerSends
  <2> QED
    BY <1>6, <2>1 DEF DownPipe!Give
<1> QED
  BY PipeMoves, <1>1, <1>2, <1>3, <1>4, <1>5, <1>6

\* Through the pcb, the two buffers of struct tcp_client and BSocksClient,
\* each direction is a pipe of bytes, from tcp_accept to the last pbuf.
THEOREM ImplementsBytePipes == Spec => ImplementsPipes
<1>1. Init => UpPipe!Init /\ DownPipe!Init
  BY DEF Init, UpPipe!Init, DownPipe!Init
<1>2. IInv /\ IInv' /\ EndInv /\ EndInv' /\ [Next]_vars
        => [UpPipe!Next]_(UpPipe!vars) /\ [DownPipe!Next]_(DownPipe!vars)
  <2> SUFFICES ASSUME IInv, IInv', EndInv, EndInv', UNCHANGED vars
               PROVE  UNCHANGED UpPipe!vars /\ UNCHANGED DownPipe!vars
    BY UpPipeStep, DownPipeStep
  <2> QED
    BY DEF vars, conn, app, server, UpPipe!vars, DownPipe!vars
<1> QED
  BY <1>1, <1>2, Inductive, EndAlways, PTL
     DEF Spec, ImplementsPipes, UpPipe!Spec, DownPipe!Spec
=============================================================================
