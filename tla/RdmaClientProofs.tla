-------------------------- MODULE RdmaClientProofs --------------------------
(***************************************************************************)
(* The invariant of RdmaClientInv is inductive; RdmaClient's safety        *)
(* properties and its refinement of RemoteMemory follow from it, for any   *)
(* sets of offsets and contents and any number of calls.                   *)
(***************************************************************************)
EXTENDS RdmaClientInv, TLAPS

USE OffsetsAssumption, DataAssumption, BoundAssumption

-----------------------------------------------------------------------------
(***************************************************************************)
(* Queues in general.                                                      *)
(***************************************************************************)

\* What Append and Tail do to the kinds of a queue.
LEMMA HasAppend ==
    ASSUME NEW S, NEW q \in Seq(S), NEW e \in S, NEW op
    PROVE  Has(Append(q, e), op) <=> (Has(q, op) \/ e.op = op)
BY DEF Has

\* See above.
LEMMA HasTail ==
    ASSUME NEW S, NEW q \in Seq(S), q # <<>>, NEW op
    PROVE  Has(q, op) <=> (Has(Tail(q), op) \/ Head(q).op = op)
<1>1. Len(q) \in Nat /\ Len(q) >= 1 /\ Len(Tail(q)) = Len(q) - 1 /\ Head(q) = q[1]
      /\ \A k \in 1..(Len(q) - 1) : Tail(q)[k] = q[k + 1]
  OBVIOUS
<1>2. ASSUME NEW k \in 1..Len(q), q[k].op = op, k # 1 PROVE Has(Tail(q), op)
  <2>1. k - 1 \in 1..Len(Tail(q)) /\ Tail(q)[k - 1] = q[k]
    BY <1>1, <1>2
  <2>. QED BY <1>2, <2>1 DEF Has
<1>3. ASSUME NEW k \in 1..Len(Tail(q)), Tail(q)[k].op = op PROVE Has(q, op)
  <2>1. k + 1 \in 1..Len(q) /\ Tail(q)[k] = q[k + 1]
    BY <1>1
  <2>. QED BY <1>3, <2>1 DEF Has
<1>4. Head(q).op = op => Has(q, op)
  BY <1>1 DEF Has
<1>. QED BY <1>1, <1>2, <1>3, <1>4 DEF Has

\* The same for one completion.
LEMMA HoldsAppend ==
    ASSUME NEW S, NEW q \in Seq(S), NEW e \in S, NEW c
    PROVE  Holds(Append(q, e), c) <=> (Holds(q, c) \/ e = c)
BY DEF Holds

\* See above.
LEMMA HoldsTail ==
    ASSUME NEW S, NEW q \in Seq(S), q # <<>>, NEW c
    PROVE  Holds(q, c) <=> (Holds(Tail(q), c) \/ Head(q) = c)
<1>1. Len(q) \in Nat /\ Len(q) >= 1 /\ Len(Tail(q)) = Len(q) - 1 /\ Head(q) = q[1]
      /\ \A k \in 1..(Len(q) - 1) : Tail(q)[k] = q[k + 1]
  OBVIOUS
<1>2. ASSUME NEW k \in 1..Len(q), q[k] = c, k # 1 PROVE Holds(Tail(q), c)
  <2>1. k - 1 \in 1..Len(Tail(q)) /\ Tail(q)[k - 1] = q[k]
    BY <1>1, <1>2
  <2>. QED BY <1>2, <2>1 DEF Holds
<1>3. ASSUME NEW k \in 1..Len(Tail(q)), Tail(q)[k] = c PROVE Holds(q, c)
  <2>1. k + 1 \in 1..Len(q) /\ Tail(q)[k] = q[k + 1]
    BY <1>1
  <2>. QED BY <1>3, <2>1 DEF Holds
<1>4. Head(q) = c => Holds(q, c)
  BY <1>1 DEF Holds
<1>. QED BY <1>1, <1>2, <1>3, <1>4 DEF Holds

\* A kind that is new stays the only one of its kind.
LEMMA OnceAppend ==
    ASSUME NEW S, NEW q \in Seq(S), NEW e \in S, NEW op, Once(q, op),
           ~Has(q, op) \/ e.op # op
    PROVE  Once(Append(q, e), op)
BY DEF Once, Has

\* The only one of its kind is gone once it is taken out.
LEMMA OnceTail ==
    ASSUME NEW S, NEW q \in Seq(S), q # <<>>, NEW op, Once(q, op)
    PROVE  Once(Tail(q), op) /\ (Head(q).op = op => ~Has(Tail(q), op))
<1>1. Len(q) \in Nat /\ Len(q) >= 1 /\ Len(Tail(q)) = Len(q) - 1 /\ Head(q) = q[1]
      /\ \A k \in 1..(Len(q) - 1) : Tail(q)[k] = q[k + 1]
  OBVIOUS
<1>. QED BY <1>1 DEF Once, Has

\* A kind that is new is the last.
LEMMA LastAppend ==
    ASSUME NEW S, NEW q \in Seq(S), NEW e \in S, NEW op, ~Has(q, op)
    PROVE  OnlyLast(Append(q, e), op)
BY DEF OnlyLast, Has

\* The last request leaves an empty queue.
LEMMA LastTail ==
    ASSUME NEW S, NEW q \in Seq(S), q # <<>>, NEW op, OnlyLast(q, op)
    PROVE  /\ OnlyLast(Tail(q), op)
           /\ Head(q).op = op => Tail(q) = <<>>
<1>. DEFINE t == Tail(q)
<1>1. /\ Len(q) \in Nat /\ Len(q) >= 1 /\ Head(q) = q[1]
      /\ t \in Seq(S) /\ Len(t) = Len(q) - 1
      /\ \A k \in 1..(Len(q) - 1) : t[k] = q[k + 1]
  OBVIOUS
<1>. HIDE DEF t
<1>2. ASSUME NEW k \in 1..Len(t), t[k].op = op PROVE k = Len(t)
  <2>1. k + 1 \in 1..Len(q) /\ q[k + 1].op = op
    BY <1>1, <1>2
  <2>2. k + 1 = Len(q)
    BY <2>1 DEF OnlyLast
  <2>. QED BY <1>1, <2>2
<1>3. ASSUME Head(q).op = op PROVE t = <<>>
  <2>1. 1 \in 1..Len(q) /\ q[1].op = op
    BY <1>1, <1>3
  <2>2. 1 = Len(q)
    BY <2>1 DEF OnlyLast
  <2>3. t \in Seq(S) /\ Len(t) = 0
    BY <1>1, <2>2
  <2>. QED BY <2>3
<1>4. OnlyLast(t, op)
  BY <1>2 DEF OnlyLast
<1>. QED BY <1>3, <1>4 DEF t

\* An empty queue has no entries.
LEMMA EmptyFacts ==
    /\ \A op : ~Has(<<>>, op) /\ Once(<<>>, op) /\ OnlyLast(<<>>, op)
    /\ \A c : ~Holds(<<>>, c)
BY DEF Has, Once, OnlyLast, Holds

\* An entry makes its kind present.
LEMMA HoldsHas ==
    ASSUME NEW q, NEW c, Holds(q, c)
    PROVE  Has(q, c.op)
BY DEF Has, Holds

\* See above.
LEMMA HasAt ==
    ASSUME NEW q, NEW k \in 1..Len(q)
    PROVE  Has(q, q[k].op)
BY DEF Has

-----------------------------------------------------------------------------
(***************************************************************************)
(* What the steps do to the queues, position by position.                  *)
(***************************************************************************)

\* ibv_post_send puts its request behind those that are there.
LEMMA PostFacts ==
    ASSUME TypeOK, NEW r \in Requests, PostSend(r)
    PROVE  /\ sq' \in Seq(Requests) /\ sq' # <<>>
           /\ Len(sq) \in Nat /\ Len(sq') = Len(sq) + 1
           /\ \A k \in 1..Len(sq) : sq'[k] = sq[k]
           /\ sq'[Len(sq) + 1] = r
           /\ executed' = executed
<1>1. sq \in Seq(Requests)  BY DEF TypeOK
<1>2. sq' = Append(sq, r) /\ executed' = executed  BY DEF PostSend
<1>. QED BY <1>1, <1>2

\* A completion goes to the end of its queue and signals an armed channel.
LEMMA CompleteFacts ==
    ASSUME TypeOK, NEW c \in Completions, Complete(c)
    PROVE  /\ cq' \in Seq(Completions)
           /\ Len(cq) \in Nat /\ Len(cq') = Len(cq) + 1
           /\ \A k \in 1..Len(cq) : cq'[k] = cq[k]
           /\ cq'[Len(cq) + 1] = c
           /\ armed' = FALSE
           /\ cqEvents \in Nat /\ cqEvents' \in Nat
           /\ armed \/ cqEvents > 0 => cqEvents' > 0
<1>1. cq \in Seq(Completions) /\ armed \in BOOLEAN /\ cqEvents \in Nat
  BY DEF TypeOK
<1>2. cq' = Append(cq, c)  BY DEF Complete
<1>3. armed' = FALSE /\ cqEvents' = IF armed THEN cqEvents + 1 ELSE cqEvents
  BY DEF Complete
<1>4. /\ cq' \in Seq(Completions)
      /\ Len(cq) \in Nat /\ Len(cq') = Len(cq) + 1
      /\ \A k \in 1..Len(cq) : cq'[k] = cq[k]
      /\ cq'[Len(cq) + 1] = c
  BY <1>1, <1>2
<1>. QED BY <1>1, <1>3, <1>4

\* A finished request leaves the head of the send queue and its completion goes
\* to the end of the completion queue.
LEMMA CompletedFacts ==
    ASSUME TypeOK, HcaComplete
    PROVE  /\ sq # <<>> /\ sq' = Tail(sq)
           /\ executed \in 1..Len(sq) /\ executed' = executed - 1
           /\ sq' \in Seq(Requests) /\ Len(sq) \in Nat /\ Len(sq) >= 1
           /\ Len(sq') = Len(sq) - 1
           /\ \A k \in 1..(Len(sq) - 1) : sq'[k] = sq[k + 1]
           /\ sq[1].op \in SendOps
           /\ cq' \in Seq(Completions)
           /\ Len(cq) \in Nat /\ Len(cq') = Len(cq) + 1
           /\ \A k \in 1..Len(cq) : cq'[k] = cq[k]
           /\ cq'[Len(cq) + 1].op = sq[1].op /\ cq'[Len(cq) + 1].ok = TRUE
           /\ armed' = FALSE /\ cqEvents' \in Nat
           /\ armed \/ cqEvents > 0 => cqEvents' > 0
<1>1. sq \in Seq(Requests) /\ sq # <<>>
  <2>1. executed \in 0..Len(sq) /\ sq \in Seq(Requests) /\ executed > 0
    BY DEF HcaComplete, TypeOK
  <2>. QED BY <2>1
<1>2. /\ Len(sq) \in Nat /\ Len(sq) >= 1 /\ Head(sq) = sq[1] /\ sq[1] \in Requests
      /\ Tail(sq) \in Seq(Requests) /\ Len(Tail(sq)) = Len(sq) - 1
      /\ \A k \in 1..(Len(sq) - 1) : Tail(sq)[k] = sq[k + 1]
  BY <1>1
<1>3. sq[1].op \in SendOps  BY <1>2 DEF Requests
<1>. DEFINE c == Completion(sq[1].op, TRUE)
<1>4. c \in Completions /\ c.op = sq[1].op /\ c.ok = TRUE
  BY <1>3 DEF Completion, Completions
<1>5. Complete(c) /\ sq' = Tail(sq)  BY <1>2 DEF HcaComplete
<1>. HIDE DEF c
<1>6. executed \in 1..Len(sq) /\ executed' = executed - 1
  BY DEF HcaComplete, TypeOK
<1>. QED BY <1>1, <1>2, <1>3, <1>4, <1>5, <1>6, CompleteFacts

\* So does one that failed.
LEMMA FailedFacts ==
    ASSUME TypeOK, HcaFail
    PROVE  /\ sq # <<>> /\ sq' = Tail(sq)
           /\ executed \in 0..Len(sq)
           /\ executed' = IF executed > 0 THEN executed - 1 ELSE 0
           /\ sq' \in Seq(Requests) /\ Len(sq) \in Nat /\ Len(sq) >= 1
           /\ Len(sq') = Len(sq) - 1
           /\ \A k \in 1..(Len(sq) - 1) : sq'[k] = sq[k + 1]
           /\ sq[1].op \in SendOps
           /\ cq' \in Seq(Completions)
           /\ Len(cq) \in Nat /\ Len(cq') = Len(cq) + 1
           /\ \A k \in 1..Len(cq) : cq'[k] = cq[k]
           /\ cq'[Len(cq) + 1].op = sq[1].op /\ cq'[Len(cq) + 1].ok = FALSE
           /\ armed' = FALSE /\ cqEvents' \in Nat
           /\ armed \/ cqEvents > 0 => cqEvents' > 0
<1>1. sq \in Seq(Requests) /\ sq # <<>>
  BY DEF HcaFail, TypeOK
<1>2. /\ Len(sq) \in Nat /\ Len(sq) >= 1 /\ Head(sq) = sq[1] /\ sq[1] \in Requests
      /\ Tail(sq) \in Seq(Requests) /\ Len(Tail(sq)) = Len(sq) - 1
      /\ \A k \in 1..(Len(sq) - 1) : Tail(sq)[k] = sq[k + 1]
  BY <1>1
<1>3. sq[1].op \in SendOps  BY <1>2 DEF Requests
<1>. DEFINE c == Completion(sq[1].op, FALSE)
<1>4. c \in Completions /\ c.op = sq[1].op /\ c.ok = FALSE
  BY <1>3 DEF Completion, Completions
<1>5. Complete(c) /\ sq' = Tail(sq)  BY <1>2 DEF HcaFail
<1>. HIDE DEF c
<1>6. executed \in 0..Len(sq)
        /\ executed' = IF executed > 0 THEN executed - 1 ELSE 0
  BY DEF HcaFail, TypeOK
<1>. QED BY <1>1, <1>2, <1>3, <1>4, <1>5, <1>6, CompleteFacts

\* The completion of a receive goes there too.
LEMMA ReceiveFacts ==
    ASSUME TypeOK, HcaReceive
    PROVE  /\ cq' \in Seq(Completions)
           /\ Len(cq) \in Nat /\ Len(cq') = Len(cq) + 1
           /\ \A k \in 1..Len(cq) : cq'[k] = cq[k]
           /\ cq'[Len(cq) + 1].op = "RECV"
           /\ armed' = FALSE /\ cqEvents' \in Nat
           /\ armed \/ cqEvents > 0 => cqEvents' > 0
<1>. DEFINE c == Completion("RECV", TRUE)
<1>1. c \in Completions /\ c.op = "RECV"  BY DEF Completion, Completions
<1>2. Complete(c)  BY DEF HcaReceive
<1>. HIDE DEF c
<1>. QED BY <1>1, <1>2, CompleteFacts

\* ibv_poll_cq takes the oldest completion out.
LEMMA PollFacts ==
    ASSUME TypeOK, cq # <<>>, PollerPoll
    PROVE  /\ wc' = cq[1] /\ wc' \in Completions
           /\ cq' \in Seq(Completions)
           /\ Len(cq) \in Nat /\ Len(cq) >= 1 /\ Len(cq') = Len(cq) - 1
           /\ \A k \in 1..(Len(cq) - 1) : cq'[k] = cq[k + 1]
           /\ poller = "poll" /\ poller' = "on_completion"
<1>1. cq \in Seq(Completions)  BY DEF TypeOK
<1>2. wc' = Head(cq) /\ cq' = Tail(cq)  BY DEF PollerPoll
<1>3. poller = "poll" /\ poller' = "on_completion"  BY DEF PollerPoll
<1>. QED BY <1>1, <1>2, <1>3

\* A completion is what its two fields say.
LEMMA CompletionIs ==
    ASSUME NEW c \in Completions, NEW op
    PROVE  /\ c = Completion(op, TRUE) <=> (c.op = op /\ c.ok)
           /\ c = Completion(op, FALSE) <=> (c.op = op /\ ~c.ok)
BY DEF Completion, Completions

\* The kinds of request in the queue after ibv_post_send.
LEMMA PostKinds ==
    ASSUME TypeOK, NEW r \in Requests, PostSend(r)
    PROVE  /\ \A op : Has(sq, op)' <=> (Has(sq, op) \/ r.op = op)
           /\ \A op : Once(sq, op) /\ (~Has(sq, op) \/ r.op # op) => Once(sq, op)'
           /\ \A op : ~Has(sq, op) => OnlyLast(sq, op)'
<1>1. sq \in Seq(Requests)  BY DEF TypeOK
<1>2. sq' = Append(sq, r)  BY DEF PostSend
<1>. QED BY <1>1, <1>2, HasAppend, OnceAppend, LastAppend

\* The kinds of completion in the queue after a new one.
LEMMA CompleteKinds ==
    ASSUME TypeOK, NEW c \in Completions, Complete(c)
    PROVE  /\ \A op : Has(cq, op)' <=> (Has(cq, op) \/ c.op = op)
           /\ \A op : Once(cq, op) /\ (~Has(cq, op) \/ c.op # op) => Once(cq, op)'
           /\ \A d : Holds(cq, d)' <=> (Holds(cq, d) \/ c = d)
<1>1. cq \in Seq(Completions)  BY DEF TypeOK
<1>2. cq' = Append(cq, c)  BY DEF Complete
<1>. QED BY <1>1, <1>2, HasAppend, OnceAppend, HoldsAppend

\* The kinds of request left when the oldest is finished.
LEMMA TailKinds ==
    ASSUME TypeOK, sq # <<>>, sq' = Tail(sq)
    PROVE  /\ \A op : Has(sq, op) <=> (Has(sq, op)' \/ sq[1].op = op)
           /\ \A op : Once(sq, op) => Once(sq, op)' /\ (sq[1].op = op =>
                ~Has(sq, op)')
           /\ \A op : OnlyLast(sq, op) => /\ OnlyLast(sq, op)'
                                          /\ sq[1].op = op => sq' = <<>>
<1>1. sq \in Seq(Requests)  BY DEF TypeOK
<1>2. Head(sq) = sq[1]  BY <1>1
<1>. QED BY <1>1, <1>2, HasTail, OnceTail, LastTail

\* Both, for a request that is finished: it moves from one queue to the other.
LEMMA FinishKinds ==
    ASSUME TypeOK, NEW ok \in BOOLEAN, sq # <<>>, sq' = Tail(sq),
           Complete(Completion(Head(sq).op, ok))
    PROVE  /\ \A op : Has(cq, op)' <=> (Has(cq, op) \/ sq[1].op = op)
           /\ \A op : Once(cq, op) /\ (~Has(cq, op) \/ sq[1].op # op) =>
                Once(cq, op)'
           /\ \A d : Holds(cq, d)' <=>
                (Holds(cq, d) \/ Completion(sq[1].op, ok) = d)
<1>1. sq \in Seq(Requests)  BY DEF TypeOK
<1>2. Head(sq) = sq[1] /\ sq[1] \in Requests  BY <1>1
<1>3. sq[1].op \in SendOps  BY <1>2 DEF Requests
<1>. DEFINE c == Completion(sq[1].op, ok)
<1>4. c \in Completions /\ c.op = sq[1].op
  BY <1>3 DEF Completion, Completions
<1>5. Complete(c)  BY <1>2
<1>. HIDE DEF c
<1>6. /\ \A op : Has(cq, op)' <=> (Has(cq, op) \/ c.op = op)
      /\ \A op : Once(cq, op) /\ (~Has(cq, op) \/ c.op # op) => Once(cq, op)'
      /\ \A d : Holds(cq, d)' <=> (Holds(cq, d) \/ c = d)
  BY <1>4, <1>5, CompleteKinds
<1>. QED BY <1>4, <1>6 DEF c

\* The kinds of completion left when poll_cq takes the oldest.
LEMMA PollKinds ==
    ASSUME TypeOK, cq # <<>>, PollerPoll
    PROVE  /\ \A op : Has(cq, op) <=> (Has(cq, op)' \/ wc'.op = op)
           /\ \A op : Once(cq, op) => Once(cq, op)' /\ (wc'.op = op =>
                ~Has(cq, op)')
           /\ \A d : Holds(cq, d) <=> (Holds(cq, d)' \/ wc' = d)
<1>1. cq \in Seq(Completions)  BY DEF TypeOK
<1>2. wc' = Head(cq) /\ cq' = Tail(cq)  BY DEF PollerPoll
<1>. QED BY <1>1, <1>2, HasTail, OnceTail, HoldsTail

\* The completion of a receive is no send request's.
LEMMA ReceiveKinds ==
    ASSUME TypeOK, HcaReceive
    PROVE  /\ \A op \in SendOps : Has(cq, op)' <=> Has(cq, op)
           /\ \A op \in SendOps : Once(cq, op) => Once(cq, op)'
           /\ \A d : d.op \in SendOps => (Holds(cq, d)' <=> Holds(cq, d))
<1>. DEFINE c == Completion("RECV", TRUE)
<1>1. c \in Completions /\ c.op = "RECV"  BY DEF Completion, Completions
<1>2. Complete(c)  BY DEF HcaReceive
<1>. HIDE DEF c
<1>3. /\ \A op : Has(cq, op)' <=> (Has(cq, op) \/ c.op = op)
      /\ \A op : Once(cq, op) /\ (~Has(cq, op) \/ c.op # op) => Once(cq, op)'
      /\ \A d : Holds(cq, d)' <=> (Holds(cq, d) \/ c = d)
  BY <1>1, <1>2, CompleteKinds
<1>. QED BY <1>1, <1>3 DEF SendOps

\* The only event in the queue is its first.
LEMMA EventFacts ==
    ASSUME TypeOK, SetupInv, cmEvents # <<>>
    PROVE  /\ Head(cmEvents) = cmEvents[1] /\ cmEvents[1] \in CmEventTypes
           /\ Tail(cmEvents) = <<>>
<1>1. cmEvents \in Seq(CmEventTypes)  BY DEF TypeOK
<1>2. Len(cmEvents) <= 1  BY DEF SetupInv
<1>. QED BY <1>1, <1>2

-----------------------------------------------------------------------------
(***************************************************************************)
(* Types.                                                                  *)
(***************************************************************************)

LEMMA InitTypeOK == Init => TypeOK
<1> SUFFICES ASSUME Init PROVE TypeOK
  OBVIOUS
<1>1. arg \in [off : Offsets \cup {NoOffset}, data : PageContents]
  BY DEF Init, PageContents
<1>2. /\ sq \in Seq(Requests) /\ executed \in 0..Len(sq)
      /\ cq \in Seq(Completions)
      /\ cmEvents \in Seq(CmEventTypes) /\ wire \in Seq(MessageTypes)
  BY DEF Init
<1>3. remote \in [Offsets -> PageContents]
  BY DEF Init, PageContents
<1>. QED BY <1>1, <1>2, <1>3 DEF Init, TypeOK, PageContents

LEMMA TypeOKStep == IInv /\ [Next]_vars => TypeOK'
<1> SUFFICES ASSUME IInv, [Next]_vars PROVE TypeOK'
  OBVIOUS
<1> TypeOK /\ ReadInv /\ WriteInv
  BY DEF IInv
<1> USE DEF callVars, semVars, connVars, regions, sqVars, cqVars, srvVars, world
<1>1. CASE Call
  <2>1. ASSUME NEW o \in Offsets, NEW d \in Data, CallWrite(o, d) PROVE TypeOK'
    BY <2>1 DEF CallWrite, End, TypeOK, PageContents
  <2>2. ASSUME NEW o \in Offsets, CallRead(o) PROVE TypeOK'
    <3>1. arg' \in [off : Offsets \cup {NoOffset}, data : PageContents]
      BY <2>2 DEF CallRead, TypeOK
    <3>2. CASE conn_context = "NULL"
      BY <2>2, <3>1, <3>2 DEF CallRead, End, TypeOK
    <3>3. CASE conn_context # "NULL"
      <4>1. Request("RDMA_READ", o) \in Requests
        BY DEF Request, Requests, SendOps
      <4>2. sq' \in Seq(Requests) /\ executed' \in 0..Len(sq')
        BY <2>2, <3>3, <4>1, PostFacts DEF CallRead, TypeOK
      <4>. QED BY <2>2, <3>1, <3>3, <4>2 DEF CallRead, TypeOK
    <3>. QED BY <3>2, <3>3
  <2>3. CASE CallDone
    BY <2>3 DEF CallDone, End, TypeOK
  <2>. QED BY <1>1, <2>1, <2>2, <2>3 DEF Call
<1>2. CASE MainStep
  <2>1. CASE RdmaInit  BY <2>1 DEF RdmaInit, TypeOK, CmEventTypes
  <2>2. CASE RdmaInitReturn  BY <2>2 DEF RdmaInitReturn, TypeOK
  <2>3. CASE WriteWait  BY <2>3 DEF WriteWait, TypeOK
  <2>4. CASE WriteCopy
    <3>1. rdma_remote_region' \in PageContents
      BY <2>4 DEF WriteCopy, TypeOK
    <3>. QED BY <2>4, <3>1 DEF WriteCopy, TypeOK
  <2>5. CASE WritePost
    <3>1. Request("RDMA_WRITE", arg.off) \in Requests
      BY DEF Request, Requests, SendOps, TypeOK
    <3>2. sq' \in Seq(Requests) /\ executed' \in 0..Len(sq')
      BY <2>5, <3>1, PostFacts DEF WritePost, TypeOK
    <3>. QED BY <2>5, <3>2 DEF WritePost, TypeOK
  <2>6. CASE ReadWait  BY <2>6 DEF ReadWait, TypeOK
  <2>7. CASE ReadCopy  BY <2>7 DEF ReadCopy, TypeOK
  <2>8. CASE DonePost
    <3>1. Request("SEND", NoOffset) \in Requests
      BY DEF Request, Requests, SendOps
    <3>2. sq' \in Seq(Requests) /\ executed' \in 0..Len(sq')
      BY <2>8, <3>1, PostFacts DEF DonePost, TypeOK
    <3>. QED BY <2>8, <3>2 DEF DonePost, TypeOK
  <2>9. CASE DoneReturn  BY <2>9 DEF DoneReturn, TypeOK
  <2>10. CASE Exit  BY <2>10 DEF Exit, End, TypeOK
  <2>. QED BY <1>2, <2>1, <2>2, <2>3, <2>4, <2>5, <2>6, <2>7, <2>8, <2>9, <2>10
           DEF MainStep
<1>3. CASE CmStep
  <2>1. CASE CmResolveAddr  BY <2>1 DEF CmResolveAddr, TypeOK
  <2>2. CASE CmGetEvent
    <3>1. cmEvents \in Seq(CmEventTypes) /\ cmEvents # <<>>
      BY <2>2 DEF CmGetEvent, TypeOK
    <3>2. cm' = Head(cmEvents) /\ cmEvents' = Tail(cmEvents)
      BY <2>2 DEF CmGetEvent
    <3>3. cm' \in CmEventTypes /\ cmEvents' \in Seq(CmEventTypes)
      BY <3>1, <3>2
    <3>. QED BY <2>2, <3>3 DEF CmGetEvent, TypeOK
  <2>3. CASE OnAddrResolved
    <3>1. armed' \in BOOLEAN /\ connected' \in BOOLEAN
      BY <2>3 DEF OnAddrResolved
    <3>2. sq' = sq /\ executed' = executed
      BY <2>3 DEF OnAddrResolved
    <3>. QED BY <2>3, <3>1, <3>2 DEF OnAddrResolved, TypeOK
  <2>4. CASE OnRouteResolved  BY <2>4 DEF OnRouteResolved, TypeOK
  <2>5. CASE OnConnect  BY <2>5 DEF OnConnect, TypeOK
  <2>6. CASE PublishContext  BY <2>6 DEF PublishContext, TypeOK
  <2>7. CASE OnDisconnect  BY <2>7 DEF OnDisconnect, TypeOK
  <2>8. CASE OnUnknownEvent  BY <2>8 DEF OnUnknownEvent, End, TypeOK
  <2>. QED BY <1>3, <2>1, <2>2, <2>3, <2>4, <2>5, <2>6, <2>7, <2>8 DEF CmStep
<1>4. CASE PollerStep
  <2>1. CASE PollerGetEvent  BY <2>1 DEF PollerGetEvent, TypeOK
  <2>2. CASE PollerReqNotify  BY <2>2 DEF PollerReqNotify, TypeOK
  <2>3. CASE PollerPoll
    <3>1. CASE cq = <<>>
      BY <2>3, <3>1 DEF PollerPoll, TypeOK
    <3>2. CASE cq # <<>>
      <4>1. wc' \in Completions /\ cq' \in Seq(Completions)
        BY <2>3, <3>2, PollFacts
      <4>. QED BY <2>3, <3>2, <4>1 DEF PollerPoll, TypeOK
    <3>. QED BY <3>1, <3>2
  <2>4. CASE OnError \/ OnFreedConnection
    BY <2>4 DEF OnError, OnFreedConnection, End, TypeOK
  <2>5. CASE OnReceive  BY <2>5 DEF OnReceive, TypeOK
  <2>6. CASE OnSendCompletion  BY <2>6 DEF OnSendCompletion, TypeOK
  <2>7. CASE CheckDisconnect
    <3>1. cmEvents \in Seq(CmEventTypes) /\ "DISCONNECTED" \in CmEventTypes
      BY DEF TypeOK, CmEventTypes
    <3>2. cmEvents' = cmEvents \/ cmEvents' = Append(cmEvents, "DISCONNECTED")
      BY <2>7 DEF CheckDisconnect
    <3>3. cmEvents' \in Seq(CmEventTypes)
      BY <3>1, <3>2
    <3>. QED BY <2>7, <3>3 DEF CheckDisconnect, End, TypeOK
  <2>. QED BY <1>4, <2>1, <2>2, <2>3, <2>4, <2>5, <2>6, <2>7 DEF PollerStep
<1>5. CASE CmAnswer
  <2>1. PICK e \in CmEventTypes : cmEvents' = Append(cmEvents, e)
    BY <1>5 DEF CmAnswer, Answer, CmEventTypes
  <2>2. cmEvents' \in Seq(CmEventTypes)
    BY <2>1 DEF TypeOK
  <2>. QED BY <1>5, <2>2 DEF CmAnswer, TypeOK
<1>6. CASE HcaExecute
  <2>1. executed + 1 \in 1..Len(sq)
    BY <1>6 DEF HcaExecute, TypeOK
  <2>2. sq[executed + 1].op = "RDMA_READ" => sq[executed + 1].off \in Offsets
    <3> SUFFICES ASSUME sq[executed + 1].op = "RDMA_READ"
                 PROVE  sq[executed + 1].off \in Offsets
      OBVIOUS
    <3>1. Has(sq, "RDMA_READ")
      BY <2>1, HasAt
    <3>2. executed + 1 = Len(sq)
      BY <2>1 DEF ReadInv, OnlyLast
    <3>3. main = "read_wait"
      BY <3>1 DEF ReadInv, Outstanding
    <3>. QED BY <3>1, <3>2, <3>3 DEF ReadInv
  <2>3. sq[executed + 1].op = "RDMA_WRITE" => sq[executed + 1].off \in Offsets
    BY <2>1 DEF WriteInv
  <2>4. rdma_local_region' \in PageContents
    BY <1>6, <2>2 DEF HcaExecute, TypeOK
  <2>5. remote' \in [Offsets -> PageContents]
    BY <1>6, <2>3 DEF HcaExecute, TypeOK
  <2>6. executed' \in 0..Len(sq')
    BY <1>6, <2>1 DEF HcaExecute, TypeOK
  <2>. QED BY <1>6, <2>4, <2>5, <2>6 DEF HcaExecute, TypeOK
<1>7. CASE HcaComplete
  <2>1. executed \in 0..Len(sq) /\ executed > 0 /\ executed' = executed - 1
    BY <1>7 DEF HcaComplete, TypeOK
  <2>2. /\ sq' \in Seq(Requests) /\ executed' \in 0..Len(sq')
        /\ cq' \in Seq(Completions) /\ armed' \in BOOLEAN /\ cqEvents' \in Nat
    BY <1>7, <2>1, CompletedFacts
  <2>. QED BY <1>7, <2>2 DEF HcaComplete, TypeOK
<1>8. CASE HcaFail
  <2>1. executed \in 0..Len(sq)
          /\ executed' = IF executed > 0 THEN executed - 1 ELSE 0
    BY <1>8 DEF HcaFail, TypeOK
  <2>2. /\ sq' \in Seq(Requests) /\ executed' \in 0..Len(sq')
        /\ cq' \in Seq(Completions) /\ armed' \in BOOLEAN /\ cqEvents' \in Nat
    BY <1>8, <2>1, FailedFacts
  <2>. QED BY <1>8, <2>2 DEF HcaFail, TypeOK
<1>9. CASE HcaReceive
  <2>2. cq' \in Seq(Completions) /\ armed' \in BOOLEAN /\ cqEvents' \in Nat
    BY <1>9, ReceiveFacts
  <2>3. wire \in Seq(MessageTypes) /\ wire # <<>>
    BY <1>9 DEF HcaReceive, TypeOK
  <2>4. wire' \in Seq(MessageTypes) /\ recv_msg' \in MessageTypes
    BY <1>9, <2>3 DEF HcaReceive
  <2>. QED BY <1>9, <2>2, <2>4 DEF HcaReceive, TypeOK
<1>10. CASE ServerStep
  <2>1. /\ wire \in Seq(MessageTypes)
             /\ {"MSG_MR", "MSG_DONE"} \subseteq MessageTypes
        /\ cmEvents \in Seq(CmEventTypes) /\ "DISCONNECTED" \in CmEventTypes
    BY DEF TypeOK, MessageTypes, CmEventTypes
  <2>2. CASE ServerSendMr
    <3>1. wire' \in Seq(MessageTypes)
      BY <2>1, <2>2 DEF ServerSendMr
    <3>. QED BY <2>2, <3>1 DEF ServerSendMr, serverFrame, TypeOK
  <2>3. CASE ServerMrSent
    BY <2>3 DEF ServerMrSent, serverFrame, TypeOK
  <2>4. CASE ServerSendDone
    <3>1. wire' \in Seq(MessageTypes)
      BY <2>1, <2>4 DEF ServerSendDone
    <3>. QED BY <2>4, <3>1 DEF ServerSendDone, serverFrame, TypeOK
  <2>5. CASE ServerDisconnect
    <3>1. cmEvents' \in Seq(CmEventTypes)
      BY <2>1, <2>5 DEF ServerDisconnect
    <3>. QED BY <2>5, <3>1 DEF ServerDisconnect, serverFrame, TypeOK
  <2>. QED BY <1>10, <2>2, <2>3, <2>4, <2>5 DEF ServerStep
<1>11. CASE TestFails
  BY <1>11 DEF TestFails, End, TypeOK
<1>12. CASE UNCHANGED vars
  BY <1>12 DEF vars, TypeOK
<1>. QED BY <1>1, <1>2, <1>3, <1>4, <1>5, <1>6, <1>7, <1>8, <1>9, <1>10, <1>11,
            <1>12 DEF Next, HcaStep

-----------------------------------------------------------------------------
(***************************************************************************)
(* Each part of the invariant survives every step.                         *)
(***************************************************************************)

\* Connection set-up and take-down.
LEMMA SetupInvStep == IInv /\ [Next]_vars => SetupInv'
<1> SUFFICES ASSUME IInv, [Next]_vars PROVE SetupInv'
  OBVIOUS
<1> TypeOK /\ SetupInv /\ QuietInv /\ WakeupInv /\ SleepInv /\ WriteInv
    /\ ReadInv /\ DoneInv /\ FailInv
  BY DEF IInv
<1> USE DEF SetupInv, Answer,
            callVars, semVars, connVars, regions, sqVars, cqVars, srvVars, world
<1>1. CASE Call
  <2>1. ASSUME NEW o \in Offsets, NEW d \in Data, CallWrite(o, d) PROVE SetupInv'
    BY <2>1 DEF CallWrite, End
  <2>2. ASSUME NEW o \in Offsets, CallRead(o) PROVE SetupInv'
    BY <2>2 DEF CallRead, End
  <2>3. CASE CallDone  BY <2>3 DEF CallDone, End
  <2>. QED BY <1>1, <2>1, <2>2, <2>3 DEF Call
<1>2. CASE MainStep
  <2>1. CASE RdmaInit  BY <2>1 DEF RdmaInit
  <2>2. CASE RdmaInitReturn  BY <2>2 DEF RdmaInitReturn
  <2>3. CASE WriteWait  BY <2>3 DEF WriteWait
  <2>4. CASE WriteCopy  BY <2>4 DEF WriteCopy
  <2>5. CASE WritePost  BY <2>5 DEF WritePost
  <2>6. CASE ReadWait  BY <2>6 DEF ReadWait
  <2>7. CASE ReadCopy  BY <2>7 DEF ReadCopy
  <2>8. CASE DonePost  BY <2>8 DEF DonePost
  <2>9. CASE DoneReturn  BY <2>9 DEF DoneReturn
  <2>10. CASE Exit  BY <2>10 DEF Exit, End
  <2>. QED BY <1>2, <2>1, <2>2, <2>3, <2>4, <2>5, <2>6, <2>7, <2>8,
           <2>9, <2>10 DEF MainStep
<1>3. CASE CmStep
  <2>1. CASE CmResolveAddr  BY <2>1 DEF CmResolveAddr
  <2>2. CASE CmGetEvent
    <3>1. cmEvents # <<>> /\ cm' = Head(cmEvents) /\ cmEvents' = Tail(cmEvents)
      BY <2>2 DEF CmGetEvent
    <3>2. Head(cmEvents) = cmEvents[1] /\ cmEvents' = <<>>
          /\ cmEvents[1] \in CmEventTypes
      BY <3>1, EventFacts
    <3>. QED BY <2>2, <3>1, <3>2 DEF CmGetEvent, CmEventTypes
  <2>3. CASE OnAddrResolved  BY <2>3 DEF OnAddrResolved
  <2>4. CASE OnRouteResolved  BY <2>4 DEF OnRouteResolved
  <2>5. CASE OnConnect  BY <2>5 DEF OnConnect
  <2>6. CASE PublishContext  BY <2>6 DEF PublishContext
  <2>7. CASE OnDisconnect  BY <2>7 DEF OnDisconnect
  <2>8. CASE OnUnknownEvent  BY <2>8 DEF OnUnknownEvent, End
  <2>. QED BY <1>3, <2>1, <2>2, <2>3, <2>4, <2>5, <2>6, <2>7, <2>8 DEF CmStep
<1>4. CASE PollerStep
  <2>1. CASE PollerGetEvent  BY <2>1 DEF PollerGetEvent
  <2>2. CASE PollerReqNotify  BY <2>2 DEF PollerReqNotify
  <2>3. CASE PollerPoll  BY <2>3 DEF PollerPoll
  <2>4. CASE OnError \/ OnFreedConnection
    BY <2>4 DEF OnError, OnFreedConnection, End
  <2>5. CASE OnReceive  BY <2>5 DEF OnReceive
  <2>6. CASE OnSendCompletion  BY <2>6 DEF OnSendCompletion
  <2>7. CASE CheckDisconnect  BY <2>7 DEF CheckDisconnect, End
  <2>. QED BY <1>4, <2>1, <2>2, <2>3, <2>4, <2>5, <2>6, <2>7 DEF PollerStep
<1>5. CASE HcaStep
  <2>1. CASE HcaExecute  BY <2>1 DEF HcaExecute
  <2>2. CASE HcaComplete  BY <2>2 DEF HcaComplete
  <2>3. CASE HcaReceive  BY <2>3 DEF HcaReceive
  <2>. QED BY <1>5, <2>1, <2>2, <2>3 DEF HcaStep
<1>6. CASE ServerStep
  <2>1. CASE ServerSendMr  BY <2>1 DEF ServerSendMr, serverFrame
  <2>2. CASE ServerMrSent  BY <2>2 DEF ServerMrSent, serverFrame
  <2>3. CASE ServerSendDone  BY <2>3 DEF ServerSendDone, serverFrame
  <2>4. CASE ServerDisconnect  BY <2>4 DEF ServerDisconnect, serverFrame
  <2>. QED BY <1>6, <2>1, <2>2, <2>3, <2>4 DEF ServerStep
<1>7. CASE CmAnswer  BY <1>7 DEF CmAnswer
<1>8. CASE HcaFail  BY <1>8 DEF HcaFail
<1>9. CASE TestFails  BY <1>9 DEF TestFails, End
<1>10. CASE UNCHANGED vars  BY <1>10 DEF vars
<1>. QED BY <1>1, <1>2, <1>3, <1>4, <1>5, <1>6, <1>7, <1>8, <1>9, <1>10 DEF Next

\* Nothing uses the connection before it exists.
LEMMA QuietInvStep == IInv /\ [Next]_vars => QuietInv'
<1> SUFFICES ASSUME IInv, [Next]_vars PROVE QuietInv'
  OBVIOUS
<1> TypeOK /\ SetupInv /\ QuietInv /\ WakeupInv /\ SleepInv /\ WriteInv
    /\ ReadInv /\ DoneInv /\ FailInv
  BY DEF IInv
<1> USE DEF QuietInv,
            callVars, semVars, connVars, regions, sqVars, cqVars, srvVars, world
<1>1. CASE Call
  <2>1. ASSUME NEW o \in Offsets, NEW d \in Data, CallWrite(o, d) PROVE QuietInv'
    BY <2>1 DEF CallWrite, End
  <2>2. ASSUME NEW o \in Offsets, CallRead(o) PROVE QuietInv'
    BY <2>2 DEF CallRead, End
  <2>3. CASE CallDone  BY <2>3 DEF CallDone, End
  <2>. QED BY <1>1, <2>1, <2>2, <2>3 DEF Call
<1>2. CASE MainStep
  <2>1. CASE RdmaInit  BY <2>1 DEF RdmaInit
  <2>2. CASE RdmaInitReturn  BY <2>2 DEF RdmaInitReturn
  <2>3. CASE WriteWait  BY <2>3 DEF WriteWait
  <2>4. CASE WriteCopy  BY <2>4 DEF WriteCopy
  <2>5. CASE WritePost  BY <2>5 DEF WritePost
  <2>6. CASE ReadWait  BY <2>6 DEF ReadWait
  <2>7. CASE ReadCopy  BY <2>7 DEF ReadCopy
  <2>8. CASE DonePost  BY <2>8 DEF DonePost
  <2>9. CASE DoneReturn  BY <2>9 DEF DoneReturn
  <2>10. CASE Exit  BY <2>10 DEF Exit, End
  <2>. QED BY <1>2, <2>1, <2>2, <2>3, <2>4, <2>5, <2>6, <2>7, <2>8,
           <2>9, <2>10 DEF MainStep
<1>3. CASE CmStep
  <2>1. CASE CmResolveAddr  BY <2>1 DEF CmResolveAddr, SetupInv
  <2>2. CASE CmGetEvent  BY <2>2 DEF CmGetEvent
  <2>3. CASE OnAddrResolved  BY <2>3 DEF OnAddrResolved, SetupInv
  <2>4. CASE OnRouteResolved  BY <2>4 DEF OnRouteResolved, SetupInv
  <2>5. CASE OnConnect  BY <2>5 DEF OnConnect
  <2>6. CASE PublishContext  BY <2>6 DEF PublishContext, SetupInv
  <2>7. CASE OnDisconnect  BY <2>7 DEF OnDisconnect, SetupInv
  <2>8. CASE OnUnknownEvent  BY <2>8 DEF OnUnknownEvent, End
  <2>. QED BY <1>3, <2>1, <2>2, <2>3, <2>4, <2>5, <2>6, <2>7, <2>8 DEF CmStep
<1>4. CASE PollerStep
  <2>1. CASE PollerGetEvent  BY <2>1 DEF PollerGetEvent
  <2>2. CASE PollerReqNotify  BY <2>2 DEF PollerReqNotify
  <2>3. CASE PollerPoll  BY <2>3 DEF PollerPoll
  <2>4. CASE OnError \/ OnFreedConnection
    BY <2>4 DEF OnError, OnFreedConnection, End
  <2>5. CASE OnReceive  BY <2>5 DEF OnReceive
  <2>6. CASE OnSendCompletion  BY <2>6 DEF OnSendCompletion
  <2>7. CASE CheckDisconnect  BY <2>7 DEF CheckDisconnect, End
  <2>. QED BY <1>4, <2>1, <2>2, <2>3, <2>4, <2>5, <2>6, <2>7 DEF PollerStep
<1>5. CASE HcaStep
  <2>1. CASE HcaExecute  BY <2>1 DEF HcaExecute
  <2>2. CASE HcaComplete  BY <2>2 DEF HcaComplete
  <2>3. CASE HcaReceive  BY <2>3 DEF HcaReceive
  <2>. QED BY <1>5, <2>1, <2>2, <2>3 DEF HcaStep
<1>6. CASE ServerStep
  <2>1. CASE ServerSendMr  BY <2>1 DEF ServerSendMr, serverFrame
  <2>2. CASE ServerMrSent  BY <2>2 DEF ServerMrSent, serverFrame
  <2>3. CASE ServerSendDone  BY <2>3 DEF ServerSendDone, serverFrame
  <2>4. CASE ServerDisconnect  BY <2>4 DEF ServerDisconnect, serverFrame
  <2>. QED BY <1>6, <2>1, <2>2, <2>3, <2>4 DEF ServerStep
<1>7. CASE CmAnswer  BY <1>7 DEF CmAnswer, SetupInv, Answer
<1>8. CASE HcaFail  BY <1>8 DEF HcaFail
<1>9. CASE TestFails  BY <1>9 DEF TestFails, End
<1>10. CASE UNCHANGED vars  BY <1>10 DEF vars
<1>. QED BY <1>1, <1>2, <1>3, <1>4, <1>5, <1>6, <1>7, <1>8, <1>9, <1>10 DEF Next

\* A poller that may go to sleep has an armed queue or an event.
LEMMA WakeupInvStep == IInv /\ [Next]_vars => WakeupInv'
<1> SUFFICES ASSUME IInv, [Next]_vars PROVE WakeupInv'
  OBVIOUS
<1> TypeOK /\ SetupInv /\ QuietInv /\ WakeupInv /\ SleepInv /\ WriteInv
    /\ ReadInv /\ DoneInv /\ FailInv
  BY DEF IInv
<1> USE DEF WakeupInv,
            callVars, semVars, connVars, regions, sqVars, cqVars, srvVars, world
<1>1. CASE Call
  <2>1. ASSUME NEW o \in Offsets, NEW d \in Data, CallWrite(o, d) PROVE WakeupInv'
    BY <2>1 DEF CallWrite, End
  <2>2. ASSUME NEW o \in Offsets, CallRead(o) PROVE WakeupInv'
    BY <2>2 DEF CallRead, End
  <2>3. CASE CallDone  BY <2>3 DEF CallDone, End
  <2>. QED BY <1>1, <2>1, <2>2, <2>3 DEF Call
<1>2. CASE MainStep
  <2>1. CASE RdmaInit  BY <2>1 DEF RdmaInit
  <2>2. CASE RdmaInitReturn  BY <2>2 DEF RdmaInitReturn
  <2>3. CASE WriteWait  BY <2>3 DEF WriteWait
  <2>4. CASE WriteCopy  BY <2>4 DEF WriteCopy
  <2>5. CASE WritePost  BY <2>5 DEF WritePost
  <2>6. CASE ReadWait  BY <2>6 DEF ReadWait
  <2>7. CASE ReadCopy  BY <2>7 DEF ReadCopy
  <2>8. CASE DonePost  BY <2>8 DEF DonePost
  <2>9. CASE DoneReturn  BY <2>9 DEF DoneReturn
  <2>10. CASE Exit  BY <2>10 DEF Exit, End
  <2>. QED BY <1>2, <2>1, <2>2, <2>3, <2>4, <2>5, <2>6, <2>7, <2>8,
           <2>9, <2>10 DEF MainStep
<1>3. CASE CmStep
  <2>1. CASE CmResolveAddr  BY <2>1 DEF CmResolveAddr
  <2>2. CASE CmGetEvent  BY <2>2 DEF CmGetEvent
  <2>3. CASE OnAddrResolved  BY <2>3 DEF OnAddrResolved
  <2>4. CASE OnRouteResolved  BY <2>4 DEF OnRouteResolved
  <2>5. CASE OnConnect  BY <2>5 DEF OnConnect
  <2>6. CASE PublishContext  BY <2>6 DEF PublishContext
  <2>7. CASE OnDisconnect  BY <2>7 DEF OnDisconnect
  <2>8. CASE OnUnknownEvent  BY <2>8 DEF OnUnknownEvent, End
  <2>. QED BY <1>3, <2>1, <2>2, <2>3, <2>4, <2>5, <2>6, <2>7, <2>8 DEF CmStep
<1>4. CASE PollerStep
  <2>1. CASE PollerGetEvent  BY <2>1 DEF PollerGetEvent
  <2>2. CASE PollerReqNotify  BY <2>2 DEF PollerReqNotify
  <2>3. CASE PollerPoll  BY <2>3 DEF PollerPoll
  <2>4. CASE OnError \/ OnFreedConnection
    BY <2>4 DEF OnError, OnFreedConnection, End
  <2>5. CASE OnReceive  BY <2>5 DEF OnReceive
  <2>6. CASE OnSendCompletion  BY <2>6 DEF OnSendCompletion
  <2>7. CASE CheckDisconnect  BY <2>7 DEF CheckDisconnect, End
  <2>. QED BY <1>4, <2>1, <2>2, <2>3, <2>4, <2>5, <2>6, <2>7 DEF PollerStep
<1>5. CASE HcaStep
  <2>1. CASE HcaExecute  BY <2>1 DEF HcaExecute
  <2>2. CASE HcaComplete
    BY <2>2, CompletedFacts DEF HcaComplete
  <2>3. CASE HcaReceive
    BY <2>3, ReceiveFacts DEF HcaReceive
  <2>. QED BY <1>5, <2>1, <2>2, <2>3 DEF HcaStep
<1>6. CASE ServerStep
  <2>1. CASE ServerSendMr  BY <2>1 DEF ServerSendMr, serverFrame
  <2>2. CASE ServerMrSent  BY <2>2 DEF ServerMrSent, serverFrame
  <2>3. CASE ServerSendDone  BY <2>3 DEF ServerSendDone, serverFrame
  <2>4. CASE ServerDisconnect  BY <2>4 DEF ServerDisconnect, serverFrame
  <2>. QED BY <1>6, <2>1, <2>2, <2>3, <2>4 DEF ServerStep
<1>7. CASE CmAnswer  BY <1>7 DEF CmAnswer
<1>8. CASE HcaFail
  BY <1>8, FailedFacts DEF HcaFail
<1>9. CASE TestFails  BY <1>9 DEF TestFails, End
<1>10. CASE UNCHANGED vars  BY <1>10 DEF vars
<1>. QED BY <1>1, <1>2, <1>3, <1>4, <1>5, <1>6, <1>7, <1>8, <1>9, <1>10 DEF Next

\* A sleeping poller with an armed queue has nothing to poll.
LEMMA SleepInvStep == IInv /\ [Next]_vars => SleepInv'
<1> SUFFICES ASSUME IInv, [Next]_vars PROVE SleepInv'
  OBVIOUS
<1> TypeOK /\ SetupInv /\ QuietInv /\ WakeupInv /\ SleepInv /\ WriteInv
    /\ ReadInv /\ DoneInv /\ FailInv
  BY DEF IInv
<1> USE DEF SleepInv,
            callVars, semVars, connVars, regions, sqVars, cqVars, srvVars, world
<1>1. CASE Call
  <2>1. ASSUME NEW o \in Offsets, NEW d \in Data, CallWrite(o, d) PROVE SleepInv'
    BY <2>1 DEF CallWrite, End
  <2>2. ASSUME NEW o \in Offsets, CallRead(o) PROVE SleepInv'
    BY <2>2 DEF CallRead, End
  <2>3. CASE CallDone  BY <2>3 DEF CallDone, End
  <2>. QED BY <1>1, <2>1, <2>2, <2>3 DEF Call
<1>2. CASE MainStep
  <2>1. CASE RdmaInit  BY <2>1 DEF RdmaInit
  <2>2. CASE RdmaInitReturn  BY <2>2 DEF RdmaInitReturn
  <2>3. CASE WriteWait  BY <2>3 DEF WriteWait
  <2>4. CASE WriteCopy  BY <2>4 DEF WriteCopy
  <2>5. CASE WritePost  BY <2>5 DEF WritePost
  <2>6. CASE ReadWait  BY <2>6 DEF ReadWait
  <2>7. CASE ReadCopy  BY <2>7 DEF ReadCopy
  <2>8. CASE DonePost  BY <2>8 DEF DonePost
  <2>9. CASE DoneReturn  BY <2>9 DEF DoneReturn
  <2>10. CASE Exit  BY <2>10 DEF Exit, End
  <2>. QED BY <1>2, <2>1, <2>2, <2>3, <2>4, <2>5, <2>6, <2>7, <2>8,
           <2>9, <2>10 DEF MainStep
<1>3. CASE CmStep
  <2>1. CASE CmResolveAddr  BY <2>1 DEF CmResolveAddr
  <2>2. CASE CmGetEvent  BY <2>2 DEF CmGetEvent
  <2>3. CASE OnAddrResolved  BY <2>3 DEF OnAddrResolved, QuietInv, SetupInv
  <2>4. CASE OnRouteResolved  BY <2>4 DEF OnRouteResolved
  <2>5. CASE OnConnect  BY <2>5 DEF OnConnect
  <2>6. CASE PublishContext  BY <2>6 DEF PublishContext
  <2>7. CASE OnDisconnect  BY <2>7 DEF OnDisconnect
  <2>8. CASE OnUnknownEvent  BY <2>8 DEF OnUnknownEvent, End
  <2>. QED BY <1>3, <2>1, <2>2, <2>3, <2>4, <2>5, <2>6, <2>7, <2>8 DEF CmStep
<1>4. CASE PollerStep
  <2>1. CASE PollerGetEvent  BY <2>1 DEF PollerGetEvent
  <2>2. CASE PollerReqNotify  BY <2>2 DEF PollerReqNotify
  <2>3. CASE PollerPoll  BY <2>3 DEF PollerPoll
  <2>4. CASE OnError \/ OnFreedConnection
    BY <2>4 DEF OnError, OnFreedConnection, End
  <2>5. CASE OnReceive  BY <2>5 DEF OnReceive
  <2>6. CASE OnSendCompletion  BY <2>6 DEF OnSendCompletion
  <2>7. CASE CheckDisconnect  BY <2>7 DEF CheckDisconnect, End
  <2>. QED BY <1>4, <2>1, <2>2, <2>3, <2>4, <2>5, <2>6, <2>7 DEF PollerStep
<1>5. CASE HcaStep
  <2>1. CASE HcaExecute  BY <2>1 DEF HcaExecute
  <2>2. CASE HcaComplete
    BY <2>2, CompletedFacts DEF HcaComplete
  <2>3. CASE HcaReceive
    BY <2>3, ReceiveFacts DEF HcaReceive
  <2>. QED BY <1>5, <2>1, <2>2, <2>3 DEF HcaStep
<1>6. CASE ServerStep
  <2>1. CASE ServerSendMr  BY <2>1 DEF ServerSendMr, serverFrame
  <2>2. CASE ServerMrSent  BY <2>2 DEF ServerMrSent, serverFrame
  <2>3. CASE ServerSendDone  BY <2>3 DEF ServerSendDone, serverFrame
  <2>4. CASE ServerDisconnect  BY <2>4 DEF ServerDisconnect, serverFrame
  <2>. QED BY <1>6, <2>1, <2>2, <2>3, <2>4 DEF ServerStep
<1>7. CASE CmAnswer  BY <1>7 DEF CmAnswer
<1>8. CASE HcaFail
  BY <1>8, FailedFacts DEF HcaFail
<1>9. CASE TestFails  BY <1>9 DEF TestFails, End
<1>10. CASE UNCHANGED vars  BY <1>10 DEF vars
<1>. QED BY <1>1, <1>2, <1>3, <1>4, <1>5, <1>6, <1>7, <1>8, <1>9, <1>10 DEF Next

\* The write region has one owner.
LEMMA WriteInvStep == IInv /\ [Next]_vars => WriteInv'
<1> SUFFICES ASSUME IInv, [Next]_vars PROVE WriteInv'
  OBVIOUS
<1> TypeOK /\ SetupInv /\ QuietInv /\ WakeupInv /\ SleepInv /\ WriteInv
    /\ ReadInv /\ DoneInv /\ FailInv
  BY DEF IInv
<1> USE DEF WriteInv, Writing, Outstanding, InWc,
            callVars, semVars, connVars, regions, sqVars, cqVars, srvVars, world
<1>1. CASE Call
  <2>1. ASSUME NEW o \in Offsets, NEW d \in Data, CallWrite(o, d) PROVE WriteInv'
    BY <2>1 DEF CallWrite, End
  <2>2. ASSUME NEW o \in Offsets, CallRead(o) PROVE WriteInv'
    <3>1. CASE conn_context = "NULL"
      BY <2>2, <3>1 DEF CallRead, End
    <3>2. CASE conn_context # "NULL"
      <4>1. Request("RDMA_READ", o) \in Requests
              /\ PostSend(Request("RDMA_READ", o))
        BY <2>2, <3>2 DEF CallRead, TypeOK, Request, Requests, SendOps
      <4>2. /\ Has(sq, "RDMA_WRITE")' <=> Has(sq, "RDMA_WRITE")
            /\ Once(sq, "RDMA_WRITE") => Once(sq, "RDMA_WRITE")'
        BY <4>1, PostKinds DEF Request
      <4>3. /\ Len(sq) \in Nat /\ Len(sq') = Len(sq) + 1 /\ sq' # <<>>
            /\ \A k \in 1..Len(sq) : sq'[k] = sq[k]
            /\ sq'[Len(sq) + 1] = Request("RDMA_READ", o) /\ executed' = executed
            /\ executed \in 0..Len(sq)
        BY <4>1, PostFacts DEF TypeOK
      <4>. QED BY <2>2, <3>2, <4>2, <4>3 DEF CallRead, Request
    <3>. QED BY <3>1, <3>2
  <2>3. CASE CallDone  BY <2>3 DEF CallDone, End
  <2>. QED BY <1>1, <2>1, <2>2, <2>3 DEF Call
<1>2. CASE MainStep
  <2>1. CASE RdmaInit  BY <2>1 DEF RdmaInit
  <2>2. CASE RdmaInitReturn  BY <2>2 DEF RdmaInitReturn
  <2>3. CASE WriteWait  BY <2>3 DEF WriteWait, TypeOK
  <2>4. CASE WriteCopy  BY <2>4 DEF WriteCopy
  <2>5. CASE WritePost
    <3>1. Request("RDMA_WRITE", arg.off) \in Requests
            /\ PostSend(Request("RDMA_WRITE", arg.off))
      BY <2>5 DEF WritePost, TypeOK, Request, Requests, SendOps
    <3>2. /\ Has(sq, "RDMA_WRITE")'
          /\ ~Has(sq, "RDMA_WRITE") => Once(sq, "RDMA_WRITE")'
      BY <3>1, PostKinds DEF Request
    <3>3. /\ Len(sq) \in Nat /\ Len(sq') = Len(sq) + 1 /\ sq' # <<>>
          /\ \A k \in 1..Len(sq) : sq'[k] = sq[k]
          /\ sq'[Len(sq) + 1] = Request("RDMA_WRITE", arg.off)
               /\ executed' = executed
          /\ executed \in 0..Len(sq)
      BY <3>1, PostFacts DEF TypeOK
    <3>. QED BY <2>5, <3>2, <3>3 DEF WritePost, Request
  <2>6. CASE ReadWait  BY <2>6 DEF ReadWait
  <2>7. CASE ReadCopy  BY <2>7 DEF ReadCopy
  <2>8. CASE DonePost
    <3>1. Request("SEND", NoOffset) \in Requests
            /\ PostSend(Request("SEND", NoOffset))
      BY <2>8 DEF DonePost, TypeOK, Request, Requests, SendOps
    <3>2. /\ Has(sq, "RDMA_WRITE")' <=> Has(sq, "RDMA_WRITE")
          /\ Once(sq, "RDMA_WRITE") => Once(sq, "RDMA_WRITE")'
      BY <3>1, PostKinds DEF Request
    <3>3. /\ Len(sq) \in Nat /\ Len(sq') = Len(sq) + 1 /\ sq' # <<>>
          /\ \A k \in 1..Len(sq) : sq'[k] = sq[k]
          /\ sq'[Len(sq) + 1] = Request("SEND", NoOffset) /\ executed' = executed
          /\ executed \in 0..Len(sq)
      BY <3>1, PostFacts DEF TypeOK
    <3>. QED BY <2>8, <3>2, <3>3 DEF DonePost, Request
  <2>9. CASE DoneReturn  BY <2>9 DEF DoneReturn
  <2>10. CASE Exit  BY <2>10 DEF Exit, End
  <2>. QED BY <1>2, <2>1, <2>2, <2>3, <2>4, <2>5, <2>6, <2>7, <2>8,
           <2>9, <2>10 DEF MainStep
<1>3. CASE CmStep
  <2>1. CASE CmResolveAddr  BY <2>1 DEF CmResolveAddr
  <2>2. CASE CmGetEvent  BY <2>2 DEF CmGetEvent
  <2>3. CASE OnAddrResolved  BY <2>3 DEF OnAddrResolved, QuietInv, SetupInv
  <2>4. CASE OnRouteResolved  BY <2>4 DEF OnRouteResolved
  <2>5. CASE OnConnect  BY <2>5 DEF OnConnect
  <2>6. CASE PublishContext  BY <2>6 DEF PublishContext
  <2>7. CASE OnDisconnect
    BY <2>7, EmptyFacts DEF OnDisconnect, SetupInv
  <2>8. CASE OnUnknownEvent  BY <2>8 DEF OnUnknownEvent, End
  <2>. QED BY <1>3, <2>1, <2>2, <2>3, <2>4, <2>5, <2>6, <2>7, <2>8 DEF CmStep
<1>4. CASE PollerStep
  <2>1. CASE PollerGetEvent  BY <2>1 DEF PollerGetEvent
  <2>2. CASE PollerReqNotify  BY <2>2 DEF PollerReqNotify
  <2>3. CASE PollerPoll
    <3>1. CASE cq = <<>>
      BY <2>3, <3>1 DEF PollerPoll
    <3>2. CASE cq # <<>>
      <4>1. /\ Has(cq, "RDMA_WRITE") <=>
                 (Has(cq, "RDMA_WRITE")' \/ wc'.op = "RDMA_WRITE")
            /\ Once(cq, "RDMA_WRITE") =>
                 Once(cq, "RDMA_WRITE")' /\ (wc'.op = "RDMA_WRITE" =>
                   ~Has(cq, "RDMA_WRITE")')
        BY <2>3, <3>2, PollKinds
      <4>2. poller = "poll" /\ poller' = "on_completion"
        BY <2>3, <3>2 DEF PollerPoll
      <4>. QED BY <2>3, <4>1, <4>2 DEF PollerPoll
    <3>. QED BY <3>1, <3>2
  <2>4. CASE OnError \/ OnFreedConnection
    BY <2>4 DEF OnError, OnFreedConnection, End
  <2>5. CASE OnReceive  BY <2>5 DEF OnReceive
  <2>6. CASE OnSendCompletion  BY <2>6 DEF OnSendCompletion, TypeOK
  <2>7. CASE CheckDisconnect  BY <2>7 DEF CheckDisconnect, End
  <2>. QED BY <1>4, <2>1, <2>2, <2>3, <2>4, <2>5, <2>6, <2>7 DEF PollerStep
<1>5. CASE HcaStep
  <2>1. CASE HcaExecute  BY <2>1 DEF HcaExecute
  <2>2. CASE HcaComplete
    <3>1. sq # <<>>
      BY <2>2, CompletedFacts
    <3>2. sq' = Tail(sq) /\ Complete(Completion(Head(sq).op, TRUE))
      BY <2>2 DEF HcaComplete
    <3>3. /\ Has(sq, "RDMA_WRITE") <=>
               (Has(sq, "RDMA_WRITE")' \/ sq[1].op = "RDMA_WRITE")
          /\ Once(sq, "RDMA_WRITE") =>
               Once(sq, "RDMA_WRITE")' /\ (sq[1].op = "RDMA_WRITE" =>
                 ~Has(sq, "RDMA_WRITE")')
      BY <3>1, <3>2, TailKinds
    <3>4. /\ Has(cq, "RDMA_WRITE")' <=>
               (Has(cq, "RDMA_WRITE") \/ sq[1].op = "RDMA_WRITE")
          /\ Once(cq, "RDMA_WRITE")
               /\ (~Has(cq, "RDMA_WRITE") \/ sq[1].op # "RDMA_WRITE") =>
                    Once(cq, "RDMA_WRITE")'
      BY <3>1, <3>2, FinishKinds
    <3>5. /\ UNCHANGED <<proc, callVars, poller, wc, semVars, connVars, regions,
               srvVars>>
          /\ link # "error" /\ link' = link
      BY <2>2 DEF HcaComplete
    <3>6. \A k \in 1..Len(sq') : sq'[k].op = "RDMA_WRITE" => sq'[k].off \in Offsets
      <4> SUFFICES ASSUME NEW k \in 1..Len(sq')
            PROVE sq'[k].op = "RDMA_WRITE" => sq'[k].off \in Offsets
        OBVIOUS
      <4>1. k + 1 \in 1..Len(sq) /\ sq'[k] = sq[k + 1]
        BY <2>2, CompletedFacts
      <4>. QED BY <4>1
    <3>. QED BY <3>1, <3>3, <3>4, <3>5, <3>6
  <2>3. CASE HcaReceive
    <3>1. /\ Has(cq, "RDMA_WRITE")' <=> Has(cq, "RDMA_WRITE")
          /\ Once(cq, "RDMA_WRITE") => Once(cq, "RDMA_WRITE")'
      BY <2>3, ReceiveKinds DEF SendOps
    <3>. QED BY <2>3, <3>1 DEF HcaReceive
  <2>. QED BY <1>5, <2>1, <2>2, <2>3 DEF HcaStep
<1>6. CASE ServerStep
  <2>1. CASE ServerSendMr  BY <2>1 DEF ServerSendMr, serverFrame
  <2>2. CASE ServerMrSent  BY <2>2 DEF ServerMrSent, serverFrame
  <2>3. CASE ServerSendDone  BY <2>3 DEF ServerSendDone, serverFrame
  <2>4. CASE ServerDisconnect  BY <2>4 DEF ServerDisconnect, serverFrame
  <2>. QED BY <1>6, <2>1, <2>2, <2>3, <2>4 DEF ServerStep
<1>7. CASE CmAnswer  BY <1>7 DEF CmAnswer
<1>8. CASE HcaFail
  <2>1. sq # <<>>
    BY <1>8, FailedFacts
  <2>2. sq' = Tail(sq) /\ Complete(Completion(Head(sq).op, FALSE))
    BY <1>8 DEF HcaFail
  <2>3. /\ Has(sq, "RDMA_WRITE") <=>
             (Has(sq, "RDMA_WRITE")' \/ sq[1].op = "RDMA_WRITE")
        /\ Once(sq, "RDMA_WRITE") =>
             Once(sq, "RDMA_WRITE")' /\ (sq[1].op = "RDMA_WRITE" =>
               ~Has(sq, "RDMA_WRITE")')
    BY <2>1, <2>2, TailKinds
  <2>4. /\ Has(cq, "RDMA_WRITE")' <=>
             (Has(cq, "RDMA_WRITE") \/ sq[1].op = "RDMA_WRITE")
        /\ Once(cq, "RDMA_WRITE")
             /\ (~Has(cq, "RDMA_WRITE") \/ sq[1].op # "RDMA_WRITE") =>
                  Once(cq, "RDMA_WRITE")'
    BY <2>1, <2>2, FinishKinds
  <2>5. /\ UNCHANGED <<proc, callVars, poller, wc, semVars, connVars, regions,
             srvVars>>
        /\ link' = IF link = "up" THEN "error" ELSE link
    BY <1>8 DEF HcaFail
  <2>6. \A k \in 1..Len(sq') : sq'[k].op = "RDMA_WRITE" => sq'[k].off \in Offsets
    <4> SUFFICES ASSUME NEW k \in 1..Len(sq')
          PROVE sq'[k].op = "RDMA_WRITE" => sq'[k].off \in Offsets
      OBVIOUS
    <4>1. k + 1 \in 1..Len(sq) /\ sq'[k] = sq[k + 1]
      BY <1>8, FailedFacts
    <4>. QED BY <4>1
  <2>. QED BY <2>1, <2>3, <2>4, <2>5, <2>6
<1>9. CASE TestFails  BY <1>9 DEF TestFails, End
<1>10. CASE UNCHANGED vars  BY <1>10 DEF vars
<1>. QED BY <1>1, <1>2, <1>3, <1>4, <1>5, <1>6, <1>7, <1>8, <1>9, <1>10 DEF Next

\* The read in progress is the last request and returns the page.
LEMMA ReadInvStep == IInv /\ [Next]_vars => ReadInv'
<1> SUFFICES ASSUME IInv, [Next]_vars PROVE ReadInv'
  OBVIOUS
<1> TypeOK /\ SetupInv /\ QuietInv /\ WakeupInv /\ SleepInv /\ WriteInv
    /\ ReadInv /\ DoneInv /\ FailInv
  BY DEF IInv
<1> USE DEF ReadInv, ReadArrived, Outstanding, InWc,
            callVars, semVars, connVars, regions, sqVars, cqVars, srvVars, world
<1> read_ops \in Nat
  BY DEF TypeOK
<1> /\ Holds(cq, Completion("RDMA_READ", TRUE)) => Has(cq, "RDMA_READ")
    /\ Holds(cq, Completion("RDMA_READ", TRUE))' => Has(cq, "RDMA_READ")'
  BY HoldsHas DEF Completion
<1> /\ sq = <<>> => ~Has(sq, "RDMA_READ")
    /\ sq' = <<>> => ~Has(sq, "RDMA_READ")'
  BY EmptyFacts
<1>1. CASE Call
  <2>1. ASSUME NEW o \in Offsets, NEW d \in Data, CallWrite(o, d) PROVE ReadInv'
    BY <2>1 DEF CallWrite, End
  <2>2. ASSUME NEW o \in Offsets, CallRead(o) PROVE ReadInv'
    <3>1. CASE conn_context = "NULL"
      BY <2>2, <3>1 DEF CallRead, End
    <3>2. CASE conn_context # "NULL"
      <4>1. Request("RDMA_READ", o) \in Requests
              /\ PostSend(Request("RDMA_READ", o))
        BY <2>2, <3>2 DEF CallRead, TypeOK, Request, Requests, SendOps
      <4>2. /\ Has(sq, "RDMA_READ")'
            /\ ~Has(sq, "RDMA_READ") => OnlyLast(sq, "RDMA_READ")'
        BY <4>1, PostKinds DEF Request
      <4>3. /\ Len(sq) \in Nat /\ Len(sq') = Len(sq) + 1 /\ sq' # <<>>
            /\ \A k \in 1..Len(sq) : sq'[k] = sq[k]
            /\ sq'[Len(sq) + 1] = Request("RDMA_READ", o) /\ executed' = executed
            /\ executed \in 0..Len(sq)
        BY <4>1, PostFacts DEF TypeOK
      <4>4. sq'[Len(sq')].off = arg'.off /\ executed' # Len(sq') /\ arg'.off = o
        BY <2>2, <4>3 DEF CallRead, Request
      <4>. QED BY <2>2, <3>2, <4>2, <4>3, <4>4 DEF CallRead, Request
    <3>. QED BY <3>1, <3>2
  <2>3. CASE CallDone  BY <2>3 DEF CallDone, End
  <2>. QED BY <1>1, <2>1, <2>2, <2>3 DEF Call
<1>2. CASE MainStep
  <2>1. CASE RdmaInit  BY <2>1 DEF RdmaInit
  <2>2. CASE RdmaInitReturn  BY <2>2 DEF RdmaInitReturn
  <2>3. CASE WriteWait  BY <2>3 DEF WriteWait
  <2>4. CASE WriteCopy  BY <2>4 DEF WriteCopy
  <2>5. CASE WritePost
    <3>1. Request("RDMA_WRITE", arg.off) \in Requests
            /\ PostSend(Request("RDMA_WRITE", arg.off))
      BY <2>5 DEF WritePost, TypeOK, Request, Requests, SendOps
    <3>2. /\ Has(sq, "RDMA_READ")' <=> Has(sq, "RDMA_READ")
          /\ ~Has(sq, "RDMA_READ") => OnlyLast(sq, "RDMA_READ")'
      BY <3>1, PostKinds DEF Request
    <3>3. /\ Len(sq) \in Nat /\ Len(sq') = Len(sq) + 1 /\ sq' # <<>>
          /\ \A k \in 1..Len(sq) : sq'[k] = sq[k]
          /\ sq'[Len(sq) + 1] = Request("RDMA_WRITE", arg.off)
               /\ executed' = executed
          /\ executed \in 0..Len(sq)
      BY <3>1, PostFacts DEF TypeOK
    <3>. QED BY <2>5, <3>2, <3>3 DEF WritePost, Request
  <2>6. CASE ReadWait
    <3>1. read_ops = 1 /\ read_ops' = 0
      BY <2>6 DEF ReadWait
    <3>. QED BY <2>6, <3>1 DEF ReadWait
  <2>7. CASE ReadCopy  BY <2>7 DEF ReadCopy
  <2>8. CASE DonePost
    <3>1. Request("SEND", NoOffset) \in Requests
            /\ PostSend(Request("SEND", NoOffset))
      BY <2>8 DEF DonePost, TypeOK, Request, Requests, SendOps
    <3>2. /\ Has(sq, "RDMA_READ")' <=> Has(sq, "RDMA_READ")
          /\ ~Has(sq, "RDMA_READ") => OnlyLast(sq, "RDMA_READ")'
      BY <3>1, PostKinds DEF Request
    <3>3. /\ Len(sq) \in Nat /\ Len(sq') = Len(sq) + 1 /\ sq' # <<>>
          /\ \A k \in 1..Len(sq) : sq'[k] = sq[k]
          /\ sq'[Len(sq) + 1] = Request("SEND", NoOffset) /\ executed' = executed
          /\ executed \in 0..Len(sq)
      BY <3>1, PostFacts DEF TypeOK
    <3>. QED BY <2>8, <3>2, <3>3 DEF DonePost, Request
  <2>9. CASE DoneReturn  BY <2>9 DEF DoneReturn
  <2>10. CASE Exit  BY <2>10 DEF Exit, End
  <2>. QED BY <1>2, <2>1, <2>2, <2>3, <2>4, <2>5, <2>6, <2>7, <2>8,
           <2>9, <2>10 DEF MainStep
<1>3. CASE CmStep
  <2>1. CASE CmResolveAddr  BY <2>1 DEF CmResolveAddr
  <2>2. CASE CmGetEvent  BY <2>2 DEF CmGetEvent
  <2>3. CASE OnAddrResolved
    BY <2>3, EmptyFacts DEF OnAddrResolved, QuietInv, SetupInv
  <2>4. CASE OnRouteResolved  BY <2>4 DEF OnRouteResolved
  <2>5. CASE OnConnect  BY <2>5 DEF OnConnect
  <2>6. CASE PublishContext  BY <2>6 DEF PublishContext
  <2>7. CASE OnDisconnect
    BY <2>7, EmptyFacts DEF OnDisconnect, SetupInv
  <2>8. CASE OnUnknownEvent  BY <2>8 DEF OnUnknownEvent, End
  <2>. QED BY <1>3, <2>1, <2>2, <2>3, <2>4, <2>5, <2>6, <2>7, <2>8 DEF CmStep
<1>4. CASE PollerStep
  <2>1. CASE PollerGetEvent  BY <2>1 DEF PollerGetEvent
  <2>2. CASE PollerReqNotify  BY <2>2 DEF PollerReqNotify
  <2>3. CASE PollerPoll
    <3>1. CASE cq = <<>>
      BY <2>3, <3>1 DEF PollerPoll
    <3>2. CASE cq # <<>>
      <4>1. /\ Has(cq, "RDMA_READ") <=>
                 (Has(cq, "RDMA_READ")' \/ wc'.op = "RDMA_READ")
            /\ Once(cq, "RDMA_READ") =>
                 Once(cq, "RDMA_READ")' /\ (wc'.op = "RDMA_READ" =>
                   ~Has(cq, "RDMA_READ")')
            /\ Holds(cq, Completion("RDMA_READ", TRUE)) <=>
                 (Holds(cq, Completion("RDMA_READ",
                   TRUE))' \/ wc' = Completion("RDMA_READ", TRUE))
        BY <2>3, <3>2, PollKinds
      <4>2. poller = "poll" /\ poller' = "on_completion"
        BY <2>3, <3>2 DEF PollerPoll
      <4>3. wc' = Completion("RDMA_READ", TRUE) <=> (wc'.op = "RDMA_READ" /\ wc'.ok)
        BY <2>3, <3>2, PollFacts, CompletionIs
      <4>. QED BY <2>3, <4>1, <4>2, <4>3 DEF PollerPoll
    <3>. QED BY <3>1, <3>2
  <2>4. CASE OnError \/ OnFreedConnection
    BY <2>4 DEF OnError, OnFreedConnection, End
  <2>5. CASE OnReceive  BY <2>5 DEF OnReceive
  <2>6. CASE OnSendCompletion
    <3>1. CASE read_ops' = read_ops
      BY <2>6, <3>1 DEF OnSendCompletion
    <3>2. CASE read_ops' # read_ops
      <4>1. InWc("RDMA_READ") /\ wc.ok /\ read_ops' = read_ops + 1
        BY <2>6, <3>2 DEF OnSendCompletion
      <4>2. read_ops' = 1 /\ sq = <<>> /\ ~Has(cq, "RDMA_READ")
              /\ main = "read_wait"
            /\ rdma_local_region = remote[arg.off] /\ link # "error"
        BY <4>1
      <4>. QED BY <2>6, <4>2 DEF OnSendCompletion
    <3>. QED BY <3>1, <3>2
  <2>7. CASE CheckDisconnect  BY <2>7 DEF CheckDisconnect, End
  <2>. QED BY <1>4, <2>1, <2>2, <2>3, <2>4, <2>5, <2>6, <2>7 DEF PollerStep
<1>5. CASE HcaStep
  <2>1. CASE HcaExecute
    <3>1. /\ executed + 1 \in 1..Len(sq) /\ executed < Len(sq) /\ Len(sq) \in Nat
          /\ executed \in Nat
      BY <2>1 DEF HcaExecute, TypeOK
    <3>2. ~ReadArrived
      <4>1. sq # <<>>
        BY <3>1
      <4>. QED BY <4>1
    <3>3. CASE sq[executed + 1].op = "RDMA_READ"
      <4>1. executed + 1 = Len(sq) /\ Has(sq, "RDMA_READ")
        BY <3>1, <3>3, HasAt DEF OnlyLast
      <4>2. rdma_local_region' = remote[arg.off] /\ remote' = remote
        BY <2>1, <3>3, <4>1 DEF HcaExecute
      <4>. QED BY <2>1, <3>2, <4>1, <4>2 DEF HcaExecute
    <3>4. CASE sq[executed + 1].op # "RDMA_READ"
      <4>1. Has(sq, "RDMA_READ") => executed + 1 # Len(sq)
        BY <3>1, <3>4 DEF OnlyLast, Has
      <4>. QED BY <2>1, <3>1, <3>2, <4>1 DEF HcaExecute
    <3>. QED BY <3>3, <3>4
  <2>2. CASE HcaComplete
    <3>1. sq # <<>>
      BY <2>2, CompletedFacts
    <3>2. sq' = Tail(sq) /\ Complete(Completion(Head(sq).op, TRUE))
      BY <2>2 DEF HcaComplete
    <3>3. /\ Has(sq, "RDMA_READ") <=>
               (Has(sq, "RDMA_READ")' \/ sq[1].op = "RDMA_READ")
          /\ OnlyLast(sq, "RDMA_READ") =>
               OnlyLast(sq, "RDMA_READ")' /\ (sq[1].op = "RDMA_READ" => sq' = <<>>)
      BY <3>1, <3>2, TailKinds
    <3>4. /\ Has(cq, "RDMA_READ")' <=>
               (Has(cq, "RDMA_READ") \/ sq[1].op = "RDMA_READ")
          /\ Once(cq, "RDMA_READ")
               /\ (~Has(cq, "RDMA_READ") \/ sq[1].op # "RDMA_READ") =>
                    Once(cq, "RDMA_READ")'
          /\ Holds(cq, Completion("RDMA_READ", TRUE))' <=>
               (Holds(cq, Completion("RDMA_READ", TRUE)) \/ sq[1].op = "RDMA_READ")
      BY <3>1, <3>2, FinishKinds DEF Completion
    <3>5. /\ UNCHANGED <<proc, callVars, poller, wc, semVars, connVars, regions,
               srvVars>>
          /\ link # "error" /\ link' = link
      BY <2>2 DEF HcaComplete
    <3>6. Has(sq, "RDMA_READ")' =>
            /\ sq'[Len(sq')] = sq[Len(sq)]
            /\ executed' = Len(sq') => executed = Len(sq)
      BY <2>2, CompletedFacts
    <3>7. sq[1].op = "RDMA_READ" => executed = Len(sq) \/ executed = 0
      <4> SUFFICES ASSUME sq[1].op = "RDMA_READ"
            PROVE executed = Len(sq) \/ executed = 0
        OBVIOUS
      <4>1. sq' = <<>>
        BY <3>3
      <4>2. Len(sq') = 0
        BY <4>1
      <4>. QED BY <2>2, <4>2, CompletedFacts
    <3>8. executed \in Nat /\ executed > 0
      BY <2>2, CompletedFacts
    <3>9. ~ReadArrived
      BY <3>1
    <3>10. CASE sq[1].op = "RDMA_READ"
      <4>1. /\ sq' = <<>> /\ main = "read_wait"
                 /\ rdma_local_region = remote[arg.off]
            /\ arg.off \in Offsets /\ read_ops # 1
        BY <3>3, <3>7, <3>8, <3>9, <3>10
      <4>. QED BY <3>1, <3>3, <3>4, <3>5, <3>10, <4>1
    <3>11. CASE sq[1].op # "RDMA_READ"
      BY <3>1, <3>3, <3>4, <3>5, <3>6, <3>9, <3>11
    <3>. QED BY <3>10, <3>11
  <2>3. CASE HcaReceive
    <3>1. /\ Has(cq, "RDMA_READ")' <=> Has(cq, "RDMA_READ")
          /\ Once(cq, "RDMA_READ") => Once(cq, "RDMA_READ")'
          /\ Holds(cq, Completion("RDMA_READ", TRUE))' <=>
               Holds(cq, Completion("RDMA_READ", TRUE))
      BY <2>3, ReceiveKinds DEF SendOps, Completion
    <3>. QED BY <2>3, <3>1 DEF HcaReceive
  <2>. QED BY <1>5, <2>1, <2>2, <2>3 DEF HcaStep
<1>6. CASE ServerStep
  <2>1. CASE ServerSendMr  BY <2>1 DEF ServerSendMr, serverFrame
  <2>2. CASE ServerMrSent  BY <2>2 DEF ServerMrSent, serverFrame
  <2>3. CASE ServerSendDone  BY <2>3 DEF ServerSendDone, serverFrame
  <2>4. CASE ServerDisconnect  BY <2>4 DEF ServerDisconnect, serverFrame
  <2>. QED BY <1>6, <2>1, <2>2, <2>3, <2>4 DEF ServerStep
<1>7. CASE CmAnswer  BY <1>7 DEF CmAnswer
<1>8. CASE HcaFail
  <2>1. sq # <<>>
    BY <1>8, FailedFacts
  <2>2. sq' = Tail(sq) /\ Complete(Completion(Head(sq).op, FALSE))
    BY <1>8 DEF HcaFail
  <2>3. /\ Has(sq, "RDMA_READ") <=>
             (Has(sq, "RDMA_READ")' \/ sq[1].op = "RDMA_READ")
        /\ OnlyLast(sq, "RDMA_READ") =>
             OnlyLast(sq, "RDMA_READ")' /\ (sq[1].op = "RDMA_READ" => sq' = <<>>)
    BY <2>1, <2>2, TailKinds
  <2>4. /\ Has(cq, "RDMA_READ")' <=>
             (Has(cq, "RDMA_READ") \/ sq[1].op = "RDMA_READ")
        /\ Once(cq, "RDMA_READ")
             /\ (~Has(cq, "RDMA_READ") \/ sq[1].op # "RDMA_READ") =>
                  Once(cq, "RDMA_READ")'
        /\ Holds(cq, Completion("RDMA_READ", TRUE))' <=>
             Holds(cq, Completion("RDMA_READ", TRUE))
    BY <2>1, <2>2, FinishKinds DEF Completion
  <2>5. /\ UNCHANGED <<proc, callVars, poller, wc, semVars, connVars, regions,
             srvVars>>
        /\ link' = IF link = "up" THEN "error" ELSE link
    BY <1>8 DEF HcaFail
  <2>6. Has(sq, "RDMA_READ")' =>
          /\ sq'[Len(sq')] = sq[Len(sq)]
          /\ executed' = Len(sq') => executed = Len(sq)
    BY <1>8, FailedFacts
  <2>7. sq[1].op = "RDMA_READ" => executed = Len(sq) \/ executed = 0
    <4> SUFFICES ASSUME sq[1].op = "RDMA_READ"
          PROVE executed = Len(sq) \/ executed = 0
      OBVIOUS
    <4>1. sq' = <<>>
      BY <2>3
    <4>2. Len(sq') = 0
      BY <4>1
    <4>. QED BY <1>8, <4>2, FailedFacts
  <2>8. executed \in Nat
    BY <1>8, FailedFacts
  <2>. QED BY <2>1, <2>3, <2>4, <2>5, <2>6, <2>7, <2>8
<1>9. CASE TestFails  BY <1>9 DEF TestFails, End
<1>10. CASE UNCHANGED vars  BY <1>10 DEF vars
<1>. QED BY <1>1, <1>2, <1>3, <1>4, <1>5, <1>6, <1>7, <1>8, <1>9, <1>10 DEF Next

\* DONE is the last request and finds all others carried out.
LEMMA DoneInvStep == IInv /\ [Next]_vars => DoneInv'
<1> SUFFICES ASSUME IInv, [Next]_vars PROVE DoneInv'
  OBVIOUS
<1> TypeOK /\ SetupInv /\ QuietInv /\ WakeupInv /\ SleepInv /\ WriteInv
    /\ ReadInv /\ DoneInv /\ FailInv
  BY DEF IInv
<1> USE DEF DoneInv, Stopping, Outstanding, InWc,
            callVars, semVars, connVars, regions, sqVars, cqVars, srvVars, world
<1>1. CASE Call
  <2>1. ASSUME NEW o \in Offsets, NEW d \in Data, CallWrite(o, d) PROVE DoneInv'
    BY <2>1 DEF CallWrite, End
  <2>2. ASSUME NEW o \in Offsets, CallRead(o) PROVE DoneInv'
    <3>1. CASE conn_context = "NULL"
      BY <2>2, <3>1 DEF CallRead, End
    <3>2. CASE conn_context # "NULL"
      <4>1. Request("RDMA_READ", o) \in Requests
              /\ PostSend(Request("RDMA_READ", o))
        BY <2>2, <3>2 DEF CallRead, TypeOK, Request, Requests, SendOps
      <4>2. /\ Has(sq, "SEND")' <=> Has(sq, "SEND")
            /\ ~Has(sq, "SEND") => OnlyLast(sq, "SEND")'
        BY <4>1, PostKinds DEF Request
      <4>3. /\ Len(sq) \in Nat /\ Len(sq') = Len(sq) + 1 /\ sq' # <<>>
            /\ \A k \in 1..Len(sq) : sq'[k] = sq[k]
            /\ sq'[Len(sq) + 1] = Request("RDMA_READ", o) /\ executed' = executed
            /\ executed \in 0..Len(sq)
        BY <4>1, PostFacts DEF TypeOK
      <4>. QED BY <2>2, <3>2, <4>2, <4>3 DEF CallRead, Request
    <3>. QED BY <3>1, <3>2
  <2>3. CASE CallDone  BY <2>3 DEF CallDone, End
  <2>. QED BY <1>1, <2>1, <2>2, <2>3 DEF Call
<1>2. CASE MainStep
  <2>1. CASE RdmaInit  BY <2>1 DEF RdmaInit
  <2>2. CASE RdmaInitReturn  BY <2>2 DEF RdmaInitReturn
  <2>3. CASE WriteWait  BY <2>3 DEF WriteWait
  <2>4. CASE WriteCopy  BY <2>4 DEF WriteCopy
  <2>5. CASE WritePost
    <3>1. Request("RDMA_WRITE", arg.off) \in Requests
            /\ PostSend(Request("RDMA_WRITE", arg.off))
      BY <2>5 DEF WritePost, TypeOK, Request, Requests, SendOps
    <3>2. /\ Has(sq, "SEND")' <=> Has(sq, "SEND")
          /\ ~Has(sq, "SEND") => OnlyLast(sq, "SEND")'
      BY <3>1, PostKinds DEF Request
    <3>3. /\ Len(sq) \in Nat /\ Len(sq') = Len(sq) + 1 /\ sq' # <<>>
          /\ \A k \in 1..Len(sq) : sq'[k] = sq[k]
          /\ sq'[Len(sq) + 1] = Request("RDMA_WRITE", arg.off)
               /\ executed' = executed
          /\ executed \in 0..Len(sq)
      BY <3>1, PostFacts DEF TypeOK
    <3>. QED BY <2>5, <3>2, <3>3 DEF WritePost, Request
  <2>6. CASE ReadWait  BY <2>6 DEF ReadWait
  <2>7. CASE ReadCopy  BY <2>7 DEF ReadCopy
  <2>8. CASE DonePost
    <3>1. Request("SEND", NoOffset) \in Requests
            /\ PostSend(Request("SEND", NoOffset))
      BY <2>8 DEF DonePost, TypeOK, Request, Requests, SendOps
    <3>2. /\ Has(sq, "SEND")'
          /\ ~Has(sq, "SEND") => OnlyLast(sq, "SEND")'
      BY <3>1, PostKinds DEF Request
    <3>3. /\ Len(sq) \in Nat /\ Len(sq') = Len(sq) + 1 /\ sq' # <<>>
          /\ \A k \in 1..Len(sq) : sq'[k] = sq[k]
          /\ sq'[Len(sq) + 1] = Request("SEND", NoOffset) /\ executed' = executed
          /\ executed \in 0..Len(sq)
      BY <3>1, PostFacts DEF TypeOK
    <3>. QED BY <2>8, <3>2, <3>3 DEF DonePost, Request
  <2>9. CASE DoneReturn  BY <2>9 DEF DoneReturn
  <2>10. CASE Exit  BY <2>10 DEF Exit, End
  <2>. QED BY <1>2, <2>1, <2>2, <2>3, <2>4, <2>5, <2>6, <2>7, <2>8,
           <2>9, <2>10 DEF MainStep
<1>3. CASE CmStep
  <2>1. CASE CmResolveAddr  BY <2>1 DEF CmResolveAddr
  <2>2. CASE CmGetEvent  BY <2>2 DEF CmGetEvent
  <2>3. CASE OnAddrResolved  BY <2>3 DEF OnAddrResolved
  <2>4. CASE OnRouteResolved  BY <2>4 DEF OnRouteResolved
  <2>5. CASE OnConnect  BY <2>5 DEF OnConnect
  <2>6. CASE PublishContext  BY <2>6 DEF PublishContext
  <2>7. CASE OnDisconnect
    BY <2>7, EmptyFacts DEF OnDisconnect, SetupInv
  <2>8. CASE OnUnknownEvent  BY <2>8 DEF OnUnknownEvent, End
  <2>. QED BY <1>3, <2>1, <2>2, <2>3, <2>4, <2>5, <2>6, <2>7, <2>8 DEF CmStep
<1>4. CASE PollerStep
  <2>1. CASE PollerGetEvent  BY <2>1 DEF PollerGetEvent
  <2>2. CASE PollerReqNotify  BY <2>2 DEF PollerReqNotify
  <2>3. CASE PollerPoll
    <3>1. CASE cq = <<>>
      BY <2>3, <3>1 DEF PollerPoll
    <3>2. CASE cq # <<>>
      <4>1. /\ Has(cq, "SEND") <=> (Has(cq, "SEND")' \/ wc'.op = "SEND")
        BY <2>3, <3>2, PollKinds
      <4>2. poller = "poll" /\ poller' = "on_completion"
        BY <2>3, <3>2 DEF PollerPoll
      <4>. QED BY <2>3, <4>1, <4>2 DEF PollerPoll
    <3>. QED BY <3>1, <3>2
  <2>4. CASE OnError \/ OnFreedConnection
    BY <2>4 DEF OnError, OnFreedConnection, End
  <2>5. CASE OnReceive  BY <2>5 DEF OnReceive
  <2>6. CASE OnSendCompletion  BY <2>6 DEF OnSendCompletion
  <2>7. CASE CheckDisconnect  BY <2>7 DEF CheckDisconnect, End, TypeOK
  <2>. QED BY <1>4, <2>1, <2>2, <2>3, <2>4, <2>5, <2>6, <2>7 DEF PollerStep
<1>5. CASE HcaStep
  <2>1. CASE HcaExecute
    <3>1. /\ executed + 1 \in 1..Len(sq) /\ executed < Len(sq) /\ Len(sq) \in Nat
          /\ executed \in Nat
      BY <2>1 DEF HcaExecute, TypeOK
    <3>2. CASE sq[executed + 1].op = "SEND"
      <4>1. executed + 1 = Len(sq) /\ Has(sq, "SEND")
        BY <3>1, <3>2, HasAt DEF OnlyLast
      <4>. QED BY <2>1, <3>1, <4>1 DEF HcaExecute
    <3>3. CASE sq[executed + 1].op # "SEND"
      BY <2>1, <3>1, <3>3 DEF HcaExecute
    <3>. QED BY <3>2, <3>3
  <2>2. CASE HcaComplete
    <3>1. sq # <<>>
      BY <2>2, CompletedFacts
    <3>2. sq' = Tail(sq) /\ Complete(Completion(Head(sq).op, TRUE))
      BY <2>2 DEF HcaComplete
    <3>3. /\ Has(sq, "SEND") <=> (Has(sq, "SEND")' \/ sq[1].op = "SEND")
          /\ OnlyLast(sq, "SEND") =>
               OnlyLast(sq, "SEND")' /\ (sq[1].op = "SEND" => sq' = <<>>)
      BY <3>1, <3>2, TailKinds
    <3>4. /\ Has(cq, "SEND")' <=> (Has(cq, "SEND") \/ sq[1].op = "SEND")
      BY <3>1, <3>2, FinishKinds
    <3>5. /\ UNCHANGED <<proc, callVars, poller, wc, semVars, connVars, regions,
               srvVars>>
          /\ link # "error" /\ link' = link
      BY <2>2 DEF HcaComplete
    <3>6. executed = Len(sq) => executed' = Len(sq')
      BY <2>2, CompletedFacts
    <3>. QED BY <3>1, <3>3, <3>4, <3>5, <3>6
  <2>3. CASE HcaReceive
    <3>1. /\ Has(cq, "SEND")' <=> Has(cq, "SEND")
      BY <2>3, ReceiveKinds DEF SendOps
    <3>. QED BY <2>3, <3>1 DEF HcaReceive
  <2>. QED BY <1>5, <2>1, <2>2, <2>3 DEF HcaStep
<1>6. CASE ServerStep
  <2>1. CASE ServerSendMr  BY <2>1 DEF ServerSendMr, serverFrame
  <2>2. CASE ServerMrSent  BY <2>2 DEF ServerMrSent, serverFrame
  <2>3. CASE ServerSendDone  BY <2>3 DEF ServerSendDone, serverFrame
  <2>4. CASE ServerDisconnect  BY <2>4 DEF ServerDisconnect, serverFrame
  <2>. QED BY <1>6, <2>1, <2>2, <2>3, <2>4 DEF ServerStep
<1>7. CASE CmAnswer  BY <1>7 DEF CmAnswer
<1>8. CASE HcaFail
  <2>1. sq # <<>>
    BY <1>8, FailedFacts
  <2>2. sq' = Tail(sq) /\ Complete(Completion(Head(sq).op, FALSE))
    BY <1>8 DEF HcaFail
  <2>3. /\ Has(sq, "SEND") <=> (Has(sq, "SEND")' \/ sq[1].op = "SEND")
        /\ OnlyLast(sq, "SEND") =>
             OnlyLast(sq, "SEND")' /\ (sq[1].op = "SEND" => sq' = <<>>)
    BY <2>1, <2>2, TailKinds
  <2>4. /\ Has(cq, "SEND")' <=> (Has(cq, "SEND") \/ sq[1].op = "SEND")
    BY <2>1, <2>2, FinishKinds
  <2>5. /\ UNCHANGED <<proc, callVars, poller, wc, semVars, connVars, regions,
             srvVars>>
        /\ link' = IF link = "up" THEN "error" ELSE link
    BY <1>8 DEF HcaFail
  <2>6. executed = Len(sq) => executed' = Len(sq')
    BY <1>8, FailedFacts
  <2>. QED BY <2>1, <2>3, <2>4, <2>5, <2>6
<1>9. CASE TestFails  BY <1>9 DEF TestFails, End
<1>10. CASE UNCHANGED vars  BY <1>10 DEF vars
<1>. QED BY <1>1, <1>2, <1>3, <1>4, <1>5, <1>6, <1>7, <1>8, <1>9, <1>10 DEF Next

\* A failed request stops its caller.
LEMMA FailInvStep == IInv /\ [Next]_vars => FailInv'
<1> SUFFICES ASSUME IInv, [Next]_vars PROVE FailInv'
  OBVIOUS
<1> TypeOK /\ SetupInv /\ QuietInv /\ WakeupInv /\ SleepInv /\ WriteInv
    /\ ReadInv /\ DoneInv /\ FailInv
  BY DEF IInv
<1> USE DEF FailInv, Stopping, Failed, InWc, Running,
            callVars, semVars, connVars, regions, sqVars, cqVars, srvVars, world
<1>1. CASE Call
  <2>1. ASSUME NEW o \in Offsets, NEW d \in Data, CallWrite(o, d) PROVE FailInv'
    BY <2>1 DEF CallWrite, End
  <2>2. ASSUME NEW o \in Offsets, CallRead(o) PROVE FailInv'
    BY <2>2 DEF CallRead, End
  <2>3. CASE CallDone  BY <2>3 DEF CallDone, End
  <2>. QED BY <1>1, <2>1, <2>2, <2>3 DEF Call
<1>2. CASE MainStep
  <2>1. CASE RdmaInit  BY <2>1 DEF RdmaInit
  <2>2. CASE RdmaInitReturn  BY <2>2 DEF RdmaInitReturn
  <2>3. CASE WriteWait  BY <2>3 DEF WriteWait
  <2>4. CASE WriteCopy  BY <2>4 DEF WriteCopy
  <2>5. CASE WritePost  BY <2>5 DEF WritePost
  <2>6. CASE ReadWait  BY <2>6 DEF ReadWait
  <2>7. CASE ReadCopy  BY <2>7 DEF ReadCopy
  <2>8. CASE DonePost  BY <2>8 DEF DonePost
  <2>9. CASE DoneReturn  BY <2>9 DEF DoneReturn
  <2>10. CASE Exit  BY <2>10 DEF Exit, End
  <2>. QED BY <1>2, <2>1, <2>2, <2>3, <2>4, <2>5, <2>6, <2>7, <2>8,
           <2>9, <2>10 DEF MainStep
<1>3. CASE CmStep
  <2>1. CASE CmResolveAddr  BY <2>1 DEF CmResolveAddr
  <2>2. CASE CmGetEvent  BY <2>2 DEF CmGetEvent
  <2>3. CASE OnAddrResolved  BY <2>3 DEF OnAddrResolved
  <2>4. CASE OnRouteResolved  BY <2>4 DEF OnRouteResolved
  <2>5. CASE OnConnect  BY <2>5 DEF OnConnect
  <2>6. CASE PublishContext  BY <2>6 DEF PublishContext
  <2>7. CASE OnDisconnect  BY <2>7 DEF OnDisconnect, SetupInv
  <2>8. CASE OnUnknownEvent  BY <2>8 DEF OnUnknownEvent, End
  <2>. QED BY <1>3, <2>1, <2>2, <2>3, <2>4, <2>5, <2>6, <2>7, <2>8 DEF CmStep
<1>4. CASE PollerStep
  <2>1. CASE PollerGetEvent  BY <2>1 DEF PollerGetEvent
  <2>2. CASE PollerReqNotify  BY <2>2 DEF PollerReqNotify
  <2>3. CASE PollerPoll
    <3>1. CASE cq = <<>>
      BY <2>3, <3>1 DEF PollerPoll
    <3>2. CASE cq # <<>>
      <4>1. \A op : Holds(cq, Completion(op, FALSE)) <=>
                     (Holds(cq, Completion(op, FALSE))' \/ (wc'.op = op /\ ~wc'.ok))
        BY <2>3, <3>2, PollKinds, PollFacts, CompletionIs
      <4>2. poller = "poll" /\ poller' = "on_completion"
        BY <2>3, <3>2 DEF PollerPoll
      <4>. QED BY <2>3, <4>1, <4>2 DEF PollerPoll
    <3>. QED BY <3>1, <3>2
  <2>4. CASE OnError \/ OnFreedConnection
    BY <2>4 DEF OnError, OnFreedConnection, End
  <2>5. CASE OnReceive  BY <2>5 DEF OnReceive
  <2>6. CASE OnSendCompletion  BY <2>6 DEF OnSendCompletion
  <2>7. CASE CheckDisconnect  BY <2>7 DEF CheckDisconnect, End
  <2>. QED BY <1>4, <2>1, <2>2, <2>3, <2>4, <2>5, <2>6, <2>7 DEF PollerStep
<1>5. CASE HcaStep
  <2>1. CASE HcaExecute  BY <2>1 DEF HcaExecute
  <2>2. CASE HcaComplete  BY <2>2 DEF HcaComplete
  <2>3. CASE HcaReceive
    <3>1. \A op \in SendOps : Holds(cq, Completion(op, FALSE))' <=>
                                 Holds(cq, Completion(op, FALSE))
      BY <2>3, ReceiveKinds DEF Completion
    <3>. QED BY <2>3, <3>1 DEF HcaReceive, SendOps
  <2>. QED BY <1>5, <2>1, <2>2, <2>3 DEF HcaStep
<1>6. CASE ServerStep
  <2>1. CASE ServerSendMr  BY <2>1 DEF ServerSendMr, serverFrame
  <2>2. CASE ServerMrSent  BY <2>2 DEF ServerMrSent, serverFrame
  <2>3. CASE ServerSendDone  BY <2>3 DEF ServerSendDone, serverFrame
  <2>4. CASE ServerDisconnect  BY <2>4 DEF ServerDisconnect, serverFrame
  <2>. QED BY <1>6, <2>1, <2>2, <2>3, <2>4 DEF ServerStep
<1>7. CASE CmAnswer  BY <1>7 DEF CmAnswer
<1>8. CASE HcaFail
  <2>1. sq # <<>> /\ sq' = Tail(sq) /\ Complete(Completion(Head(sq).op, FALSE))
    BY <1>8, FailedFacts DEF HcaFail
  <2>2. \A op : Holds(cq, Completion(op, FALSE))' <=>
                 (Holds(cq, Completion(op, FALSE)) \/ sq[1].op = op)
    BY <2>1, FinishKinds DEF Completion
  <2>3. sq[1].op \in SendOps /\ Has(sq, sq[1].op)
    BY <1>8, FailedFacts, HasAt
  <2>4. sq[1].op = "SEND" => main \in Stopping
    BY <2>3 DEF DoneInv, Outstanding
  <2>. QED BY <1>8, <2>2, <2>3, <2>4 DEF HcaFail, SendOps
<1>9. CASE TestFails  BY <1>9 DEF TestFails, End
<1>10. CASE UNCHANGED vars  BY <1>10 DEF vars
<1>. QED BY <1>1, <1>2, <1>3, <1>4, <1>5, <1>6, <1>7, <1>8, <1>9, <1>10 DEF Next

-----------------------------------------------------------------------------
(***************************************************************************)
(* The invariant holds, and the safety properties follow from it.          *)
(***************************************************************************)

\* Nothing is posted, connected or running at the start.
LEMMA InitIInv == Init => IInv
<1> SUFFICES ASSUME Init PROVE IInv
  OBVIOUS
<1>1. TypeOK  BY InitTypeOK
<1>2. /\ sq = <<>> /\ cq = <<>>
      /\ \A op : ~Has(sq, op) /\ ~Has(cq, op) /\ Once(sq, op) /\ Once(cq, op)
      /\ \A op : OnlyLast(sq, op)
      /\ \A c : ~Holds(cq, c)
  BY EmptyFacts DEF Init
<1>3. SetupInv  BY DEF Init, SetupInv, Answer
<1>4. QuietInv  BY DEF Init, QuietInv
<1>5. WakeupInv /\ SleepInv  BY DEF Init, WakeupInv, SleepInv
<1>6. WriteInv
  BY <1>2 DEF Init, WriteInv, Writing, Outstanding, InWc
<1>7. ReadInv
  <2>1. /\ ~Has(sq, "RDMA_READ") /\ ~Has(cq, "RDMA_READ")
        /\ OnlyLast(sq, "RDMA_READ") /\ Once(cq, "RDMA_READ")
        /\ ~Holds(cq, Completion("RDMA_READ", TRUE))
    BY <1>2
  <2>2. main = "start" /\ read_ops = 0 /\ read_ops # 1 /\ ~InWc("RDMA_READ")
    BY DEF Init, InWc
  <2>3. ~ReadArrived
    BY <2>1, <2>2 DEF ReadArrived
  <2>. QED BY <2>1, <2>2, <2>3 DEF ReadInv, Outstanding, InWc
<1>8. DoneInv
  BY <1>2 DEF Init, DoneInv, Stopping, Outstanding, InWc
<1>9. FailInv  BY DEF Init, FailInv
<1>. QED BY <1>1, <1>3, <1>4, <1>5, <1>6, <1>7, <1>8, <1>9 DEF IInv

\* Every state the client, the adapter and the server can reach satisfies the
\* inductive invariant.
THEOREM Invariance == Spec => []IInv
<1>1. Init => IInv
  BY InitIInv
<1>2. IInv /\ [Next]_vars => IInv'
  BY TypeOKStep, SetupInvStep, QuietInvStep, WakeupInvStep, SleepInvStep,
     WriteInvStep, ReadInvStep, DoneInvStep, FailInvStep DEF IInv
<1>. QED BY <1>1, <1>2, PTL DEF Spec

\* Every variable keeps its type: in particular no sem_wait of the caller
\* passes a semaphore that is 0, and no completion is taken from an empty queue.
THEOREM TypeCorrect == Spec => []TypeOK
<1>1. IInv => TypeOK
  BY DEF IInv
<1>. QED BY <1>1, Invariance, PTL

\* rdma_write_offset never overwrites the region while an earlier WRITE may
\* still be read from it.
THEOREM RegionIsExclusive == Spec => []RegionExclusive
<1>1. IInv => RegionExclusive
  BY DEF IInv, WriteInv, Writing, RegionExclusive
<1>. QED BY <1>1, Invariance, PTL

\* When a read is there, all writes have been carried out, and the region holds
\* the server's memory.
LEMMA ReadFreshInv == IInv => ReadFresh
<1> SUFFICES ASSUME IInv, main = "read_copy"
             PROVE  rdma_local_region = Memory[arg.off]
  BY DEF ReadFresh
<1>1. sq = <<>> /\ rdma_local_region = remote[arg.off] /\ arg.off \in Offsets
  BY DEF IInv, ReadInv, ReadArrived
<1>2. executed \in Nat
  BY DEF IInv, TypeOK
<1>3. ~\E i \in (executed + 1)..Len(sq) : sq[i] = Request("RDMA_WRITE", arg.off)
  BY <1>1, <1>2
<1>. QED BY <1>1, <1>3 DEF Memory

\* rdma_read_offset returns what was last written to its page.
THEOREM ReadsAreFresh == Spec => []ReadFresh
BY ReadFreshInv, Invariance, PTL

\* poll_cq does not wait for an event while completions are queued and none is
\* on its way.
THEOREM WakeupsAreKept == Spec => []NoLostWakeup
<1>1. IInv => NoLostWakeup
  BY DEF IInv, WakeupInv, SleepInv, NoLostWakeup
<1>. QED BY <1>1, Invariance, PTL

\* The API functions never follow a dangling conn_context.
THEOREM CallersConnIsLive == Spec => []CallerConnLive
<1>1. IInv => CallerConnLive
  <2> SUFFICES ASSUME IInv,
                      main \in {"write_wait", "write_copy", "write_post",
                                "read_wait", "read_copy", "done_spin"}
               PROVE  conn = "live"
    BY DEF CallerConnLive
  <2>1. conn # "none"
    BY DEF IInv, QuietInv
  <2>2. conn = "freed" => main \in Stopping
    BY DEF IInv, SetupInv, DoneInv
  <2>. QED BY <2>1, <2>2 DEF IInv, TypeOK, Stopping
<1>. QED BY <1>1, Invariance, PTL

\* on_connection marks the connection before it publishes it, and no connection
\* is built once one is published.
LEMMA ConnectedStep == IInv /\ ConnectedInv /\ [Next]_vars => ConnectedInv'
<1> SUFFICES ASSUME IInv, ConnectedInv, [Next]_vars PROVE ConnectedInv'
  OBVIOUS
<1> TypeOK /\ SetupInv /\ QuietInv
  BY DEF IInv
<1> USE DEF ConnectedInv,
            callVars, semVars, connVars, regions, sqVars, cqVars, srvVars, world
<1>1. CASE Call
  <2>1. ASSUME NEW o \in Offsets, NEW d \in Data, CallWrite(o, d) PROVE ConnectedInv'
    BY <2>1 DEF CallWrite, End
  <2>2. ASSUME NEW o \in Offsets, CallRead(o) PROVE ConnectedInv'
    BY <2>2 DEF CallRead, End
  <2>3. CASE CallDone  BY <2>3 DEF CallDone, End
  <2>. QED BY <1>1, <2>1, <2>2, <2>3 DEF Call
<1>2. CASE MainStep
  <2>1. CASE RdmaInit  BY <2>1 DEF RdmaInit
  <2>2. CASE RdmaInitReturn  BY <2>2 DEF RdmaInitReturn
  <2>3. CASE WriteWait  BY <2>3 DEF WriteWait
  <2>4. CASE WriteCopy  BY <2>4 DEF WriteCopy
  <2>5. CASE WritePost  BY <2>5 DEF WritePost
  <2>6. CASE ReadWait  BY <2>6 DEF ReadWait
  <2>7. CASE ReadCopy  BY <2>7 DEF ReadCopy
  <2>8. CASE DonePost  BY <2>8 DEF DonePost
  <2>9. CASE DoneReturn  BY <2>9 DEF DoneReturn
  <2>10. CASE Exit  BY <2>10 DEF Exit, End
  <2>. QED BY <1>2, <2>1, <2>2, <2>3, <2>4, <2>5, <2>6, <2>7, <2>8,
           <2>9, <2>10 DEF MainStep
<1>3. CASE CmStep
  <2>1. CASE CmResolveAddr  BY <2>1 DEF CmResolveAddr
  <2>2. CASE CmGetEvent
    <3>1. cmEvents \in Seq(CmEventTypes) /\ cmEvents # <<>>
      BY <2>2 DEF CmGetEvent, TypeOK
    <3>2. Head(cmEvents) # "publish"
      BY <3>1 DEF CmEventTypes
    <3>. QED BY <2>2, <3>2 DEF CmGetEvent
  <2>3. CASE OnAddrResolved  BY <2>3 DEF OnAddrResolved, SetupInv, QuietInv
  <2>4. CASE OnRouteResolved  BY <2>4 DEF OnRouteResolved
  <2>5. CASE OnConnect  BY <2>5 DEF OnConnect
  <2>6. CASE PublishContext  BY <2>6 DEF PublishContext
  <2>7. CASE OnDisconnect  BY <2>7 DEF OnDisconnect
  <2>8. CASE OnUnknownEvent  BY <2>8 DEF OnUnknownEvent, End
  <2>. QED BY <1>3, <2>1, <2>2, <2>3, <2>4, <2>5, <2>6, <2>7, <2>8 DEF CmStep
<1>4. CASE PollerStep
  <2>1. CASE PollerGetEvent  BY <2>1 DEF PollerGetEvent
  <2>2. CASE PollerReqNotify  BY <2>2 DEF PollerReqNotify
  <2>3. CASE PollerPoll  BY <2>3 DEF PollerPoll
  <2>4. CASE OnError \/ OnFreedConnection
    BY <2>4 DEF OnError, OnFreedConnection, End
  <2>5. CASE OnReceive  BY <2>5 DEF OnReceive
  <2>6. CASE OnSendCompletion  BY <2>6 DEF OnSendCompletion
  <2>7. CASE CheckDisconnect  BY <2>7 DEF CheckDisconnect, End
  <2>. QED BY <1>4, <2>1, <2>2, <2>3, <2>4, <2>5, <2>6, <2>7 DEF PollerStep
<1>5. CASE HcaStep
  <2>1. CASE HcaExecute  BY <2>1 DEF HcaExecute
  <2>2. CASE HcaComplete  BY <2>2 DEF HcaComplete
  <2>3. CASE HcaReceive  BY <2>3 DEF HcaReceive
  <2>. QED BY <1>5, <2>1, <2>2, <2>3 DEF HcaStep
<1>6. CASE ServerStep
  <2>1. CASE ServerSendMr  BY <2>1 DEF ServerSendMr, serverFrame
  <2>2. CASE ServerMrSent  BY <2>2 DEF ServerMrSent, serverFrame
  <2>3. CASE ServerSendDone  BY <2>3 DEF ServerSendDone, serverFrame
  <2>4. CASE ServerDisconnect  BY <2>4 DEF ServerDisconnect, serverFrame
  <2>. QED BY <1>6, <2>1, <2>2, <2>3, <2>4 DEF ServerStep
<1>7. CASE CmAnswer  BY <1>7 DEF CmAnswer
<1>8. CASE HcaFail  BY <1>8 DEF HcaFail
<1>9. CASE TestFails  BY <1>9 DEF TestFails, End
<1>10. CASE UNCHANGED vars  BY <1>10 DEF vars
<1>. QED BY <1>1, <1>2, <1>3, <1>4, <1>5, <1>6, <1>7, <1>8, <1>9, <1>10 DEF Next

\* The loop of send_message, which spins on conn->connected without a bound, is
\* left at once.
THEOREM SpinsNeverWait == Spec => []SpinNeverWaits
<1>1. Init => ConnectedInv
  BY DEF Init, ConnectedInv
<1>2. IInv /\ ConnectedInv => SpinNeverWaits
  BY DEF IInv, QuietInv, ConnectedInv, SpinNeverWaits
<1>. QED BY <1>1, <1>2, ConnectedStep, Invariance, PTL DEF Spec

-----------------------------------------------------------------------------
(***************************************************************************)
(* How much is under way.                                                  *)
(***************************************************************************)

\* A receive is posted only when no other is posted or unseen: for the server's
\* MR when the connection is built, for its DONE when the MR has been seen.
LEMMA ReceiveStep == IInv /\ ReceiveInv /\ [Next]_vars => ReceiveInv'
<1> SUFFICES ASSUME IInv, ReceiveInv, [Next]_vars PROVE ReceiveInv'
  OBVIOUS
<1> TypeOK /\ SetupInv /\ QuietInv /\ DoneInv
  BY DEF IInv
<1> USE DEF ReceiveInv, InWc,
            callVars, semVars, connVars, regions, sqVars, cqVars, srvVars, world
<1>1. CASE Call
  <2>1. ASSUME NEW o \in Offsets, NEW d \in Data, CallWrite(o, d) PROVE ReceiveInv'
    BY <2>1 DEF CallWrite, End
  <2>2. ASSUME NEW o \in Offsets, CallRead(o) PROVE ReceiveInv'
    BY <2>2 DEF CallRead, End
  <2>3. CASE CallDone  BY <2>3 DEF CallDone, End
  <2>. QED BY <1>1, <2>1, <2>2, <2>3 DEF Call
<1>2. CASE MainStep
  <2>1. CASE RdmaInit  BY <2>1 DEF RdmaInit
  <2>2. CASE RdmaInitReturn  BY <2>2 DEF RdmaInitReturn
  <2>3. CASE WriteWait  BY <2>3 DEF WriteWait
  <2>4. CASE WriteCopy  BY <2>4 DEF WriteCopy
  <2>5. CASE WritePost  BY <2>5 DEF WritePost
  <2>6. CASE ReadWait  BY <2>6 DEF ReadWait
  <2>7. CASE ReadCopy  BY <2>7 DEF ReadCopy
  <2>8. CASE DonePost  BY <2>8 DEF DonePost
  <2>9. CASE DoneReturn  BY <2>9 DEF DoneReturn
  <2>10. CASE Exit  BY <2>10 DEF Exit, End
  <2>. QED BY <1>2, <2>1, <2>2, <2>3, <2>4, <2>5, <2>6, <2>7, <2>8,
           <2>9, <2>10 DEF MainStep
<1>3. CASE CmStep
  <2>1. CASE CmResolveAddr  BY <2>1 DEF CmResolveAddr
  <2>2. CASE CmGetEvent  BY <2>2 DEF CmGetEvent
  <2>3. CASE OnAddrResolved
    <3>1. cq = <<>> /\ cq' = <<>>
      BY <2>3 DEF OnAddrResolved, SetupInv, QuietInv
    <3>. QED BY <2>3, <3>1, EmptyFacts DEF OnAddrResolved
  <2>4. CASE OnRouteResolved  BY <2>4 DEF OnRouteResolved
  <2>5. CASE OnConnect  BY <2>5 DEF OnConnect
  <2>6. CASE PublishContext  BY <2>6 DEF PublishContext
  <2>7. CASE OnDisconnect
    <3>1. cq' = <<>> /\ rq' = 0
      BY <2>7 DEF OnDisconnect
    <3>. QED BY <3>1, EmptyFacts
  <2>8. CASE OnUnknownEvent  BY <2>8 DEF OnUnknownEvent, End
  <2>. QED BY <1>3, <2>1, <2>2, <2>3, <2>4, <2>5, <2>6, <2>7, <2>8 DEF CmStep
<1>4. CASE PollerStep
  <2>1. CASE PollerGetEvent  BY <2>1 DEF PollerGetEvent
  <2>2. CASE PollerReqNotify  BY <2>2 DEF PollerReqNotify
  <2>3. CASE PollerPoll
    <3>1. CASE cq = <<>>  BY <2>3, <3>1 DEF PollerPoll
    <3>2. CASE cq # <<>>
      <4>1. /\ \A op : Has(cq, op) <=> (Has(cq, op)' \/ wc'.op = op)
            /\ \A op : Once(cq, op) => Once(cq, op)' /\ (wc'.op = op =>
                  ~Has(cq, op)')
        BY <2>3, <3>2, PollKinds
      <4>2. rq' = rq /\ recv_state' = recv_state
        BY <2>3 DEF PollerPoll
      <4>. QED BY <4>1, <4>2
    <3>. QED BY <3>1, <3>2
  <2>4. CASE OnError \/ OnFreedConnection
    BY <2>4 DEF OnError, OnFreedConnection, End
  <2>5. CASE OnReceive
    <3>1. rq = 0 /\ ~Has(cq, "RECV")
      BY <2>5 DEF OnReceive, TypeOK
    <3>2. /\ cq' = cq /\ poller' = "check"
          /\ \/ rq' = 1 /\ recv_state' = "RS_MR_RECV"
             \/ rq' = 0
      BY <2>5, <3>1 DEF OnReceive
    <3>. QED BY <3>1, <3>2
  <2>6. CASE OnSendCompletion  BY <2>6 DEF OnSendCompletion
  <2>7. CASE CheckDisconnect  BY <2>7 DEF CheckDisconnect, End
  <2>. QED BY <1>4, <2>1, <2>2, <2>3, <2>4, <2>5, <2>6, <2>7 DEF PollerStep
<1>5. CASE HcaStep
  <2>1. CASE HcaExecute  BY <2>1 DEF HcaExecute
  <2>2. CASE HcaComplete
    <3>1. sq # <<>> /\ sq' = Tail(sq) /\ Complete(Completion(Head(sq).op, TRUE))
          /\ sq[1].op \in SendOps
      BY <2>2, CompletedFacts DEF HcaComplete
    <3>2. rq' = rq /\ recv_state' = recv_state /\ poller' = poller /\ wc' = wc
      BY <2>2 DEF HcaComplete
    <3>3. /\ \A op : Has(cq, op)' <=> (Has(cq, op) \/ sq[1].op = op)
          /\ \A op : Once(cq, op) /\ (~Has(cq, op) \/ sq[1].op # op) =>
                Once(cq, op)'
      BY <3>1, FinishKinds
    <3>4. ~Has(cq, "SEND") /\ sq[1].op # "RECV"
      BY <3>1 DEF DoneInv, SendOps
    <3>. QED BY <3>2, <3>3, <3>4
  <2>3. CASE HcaReceive
    <3>1. /\ \A op : Has(cq, op)' <=> (Has(cq, op) \/ "RECV" = op)
          /\ \A op : Once(cq, op) /\ (~Has(cq, op) \/ "RECV" # op) => Once(cq, op)'
      <4>. DEFINE c == Completion("RECV", TRUE)
      <4>1. c \in Completions /\ c.op = "RECV"  BY DEF Completion, Completions
      <4>2. Complete(c)  BY <2>3 DEF HcaReceive
      <4>. HIDE DEF c
      <4>. QED BY <4>1, <4>2, CompleteKinds
    <3>2. rq = 1 /\ rq' = 0 /\ poller' = poller /\ wc' = wc
      BY <2>3 DEF HcaReceive, TypeOK
    <3>. QED BY <3>1, <3>2
  <2>. QED BY <1>5, <2>1, <2>2, <2>3 DEF HcaStep
<1>6. CASE ServerStep
  <2>1. CASE ServerSendMr  BY <2>1 DEF ServerSendMr, serverFrame
  <2>2. CASE ServerMrSent  BY <2>2 DEF ServerMrSent, serverFrame
  <2>3. CASE ServerSendDone  BY <2>3 DEF ServerSendDone, serverFrame
  <2>4. CASE ServerDisconnect  BY <2>4 DEF ServerDisconnect, serverFrame
  <2>. QED BY <1>6, <2>1, <2>2, <2>3, <2>4 DEF ServerStep
<1>7. CASE CmAnswer  BY <1>7 DEF CmAnswer
<1>8. CASE HcaFail
  <2>1. sq # <<>> /\ sq' = Tail(sq) /\ Complete(Completion(Head(sq).op, FALSE))
        /\ sq[1].op \in SendOps
    BY <1>8, FailedFacts DEF HcaFail
  <2>2. rq' = rq /\ recv_state' = recv_state /\ poller' = poller /\ wc' = wc
    BY <1>8 DEF HcaFail
  <2>3. /\ \A op : Has(cq, op)' <=> (Has(cq, op) \/ sq[1].op = op)
        /\ \A op : Once(cq, op) /\ (~Has(cq, op) \/ sq[1].op # op) =>
              Once(cq, op)'
    BY <2>1, FinishKinds
  <2>4. ~Has(cq, "SEND") /\ sq[1].op # "RECV"
    BY <2>1 DEF DoneInv, SendOps
  <2>. QED BY <2>2, <2>3, <2>4
<1>9. CASE TestFails  BY <1>9 DEF TestFails, End
<1>10. CASE UNCHANGED vars  BY <1>10 DEF vars
<1>. QED BY <1>1, <1>2, <1>3, <1>4, <1>5, <1>6, <1>7, <1>8, <1>9, <1>10 DEF Next

\* Receives are counted right in every state.
LEMMA ReceivesCounted == Spec => []ReceiveInv
<1>1. Init => ReceiveInv
  BY EmptyFacts DEF Init, ReceiveInv, InWc
<1>. QED BY <1>1, ReceiveStep, Invariance, PTL DEF Spec

\* The rdma_disconnect of on_completion finds no request and no receive on the
\* queue pair that it would flush, and so fails none in the middle of a successful
\* shutdown.
THEOREM DisconnectIsClean == Spec => []DisconnectClean
<1>1. IInv /\ ReceiveInv => DisconnectClean
  BY DEF IInv, TypeOK, DoneInv, ReceiveInv, DisconnectClean
<1>. QED BY <1>1, ReceivesCounted, Invariance, PTL

\* A queue with at most one entry of each of three kinds, and no others, has at
\* most as many entries as kinds.
LEMMA KindsBound ==
    ASSUME NEW S, NEW q \in Seq(S), NEW A, NEW B, NEW C,
           Once(q, A), Once(q, B), Once(q, C),
           \A k \in 1..Len(q) : q[k].op \in {A, B, C}
    PROVE  /\ Len(q) <= 3
           /\ ~Has(q, C) => Len(q) <= 2
           /\ ~Has(q, C) /\ ~Has(q, B) => Len(q) <= 1
<1>1. Len(q) \in Nat
  OBVIOUS
<1>2. Len(q) <= 3
  <2>1. SUFFICES ASSUME 1 \in 1..Len(q), 2 \in 1..Len(q), 3 \in 1..Len(q),
                        4 \in 1..Len(q)
                 PROVE  FALSE
    BY <1>1
  <2>. QED BY <2>1 DEF Once
<1>3. ~Has(q, C) => Len(q) <= 2
  <2>1. SUFFICES ASSUME 1 \in 1..Len(q), 2 \in 1..Len(q), 3 \in 1..Len(q),
                        ~Has(q, C)
                 PROVE  FALSE
    BY <1>1
  <2>. QED BY <2>1 DEF Once, Has
<1>4. ~Has(q, C) /\ ~Has(q, B) => Len(q) <= 1
  <2>1. SUFFICES ASSUME 1 \in 1..Len(q), 2 \in 1..Len(q), ~Has(q, C), ~Has(q, B)
                 PROVE  FALSE
    BY <1>1
  <2>. QED BY <2>1 DEF Once, Has
<1>. QED BY <1>2, <1>3, <1>4

\* The ten entries of the send queue and of the completion queue are enough:
\* one WRITE, one READ or DONE behind it and one receive are ever under way.
THEOREM OutstandingIsBounded == Spec => []OutstandingBound
<1>1. IInv /\ ReceiveInv => OutstandingBound
  <2> SUFFICES ASSUME IInv, ReceiveInv PROVE Len(sq) + Len(cq) <= 3
    BY DEF OutstandingBound
  <2>1. /\ sq \in Seq(Requests) /\ cq \in Seq(Completions)
        /\ Len(sq) \in Nat /\ Len(cq) \in Nat
    BY DEF IInv, TypeOK
  <2>2. \A k \in 1..Len(sq) : sq[k].op \in SendOps
    <3>1. \A k \in 1..Len(sq) : sq[k] \in Requests  BY <2>1
    <3>. QED BY <3>1 DEF Requests
  <2>3. \A k \in 1..Len(cq) : cq[k].op \in SendOps \cup {"RECV"}
    <3>1. \A k \in 1..Len(cq) : cq[k] \in Completions  BY <2>1
    <3>. QED BY <3>1 DEF Completions
  <2>4. /\ Once(cq, "RDMA_WRITE") /\ Once(cq, "RDMA_READ") /\ Once(cq, "SEND")
        /\ Once(cq, "RECV") /\ Once(sq, "RDMA_WRITE")
        /\ OnlyLast(sq, "RDMA_READ") /\ OnlyLast(sq, "SEND")
    BY DEF IInv, WriteInv, ReadInv, DoneInv, ReceiveInv
  <2>5. ~(Has(cq, "RDMA_READ") /\ Has(cq, "SEND"))
    BY DEF IInv, ReadInv, DoneInv, Outstanding, Stopping
  <2>6. sq # <<>> => ~Has(cq, "RDMA_READ") /\ ~Has(cq, "SEND")
    BY DEF IInv, ReadInv, DoneInv
  <2>7. Has(sq, "RDMA_WRITE") => ~Has(cq, "RDMA_WRITE")
    BY DEF IInv, WriteInv
  <2>8. /\ Len(sq) <= 2
        /\ Len(sq) = 2 => Has(sq, "RDMA_WRITE")
    <3>1. \A k \in 1..Len(sq) : k # Len(sq) => sq[k].op = "RDMA_WRITE"
      BY <2>2, <2>4 DEF OnlyLast, SendOps
    <3>2. ~(1 \in 1..Len(sq) /\ 2 \in 1..Len(sq) /\ 3 \in 1..Len(sq))
      BY <2>1, <2>4, <3>1 DEF Once
    <3>3. Len(sq) = 2 => 1 \in 1..Len(sq) /\ sq[1].op = "RDMA_WRITE"
      BY <3>1
    <3>. QED BY <2>1, <3>2, <3>3 DEF Has
  <2>9. /\ Len(cq) <= 3
        /\ sq # <<>> => Len(cq) <= 2
        /\ sq # <<>> /\ Has(sq, "RDMA_WRITE") => Len(cq) <= 1
    <3>1. PICK x \in {"RDMA_READ", "SEND"} :
            /\ \A k \in 1..Len(cq) : cq[k].op \in {"RECV", "RDMA_WRITE", x}
            /\ Has(cq, x) => sq = <<>>
      <4>1. \E x \in {"RDMA_READ", "SEND"} : \A k \in 1..Len(cq) :
              cq[k].op \in {"RECV", "RDMA_WRITE", x}
        BY <2>3, <2>5, HasAt DEF SendOps
      <4>. QED BY <4>1, <2>6
    <3>2. Once(cq, x)
      BY <2>4
    <3>3. /\ Len(cq) <= 3
          /\ ~Has(cq, x) => Len(cq) <= 2
          /\ ~Has(cq, x) /\ ~Has(cq, "RDMA_WRITE") => Len(cq) <= 1
      BY <2>1, <2>4, <3>1, <3>2, KindsBound
    <3>. QED BY <3>1, <3>3, <2>7
  <2>10. sq = <<>> <=> Len(sq) = 0
    BY <2>1
  <2>11. /\ Len(sq) <= 2
         /\ Len(sq) = 2 => Len(cq) <= 1
         /\ Len(sq) # 0 => Len(cq) <= 2
         /\ Len(cq) <= 3
    BY <2>8, <2>9, <2>10
  <2>12. \A m, n \in Nat : /\ m <= 2 /\ n <= 3
                           /\ m = 2 => n <= 1
                           /\ m # 0 => n <= 2
                           => m + n <= 3
    OBVIOUS
  <2>. QED BY <2>1, <2>11, <2>12
<1>. QED BY <1>1, ReceivesCounted, Invariance, PTL

-----------------------------------------------------------------------------
(***************************************************************************)
(* RdmaClient implements RemoteMemory: every step of a thread, the adapter *)
(* or the server is a step of the abstract memory or leaves it alone.      *)
(* First, the abstract memory and what the steps do to it.                 *)
(***************************************************************************)

\* The abstract memory maps pages to contents.
LEMMA MemoryType == TypeOK => Memory \in [Offsets -> PageContents]
BY DEF Memory, TypeOK

\* With nothing left to carry out it is the server's memory.
LEMMA MemorySettled == TypeOK /\ executed = Len(sq) => Memory = remote
<1> SUFFICES ASSUME TypeOK, executed = Len(sq) PROVE Memory = remote
  OBVIOUS
<1>1. Len(sq) \in Nat /\ (executed + 1)..Len(sq) = {}
  BY DEF TypeOK
<1>2. remote \in [Offsets -> PageContents]  BY DEF TypeOK
<1>. QED BY <1>1, <1>2 DEF Memory

\* So it is without a WRITE in the queue.
LEMMA MemoryNoWrite == TypeOK /\ ~Has(sq, "RDMA_WRITE") => Memory = remote
<1> SUFFICES ASSUME TypeOK, ~Has(sq, "RDMA_WRITE") PROVE Memory = remote
  OBVIOUS
<1>1. ASSUME NEW o \in Offsets, NEW i \in (executed + 1)..Len(sq),
             sq[i] = Request("RDMA_WRITE", o)
      PROVE  FALSE
  <2>1. i \in 1..Len(sq) /\ sq[i].op = "RDMA_WRITE"
    BY <1>1 DEF TypeOK, Request
  <2>. QED BY <2>1 DEF Has
<1>2. remote \in [Offsets -> PageContents]  BY DEF TypeOK
<1>. QED BY <1>1, <1>2 DEF Memory

\* Both again, for the state after a step.
LEMMA MemoryAfter ==
    /\ TypeOK' => Memory' \in [Offsets -> PageContents]
    /\ TypeOK' /\ executed' = Len(sq') => Memory' = remote'
    /\ TypeOK' /\ ~Has(sq, "RDMA_WRITE")' => Memory' = remote'
<1>1. (TypeOK => Memory \in [Offsets -> PageContents])'
  BY MemoryType, PTL
<1>2. (TypeOK /\ executed = Len(sq) => Memory = remote)'
  BY MemorySettled, PTL
<1>3. (TypeOK /\ ~Has(sq, "RDMA_WRITE") => Memory = remote)'
  BY MemoryNoWrite, PTL
<1>. QED BY <1>1, <1>2, <1>3

\* Steps that leave the queue, the write region and the server's memory alone.
LEMMA MemoryFrame ==
    ASSUME UNCHANGED <<sq, executed, rdma_remote_region, remote>>
    PROVE  Memory' = Memory
BY DEF Memory

\* Posting a WRITE writes the region's contents to its page.
LEMMA PostWrites ==
    ASSUME TypeOK, NEW f \in Offsets, ~Has(sq, "RDMA_WRITE"),
           PostSend(Request("RDMA_WRITE", f)),
           UNCHANGED <<rdma_remote_region, remote>>
    PROVE  Memory' = [Memory EXCEPT ![f] = rdma_remote_region]
<1>1. /\ Len(sq) \in Nat /\ Len(sq') = Len(sq) + 1
      /\ \A k \in 1..Len(sq) : sq'[k] = sq[k]
      /\ sq'[Len(sq) + 1] = Request("RDMA_WRITE", f)
      /\ executed' = executed /\ executed \in 0..Len(sq)
  <2>1. Request("RDMA_WRITE", f) \in Requests
    BY DEF Request, Requests, SendOps
  <2>. QED BY <2>1, PostFacts DEF TypeOK
<1>2. Memory = remote /\ remote \in [Offsets -> PageContents]
  BY MemoryNoWrite DEF TypeOK
<1>3. ASSUME NEW o \in Offsets, NEW i \in (executed' + 1)..Len(sq'),
             sq'[i] = Request("RDMA_WRITE", o)
      PROVE  o = f
  <2>1. CASE i = Len(sq) + 1
    BY <1>1, <1>3, <2>1 DEF Request
  <2>2. CASE i # Len(sq) + 1
    <3>1. i \in 1..Len(sq) /\ sq[i].op = "RDMA_WRITE"
      BY <1>1, <1>3, <2>2 DEF Request
    <3>. QED BY <3>1 DEF Has
  <2>. QED BY <2>1, <2>2
<1>4. Len(sq) + 1 \in (executed' + 1)..Len(sq')
  BY <1>1
<1>5. ASSUME NEW o \in Offsets
      PROVE  Memory'[o] = IF o = f THEN rdma_remote_region ELSE remote[o]
  <2>1. (\E i \in (executed' + 1)..Len(sq') : sq'[i] = Request("RDMA_WRITE", o)) <=> o = f
    BY <1>1, <1>3, <1>4
  <2>. QED BY <2>1 DEF Memory
<1>6. Memory' = [o \in Offsets |-> Memory'[o]]
  BY DEF Memory
<1>. QED BY <1>2, <1>5, <1>6

\* Posting anything else writes nothing.
LEMMA PostKeeps ==
    ASSUME TypeOK, NEW r \in Requests, r.op # "RDMA_WRITE", PostSend(r),
           UNCHANGED <<rdma_remote_region, remote>>
    PROVE  Memory' = Memory
<1>1. /\ Len(sq) \in Nat /\ Len(sq') = Len(sq) + 1
      /\ \A k \in 1..Len(sq) : sq'[k] = sq[k]
      /\ sq'[Len(sq) + 1] = r
      /\ executed' = executed /\ executed \in 0..Len(sq)
  BY PostFacts DEF TypeOK
<1>2. ASSUME NEW o \in Offsets
      PROVE  (\E i \in (executed' + 1)..Len(sq') : sq'[i] = Request("RDMA_WRITE", o))
             <=> \E i \in (executed + 1)..Len(sq) : sq[i] = Request("RDMA_WRITE", o)
  <2>1. r # Request("RDMA_WRITE", o)
    BY DEF Request
  <2>. QED BY <1>1, <2>1
<1>. QED BY <1>2 DEF Memory

\* Carrying a request out changes the server's memory, not the abstract one:
\* there is one WRITE in the queue at most.
LEMMA ExecuteKeeps ==
    ASSUME TypeOK, WriteInv, HcaExecute
    PROVE  Memory' = Memory
<1>1. /\ executed + 1 \in 1..Len(sq) /\ executed \in Nat /\ Len(sq) \in Nat
      /\ executed' = executed + 1 /\ sq' = sq
      /\ rdma_remote_region' = rdma_remote_region
  BY DEF HcaExecute, TypeOK
<1>. DEFINE r == sq[executed + 1]
<1>2. r \in Requests
  BY <1>1 DEF TypeOK
<1>3. CASE r.op # "RDMA_WRITE"
  <2>1. remote' = remote
    BY <1>3 DEF HcaExecute
  <2>2. ASSUME NEW o \in Offsets
        PROVE  (\E i \in (executed + 1)..Len(sq) : sq[i] = Request("RDMA_WRITE", o))
               <=> \E i \in (executed + 2)..Len(sq) : sq[i] = Request("RDMA_WRITE", o)
    <3>1. r # Request("RDMA_WRITE", o)
      BY <1>3 DEF Request
    <3>. QED BY <1>1, <3>1
  <2>. QED BY <1>1, <2>1, <2>2 DEF Memory
<1>4. CASE r.op = "RDMA_WRITE"
  <2>1. /\ r.off \in Offsets
        /\ remote' = [remote EXCEPT ![r.off] = rdma_remote_region]
        /\ remote \in [Offsets -> PageContents]
    BY <1>1, <1>4 DEF HcaExecute, WriteInv, TypeOK
  <2>2. r = Request("RDMA_WRITE", r.off)
    BY <1>2, <1>4 DEF Request, Requests
  <2>3. ASSUME NEW o \in Offsets, NEW i \in (executed + 1)..Len(sq),
               sq[i] = Request("RDMA_WRITE", o)
        PROVE  i = executed + 1 /\ o = r.off
    <3>1. i \in 1..Len(sq) /\ sq[i].op = "RDMA_WRITE" /\ sq[i].off = o
      BY <1>1, <2>3 DEF Request
    <3>2. Once(sq, "RDMA_WRITE")
      BY DEF WriteInv
    <3>3. i = executed + 1
      BY <1>1, <1>4, <3>1, <3>2 DEF Once
    <3>. QED BY <3>1, <3>3
  <2>4. ASSUME NEW o \in Offsets
        PROVE  Memory[o] = IF o = r.off THEN rdma_remote_region ELSE remote[o]
    <3>1. executed + 1 \in (executed + 1)..Len(sq)
      BY <1>1
    <3>2. (\E i \in (executed + 1)..Len(sq) : sq[i] = Request("RDMA_WRITE", o))
          <=> o = r.off
      BY <2>2, <2>3, <3>1
    <3>. QED BY <3>2 DEF Memory
  <2>5. ASSUME NEW o \in Offsets
        PROVE  Memory'[o] = remote'[o]
    <3>1. ~\E i \in (executed' + 1)..Len(sq') : sq'[i] = Request("RDMA_WRITE", o)
      BY <1>1, <2>3
    <3>. QED BY <3>1 DEF Memory
  <2>6. /\ Memory = [o \in Offsets |-> Memory[o]]
        /\ Memory' = [o \in Offsets |-> Memory'[o]]
    BY DEF Memory
  <2>7. \A o \in Offsets : Memory'[o] = Memory[o]
    BY <2>1, <2>4, <2>5
  <2>. QED BY <2>6, <2>7
<1>. QED BY <1>3, <1>4

\* A carried out request leaves the queue without a trace.
LEMMA CompleteKeeps ==
    ASSUME TypeOK, HcaComplete
    PROVE  Memory' = Memory
<1>1. /\ Len(sq) \in Nat /\ Len(sq') = Len(sq) - 1
      /\ \A k \in 1..(Len(sq) - 1) : sq'[k] = sq[k + 1]
      /\ executed \in 1..Len(sq) /\ executed' = executed - 1
  BY CompletedFacts
<1>2. UNCHANGED <<rdma_remote_region, remote>>
  BY DEF HcaComplete, regions, srvVars
<1>3. ASSUME NEW o \in Offsets
      PROVE  (\E i \in (executed' + 1)..Len(sq') : sq'[i] = Request("RDMA_WRITE", o))
             <=> \E i \in (executed + 1)..Len(sq) : sq[i] = Request("RDMA_WRITE", o)
  <2>1. ASSUME NEW i \in (executed' + 1)..Len(sq')
        PROVE  i + 1 \in (executed + 1)..Len(sq) /\ sq[i + 1] = sq'[i]
    BY <1>1
  <2>2. ASSUME NEW i \in (executed + 1)..Len(sq)
        PROVE  i - 1 \in (executed' + 1)..Len(sq') /\ sq'[i - 1] = sq[i]
    BY <1>1
  <2>. QED BY <2>1, <2>2
<1>. QED BY <1>2, <1>3 DEF Memory

-----------------------------------------------------------------------------
(***************************************************************************)
(* The refinement.                                                         *)
(***************************************************************************)

\* A write takes effect in WritePost, a read in ReadCopy and a failure in
\* HcaFail; a call begins in CallWrite or CallRead; nothing else is visible.
LEMMA RefinementStep == IInv /\ IInv' /\ [Next]_vars => [Abstract!Next]_(Abstract!vars)
<1> SUFFICES ASSUME IInv, IInv', [Next]_vars
             PROVE  Abstract!Next \/ UNCHANGED Abstract!vars
  OBVIOUS
<1> TypeOK /\ TypeOK' /\ SetupInv /\ QuietInv /\ WriteInv /\ ReadInv /\ DoneInv /\ FailInv
  BY DEF IInv
<1> DEFINE Step == Abstract!Next \/ UNCHANGED Abstract!vars
<1> USE DEF callVars, semVars, connVars, regions, sqVars, cqVars, srvVars, world,
            Abstract!vars
<1>1. CASE Call
  <2>1. ASSUME NEW o \in Offsets, NEW d \in Data, CallWrite(o, d) PROVE Step
    <3>1. Memory' = Memory /\ buf' = buf /\ link' = link
      BY <2>1, MemoryFrame DEF CallWrite
    <3>2. PendingCall = Abstract!NoCall
      BY <2>1 DEF CallWrite, PendingCall, Abstract!NoCall
    <3>3. CASE conn_context = "NULL"
      BY <2>1, <3>1, <3>3 DEF CallWrite, PendingCall
    <3>4. CASE conn_context # "NULL"
      <4>1. PendingCall' = [op |-> "write", off |-> o, data |-> d]
        BY <2>1, <3>4 DEF CallWrite, PendingCall
      <4>2. Abstract!Invoke([op |-> "write", off |-> o, data |-> d])
        BY <3>1, <3>2, <4>1 DEF Abstract!Invoke
      <4>. QED BY <4>2 DEF Abstract!Next
    <3>. QED BY <3>3, <3>4
  <2>2. ASSUME NEW o \in Offsets, CallRead(o) PROVE Step
    <3>1. buf' = buf /\ link' = link
      BY <2>2 DEF CallRead
    <3>2. PendingCall = Abstract!NoCall
      BY <2>2 DEF CallRead, PendingCall, Abstract!NoCall
    <3>3. CASE conn_context = "NULL"
      BY <2>2, <3>1, <3>3, MemoryFrame DEF CallRead, PendingCall
    <3>4. CASE conn_context # "NULL"
      <4>1. PendingCall' = [op |-> "read", off |-> o]
        BY <2>2, <3>4 DEF CallRead, PendingCall
      <4>2. Request("RDMA_READ", o) \in Requests
            /\ Request("RDMA_READ", o).op # "RDMA_WRITE"
        BY DEF Request, Requests, SendOps
      <4>3. Memory' = Memory
        BY <2>2, <3>4, <4>2, PostKeeps DEF CallRead
      <4>4. Abstract!Invoke([op |-> "read", off |-> o])
        BY <3>1, <3>2, <4>1, <4>3 DEF Abstract!Invoke
      <4>. QED BY <4>4 DEF Abstract!Next
    <3>. QED BY <3>3, <3>4
  <2>3. CASE CallDone
    BY <2>3, MemoryFrame DEF CallDone, End, PendingCall
  <2>. QED BY <1>1, <2>1, <2>2, <2>3 DEF Call
<1>2. CASE MainStep
  <2>1. CASE RdmaInit
    BY <2>1, MemoryFrame DEF RdmaInit, PendingCall
  <2>2. CASE RdmaInitReturn
    BY <2>2, MemoryFrame DEF RdmaInitReturn, PendingCall
  <2>3. CASE WriteWait
    BY <2>3, MemoryFrame DEF WriteWait, PendingCall
  <2>4. CASE WriteCopy
    <3>1. ~Has(sq, "RDMA_WRITE") /\ ~Has(sq, "RDMA_WRITE")'
      BY <2>4 DEF WriteCopy, WriteInv, Writing, Outstanding
    <3>2. Memory' = Memory
      BY <2>4, <3>1, MemoryNoWrite, MemoryAfter DEF WriteCopy
    <3>. QED BY <2>4, <3>2 DEF WriteCopy, PendingCall
  <2>5. CASE WritePost
    <3>1. /\ ~Has(sq, "RDMA_WRITE") /\ rdma_remote_region = arg.data
          /\ arg.off \in Offsets
      BY <2>5 DEF WritePost, WriteInv, Writing, Outstanding
    <3>2. link # "error"
      <4>1. ~Failed("RDMA_WRITE")
        BY <2>5, HoldsHas DEF WritePost, WriteInv, Writing, Outstanding, Failed, InWc, Completion
      <4>2. ~Failed("RDMA_READ")
        BY <2>5, HoldsHas DEF WritePost, ReadInv, Outstanding, Failed, InWc, Completion
      <4>. QED BY <2>5, <4>1, <4>2 DEF WritePost, FailInv, Stopping
    <3>3. Memory' = [Memory EXCEPT ![arg.off] = arg.data]
      BY <2>5, <3>1, PostWrites DEF WritePost
    <3>4. PendingCall = [op |-> "write", off |-> arg.off, data |-> arg.data]
          /\ PendingCall' = Abstract!NoCall
      BY <2>5 DEF WritePost, PendingCall, Abstract!NoCall
    <3>5. Abstract!Write
      BY <2>5, <3>2, <3>3, <3>4 DEF WritePost, Abstract!Write
    <3>. QED BY <3>5 DEF Abstract!Next
  <2>6. CASE ReadWait
    BY <2>6, MemoryFrame DEF ReadWait, PendingCall
  <2>7. CASE ReadCopy
    <3>1. sq = <<>> /\ rdma_local_region = remote[arg.off] /\ link # "error"
      BY <2>7 DEF ReadCopy, ReadInv, ReadArrived
    <3>2. executed = Len(sq)
      <4>1. executed \in 0..Len(sq) /\ Len(sq) = 0
        BY <3>1 DEF TypeOK
      <4>. QED BY <4>1
    <3>3. Memory = remote /\ Memory' = Memory
      BY <2>7, <3>2, MemorySettled, MemoryFrame DEF ReadCopy
    <3>4. PendingCall = [op |-> "read", off |-> arg.off]
          /\ PendingCall' = Abstract!NoCall
      BY <2>7 DEF ReadCopy, PendingCall, Abstract!NoCall
    <3>5. Abstract!Read
      BY <2>7, <3>1, <3>3, <3>4 DEF ReadCopy, Abstract!Read
    <3>. QED BY <3>5 DEF Abstract!Next
  <2>8. CASE DonePost
    <3>1. Request("SEND", NoOffset) \in Requests
          /\ Request("SEND", NoOffset).op # "RDMA_WRITE"
      BY DEF Request, Requests, SendOps
    <3>2. Memory' = Memory
      BY <2>8, <3>1, PostKeeps DEF DonePost
    <3>. QED BY <2>8, <3>2 DEF DonePost, PendingCall
  <2>9. CASE DoneReturn
    BY <2>9, MemoryFrame DEF DoneReturn, PendingCall
  <2>10. CASE Exit
    BY <2>10, MemoryFrame DEF Exit, End, PendingCall
  <2>. QED BY <1>2, <2>1, <2>2, <2>3, <2>4, <2>5, <2>6, <2>7, <2>8,
           <2>9, <2>10 DEF MainStep
<1>3. CASE CmStep
  <2>1. CASE CmResolveAddr
    BY <2>1, MemoryFrame DEF CmResolveAddr, PendingCall, SetupInv
  <2>2. CASE CmGetEvent
    BY <2>2, MemoryFrame DEF CmGetEvent, PendingCall, SetupInv
  <2>3. CASE OnAddrResolved
    BY <2>3, MemoryFrame DEF OnAddrResolved, PendingCall, SetupInv
  <2>4. CASE OnRouteResolved
    BY <2>4, MemoryFrame DEF OnRouteResolved, PendingCall, SetupInv
  <2>5. CASE OnConnect
    BY <2>5, MemoryFrame DEF OnConnect, PendingCall
  <2>6. CASE PublishContext
    BY <2>6, MemoryFrame DEF PublishContext, PendingCall
  <2>7. CASE OnDisconnect
    <3>1. executed = Len(sq)
      BY <2>7 DEF OnDisconnect, SetupInv, DoneInv
    <3>2. executed' = Len(sq')
      BY <2>7 DEF OnDisconnect
    <3>3. Memory' = Memory
      BY <2>7, <3>1, <3>2, MemorySettled, MemoryAfter DEF OnDisconnect
    <3>. QED BY <2>7, <3>3 DEF OnDisconnect, PendingCall
  <2>8. CASE OnUnknownEvent
    BY <2>8, MemoryFrame DEF OnUnknownEvent, End, PendingCall
  <2>. QED BY <1>3, <2>1, <2>2, <2>3, <2>4, <2>5, <2>6, <2>7, <2>8 DEF CmStep
<1>4. CASE PollerStep
  <2>1. CASE PollerGetEvent
    BY <2>1, MemoryFrame DEF PollerGetEvent, PendingCall
  <2>2. CASE PollerReqNotify
    BY <2>2, MemoryFrame DEF PollerReqNotify, PendingCall
  <2>3. CASE PollerPoll
    BY <2>3, MemoryFrame DEF PollerPoll, PendingCall
  <2>4. CASE OnError \/ OnFreedConnection
    BY <2>4, MemoryFrame DEF OnFreedConnection, OnError, End, PendingCall
  <2>5. CASE OnReceive
    BY <2>5, MemoryFrame DEF OnReceive, PendingCall
  <2>6. CASE OnSendCompletion
    BY <2>6, MemoryFrame DEF OnSendCompletion, PendingCall
  <2>7. CASE CheckDisconnect
    BY <2>7, MemoryFrame DEF CheckDisconnect, End, PendingCall, SetupInv
  <2>. QED BY <1>4, <2>1, <2>2, <2>3, <2>4, <2>5, <2>6, <2>7 DEF PollerStep
<1>5. CASE HcaStep
  <2>1. CASE HcaExecute
    BY <2>1, ExecuteKeeps DEF HcaExecute, PendingCall
  <2>2. CASE HcaComplete
    BY <2>2, CompleteKeeps DEF HcaComplete, PendingCall
  <2>3. CASE HcaReceive
    BY <2>3, MemoryFrame DEF HcaReceive, PendingCall
  <2>. QED BY <1>5, <2>1, <2>2, <2>3 DEF HcaStep
<1>6. CASE ServerStep
  <2>1. CASE ServerSendMr
    BY <2>1, MemoryFrame DEF ServerSendMr, serverFrame, PendingCall
  <2>2. CASE ServerMrSent
    BY <2>2, MemoryFrame DEF ServerMrSent, serverFrame, PendingCall
  <2>3. CASE ServerSendDone
    BY <2>3, MemoryFrame DEF ServerSendDone, serverFrame, PendingCall
  <2>4. CASE ServerDisconnect
    BY <2>4, MemoryFrame DEF ServerDisconnect, serverFrame, PendingCall, SetupInv
  <2>. QED BY <1>6, <2>1, <2>2, <2>3, <2>4 DEF ServerStep
<1>7. CASE CmAnswer
  BY <1>7, MemoryFrame DEF CmAnswer, PendingCall, SetupInv, Answer
<1>8. CASE HcaFail
  <2>1. UNCHANGED <<PendingCall, buf>> /\ UNCHANGED <<remote, conn>>
    BY <1>8 DEF HcaFail, PendingCall
  <2>2. CASE link' = "error"
    <3>1. Memory' \in [Offsets -> PageContents]
      BY MemoryAfter
    <3>2. Abstract!Fail
      BY <2>1, <2>2, <3>1 DEF Abstract!Fail, Abstract!Contents, PageContents
    <3>. QED BY <3>2 DEF Abstract!Next
  <2>3. CASE link' # "error"
    <3>1. link' = link /\ link = "closed"
      BY <1>8, <2>3 DEF HcaFail, QuietInv
    <3>2. executed = Len(sq)
      BY <3>1 DEF DoneInv
    <3>3. executed' = Len(sq')
      BY <1>8, <3>2, FailedFacts
    <3>4. Memory' = Memory
      BY <2>1, <3>2, <3>3, MemorySettled, MemoryAfter
    <3>. QED BY <2>1, <2>3, <3>1, <3>4
  <2>. QED BY <2>2, <2>3
<1>9. CASE TestFails
  BY <1>9, MemoryFrame DEF TestFails, End, PendingCall
<1>10. CASE UNCHANGED vars
  BY <1>10, MemoryFrame DEF vars, PendingCall
<1>. QED BY <1>1, <1>2, <1>3, <1>4, <1>5, <1>6, <1>7, <1>8, <1>9, <1>10 DEF Next

\* Every behaviour of the client with its adapter and its server, under any
\* interleaving and with failures, is one of the abstract memory.
THEOREM Refinement == Spec => ImplementsMemory
<1>1. Init => Abstract!Init
  <2> SUFFICES ASSUME Init PROVE Abstract!Init
    OBVIOUS
  <2>1. TypeOK /\ executed = Len(sq)
    BY InitTypeOK DEF Init
  <2>2. Memory = [o \in Offsets |-> Garbage]
    BY <2>1, MemorySettled DEF Init
  <2>. QED BY <2>2 DEF Init, PendingCall, Abstract!Init, Abstract!NoCall
<1>2. IInv /\ IInv' /\ [Next]_vars => [Abstract!Next]_(Abstract!vars)
  BY RefinementStep
<1>3. Spec => []IInv
  BY Invariance
<1>. QED BY <1>1, <1>2, <1>3, PTL DEF Spec, ImplementsMemory, Abstract!Spec
=============================================================================
