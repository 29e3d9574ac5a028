--------------------------- MODULE RdmaClientInv ----------------------------
(***************************************************************************)
(* The inductive invariant of RdmaClient, from which its safety properties *)
(* and its refinement of RemoteMemory follow.                              *)
(***************************************************************************)
EXTENDS RdmaClient

Writing  == {"write_copy", "write_post"}
Stopping == {"done_wait", "finished"}

\* At most one entry of the queue q is of this kind.
Once(q, op) == \A k, m \in 1..Len(q) : q[k].op = op /\ q[m].op = op => k = m

\* An entry of this kind is the last of the queue q.
OnlyLast(q, op) == \A k \in 1..Len(q) : q[k].op = op => k = Len(q)

\* The completion c is in the queue q.
Holds(q, c) == \E k \in 1..Len(q) : q[k] = c

\* on_completion is working on a request of this kind.
InWc(op) == poller = "on_completion" /\ wc.op = op

(***************************************************************************)
(* Setting the connection up and taking it down.  At any time at most one  *)
(* event is under way between the connection manager and its handler.      *)
(***************************************************************************)
SetupInv ==
    /\ cm \in {"none", "resolve"} <=> link = "down"
    /\ link = "down" => cmEvents = <<>> /\ conn = "none"
    /\ main = "start" <=> cm = "none"
    /\ link \in DOMAIN Answer => cmEvents = <<>> /\ cm = "loop"
    /\ link = "resolving_addr" => conn = "none"
    /\ link \in {"resolving_route", "connecting"} => conn = "live"
    /\ Len(cmEvents) <= 1
    /\ cmEvents # <<>> => /\ cm \in {"loop", "ESTABLISHED", "publish"}
                          /\ link \in {"answered", "closed"}
                          /\ (cmEvents[1] = "DISCONNECTED") <=> (link = "closed")
                          /\ cmEvents[1] = "ADDR_RESOLVED" => conn = "none"
                          /\ cmEvents[1] \in {"ROUTE_RESOLVED", "ESTABLISHED"}
                                => conn = "live"
    /\ link = "answered" => \/ cm = "loop" /\ cmEvents # <<>>
                            \/ cm \in {"ADDR_RESOLVED", "ROUTE_RESOLVED", "ERROR"}
    /\ cm = "ADDR_RESOLVED" => link = "answered" /\ conn = "none"
    /\ cm = "ROUTE_RESOLVED" => link = "answered" /\ conn = "live"
    /\ cm = "ERROR" => link = "answered"
    /\ cm \in {"ESTABLISHED", "publish"} => link \in {"up", "error", "closed"}
    /\ link \in {"up", "error"} => cmEvents = <<>> /\ conn = "live"
                                   /\ cm \in {"ESTABLISHED", "publish", "loop"}
    /\ cm = "DISCONNECTED" => link = "closed" /\ cmEvents = <<>>
    /\ cm = "exited" <=> conn = "freed"
    /\ conn = "freed" => link = "closed" /\ cmEvents = <<>>
    /\ link = "closed" => conn # "none"

(***************************************************************************)
(* Before the connection exists nothing uses it.                           *)
(***************************************************************************)
QuietInv ==
    /\ conn = "none" =>
         /\ sq = <<>> /\ cq = <<>> /\ poller = "none" /\ cqEvents = 0
         /\ write_ops = 0 /\ read_ops = 0 /\ done_ops = 0 /\ init_wait = 0
         /\ main \in {"start", "init_wait"}
         /\ send_state = "SS_INIT" /\ recv_state = "RS_INIT"
    /\ poller = "none" => conn = "none"
    /\ main = "start" => conn = "none"
    /\ conn_context # "NULL" => link \in {"up", "error", "closed"}
    /\ main \notin {"start", "init_wait", "ready"} => conn_context # "NULL"
    /\ sq # <<>> => link \in {"up", "error", "closed"}

(***************************************************************************)
(* The completion channel: a queue that was found empty after it was armed *)
(* signals its next completion.                                            *)
(***************************************************************************)
WakeupInv ==
    poller \in {"get_event", "poll", "on_completion", "check"} =>
        armed \/ cqEvents > 0

SleepInv == poller = "get_event" /\ armed => cq = <<>>

(***************************************************************************)
(* WRITE requests: write_ops, the caller or one request has the region.    *)
(***************************************************************************)
WriteInv ==
    /\ write_ops <= 1
    /\ write_ops = 1 => main \notin Writing
    /\ write_ops = 1 \/ main \in Writing => ~Outstanding("RDMA_WRITE")
    /\ Once(sq, "RDMA_WRITE") /\ Once(cq, "RDMA_WRITE")
    /\ Has(sq, "RDMA_WRITE") => ~Has(cq, "RDMA_WRITE") /\ ~InWc("RDMA_WRITE")
    /\ Has(cq, "RDMA_WRITE") => ~InWc("RDMA_WRITE")
    /\ main = "write_post" => rdma_remote_region = arg.data
    /\ main \in {"write_wait", "write_copy", "write_post"} =>
         arg.off \in Offsets /\ arg.data \in Data
    /\ \A k \in 1..Len(sq) : sq[k].op = "RDMA_WRITE" => sq[k].off \in Offsets

(***************************************************************************)
(* READ requests: the caller waits for the one there is, which is the last *)
(* in the queue, so that all writes precede it.                            *)
(***************************************************************************)
ReadArrived ==
    \/ Holds(cq, Completion("RDMA_READ", TRUE))
    \/ InWc("RDMA_READ") /\ wc.ok
    \/ read_ops = 1
    \/ main = "read_copy"

ReadInv ==
    /\ read_ops <= 1
    /\ read_ops = 1 \/ Outstanding("RDMA_READ") => main = "read_wait"
    /\ read_ops = 1 \/ main = "read_copy" => ~Outstanding("RDMA_READ")
    /\ main \in {"read_wait", "read_copy"} => arg.off \in Offsets
    /\ OnlyLast(sq, "RDMA_READ") /\ Once(cq, "RDMA_READ")
    /\ Has(sq, "RDMA_READ") =>
         /\ sq[Len(sq)].off = arg.off
         /\ executed = Len(sq) => rdma_local_region = remote[arg.off]
    /\ Has(cq, "RDMA_READ") \/ InWc("RDMA_READ") => sq = <<>>
    /\ Has(cq, "RDMA_READ") => ~InWc("RDMA_READ")
    /\ ReadArrived => /\ sq = <<>> /\ link # "error"
                      /\ rdma_local_region = remote[arg.off]

(***************************************************************************)
(* DONE: the last request of all.  Once the server has seen it, everything *)
(* posted has been carried out.                                            *)
(***************************************************************************)
DoneInv ==
    /\ Outstanding("SEND") => main \in Stopping
    /\ OnlyLast(sq, "SEND")
    /\ Has(cq, "SEND") \/ InWc("SEND") => sq = <<>>
    /\ send_state = "SS_DONE_SENT" => main \in Stopping /\ sq = <<>>
    /\ srv \in {"done_recv", "done_posted", "gone"} \/ link = "closed" =>
         main \in Stopping /\ executed = Len(sq)

(***************************************************************************)
(* A failed request stops its caller until on_completion ends the process. *)
(***************************************************************************)
Failed(op) == Holds(cq, Completion(op, FALSE)) \/ (InWc(op) /\ ~wc.ok)

FailInv ==
    link = "error" /\ Running =>
        Failed("RDMA_WRITE") \/ Failed("RDMA_READ") \/ main \in Stopping

\* Whoever finds the connection through conn_context finds it connected.  This
\* is inductive on top of IInv.
ConnectedInv == cm = "publish" \/ conn_context # "NULL" => connected

(***************************************************************************)
(* Receives: one request is posted, or its completion is on its way, and   *)
(* after the server's DONE there is none.  Inductive on top of IInv too.   *)
(***************************************************************************)
ReceiveInv ==
    /\ rq <= 1
    /\ Once(cq, "RECV") /\ Once(cq, "SEND")
    /\ Has(cq, "RECV") => ~InWc("RECV")
    /\ rq = 1 => /\ ~Has(cq, "RECV") /\ ~InWc("RECV")
                 /\ recv_state # "RS_DONE_RECV"

\* The inductive invariant: each part above, on top of the types.
IInv == /\ TypeOK /\ SetupInv /\ QuietInv /\ WakeupInv /\ SleepInv
        /\ WriteInv /\ ReadInv /\ DoneInv /\ FailInv
=============================================================================
