----------------------------- MODULE RdmaClient -----------------------------
(***************************************************************************)
(* The RDMA client library of rdma-client.c and rdma-common.c: three       *)
(* threads of one process that share one connection.                       *)
(*                                                                         *)
(*   main    calls rdma_init, rdma_read, rdma_read_offset,                 *)
(*           rdma_write_offset and rdma_done;                              *)
(*   cm      create_rdma: the connection manager's event loop;             *)
(*   poller  poll_cq: waits for completion events and runs on_completion.  *)
(*                                                                         *)
(* Their environment is external: the network adapter (HCA) that executes  *)
(* the posted work requests, librdmacm's event channel, and the server     *)
(* (rdma-server, shipped only as a binary), which announces its memory     *)
(* region, answers MSG_DONE and disconnects.                               *)
(*                                                                         *)
(* An offset names the page of the server's region it selects and Data is  *)
(* the set of contents a page can have.  RDMA_BUFFER_SIZE is one page.     *)
(***************************************************************************)
EXTENDS Naturals, Sequences

CONSTANTS
    Offsets,    \* the page offsets the caller uses
    Data,       \* the contents of a page
    Garbage,    \* the contents of memory nobody has written yet
    NoOffset,   \* the offset field of a request that has none (SEND)
    MaxCalls    \* bound on the number of reads and writes the caller issues

ASSUME OffsetsAssumption == Offsets # {} /\ NoOffset \notin Offsets
ASSUME DataAssumption    == Garbage \notin Data
ASSUME BoundAssumption   == MaxCalls \in Nat

VARIABLES
    proc,          \* the process: running, or how it ended
    main,          \* program counter of the calling thread
    arg,           \* the offset and the data of the call in progress
    buf,           \* the caller's buffer of the last read
    calls,         \* reads and writes issued so far
    cm,            \* program counter of create_rdma
    poller,        \* program counter of poll_cq
    wc,            \* the completion on_completion is working on
    init_wait, read_ops, write_ops, done_ops,       \* the semaphores
    conn_context,  \* the global the API functions use
    conn,          \* struct connection: unallocated, live or freed
    connected, send_state, recv_state,              \* fields of *conn
    rdma_local_region, rdma_remote_region,          \* read and write buffers
    recv_msg,      \* the type field of the received message
    rq,            \* receive requests posted and not consumed
    sq,            \* send requests posted and not completed, oldest first
    executed,      \* how many of sq the server's side has carried out
    cq,            \* the completion queue
    armed,         \* ibv_req_notify_cq was called since the last event
    cqEvents,      \* events in the completion channel
    cmEvents,      \* the connection manager's event queue
    link,          \* the connection, as the connection manager sees it
    srv,           \* the server's protocol state
    wire,          \* messages on their way from the server
    remote         \* the server's memory region

callVars == <<main, arg, buf, calls>>
semVars  == <<init_wait, read_ops, write_ops, done_ops>>
connVars == <<conn, connected, send_state, recv_state, recv_msg>>
regions  == <<rdma_local_region, rdma_remote_region>>
sqVars   == <<sq, executed>>
cqVars   == <<cq, armed, cqEvents>>
srvVars  == <<srv, wire, remote>>

\* Everything but the process's own state, which is all that its end changes.
world == <<callVars, cm, poller, wc, semVars, conn_context, connVars, regions,
           rq, sqVars, cqVars, cmEvents, link, srvVars>>

vars == <<proc, world>>

-----------------------------------------------------------------------------
(***************************************************************************)
(* Requests and completions.  A completion whose ok is FALSE carries a     *)
(* status other than IBV_WC_SUCCESS.                                       *)
(***************************************************************************)
SendOps  == {"RDMA_WRITE", "RDMA_READ", "SEND"}
Requests == [op : SendOps, off : Offsets \cup {NoOffset}]
Completions == [op : SendOps \cup {"RECV"}, ok : BOOLEAN]
NoCompletion == [op |-> "none", ok |-> TRUE]

MessageTypes == {"MSG_MR", "MSG_DONE"}
CmEventTypes == {"ADDR_RESOLVED", "ROUTE_RESOLVED", "ESTABLISHED",
                 "DISCONNECTED", "ERROR"}

Request(op, off) == [op |-> op, off |-> off]
Completion(op, ok) == [op |-> op, ok |-> ok]

PageContents == Data \cup {Garbage}

\* The process has not ended; every step of a thread needs it.
Running == proc = "running"

\* die() and an access through a null or dangling pointer end the process.
End(how) == proc' = how

\* A completion enters the queue; an armed queue also signals its channel.
Complete(c) ==
    /\ cq' = Append(cq, c)
    /\ armed' = FALSE
    /\ cqEvents' = IF armed THEN cqEvents + 1 ELSE cqEvents

\* ibv_post_send: the request joins the send queue.
PostSend(r) == sq' = Append(sq, r) /\ UNCHANGED executed

-----------------------------------------------------------------------------
Init ==
    /\ proc = "running"
    /\ main = "start" /\ arg = [off |-> NoOffset, data |-> Garbage]
    /\ buf = Garbage /\ calls = 0
    /\ cm = "none" /\ poller = "none" /\ wc = NoCompletion
    /\ init_wait = 0 /\ read_ops = 0 /\ write_ops = 0 /\ done_ops = 0
    /\ conn_context = "NULL"
    /\ conn = "none" /\ connected = FALSE
    /\ send_state = "SS_INIT" /\ recv_state = "RS_INIT"
    /\ recv_msg = "none"
    /\ rdma_local_region = Garbage /\ rdma_remote_region = Garbage
    /\ rq = 0 /\ sq = <<>> /\ executed = 0
    /\ cq = <<>> /\ armed = FALSE /\ cqEvents = 0
    /\ cmEvents = <<>> /\ link = "down"
    /\ srv = "listening" /\ wire = <<>>
    /\ remote = [o \in Offsets |-> Garbage]

-----------------------------------------------------------------------------
(***************************************************************************)
(* Faulty variants of steps below, for showing that each property notices  *)
(* the fault it is there for.  No specification uses them.                 *)
(***************************************************************************)

\* rdma_write_offset without write_ops.
WriteWaitMissing ==
    /\ Running /\ main = "write_wait"
    /\ main' = "write_copy"
    /\ UNCHANGED <<proc, arg, buf, calls, cm, poller, wc, semVars,
                   conn_context, connVars, regions, rq, sqVars,
                   cqVars, cmEvents, link, srvVars>>

\* sem_init(&write_ops, 0, 2).
TwoWritePermits ==
    /\ Running /\ cm = "ADDR_RESOLVED"
    /\ read_ops' = 0 /\ done_ops' = 0 /\ write_ops' = 2
    /\ armed' = TRUE /\ poller' = "get_event"
    /\ conn' = "live" /\ connected' = FALSE
    /\ send_state' = "SS_INIT" /\ recv_state' = "RS_INIT"
    /\ rq' = 1
    /\ cm' = "loop" /\ link' = "resolving_route"
    /\ UNCHANGED <<proc, callVars, wc, init_wait, conn_context, recv_msg,
                   regions, sqVars, cq, cqEvents, cmEvents, srvVars>>

\* poll_cq goes on without ibv_req_notify_cq.
NeverRearm ==
    /\ Running /\ poller = "req_notify"
    /\ poller' = "poll"
    /\ UNCHANGED <<proc, callVars, cm, wc, semVars, conn_context, connVars,
                   regions, rq, sqVars, cqVars, cmEvents, link, srvVars>>

\* Every receive posts another one.
ReceiveAlwaysReposts ==
    /\ Running /\ poller = "on_completion" /\ wc.ok /\ wc.op = "RECV"
    /\ LET mr   == recv_state = "RS_INIT" /\ recv_msg = "MSG_MR"
           done == recv_state = "RS_MR_RECV"
       IN  /\ rq' = rq + 1
           /\ init_wait' = IF mr /\ send_state = "SS_INIT" THEN init_wait + 1
                                                          ELSE init_wait
           /\ recv_state' = IF mr THEN "RS_MR_RECV"
                            ELSE IF done THEN "RS_DONE_RECV" ELSE recv_state
    /\ poller' = "check"
    /\ UNCHANGED <<proc, callVars, cm, wc, read_ops, write_ops, done_ops,
                   conn_context, conn, connected, send_state, recv_msg,
                   regions, sqVars, cqVars, cmEvents, link, srvVars>>

\* on_completion disconnects as soon as the server's region is known.
DisconnectEarly ==
    /\ Running /\ poller = "check"
    /\ poller' = "poll" /\ wc' = NoCompletion
    /\ LET done == recv_state # "RS_INIT"
       IN  /\ IF done /\ conn = "freed" THEN End("segv") ELSE UNCHANGED proc
           /\ IF done /\ conn = "live" /\ link = "up"
              THEN link' = "closed" /\ cmEvents' = Append(cmEvents, "DISCONNECTED")
              ELSE UNCHANGED <<link, cmEvents>>
    /\ UNCHANGED <<callVars, cm, semVars, conn_context, connVars, regions, rq,
                   sqVars, cqVars, srvVars>>

\* poll_cq takes one completion for each event instead of all there are.
OneCompletionPerEvent ==
    /\ Running /\ poller = "check"
    /\ poller' = "get_event" /\ wc' = NoCompletion
    /\ LET done == send_state = "SS_DONE_SENT" /\ recv_state = "RS_DONE_RECV"
       IN  /\ IF done /\ conn = "freed" THEN End("segv") ELSE UNCHANGED proc
           /\ IF done /\ conn = "live" /\ link = "up"
              THEN link' = "closed" /\ cmEvents' = Append(cmEvents, "DISCONNECTED")
              ELSE UNCHANGED <<link, cmEvents>>
    /\ UNCHANGED <<callVars, cm, semVars, conn_context, connVars, regions, rq,
                   sqVars, cqVars, srvVars>>

-----------------------------------------------------------------------------
(***************************************************************************)
(* The calling thread.                                                     *)
(***************************************************************************)

\* rdma_init up to its sem_wait: the event loop's thread is created.
RdmaInit ==
    /\ Running /\ main = "start"
    /\ init_wait' = 0
    /\ main' = "init_wait" /\ cm' = "resolve"
    /\ UNCHANGED <<proc, arg, buf, calls, poller, wc, read_ops, write_ops,
                   done_ops, conn_context, connVars, regions, rq, sqVars,
                   cqVars, cmEvents, link, srvVars>>

\* rdma_init returns.
RdmaInitReturn ==
    /\ Running /\ main = "init_wait" /\ init_wait > 0
    /\ init_wait' = init_wait - 1
    /\ main' = "ready"
    /\ UNCHANGED <<proc, arg, buf, calls, cm, poller, wc, read_ops, write_ops,
                   done_ops, conn_context, connVars, regions, rq, sqVars,
                   cqVars, cmEvents, link, srvVars>>

\* rdma_write_offset(buf, off) up to its sem_wait: the request is built from
\* *conn_context, a null pointer until on_connection has run.
CallWrite(o, d) ==
    /\ Running /\ main = "ready" /\ calls < MaxCalls
    /\ calls' = calls + 1
    /\ arg' = [off |-> o, data |-> d]
    /\ IF conn_context = "NULL"
       THEN End("segv") /\ UNCHANGED main
       ELSE main' = "write_wait" /\ UNCHANGED proc
    /\ UNCHANGED <<buf, cm, poller, wc, semVars, conn_context, connVars,
                   regions, rq, sqVars, cqVars, cmEvents, link, srvVars>>

WriteWait ==
    /\ Running /\ main = "write_wait" /\ write_ops > 0
    /\ write_ops' = write_ops - 1
    /\ main' = "write_copy"
    /\ UNCHANGED <<proc, arg, buf, calls, cm, poller, wc, init_wait, read_ops,
                   done_ops, conn_context, connVars, regions, rq, sqVars,
                   cqVars, cmEvents, link, srvVars>>

\* memcpy of the page into the registered write region.
WriteCopy ==
    /\ Running /\ main = "write_copy"
    /\ rdma_remote_region' = arg.data
    /\ main' = "write_post"
    /\ UNCHANGED <<proc, arg, buf, calls, cm, poller, wc, semVars,
                   conn_context, connVars, rdma_local_region, rq, sqVars,
                   cqVars, cmEvents, link, srvVars>>

\* The request is posted and rdma_write_offset returns at once.
WritePost ==
    /\ Running /\ main = "write_post"
    /\ PostSend(Request("RDMA_WRITE", arg.off))
    /\ main' = "ready"
    /\ UNCHANGED <<proc, arg, buf, calls, cm, poller, wc, semVars,
                   conn_context, connVars, regions, rq, cqVars, cmEvents,
                   link, srvVars>>

\* rdma_read_offset(buf, off), or rdma_read(buf) for the first page, up to
\* its sem_wait.
CallRead(o) ==
    /\ Running /\ main = "ready" /\ calls < MaxCalls
    /\ calls' = calls + 1
    /\ arg' = [off |-> o, data |-> arg.data]
    /\ IF conn_context = "NULL"
       THEN End("segv") /\ UNCHANGED <<main, sqVars>>
       ELSE /\ PostSend(Request("RDMA_READ", o))
            /\ main' = "read_wait" /\ UNCHANGED proc
    /\ UNCHANGED <<buf, cm, poller, wc, semVars, conn_context, connVars,
                   regions, rq, cqVars, cmEvents, link, srvVars>>

ReadWait ==
    /\ Running /\ main = "read_wait" /\ read_ops > 0
    /\ read_ops' = read_ops - 1
    /\ main' = "read_copy"
    /\ UNCHANGED <<proc, arg, buf, calls, cm, poller, wc, init_wait, write_ops,
                   done_ops, conn_context, connVars, regions, rq, sqVars,
                   cqVars, cmEvents, link, srvVars>>

\* memcpy out of the registered read region; the read returns.
ReadCopy ==
    /\ Running /\ main = "read_copy"
    /\ buf' = rdma_local_region
    /\ main' = "ready"
    /\ UNCHANGED <<proc, arg, calls, cm, poller, wc, semVars, conn_context,
                   connVars, regions, rq, sqVars, cqVars, cmEvents, link,
                   srvVars>>

\* rdma_done up to the loop of send_message that spins on conn->connected.
CallDone ==
    /\ Running /\ main = "ready"
    /\ IF conn_context = "NULL"
       THEN End("segv") /\ UNCHANGED main
       ELSE main' = "done_spin" /\ UNCHANGED proc
    /\ UNCHANGED <<arg, buf, calls, cm, poller, wc, semVars, conn_context,
                   connVars, regions, rq, sqVars, cqVars, cmEvents, link,
                   srvVars>>

\* The spin ends and MSG_DONE is posted.
DonePost ==
    /\ Running /\ main = "done_spin" /\ connected
    /\ PostSend(Request("SEND", NoOffset))
    /\ main' = "done_wait"
    /\ UNCHANGED <<proc, arg, buf, calls, cm, poller, wc, semVars,
                   conn_context, connVars, regions, rq, cqVars, cmEvents,
                   link, srvVars>>

DoneReturn ==
    /\ Running /\ main = "done_wait" /\ done_ops > 0
    /\ done_ops' = done_ops - 1
    /\ main' = "finished"
    /\ UNCHANGED <<proc, arg, buf, calls, cm, poller, wc, init_wait, read_ops,
                   write_ops, conn_context, connVars, regions, rq, sqVars,
                   cqVars, cmEvents, link, srvVars>>

\* main returns after rdma_done, and the process exits with its threads.
Exit ==
    /\ Running /\ main = "finished"
    /\ End("exit")
    /\ UNCHANGED world

-----------------------------------------------------------------------------
(***************************************************************************)
(* The connection manager's thread.                                        *)
(***************************************************************************)

\* create_rdma up to its loop: the address is being resolved.
CmResolveAddr ==
    /\ Running /\ cm = "resolve"
    /\ cm' = "loop" /\ link' = "resolving_addr"
    /\ UNCHANGED <<proc, callVars, poller, wc, semVars, conn_context, connVars,
                   regions, rq, sqVars, cqVars, cmEvents, srvVars>>

\* rdma_get_cm_event.  For the answer to rdma_connect the library itself
\* readies the queue pair and confirms, so from here on the server can send.
CmGetEvent ==
    /\ Running /\ cm = "loop" /\ cmEvents # <<>>
    /\ cm' = Head(cmEvents) /\ cmEvents' = Tail(cmEvents)
    /\ IF Head(cmEvents) = "ESTABLISHED"
       THEN link' = "up" /\ srv' = "established"
       ELSE UNCHANGED <<link, srv>>
    /\ UNCHANGED <<proc, callVars, poller, wc, semVars, conn_context, connVars,
                   regions, rq, sqVars, cqVars, wire, remote>>

\* on_addr_resolved: build_connection (semaphores, completion queue and its
\* poller, connection, buffers, first receive) and the route's resolution.
OnAddrResolved ==
    /\ Running /\ cm = "ADDR_RESOLVED"
    /\ read_ops' = 0 /\ done_ops' = 0 /\ write_ops' = 1
    /\ armed' = TRUE /\ poller' = "get_event"
    /\ conn' = "live" /\ connected' = FALSE
    /\ send_state' = "SS_INIT" /\ recv_state' = "RS_INIT"
    /\ rq' = 1
    /\ cm' = "loop" /\ link' = "resolving_route"
    /\ UNCHANGED <<proc, callVars, wc, init_wait, conn_context, recv_msg,
                   regions, sqVars, cq, cqEvents, cmEvents, srvVars>>

OnRouteResolved ==
    /\ Running /\ cm = "ROUTE_RESOLVED"
    /\ cm' = "loop" /\ link' = "connecting"
    /\ UNCHANGED <<proc, callVars, poller, wc, semVars, conn_context, connVars,
                   regions, rq, sqVars, cqVars, cmEvents, srvVars>>

\* on_connection, first half: on_connect.
OnConnect ==
    /\ Running /\ cm = "ESTABLISHED"
    /\ connected' = TRUE
    /\ cm' = "publish"
    /\ UNCHANGED <<proc, callVars, poller, wc, semVars, conn_context, conn,
                   send_state, recv_state, recv_msg, regions, rq, sqVars,
                   cqVars, cmEvents, link, srvVars>>

\* on_connection, second half: the API functions can find the connection.
PublishContext ==
    /\ Running /\ cm = "publish"
    /\ conn_context' = "conn"
    /\ cm' = "loop"
    /\ UNCHANGED <<proc, callVars, poller, wc, semVars, connVars, regions, rq,
                   sqVars, cqVars, cmEvents, link, srvVars>>

\* on_disconnect: destroy_connection, and the event loop ends.  Destroying
\* the queue pair discards its requests and its unpolled completions.
OnDisconnect ==
    /\ Running /\ cm = "DISCONNECTED"
    /\ conn' = "freed"
    /\ sq' = <<>> /\ executed' = 0 /\ cq' = <<>> /\ rq' = 0
    /\ cm' = "exited"
    /\ UNCHANGED <<proc, callVars, poller, wc, semVars, conn_context,
                   connected, send_state, recv_state, recv_msg, regions,
                   armed, cqEvents, cmEvents, link, srvVars>>

\* on_event: any other event is fatal.
OnUnknownEvent ==
    /\ Running /\ cm = "ERROR"
    /\ End("die")
    /\ UNCHANGED world

-----------------------------------------------------------------------------
(***************************************************************************)
(* The completion queue's thread.                                          *)
(***************************************************************************)

PollerGetEvent ==
    /\ Running /\ poller = "get_event" /\ cqEvents > 0
    /\ cqEvents' = cqEvents - 1
    /\ poller' = "req_notify"
    /\ UNCHANGED <<proc, callVars, cm, wc, semVars, conn_context, connVars,
                   regions, rq, sqVars, cq, armed, cmEvents, link, srvVars>>

PollerReqNotify ==
    /\ Running /\ poller = "req_notify"
    /\ armed' = TRUE
    /\ poller' = "poll"
    /\ UNCHANGED <<proc, callVars, cm, wc, semVars, conn_context, connVars,
                   regions, rq, sqVars, cq, cqEvents, cmEvents, link, srvVars>>

\* ibv_poll_cq: take a completion, or find none and wait for the next event.
PollerPoll ==
    /\ Running /\ poller = "poll"
    /\ IF cq = <<>>
       THEN poller' = "get_event" /\ UNCHANGED <<wc, cq>>
       ELSE poller' = "on_completion" /\ wc' = Head(cq) /\ cq' = Tail(cq)
    /\ UNCHANGED <<proc, callVars, cm, semVars, conn_context, connVars,
                   regions, rq, sqVars, armed, cqEvents, cmEvents, link,
                   srvVars>>

\* on_completion of a request that failed.
OnError ==
    /\ Running /\ poller = "on_completion" /\ ~wc.ok
    /\ End("die")
    /\ UNCHANGED world

\* on_completion when destroy_connection has freed *conn, which it reads first
\* of all: it may fault here, or find the values of before, as in the two
\* actions that follow.
OnFreedConnection ==
    /\ Running /\ poller = "on_completion" /\ wc.ok /\ conn = "freed"
    /\ End("segv")
    /\ UNCHANGED world

\* on_completion of a receive: the server's region, then the server's DONE.
OnReceive ==
    /\ Running /\ poller = "on_completion" /\ wc.ok /\ wc.op = "RECV"
    /\ LET mr   == recv_state = "RS_INIT" /\ recv_msg = "MSG_MR"
           done == recv_state = "RS_MR_RECV"
       IN  /\ rq' = IF mr THEN rq + 1 ELSE rq
           /\ init_wait' = IF mr /\ send_state = "SS_INIT" THEN init_wait + 1
                                                          ELSE init_wait
           /\ recv_state' = IF mr THEN "RS_MR_RECV"
                            ELSE IF done THEN "RS_DONE_RECV" ELSE recv_state
    /\ poller' = "check"
    /\ UNCHANGED <<proc, callVars, cm, wc, read_ops, write_ops, done_ops,
                   conn_context, conn, connected, send_state, recv_msg,
                   regions, sqVars, cqVars, cmEvents, link, srvVars>>

\* on_completion of a send request wakes the thread that waits for it, but
\* only between the server's MR and the server's or the client's DONE.
OnSendCompletion ==
    /\ Running /\ poller = "on_completion" /\ wc.ok /\ wc.op # "RECV"
    /\ IF send_state = "SS_INIT" /\ recv_state = "RS_MR_RECV"
       THEN /\ read_ops'  = IF wc.op = "RDMA_READ"  THEN read_ops + 1  ELSE read_ops
            /\ write_ops' = IF wc.op = "RDMA_WRITE" THEN write_ops + 1 ELSE write_ops
            /\ done_ops'  = IF wc.op = "SEND"       THEN done_ops + 1  ELSE done_ops
            /\ send_state' = IF wc.op = "SEND" THEN "SS_DONE_SENT" ELSE send_state
       ELSE UNCHANGED <<read_ops, write_ops, done_ops, send_state>>
    /\ poller' = "check"
    /\ UNCHANGED <<proc, callVars, cm, wc, init_wait, conn_context, conn,
                   connected, recv_state, recv_msg, regions, rq, sqVars,
                   cqVars, cmEvents, link, srvVars>>

\* The end of on_completion: once both sides are done, rdma_disconnect, which
\* follows the id pointer of *conn.
CheckDisconnect ==
    /\ Running /\ poller = "check"
    /\ poller' = "poll" /\ wc' = NoCompletion
    /\ LET done == send_state = "SS_DONE_SENT" /\ recv_state = "RS_DONE_RECV"
       IN  /\ IF done /\ conn = "freed" THEN End("segv") ELSE UNCHANGED proc
           /\ IF done /\ conn = "live" /\ link = "up"
              THEN link' = "closed" /\ cmEvents' = Append(cmEvents, "DISCONNECTED")
              ELSE UNCHANGED <<link, cmEvents>>
    /\ UNCHANGED <<callVars, cm, semVars, conn_context, connVars, regions, rq,
                   sqVars, cqVars, srvVars>>

-----------------------------------------------------------------------------
\* TEST_NZ and TEST_Z: a call of the library or of the system fails, and die()
\* ends the process.  Where the caller is "ready" it is the post of a read.
TestFails ==
    /\ Running
    /\ \/ main \in {"start", "write_post"}
       \/ main = "ready" /\ calls < MaxCalls /\ conn_context # "NULL"
       \/ main = "done_spin" /\ connected
       \/ cm \in {"resolve", "ADDR_RESOLVED", "ROUTE_RESOLVED"}
       \/ poller \in {"get_event", "req_notify"}
       \/ poller = "on_completion" /\ wc.ok /\ wc.op = "RECV"
             /\ recv_state = "RS_INIT" /\ recv_msg = "MSG_MR"
    /\ End("die")
    /\ UNCHANGED world

-----------------------------------------------------------------------------
(***************************************************************************)
(* External: the connection manager and the network adapter.               *)
(***************************************************************************)

Answer == [resolving_addr  |-> "ADDR_RESOLVED",
           resolving_route |-> "ROUTE_RESOLVED",
           connecting      |-> "ESTABLISHED"]

\* The answer to an asynchronous request of the client, or a failure event.
CmAnswer ==
    /\ Running /\ link \in DOMAIN Answer
    /\ \E event \in {Answer[link], "ERROR"} : cmEvents' = Append(cmEvents, event)
    /\ link' = "answered"
    /\ UNCHANGED <<proc, callVars, cm, poller, wc, semVars, conn_context,
                   connVars, regions, rq, sqVars, cqVars, srvVars>>

\* A reliable connection carries its requests out in the order of posting.
\* A WRITE takes the region's contents now, not those of when it was posted.
HcaExecute ==
    /\ Running /\ conn = "live" /\ link = "up" /\ executed < Len(sq)
    /\ LET r == sq[executed + 1]
       IN  /\ remote' = IF r.op = "RDMA_WRITE"
                         THEN [remote EXCEPT ![r.off] = rdma_remote_region]
                         ELSE remote
           /\ rdma_local_region' = IF r.op = "RDMA_READ" THEN remote[r.off]
                                                         ELSE rdma_local_region
           /\ srv' = IF r.op = "SEND" /\ srv = "mr_sent" THEN "done_recv" ELSE srv
    /\ executed' = executed + 1
    /\ UNCHANGED <<proc, callVars, cm, poller, wc, semVars, conn_context,
                   connVars, rdma_remote_region, rq, sq, cqVars, cmEvents,
                   link, wire>>

\* The acknowledgement of the oldest request arrives.
HcaComplete ==
    /\ Running /\ conn = "live" /\ link # "error" /\ executed > 0
    /\ Complete(Completion(Head(sq).op, TRUE))
    /\ sq' = Tail(sq) /\ executed' = executed - 1
    /\ UNCHANGED <<proc, callVars, cm, poller, wc, semVars, conn_context,
                   connVars, regions, rq, cmEvents, link, srvVars>>

\* The oldest request fails, and the queue pair is unusable from then on.
HcaFail ==
    /\ Running /\ conn = "live" /\ sq # <<>>
    /\ Complete(Completion(Head(sq).op, FALSE))
    /\ sq' = Tail(sq) /\ executed' = IF executed > 0 THEN executed - 1 ELSE 0
    /\ link' = IF link = "up" THEN "error" ELSE link
    /\ UNCHANGED <<proc, callVars, cm, poller, wc, semVars, conn_context,
                   connVars, regions, rq, cmEvents, srvVars>>

\* A message of the server meets a posted receive; without one it is resent
\* until there is one (rnr_retry_count = 7, "infinite retry").
HcaReceive ==
    /\ Running /\ conn = "live" /\ link = "up" /\ wire # <<>> /\ rq > 0
    /\ recv_msg' = Head(wire) /\ wire' = Tail(wire)
    /\ rq' = rq - 1
    /\ Complete(Completion("RECV", TRUE))
    /\ UNCHANGED <<proc, callVars, cm, poller, wc, semVars, conn_context, conn,
                   connected, send_state, recv_state, regions, sqVars,
                   cmEvents, link, srv, remote>>

-----------------------------------------------------------------------------
(***************************************************************************)
(* External: the server.                                                   *)
(***************************************************************************)

serverFrame == <<proc, callVars, cm, poller, wc, semVars, conn_context,
                 connVars, regions, rq, sqVars, cqVars, remote>>

ServerSendMr ==
    /\ Running /\ srv = "established"
    /\ srv' = "mr_posted" /\ wire' = Append(wire, "MSG_MR")
    /\ UNCHANGED <<serverFrame, cmEvents, link>>

\* The server sees its own MR sent; a DONE it receives earlier is ignored.
ServerMrSent ==
    /\ Running /\ srv = "mr_posted" /\ wire = <<>>
    /\ srv' = "mr_sent"
    /\ UNCHANGED <<serverFrame, cmEvents, link, wire>>

ServerSendDone ==
    /\ Running /\ srv = "done_recv"
    /\ srv' = "done_posted" /\ wire' = Append(wire, "MSG_DONE")
    /\ UNCHANGED <<serverFrame, cmEvents, link>>

\* Its DONE acknowledged, the server disconnects.
ServerDisconnect ==
    /\ Running /\ srv = "done_posted" /\ wire = <<>>
    /\ srv' = "gone"
    /\ IF link = "up"
       THEN link' = "closed" /\ cmEvents' = Append(cmEvents, "DISCONNECTED")
       ELSE UNCHANGED <<link, cmEvents>>
    /\ UNCHANGED <<serverFrame, wire>>

-----------------------------------------------------------------------------
\* What the application may call, and the steps inside a call.
Call == \/ \E o \in Offsets, d \in Data : CallWrite(o, d)
        \/ \E o \in Offsets : CallRead(o)
        \/ CallDone

MainStep == \/ RdmaInit  \/ RdmaInitReturn
            \/ WriteWait \/ WriteCopy \/ WritePost
            \/ ReadWait  \/ ReadCopy
            \/ DonePost  \/ DoneReturn \/ Exit

CmStep == \/ CmResolveAddr  \/ CmGetEvent \/ OnAddrResolved
          \/ OnRouteResolved \/ OnConnect \/ PublishContext
          \/ OnDisconnect   \/ OnUnknownEvent

PollerStep == \/ PollerGetEvent \/ PollerReqNotify \/ PollerPoll
              \/ OnError \/ OnFreedConnection \/ OnReceive \/ OnSendCompletion
              \/ CheckDisconnect

HcaStep    == HcaExecute \/ HcaComplete \/ HcaReceive
ServerStep == ServerSendMr \/ ServerMrSent \/ ServerSendDone \/ ServerDisconnect

Next == Call \/ MainStep \/ CmStep \/ PollerStep
        \/ TestFails \/ CmAnswer \/ HcaStep \/ HcaFail \/ ServerStep

Spec == Init /\ [][Next]_vars

(***************************************************************************)
(* The kernel schedules every runnable thread, the adapter makes progress  *)
(* on what is posted and the server answers.  What the application calls,  *)
(* and failures, are not required to happen.                               *)
(***************************************************************************)
Fairness == /\ WF_vars(MainStep) /\ WF_vars(CmStep) /\ WF_vars(PollerStep)
            /\ WF_vars(CmAnswer) /\ WF_vars(ServerStep)
            /\ WF_vars(HcaExecute) /\ WF_vars(HcaComplete) /\ WF_vars(HcaReceive)

FairSpec == Spec /\ Fairness

-----------------------------------------------------------------------------
(***************************************************************************)
(* Properties.                                                             *)
(***************************************************************************)

\* Every variable keeps its type; the semaphores are the natural numbers that
\* sem_post and sem_wait leave.
TypeOK ==
    /\ proc \in {"running", "exit", "die", "segv"}
    /\ main \in {"start", "init_wait", "ready", "write_wait", "write_copy",
                 "write_post", "read_wait", "read_copy", "done_spin",
                 "done_wait", "finished"}
    /\ arg \in [off : Offsets \cup {NoOffset}, data : PageContents]
    /\ buf \in PageContents /\ calls \in Nat
    /\ cm \in CmEventTypes \cup {"none", "resolve", "loop", "publish", "exited"}
    /\ poller \in {"none", "get_event", "req_notify", "poll", "on_completion",
                   "check"}
    /\ wc \in Completions \cup {NoCompletion}
    /\ init_wait \in Nat /\ read_ops \in Nat /\ write_ops \in Nat /\ done_ops \in Nat
    /\ conn_context \in {"NULL", "conn"}
    /\ conn \in {"none", "live", "freed"} /\ connected \in BOOLEAN
    /\ send_state \in {"SS_INIT", "SS_DONE_SENT"}
    /\ recv_state \in {"RS_INIT", "RS_MR_RECV", "RS_DONE_RECV"}
    /\ recv_msg \in MessageTypes \cup {"none"}
    /\ rdma_local_region \in PageContents /\ rdma_remote_region \in PageContents
    /\ rq \in Nat /\ sq \in Seq(Requests) /\ executed \in 0..Len(sq)
    /\ cq \in Seq(Completions) /\ armed \in BOOLEAN /\ cqEvents \in Nat
    /\ cmEvents \in Seq(CmEventTypes)
    /\ link \in {"down", "resolving_addr", "resolving_route", "connecting",
                 "answered", "up", "error", "closed"}
    /\ srv \in {"listening", "established", "mr_posted", "mr_sent", "done_recv",
                "done_posted", "gone"}
    /\ wire \in Seq(MessageTypes)
    /\ remote \in [Offsets -> PageContents]

\* An entry of this kind is in the queue q.
Has(q, op) == \E k \in 1..Len(q) : q[k].op = op

\* A request of this kind is posted and on_completion has not seen its end.
Outstanding(op) ==
    Has(sq, op) \/ Has(cq, op) \/ (poller = "on_completion" /\ wc.op = op)

\* The write region belongs to the caller from write_ops to the post of its
\* request; all that time no earlier WRITE may still be read from the region
\* by the adapter, for the first transmission or for a repeated one.
RegionExclusive ==
    main \in {"write_copy", "write_post"} => ~Outstanding("RDMA_WRITE")

\* The server's memory once the posted writes have been carried out: what the
\* caller has written.
Memory ==
    [o \in Offsets |->
        IF \E i \in (executed + 1)..Len(sq) : sq[i] = Request("RDMA_WRITE", o)
        THEN rdma_remote_region ELSE remote[o]]

\* When rdma_read_offset copies the read region out, the region holds what was
\* last written to that page, by a call that may have returned before its
\* request was executed.
ReadFresh == main = "read_copy" => rdma_local_region = Memory[arg.off]

\* poll_cq never sleeps on completions: while it waits for an event and the
\* queue is not empty, an event is in the channel.
NoLostWakeup == poller = "get_event" /\ cq # <<>> => cqEvents > 0

\* The caller reaches struct connection only while it is allocated, although
\* the event loop frees it without asking and leaves conn_context dangling.
CallerConnLive ==
    main \in {"write_wait", "write_copy", "write_post", "read_wait",
             "read_copy", "done_spin"} => conn = "live"

\* When on_completion disconnects, no request is left on the queue pair that
\* the disconnect would flush with an error, which on_completion turns into
\* die() in the middle of a successful shutdown.
DisconnectClean ==
    poller = "check" /\ conn = "live"
        /\ send_state = "SS_DONE_SENT" /\ recv_state = "RS_DONE_RECV"
    => sq = <<>> /\ rq = 0

\* One write, one read or DONE behind it and one receive are all that is ever
\* under way: the ten entries of the send queue and of the completion queue
\* are never used up.
OutstandingBound == Len(sq) + Len(cq) <= 3

\* The unbounded loop of send_message never has to wait: whoever finds the
\* connection through conn_context also finds it connected.
SpinNeverWaits == main = "done_spin" => connected

\* rdma_init is "blocking" and returns at the "end of init": the connection is
\* there for the calls that follow.  TLC refutes this (README, known deviations).
InitMeansReady == main = "ready" => conn_context # "NULL"

\* Every blocking call but rdma_done returns, unless the process ends.
CallsReturn ==
    main \in {"init_wait", "write_wait", "write_copy", "write_post", "read_wait",
             "read_copy"} ~> (main = "ready" \/ ~Running)

\* rdma_done, a blocking call, returns or the process ends.
DoneReturns == main = "done_wait" ~> (main = "finished" \/ ~Running)

-----------------------------------------------------------------------------
\* The client implements the abstract memory.
PendingCall ==
    CASE main \in {"write_wait", "write_copy", "write_post"} ->
           [op |-> "write", off |-> arg.off, data |-> arg.data]
      [] main \in {"read_wait", "read_copy"} -> [op |-> "read", off |-> arg.off]
      [] OTHER -> [op |-> "none"]

Abstract == INSTANCE RemoteMemory
                WITH mem <- Memory, pend <- PendingCall, ret <- buf,
                     up <- link # "error"

\* Every behaviour of the three threads, the adapter and the server is one of
\* the abstract memory: a write takes effect when it is posted, a read when it
\* copies the region out.
ImplementsMemory == Abstract!Spec
=============================================================================
