---------------------------- MODULE PagingProofs ----------------------------
(***************************************************************************)
(* page.c gets every page back as it was, for any number of pages and any  *)
(* contents: whatever the RDMA threads, the adapter and the server do, the *)
(* client is the memory of RemoteMemory, and on that memory the program    *)
(* reads each page where it wrote it.                                      *)
(***************************************************************************)
EXTENDS Paging, RdmaClientProofs

USE PageNrAssumption

-----------------------------------------------------------------------------
(***************************************************************************)
(* The inductive invariant, on top of that of the RDMA client.             *)
(***************************************************************************)

\* All pages have been written and their entries cleared.
PagedOut == {"unlock", "compare", "fault", "set_pte", "page_in", "read",
             "handler_unlock", "done"}

\* Inside rdma_write_offset.
InWrite == {"write_wait", "write_copy", "write_post"}

\* Between the calls the library is idle; during a call it works on the page
\* the program is at.
CallInv ==
    /\ app = "rdma_init" => main \in {"start", "init_wait", "ready"}
    /\ app \in {"lock", "unlock", "compare", "fault", "set_pte", "page_in",
                "handler_unlock"} => main = "ready"
    /\ app = "page_out" =>
         \/ main = "ready"
         \/ /\ main \in InWrite
            /\ i > 0 /\ arg.off = i - 1 /\ arg.data = val[i - 1]
    /\ app = "read" => main \in {"read_wait", "read_copy"} /\ arg.off = i
    /\ app = "done" => main \in {"done_spin", "done_wait", "finished"}

\* The pages that the loop has written: all before i, without the one whose
\* write is not yet posted.
Written == {p \in Offsets : p < i /\ (p = i - 1 => main = "ready")}

PagingInv ==
    /\ PTypeOK /\ AssertHolds
    /\ app # "rdma_init" => page = val /\ val \in [Offsets -> Data]
    /\ app \in {"rdma_init", "lock", "page_out"} => pte = Offsets
    /\ app \in {"fault", "set_pte", "page_in", "read"} => i < PageNr
    /\ Running => CallInv
    /\ app \in PagedOut /\ link # "error" => \A p \in Offsets : Memory[p] = val[p]
    /\ Running /\ app = "page_out" /\ link # "error" =>
         \A p \in Written : Memory[p] = val[p]

-----------------------------------------------------------------------------
(***************************************************************************)
(* The program uses the client as its specification allows.                *)
(***************************************************************************)

\* What the library does outside the program's calls and copies: the calling
\* thread goes on with its call, and nothing of the program changes.
LEMMA LibFlow ==
    ASSUME LibStep
    PROVE  /\ Running /\ Next /\ UNCHANGED appVars /\ arg' = arg
           /\ \/ main' = main
              \/ main = "start" /\ main' = "init_wait"
              \/ main = "init_wait" /\ main' = "ready"
              \/ main = "write_wait" /\ main' = "write_copy"
              \/ main = "write_copy" /\ main' = "write_post"
              \/ main = "write_post" /\ main' = "ready"
              \/ main = "read_wait" /\ main' = "read_copy"
              \/ main = "done_spin" /\ main' = "done_wait"
              \/ main = "done_wait" /\ main' = "finished"
<1> USE DEF callVars, world, Lib, appVars
<1>1. CASE Lib(LibFails)
  BY <1>1 DEF LibFails, TestFails, Next, Running
<1>2. CASE Lib(LibMain)
  BY <1>2 DEF LibMain, Next, MainStep, RdmaInit, RdmaInitReturn, WriteWait,
     WriteCopy, WritePost, ReadWait, DonePost, DoneReturn, Exit, Running
<1>3. CASE Lib(CmStep)
  BY <1>3 DEF Next, CmStep, CmResolveAddr, CmGetEvent, OnAddrResolved,
     OnRouteResolved, OnConnect, PublishContext, OnDisconnect, OnUnknownEvent,
     Running
<1>4. CASE Lib(PollerStep)
  BY <1>4 DEF Next, PollerStep, PollerGetEvent, PollerReqNotify, PollerPoll,
     OnError, OnFreedConnection, OnReceive, OnSendCompletion, CheckDisconnect, Running
<1>5. CASE Lib(CmAnswer)
  BY <1>5 DEF Next, CmAnswer, Running
<1>6. CASE Lib(HcaStep)
  BY <1>6 DEF Next, HcaStep, HcaExecute, HcaComplete, HcaReceive, Running
<1>7. CASE Lib(HcaFail)
  BY <1>7 DEF Next, HcaFail, Running
<1>8. CASE Lib(ServerStep)
  BY <1>8 DEF Next, ServerStep, ServerSendMr, ServerMrSent, ServerSendDone,
     ServerDisconnect, serverFrame, Running
<1>. QED BY <1>1, <1>2, <1>3, <1>4, <1>5, <1>6, <1>7, <1>8 DEF LibStep

\* The program only ends the process, or makes a step of the client.
LEMMA ClientStep ==
    ASSUME PTypeOK, PagingInv, [PNext]_allVars
    PROVE  [Next]_vars \/ (proc' \in {"exit", "die"} /\ UNCHANGED world)
<1>1. CASE LibStep
  BY <1>1, LibFlow
<1>2. CASE AllocFails
  BY <1>2 DEF AllocFails, End
<1>3. CASE TouchPresent
  BY <1>3 DEF TouchPresent, End, vars
<1>4. CASE PageOutWrite
  <2>1. i \in Offsets /\ page[i] \in Data
    BY <1>4 DEF PageOutWrite, PTypeOK, PagingInv
  <2>. QED BY <1>4, <2>1 DEF PageOutWrite, Next, Call
<1>5. CASE HandlerRead
  <2>1. i \in Offsets
    BY <1>5 DEF HandlerRead, PTypeOK, PagingInv
  <2>. QED BY <1>5, <2>1 DEF HandlerRead, Next, Call
<1>6. CASE Done
  BY <1>6 DEF Done, Next, Call
<1>7. CASE HandlerCopy
  BY <1>7 DEF HandlerCopy, Next, MainStep
<1>8. CASE FillPages \/ PageOutLock \/ PageOutUnmap \/ PageOutUnlock
           \/ TouchAbsent \/ HandlerLock \/ HandlerSetPte \/ HandlerUnlock
  BY <1>8 DEF FillPages, PageOutLock, PageOutUnmap, PageOutUnlock, TouchAbsent,
     HandlerLock, HandlerSetPte, HandlerUnlock
<1>9. CASE UNCHANGED allVars
  BY <1>9 DEF allVars
<1>. QED BY <1>1, <1>2, <1>3, <1>4, <1>5, <1>6, <1>7, <1>8, <1>9 DEF PNext, AppStep

\* The end of the process leaves the client's invariant as it is.
LEMMA EndKeeps ==
    ASSUME IInv, proc' \in {"exit", "die"}, UNCHANGED world
    PROVE  IInv'
<1> USE DEF callVars, semVars, connVars, regions, sqVars, cqVars, srvVars, world
<1>1. TypeOK'  BY DEF IInv, TypeOK
<1>2. SetupInv'  BY DEF IInv, SetupInv
<1>3. QuietInv'  BY DEF IInv, QuietInv
<1>4. WakeupInv' /\ SleepInv'  BY DEF IInv, WakeupInv, SleepInv
<1>5. WriteInv'  BY DEF IInv, WriteInv, Outstanding, InWc
<1>6. ReadInv'  BY DEF IInv, ReadInv, ReadArrived, Outstanding, InWc
<1>7. DoneInv'  BY DEF IInv, DoneInv, Outstanding, InWc
<1>8. FailInv'  BY DEF FailInv, Running
<1>. QED BY <1>1, <1>2, <1>3, <1>4, <1>5, <1>6, <1>7, <1>8 DEF IInv

\* The client's invariant holds in the program too.
LEMMA ClientInv == IInv /\ PagingInv /\ [PNext]_allVars => IInv'
<1> SUFFICES ASSUME IInv, PagingInv, [PNext]_allVars PROVE IInv'
  OBVIOUS
<1>1. IInv /\ [Next]_vars => IInv'
  BY TypeOKStep, SetupInvStep, QuietInvStep, WakeupInvStep, SleepInvStep,
     WriteInvStep, ReadInvStep, DoneInvStep, FailInvStep DEF IInv
<1>2. [Next]_vars \/ (proc' \in {"exit", "die"} /\ UNCHANGED world)
  BY ClientStep DEF PagingInv
<1>. QED BY <1>1, <1>2, EndKeeps

\* What a step of the client does to the memory: only a write changes it, and
\* only while the connection is up; a failed connection stays failed.
LEMMA MemoryStep ==
    ASSUME IInv, IInv', [Next]_vars, link' # "error"
    PROVE  /\ link # "error"
           /\ \/ /\ Memory' = Memory
                 /\ main \in InWrite => main' \in InWrite
              \/ /\ main \in InWrite /\ main' \notin InWrite
                 /\ Memory' = [Memory EXCEPT ![arg.off] = arg.data]
<1>1. [Abstract!Next]_(Abstract!vars)
  BY RefinementStep
<1>2. /\ PendingCall.op = "write" <=> main \in InWrite
      /\ PendingCall'.op = "write" <=> main' \in InWrite
      /\ main \in InWrite => PendingCall.off = arg.off /\ PendingCall.data = arg.data
  BY DEF PendingCall, InWrite
<1>3. CASE UNCHANGED Abstract!vars
  BY <1>2, <1>3 DEF Abstract!vars
<1>4. ASSUME NEW call, Abstract!Invoke(call)
      PROVE  link # "error" /\ Memory' = Memory /\ main \notin InWrite
  BY <1>2, <1>4 DEF Abstract!Invoke, Abstract!NoCall
<1>5. CASE Abstract!Write
  BY <1>2, <1>5 DEF Abstract!Write, Abstract!NoCall
<1>6. CASE Abstract!Read
  BY <1>2, <1>6 DEF Abstract!Read
<1>7. CASE Abstract!Fail
  BY <1>7 DEF Abstract!Fail
<1>. QED BY <1>1, <1>3, <1>4, <1>5, <1>6, <1>7 DEF Abstract!Next

-----------------------------------------------------------------------------
(***************************************************************************)
(* The program's own steps.                                                *)
(***************************************************************************)

\* The library works on the current call: while the connection is up, what is
\* written stays, and the page whose write is posted is added to it.
LEMMA LibKeeps == IInv /\ IInv' /\ PagingInv /\ LibStep => PagingInv'
<1> SUFFICES ASSUME IInv, IInv', PagingInv, LibStep PROVE PagingInv'
  OBVIOUS
<1>1. Running /\ Next /\ arg' = arg
      /\ app' = app /\ i' = i /\ page' = page /\ val' = val /\ pte' = pte /\ mtx' = mtx
  BY LibFlow DEF appVars
<1>2. CallInv
  BY <1>1 DEF PagingInv
<1>3. CallInv'
  BY <1>1, <1>2, LibFlow DEF CallInv, InWrite
<1>4. PTypeOK' /\ AssertHolds'
  BY <1>1 DEF PagingInv, PTypeOK, AssertHolds
<1>5. ASSUME app' \in PagedOut, link' # "error", NEW p \in Offsets
      PROVE  Memory'[p] = val'[p]
  <2>1. main \notin InWrite
    BY <1>1, <1>2, <1>5 DEF CallInv, PagedOut, InWrite
  <2>2. link # "error" /\ Memory' = Memory
    BY <1>1, <1>5, <2>1, MemoryStep
  <2>. QED BY <1>1, <1>5, <2>2 DEF PagingInv
<1>6. ASSUME app' = "page_out", link' # "error", NEW p \in Written'
      PROVE  Memory'[p] = val'[p]
  <2>1. p \in Offsets /\ p < i /\ (p = i - 1 => main' = "ready")
    BY <1>1, <1>6 DEF Written
  <2>2. link # "error"
    BY <1>1, <1>6, MemoryStep
  <2>3. \A q \in Written : Memory[q] = val[q]
    BY <1>1, <1>6, <2>2 DEF PagingInv
  <2>4. CASE main = "ready"
    <3>1. p \in Written
      BY <2>1, <2>4 DEF Written
    <3>2. Memory' = Memory
      BY <1>1, <1>6, <2>4, MemoryStep DEF InWrite
    <3>. QED BY <1>1, <2>3, <3>1, <3>2
  <2>5. CASE main # "ready"
    <3>1. /\ main \in InWrite
          /\ i > 0 /\ arg.off = i - 1 /\ arg.data = val[i - 1]
      BY <1>1, <1>2, <1>6, <2>5 DEF CallInv
    <3>2. p # i - 1 => p \in Written
      BY <2>1 DEF Written
    <3>3. Memory \in [Offsets -> PageContents]
      BY MemoryType DEF IInv
    <3>4. CASE Memory' = [Memory EXCEPT ![arg.off] = arg.data]
      BY <1>1, <2>1, <2>3, <3>1, <3>2, <3>3, <3>4
    <3>5. CASE Memory' = Memory /\ main' # "ready"
      BY <1>1, <2>1, <2>3, <3>2, <3>5
    <3>6. main' = "ready" => Memory' = [Memory EXCEPT ![arg.off] = arg.data]
      BY <1>1, <1>6, <3>1, MemoryStep DEF InWrite
    <3>. QED BY <1>1, <1>6, <3>4, <3>5, <3>6, MemoryStep
  <2>. QED BY <2>4, <2>5
<1>. QED BY <1>1, <1>3, <1>4, <1>5, <1>6 DEF PagingInv

\* The steps between the calls: a page gets an entry back only in the handler,
\* and all entries go only when the loop has written every page.
LEMMA LocalKeeps ==
    ASSUME IInv, PagingInv, UNCHANGED vars,
           \/ FillPages \/ PageOutLock \/ PageOutUnmap \/ PageOutUnlock
           \/ TouchAbsent \/ HandlerLock \/ HandlerSetPte \/ HandlerUnlock
    PROVE  PagingInv'
<1>1. /\ proc' = proc /\ main' = main /\ arg' = arg /\ link' = link
      /\ Memory' = Memory /\ (Running' <=> Running)
  <2>1. Memory' = Memory
    BY MemoryFrame DEF vars, world, sqVars, srvVars, regions
  <2>. QED BY <2>1 DEF vars, world, callVars, Running
<1>2. Running /\ main = "ready" /\ PTypeOK /\ CallInv
  BY DEF PagingInv, Idle, FillPages, PageOutLock, PageOutUnmap, PageOutUnlock,
     TouchAbsent, HandlerLock, HandlerSetPte, HandlerUnlock
<1> USE DEF PagingInv, AssertHolds, CallInv, PagedOut
<1>3. CASE FillPages
  <2>1. page' \in [Offsets -> PageContents]
    BY <1>3 DEF FillPages, PageContents
  <2>. QED BY <1>1, <1>2, <1>3, <2>1 DEF FillPages, PTypeOK
<1>4. CASE PageOutLock
  <2>1. Written' = {}
    BY <1>1, <1>4 DEF PageOutLock, Written
  <2>. QED BY <1>1, <1>2, <1>4, <2>1 DEF PageOutLock, PTypeOK
<1>5. CASE PageOutUnmap
  <2>1. Written = Offsets
    BY <1>2, <1>5 DEF PageOutUnmap, Written
  <2>. QED BY <1>1, <1>2, <1>5, <2>1 DEF PageOutUnmap, PTypeOK
<1>6. CASE PageOutUnlock
  <2>1. /\ app = "unlock" /\ app' = "compare" /\ i' = 0 /\ mtx' = FALSE
        /\ page' = page /\ val' = val /\ pte' = pte
    BY <1>6 DEF PageOutUnlock
  <2>2. PTypeOK'
    <3>1. 0 \in 0..PageNr
      OBVIOUS
    <3>. QED BY <1>2, <2>1, <3>1 DEF PTypeOK
  <2>. QED BY <1>1, <1>2, <2>1, <2>2
<1>7. CASE TouchAbsent
  BY <1>1, <1>2, <1>7 DEF TouchAbsent, PTypeOK
<1>8. CASE HandlerLock
  BY <1>1, <1>2, <1>8 DEF HandlerLock, PTypeOK
<1>9. CASE HandlerSetPte
  <2>1. i \in Offsets
    BY <1>9 DEF HandlerSetPte, PTypeOK
  <2>. QED BY <1>1, <1>2, <1>9, <2>1 DEF HandlerSetPte, PTypeOK
<1>10. CASE HandlerUnlock
  BY <1>1, <1>2, <1>10 DEF HandlerUnlock, PTypeOK
<1>. QED BY <1>3, <1>4, <1>5, <1>6, <1>7, <1>8, <1>9, <1>10

\* The invariant is inductive: rdma_read_offset brings a page's contents back
\* into its frame, so the comparison finds nothing else there.
LEMMA PagingStep == IInv /\ IInv' /\ PagingInv /\ [PNext]_allVars => PagingInv'
<1> SUFFICES ASSUME IInv, IInv', PagingInv, [PNext]_allVars PROVE PagingInv'
  OBVIOUS
<1>1. CASE LibStep
  BY <1>1, LibKeeps
<1>2. CASE \/ FillPages \/ PageOutLock \/ PageOutUnmap \/ PageOutUnlock
           \/ TouchAbsent \/ HandlerLock \/ HandlerSetPte \/ HandlerUnlock
  <2>1. UNCHANGED vars
    BY <1>2 DEF FillPages, PageOutLock, PageOutUnmap, PageOutUnlock,
       TouchAbsent, HandlerLock, HandlerSetPte, HandlerUnlock
  <2>. QED BY <1>2, <2>1, LocalKeeps
<1>3. CASE AllocFails
  <2>1. Memory' = Memory /\ link' = link /\ ~Running'
    BY <1>3, MemoryFrame
       DEF AllocFails, End, world, sqVars, srvVars, regions, Running
  <2>. QED BY <1>3, <2>1 DEF AllocFails, appVars, PagingInv, PTypeOK, AssertHolds
<1>4. CASE TouchPresent
  <2>1. /\ Memory' = Memory /\ link' = link /\ main' = main /\ arg' = arg
        /\ page' = page /\ val' = val /\ pte' = pte /\ mtx' = mtx
    BY <1>4, MemoryFrame
       DEF TouchPresent, world, sqVars, srvVars, regions, callVars
  <2>2. page = val /\ app = "compare" /\ i < PageNr /\ i \in 0..PageNr
        /\ CallInv
    BY <1>4 DEF TouchPresent, Idle, PagingInv, PTypeOK
  <2>3. i' = i + 1 /\ app' = app /\ proc' = proc
    BY <1>4, <2>2 DEF TouchPresent
  <2>. QED BY <2>1, <2>2, <2>3
       DEF PagingInv, PTypeOK, AssertHolds, CallInv, Running, PagedOut
<1>5. CASE PageOutWrite
  <2>1. /\ i \in Offsets /\ Running /\ app = "page_out" /\ main = "ready"
        /\ CallWrite(i, page[i]) /\ page = val
        /\ i' = i + 1 /\ app' = app /\ page' = page /\ val' = val
        /\ pte' = pte /\ mtx' = mtx
    BY <1>5 DEF PageOutWrite, CallWrite, PagingInv, PTypeOK
  <2>2. /\ Memory' = Memory /\ link' = link
        /\ arg' = [off |-> i, data |-> val[i]]
        /\ main' = "write_wait" \/ ~Running'
    BY <2>1, MemoryFrame
       DEF CallWrite, End, sqVars, srvVars, regions, Running
  <2>3. Running' => CallInv'
    BY <2>1, <2>2 DEF CallInv, InWrite
  <2>4. ASSUME Running', link' # "error", NEW p \in Written'
        PROVE  Memory'[p] = val'[p]
    <3>1. main' # "ready" /\ p \in Offsets /\ p < i + 1 /\ p # i
      BY <2>1, <2>2, <2>4 DEF Written
    <3>2. p \in Written
      BY <2>1, <3>1 DEF Written
    <3>. QED BY <2>1, <2>2, <2>4, <3>2 DEF PagingInv
  <2>. QED BY <2>1, <2>2, <2>3, <2>4 DEF PagingInv, PTypeOK, AssertHolds, PagedOut
<1>6. CASE HandlerRead
  <2>1. /\ i \in Offsets /\ Running /\ app = "page_in" /\ main = "ready"
        /\ CallRead(i)
        /\ app' = "read" /\ i' = i /\ page' = page /\ val' = val
        /\ pte' = pte /\ mtx' = mtx
    BY <1>6 DEF HandlerRead, CallRead, PagingInv, PTypeOK
  <2>2. /\ link' = link /\ arg'.off = i
        /\ main' = "read_wait" \/ ~Running'
    BY <2>1 DEF CallRead, End, Running
  <2>3. [Next]_vars
    BY <2>1 DEF Next, Call
  <2>4. link' # "error" => Memory' = Memory
    BY <2>1, <2>3, MemoryStep DEF InWrite
  <2>5. Running' => CallInv'
    BY <2>1, <2>2 DEF CallInv
  <2>. QED BY <2>1, <2>2, <2>4, <2>5 DEF PagingInv, PTypeOK, AssertHolds, PagedOut
<1>7. CASE HandlerCopy
  <2>1. /\ app = "read" /\ ReadCopy /\ main = "read_copy" /\ main' = "ready"
        /\ page' = [page EXCEPT ![i] = rdma_local_region]
        /\ app' = "handler_unlock" /\ i' = i /\ val' = val
        /\ pte' = pte /\ mtx' = mtx /\ Running /\ link' = link
    BY <1>7 DEF HandlerCopy, ReadCopy
  <2>2. arg.off = i /\ i \in Offsets /\ page = val /\ val \in [Offsets -> Data]
    BY <2>1 DEF PagingInv, CallInv, PTypeOK
  <2>3. link # "error" /\ rdma_local_region = Memory[i]
    <3>1. ReadInv /\ ReadFresh
      BY ReadFreshInv DEF IInv
    <3>. QED BY <2>1, <2>2, <3>1 DEF ReadInv, ReadArrived, ReadFresh
  <2>4. Memory[i] = val[i]
    BY <2>1, <2>2, <2>3 DEF PagingInv, PagedOut
  <2>5. page' = page
    BY <2>1, <2>2, <2>3, <2>4
  <2>6. Memory' = Memory
    BY <2>1, MemoryFrame DEF ReadCopy, sqVars, srvVars, regions
  <2>7. CallInv'
    BY <2>1 DEF CallInv
  <2>. QED BY <2>1, <2>2, <2>5, <2>6, <2>7
       DEF PagingInv, PTypeOK, AssertHolds, PagedOut
<1>8. CASE Done
  <2>1. /\ app = "compare" /\ CallDone /\ app' = "done" /\ i' = i
        /\ page' = page /\ val' = val /\ pte' = pte /\ mtx' = mtx
    BY <1>8 DEF Done
  <2>2. Memory' = Memory /\ link' = link /\ (main' = "done_spin" \/ ~Running')
    BY <2>1, MemoryFrame DEF CallDone, End, sqVars, srvVars, regions, Running
  <2>3. Running' => CallInv'
    BY <2>1, <2>2 DEF CallInv
  <2>. QED BY <2>1, <2>2, <2>3 DEF PagingInv, PTypeOK, AssertHolds, PagedOut
<1>9. CASE UNCHANGED allVars
  <2>1. /\ Memory' = Memory /\ link' = link /\ main' = main /\ arg' = arg
        /\ proc' = proc /\ UNCHANGED appVars
    BY <1>9, MemoryFrame
       DEF allVars, vars, world, sqVars, srvVars, regions, callVars
  <2>. QED BY <2>1
       DEF appVars, PagingInv, PTypeOK, AssertHolds, CallInv, Written, Running
<1>. QED BY <1>1, <1>2, <1>3, <1>4, <1>5, <1>6, <1>7, <1>8, <1>9
     DEF PNext, AppStep

-----------------------------------------------------------------------------
(***************************************************************************)
(* The results.                                                            *)
(***************************************************************************)

\* Both invariants hold in every state of page.c.
THEOREM PagingInvariance == PSpec => [](IInv /\ PagingInv)
<1>1. PInit => IInv /\ PagingInv
  <2> SUFFICES ASSUME PInit PROVE IInv /\ PagingInv
    OBVIOUS
  <2>1. IInv
    BY InitIInv DEF PInit
  <2>2. PTypeOK
    <3>1. /\ app = "rdma_init" /\ i = 0 /\ pte = Offsets /\ mtx = FALSE
          /\ page = [p \in Offsets |-> Garbage]
          /\ val = [p \in Offsets |-> Garbage]
      BY DEF PInit
    <3>2. 0 \in 0..PageNr
      OBVIOUS
    <3>. QED BY <3>1, <3>2 DEF PTypeOK, PageContents
  <2>3. CallInv
    BY DEF PInit, Init, CallInv
  <2>. QED BY <2>1, <2>2, <2>3 DEF PInit, PagingInv, AssertHolds, PagedOut
<1>2. IInv /\ PagingInv /\ [PNext]_allVars => (IInv /\ PagingInv)'
  BY ClientInv, PagingStep
<1>. QED BY <1>1, <1>2, PTL DEF PSpec

\* A page whose entry dune_vm_unmap removed is on the server's side, or in a
\* write on its way there, until the connection fails.
THEOREM PagedOutPagesAreRemote == PSpec => []PagedOutIsRemote
<1>1. PagingInv => PagedOutIsRemote
  BY DEF PagingInv, PagedOutIsRemote, PTypeOK, PagedOut, AssertHolds
<1>. QED BY <1>1, PagingInvariance, PTL

\* The assertion at the end of page.c never fails.
THEOREM AssertionHolds == PSpec => []AssertHolds
<1>1. PagingInv => AssertHolds
  BY DEF PagingInv
<1>. QED BY <1>1, PagingInvariance, PTL
=============================================================================
