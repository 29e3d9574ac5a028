------------------------------- MODULE Paging -------------------------------
(***************************************************************************)
(* page.c: a Dune process that pages a buffer out to the server and back.  *)
(* Its main thread runs in Dune mode, writes every page with               *)
(* rdma_write_offset, removes the pages from its own page table, and then  *)
(* touches them; each first touch is a page fault that pgflt_handler       *)
(* serves with rdma_read_offset.  The RDMA threads, which never enter Dune *)
(* mode, do not see that page table and run as in RdmaClient.              *)
(*                                                                         *)
(* The frame behind a page does not move (dune_va_to_pa), so unmapping a   *)
(* page leaves its contents in place and paging it in overwrites them.     *)
(* page.c fills its buffer with zeros, which is one of the fillings here;  *)
(* the others tell pages apart.                                            *)
(***************************************************************************)
EXTENDS RdmaClient

CONSTANT PageNr   \* page_nr

ASSUME PageNrAssumption == PageNr \in Nat \ {0} /\ Offsets = 0..(PageNr - 1)
ASSUME CallsAssumption  == MaxCalls >= 2 * PageNr

VARIABLES
    app,    \* program counter of main and of the handler on top of it
    i,      \* the page that the loop, memcmp or the handler is at
    page,   \* the contents of the buffer's frames
    val,    \* the copy the buffer is compared with
    pte,    \* the pages with a present page table entry
    mtx     \* _syscall_mtx is held

appVars == <<app, i, page, val, pte, mtx>>
allVars == <<vars, appVars>>

PInit ==
    /\ Init
    /\ app = "rdma_init" /\ i = 0 /\ pte = Offsets /\ mtx = FALSE
    /\ page = [p \in Offsets |-> Garbage] /\ val = [p \in Offsets |-> Garbage]

\* A step of the application needs the RDMA library to be idle.
Idle == Running /\ main = "ready"

-----------------------------------------------------------------------------
(***************************************************************************)
(* Faulty variants of steps below, for showing that each property notices  *)
(* the fault it is there for.  No specification uses them.                 *)
(***************************************************************************)

\* Every page is written to the first offset, as for a single page.
PageOutToFirst ==
    /\ app = "page_out" /\ i < PageNr
    /\ CallWrite(0, page[i])
    /\ i' = i + 1
    /\ UNCHANGED <<app, page, val, pte, mtx>>

\* The handler reads the first page whatever page faulted.
HandlerReadsFirst ==
    /\ app = "page_in"
    /\ CallRead(0)
    /\ app' = "read"
    /\ UNCHANGED <<i, page, val, pte, mtx>>

\* The handler returns with the mutex held.
HandlerKeepsLock ==
    /\ Idle /\ app = "handler_unlock"
    /\ app' = "compare"
    /\ UNCHANGED <<vars, i, page, val, pte, mtx>>

-----------------------------------------------------------------------------
(***************************************************************************)
(* main.                                                                   *)
(***************************************************************************)

\* posix_memalign failed: main returns.
AllocFails ==
    /\ Idle /\ app = "rdma_init"
    /\ End("exit")
    /\ UNCHANGED <<world, appVars>>

\* The buffer is allocated and filled, and val is its copy.
FillPages ==
    /\ Idle /\ app = "rdma_init"
    /\ page' \in [Offsets -> Data] /\ val' = page'
    /\ app' = "lock"
    /\ UNCHANGED <<vars, i, pte, mtx>>

PageOutLock ==
    /\ Idle /\ app = "lock" /\ ~mtx
    /\ mtx' = TRUE
    /\ app' = "page_out" /\ i' = 0
    /\ UNCHANGED <<vars, page, val, pte>>

\* One turn of the page-out loop; WritePost ends it.
PageOutWrite ==
    /\ app = "page_out" /\ i < PageNr
    /\ CallWrite(i, page[i])
    /\ i' = i + 1
    /\ UNCHANGED <<app, page, val, pte, mtx>>

\* dune_vm_unmap, with its TLB flush.
PageOutUnmap ==
    /\ Idle /\ app = "page_out" /\ i = PageNr
    /\ pte' = {}
    /\ app' = "unlock"
    /\ UNCHANGED <<vars, i, page, val, mtx>>

PageOutUnlock ==
    /\ Idle /\ app = "unlock"
    /\ mtx' = FALSE
    /\ app' = "compare" /\ i' = 0
    /\ UNCHANGED <<vars, page, val, pte>>

\* memcmp touches page i: a fault if it is not present, else the comparison.
TouchAbsent ==
    /\ Idle /\ app = "compare" /\ i < PageNr /\ i \notin pte
    /\ app' = "fault"
    /\ UNCHANGED <<vars, i, page, val, pte, mtx>>

TouchPresent ==
    /\ Idle /\ app = "compare" /\ i < PageNr /\ i \in pte
    /\ IF page[i] = val[i]
       THEN i' = i + 1 /\ UNCHANGED <<proc, app>>
       ELSE End("die") /\ app' = "assert_failed" /\ UNCHANGED i
    /\ UNCHANGED <<world, page, val, pte, mtx>>

Done ==
    /\ app = "compare" /\ i = PageNr
    /\ CallDone
    /\ app' = "done"
    /\ UNCHANGED <<i, page, val, pte, mtx>>

-----------------------------------------------------------------------------
(***************************************************************************)
(* pgflt_handler.                                                          *)
(***************************************************************************)
HandlerLock ==
    /\ Idle /\ app = "fault" /\ ~mtx
    /\ mtx' = TRUE
    /\ app' = "set_pte"
    /\ UNCHANGED <<vars, i, page, val, pte>>

\* The entry becomes present and writable before the data is there: the copy
\* at the end of rdma_read_offset goes through it.
HandlerSetPte ==
    /\ Idle /\ app = "set_pte"
    /\ pte' = pte \cup {i}
    /\ app' = "page_in"
    /\ UNCHANGED <<vars, i, page, val, mtx>>

HandlerRead ==
    /\ app = "page_in"
    /\ CallRead(i)
    /\ app' = "read"
    /\ UNCHANGED <<i, page, val, pte, mtx>>

\* rdma_read_offset's memcpy lands in the page.
HandlerCopy ==
    /\ app = "read"
    /\ ReadCopy
    /\ page' = [page EXCEPT ![i] = rdma_local_region]
    /\ app' = "handler_unlock"
    /\ UNCHANGED <<i, val, pte, mtx>>

HandlerUnlock ==
    /\ Idle /\ app = "handler_unlock"
    /\ mtx' = FALSE
    /\ app' = "compare"
    /\ UNCHANGED <<vars, i, page, val, pte>>

-----------------------------------------------------------------------------
AppStep == \/ FillPages \/ PageOutLock \/ PageOutWrite \/ PageOutUnmap
           \/ PageOutUnlock \/ TouchAbsent \/ TouchPresent \/ Done
           \/ HandlerLock \/ HandlerSetPte \/ HandlerRead \/ HandlerCopy
           \/ HandlerUnlock

\* The library's other steps leave the application alone.  ReadCopy is part of
\* HandlerCopy, and the calls are made by the application.
LibMain == \/ RdmaInit  \/ RdmaInitReturn
           \/ WriteWait \/ WriteCopy \/ WritePost \/ ReadWait
           \/ DonePost  \/ DoneReturn \/ Exit

Lib(A) == A /\ UNCHANGED appVars

\* The only post of a read is the handler's.
LibFails == TestFails /\ (main = "ready" => app = "page_in")

LibStep == \/ Lib(LibFails)
           \/ Lib(LibMain) \/ Lib(CmStep) \/ Lib(PollerStep) \/ Lib(CmAnswer)
           \/ Lib(HcaStep) \/ Lib(HcaFail) \/ Lib(ServerStep)

PNext == AppStep \/ AllocFails \/ LibStep

PSpec == PInit /\ [][PNext]_allVars

(***************************************************************************)
(* The fairness of RdmaClient, and the application's thread is scheduled.  *)
(***************************************************************************)
PFairness ==
    /\ WF_allVars(AppStep)
    /\ WF_allVars(Lib(LibMain)) /\ WF_allVars(Lib(CmStep))
    /\ WF_allVars(Lib(PollerStep)) /\ WF_allVars(Lib(CmAnswer))
    /\ WF_allVars(Lib(ServerStep)) /\ WF_allVars(Lib(HcaExecute))
    /\ WF_allVars(Lib(HcaComplete)) /\ WF_allVars(Lib(HcaReceive))

PFairSpec == PSpec /\ PFairness

-----------------------------------------------------------------------------
(***************************************************************************)
(* Properties.                                                             *)
(***************************************************************************)

\* The application's variables keep their types.
PTypeOK ==
    /\ app \in {"rdma_init", "lock", "page_out", "unlock", "compare", "fault",
                "set_pte", "page_in", "read", "handler_unlock", "done",
                "assert_failed"}
    /\ i \in 0..PageNr
    /\ page \in [Offsets -> PageContents] /\ val \in [Offsets -> PageContents]
    /\ pte \in SUBSET Offsets /\ mtx \in BOOLEAN

\* A page without a page table entry is safe on the other side: its contents
\* are in the server's region or in a write that is still on its way there,
\* unless the connection failed.
PagedOutIsRemote ==
    PTypeOK /\ (link # "error" => \A p \in Offsets \ pte : Memory[p] = val[p])

\* The assertion at the end of page.c: paging out and in gives every page back
\* as it was.
AssertHolds == app # "assert_failed"

\* The program gets through all its faults: it reaches the wait of rdma_done,
\* or the process ends.
ReachesDone == <>(main = "done_wait" \/ ~Running)
=============================================================================
