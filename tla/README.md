# A verification project for RDMA_paging

RDMA_paging moves the pages of a process to the memory of another machine and
back. A program runs in Dune mode (hardware virtualisation gives it a page table
of its own), writes its pages to a server with RDMA, removes them from its page
table and, on the page fault that follows, reads them back inside its fault
handler. This directory holds TLA+ models of the parts that carry that logic, the
TLC runs that check them on small instances, and proofs, checked by TLAPS, that
hold for instances of any size.

## 1. Inventory

| part | state | operations | interacts with |
|---|---|---|---|
| RDMA client (`rdma-client.c`, `rdma-common.c`) | four semaphores, `struct connection` (two protocol states, `connected`, four registered buffers), the global `conn_context`, send, receive and completion queues | `rdma_init`, `rdma_read`, `rdma_read_offset`, `rdma_write_offset`, `rdma_done`; event handlers of the connection manager; `on_completion` | the caller's thread, the event-loop thread `create_rdma` and the poller thread `poll_cq` share everything without a lock; librdmacm, the adapter, the server |
| `rdma-server` (binary only) | its protocol state, the memory region | announces its region, answers MSG_DONE, disconnects | the client's messages, RDMA requests that bypass it |
| `page.c` | the buffer, its copy, the page table, `_syscall_mtx` | page-out loop, `memcmp`, `pgflt_handler` | RDMA client, libdune's page table |
| `hello2.c`, `base.c`, `pgflt.c` | as `page.c` | one page; `madvise` instead of RDMA; a fault with nothing behind it | as `page.c` |
| libdune page allocator (`page.c`, `dune.h`) | free list, reference counts, `num_pages` | alloc, free, get, put, grow | libdune's page tables |
| libdune page tables (`vm.c`) | four-level tables | walk, lookup, map, unmap, protect, clone, free, COW fault | page allocator, `procmap.c`, `entry.c` |
| libdune entry, traps (`entry.c`, `trap.c`, `elf.c`, `procmap.c`, `util.c`) | per-CPU data, handlers | `dune_init`, `dune_enter`, handler registration and dispatch | kernel module |
| kernel module (`kern/core.c`, `ept.c`, `vmx.c`) | VCPUs, VMCS ownership per CPU, VPIDs, the EPT, the mmu notifier | ioctl DUNE_ENTER, EPT faults and invalidation, VM exits | Linux mm and scheduler |
| module loading (`kern/core.c`, `vmx_init`) | per-CPU VMX state, VMXON areas, the device | load, unload, every failure on the way | other hypervisors |
| sandbox (`apps/sandbox`) | `brk` and `mmap` limits, threads' start-up handshake | system-call filter, `umm_*` | libdune |
| wedge (`apps/wedge`) | sthreads, tagged memory, page tables per sthread | create, join, recycle, tag | libdune |
| ufirewall, benches, tests, scripts | - | measurements and examples | libdune |

What is hard in this code, and what makes each part correct:

* **RDMA client.** Three threads, the adapter and the server interleave freely.
  The write buffer is reused while a request may still be read from it; reads are
  posted behind writes that have not finished; the completion queue is armed and
  polled in an order that must not lose events; the connection is freed by one
  thread while others hold its address; shutdown is a handshake of two DONE
  messages whose completions can be seen in either order. It is correct if it
  gives the caller one memory on which calls are atomic, and if every call
  returns.
* **page.c.** The handler runs on top of the main program, with a mutex that both
  take, and makes the entry present before the data is there. It is correct if
  every page comes back as it was and every fault is served.
* **libdune's allocator and page tables.** Reference counts without a lock, limits
  that are not checked, allocation failures that are not checked.
* **Kernel module.** Migration of a VCPU between CPUs, the EPT against the mmu
  notifier, VPID reuse, failure half way through the creation of a VCPU.

* **sandbox.** Six calls change one address space and only three of them take the
  lock; a new thread and its creator share a stack frame.
* **wedge.** Sthreads are recycled, with their memory and their rights, and nest
  inside each other's system calls.

`PROJECT.json` lists these hazards with their lines.

## 2. Modules

| module | what it is |
|---|---|
| `RdmaClient` | the client library with its environment; properties |
| `RemoteMemory` | what the client promises: a memory with atomic calls |
| `RdmaClientInv` | the inductive invariant |
| `RdmaClientProofs` | the invariant is inductive; safety theorems; the client implements `RemoteMemory` |
| `Paging` | `page.c` on top of `RdmaClient` |
| `PagingProofs` | pages come back as they were, for any number of pages |
| `DunePage` | libdune's page allocator; properties and inductive invariant |
| `DunePageProofs` | the invariant is inductive; theorems about the allocator |
| `PageTable` | libdune's page tables against a flat map |
| `PageTableProofs` | they mean the flat map, count what they share and never dangle, for any size |
| `Ept` | the kernel module's extended page table against the process's page table |
| `AddressMap` | the three address translations, on top of `Ept` |
| `Vcpu` | VCPUs, their VMCSs, VPIDs and TLB entries, on several CPUs |
| `VcpuProofs` | its safety properties, for any number of CPUs, threads and VCPUs |
| `DuneModule` | loading and unloading the kernel module |
| `KernelProofs` | safety of the EPT for any fan-out; the translations agree, for every layout; safety of loading, for any number of CPUs |
| `SandboxThread` | the start of a thread in the sandbox |
| `SandboxMem` | the sandboxed program's address space and `_syscall_mtx` |
| `SandboxProofs` | safety of both, for any threads, calls and sizes |
| `Wedge` | sthreads: creation, recycling, switching, join |
| `WedgeProofs` | its safety properties, for any number of sthreads and launches |
| `MC*` | model values, small sets and symmetry for TLC |

### RdmaClient

The program counters `main`, `cm` and `poller` stand for the three threads;
between two of their values lies code that touches shared state once. A call is
cut where the code waits or copies: `rdma_write_offset` is `CallWrite`,
`WriteWait` (`sem_wait(&write_ops)`), `WriteCopy` (the `memcpy`) and `WritePost`
(`ibv_post_send`); a read is `CallRead`, `ReadWait` and `ReadCopy`;
`rdma_done` is `CallDone`, `DonePost` (after the spin on `connected`) and
`DoneReturn`. The event loop takes one event (`CmGetEvent`) and runs its handler
(`OnAddrResolved`, `OnRouteResolved`, `OnConnect` and `PublishContext` for the two
halves of `on_connection`, `OnDisconnect`, `OnUnknownEvent`). The poller waits for
an event, arms the queue and polls (`PollerGetEvent`, `PollerReqNotify`,
`PollerPoll`), and `on_completion` is `OnError`, or `OnReceive` or
`OnSendCompletion` followed by `CheckDisconnect`. `TestFails` is every
`TEST_NZ` / `TEST_Z`. A null connection that is followed ends the process
(`proc = "segv"`), `die()` ends it with `"die"`. Reading a freed one may do so too, or find the
values of before: where `on_completion` reads `conn`, `OnFreedConnection` is the first and
`OnReceive` and `OnSendCompletion` are the second.

External, modelled from how the code uses it: a reliable connection executes
requests in order (`HcaExecute`) and reports them in order, at any later time
(`HcaComplete`); a WRITE reads the registered region when it is executed, not when
it is posted; a request can fail, after which the queue pair is in error
(`HcaFail`); completions enter one queue, which signals its channel if armed;
messages without a posted receive are retried for ever (`rnr_retry_count = 7`).
The server's protocol is that of the binary: it sends its region, ignores a DONE
until its own message is acknowledged, answers DONE with DONE, and disconnects
when that is acknowledged. A server that is lost in the middle of a call is outside this
environment (deviation 20).

Abstractions: an offset names a page and a page's contents are one value, so
copies are atomic; `time_stamp` and `time_calculate` only measure;
`send_mr` is never called.

### Paging

`app` is the program counter of `main` and of the handler on top of it; an
application step needs the library to be idle, and the library's own steps leave
the application alone. `pte` is the set of pages with a present entry. Only the
main thread is in Dune mode, so the library's threads do not fault. The frame of a
page does not move (`dune_va_to_pa` is a fixed shift), which is why an unmapped page
keeps its old contents here and why paging in overwrites them: that makes
`AssertHolds` a statement about the data that arrives. `page.c` fills the buffer
with zeros; the model allows any filling so that confusing two pages is visible.

### DunePage

`pc[t]` is where thread `t` is in `page.c` or in the inline functions of `dune.h`;
`free` is `pages_free` (a `SLIST`, first page first), `ref` the counts, `mutex`
`page_mutex`, `mapped` the frames `do_mapping` has mapped. `dune_page_alloc` is
`AllocLock`, `Grow` or `GrowFails`, `AllocFirst` (`SLIST_FIRST`), `AllocRemove`
(`SLIST_REMOVE_HEAD` and the unlock) and then `dune_page_get` as `GetLoad` and
`GetStore`, without the lock; `dune_page_put` is `PutLoad`, `PutStore` and
`PutCheck`, and `dune_page_free` is `FreeAssert` and `FreeInsert`. What the build
may do is left open where C leaves it open: the count that `PutCheck` sees is
reloaded or kept, and the overflowing product in `grow_size` is taken in 32 or in
64 bits. `malloc` leaves `Leftover` in the counts.

`held` is the callers' side: a thread takes a reference of a page it owns and drops
references it owns. One caller does not keep to this: `dune_init` maps the pool itself into
`pgroot` with big pages (entry.c:442-445), and `dune_vm_clone`, which the wedge calls on
`pgroot`, takes a reference to the first page of each (vm.c:322-323), whether or not that page
is on the free list. `ClonePin` is that step and the ghost `pins` counts these references,
which nobody drops. Only the wedge clones `pgroot`, in a process with one thread, so
`ClonePin` comes between calls. With `Sharing` it may hand a new reference to another thread,
as `dune_vm_clone` does when two threads run on a page table and its clone. A page
that is inserted a second time would close a cycle in the `SLIST`; the sequence
shows it as a duplicate, and `FreePagesUnused` fails there.

### PageTable

libdune leaves it to its callers to serialise calls; one call is in progress at a time,
and it goes from entry to entry. `mem` holds the directories (`W` entries each, four
levels) and `ref` the counts of the pool's pages. `walk` is the
`__dune_vm_page_walk` in progress: the arguments, the page it has come to, and in `dirs` the
directories that its recursive calls have open. At an entry it does one of
`WalkSkip`, `WalkDown`, `WalkLink` (a new directory, or -ENOMEM, which ends the call and
leaves what it has done), or its callback: `map_phys_helper`, `map_pages_helper`,
`mprotect_helper`, `free_helper` and `free_directory` (`__dune_vm_free_helper` for
`dune_vm_unmap` and for `dune_vm_free`), `CloneLooks` and `clone_helper`. `Advance` is the
loops' next index: the next entry of the innermost loop that has one. `look` is the
`dune_vm_lookup` in progress, with `LookDown` and `LookLink`; it is called by a clone's
callback and by a fault handler (`FillLooks`, `FillEntry`). `create` is the level that the
code's CREATE_ constant stands for, 0, 1 or 2 (1 GB pages), or `None`. A flag that no
property tells apart from the others (NX, U, PCD, USR) is left out.

The first call is that of `dune_init`: it maps the pool itself, with big pages, into `pgroot`
(`PoolRange`, the window at `PAGEBASE`). From then on `pgroot` shows the pages of the free
list, and every clone of it has copies of these entries (`MapsPool`), each counted once, at the
first page of the big one, in `pins`.

`want` is the reference: the flat map that the calls ask for, page by page as the walk comes
to them, so that a call that fails half way has asked for what it did. Of a big page a clone
asks for the first small page, as the code does (deviation 10). The callers' side keeps to
what callers in the repository do (`Replaceable`, `Fresh`, `NoTable`, `Whole`; the window is
not unmapped). Ghosts: `pins`; `place`, the root, level and range that a frame is the
directory of; `frees`, the calls of `dune_vm_free`. The words of a page that is free are
dead (`NothingDangles`), and the model clears them.

### Ept and AddressMap

A node `<<l, i>>` is an aligned range of `Fanout^l` pages, and `entry` the EPT's entry
for it. The fault path is cut where `ept_set_epte` takes `ept_lock`: `GetUserPage` (or
`FollowPfn`, `NoMapping`) and then `SetEntry`, `LookupFails` or `LookupNoMemory`. The
mmu notifier's callbacks come in between; a change of the process's page table is its
callback and the change itself, two steps. `invalidate_page` is the callback for a range of one
page, and a write to a page that the process may only read fails like an address without a
mapping (`NoMapping`). The ghost `raced` marks an entry whose own
fault overlapped with such a change. Without A/D bits
`clear_flush_young` clears the entry; with them it clears the A bit only, which no
property tells apart and the model leaves out.

`AddressMap` has the translations of libdune and of the kernel, in pages, over the
layout that `DUNE_GET_LAYOUT` computes; its two properties say of the faults and
notifications of `Ept` that they arrive at the right page.

### Vcpu

`pc[t]` is where a thread is in `DUNE_ENTER`, `sw[t]` where it is inside `vmx_get_cpu`
(which waits for an interprocessor call while it holds its CPU), `holds[t]` the CPU on
which it has disabled preemption. The processor's side (current and active VMCSs,
launch state, TLB) follows the architecture's description of VMCLEAR, VMPTRLD,
VMLAUNCH, VMRESUME, INVVPID and INVEPT. VCPUs and VMCS regions are addresses and are
handed out again, VPIDs too. The actions are the creation with its failures, the move
between CPUs (`GetCpu...`, `__vmx_get_cpu_helper`, `SyncContext`, `LoadVmcs`), the loop
of `vmx_launch` with its exits, flushes for a notifier (`NotifyClear`,
`vmx_ept_sync_vcpu`, `__vmx_sync_helper`) and destruction. The ghost `fails` counts
failures of `vmx_create_ept`. `InjectSignal` only moves on, because the event field of
the VMCS is not modelled.

### DuneModule

`dune_init`, `vmx_init` and their ends, with one step per CPU of `on_each_cpu` and a
failing variant of each step that can fail. `Cpus` are the possible CPUs, which get a VMXON
area, and `Online` those that `on_each_cpu` reaches; CPUs that come online later are not
supported by the code (vmx.c:35). `EnableCallFails` is the failure of `on_each_cpu` itself,
after which VMX stays on where it was turned on (vmx.c:1718-1721); the ghost `lost` holds these
CPUs. Another hypervisor takes and leaves CPUs at any time.

### SandboxThread and SandboxMem

`SandboxThread` is `dune_pthread_create` and `pthread_entry`. `arg[p]` is the place of
`struct thread_arg` in the stack of `p`; a later call of `p` has its frame at the same
place (`gen`). `pthread_cond_wait` ends with a signal (`ParentWakes`), which may be that of an
earlier call's child, or without one (`SpuriousWake`). The ghost `misled` is the set of
parents that have gone on from a wait before the tid was there.

`SandboxMem` has `umm_brk`, `umm_mmap` and `umm_shmat` (`umm_map`), `umm_mremap`,
`umm_munmap`, `umm_mprotect`, and `shmdt`, which the sandbox hands to the host. A mapping
goes where the program says, if it names a place in the area, and below all others if it
does not; only the second kind is counted in `mmap_len`. A call is a check that picks the
place, the host's system call, the change of Dune's page table and the new length, four
steps, any of which another thread may interleave with unless both hold `_syscall_mtx`. The
host's call and the table's may fail; a `munmap` that fails is tried again for the length
rounded up to big pages (`HostRetries`). Ghosts: `mixed` (two calls have overlapped, one of
them without the mutex), `left` (entries that a failed call or `shmdt` did not take back)
and `unsafe` (pages that the code may take away: those the program placed between heap and
mappings, and those behind a rounded `munmap`).

### Wedge

One processor. `frames` is the stack of callers of `dune_jump_to_user`: an sthread that
reads calls `schedule`, which may jump into another one on top of it. `sthreads[s]`
has the state, the rights asked for and granted, and the page that `recycle` restores,
with its dirty bit and the TLB's copy of it. The data of a read arrives when the sthread is
scheduled again (`SavedRead`): the host kernel writes it, through its own page table. The
ghost `missed` says that a write, of either kind, went unmarked. The master joins launches in
any order, and the same one as often as it likes (`rejoined`).

## 3. Runs

| run | instance | distinct states |
|---|---|---|
| `client` | 2 pages, 2 contents, 3 calls | 153,000 |
| `client_done` | no calls | **violated**: `DoneReturns` |
| `paging` | 3 pages, 2 contents | 24,000 |
| `page` | 2 threads, 4 pages in steps of 2, 2 references, 1 clone of `pgroot` | 1,420,000 |
| `table` | 16 pages (4 levels of 2), pool of 12 with a window of 4, 2 roots, 1 free, 5 calls | 96,000 |
| `ept` | 4 pages, 5 frames of three sizes, one a device's, 2 of them mapped at a time | 907,000 |
| `vcpu_safety` | 2 threads, CPUs, VCPUs and regions, 2 VPIDs, 1 notifier, 1 failure | 1,200,000 |
| `vcpu_liveness` | the same without notifier and failures, no symmetry | 577,000 |
| `wedge` | 2 sthreads, 4 launches, 2 reads each, 2 sets of rights | 570,000 |
| `sandbox_thread` | 1 parent, 3 calls | 4,700 |
| `sandbox_mem` | 2 threads, 3 calls, 7 pages of 2 bytes, big pages of 2, 3 named places | 399,000 |
| `module_load` | 4 possible CPUs, 3 online, 2 loads | 3,800 |

`vcpu_liveness`, `vcpu_safety` and `ept` also check that there is no deadlock. In the others
the system may stop: the process ends, hangs in `rdma_done` (run `client_done`), or has used up
the calls that the bounds allow.

What the properties say:

* `RegionExclusive`, `OutstandingBound`: `write_ops` makes the write region exclusive,
  and at most three of ten queue entries are used.
* `ImplementsMemory`: calls are atomic reads and writes of one memory, although a write
  returns before it is executed.
* `NoLostWakeup`: re-arming before polling loses no completion.
* `CallerConnLive`: although the event loop frees the connection unasked, no API
  function is inside it then: the server disconnects only after DONE, and DONE is
  the caller's last call.
* `DisconnectClean`: nothing is left to flush when `on_completion` disconnects.
* `CallsReturn`: every blocking call but `rdma_done` returns.
* `PagedOutIsRemote`, `AssertHolds`, `ReachesDone`: an unmapped page is on its way to
  the server or there, it comes back as it was, and every fault is served.
* `FreePagesUnused`, `NoPageLost`: no page is given out twice and none drops out, although
  the counts are not under the lock and clones of `pgroot` count pages of the free list; a
  page with such a count stays allocated for ever. This needs each page's references to stay
  with one thread. `LockIsReleased`: also when `grow_size` fails.
* `FlatAgrees`: between any two entries of any sequence of calls, with failures half way,
  the processor finds what the calls asked for. `CountsMatch`, `NothingDangles`: a page is
  counted once per reference and once per copy of the window's entry, and no table in use
  refers to a page that may be handed out again, other than through the window.
* `RefsExact`, `TreeSound`: no reference is lost or dropped twice on the paths that fail
  or replace entries of other sizes, and everything hangs under tables, where
  `vmx_free_ept` finds it. `Synchronized`: the notifier misses no small page.
* `FaultReachesPage`, `NotifierFindsEntry`: the three address maps agree.
* `OwnVmcs`, `LaunchStateKnown`, `ActiveOnce`: between `vmx_get_cpu` and `vmx_put_cpu` the
  VMCS is the thread's own, it is entered with the right instruction, and no region is
  active on two CPUs or after it was freed.
* `NoStaleTlb`: no guest runs with entries of a cleared EPT entry or of an earlier VCPU
  with its VPID. `VpidsExact`: no VPID is leaked or given twice.
* `DestroyCompletes`: although CPUs wait for each other inside `vmx_get_cpu`.
* `OnlyLiveRun`: whatever reads and nested switches have left on the stack of callers, only
  an sthread that has not ended executes, and a page root in use grants what its creator asked
  for. `StartsClean`: a recycled sthread starts from the checkpoint, as far as writes were
  marked. `JoinsOwnLaunch`: a join gets its own launch's result until a launch is joined
  twice. `JoinReturns`: a join ends or the process does.
* `TidReturned`, `CreateReturns`: `clone` returns the new thread's tid unless the wait for it
  has ended too early, and it returns, also without a spurious wakeup to help.
* `GivenKept`, `NoStrayEntries`, `MutexReleased`: what the program was given stays its
  own, apart from places the code keeps no account of; the page table maps nothing that the
  process has unmapped, apart from what a failed call or `shmdt` left; the mutex is released.
* `OutMeansOff`: a module that is out has freed its VMXON areas and has left VMX mode, except
  where `on_each_cpu` itself failed. `DeviceMeansVmx`: the device is there only with VMX on on
  every online CPU, and never after such a failure. `OthersKept`: Dune takes VMX from nobody.

A module's type invariant is checked with one of its properties (`RefsExact`,
`VpidsExact`, `NothingDangles`, `OnlyLiveRun`, `GivenKept`, `PagedOutIsRemote`) or
is part of a proved invariant.

Bounds. Three calls are enough for a write, a second write that has to wait for
the first one's region, and a read behind it; with two pages and two contents a
wrong page and stale contents are both visible. The queues are not bounded by the
model but by the protocol (`OutstandingBound`). In `DunePage`, `MapLimit` stands for the
host's memory, `IntPages` for 2^19 and `MaxPages` for 2^20; two growth steps are enough
for a first and a later `grow_size`, and one clone for a count on a page of the list. In
`PageTable` the window's pages belong to two big pages, one of them with pages that the calls
then take for directories; the ranges lie inside a directory,
cross its border, and fill one of level 0 or 1 (the big pages); after that of `dune_init` four
calls are enough to map, clone, change and free, and twelve pages are too few for all of it, so
that allocations fail half way. In `Ept` a giant range has two huge ones of two
pages each, so that every replacement of a size by another happens; the process maps at most
two ranges at a time (`FewRanges`), while the EPT may have more leaves. In `Vcpu` two VCPUs
and two CPUs give every move, swap and address reuse; after a failed creation the run
goes on with one VCPU at a time (`AfterFailure`), enough for the leak of a VPID. In
`Wedge` two sthreads let one nest in the other's read, and four launches use an id again while
a join of an earlier one is repeated. In `SandboxThread` the parents share nothing, so one is
enough, and three calls let a child of the first signal into the third. In `SandboxMem` three
calls are enough for a mapping, its neighbour, and a call that removes, moves or overlays one
while another thread is in a call. The proofs remove the bounds for
what they cover.

Fairness. Each thread of the client is weakly fair (the kernel schedules a runnable thread),
and so are the adapter, the connection manager's answers and the server. Nothing obliges the
application to make a call, a request to fail, or a `TEST` to fail. In `DunePage` only the
holder of the lock is fair: `pthread_mutex_lock` promises no thread its turn. In `Vcpu`
threads are weakly fair, and a guest exits, since timer interrupts and interprocessor calls
are exits; interprocessor calls, which are taken whenever interrupts are on, and the
notifier's removal, which waits for notifications that end, are strongly fair. In `Wedge` an
sthread's function ends after its reads. In `SandboxThread` spurious wakeups are never
obliged to come, and a mutex that is free again and again is obtained (strong fairness). In
`SandboxMem` a call that has begun goes on.

### Findings

`DoneReturns` (run `client_done`). `rdma_done` is "blocking", and waits for `done_ops`. It
is posted for the completion of the client's DONE only while `recv_state` is RS_MR_RECV.
The server's DONE can be polled first, or the server's disconnect can destroy
the queue pair first; `done_ops` is then never posted, and with no failure at
all the program hangs at its end.

### Known deviations

TLC finds the following as well. The properties above are stated so that they hold up to
these points; each entry says how to see the deviation.

1. `rdma_init` returns when the poller has seen the server's region, which may be
   before the event loop assigns `conn_context` (rdma-client.c:96): the next call
   finds a null connection. Check `InitMeansReady` in run `client`.
2. Two threads that share a page lose updates of its count, and `dune_page_free`'s
   assertion fails (dune.h:165). Set `Sharing` to TRUE in `DunePage.cfg` and check
   `AssertsHold`.
3. `MAX_PAGES` is "4 GB of memory" (dune.h:132), but `num_pages * PGSIZE` is an int product
   (libdune/page.c:51) that overflows at half of it: from there on `grow_size` puts pages on
   the list other than those it has mapped. Set `MapLimit` to 8 in `DunePage.cfg` and check
   `PoolIsMapped`. Nothing compares `num_pages` with `MAX_PAGES`: set it to 10 and check
   `PagesFitArray`.
4. When `vmx_create_ept` fails, `vmx_create_vcpu` frees a VCPU that is the CPU's
   `local_vcpu` (vmx.c:1064); the next one at this address is taken for loaded. Drop
   `fails = 0` from `OwnVmcs`.
5. `vmx_launch` writes the pending signal into the VMCS after `vmx_put_cpu`
   (vmx.c:1532): after a preemption it goes to another VCPU. A second signal
   overwrites the first. `InjectSignal` is where a model of the event field would show
   it.
6. The system call number is compared with `>`, not `>=` (vmx.c:1400). Add 3 to
   `SyscallNrs`: the thread reaches the label `"wild"`.
7. `ept_set_epte` gets the page before it takes `ept_lock` (ept.c:422): a page
   unmapped in between stays in the EPT. Drop `~e.raced` from `Synchronized`.
8. `i != 1 || i != 2` is always true (ept.c:196): a lookup that meets a big entry
   fails, and the notifier never clears a big entry. State `Synchronized` for all
   levels.
9. `ept_check_page_mapped` answers from the directories, not from the entry
   (ept.c:563).
10. A clone of a root with a big page maps the first 4 KB of it only (vm.c:318), and every
    clone in the repository is of `pgroot`, which has some. `want` asks for no more;
    let `clone_helper` ask for the whole big page and `FlatAgrees` fails. For a big page of the
    pool the clone also counts its first page (vm.c:322-323), on the free list or not: once
    allocated this page is never freed again. Drop `pins[p] > 0` from `NoPageLost`.
11. `dune_vm_free` walks four levels as three and as two, and puts too few pages
    (vm.c:375). Drop `frees = 0` from `CountsMatch`.
12. The copy-on-write handler asserts that the fault is not a protection violation,
    which it is for a page that may be read (vm.c:407): the process ends
    (`proc = "die"`) instead of getting its copy. Use `{"R", "COW"}` for `{"COW"}` in
    `MCPerms`. An allocation that fails in `dune_vm_lookup` is written through (vm.c:135,
    `proc = "null"`).
13. `dune_vm_map_phys` without PERM_BIG over a big page, or `mprotect` of a part of
    one, acts on the whole entry (vm.c:247). No caller does so, and the guards leave
    it out.
14. An sthread that goes on after one nested in its read runs on the master's page
    root (sthread.c:217). Add `running = current` to `OnlyLiveRun`.
15. `recycle` clears dirty bits without a flush (sthread.c:107): a cached dirty entry
    lets the next launch write unmarked. And the host kernel, which fills the buffer of a
    read (sthread.c:215), does not set the bit of the sthread's page table at all: `recycle`
    leaves the page as it is, and the next launch finds the data of the earlier one. Drop
    `~missed` from `StartsClean`.
16. The code waits under an `if` (trap.c:206-207): a wait that ends early makes `clone` return
    0. It ends early by a spurious wakeup, or because a child signals after it has released
    the mutex, at a place that may be a later call's condition variable (trap.c:181). Drop
    `\ misled` from `TidReturned`.
17. `brk`, `mremap`, `shmat` and `shmdt` do not take `_syscall_mtx` (trap.c:646): two threads
    are given the same pages. Drop `~mixed` from `GivenKept`. A `munmap` that fails is tried
    again for its length rounded up to big pages (umm.c:206-213), and takes what is behind
    the range: drop the new pages from `unsafe'` in `HostRetries`.
18. `mprotect` with PROT_WRITE alone ends the sandbox (umm.c:233): `proc = "die"`. A
    mapping whose page-table entries fail half way leaves those it has made
    (umm.c:70), and `shmdt` (trap.c:633-634) those of its segment, until another call maps
    or unmaps the pages: drop `\ left` from `NoStrayEntries`.
19. `dune_init` does not unregister the perf callbacks when it fails (core.c:147).
    Check `CallbacksGoWithModule`. `vmx_init` does not free `msr_bitmap` then either
    (vmx.c:1710). When `on_each_cpu` itself fails, the VMXON areas are freed while VMX is
    still on on some CPUs (vmx.c:1718-1721, "sadly we can't totally recover"): drop `\ lost`
    from `OutMeansOff`.
20. When the server is lost in the middle of a call, `on_event` frees the connection below
    the caller and the poller (rdma-client.c:118, rdma-common.c:170): the next use of it reads
    freed memory, and a caller whose completion was discarded waits for ever. Let
    `ServerDisconnect` happen in every state in which `link` is `"up"`, and empty `wire`:
    `CallerConnLive` and `CallsReturn` fail, `RegionExclusive`, `ReadFresh` and `NoLostWakeup`
    do not.
21. A second join of a launch takes the result of a later one with the same id
    (sthread.c:649-664), or aborts when there is nobody to run. Drop `~rejoined` from
    `JoinsOwnLaunch`.
22. The placement of mappings "should still otherwise be safe" (umm.c:5-7), but an address that
    the program gives is counted neither in `mmap_len` nor in `brk_len` (umm.c:177): a later
    `mmap` or `brk` is put over it, with MAP_FIXED, while the program still has it. Check
    `HeuristicIsSafe` of `SandboxMem`.

## 4. Proofs

`RdmaClientProofs` proves `Spec => []IInv` for every set of offsets and contents
and every number of calls, from the three assumptions of `RdmaClient`
(`Offsets # {}`, `NoOffset` is not an offset, `Garbage` is not data,
`MaxCalls \in Nat`). `RegionExclusive`, `ReadFresh`, `NoLostWakeup` and
`CallerConnLive` are not inductive; `IInv` adds what they rest on:

* `SetupInv`, `QuietInv`: at most one connection-manager event is under way, and
  before `build_connection` there is nothing to complete, post or wait for;
* `WakeupInv`, `SleepInv`: a poller about to sleep has an armed queue or an event;
  one that sleeps with an armed queue has nothing to poll;
* `WriteInv`: the permit, the caller or exactly one request in one of the queues
  owns the write region;
* `ReadInv`: a READ is the last request of all, so everything before it has been
  executed when it is; once it has arrived, the read region equals the server's
  page until the caller has copied it;
* `DoneInv`: DONE is the last request, and when the server reacts to it everything
  has been executed: this is what makes disconnecting safe;
* `FailInv`: after a failure its caller is still waiting, or the program is at its
  end.

Two more invariants are inductive on top of `IInv`. `ConnectedInv` gives
`SpinNeverWaits`: the connection is marked before it is published, and none is built
afterwards. `ReceiveInv` counts receives: at most one is posted, and at most one
completion of each kind that is not a read or write is queued. With `IInv`'s bound of
one READ and one WRITE this gives `OutstandingBound` (`KindsBound`: a queue with at most
one request of each of three kinds has at most three), and `DisconnectClean`.

Queues are handled through four predicates (`Has`, `Once`, `OnlyLast`, `Holds`)
with one lemma each for `Append` and `Tail`; each part of the invariant then has one
lemma, with one step per action. The second half of the module shows
`Spec => ImplementsMemory`: a write takes effect when it is posted, a read when it
is copied out, a failure in `HcaFail`, and every other step leaves the abstract
memory alone. The abstract memory is the server's, overlaid with the one write
that may still be in the queue.

`PagingProofs` proves `AssertHolds` and `PagedOutIsRemote` from `PageNrAssumption`
(the offsets are the pages' numbers). A step of the library keeps `IInv`, because it is a
step of `RdmaClient`, and by the refinement it changes the abstract memory only where
`rdma_write_offset` posts its request. So `PagingInv` speaks of the abstract memory, not of
queues: what the loop has written is there (`Written`), what is unmapped has been
written (`PagedOut`), and during a call the library works on the page the program is at
(`CallInv`).

`DunePageProofs` proves `Spec => []PageInv` when `~Sharing`, for any threads, pool
and growth, from the assumptions of `DunePage` (`GrowSize > 0`, `RefMod` above the
references a thread may collect). `FreePagesUnused` and `NoPageLost` are not
inductive. `PageInv` adds who uses a page (`UseInv`: one thread), what the count is in
the middle of a get or a put (`CountOK`), that `SLIST_FIRST` is still first when it is
removed (`LockInv`), and that nothing happens before `dune_page_init` (`PoolInv`). Most
steps leave the set of users of every page alone (`SameUsers`) and the counts of the
other threads' pages (`OtherCounts`); `AllocRemove`, `FreeInsert` and `Grow` move pages
and are proved one conjunct at a time. The count of a page is that of its user plus `pins`, on
the list too, where it is `pins` alone.

`PageTableProofs` proves `Spec => []PtInv` for any number of entries per directory, pages,
roots and calls, from `PageTableAssumption` (ranges of big pages are aligned) and
`NoneAssumption`. None of `FlatAgrees`, `NothingDangles` and `CountsMatch` is inductive: they
would not survive a directory that two entries share, or one that is also a data page.
`PtInv` adds:

* `PoolInv`: the part of a count that is not `pins` (`own`) is 0 exactly for the pages of the
  list without a reference; a page off the list is counted;
* `TreeInv`: `Tree` says that an entry of a directory is a leaf, a big page, or refers to
  the directory whose `place` is right below the entry; a big page of the pool is under
  `pgroot`, and its copies in clones are at level 0 (`EntryOK`); `Hung` that two directories
  have different places, none is free, and that those of a root in use have an entry that
  refers to them. The root that `dune_vm_free` is giving up (`Dying`) still has its place,
  but its walks may already have cut directories off;
* `CountInv`: the references that are counted are those from directories with a place, big
  entries apart; they are never more than `own`, and equal to it until a root is freed;
* `WalkOK`, `LookOK`: the open directories are the path of the current page (`Chain`), and a
  lookup is for a page that is not mapped;
* `ReadyPhys`, `ReadyPages`, `ReadyWhole`, `ReadyClone`, `ReadyFree`: what the caller
  promised about the range holds for the part that is still ahead, which is what the earlier
  entries must not spoil;
* `Flat`: `FlatAgrees`, whether or not the process still runs.

The argument has six parts. (1) Page numbers: `Up` and `PDX` are a number's upper digits
and one digit (`UpNext`), the pages below an entry are those with its upper digits
(`ChunkOf`), and the page that `Advance` goes to has the same digits above the innermost
loop that goes on (`Carry`). (2) Paths: the processor's path of a page ends where a chain
ends (`LeafIs`), its directories have the places that the page's digits give
(`ChainPlaces`), and a chain exists for every page (`LeafChain`). Because places are
unique, two pages, or two roots, share a directory only if they share its digits. (3) A
step that writes one leaf entry (`OneEntry`) changes the translations of the pages
below it, and no other; it keeps the tree, and the counts if `ref` follows (`Balanced`).
(4) A step that hangs a new directory below an entry changes no translation, and gives
the directory a place that no other has. (5) A new root starts empty. (6)
`dune_vm_free` cuts off subtrees of the dying root only; the last step takes the places
of all its directories away, while the pages they referred to keep their counts.
`NothingDangles` and `CountsMatch` follow from `CountInv`, since the directories reached from
the roots have places, and before the first `dune_vm_free` no others have.

`KernelProofs` proves `Spec => []EptInv` from `EptAssumption` and `MarksAssumption` (frames
of different sizes are different, and the marks for an empty entry and a table are not
leaves). `TreeSound` and `RefsExact` need what a fault in progress holds (`FaultOK`), that
the process maps a page at one level only (`HostOK`), and the counts for device frames too.
`Synchronized` holds between notifications; `EntryOK` and `FaultSync` say what holds during
one: before an unmap the pages have no leaf left that was not raced, and a fault that was
not raced still has the right frame. The part about `AddressMap` works from
`LayoutAssumption` alone: the windows fit below `phys_end` and the bases are natural
numbers. Each map is a case distinction over three windows; `MapsAgree` (libdune's and the
kernel's map are equal on supported addresses) and `MapsInverse` (`gpa_to_hva` undoes it)
need that the windows of guest-physical addresses are disjoint. The theorems about `Ept`'s
faults and notifications follow from them.

`VcpuProofs` proves `Spec => []VcpuInv` from `NamesAssumption` and `NumbersAssumption`.
`ThreadInv` and `UseInv` hold always and give `VpidsExact`. The properties of the machine hold
until `vmx_create_ept` fails (deviation 4), and so does `MachineInv`: `LocalInv` says
where `local_vcpu` and `vcpu->cpu` agree and where they do not in the middle of
`vmx_get_cpu`; `CurrentInv` that a region is active on its VCPU's CPU only; `FieldInv` that
`launched` is the processor's launch state except during a move; `TlbInv` that a dead TLB
entry has a notifier that is about to flush it.

The last part of `KernelProofs` proves `ModuleInvariance` for any finite set of CPUs and any
number of loads. `OutMeansOff` and `DeviceMeansVmx` are not inductive: the invariant adds
what holds at each program counter (which CPUs `on_each_cpu` has reached), that `enabled`
and the owners agree but for `lost`, and that the areas are there as long as VMX may be on.
`OthersKept` is an action property and follows from it, one step per action.

`WedgeProofs` proves `Spec => []WedgeInv` from `WedgeAssumption`: the outermost
frame is the master's and only that one (`StackInv`), an sthread's used memory is
marked or missed and restored when it has ended (`Sound`), and, as long as no launch is joined
twice, a launch to be joined is the last one of its sthread, which is not recycled before
(`OwedInv`).

`SandboxProofs` has two parts. `MemInv`, from `SandboxMemAssumption`, gives `GivenKept` and
`NoStrayEntries`. It counts in pages: bytes are multiplied and divided by `PGSIZE` in a few
lemmas only (`RoomForPages`: room for `len` bytes is room for the pages they are rounded up
to, although the code compares `len`). Without an overlap there is one call at a time
(`OpInv` has the mutex, `LayoutInv` the consequence); heap, free pages and mappings follow
in this order, apart from places that the program has named; `PlaceInv` says where the call
in progress puts and removes pages; and `StrayInv` that a page of the page table is mapped,
in `left` or being removed. `ThreadInv`, from `SandboxThreadAssumption`, gives `TidReturned`
of `SandboxThread`: no child of an ended call of a parent that was never misled is still to
store its tid, so the tid in the frame is the right child's.

Only model-checked: the liveness properties (`CallsReturn`, `ReachesDone`, `LockIsReleased`,
`DestroyCompletes`, `JoinReturns`, `CreateReturns`, `MutexReleased`), which are out of the
prover's reach, and the violated `DoneReturns`. Every invariant and action property of a
passing run is a theorem.

## 5. Plan

Done, in this order: the client with its proofs and `Paging`; the page allocator with
its proofs; page tables; address maps with their proofs; the EPT and the VCPUs;
loading of the module with its proofs; sandbox and wedge; the proofs of the safety
properties of the EPT, the VCPUs, paging, wedge and sandbox; page tables entry by entry,
and their proofs.

Left: the exact extent of the known deviations as theorems, that is, which states each
ghost (`mixed`, `unsafe`, `left`, `misled`, `raced`, `missed`, `rejoined`, `fails`, `pins`,
`frees`, `lost`) excludes; a proof for a server that may be lost; the entry and trap code of
libdune.

## 6. Not modelled

`eglibc-2.14` is third-party code; it is most of the repository's lines, and no model
covers it. `kern/rdma-client.c` and `kern/rdma-common.c` are an unfinished port of the
user-level files that the module does not link. libdune's entry (`dune_init`,
`dune_enter`), trap dispatch and assembly are sequential set-up; ELF loading and
`/proc/self/maps` are parsing. Of the VCPUs: control registers, MSRs, CPUID, and the
register images that `dune_sys_clone` and `fork` hand over; that the fault path replaces EPT
entries without an INVEPT (ept.c:448-455), so that a TLB may keep the smaller page it replaces
by the larger one over it. Of the EPT: guest and host ranges have the same alignment at every
level, while the code aligns its windows to 2 MB only, so a 1 GB page (ept.c:434-435) that is
misaligned does not occur. CPUs that come and go while the module is loaded, which the code
does not support. A fault of the RDMA library's own copy inside `page.c`'s handler: the entry is
present by then (page.c:72). Of the sandbox: its `pgflt_handler`, which takes `_syscall_mtx`
around a lookup and an entry of the page table (trap.c:68-91); `main.c`, `exec.c` and the
parameter checks of the other system calls, which keep no state. Of
the wedge: `tag_new`, the allocators inside a tag, file descriptors and the filter of
system calls. `ufirewall` matches rules without state. Benches, tests and scripts have
no state worth a model. `hello2.c` is `page.c` for one page; `base.c` and `pgflt.c`
use no RDMA.
