-------------------------------- MODULE Vcpu --------------------------------
(***************************************************************************)
(* The kernel module's virtual CPUs, dune/kern/vmx.c: creation, the run    *)
(* loop of vmx_launch with its exits, the move of a VCPU from one CPU to   *)
(* another, EPT flushes for the mmu notifier, and destruction.             *)
(*                                                                         *)
(* A thread has preemption disabled between vmx_get_cpu and vmx_put_cpu;   *)
(* holds[t] is the CPU it then occupies.  Elsewhere the scheduler may move *)
(* it, so every vmx_get_cpu finds it on any CPU that nobody else occupies. *)
(* Interprocessor calls run on their target when no guest runs there: the  *)
(* loop disables interrupts from before it looks for work until the guest  *)
(* exits.                                                                  *)
(*                                                                         *)
(* A VCPU is named by its address, which kmalloc gives again after kfree;  *)
(* likewise the pages of the VMCS regions.  The processor's side (current  *)
(* and active VMCS, launch state, TLB) follows from what VMCLEAR, VMPTRLD, *)
(* VMLAUNCH, VMRESUME, INVVPID and INVEPT do.  A TLB entry is "dead" once  *)
(* the EPT entry it was made from is gone.                                 *)
(***************************************************************************)
EXTENDS Naturals, FiniteSets

CONSTANTS
    Threads,
    Cpus,
    Vcpus,          \* addresses of struct vmx_vcpu
    Regions,        \* VMCS regions
    Notifiers,      \* kernel threads that unmap pages of the process
    None,
    VMX_NR_VPIDS,
    NUM_SYSCALLS,
    SyscallNrs,     \* numbers the guest puts in RAX
    NR_exit,
    Unsupported,    \* __NR_sigaltstack and __NR_iopl
    SigKinds,       \* what dequeue_signal may give
    MaxEptFails     \* bound on failures of vmx_create_ept

ASSUME NamesAssumption ==
    None \notin Threads \cup Cpus \cup Vcpus \cup Regions
ASSUME NumbersAssumption ==
    /\ VMX_NR_VPIDS \in Nat \ {0} /\ NUM_SYSCALLS \in Nat
    /\ SyscallNrs \subseteq Nat
    /\ SigKinds \subseteq {"none", "kill", "other"} /\ MaxEptFails \in Nat

VARIABLES
    pc,         \* where each thread is
    sw,         \* where it is inside vmx_get_cpu, "done" outside it
    own,        \* the VCPU of the thread's vmx_launch
    holds,      \* the CPU it occupies with preemption disabled
    cpu,        \* vcpu->cpu, None for -1
    launched,   \* vcpu->launched
    vpid,       \* vcpu->vpid
    vmcs,       \* vcpu->vmcs, None when there is no such VCPU
    bitmap,     \* vmx_vpid_bitmap
    local,      \* the per-CPU local_vcpu
    current,    \* current VMCS of each CPU
    active,     \* VMCSs active on each CPU
    resumable,  \* VMCSs whose launch state is launched
    field,      \* a VMCS's VPID and the CPU of its host state
    tlb,        \* per CPU, the VPIDs with entries, live or dead
    watched,    \* VCPUs with a registered mmu notifier
    notif,      \* what each notifier is doing
    fails       \* failures of vmx_create_ept so far (not in the code)

kernel == <<cpu, launched, vpid, vmcs, bitmap>>
machine == <<current, active, resumable, field>>
vars == <<pc, sw, own, holds, kernel, local, machine, tlb, watched, notif, fails>>

Blank == [vpid |-> 0, host |-> None]

Init ==
    /\ pc = [t \in Threads |-> "user"] /\ sw = [t \in Threads |-> "done"]
    /\ own = [t \in Threads |-> None] /\ holds = [t \in Threads |-> None]
    /\ cpu = [v \in Vcpus |-> None] /\ launched = [v \in Vcpus |-> 0]
    /\ vpid = [v \in Vcpus |-> 0] /\ vmcs = [v \in Vcpus |-> None]
    /\ bitmap = {0}
    /\ local = [c \in Cpus |-> None] /\ current = [c \in Cpus |-> None]
    /\ active = [c \in Cpus |-> {}] /\ resumable = {}
    /\ field = [r \in Regions |-> Blank]
    /\ tlb = [c \in Cpus |-> {}] /\ watched = {}
    /\ notif = [n \in Notifiers |-> [at |-> "idle", vcpu |-> None, target |-> None]]
    /\ fails = 0

-----------------------------------------------------------------------------
FreeVcpus == {v \in Vcpus : vmcs[v] = None}
FreeRegions == {r \in Regions : \A v \in Vcpus : vmcs[v] # r}
FreeVpids == (0..(VMX_NR_VPIDS - 1)) \ bitmap

\* No thread has disabled preemption on c.
Preemptible(c) == \A t \in Threads : holds[t] # c

\* Interrupts reach c.
IrqOn(c) == \A t \in Threads : ~(holds[t] = c /\ pc[t] = "guest")

At(t, label) == pc[t] = label /\ sw[t] = "done"

Goto(t, label) == pc' = [pc EXCEPT ![t] = label] /\ sw' = sw

\* t calls vmx_get_cpu and goes on at label with the CPU.
CallGetCpu(t, label) ==
    pc' = [pc EXCEPT ![t] = label] /\ sw' = [sw EXCEPT ![t] = "get"]

\* The next step of vmx_get_cpu, or its return.
Step(t, label) == sw' = [sw EXCEPT ![t] = label] /\ pc' = pc

PutCpu(t) == holds' = [holds EXCEPT ![t] = None]

\* VMCLEAR of region r on CPU c.
vmcs_clear(c, r) ==
    /\ active' = [active EXCEPT ![c] = @ \ {r}]
    /\ current' = [current EXCEPT ![c] = IF @ = r THEN None ELSE @]
    /\ resumable' = resumable \ {r}

\* VMPTRLD of region r on CPU c.
vmcs_load(c, r) ==
    /\ active' = [active EXCEPT ![c] = @ \cup {r}]
    /\ current' = [current EXCEPT ![c] = r]

\* TLB entries as INVVPID and INVEPT of v on CPU c leave them.
Flushed(c, v) == tlb[c] \ {<<vpid[v], "live">>, <<vpid[v], "dead">>}

\* TLB entries of all CPUs after EPT entries of v are cleared.
Killed(v) ==
    [c \in Cpus |-> IF <<vpid[v], "live">> \in tlb[c]
                    THEN Flushed(c, v) \cup {<<vpid[v], "dead">>} ELSE tlb[c]]

-----------------------------------------------------------------------------
(***************************************************************************)
(* Faulty variants of definitions below, for showing that each property    *)
(* notices the fault it is there for.  No specification uses them.         *)
(***************************************************************************)

\* The old CPU still takes the VCPU for the loaded one.
HelperKeepsLocal(t) ==
    LET v == own[t]  d == cpu[own[t]] IN
    /\ sw[t] = "ipi" /\ IrqOn(d)
    /\ vmcs_clear(d, vmcs[v])
    /\ Step(t, "flush")
    /\ UNCHANGED <<own, holds, kernel, local, field, tlb, watched, notif, fails>>

\* The TLB of the new CPU is not flushed.
NoFlush(t) ==
    /\ sw[t] = "flush"
    /\ Step(t, "load")
    /\ UNCHANGED <<own, holds, kernel, local, machine, tlb, watched, notif, fails>>

\* The VCPU is taken for launched after a move.
LoadKeepsLaunched(t) ==
    LET v == own[t]  c == holds[t] IN
    /\ sw[t] = "load"
    /\ vmcs_load(c, vmcs[v])
    /\ field' = [field EXCEPT ![vmcs[v]].host = c]
    /\ cpu' = [cpu EXCEPT ![v] = c]
    /\ Step(t, "done")
    /\ UNCHANGED <<own, holds, launched, vpid, vmcs, bitmap, local,
                   resumable, tlb, watched, notif, fails>>

\* vmx_destroy_vcpu does not give the VPID back.
TeardownKeepsVpid(t) ==
    LET v == own[t]  c == holds[t] IN
    /\ At(t, "teardown")
    /\ tlb' = [tlb EXCEPT ![c] = Flushed(c, v)]
    /\ vmcs_clear(c, vmcs[v])
    /\ local' = [local EXCEPT ![c] = None]
    /\ field' = [field EXCEPT ![vmcs[v]] = Blank]
    /\ vmcs' = [vmcs EXCEPT ![v] = None] /\ vpid' = [vpid EXCEPT ![v] = 0]
    /\ cpu' = [cpu EXCEPT ![v] = None] /\ launched' = [launched EXCEPT ![v] = 0]
    /\ PutCpu(t) /\ own' = [own EXCEPT ![t] = None] /\ Goto(t, "user")
    /\ UNCHANGED <<bitmap, watched, notif, fails>>

\* vmx_destroy_vcpu frees the VMCS without clearing it.
TeardownWithoutClear(t) ==
    LET v == own[t]  c == holds[t] IN
    /\ At(t, "teardown")
    /\ tlb' = [tlb EXCEPT ![c] = Flushed(c, v)]
    /\ local' = [local EXCEPT ![c] = None]
    /\ field' = [field EXCEPT ![vmcs[v]] = Blank]
    /\ vmcs' = [vmcs EXCEPT ![v] = None] /\ vpid' = [vpid EXCEPT ![v] = 0]
    /\ cpu' = [cpu EXCEPT ![v] = None] /\ launched' = [launched EXCEPT ![v] = 0]
    /\ bitmap' = bitmap \ {vpid[v]}
    /\ PutCpu(t) /\ own' = [own EXCEPT ![t] = None] /\ Goto(t, "user")
    /\ UNCHANGED <<current, active, resumable, watched, notif, fails>>

\* The loop is continued where it should be left.
DestroyReenters(t) ==
    /\ At(t, "destroy")
    /\ CallGetCpu(t, "check")
    /\ UNCHANGED <<own, holds, kernel, local, machine, tlb, watched, notif, fails>>

-----------------------------------------------------------------------------
(***************************************************************************)
(* vmx_create_vcpu up to vmx_get_cpu.  When an allocation fails, what was  *)
(* allocated before is given back and DUNE_ENTER returns -ENOMEM.          *)
(***************************************************************************)
Outside(t) == pc[t] \in {"user", "enomem"}

vmx_create_vcpu(t) ==
    /\ Outside(t)
    /\ \E v \in FreeVcpus, r \in FreeRegions, p \in FreeVpids :
        /\ \A q \in FreeVpids : p <= q              \* find_first_zero_bit
        /\ own' = [own EXCEPT ![t] = v]
        /\ vmcs' = [vmcs EXCEPT ![v] = r] /\ vpid' = [vpid EXCEPT ![v] = p]
        /\ cpu' = [cpu EXCEPT ![v] = None] /\ launched' = [launched EXCEPT ![v] = 0]
        /\ bitmap' = bitmap \cup {p}
    /\ CallGetCpu(t, "setup")
    /\ UNCHANGED <<holds, local, machine, tlb, watched, notif, fails>>

CreateFails(t) ==
    /\ Outside(t)
    /\ Goto(t, "enomem")
    /\ UNCHANGED <<own, holds, kernel, local, machine, tlb, watched, notif, fails>>

\* vmx_setup_vmcs and vmx_setup_initial_guest_state write the current VMCS.
vmx_setup_vmcs(t) ==
    LET r == current[holds[t]] IN
    /\ At(t, "setup")
    /\ field' = IF r = None THEN field
                ELSE [field EXCEPT ![r].vpid = vpid[own[t]]]
    /\ PutCpu(t) /\ Goto(t, "create_ept")
    /\ UNCHANGED <<own, kernel, local, current, active, resumable, tlb,
                   watched, notif, fails>>

vmx_create_ept(t) ==
    /\ At(t, "create_ept")
    /\ watched' = watched \cup {own[t]}
    /\ CallGetCpu(t, "check")
    /\ UNCHANGED <<own, holds, kernel, local, machine, tlb, notif, fails>>

\* v, its VPID and its VMCS region are free again.
FreeVcpu(v) ==
    /\ bitmap' = bitmap \ {vpid[v]}
    /\ vmcs' = [vmcs EXCEPT ![v] = None] /\ vpid' = [vpid EXCEPT ![v] = 0]
    /\ cpu' = [cpu EXCEPT ![v] = None] /\ launched' = [launched EXCEPT ![v] = 0]
    /\ field' = [field EXCEPT ![vmcs[v]] = Blank]

\* The second way to fail_ept: the VCPU has been loaded on a CPU by now.
CreateEptFails(t) ==
    /\ fails < MaxEptFails /\ At(t, "create_ept")
    /\ fails' = fails + 1
    /\ FreeVcpu(own[t])
    /\ own' = [own EXCEPT ![t] = None] /\ Goto(t, "enomem")
    /\ UNCHANGED <<holds, local, current, active, resumable, tlb, watched, notif>>

-----------------------------------------------------------------------------
(***************************************************************************)
(* vmx_get_cpu, on CPU c.                                                  *)
(***************************************************************************)
Arrive(t, c) ==
    /\ sw[t] = "get" /\ Preemptible(c)
    /\ holds' = [holds EXCEPT ![t] = c]
    /\ UNCHANGED <<own, kernel, field, tlb, watched, notif, fails>>

\* local_vcpu is this VCPU: nothing to do.
GetCpuLoaded(t, c) ==
    /\ Arrive(t, c) /\ local[c] = own[t]
    /\ Step(t, "done")
    /\ UNCHANGED <<local, current, active, resumable>>

\* Another VCPU was here in between.
GetCpuBack(t, c) ==
    /\ Arrive(t, c) /\ local[c] # own[t] /\ cpu[own[t]] = c
    /\ local' = [local EXCEPT ![c] = own[t]]
    /\ vmcs_load(c, vmcs[own[t]])
    /\ Step(t, "done")
    /\ UNCHANGED resumable

\* The VCPU has never been loaded.
GetCpuFirst(t, c) ==
    /\ Arrive(t, c) /\ local[c] # own[t] /\ cpu[own[t]] = None
    /\ local' = [local EXCEPT ![c] = own[t]]
    /\ vmcs_clear(c, vmcs[own[t]])
    /\ Step(t, "flush")

\* The VCPU was last loaded elsewhere: that CPU is called.
GetCpuMove(t, c) ==
    /\ Arrive(t, c) /\ local[c] # own[t] /\ cpu[own[t]] \notin {None, c}
    /\ local' = [local EXCEPT ![c] = own[t]]
    /\ Step(t, "ipi")
    /\ UNCHANGED <<current, active, resumable>>

\* Runs on the old CPU; t waits for it.
__vmx_get_cpu_helper(t) ==
    LET v == own[t]  d == cpu[own[t]] IN
    /\ sw[t] = "ipi" /\ IrqOn(d)
    /\ vmcs_clear(d, vmcs[v])
    /\ local' = [local EXCEPT ![d] = IF @ = v THEN None ELSE @]
    /\ Step(t, "flush")
    /\ UNCHANGED <<own, holds, kernel, field, tlb, watched, notif, fails>>

\* vpid_sync_context and ept_sync_context.
SyncContext(t) ==
    /\ sw[t] = "flush"
    /\ tlb' = [tlb EXCEPT ![holds[t]] = Flushed(holds[t], own[t])]
    /\ Step(t, "load")
    /\ UNCHANGED <<own, holds, kernel, local, machine, watched, notif, fails>>

\* vmcs_load and __vmx_setup_cpu.
LoadVmcs(t) ==
    LET v == own[t]  c == holds[t] IN
    /\ sw[t] = "load"
    /\ launched' = [launched EXCEPT ![v] = 0]
    /\ vmcs_load(c, vmcs[v])
    /\ field' = [field EXCEPT ![vmcs[v]].host = c]
    /\ cpu' = [cpu EXCEPT ![v] = c]
    /\ Step(t, "done")
    /\ UNCHANGED <<own, holds, vpid, vmcs, bitmap, local, resumable, tlb,
                   watched, notif, fails>>

-----------------------------------------------------------------------------
(***************************************************************************)
(* The loop of vmx_launch.                                                 *)
(***************************************************************************)
Resched(t) ==
    /\ At(t, "check")
    /\ PutCpu(t) /\ CallGetCpu(t, "check")
    /\ UNCHANGED <<own, kernel, local, machine, tlb, watched, notif, fails>>

SignalPending(t) ==
    /\ At(t, "check")
    /\ PutCpu(t)
    /\ \/ "none" \in SigKinds /\ CallGetCpu(t, "check")
       \/ "kill" \in SigKinds /\ Goto(t, "destroy")
       \/ "other" \in SigKinds /\ Goto(t, "inject")
    /\ UNCHANGED <<own, kernel, local, machine, tlb, watched, notif, fails>>

\* vmcs_write32 of the interrupt, after vmx_put_cpu, into the current VMCS of
\* whatever CPU the thread is on now.  The entry-interruption field is not
\* modelled.
InjectSignal(t) ==
    /\ At(t, "inject")
    /\ CallGetCpu(t, "check")
    /\ UNCHANGED <<own, holds, kernel, local, machine, tlb, watched, notif, fails>>

\* VMLAUNCH needs a clear VMCS and VMRESUME a launched one.
EntryLegal(t) ==
    LET r == current[holds[t]] IN
    r # None /\ (launched[own[t]] = 1 <=> r \in resumable)

\* vmx_run_vcpu: the guest runs, with the VPID of the current VMCS.
vmx_run_vcpu(t) ==
    LET r == current[holds[t]]  c == holds[t] IN
    /\ At(t, "check") /\ EntryLegal(t)
    /\ launched' = [launched EXCEPT ![own[t]] = 1]
    /\ resumable' = resumable \cup {r}
    /\ tlb' = [tlb EXCEPT ![c] = @ \cup {<<field[r].vpid, "live">>}]
    /\ Goto(t, "guest")
    /\ UNCHANGED <<own, holds, cpu, vpid, vmcs, bitmap, local, current,
                   active, field, watched, notif, fails>>

\* The entry fails and counts as an unhandled exit.
EntryFails(t) ==
    /\ At(t, "check") /\ ~EntryLegal(t)
    /\ launched' = [launched EXCEPT ![own[t]] = 1]
    /\ PutCpu(t) /\ CallGetCpu(t, "dump")
    /\ UNCHANGED <<own, cpu, vpid, vmcs, bitmap, local, machine, tlb, watched, notif, fails>>

\* While it runs, the guest reads EPT entries again.
GuestTouches(t) ==
    /\ At(t, "guest")
    /\ tlb' = [tlb EXCEPT ![holds[t]] =
                 @ \cup {<<field[current[holds[t]]].vpid, "live">>}]
    /\ UNCHANGED <<pc, sw, own, holds, kernel, local, machine, watched, notif, fails>>

\* EXIT_REASON_ of CPUID and external interrupts, VMCALL, EPT_VIOLATION,
\* EXCEPTION_NMI and all others.
GuestExit(t) ==
    /\ At(t, "guest")
    /\ PutCpu(t)
    /\ \/ CallGetCpu(t, "check")
       \/ Goto(t, "syscall")
       \/ CallGetCpu(t, "fault")
       \/ CallGetCpu(t, "nmi")
       \/ CallGetCpu(t, "dump")
    /\ UNCHANGED <<own, kernel, local, machine, tlb, watched, notif, fails>>

\* The call goes through dune_syscall_tbl, which ends before NUM_SYSCALLS.
vmx_handle_syscall(t) ==
    /\ At(t, "syscall")
    /\ \E nr \in SyscallNrs :
        \/ /\ nr > NUM_SYSCALLS \/ nr \in Unsupported
           /\ CallGetCpu(t, "check")
        \/ /\ nr <= NUM_SYSCALLS /\ nr \notin Unsupported
           /\ IF nr = NR_exit THEN Goto(t, "destroy")
              ELSE IF nr < NUM_SYSCALLS THEN CallGetCpu(t, "check")
              ELSE Goto(t, "wild")
    /\ UNCHANGED <<own, holds, kernel, local, machine, tlb, watched, notif, fails>>

\* Reads the qualification and address; vmx_do_ept_fault is module Ept.
vmx_handle_ept_violation(t) ==
    /\ At(t, "fault")
    /\ PutCpu(t)
    /\ \/ CallGetCpu(t, "check")
       \/ Goto(t, "destroy")
       \/ CallGetCpu(t, "dump")
    /\ UNCHANGED <<own, kernel, local, machine, tlb, watched, notif, fails>>

vmx_handle_nmi_exception(t) ==
    /\ At(t, "nmi")
    /\ PutCpu(t)
    /\ \/ CallGetCpu(t, "check")
       \/ Goto(t, "destroy")
    /\ UNCHANGED <<own, kernel, local, machine, tlb, watched, notif, fails>>

vmx_dump_cpu(t) ==
    /\ At(t, "dump")
    /\ PutCpu(t) /\ Goto(t, "destroy")
    /\ UNCHANGED <<own, kernel, local, machine, tlb, watched, notif, fails>>

-----------------------------------------------------------------------------
(***************************************************************************)
(* vmx_destroy_vcpu.  mmu_notifier_unregister waits for the notifiers; the *)
(* EPT is then freed, before its TLB entries go.                           *)
(***************************************************************************)
vmx_destroy_ept(t) ==
    /\ At(t, "destroy")
    /\ \A n \in Notifiers : notif[n].vcpu # own[t]
    /\ watched' = watched \ {own[t]}
    /\ tlb' = Killed(own[t])
    /\ CallGetCpu(t, "teardown")
    /\ UNCHANGED <<own, holds, kernel, local, machine, notif, fails>>

vmx_destroy_vcpu(t) ==
    LET v == own[t]  c == holds[t] IN
    /\ At(t, "teardown")
    /\ tlb' = [tlb EXCEPT ![c] = Flushed(c, v)]
    /\ vmcs_clear(c, vmcs[v])
    /\ local' = [local EXCEPT ![c] = None]
    /\ FreeVcpu(v)
    /\ PutCpu(t) /\ own' = [own EXCEPT ![t] = None] /\ Goto(t, "user")
    /\ UNCHANGED <<watched, notif, fails>>

-----------------------------------------------------------------------------
(***************************************************************************)
(* The mmu notifier: EPT entries are cleared under ept_lock, then the CPU  *)
(* in vcpu->cpu is called to flush them.                                   *)
(***************************************************************************)
NotifyClear(n) ==
    /\ notif[n].at = "idle"
    /\ \E v \in watched :
        /\ notif' = [notif EXCEPT ![n] = [at |-> "cleared", vcpu |-> v, target |-> None]]
        /\ tlb' = Killed(v)
    /\ UNCHANGED <<pc, sw, own, holds, kernel, local, machine, watched, fails>>

\* smp_call_function_single reads vcpu->cpu.
vmx_ept_sync_vcpu(n) ==
    /\ notif[n].at = "cleared"
    /\ notif' = [notif EXCEPT ![n].at = "send", ![n].target = cpu[notif[n].vcpu]]
    /\ UNCHANGED <<pc, sw, own, holds, kernel, local, machine, tlb, watched, fails>>

\* Runs on the called CPU.
__vmx_sync_helper(n) ==
    LET c == notif[n].target IN
    /\ notif[n].at = "send" /\ IrqOn(c)
    /\ tlb' = [tlb EXCEPT ![c] = Flushed(c, notif[n].vcpu)]
    /\ notif' = [notif EXCEPT ![n] = [at |-> "idle", vcpu |-> None, target |-> None]]
    /\ UNCHANGED <<pc, sw, own, holds, kernel, local, machine, watched, fails>>

-----------------------------------------------------------------------------
Create(t) == vmx_create_vcpu(t) \/ CreateFails(t) \/ vmx_setup_vmcs(t)
             \/ vmx_create_ept(t) \/ CreateEptFails(t)

GetCpu(t, c) == GetCpuLoaded(t, c) \/ GetCpuBack(t, c) \/ GetCpuFirst(t, c)
                \/ GetCpuMove(t, c)

Switch(t) == __vmx_get_cpu_helper(t) \/ SyncContext(t) \/ LoadVmcs(t)

Handle(t) == vmx_handle_syscall(t) \/ vmx_handle_ept_violation(t)
             \/ vmx_handle_nmi_exception(t) \/ vmx_dump_cpu(t)

Destroy(t) == vmx_destroy_ept(t) \/ vmx_destroy_vcpu(t)

Loop(t) == Resched(t) \/ SignalPending(t) \/ InjectSignal(t) \/ vmx_run_vcpu(t) \/ EntryFails(t)
           \/ GuestTouches(t) \/ GuestExit(t)

Notify(n) == NotifyClear(n) \/ vmx_ept_sync_vcpu(n) \/ __vmx_sync_helper(n)

Next ==
    \/ \E t \in Threads :
        \/ Create(t) \/ Switch(t) \/ Loop(t) \/ Handle(t) \/ Destroy(t)
        \/ \E c \in Cpus : GetCpu(t, c)
    \/ \E n \in Notifiers : Notify(n)

Spec == Init /\ [][Next]_vars

(***************************************************************************)
(* Fairness: the scheduler runs every thread; a guest leaves its CPU,      *)
(* since timer interrupts and the calls of other CPUs are exits; a call    *)
(* that waits is taken when interrupts are enabled after the exit, before  *)
(* the next entry, and so is strongly fair.                                *)
(***************************************************************************)
Proceed(t) ==
    \/ \E c \in Cpus : GetCpu(t, c)
    \/ SyncContext(t) \/ LoadVmcs(t) \/ vmx_setup_vmcs(t)
    \/ Resched(t) \/ SignalPending(t) \/ InjectSignal(t) \/ vmx_run_vcpu(t)
    \/ EntryFails(t) \/ GuestExit(t)
    \/ Handle(t) \/ vmx_destroy_vcpu(t)

Fairness ==
    /\ \A t \in Threads :
        WF_vars(Proceed(t)) /\ SF_vars(__vmx_get_cpu_helper(t) \/ vmx_destroy_ept(t))
    /\ \A n \in Notifiers :
        WF_vars(vmx_ept_sync_vcpu(n)) /\ SF_vars(__vmx_sync_helper(n))

FairSpec == Spec /\ Fairness

-----------------------------------------------------------------------------
Loaded == {"setup", "check", "guest", "fault", "nmi", "dump", "teardown"}
Labels == Loaded \cup
          {"user", "enomem", "create_ept", "inject", "syscall", "wild", "destroy"}

Entry == (0..(VMX_NR_VPIDS - 1)) \X {"live", "dead"}

\* The types of the variables.
VTypeOK ==
    /\ pc \in [Threads -> Labels] /\ sw \in [Threads -> {"done", "get", "ipi", "flush", "load"}]
    /\ own \in [Threads -> Vcpus \cup {None}]
    /\ holds \in [Threads -> Cpus \cup {None}]
    /\ cpu \in [Vcpus -> Cpus \cup {None}] /\ launched \in [Vcpus -> {0, 1}]
    /\ vpid \in [Vcpus -> 0..(VMX_NR_VPIDS - 1)]
    /\ vmcs \in [Vcpus -> Regions \cup {None}]
    /\ bitmap \subseteq 0..(VMX_NR_VPIDS - 1)
    /\ local \in [Cpus -> Vcpus \cup {None}]
    /\ current \in [Cpus -> Regions \cup {None}]
    /\ active \in [Cpus -> SUBSET Regions] /\ resumable \subseteq Regions
    /\ field \in [Regions -> [vpid : 0..(VMX_NR_VPIDS - 1), host : Cpus \cup {None}]]
    /\ tlb \in [Cpus -> SUBSET Entry] /\ watched \subseteq Vcpus
    /\ notif \in [Notifiers -> [at : {"idle", "cleared", "send"},
                                vcpu : Vcpus \cup {None}, target : Cpus \cup {None}]]

\* From the return of vmx_get_cpu to vmx_put_cpu the CPU's current VMCS is the
\* thread's own, with the VPID of its VCPU (once set up) and the host state of
\* this CPU: vmcs_read and vmcs_write reach the right VCPU.  This and the next
\* three hold until a creation fails in vmx_create_ept, which leaves its VCPU on
\* the CPU (see the README).
OwnVmcs ==
    fails = 0 => \A t \in Threads : At(t, pc[t]) /\ pc[t] \in Loaded =>
        LET v == own[t]  c == holds[t] IN
        /\ current[c] = vmcs[v] /\ cpu[v] = c /\ local[c] = v
        /\ field[vmcs[v]].host = c
        /\ pc[t] # "setup" => field[vmcs[v]].vpid = vpid[v]

\* Every entry is legal: launched tells the launch state of the VMCS, also
\* after moves and after a region has been reused.
LaunchStateKnown ==
    fails = 0 => \A t \in Threads : At(t, "check") => EntryLegal(t)

\* No VMCS is active on two CPUs, and a region that is not a VCPU's is active
\* on none and current on none: a processor may write back what it caches of
\* an active VMCS at any time.
ActiveOnce ==
    fails = 0 => \A r \in Regions :
        LET on == {c \in Cpus : r \in active[c] \/ current[c] = r} IN
        /\ Cardinality(on) <= 1
        /\ r \in FreeRegions => on = {}

\* A guest never runs with a TLB entry made from an EPT entry that was cleared,
\* once the notifiers that cleared it have returned; nor with entries of an
\* earlier VCPU that had the same VPID.
NoStaleTlb ==
    fails = 0 => \A t \in Threads :
        At(t, "guest") /\ (\A n \in Notifiers : notif[n].vcpu # own[t])
            => <<vpid[own[t]], "dead">> \notin tlb[holds[t]]

\* VPIDs: the bitmap holds 0 and the VPIDs of the existing VCPUs, which are
\* different: none is leaked on a failure path and none is given twice.
VpidsExact ==
    LET used == {v \in Vcpus : vmcs[v] # None} IN
    /\ VTypeOK
    /\ bitmap = {0} \cup {vpid[v] : v \in used}
    /\ \A v \in used : vpid[v] # 0 /\ \A w \in used \ {v} : vpid[v] # vpid[w]

\* A VCPU that is to be destroyed is freed: vmx_get_cpu returns although CPUs
\* call each other from inside it.
DestroyCompletes ==
    \A t \in Threads : pc[t] = "destroy" ~> pc[t] = "user"
=============================================================================
