----------------------------- MODULE DuneModule -----------------------------
(***************************************************************************)
(* Loading and unloading the kernel module: dune_init and dune_exit of     *)
(* core.c, vmx_init and vmx_exit of vmx.c.                                 *)
(*                                                                         *)
(* owner[c] says who has set CR4.VMXE on CPU c: nobody, Dune, or another   *)
(* hypervisor, which comes and goes as it likes.  on_each_cpu runs its     *)
(* function on the online CPUs in any order and waits for all of them; in  *)
(* vmx_init it may give up, which the code says it cannot recover from.    *)
(* The areas are for every possible CPU.  No CPU comes online later: the   *)
(* code does not support that (vmx.c, the FIXME at its top).               *)
(***************************************************************************)
EXTENDS Naturals, FiniteSets

CONSTANTS
    Cpus,       \* the possible CPUs
    Online,     \* the ones that are online
    MaxLoads    \* bound on the attempts to load the module

ASSUME DuneModuleAssumption ==
    Online # {} /\ Online \subseteq Cpus /\ IsFiniteSet(Cpus) /\ MaxLoads \in Nat

VARIABLES
    pc,         \* where dune_init or dune_exit is; "out" and "in" between them
    owner,      \* who runs VMX on each CPU: "none", "dune" or "other"
    enabled,    \* the CPUs with vmx_enabled
    area,       \* the CPUs with a vmxarea
    failed,     \* vmx_enable_failed
    todo,       \* CPUs on which the current on_each_cpu has still to run
    bitmap,     \* pages allocated for msr_bitmap and not freed
    perf,       \* the perf callbacks are registered
    device,     \* /dev/dune is registered
    loads,      \* attempts so far
    lost        \* ghost: CPUs on which a failed on_each_cpu left VMX on

modvars == <<pc, owner, enabled, area, failed, todo, bitmap, perf, device, loads, lost>>

ModuleInit ==
    /\ pc = "out" /\ owner \in [Cpus -> {"none", "other"}] /\ lost = {}
    /\ (\A c \in Cpus \ Online : owner[c] = "none")
    /\ enabled = {} /\ area = {} /\ failed = 0 /\ todo = {} /\ bitmap = 0
    /\ perf = FALSE /\ device = FALSE /\ loads = 0

-----------------------------------------------------------------------------
Goto(from, to) == pc = from /\ pc' = to

\* dune_init up to vmx_init: the callbacks come first.
dune_init ==
    /\ Goto("out", "check") /\ loads < MaxLoads
    /\ perf' = TRUE /\ loads' = loads + 1
    /\ UNCHANGED <<owner, enabled, area, failed, todo, bitmap, device, lost>>

\* A feature is missing, or there is no page for msr_bitmap.
CheckFails ==
    /\ Goto("check", "out")
    /\ UNCHANGED <<owner, enabled, area, failed, todo, bitmap, perf, device, loads, lost>>

AllocBitmap ==
    /\ Goto("check", "areas") /\ bitmap' = bitmap + 1
    /\ UNCHANGED <<owner, enabled, area, failed, todo, perf, device, loads, lost>>

AllocArea(c) ==
    /\ pc = "areas" /\ c \notin area /\ area' = area \cup {c}
    /\ UNCHANGED <<pc, owner, enabled, failed, todo, bitmap, perf, device, loads, lost>>

\* __vmx_alloc_vmcs fails: vmx_free_vmxon_areas.
AllocAreaFails ==
    /\ area # Cpus /\ Goto("areas", "out") /\ area' = {}
    /\ UNCHANGED <<owner, enabled, failed, todo, bitmap, perf, device, loads, lost>>

EnableAll ==
    /\ area = Cpus /\ Goto("areas", "enable") /\ failed' = 0 /\ todo' = Online
    /\ UNCHANGED <<owner, enabled, area, bitmap, perf, device, loads, lost>>

vmx_enable(c) ==
    /\ pc = "enable" /\ c \in todo /\ todo' = todo \ {c}
    /\ IF owner[c] # "none"
       THEN failed' = failed + 1 /\ UNCHANGED <<owner, enabled>>
       ELSE /\ owner' = [owner EXCEPT ![c] = "dune"] /\ enabled' = enabled \cup {c}
            /\ UNCHANGED failed
    /\ UNCHANGED <<pc, area, bitmap, perf, device, loads, lost>>

\* Variant: vmx_enable_failed is not looked at.
EnableAnyway ==
    /\ todo = {} /\ Goto("enable", "register")
    /\ UNCHANGED <<owner, enabled, area, failed, todo, bitmap, perf, device, loads, lost>>

EnableDone ==
    /\ todo = {} /\ failed = 0 /\ Goto("enable", "register")
    /\ UNCHANGED <<owner, enabled, area, failed, todo, bitmap, perf, device, loads, lost>>

\* on_each_cpu itself fails: -EIO, and the areas are freed although VMX stays on
\* where vmx_enable has run.  The module's memory goes, vmx_enabled with it.
EnableCallFails ==
    /\ Goto("enable", "out") /\ area' = {} /\ todo' = {}
    /\ enabled' = {} /\ lost' = lost \cup enabled
    /\ UNCHANGED <<owner, failed, bitmap, perf, device, loads>>

\* Variant: the CPUs that were enabled stay so.
EnableKeeps ==
    /\ todo = {} /\ failed > 0 /\ Goto("enable", "out")
    /\ UNCHANGED <<owner, enabled, area, failed, todo, bitmap, perf, device, loads, lost>>

EnableFailed ==
    /\ todo = {} /\ failed > 0 /\ Goto("enable", "disable") /\ todo' = Online
    /\ UNCHANGED <<owner, enabled, area, failed, bitmap, perf, device, loads, lost>>

\* Variant: VMX is turned off wherever it is on.
DisableAll(c) ==
    /\ owner' = [owner EXCEPT ![c] = "none"] /\ enabled' = enabled \ {c}

DisableOwn(c) ==
    /\ owner' = IF c \in enabled THEN [owner EXCEPT ![c] = "none"] ELSE owner
    /\ enabled' = enabled \ {c}

\* On the failure path of vmx_init, and in vmx_exit.
vmx_disable(c) ==
    /\ pc \in {"disable", "exit"} /\ c \in todo /\ todo' = todo \ {c}
    /\ DisableOwn(c)
    /\ UNCHANGED <<pc, area, failed, bitmap, perf, device, loads, lost>>

\* vmx_init returns -EBUSY.
InitFailed ==
    /\ todo = {} /\ Goto("disable", "out") /\ area' = {}
    /\ UNCHANGED <<owner, enabled, failed, todo, bitmap, perf, device, loads, lost>>

misc_register ==
    /\ Goto("register", "in") /\ device' = TRUE
    /\ UNCHANGED <<owner, enabled, area, failed, todo, bitmap, perf, loads, lost>>

\* misc_register fails: vmx_exit.
RegisterFails ==
    /\ Goto("register", "exit") /\ todo' = Online
    /\ UNCHANGED <<owner, enabled, area, failed, bitmap, perf, device, loads, lost>>

dune_exit ==
    /\ Goto("in", "exit") /\ perf' = FALSE /\ device' = FALSE /\ todo' = Online
    /\ UNCHANGED <<owner, enabled, area, failed, bitmap, loads, lost>>

\* vmx_free_vmxon_areas and free_page, the end of vmx_exit.
vmx_exit ==
    /\ todo = {} /\ Goto("exit", "out") /\ area' = {} /\ bitmap' = bitmap - 1
    /\ UNCHANGED <<owner, enabled, failed, todo, perf, device, loads, lost>>

\* The other hypervisor, which also refuses a CPU that is taken.
Other(c) ==
    /\ owner[c] # "dune"
    /\ owner' = [owner EXCEPT ![c] = IF @ = "none" THEN "other" ELSE "none"]
    /\ UNCHANGED <<pc, enabled, area, failed, todo, bitmap, perf, device, loads, lost>>

LoadStep ==
    \/ CheckFails \/ AllocBitmap \/ AllocAreaFails \/ EnableAll \/ EnableDone \/ EnableFailed
    \/ EnableCallFails \/ InitFailed \/ misc_register \/ RegisterFails \/ vmx_exit
    \/ \E c \in Cpus : AllocArea(c)
    \/ \E c \in Online : vmx_enable(c) \/ vmx_disable(c)

ModuleNext == dune_init \/ dune_exit \/ LoadStep \/ (\E c \in Online : Other(c))

ModuleSpec == ModuleInit /\ [][ModuleNext]_modvars

-----------------------------------------------------------------------------
\* The CPUs that Dune turned VMX on for are those it remembers, each with a
\* VMXON area as long as it is in VMX mode, and those where a failed
\* on_each_cpu of vmx_init left it on.
OwnCpusKnown ==
    \A c \in Cpus : (owner[c] = "dune") <=> (c \in lost \/ (c \in enabled /\ c \in area))

\* The device is there only while every online CPU can run a VCPU, and every
\* possible one has its area.  In particular a machine on which vmx_init gave up
\* half way never gets the device again.
DeviceMeansVmx ==
    device => enabled = Online /\ area = Cpus /\ bitmap > 0 /\ lost = {}

\* A module that is not loaded holds no VMXON area, and no CPU but those where
\* on_each_cpu failed: "sadly we can't totally recover" (vmx_init).  After the
\* other failures of vmx_init and of misc_register nothing is in VMX mode.
OutMeansOff ==
    pc = "out" => enabled = {} /\ area = {} /\ \A c \in Cpus \ lost : owner[c] # "dune"

\* Dune never takes a CPU from the other hypervisor.
OthersKept ==
    [][\A c \in Cpus : owner[c] = "other" =>
        owner'[c] = "other" \/ (owner'[c] = "none" /\ UNCHANGED <<pc, todo>>)]_modvars

\* The perf callbacks are registered and unregistered along with the module.
\* TLC refutes this for a load that fails (README, known deviations).
CallbacksGoWithModule == pc = "out" => ~perf

=============================================================================
