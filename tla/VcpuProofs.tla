----------------------------- MODULE VcpuProofs -----------------------------
(***************************************************************************)
(* The safety properties of Vcpu, for any threads, CPUs, VCPUs, regions    *)
(* and notifiers.  ThreadInv and UseInv hold always, MachineInv until a    *)
(* creation fails in vmx_create_ept.                                       *)
(***************************************************************************)
EXTENDS Vcpu, FiniteSetTheorems, TLAPS

\* t has taken its VCPU off the old CPU and not yet put it on the new one.
Away(t) == sw[t] \in {"flush", "load"}

\* A thread in DUNE_ENTER has a VCPU of its own, and between vmx_get_cpu and
\* vmx_put_cpu a CPU of its own.
ThreadOK(t) ==
    /\ own[t] = None <=> Outside(t)
    /\ sw[t] # "done" => pc[t] \in Loaded \ {"guest"}
    /\ holds[t] = None <=> pc[t] \notin Loaded \/ sw[t] = "get"
    /\ pc[t] = "guest" => current[holds[t]] # None
    /\ \A u \in Threads \ {t} : /\ own[t] # None => own[u] # own[t]
                                /\ holds[t] # None => holds[u] # holds[t]

ThreadInv == \A t \in Threads : ThreadOK(t)

\* VCPUs, regions and VPIDs are given to one user at a time; a notification is
\* about a VCPU.
UseInv ==
    /\ \A v \in Vcpus : vmcs[v] # None <=> \E t \in Threads : own[t] = v
    /\ \A v \in Vcpus : vmcs[v] = None => vpid[v] = 0
    /\ \A v, w \in Vcpus : v # w /\ vmcs[v] # None => vmcs[v] # vmcs[w]
    /\ \A n \in Notifiers : notif[n].at # "idle" => notif[n].vcpu \in Vcpus
    /\ fails \in Nat

\* Where local_vcpu and vcpu->cpu agree and where, during a move, they do not.
LocalOK(t) ==
    LET v == own[t] IN
    /\ \A c \in Cpus : local[c] = v =>
            (c = holds[t] /\ sw[t] # "done") \/ (c = cpu[v] /\ ~Away(t))
    /\ holds[t] # None => local[holds[t]] = v
    /\ holds[t] # None => (cpu[v] = holds[t] <=> sw[t] = "done")
    /\ sw[t] = "ipi" => cpu[v] # None

LocalInv ==
    /\ \A t \in Threads : own[t] # None => LocalOK(t)
    /\ \A c \in Cpus : local[c] # None => vmcs[local[c]] # None

\* A region is active on its VCPU's CPU only, and not during the move.
CurrentInv ==
    /\ \A c \in Cpus : local[c] # None /\ cpu[local[c]] = c => current[c] = vmcs[local[c]]
    /\ \A c \in Cpus : current[c] # None => current[c] \in active[c]
    /\ \A c \in Cpus : \A r \in active[c] :
        \E t \in Threads : own[t] # None /\ vmcs[own[t]] = r /\ cpu[own[t]] = c /\ ~Away(t)

\* The VMCS of a VCPU has its CPU's host state and, once set up, its VPID; the
\* software's launched is the processor's launch state, except during a move.
FieldOK(t) ==
    LET v == own[t] IN
    /\ cpu[v] # None => field[vmcs[v]].host = cpu[v]
    /\ pc[t] # "setup" => field[vmcs[v]].vpid = vpid[v]

LaunchOK(t) ==
    LET v == own[t] IN
    vmcs[v] \in resumable <=> launched[v] = 1 /\ ~Away(t)

FieldInv ==
    /\ \A t \in Threads : own[t] # None => FieldOK(t) /\ LaunchOK(t)
    /\ \A r \in resumable : \E v \in Vcpus : vmcs[v] = r

\* A dead entry of v on the CPU where v is: some notifier is about to flush it,
\* or v is being destroyed.
Pending(v, c) ==
    \E n \in Notifiers : /\ notif[n].vcpu = v
                         /\ notif[n].at = "cleared" \/ (notif[n].at = "send" /\ notif[n].target = c)

TlbOK(t) ==
    LET v == own[t] IN
    /\ sw[t] = "load" => \A x \in {"live", "dead"} : <<vpid[v], x>> \notin tlb[holds[t]]
    /\ cpu[v] # None /\ ~Away(t) /\ <<vpid[v], "dead">> \in tlb[cpu[v]] =>
            pc[t] = "teardown" \/ Pending(v, cpu[v])

TlbInv == \A t \in Threads : own[t] # None => TlbOK(t)

MachineInv == fails = 0 => LocalInv /\ CurrentInv /\ FieldInv /\ TlbInv

VcpuInv == VpidsExact /\ ThreadInv /\ UseInv /\ MachineInv
-----------------------------------------------------------------------------
(***************************************************************************)
(* The steps.                                                              *)
(***************************************************************************)

\* t goes on elsewhere in vmx_launch without its CPU, and nothing else changes
\* that the invariant is about.
Moves(t) ==
    /\ \E l \in Labels \ {"setup", "guest", "teardown"}, s \in {"done", "get"} :
        /\ pc' = [pc EXCEPT ![t] = l] /\ sw' = [sw EXCEPT ![t] = s]
        /\ l \in {"user", "enomem"} <=> Outside(t)
        /\ l \in Loaded <=> s = "get"
    /\ sw[t] = "done" /\ pc[t] \notin {"setup", "teardown"}
    /\ holds' = [holds EXCEPT ![t] = None]
    /\ watched' \subseteq Vcpus
    /\ UNCHANGED <<own, kernel, local, machine, tlb, notif, fails>>

\* The steps of vmx_launch that only leave the CPU are such moves.
LEMMA MoveSteps ==
    ASSUME VcpuInv, NEW t \in Threads,
           \/ CreateFails(t) \/ vmx_create_ept(t) \/ Resched(t) \/ SignalPending(t)
           \/ InjectSignal(t) \/ GuestExit(t) \/ Handle(t)
    PROVE  Moves(t)
<1>1. /\ pc \in [Threads -> Labels] /\ sw \in [Threads -> {"done", "get", "ipi", "flush", "load"}]
      /\ holds \in [Threads -> Cpus \cup {None}] /\ own \in [Threads -> Vcpus \cup {None}]
      /\ watched \subseteq Vcpus
  BY DEF VcpuInv, VpidsExact, VTypeOK
<1>2. ThreadOK(t)
  BY DEF VcpuInv, ThreadInv
<1>. USE <1>1, <1>2 DEF Moves, ThreadOK, Outside, Labels, Loaded
<1>3. CASE CreateFails(t)
  BY <1>3 DEF CreateFails, Goto
<1>4. CASE vmx_create_ept(t)
  BY <1>4 DEF vmx_create_ept, At, CallGetCpu
<1>5. CASE Resched(t)
  BY <1>5 DEF Resched, At, PutCpu, CallGetCpu
<1>6. CASE SignalPending(t)
  BY <1>6 DEF SignalPending, At, PutCpu, CallGetCpu, Goto
<1>7. CASE InjectSignal(t)
  BY <1>7 DEF InjectSignal, At, CallGetCpu
<1>8. CASE GuestExit(t)
  BY <1>8 DEF GuestExit, At, PutCpu, CallGetCpu, Goto
<1>9. CASE vmx_handle_syscall(t)
  BY <1>9 DEF vmx_handle_syscall, At, CallGetCpu, Goto
<1>10. CASE vmx_handle_ept_violation(t)
  BY <1>10 DEF vmx_handle_ept_violation, At, PutCpu, CallGetCpu, Goto
<1>11. CASE vmx_handle_nmi_exception(t)
  BY <1>11 DEF vmx_handle_nmi_exception, At, PutCpu, CallGetCpu, Goto
<1>12. CASE vmx_dump_cpu(t)
  BY <1>12 DEF vmx_dump_cpu, At, PutCpu, Goto
<1>. QED BY <1>3, <1>4, <1>5, <1>6, <1>7, <1>8, <1>9, <1>10, <1>11, <1>12 DEF Handle

\* Every step is a move or one of the others.
LEMMA StepCases ==
    ASSUME VcpuInv, [Next]_vars
    PROVE  \/ \E t \in Threads :
                \/ Moves(t)
                \/ vmx_create_vcpu(t) \/ vmx_setup_vmcs(t) \/ CreateEptFails(t)
                \/ __vmx_get_cpu_helper(t) \/ SyncContext(t) \/ LoadVmcs(t)
                \/ vmx_run_vcpu(t) \/ EntryFails(t) \/ GuestTouches(t)
                \/ vmx_destroy_ept(t) \/ vmx_destroy_vcpu(t)
           \/ \E t \in Threads, c \in Cpus :
                \/ GetCpuLoaded(t, c) \/ GetCpuBack(t, c)
                \/ GetCpuFirst(t, c) \/ GetCpuMove(t, c)
           \/ \E n \in Notifiers :
                NotifyClear(n) \/ vmx_ept_sync_vcpu(n) \/ __vmx_sync_helper(n)
           \/ UNCHANGED vars
BY MoveSteps DEF Next, Create, Switch, Loop, Handle, Destroy, GetCpu, Notify

\* Every step keeps the types.
LEMMA TypeStep == ASSUME VcpuInv, [Next]_vars PROVE VTypeOK'
<1>. VTypeOK /\ ThreadInv /\ UseInv
  BY DEF VcpuInv, VpidsExact
<1>zero. 0 \in 0..(VMX_NR_VPIDS - 1)
  BY NumbersAssumption
<1>. USE DEF VTypeOK, kernel, machine, Labels, Loaded
<1>1. ASSUME NEW t \in Threads, Moves(t) PROVE VTypeOK'
  BY <1>1 DEF Moves, ThreadInv, ThreadOK, UseInv, Outside, Entry
<1>2. ASSUME NEW t \in Threads, vmx_create_vcpu(t) PROVE VTypeOK'
  BY <1>2 DEF vmx_create_vcpu, CallGetCpu, FreeVcpus, FreeRegions, FreeVpids,
     ThreadInv, ThreadOK, UseInv, Outside, Entry
<1>3. ASSUME NEW t \in Threads, vmx_setup_vmcs(t) PROVE VTypeOK'
  <2>1. own[t] \in Vcpus
    BY <1>3 DEF vmx_setup_vmcs, At, ThreadInv, ThreadOK, Outside
  <2>2. field' \in [Regions -> [vpid : 0..(VMX_NR_VPIDS - 1), host : Cpus \cup {None}]]
    <3>1. CASE current[holds[t]] = None
      BY <1>3, <3>1 DEF vmx_setup_vmcs
    <3>2. CASE current[holds[t]] # None
      <4>1. field' = [field EXCEPT ![current[holds[t]]].vpid = vpid[own[t]]]
        BY <1>3, <3>2 DEF vmx_setup_vmcs
      <4>2. \A p \in 0..(VMX_NR_VPIDS - 1) : \A r :
                [field EXCEPT ![r].vpid = p]
                    \in [Regions -> [vpid : 0..(VMX_NR_VPIDS - 1), host : Cpus \cup {None}]]
        OBVIOUS
      <4>3. vpid[own[t]] \in 0..(VMX_NR_VPIDS - 1)
        BY <2>1
      <4>. QED BY <4>1, <4>2, <4>3
    <3>. QED BY <3>1, <3>2
  <2>. QED BY <1>3, <2>2 DEF vmx_setup_vmcs, At, PutCpu, Goto
<1>4. ASSUME NEW t \in Threads, CreateEptFails(t) PROVE VTypeOK'
  <2>1. own[t] \in Vcpus
    BY <1>4 DEF CreateEptFails, At, ThreadInv, ThreadOK, Outside
  <2>2. field' \in [Regions -> [vpid : 0..(VMX_NR_VPIDS - 1), host : Cpus \cup {None}]]
    BY <1>4, <1>zero, <2>1 DEF CreateEptFails, FreeVcpu, Blank
  <2>. QED BY <1>4, <1>zero, <2>1, <2>2 DEF CreateEptFails, At, FreeVcpu, Goto
<1>5. ASSUME NEW t \in Threads, NEW c \in Cpus, GetCpuLoaded(t, c) PROVE VTypeOK'
  BY <1>5 DEF GetCpuLoaded, Arrive, Preemptible, Step, ThreadInv, ThreadOK, UseInv,
     Outside, Entry
<1>6. ASSUME NEW t \in Threads, NEW c \in Cpus, GetCpuBack(t, c) PROVE VTypeOK'
  BY <1>6 DEF GetCpuBack, Arrive, Preemptible, vmcs_load, Step, ThreadInv, ThreadOK,
     UseInv, Outside, Entry
<1>7. ASSUME NEW t \in Threads, NEW c \in Cpus, GetCpuFirst(t, c) PROVE VTypeOK'
  BY <1>7 DEF GetCpuFirst, Arrive, Preemptible, vmcs_clear, Step, ThreadInv,
     ThreadOK, UseInv, Outside, Entry
<1>8. ASSUME NEW t \in Threads, NEW c \in Cpus, GetCpuMove(t, c) PROVE VTypeOK'
  BY <1>8 DEF GetCpuMove, Arrive, Preemptible, Step, ThreadInv, ThreadOK, UseInv,
     Outside, Entry
<1>9. ASSUME NEW t \in Threads, __vmx_get_cpu_helper(t) PROVE VTypeOK'
  BY <1>9 DEF __vmx_get_cpu_helper, IrqOn, vmcs_clear, Step, ThreadInv, ThreadOK,
     UseInv, Outside, Entry
<1>10. ASSUME NEW t \in Threads, SyncContext(t) PROVE VTypeOK'
  BY <1>10 DEF SyncContext, Flushed, Step, ThreadInv, ThreadOK, UseInv, Outside, Entry
<1>11. ASSUME NEW t \in Threads, LoadVmcs(t) PROVE VTypeOK'
  <2>1. own[t] \in Vcpus /\ holds[t] \in Cpus /\ vmcs[own[t]] \in Regions
    BY <1>11 DEF LoadVmcs, ThreadInv, ThreadOK, Outside, UseInv
  <2>2. field' \in [Regions -> [vpid : 0..(VMX_NR_VPIDS - 1), host : Cpus \cup {None}]]
    BY <1>11, <2>1 DEF LoadVmcs
  <2>. QED BY <1>11, <2>1, <2>2 DEF LoadVmcs, vmcs_load, Step
<1>12. ASSUME NEW t \in Threads, vmx_run_vcpu(t) PROVE VTypeOK'
  BY <1>12 DEF vmx_run_vcpu, At, EntryLegal, Goto, ThreadInv, ThreadOK, UseInv,
     Outside, Entry
<1>13. ASSUME NEW t \in Threads, EntryFails(t) PROVE VTypeOK'
  BY <1>13 DEF EntryFails, At, PutCpu, CallGetCpu, ThreadInv, ThreadOK, UseInv,
     Outside, Entry
<1>14. ASSUME NEW t \in Threads, GuestTouches(t) PROVE VTypeOK'
  BY <1>14 DEF GuestTouches, At, ThreadInv, ThreadOK, UseInv, Outside, Entry
<1>15. ASSUME NEW t \in Threads, vmx_destroy_ept(t) PROVE VTypeOK'
  BY <1>15 DEF vmx_destroy_ept, At, Killed, Flushed, CallGetCpu, ThreadInv,
     ThreadOK, UseInv, Outside, Entry
<1>16. ASSUME NEW t \in Threads, vmx_destroy_vcpu(t) PROVE VTypeOK'
  <2>1. own[t] \in Vcpus
    BY <1>16 DEF vmx_destroy_vcpu, At, ThreadInv, ThreadOK, Outside
  <2>2. field' \in [Regions -> [vpid : 0..(VMX_NR_VPIDS - 1), host : Cpus \cup {None}]]
    BY <1>16, <1>zero, <2>1 DEF vmx_destroy_vcpu, FreeVcpu, Blank
  <2>3. tlb' \in [Cpus -> SUBSET Entry]
    BY <1>16 DEF vmx_destroy_vcpu, Flushed
  <2>. QED BY <1>16, <1>zero, <2>1, <2>2, <2>3 DEF vmx_destroy_vcpu, At, vmcs_clear,
     FreeVcpu, PutCpu, Goto
<1>17. ASSUME NEW n \in Notifiers, NotifyClear(n) PROVE VTypeOK'
  BY <1>17 DEF NotifyClear, Killed, Flushed, ThreadInv, ThreadOK, UseInv, Outside, Entry
<1>18. ASSUME NEW n \in Notifiers, vmx_ept_sync_vcpu(n) PROVE VTypeOK'
  <2>. DEFINE N == [at : {"idle", "cleared", "send"},
                    vcpu : Vcpus \cup {None}, target : Cpus \cup {None}]
  <2>1. notif[n] \in N /\ cpu[notif[n].vcpu] \in Cpus \cup {None}
    BY <1>18 DEF vmx_ept_sync_vcpu, UseInv
  <2>2. [notif[n] EXCEPT !.at = "send", !.target = cpu[notif[n].vcpu]] \in N
    BY <2>1
  <2>3. notif' = [notif EXCEPT ![n] =
                      [@ EXCEPT !.at = "send", !.target = cpu[notif[n].vcpu]]]
    BY <1>18, <2>1 DEF vmx_ept_sync_vcpu
  <2>4. notif' \in [Notifiers -> N]
    BY <2>2, <2>3
  <2>. QED BY <1>18, <2>4 DEF vmx_ept_sync_vcpu
<1>19. ASSUME NEW n \in Notifiers, __vmx_sync_helper(n) PROVE VTypeOK'
  BY <1>19 DEF __vmx_sync_helper, IrqOn, Flushed, ThreadInv, ThreadOK, UseInv,
     Outside, Entry
<1>20. CASE UNCHANGED vars
  BY <1>20 DEF vars, kernel, machine
<1>. QED BY <1>1, <1>2, <1>3, <1>4, <1>5, <1>6, <1>7, <1>8, <1>9, <1>10,
         <1>11, <1>12, <1>13, <1>14, <1>15, <1>16, <1>17, <1>18, <1>19,
         <1>20, StepCases

\* Threads keep VCPUs and CPUs of their own.
LEMMA ThreadStep == ASSUME VcpuInv, [Next]_vars PROVE ThreadInv'
<1>. VTypeOK /\ ThreadInv /\ UseInv
  BY DEF VcpuInv, VpidsExact
<1>. SUFFICES ASSUME NEW u \in Threads PROVE ThreadOK(u)'
  BY DEF ThreadInv
<1>. USE NamesAssumption DEF ThreadOK, Outside, kernel, machine, Labels, Loaded
<1>1. ASSUME NEW t \in Threads, Moves(t) PROVE ThreadOK(u)'
  BY <1>1 DEF Moves, VTypeOK, ThreadInv, UseInv
<1>2. ASSUME NEW t \in Threads, vmx_create_vcpu(t) PROVE ThreadOK(u)'
  BY <1>2 DEF vmx_create_vcpu, CallGetCpu, FreeVcpus, FreeRegions, FreeVpids,
     VTypeOK, ThreadInv, UseInv
<1>3. ASSUME NEW t \in Threads, vmx_setup_vmcs(t) PROVE ThreadOK(u)'
  BY <1>3 DEF vmx_setup_vmcs, At, PutCpu, Goto, VTypeOK, ThreadInv, UseInv
<1>4. ASSUME NEW t \in Threads, CreateEptFails(t) PROVE ThreadOK(u)'
  BY <1>4 DEF CreateEptFails, At, FreeVcpu, Goto, VTypeOK, ThreadInv, UseInv
<1>5. ASSUME NEW t \in Threads, NEW c \in Cpus, GetCpuLoaded(t, c) PROVE ThreadOK(u)'
  BY <1>5 DEF GetCpuLoaded, Arrive, Preemptible, Step, VTypeOK, ThreadInv, UseInv
<1>6. ASSUME NEW t \in Threads, NEW c \in Cpus, GetCpuBack(t, c) PROVE ThreadOK(u)'
  BY <1>6 DEF GetCpuBack, Arrive, Preemptible, vmcs_load, Step, VTypeOK, ThreadInv,
     UseInv
<1>7. ASSUME NEW t \in Threads, NEW c \in Cpus, GetCpuFirst(t, c) PROVE ThreadOK(u)'
  BY <1>7 DEF GetCpuFirst, Arrive, Preemptible, vmcs_clear, Step, VTypeOK,
     ThreadInv, UseInv
<1>8. ASSUME NEW t \in Threads, NEW c \in Cpus, GetCpuMove(t, c) PROVE ThreadOK(u)'
  BY <1>8 DEF GetCpuMove, Arrive, Preemptible, Step, VTypeOK, ThreadInv, UseInv
<1>9. ASSUME NEW t \in Threads, __vmx_get_cpu_helper(t) PROVE ThreadOK(u)'
  BY <1>9 DEF __vmx_get_cpu_helper, IrqOn, vmcs_clear, Step, VTypeOK, ThreadInv, UseInv
<1>10. ASSUME NEW t \in Threads, SyncContext(t) PROVE ThreadOK(u)'
  BY <1>10 DEF SyncContext, Flushed, Step, VTypeOK, ThreadInv, UseInv
<1>11. ASSUME NEW t \in Threads, LoadVmcs(t) PROVE ThreadOK(u)'
  BY <1>11 DEF LoadVmcs, vmcs_load, Step, VTypeOK, ThreadInv, UseInv
<1>12. ASSUME NEW t \in Threads, vmx_run_vcpu(t) PROVE ThreadOK(u)'
  BY <1>12 DEF vmx_run_vcpu, At, EntryLegal, Goto, VTypeOK, ThreadInv, UseInv
<1>13. ASSUME NEW t \in Threads, EntryFails(t) PROVE ThreadOK(u)'
  BY <1>13 DEF EntryFails, At, PutCpu, CallGetCpu, VTypeOK, ThreadInv, UseInv
<1>14. ASSUME NEW t \in Threads, GuestTouches(t) PROVE ThreadOK(u)'
  BY <1>14 DEF GuestTouches, At, VTypeOK, ThreadInv, UseInv
<1>15. ASSUME NEW t \in Threads, vmx_destroy_ept(t) PROVE ThreadOK(u)'
  BY <1>15 DEF vmx_destroy_ept, At, Killed, Flushed, CallGetCpu, VTypeOK, ThreadInv,
     UseInv
<1>16. ASSUME NEW t \in Threads, vmx_destroy_vcpu(t) PROVE ThreadOK(u)'
  BY <1>16 DEF vmx_destroy_vcpu, At, Flushed, vmcs_clear, FreeVcpu, PutCpu, Goto,
     VTypeOK, ThreadInv, UseInv
<1>17. ASSUME NEW n \in Notifiers, NotifyClear(n) PROVE ThreadOK(u)'
  BY <1>17 DEF NotifyClear, Killed, Flushed, VTypeOK, ThreadInv, UseInv
<1>18. ASSUME NEW n \in Notifiers, vmx_ept_sync_vcpu(n) PROVE ThreadOK(u)'
  BY <1>18 DEF vmx_ept_sync_vcpu, VTypeOK, ThreadInv, UseInv
<1>19. ASSUME NEW n \in Notifiers, __vmx_sync_helper(n) PROVE ThreadOK(u)'
  BY <1>19 DEF __vmx_sync_helper, IrqOn, Flushed, VTypeOK, ThreadInv, UseInv
<1>20. CASE UNCHANGED vars
  BY <1>20 DEF vars, ThreadInv
<1>. QED BY <1>1, <1>2, <1>3, <1>4, <1>5, <1>6, <1>7, <1>8, <1>9, <1>10,
         <1>11, <1>12, <1>13, <1>14, <1>15, <1>16, <1>17, <1>18, <1>19,
         <1>20, StepCases

\* Addresses and regions have one user.
LEMMA UseStep == ASSUME VcpuInv, [Next]_vars PROVE UseInv'
<1>. VTypeOK /\ ThreadInv /\ UseInv
  BY DEF VcpuInv, VpidsExact
<1>. USE NamesAssumption DEF UseInv, kernel, machine
<1>1. ASSUME NEW t \in Threads, Moves(t) PROVE UseInv'
  BY <1>1 DEF Moves, VTypeOK, ThreadInv, ThreadOK, Outside
<1>2. ASSUME NEW t \in Threads, vmx_create_vcpu(t) PROVE UseInv'
  BY <1>2 DEF vmx_create_vcpu, CallGetCpu, FreeVcpus, FreeRegions, FreeVpids,
     VTypeOK, ThreadInv, ThreadOK, Outside
<1>3. ASSUME NEW t \in Threads, vmx_setup_vmcs(t) PROVE UseInv'
  BY <1>3 DEF vmx_setup_vmcs, At, PutCpu, Goto, VTypeOK, ThreadInv, ThreadOK, Outside
<1>4. ASSUME NEW t \in Threads, CreateEptFails(t) PROVE UseInv'
  BY <1>4 DEF CreateEptFails, At, FreeVcpu, Goto, VTypeOK, ThreadInv, ThreadOK, Outside
<1>5. ASSUME NEW t \in Threads, NEW c \in Cpus, GetCpuLoaded(t, c) PROVE UseInv'
  BY <1>5 DEF GetCpuLoaded, Arrive, Preemptible, Step, VTypeOK, ThreadInv, ThreadOK,
     Outside
<1>6. ASSUME NEW t \in Threads, NEW c \in Cpus, GetCpuBack(t, c) PROVE UseInv'
  BY <1>6 DEF GetCpuBack, Arrive, Preemptible, vmcs_load, Step, VTypeOK, ThreadInv,
     ThreadOK, Outside
<1>7. ASSUME NEW t \in Threads, NEW c \in Cpus, GetCpuFirst(t, c) PROVE UseInv'
  BY <1>7 DEF GetCpuFirst, Arrive, Preemptible, vmcs_clear, Step, VTypeOK,
     ThreadInv, ThreadOK, Outside
<1>8. ASSUME NEW t \in Threads, NEW c \in Cpus, GetCpuMove(t, c) PROVE UseInv'
  BY <1>8 DEF GetCpuMove, Arrive, Preemptible, Step, VTypeOK, ThreadInv, ThreadOK,
     Outside
<1>9. ASSUME NEW t \in Threads, __vmx_get_cpu_helper(t) PROVE UseInv'
  BY <1>9 DEF __vmx_get_cpu_helper, IrqOn, vmcs_clear, Step, VTypeOK, ThreadInv,
     ThreadOK, Outside
<1>10. ASSUME NEW t \in Threads, SyncContext(t) PROVE UseInv'
  BY <1>10 DEF SyncContext, Flushed, Step, VTypeOK, ThreadInv, ThreadOK, Outside
<1>11. ASSUME NEW t \in Threads, LoadVmcs(t) PROVE UseInv'
  BY <1>11 DEF LoadVmcs, vmcs_load, Step, VTypeOK, ThreadInv, ThreadOK, Outside
<1>12. ASSUME NEW t \in Threads, vmx_run_vcpu(t) PROVE UseInv'
  BY <1>12 DEF vmx_run_vcpu, At, EntryLegal, Goto, VTypeOK, ThreadInv, ThreadOK, Outside
<1>13. ASSUME NEW t \in Threads, EntryFails(t) PROVE UseInv'
  BY <1>13 DEF EntryFails, At, PutCpu, CallGetCpu, VTypeOK, ThreadInv, ThreadOK, Outside
<1>14. ASSUME NEW t \in Threads, GuestTouches(t) PROVE UseInv'
  BY <1>14 DEF GuestTouches, At, VTypeOK, ThreadInv, ThreadOK, Outside
<1>15. ASSUME NEW t \in Threads, vmx_destroy_ept(t) PROVE UseInv'
  BY <1>15 DEF vmx_destroy_ept, At, Killed, Flushed, CallGetCpu, VTypeOK, ThreadInv,
     ThreadOK, Outside
<1>16. ASSUME NEW t \in Threads, vmx_destroy_vcpu(t) PROVE UseInv'
  BY <1>16 DEF vmx_destroy_vcpu, At, Flushed, vmcs_clear, FreeVcpu, PutCpu, Goto,
     VTypeOK, ThreadInv, ThreadOK, Outside
<1>17. ASSUME NEW n \in Notifiers, NotifyClear(n) PROVE UseInv'
  BY <1>17 DEF NotifyClear, Killed, Flushed, VTypeOK, ThreadInv, ThreadOK, Outside
<1>18. ASSUME NEW n \in Notifiers, vmx_ept_sync_vcpu(n) PROVE UseInv'
  BY <1>18 DEF vmx_ept_sync_vcpu, VTypeOK, ThreadInv, ThreadOK, Outside
<1>19. ASSUME NEW n \in Notifiers, __vmx_sync_helper(n) PROVE UseInv'
  BY <1>19 DEF __vmx_sync_helper, IrqOn, Flushed, VTypeOK, ThreadInv, ThreadOK, Outside
<1>20. CASE UNCHANGED vars
  BY <1>20 DEF vars, kernel, machine
<1>. QED BY <1>1, <1>2, <1>3, <1>4, <1>5, <1>6, <1>7, <1>8, <1>9, <1>10,
         <1>11, <1>12, <1>13, <1>14, <1>15, <1>16, <1>17, <1>18, <1>19,
         <1>20, StepCases

\* VPIDs are neither leaked nor given twice.
LEMMA VpidStep == ASSUME VcpuInv, [Next]_vars PROVE VpidsExact'
<1>. VpidsExact /\ VTypeOK /\ ThreadInv /\ UseInv
  BY DEF VcpuInv, VpidsExact
<1>. VTypeOK'
  BY TypeStep
<1>. USE NamesAssumption DEF VpidsExact, kernel, machine
<1>1. ASSUME NEW t \in Threads, Moves(t) PROVE VpidsExact'
  BY <1>1 DEF Moves, VTypeOK, ThreadInv, ThreadOK, Outside, UseInv
<1>2. ASSUME NEW t \in Threads, vmx_create_vcpu(t) PROVE VpidsExact'
  BY <1>2 DEF vmx_create_vcpu, CallGetCpu, FreeVcpus, FreeRegions, FreeVpids,
     VTypeOK, ThreadInv, ThreadOK, Outside, UseInv
<1>3. ASSUME NEW t \in Threads, vmx_setup_vmcs(t) PROVE VpidsExact'
  BY <1>3 DEF vmx_setup_vmcs, At, PutCpu, Goto, VTypeOK, ThreadInv, ThreadOK,
     Outside, UseInv
<1>4. ASSUME NEW t \in Threads, CreateEptFails(t) PROVE VpidsExact'
  BY <1>4 DEF CreateEptFails, At, FreeVcpu, Goto, VTypeOK, ThreadInv, ThreadOK,
     Outside, UseInv
<1>5. ASSUME NEW t \in Threads, NEW c \in Cpus, GetCpuLoaded(t, c) PROVE VpidsExact'
  BY <1>5 DEF GetCpuLoaded, Arrive, Preemptible, Step, VTypeOK, ThreadInv, ThreadOK,
     Outside, UseInv
<1>6. ASSUME NEW t \in Threads, NEW c \in Cpus, GetCpuBack(t, c) PROVE VpidsExact'
  BY <1>6 DEF GetCpuBack, Arrive, Preemptible, vmcs_load, Step, VTypeOK, ThreadInv,
     ThreadOK, Outside, UseInv
<1>7. ASSUME NEW t \in Threads, NEW c \in Cpus, GetCpuFirst(t, c) PROVE VpidsExact'
  BY <1>7 DEF GetCpuFirst, Arrive, Preemptible, vmcs_clear, Step, VTypeOK,
     ThreadInv, ThreadOK, Outside, UseInv
<1>8. ASSUME NEW t \in Threads, NEW c \in Cpus, GetCpuMove(t, c) PROVE VpidsExact'
  BY <1>8 DEF GetCpuMove, Arrive, Preemptible, Step, VTypeOK, ThreadInv, ThreadOK,
     Outside, UseInv
<1>9. ASSUME NEW t \in Threads, __vmx_get_cpu_helper(t) PROVE VpidsExact'
  BY <1>9 DEF __vmx_get_cpu_helper, IrqOn, vmcs_clear, Step, VTypeOK, ThreadInv,
     ThreadOK, Outside, UseInv
<1>10. ASSUME NEW t \in Threads, SyncContext(t) PROVE VpidsExact'
  BY <1>10 DEF SyncContext, Flushed, Step, VTypeOK, ThreadInv, ThreadOK, Outside, UseInv
<1>11. ASSUME NEW t \in Threads, LoadVmcs(t) PROVE VpidsExact'
  BY <1>11 DEF LoadVmcs, vmcs_load, Step, VTypeOK, ThreadInv, ThreadOK, Outside, UseInv
<1>12. ASSUME NEW t \in Threads, vmx_run_vcpu(t) PROVE VpidsExact'
  BY <1>12 DEF vmx_run_vcpu, At, EntryLegal, Goto, VTypeOK, ThreadInv, ThreadOK,
     Outside, UseInv
<1>13. ASSUME NEW t \in Threads, EntryFails(t) PROVE VpidsExact'
  BY <1>13 DEF EntryFails, At, PutCpu, CallGetCpu, VTypeOK, ThreadInv, ThreadOK,
     Outside, UseInv
<1>14. ASSUME NEW t \in Threads, GuestTouches(t) PROVE VpidsExact'
  BY <1>14 DEF GuestTouches, At, VTypeOK, ThreadInv, ThreadOK, Outside, UseInv
<1>15. ASSUME NEW t \in Threads, vmx_destroy_ept(t) PROVE VpidsExact'
  BY <1>15 DEF vmx_destroy_ept
<1>16. ASSUME NEW t \in Threads, vmx_destroy_vcpu(t) PROVE VpidsExact'
  BY <1>16 DEF vmx_destroy_vcpu, At, Flushed, vmcs_clear, FreeVcpu, PutCpu, Goto,
     VTypeOK, ThreadInv, ThreadOK, Outside, UseInv
<1>17. ASSUME NEW n \in Notifiers, NotifyClear(n) PROVE VpidsExact'
  BY <1>17 DEF NotifyClear
<1>18. ASSUME NEW n \in Notifiers, vmx_ept_sync_vcpu(n) PROVE VpidsExact'
  BY <1>18 DEF vmx_ept_sync_vcpu, VTypeOK, ThreadInv, ThreadOK, Outside, UseInv
<1>19. ASSUME NEW n \in Notifiers, __vmx_sync_helper(n) PROVE VpidsExact'
  BY <1>19 DEF __vmx_sync_helper, IrqOn, Flushed, VTypeOK, ThreadInv, ThreadOK,
     Outside, UseInv
<1>20. CASE UNCHANGED vars
  BY <1>20 DEF vars, kernel, machine
<1>. QED BY <1>1, <1>2, <1>3, <1>4, <1>5, <1>6, <1>7, <1>8, <1>9, <1>10,
         <1>11, <1>12, <1>13, <1>14, <1>15, <1>16, <1>17, <1>18, <1>19,
         <1>20, StepCases

\* Failures are counted.
LEMMA FailsStep == ASSUME VcpuInv, [Next]_vars, fails' = 0 PROVE fails = 0
<1>. SUFFICES ASSUME fails # 0 PROVE FALSE
  OBVIOUS
<1>. fails \in Nat
  BY DEF VcpuInv, UseInv
<1>. USE DEF kernel, machine
<1>1. ASSUME NEW t \in Threads, Moves(t) PROVE FALSE
  BY <1>1 DEF Moves
<1>2. ASSUME NEW t \in Threads, vmx_create_vcpu(t) PROVE FALSE
  BY <1>2 DEF vmx_create_vcpu
<1>3. ASSUME NEW t \in Threads, vmx_setup_vmcs(t) PROVE FALSE
  BY <1>3 DEF vmx_setup_vmcs
<1>4. ASSUME NEW t \in Threads, CreateEptFails(t) PROVE FALSE
  BY <1>4 DEF CreateEptFails
<1>5. ASSUME NEW t \in Threads, NEW c \in Cpus, GetCpuLoaded(t, c) PROVE FALSE
  BY <1>5 DEF GetCpuLoaded, Arrive
<1>6. ASSUME NEW t \in Threads, NEW c \in Cpus, GetCpuBack(t, c) PROVE FALSE
  BY <1>6 DEF GetCpuBack, Arrive
<1>7. ASSUME NEW t \in Threads, NEW c \in Cpus, GetCpuFirst(t, c) PROVE FALSE
  BY <1>7 DEF GetCpuFirst, Arrive
<1>8. ASSUME NEW t \in Threads, NEW c \in Cpus, GetCpuMove(t, c) PROVE FALSE
  BY <1>8 DEF GetCpuMove, Arrive
<1>9. ASSUME NEW t \in Threads, __vmx_get_cpu_helper(t) PROVE FALSE
  BY <1>9 DEF __vmx_get_cpu_helper
<1>10. ASSUME NEW t \in Threads, SyncContext(t) PROVE FALSE
  BY <1>10 DEF SyncContext
<1>11. ASSUME NEW t \in Threads, LoadVmcs(t) PROVE FALSE
  BY <1>11 DEF LoadVmcs
<1>12. ASSUME NEW t \in Threads, vmx_run_vcpu(t) PROVE FALSE
  BY <1>12 DEF vmx_run_vcpu
<1>13. ASSUME NEW t \in Threads, EntryFails(t) PROVE FALSE
  BY <1>13 DEF EntryFails
<1>14. ASSUME NEW t \in Threads, GuestTouches(t) PROVE FALSE
  BY <1>14 DEF GuestTouches
<1>15. ASSUME NEW t \in Threads, vmx_destroy_ept(t) PROVE FALSE
  BY <1>15 DEF vmx_destroy_ept
<1>16. ASSUME NEW t \in Threads, vmx_destroy_vcpu(t) PROVE FALSE
  BY <1>16 DEF vmx_destroy_vcpu
<1>17. ASSUME NEW n \in Notifiers, NotifyClear(n) PROVE FALSE
  BY <1>17 DEF NotifyClear
<1>18. ASSUME NEW n \in Notifiers, vmx_ept_sync_vcpu(n) PROVE FALSE
  BY <1>18 DEF vmx_ept_sync_vcpu
<1>19. ASSUME NEW n \in Notifiers, __vmx_sync_helper(n) PROVE FALSE
  BY <1>19 DEF __vmx_sync_helper
<1>20. CASE UNCHANGED vars  BY <1>20 DEF vars
<1>. QED BY <1>1, <1>2, <1>3, <1>4, <1>5, <1>6, <1>7, <1>8, <1>9, <1>10, <1>11, <1>12,
   <1>13, <1>14, <1>15, <1>16, <1>17, <1>18, <1>19, <1>20, StepCases

\* What holds of the VCPU of a thread that has its CPU.
LEMMA OwnFacts ==
    ASSUME VcpuInv, fails = 0, NEW t \in Threads, sw[t] = "done", pc[t] \in Loaded
    PROVE  /\ own[t] \in Vcpus /\ holds[t] \in Cpus /\ vmcs[own[t]] \in Regions
           /\ cpu[own[t]] = holds[t] /\ local[holds[t]] = own[t]
           /\ current[holds[t]] = vmcs[own[t]]
           /\ field[vmcs[own[t]]].host = holds[t]
           /\ pc[t] # "setup" => field[vmcs[own[t]]].vpid = vpid[own[t]]
           /\ launched[own[t]] = 1 <=> vmcs[own[t]] \in resumable
<1>1. VTypeOK /\ ThreadOK(t) /\ UseInv /\ LocalInv /\ CurrentInv /\ FieldInv
  BY DEF VcpuInv, VpidsExact, ThreadInv, MachineInv
<1>2. own[t] \in Vcpus /\ holds[t] \in Cpus /\ vmcs[own[t]] \in Regions
  BY <1>1 DEF VTypeOK, ThreadOK, UseInv, Outside, Loaded
<1>3. cpu[own[t]] = holds[t] /\ local[holds[t]] = own[t]
  BY <1>1, <1>2, NamesAssumption DEF LocalInv, LocalOK
<1>4. current[holds[t]] = vmcs[own[t]]
  BY <1>1, <1>2, <1>3, NamesAssumption DEF CurrentInv
<1>. QED BY <1>1, <1>2, <1>3, <1>4, NamesAssumption DEF FieldInv, FieldOK, LaunchOK,
   Away

\* vmx_launch uses the right one of VMLAUNCH and VMRESUME.
LEMMA EntryIsLegal ==
    ASSUME VcpuInv, fails = 0, NEW t \in Threads, At(t, "check")
    PROVE  EntryLegal(t)
BY OwnFacts, NamesAssumption DEF At, EntryLegal, Loaded

\* local_vcpu and vcpu->cpu.
LEMMA LocalStep == ASSUME VcpuInv, [Next]_vars, fails' = 0 PROVE LocalInv'
<1>0. fails = 0 /\ LocalInv /\ CurrentInv /\ FieldInv /\ TlbInv
  BY FailsStep DEF VcpuInv, MachineInv
<1>. VTypeOK /\ ThreadInv /\ UseInv /\ LocalInv
  BY <1>0 DEF VcpuInv, VpidsExact
<1>. USE NamesAssumption DEF LocalInv, LocalOK, Away, kernel, machine
<1>1. ASSUME NEW t \in Threads, Moves(t) PROVE LocalInv'
  BY <1>1 DEF Moves, VTypeOK, ThreadInv, ThreadOK, Outside, Loaded, UseInv
<1>2. ASSUME NEW t \in Threads, vmx_create_vcpu(t) PROVE LocalInv'
  <2>1. PICK v \in FreeVcpus, r \in FreeRegions :
            /\ own' = [own EXCEPT ![t] = v] /\ vmcs' = [vmcs EXCEPT ![v] = r]
            /\ cpu' = [cpu EXCEPT ![v] = None]
    BY <1>2 DEF vmx_create_vcpu
  <2>2. /\ sw' = [sw EXCEPT ![t] = "get"] /\ holds[t] = None
        /\ UNCHANGED <<holds, local>>
    BY <1>2 DEF vmx_create_vcpu, CallGetCpu, ThreadInv, ThreadOK, Outside, Loaded
  <2>3. v \in Vcpus /\ r \in Regions /\ vmcs[v] = None
    BY DEF FreeVcpus, FreeRegions
  <2>4. \A c \in Cpus : local[c] # v
    BY <2>3
  <2>5. \A c \in Cpus : local'[c] # None => vmcs'[local'[c]] # None
    BY <2>1, <2>2, <2>3, <2>4 DEF VTypeOK
  <2>6. ASSUME NEW u \in Threads, own'[u] # None PROVE LocalOK(u)'
    <3>1. CASE u = t
      BY <2>1, <2>2, <2>3, <2>4, <3>1 DEF VTypeOK
    <3>2. CASE u # t
      <4>1. own[u] # None /\ own[u] # v
        BY <2>1, <2>3, <2>6, <3>2 DEF UseInv, VTypeOK
      <4>. QED BY <2>1, <2>2, <2>3, <3>2, <4>1 DEF VTypeOK
    <3>. QED BY <3>1, <3>2
  <2>. QED BY <2>5, <2>6
<1>3. ASSUME NEW t \in Threads, vmx_setup_vmcs(t) PROVE LocalInv'
  BY <1>3 DEF vmx_setup_vmcs, At, PutCpu, Goto, VTypeOK, ThreadInv, ThreadOK,
     Outside, Loaded, UseInv
<1>4. ASSUME NEW t \in Threads, CreateEptFails(t) PROVE LocalInv'
  BY <1>4 DEF CreateEptFails, At, FreeVcpu, Goto, VTypeOK, ThreadInv, ThreadOK,
     Outside, Loaded, UseInv
<1>5. ASSUME NEW t \in Threads, NEW c \in Cpus, GetCpuLoaded(t, c) PROVE LocalInv'
  BY <1>5 DEF GetCpuLoaded, Arrive, Preemptible, Step, VTypeOK, ThreadInv, ThreadOK,
     Outside, Loaded, UseInv
<1>6. ASSUME NEW t \in Threads, NEW c \in Cpus, GetCpuBack(t, c) PROVE LocalInv'
  BY <1>6 DEF GetCpuBack, Arrive, Preemptible, vmcs_load, Step, VTypeOK, ThreadInv,
     ThreadOK, Outside, Loaded, UseInv
<1>7. ASSUME NEW t \in Threads, NEW c \in Cpus, GetCpuFirst(t, c) PROVE LocalInv'
  BY <1>7 DEF GetCpuFirst, Arrive, Preemptible, vmcs_clear, Step, VTypeOK,
     ThreadInv, ThreadOK, Outside, Loaded, UseInv
<1>8. ASSUME NEW t \in Threads, NEW c \in Cpus, GetCpuMove(t, c) PROVE LocalInv'
  BY <1>8 DEF GetCpuMove, Arrive, Preemptible, Step, VTypeOK, ThreadInv, ThreadOK,
     Outside, Loaded, UseInv
<1>9. ASSUME NEW t \in Threads, __vmx_get_cpu_helper(t) PROVE LocalInv'
  BY <1>9 DEF __vmx_get_cpu_helper, IrqOn, vmcs_clear, Step, VTypeOK, ThreadInv,
     ThreadOK, Outside, Loaded, UseInv
<1>10. ASSUME NEW t \in Threads, SyncContext(t) PROVE LocalInv'
  BY <1>10 DEF SyncContext, Flushed, Step, VTypeOK, ThreadInv, ThreadOK, Outside,
     Loaded, UseInv
<1>11. ASSUME NEW t \in Threads, LoadVmcs(t) PROVE LocalInv'
  BY <1>11 DEF LoadVmcs, vmcs_load, Step, VTypeOK, ThreadInv, ThreadOK, Outside,
     Loaded, UseInv
<1>12. ASSUME NEW t \in Threads, vmx_run_vcpu(t) PROVE LocalInv'
  BY <1>12 DEF vmx_run_vcpu, At, EntryLegal, Goto, VTypeOK, ThreadInv, ThreadOK,
     Outside, Loaded, UseInv
<1>13. ASSUME NEW t \in Threads, EntryFails(t) PROVE LocalInv'
  BY <1>13, <1>0, EntryIsLegal DEF EntryFails
<1>14. ASSUME NEW t \in Threads, GuestTouches(t) PROVE LocalInv'
  BY <1>14 DEF GuestTouches, At, VTypeOK, ThreadInv, ThreadOK, Outside, Loaded, UseInv
<1>15. ASSUME NEW t \in Threads, vmx_destroy_ept(t) PROVE LocalInv'
  <2>1. /\ holds[t] = None /\ sw[t] = "done" /\ sw' = [sw EXCEPT ![t] = "get"]
        /\ UNCHANGED <<own, holds, cpu, vmcs, local>>
    BY <1>15 DEF vmx_destroy_ept, At, CallGetCpu, ThreadInv, ThreadOK, Loaded
  <2>. QED BY <2>1 DEF VTypeOK
<1>16. ASSUME NEW t \in Threads, vmx_destroy_vcpu(t) PROVE LocalInv'
  BY <1>16 DEF vmx_destroy_vcpu, At, Flushed, vmcs_clear, FreeVcpu, PutCpu, Goto,
     VTypeOK, ThreadInv, ThreadOK, Outside, Loaded, UseInv
<1>17. ASSUME NEW n \in Notifiers, NotifyClear(n) PROVE LocalInv'
  BY <1>17 DEF NotifyClear, Killed, Flushed, VTypeOK, ThreadInv, ThreadOK, Outside,
     Loaded, UseInv
<1>18. ASSUME NEW n \in Notifiers, vmx_ept_sync_vcpu(n) PROVE LocalInv'
  BY <1>18 DEF vmx_ept_sync_vcpu, VTypeOK, ThreadInv, ThreadOK, Outside, Loaded, UseInv
<1>19. ASSUME NEW n \in Notifiers, __vmx_sync_helper(n) PROVE LocalInv'
  BY <1>19 DEF __vmx_sync_helper, IrqOn, Flushed, VTypeOK, ThreadInv, ThreadOK,
     Outside, Loaded, UseInv
<1>20. CASE UNCHANGED vars
  BY <1>20 DEF vars, kernel, machine
<1>. QED BY <1>1, <1>2, <1>3, <1>4, <1>5, <1>6, <1>7, <1>8, <1>9, <1>10,
         <1>11, <1>12, <1>13, <1>14, <1>15, <1>16, <1>17, <1>18, <1>19,
         <1>20, StepCases

\* Current and active VMCSs.
LEMMA CurrentStep == ASSUME VcpuInv, [Next]_vars, fails' = 0 PROVE CurrentInv'
<1>0. fails = 0 /\ LocalInv /\ CurrentInv /\ FieldInv /\ TlbInv
  BY FailsStep DEF VcpuInv, MachineInv
<1>. VTypeOK /\ ThreadInv /\ UseInv /\ LocalInv /\ CurrentInv
  BY <1>0 DEF VcpuInv, VpidsExact
<1>. USE NamesAssumption DEF CurrentInv, Away, kernel, machine
<1>1. ASSUME NEW t \in Threads, Moves(t) PROVE CurrentInv'
  BY <1>1 DEF Moves, VTypeOK, ThreadInv, ThreadOK, Outside, Loaded, UseInv,
     LocalInv, LocalOK
<1>2. ASSUME NEW t \in Threads, vmx_create_vcpu(t) PROVE CurrentInv'
  <2>1. PICK v \in FreeVcpus, r \in FreeRegions :
            /\ own' = [own EXCEPT ![t] = v] /\ vmcs' = [vmcs EXCEPT ![v] = r]
            /\ cpu' = [cpu EXCEPT ![v] = None]
    BY <1>2 DEF vmx_create_vcpu
  <2>2. /\ sw' = [sw EXCEPT ![t] = "get"] /\ own[t] = None
        /\ UNCHANGED <<local, current, active>>
    BY <1>2 DEF vmx_create_vcpu, CallGetCpu, ThreadInv, ThreadOK, Outside
  <2>3. v \in Vcpus /\ vmcs[v] = None /\ (\A c \in Cpus : local[c] # v)
        /\ (\A u \in Threads : own[u] # v)
    BY DEF FreeVcpus, LocalInv, UseInv
  <2>. QED BY <2>1, <2>2, <2>3 DEF VTypeOK
<1>3. ASSUME NEW t \in Threads, vmx_setup_vmcs(t) PROVE CurrentInv'
  BY <1>3 DEF vmx_setup_vmcs, At, PutCpu, Goto, VTypeOK, ThreadInv, ThreadOK,
     Outside, Loaded, UseInv, LocalInv, LocalOK
<1>4. ASSUME NEW t \in Threads, CreateEptFails(t) PROVE CurrentInv'
  BY <1>4 DEF CreateEptFails, At, FreeVcpu, Goto, VTypeOK, ThreadInv, ThreadOK,
     Outside, Loaded, UseInv, LocalInv, LocalOK
<1>5. ASSUME NEW t \in Threads, NEW c \in Cpus, GetCpuLoaded(t, c) PROVE CurrentInv'
  BY <1>5 DEF GetCpuLoaded, Arrive, Preemptible, Step, VTypeOK, ThreadInv, ThreadOK,
     Outside, Loaded, UseInv, LocalInv, LocalOK
<1>6. ASSUME NEW t \in Threads, NEW c \in Cpus, GetCpuBack(t, c) PROVE CurrentInv'
  <2>1. /\ own[t] \in Vcpus /\ sw[t] = "get" /\ cpu[own[t]] = c
        /\ local' = [local EXCEPT ![c] = own[t]] /\ current' = [current EXCEPT ![c] = vmcs[own[t]]]
        /\ active' = [active EXCEPT ![c] = @ \cup {vmcs[own[t]]}]
        /\ sw' = [sw EXCEPT ![t] = "done"] /\ UNCHANGED <<own, vmcs, cpu>>
    BY <1>6 DEF GetCpuBack, Arrive, Preemptible, vmcs_load, Step, ThreadInv,
       ThreadOK, Outside, Loaded, VTypeOK
  <2>2. \A d \in Cpus : \A r \in active'[d] :
          r \in active[d] \/ (d = c /\ r = vmcs[own[t]])
    BY <2>1 DEF VTypeOK
  <2>3. \A u \in Threads : sw[u] \notin {"flush", "load"} => sw'[u] \notin {"flush", "load"}
    BY <2>1 DEF VTypeOK
  <2>4. CurrentInv!3'
    BY <2>1, <2>2, <2>3
  <2>. QED BY <2>1, <2>4 DEF VTypeOK
<1>7. ASSUME NEW t \in Threads, NEW c \in Cpus, GetCpuFirst(t, c) PROVE CurrentInv'
  BY <1>7 DEF GetCpuFirst, Arrive, Preemptible, vmcs_clear, Step, VTypeOK,
     ThreadInv, ThreadOK, Outside, Loaded, UseInv, LocalInv, LocalOK
<1>8. ASSUME NEW t \in Threads, NEW c \in Cpus, GetCpuMove(t, c) PROVE CurrentInv'
  BY <1>8 DEF GetCpuMove, Arrive, Preemptible, Step, VTypeOK, ThreadInv, ThreadOK,
     Outside, Loaded, UseInv, LocalInv, LocalOK
<1>9. ASSUME NEW t \in Threads, __vmx_get_cpu_helper(t) PROVE CurrentInv'
  <2>. DEFINE v == own[t]  e == cpu[own[t]]
  <2>1. /\ v \in Vcpus /\ vmcs[v] \in Regions /\ sw' = [sw EXCEPT ![t] = "flush"]
        /\ local' = [local EXCEPT ![e] = IF @ = v THEN None ELSE @]
        /\ active' = [active EXCEPT ![e] = @ \ {vmcs[v]}]
        /\ current' = [current EXCEPT ![e] = IF @ = vmcs[v] THEN None ELSE @]
        /\ UNCHANGED <<own, vmcs, cpu>>
    BY <1>9 DEF __vmx_get_cpu_helper, vmcs_clear, Step, VTypeOK, ThreadInv,
       ThreadOK, Outside, Loaded, UseInv
  <2>2. \A d \in Cpus : \A r \in active'[d] : r \in active[d] /\ ~(d = e /\ r = vmcs[v])
    BY <2>1 DEF VTypeOK
  <2>3. \A d \in Cpus : \A r \in active[d] : ~(d = e /\ r = vmcs[v]) =>
          \E u \in Threads : own'[u] # None /\ vmcs'[own'[u]] = r
                          /\ cpu'[own'[u]] = d /\ sw'[u] \notin {"flush", "load"}
    BY <2>1 DEF VTypeOK
  <2>4. CurrentInv!3'
    BY <2>2, <2>3
  <2>5. CurrentInv!1'
    BY <2>1 DEF VTypeOK, LocalInv, UseInv
  <2>6. CurrentInv!2'
    BY <2>1 DEF VTypeOK
  <2>. QED BY <2>4, <2>5, <2>6
<1>10. ASSUME NEW t \in Threads, SyncContext(t) PROVE CurrentInv'
  BY <1>10 DEF SyncContext, Flushed, Step, VTypeOK, ThreadInv, ThreadOK, Outside,
     Loaded, UseInv, LocalInv, LocalOK
<1>11. ASSUME NEW t \in Threads, LoadVmcs(t) PROVE CurrentInv'
  <2>. DEFINE v == own[t]  c == holds[t]
  <2>1. /\ v \in Vcpus /\ c \in Cpus /\ sw[t] = "load" /\ local[c] = v
        /\ cpu' = [cpu EXCEPT ![v] = c] /\ current' = [current EXCEPT ![c] = vmcs[v]]
        /\ active' = [active EXCEPT ![c] = @ \cup {vmcs[v]}]
        /\ sw' = [sw EXCEPT ![t] = "done"] /\ UNCHANGED <<own, vmcs, local>>
    BY <1>11 DEF LoadVmcs, vmcs_load, Step, ThreadInv, ThreadOK, Outside, Loaded,
       VTypeOK, LocalInv, LocalOK
  <2>2. \A d \in Cpus \ {c} : local[d] # v
    BY <2>1 DEF LocalInv, LocalOK
  <2>3. \A u \in Threads \ {t} : own[u] # v
    BY <2>1 DEF ThreadInv, ThreadOK
  <2>. HIDE DEF v, c
  <2>4. \A d \in Cpus : \A r \in active'[d] : r \in active[d] \/ (d = c /\ r = vmcs[v])
    BY <2>1 DEF VTypeOK
  <2>5. CurrentInv!3'
    <3>1. ASSUME NEW d \in Cpus, NEW r \in active[d]
          PROVE  \E u \in Threads : own'[u] # None /\ vmcs'[own'[u]] = r
                                    /\ cpu'[own'[u]] = d /\ sw'[u] \notin {"flush", "load"}
      <4>1. PICK u \in Threads : own[u] # None /\ vmcs[own[u]] = r /\ cpu[own[u]] = d
                                /\ sw[u] \notin {"flush", "load"}
        BY <3>1
      <4>2. u # t
        BY <2>1, <4>1
      <4>. QED BY <2>1, <2>3, <4>1, <4>2 DEF VTypeOK
    <3>2. own'[t] # None /\ vmcs'[own'[t]] = vmcs[v] /\ cpu'[own'[t]] = c /\ sw'[t] = "done"
      BY <2>1 DEF VTypeOK, v
    <3>. QED BY <2>4, <3>1, <3>2
  <2>6. CurrentInv!1'
    BY <2>1, <2>2 DEF VTypeOK
  <2>. QED BY <2>1, <2>5, <2>6 DEF VTypeOK
<1>12. ASSUME NEW t \in Threads, vmx_run_vcpu(t) PROVE CurrentInv'
  BY <1>12 DEF vmx_run_vcpu, Goto
<1>13. ASSUME NEW t \in Threads, EntryFails(t) PROVE CurrentInv'
  BY <1>13, <1>0, EntryIsLegal DEF EntryFails
<1>14. ASSUME NEW t \in Threads, GuestTouches(t) PROVE CurrentInv'
  BY <1>14 DEF GuestTouches, At, VTypeOK, ThreadInv, ThreadOK, Outside, Loaded,
     UseInv, LocalInv, LocalOK
<1>15. ASSUME NEW t \in Threads, vmx_destroy_ept(t) PROVE CurrentInv'
  BY <1>15 DEF vmx_destroy_ept, At, Killed, Flushed, CallGetCpu, VTypeOK, ThreadInv,
     ThreadOK, Outside, Loaded, UseInv, LocalInv, LocalOK
<1>16. ASSUME NEW t \in Threads, vmx_destroy_vcpu(t) PROVE CurrentInv'
  <2>. DEFINE v == own[t]  c == holds[t]
  <2>1. /\ v \in Vcpus /\ c \in Cpus /\ cpu[v] = c /\ sw[t] = "done"
        /\ own' = [own EXCEPT ![t] = None] /\ sw' = sw
        /\ cpu' = [cpu EXCEPT ![v] = None] /\ vmcs' = [vmcs EXCEPT ![v] = None]
        /\ current' = [current EXCEPT ![c] = IF @ = vmcs[v] THEN None ELSE @]
        /\ active' = [active EXCEPT ![c] = @ \ {vmcs[v]}]
        /\ local' = [local EXCEPT ![c] = None]
    BY <1>16 DEF vmx_destroy_vcpu, At, Flushed, vmcs_clear, FreeVcpu, PutCpu,
       Goto, ThreadInv, ThreadOK, Outside, Loaded, VTypeOK, LocalInv, LocalOK
  <2>2. \A d \in Cpus \ {c} : local[d] # v
    BY <2>1 DEF LocalInv, LocalOK
  <2>3. \A u \in Threads \ {t} : own[u] # v
    BY <2>1 DEF ThreadInv, ThreadOK
  <2>. HIDE DEF v, c
  <2>4. \A d \in Cpus : \A r \in active'[d] : r \in active[d] /\ ~(d = c /\ r = vmcs[v])
    BY <2>1 DEF VTypeOK
  <2>5. CurrentInv!3'
    <3>1. ASSUME NEW d \in Cpus, NEW r \in active[d], ~(d = c /\ r = vmcs[v])
          PROVE  \E u \in Threads : own'[u] # None /\ vmcs'[own'[u]] = r
                                    /\ cpu'[own'[u]] = d /\ sw'[u] \notin {"flush", "load"}
      <4>1. PICK u \in Threads : own[u] # None /\ vmcs[own[u]] = r /\ cpu[own[u]] = d
                                /\ sw[u] \notin {"flush", "load"}
        BY <3>1
      <4>2. u # t
        BY <2>1, <3>1, <4>1 DEF v
      <4>. QED BY <2>1, <2>3, <4>1, <4>2 DEF VTypeOK
    <3>. QED BY <2>4, <3>1
  <2>6. CurrentInv!1'
    BY <2>1, <2>2 DEF VTypeOK
  <2>7. CurrentInv!2'
    BY <2>1 DEF VTypeOK
  <2>. QED BY <2>5, <2>6, <2>7
<1>17. ASSUME NEW n \in Notifiers, NotifyClear(n) PROVE CurrentInv'
  BY <1>17 DEF NotifyClear, Killed, Flushed, VTypeOK, ThreadInv, ThreadOK, Outside,
     Loaded, UseInv, LocalInv, LocalOK
<1>18. ASSUME NEW n \in Notifiers, vmx_ept_sync_vcpu(n) PROVE CurrentInv'
  BY <1>18 DEF vmx_ept_sync_vcpu, VTypeOK, ThreadInv, ThreadOK, Outside, Loaded,
     UseInv, LocalInv, LocalOK
<1>19. ASSUME NEW n \in Notifiers, __vmx_sync_helper(n) PROVE CurrentInv'
  BY <1>19 DEF __vmx_sync_helper, IrqOn, Flushed, VTypeOK, ThreadInv, ThreadOK,
     Outside, Loaded, UseInv, LocalInv, LocalOK
<1>20. CASE UNCHANGED vars
  BY <1>20 DEF vars, kernel, machine
<1>. QED BY <1>1, <1>2, <1>3, <1>4, <1>5, <1>6, <1>7, <1>8, <1>9, <1>10,
         <1>11, <1>12, <1>13, <1>14, <1>15, <1>16, <1>17, <1>18, <1>19,
         <1>20, StepCases

\* Contents and launch states of VMCSs.
LEMMA FieldStep == ASSUME VcpuInv, [Next]_vars, fails' = 0 PROVE FieldInv'
<1>0. fails = 0 /\ LocalInv /\ CurrentInv /\ FieldInv /\ TlbInv
  BY FailsStep DEF VcpuInv, MachineInv
<1>. VTypeOK /\ ThreadInv /\ UseInv /\ FieldInv
  BY <1>0 DEF VcpuInv, VpidsExact
<1>. USE NamesAssumption DEF FieldInv, FieldOK, LaunchOK, Away, kernel, machine
<1>1. ASSUME NEW t \in Threads, Moves(t) PROVE FieldInv'
  BY <1>1 DEF Moves, VTypeOK, ThreadInv, ThreadOK, Outside, Loaded, UseInv
<1>2. ASSUME NEW t \in Threads, vmx_create_vcpu(t) PROVE FieldInv'
  BY <1>2 DEF vmx_create_vcpu, CallGetCpu, FreeVcpus, FreeRegions, FreeVpids,
     VTypeOK, ThreadInv, ThreadOK, Outside, Loaded, UseInv
<1>3. ASSUME NEW t \in Threads, vmx_setup_vmcs(t) PROVE FieldInv'
  <2>1. current[holds[t]] = vmcs[own[t]] /\ own[t] \in Vcpus /\ vmcs[own[t]] \in Regions
    BY <1>3, <1>0, OwnFacts DEF vmx_setup_vmcs, At, Loaded
  <2>2. \A u \in Threads \ {t} : own[u] # None => own[u] # own[t] /\ vmcs[own[u]] # vmcs[own[t]]
    BY <2>1 DEF ThreadInv, ThreadOK, UseInv, VTypeOK
  <2>3. /\ field' = [field EXCEPT ![vmcs[own[t]]].vpid = vpid[own[t]]]
        /\ pc' = [pc EXCEPT ![t] = "create_ept"] /\ sw' = sw
        /\ UNCHANGED <<own, kernel, resumable>>
    BY <1>3, <2>1 DEF vmx_setup_vmcs, Goto
  <2>. QED BY <2>1, <2>2, <2>3 DEF VTypeOK
<1>4. ASSUME NEW t \in Threads, CreateEptFails(t) PROVE FieldInv'
  BY <1>4 DEF CreateEptFails, At, FreeVcpu, Goto, VTypeOK, ThreadInv, ThreadOK,
     Outside, Loaded, UseInv
<1>5. ASSUME NEW t \in Threads, NEW c \in Cpus, GetCpuLoaded(t, c) PROVE FieldInv'
  BY <1>5 DEF GetCpuLoaded, Arrive, Preemptible, Step, VTypeOK, ThreadInv, ThreadOK,
     Outside, Loaded, UseInv
<1>6. ASSUME NEW t \in Threads, NEW c \in Cpus, GetCpuBack(t, c) PROVE FieldInv'
  BY <1>6 DEF GetCpuBack, Arrive, Preemptible, vmcs_load, Step, VTypeOK, ThreadInv,
     ThreadOK, Outside, Loaded, UseInv
<1>7. ASSUME NEW t \in Threads, NEW c \in Cpus, GetCpuFirst(t, c) PROVE FieldInv'
  BY <1>7 DEF GetCpuFirst, Arrive, Preemptible, vmcs_clear, Step, VTypeOK,
     ThreadInv, ThreadOK, Outside, Loaded, UseInv
<1>8. ASSUME NEW t \in Threads, NEW c \in Cpus, GetCpuMove(t, c) PROVE FieldInv'
  BY <1>8 DEF GetCpuMove, Arrive, Preemptible, Step, VTypeOK, ThreadInv, ThreadOK,
     Outside, Loaded, UseInv
<1>9. ASSUME NEW t \in Threads, __vmx_get_cpu_helper(t) PROVE FieldInv'
  <2>1. /\ own[t] \in Vcpus /\ vmcs[own[t]] \in Regions
        /\ sw[t] = "ipi" /\ sw' = [sw EXCEPT ![t] = "flush"]
        /\ resumable' = resumable \ {vmcs[own[t]]}
        /\ UNCHANGED <<pc, own, kernel, field>>
    BY <1>9 DEF __vmx_get_cpu_helper, IrqOn, vmcs_clear, Step, VTypeOK, ThreadInv,
       ThreadOK, Outside, Loaded, UseInv
  <2>2. \A u \in Threads \ {t} : own[u] # None => own[u] # own[t] /\ vmcs[own[u]] # vmcs[own[t]]
    BY <2>1 DEF ThreadInv, ThreadOK, UseInv, VTypeOK
  <2>. QED BY <2>1, <2>2 DEF VTypeOK
<1>10. ASSUME NEW t \in Threads, SyncContext(t) PROVE FieldInv'
  BY <1>10 DEF SyncContext, Flushed, Step, VTypeOK, ThreadInv, ThreadOK, Outside,
     Loaded, UseInv
<1>11. ASSUME NEW t \in Threads, LoadVmcs(t) PROVE FieldInv'
  BY <1>11 DEF LoadVmcs, vmcs_load, Step, VTypeOK, ThreadInv, ThreadOK, Outside,
     Loaded, UseInv
<1>12. ASSUME NEW t \in Threads, vmx_run_vcpu(t) PROVE FieldInv'
  <2>1. current[holds[t]] = vmcs[own[t]] /\ own[t] \in Vcpus /\ vmcs[own[t]] \in Regions
    BY <1>12, <1>0, OwnFacts DEF vmx_run_vcpu, At, Loaded
  <2>2. \A u \in Threads \ {t} : own[u] # None => own[u] # own[t] /\ vmcs[own[u]] # vmcs[own[t]]
    BY <2>1 DEF ThreadInv, ThreadOK, UseInv, VTypeOK
  <2>3. /\ resumable' = resumable \cup {vmcs[own[t]]}
        /\ launched' = [launched EXCEPT ![own[t]] = 1]
        /\ pc[t] = "check" /\ pc' = [pc EXCEPT ![t] = "guest"] /\ sw[t] = "done" /\ sw' = sw
        /\ UNCHANGED <<own, cpu, vpid, vmcs, field>>
    BY <1>12, <2>1 DEF vmx_run_vcpu, At, Goto
  <2>. QED BY <2>1, <2>2, <2>3 DEF VTypeOK
<1>13. ASSUME NEW t \in Threads, EntryFails(t) PROVE FieldInv'
  BY <1>13, <1>0, EntryIsLegal DEF EntryFails
<1>14. ASSUME NEW t \in Threads, GuestTouches(t) PROVE FieldInv'
  BY <1>14 DEF GuestTouches, At, VTypeOK, ThreadInv, ThreadOK, Outside, Loaded, UseInv
<1>15. ASSUME NEW t \in Threads, vmx_destroy_ept(t) PROVE FieldInv'
  BY <1>15 DEF vmx_destroy_ept, At, Killed, Flushed, CallGetCpu, VTypeOK, ThreadInv,
     ThreadOK, Outside, Loaded, UseInv
<1>16. ASSUME NEW t \in Threads, vmx_destroy_vcpu(t) PROVE FieldInv'
  BY <1>16 DEF vmx_destroy_vcpu, At, Flushed, vmcs_clear, FreeVcpu, PutCpu, Goto,
     VTypeOK, ThreadInv, ThreadOK, Outside, Loaded, UseInv
<1>17. ASSUME NEW n \in Notifiers, NotifyClear(n) PROVE FieldInv'
  BY <1>17 DEF NotifyClear, Killed, Flushed, VTypeOK, ThreadInv, ThreadOK, Outside,
     Loaded, UseInv
<1>18. ASSUME NEW n \in Notifiers, vmx_ept_sync_vcpu(n) PROVE FieldInv'
  BY <1>18 DEF vmx_ept_sync_vcpu, VTypeOK, ThreadInv, ThreadOK, Outside, Loaded, UseInv
<1>19. ASSUME NEW n \in Notifiers, __vmx_sync_helper(n) PROVE FieldInv'
  BY <1>19 DEF __vmx_sync_helper, IrqOn, Flushed, VTypeOK, ThreadInv, ThreadOK,
     Outside, Loaded, UseInv
<1>20. CASE UNCHANGED vars
  BY <1>20 DEF vars, kernel, machine
<1>. QED BY <1>1, <1>2, <1>3, <1>4, <1>5, <1>6, <1>7, <1>8, <1>9, <1>10,
         <1>11, <1>12, <1>13, <1>14, <1>15, <1>16, <1>17, <1>18, <1>19,
         <1>20, StepCases

\* Different VCPUs, one of them in use, have different VPIDs.
LEMMA VpidsDiffer ==
    ASSUME VcpuInv, NEW v \in Vcpus, NEW w \in Vcpus, v # w, vmcs[w] # None
    PROVE  vpid[v] # vpid[w]
BY DEF VcpuInv, VpidsExact, UseInv

\* The VCPUs of two threads, and their VPIDs, are different.
LEMMA OthersDiffer ==
    ASSUME VcpuInv, NEW t \in Threads, NEW u \in Threads, t # u, own[t] # None, own[u] # None
    PROVE  own[t] # own[u] /\ vpid[own[t]] # vpid[own[u]]
<1>1. own[t] \in Vcpus /\ own[u] \in Vcpus
  BY DEF VcpuInv, VpidsExact, VTypeOK
<1>2. own[t] # own[u] /\ vmcs[own[u]] # None
  BY <1>1 DEF VcpuInv, ThreadInv, ThreadOK, UseInv
<1>. QED BY <1>1, <1>2, VpidsDiffer

\* u keeps its VCPU, makes no progress in a move, and gets no new dead entry;
\* its notifiers are not finished.
Unmoved(u) ==
    /\ own'[u] = own[u] /\ vpid'[own[u]] = vpid[own[u]] /\ cpu'[own[u]] = cpu[own[u]]
    /\ sw'[u] = "load" => sw[u] = "load" /\ holds'[u] = holds[u]
    /\ sw[u] \in {"flush", "load"} => sw'[u] \in {"flush", "load"}
    /\ pc[u] = "teardown" => pc'[u] = "teardown"

\* Then what the TLBs hold of its VCPU stays right.
LEMMA TlbKept ==
    ASSUME NEW u \in Threads, own[u] # None => TlbOK(u), own'[u] # None, Unmoved(u),
           sw[u] = "load" => \A x \in {"live", "dead"} :
                <<vpid[own[u]], x>> \in tlb'[holds[u]] =>
                    \E y \in {"live", "dead"} : <<vpid[own[u]], y>> \in tlb[holds[u]],
           cpu[own[u]] # None /\ <<vpid[own[u]], "dead">> \in tlb'[cpu[own[u]]] =>
                \/ Pending(own[u], cpu[own[u]])'
                \/ /\ <<vpid[own[u]], "dead">> \in tlb[cpu[own[u]]]
                   /\ Pending(own[u], cpu[own[u]]) => Pending(own[u], cpu[own[u]])'
    PROVE  TlbOK(u)'
<1>1. own[u] # None
  BY DEF Unmoved
<1>2. ASSUME sw'[u] = "load", NEW x \in {"live", "dead"}
      PROVE  <<vpid'[own'[u]], x>> \notin tlb'[holds'[u]]
  BY <1>1, <1>2 DEF Unmoved, TlbOK
<1>3. ASSUME cpu'[own'[u]] # None, ~Away(u)', <<vpid'[own'[u]], "dead">> \in tlb'[cpu'[own'[u]]]
      PROVE  pc'[u] = "teardown" \/ Pending(own[u], cpu[own[u]])'
  BY <1>1, <1>3 DEF Unmoved, TlbOK, Away
<1>. QED BY <1>2, <1>3 DEF TlbOK

\* In particular when neither the TLBs nor the notifiers change.
LEMMA TlbQuiet ==
    ASSUME NEW u \in Threads, own[u] # None => TlbOK(u), own'[u] # None, Unmoved(u),
           tlb' = tlb, notif' = notif
    PROVE  TlbOK(u)'
<1>1. Pending(own[u], cpu[own[u]]) => Pending(own[u], cpu[own[u]])'
  BY DEF Unmoved, Pending
<1>. QED BY <1>1, TlbKept

\* TLB entries.
LEMMA TlbStep == ASSUME VcpuInv, [Next]_vars, fails' = 0 PROVE TlbInv'
<1>0. fails = 0 /\ LocalInv /\ CurrentInv /\ FieldInv /\ TlbInv
  BY FailsStep DEF VcpuInv, MachineInv
<1>. VTypeOK /\ ThreadInv /\ UseInv /\ LocalInv /\ TlbInv
  BY <1>0 DEF VcpuInv, VpidsExact
<1>. VpidsExact
  BY DEF VcpuInv
<1>. USE NamesAssumption DEF kernel, machine
<1>1. ASSUME NEW t \in Threads, Moves(t) PROVE TlbInv'
  <2>. SUFFICES ASSUME NEW u \in Threads, own'[u] # None PROVE TlbOK(u)'
    BY DEF TlbInv
  <2>1. tlb' = tlb /\ notif' = notif
    BY <1>1 DEF Moves
  <2>2. Unmoved(u)
    BY <1>1 DEF Moves, Unmoved, VTypeOK, ThreadInv, ThreadOK, Outside, Loaded
  <2>. QED BY <2>1, <2>2, TlbQuiet DEF TlbInv
<1>2. ASSUME NEW t \in Threads, vmx_create_vcpu(t) PROVE TlbInv'
  <2>. SUFFICES ASSUME NEW u \in Threads, own'[u] # None PROVE TlbOK(u)'
    BY DEF TlbInv
  <2>1. PICK v \in FreeVcpus :
          /\ tlb' = tlb /\ notif' = notif /\ own' = [own EXCEPT ![t] = v]
          /\ cpu' = [cpu EXCEPT ![v] = None] /\ \E p : vpid' = [vpid EXCEPT ![v] = p]
          /\ sw' = [sw EXCEPT ![t] = "get"] /\ pc' = [pc EXCEPT ![t] = "setup"] /\ holds' = holds
    BY <1>2 DEF vmx_create_vcpu, CallGetCpu
  <2>2. CASE u = t
    BY <2>1, <2>2 DEF TlbOK, Away, FreeVcpus, VTypeOK
  <2>3. CASE u # t
    <3>1. own[u] # None /\ own[u] # v
      BY <2>1, <2>3 DEF FreeVcpus, UseInv, VTypeOK
    <3>2. Unmoved(u)
      BY <2>1, <2>3, <3>1 DEF Unmoved, VTypeOK
    <3>. QED BY <2>1, <3>2, TlbQuiet DEF TlbInv
  <2>. QED BY <2>2, <2>3
<1>3. ASSUME NEW t \in Threads, vmx_setup_vmcs(t) PROVE TlbInv'
  <2>. SUFFICES ASSUME NEW u \in Threads, own'[u] # None PROVE TlbOK(u)'
    BY DEF TlbInv
  <2>1. tlb' = tlb /\ notif' = notif
    BY <1>3 DEF vmx_setup_vmcs, At, PutCpu, Goto
  <2>2. Unmoved(u)
    BY <1>3 DEF vmx_setup_vmcs, At, PutCpu, Goto, Unmoved, VTypeOK, ThreadInv,
       ThreadOK, Outside, Loaded
  <2>. QED BY <2>1, <2>2, TlbQuiet DEF TlbInv
<1>4. ASSUME NEW t \in Threads, CreateEptFails(t) PROVE TlbInv'
  BY <1>4, <1>0 DEF CreateEptFails
<1>5. ASSUME NEW t \in Threads, NEW c \in Cpus, GetCpuLoaded(t, c) PROVE TlbInv'
  <2>. SUFFICES ASSUME NEW u \in Threads, own'[u] # None PROVE TlbOK(u)'
    BY DEF TlbInv
  <2>1. tlb' = tlb /\ notif' = notif
    BY <1>5 DEF GetCpuLoaded, Arrive, Preemptible, Step
  <2>2. Unmoved(u)
    BY <1>5 DEF GetCpuLoaded, Arrive, Preemptible, Step, Unmoved, VTypeOK,
       ThreadInv, ThreadOK, Outside, Loaded
  <2>. QED BY <2>1, <2>2, TlbQuiet DEF TlbInv
<1>6. ASSUME NEW t \in Threads, NEW c \in Cpus, GetCpuBack(t, c) PROVE TlbInv'
  <2>. SUFFICES ASSUME NEW u \in Threads, own'[u] # None PROVE TlbOK(u)'
    BY DEF TlbInv
  <2>1. tlb' = tlb /\ notif' = notif
    BY <1>6 DEF GetCpuBack, Arrive, Preemptible, vmcs_load, Step
  <2>2. Unmoved(u)
    BY <1>6 DEF GetCpuBack, Arrive, Preemptible, vmcs_load, Step, Unmoved,
       VTypeOK, ThreadInv, ThreadOK, Outside, Loaded
  <2>. QED BY <2>1, <2>2, TlbQuiet DEF TlbInv
<1>7. ASSUME NEW t \in Threads, NEW c \in Cpus, GetCpuFirst(t, c) PROVE TlbInv'
  <2>. SUFFICES ASSUME NEW u \in Threads, own'[u] # None PROVE TlbOK(u)'
    BY DEF TlbInv
  <2>1. tlb' = tlb /\ notif' = notif
    BY <1>7 DEF GetCpuFirst, Arrive, Preemptible, vmcs_clear, Step
  <2>2. Unmoved(u)
    BY <1>7 DEF GetCpuFirst, Arrive, Preemptible, vmcs_clear, Step, Unmoved,
       VTypeOK, ThreadInv, ThreadOK, Outside, Loaded
  <2>. QED BY <2>1, <2>2, TlbQuiet DEF TlbInv
<1>8. ASSUME NEW t \in Threads, NEW c \in Cpus, GetCpuMove(t, c) PROVE TlbInv'
  <2>. SUFFICES ASSUME NEW u \in Threads, own'[u] # None PROVE TlbOK(u)'
    BY DEF TlbInv
  <2>1. tlb' = tlb /\ notif' = notif
    BY <1>8 DEF GetCpuMove, Arrive, Preemptible, Step
  <2>2. Unmoved(u)
    BY <1>8 DEF GetCpuMove, Arrive, Preemptible, Step, Unmoved, VTypeOK,
       ThreadInv, ThreadOK, Outside, Loaded
  <2>. QED BY <2>1, <2>2, TlbQuiet DEF TlbInv
<1>9. ASSUME NEW t \in Threads, __vmx_get_cpu_helper(t) PROVE TlbInv'
  <2>. SUFFICES ASSUME NEW u \in Threads, own'[u] # None PROVE TlbOK(u)'
    BY DEF TlbInv
  <2>1. tlb' = tlb /\ notif' = notif
    BY <1>9 DEF __vmx_get_cpu_helper, IrqOn, vmcs_clear, Step
  <2>2. Unmoved(u)
    BY <1>9 DEF __vmx_get_cpu_helper, IrqOn, vmcs_clear, Step, Unmoved, VTypeOK,
       ThreadInv, ThreadOK, Outside, Loaded
  <2>. QED BY <2>1, <2>2, TlbQuiet DEF TlbInv
<1>10. ASSUME NEW t \in Threads, SyncContext(t) PROVE TlbInv'
  <2>. SUFFICES ASSUME NEW u \in Threads, own'[u] # None PROVE TlbOK(u)'
    BY DEF TlbInv
  <2>1. /\ tlb' = [tlb EXCEPT ![holds[t]] = Flushed(holds[t], own[t])] /\ notif' = notif
        /\ holds[t] \in Cpus /\ UNCHANGED <<own, vpid, holds>> /\ sw'[t] = "load"
    BY <1>10 DEF SyncContext, Flushed, Step, VTypeOK, ThreadInv, ThreadOK
  <2>2. CASE u = t
    BY <2>1, <2>2 DEF TlbOK, Away, Flushed, VTypeOK
  <2>3. CASE u # t
    <3>1. Unmoved(u) /\ own[u] \in Vcpus
      BY <1>10, <2>3, OthersDiffer DEF SyncContext, Flushed, Step, Unmoved,
         VTypeOK, ThreadInv, ThreadOK, Outside, Loaded
    <3>2. \A d \in Cpus : \A x \in {"live", "dead"} :
            <<vpid[own[u]], x>> \in tlb'[d] => <<vpid[own[u]], x>> \in tlb[d]
      BY <2>1 DEF Flushed, VTypeOK
    <3>3. sw[u] = "load" => holds[u] \in Cpus
      BY DEF ThreadInv, ThreadOK, VTypeOK
    <3>4. cpu[own[u]] # None => cpu[own[u]] \in Cpus
      BY <3>1 DEF VTypeOK
    <3>5. own[u] # None => TlbOK(u)
      BY DEF TlbInv
    <3>6. Pending(own[u], cpu[own[u]]) => Pending(own[u], cpu[own[u]])'
      BY <2>1, <3>1 DEF Unmoved, Pending
    <3>. QED BY <3>1, <3>2, <3>3, <3>4, <3>5, <3>6, TlbKept
  <2>. QED BY <2>2, <2>3
<1>11. ASSUME NEW t \in Threads, LoadVmcs(t) PROVE TlbInv'
  <2>. SUFFICES ASSUME NEW u \in Threads, own'[u] # None PROVE TlbOK(u)'
    BY DEF TlbInv
  <2>1. /\ tlb' = tlb /\ notif' = notif /\ sw[t] = "load" /\ sw'[t] = "done"
        /\ own' = own /\ vpid' = vpid /\ cpu' = [cpu EXCEPT ![own[t]] = holds[t]]
    BY <1>11 DEF LoadVmcs, vmcs_load, Step, VTypeOK
  <2>2. CASE u = t
    BY <2>1, <2>2 DEF TlbInv, TlbOK, VTypeOK
  <2>3. CASE u # t
    <3>1. Unmoved(u)
      BY <1>11, <2>3, OthersDiffer DEF LoadVmcs, vmcs_load, Step, Unmoved,
         VTypeOK, ThreadInv, ThreadOK, Outside, Loaded
    <3>. QED BY <2>1, <3>1, TlbQuiet DEF TlbInv
  <2>. QED BY <2>2, <2>3
<1>12. ASSUME NEW t \in Threads, vmx_run_vcpu(t) PROVE TlbInv'
  <2>. SUFFICES ASSUME NEW u \in Threads, own'[u] # None PROVE TlbOK(u)'
    BY DEF TlbInv
  <2>1. /\ own[t] \in Vcpus /\ holds[t] \in Cpus
        /\ field[current[holds[t]]].vpid = vpid[own[t]] /\ sw[t] = "done"
    BY <1>12, <1>0, OwnFacts DEF vmx_run_vcpu, At, EntryLegal, Goto, At, Loaded
  <2>2. /\ tlb' = [tlb EXCEPT ![holds[t]] = @ \cup {<<vpid[own[t]], "live">>}]
        /\ notif' = notif
    BY <1>12, <2>1 DEF vmx_run_vcpu, At, EntryLegal, Goto
  <2>3. Unmoved(u) /\ own[u] # None /\ own[u] \in Vcpus
    BY <1>12 DEF vmx_run_vcpu, At, EntryLegal, Goto, Unmoved, VTypeOK, ThreadInv,
       ThreadOK, Outside, Loaded
  <2>4. u # t => vpid[own[u]] # vpid[own[t]]
    BY <2>1, <2>3, OthersDiffer
  <2>5. \A d \in Cpus : \A x \in {"live", "dead"} :
          <<vpid[own[u]], x>> \in tlb'[d] => <<vpid[own[u]], x>> \in tlb[d] \/ (u = t /\ x = "live")
    BY <2>2, <2>4 DEF VTypeOK
  <2>6. sw[u] = "load" => holds[u] \in Cpus /\ u # t
    BY <2>1 DEF ThreadInv, ThreadOK, VTypeOK
  <2>7. cpu[own[u]] # None => cpu[own[u]] \in Cpus
    BY <2>3 DEF VTypeOK
  <2>8. TlbOK(u)
    BY <2>3 DEF TlbInv
  <2>9. Pending(own[u], cpu[own[u]]) => Pending(own[u], cpu[own[u]])'
    BY <2>2, <2>3 DEF Unmoved, Pending
  <2>. QED BY <2>3, <2>5, <2>6, <2>7, <2>8, <2>9, TlbKept
<1>13. ASSUME NEW t \in Threads, EntryFails(t) PROVE TlbInv'
  BY <1>13, <1>0, EntryIsLegal DEF EntryFails
<1>14. ASSUME NEW t \in Threads, GuestTouches(t) PROVE TlbInv'
  <2>. SUFFICES ASSUME NEW u \in Threads, own'[u] # None PROVE TlbOK(u)'
    BY DEF TlbInv
  <2>1. /\ own[t] \in Vcpus /\ holds[t] \in Cpus
        /\ field[current[holds[t]]].vpid = vpid[own[t]] /\ sw[t] = "done"
    BY <1>14, <1>0, OwnFacts DEF GuestTouches, At, At, Loaded
  <2>2. /\ tlb' = [tlb EXCEPT ![holds[t]] = @ \cup {<<vpid[own[t]], "live">>}]
        /\ notif' = notif
    BY <1>14, <2>1 DEF GuestTouches, At
  <2>3. Unmoved(u) /\ own[u] # None /\ own[u] \in Vcpus
    BY <1>14 DEF GuestTouches, At, Unmoved, VTypeOK, ThreadInv, ThreadOK, Outside,
       Loaded
  <2>4. u # t => vpid[own[u]] # vpid[own[t]]
    BY <2>1, <2>3, OthersDiffer
  <2>5. \A d \in Cpus : \A x \in {"live", "dead"} :
          <<vpid[own[u]], x>> \in tlb'[d] => <<vpid[own[u]], x>> \in tlb[d] \/ (u = t /\ x = "live")
    BY <2>2, <2>4 DEF VTypeOK
  <2>6. sw[u] = "load" => holds[u] \in Cpus /\ u # t
    BY <2>1 DEF ThreadInv, ThreadOK, VTypeOK
  <2>7. cpu[own[u]] # None => cpu[own[u]] \in Cpus
    BY <2>3 DEF VTypeOK
  <2>8. TlbOK(u)
    BY <2>3 DEF TlbInv
  <2>9. Pending(own[u], cpu[own[u]]) => Pending(own[u], cpu[own[u]])'
    BY <2>2, <2>3 DEF Unmoved, Pending
  <2>. QED BY <2>3, <2>5, <2>6, <2>7, <2>8, <2>9, TlbKept
<1>15. ASSUME NEW t \in Threads, vmx_destroy_ept(t) PROVE TlbInv'
  <2>. SUFFICES ASSUME NEW u \in Threads, own'[u] # None PROVE TlbOK(u)'
    BY DEF TlbInv
  <2>1. /\ tlb' = Killed(own[t]) /\ notif' = notif /\ own[t] \in Vcpus /\ own[t] # None
        /\ sw'[t] = "get" /\ pc'[t] = "teardown"
    BY <1>15 DEF vmx_destroy_ept, At, CallGetCpu, VTypeOK, ThreadInv, ThreadOK, Outside
  <2>2. CASE u = t
    BY <2>1, <2>2 DEF TlbOK, Away
  <2>3. CASE u # t
    <3>1. Unmoved(u) /\ own[u] \in Vcpus
      BY <1>15, <2>3, OthersDiffer DEF vmx_destroy_ept, At, CallGetCpu, Unmoved,
         VTypeOK, ThreadInv, ThreadOK, Outside, Loaded
    <3>2. \A d \in Cpus : \A x \in {"live", "dead"} :
            <<vpid[own[u]], x>> \in tlb'[d] => <<vpid[own[u]], x>> \in tlb[d]
      BY <2>1, <2>3, <3>1, OthersDiffer DEF Unmoved, Killed, Flushed
    <3>3. sw[u] = "load" => holds[u] \in Cpus
      BY DEF ThreadInv, ThreadOK, VTypeOK
    <3>4. cpu[own[u]] # None => cpu[own[u]] \in Cpus
      BY <3>1 DEF VTypeOK
    <3>5. own[u] # None => TlbOK(u)
      BY DEF TlbInv
    <3>6. Pending(own[u], cpu[own[u]]) => Pending(own[u], cpu[own[u]])'
      BY <2>1, <3>1 DEF Unmoved, Pending
    <3>. QED BY <3>1, <3>2, <3>3, <3>4, <3>5, <3>6, TlbKept
  <2>. QED BY <2>2, <2>3
<1>16. ASSUME NEW t \in Threads, vmx_destroy_vcpu(t) PROVE TlbInv'
  <2>. SUFFICES ASSUME NEW u \in Threads, own'[u] # None PROVE TlbOK(u)'
    BY DEF TlbInv
  <2>1. /\ tlb' = [tlb EXCEPT ![holds[t]] = Flushed(holds[t], own[t])] /\ notif' = notif
        /\ own'[t] = None /\ own[t] # None
    BY <1>16 DEF vmx_destroy_vcpu, At, Flushed, vmcs_clear, FreeVcpu, PutCpu,
       Goto, VTypeOK, ThreadInv, ThreadOK, Outside
  <2>3. u # t
    BY <2>1
  <2>. QED
    <3>1. Unmoved(u) /\ own[u] \in Vcpus
      BY <1>16, <2>3, OthersDiffer DEF vmx_destroy_vcpu, At, Flushed,
         vmcs_clear, FreeVcpu, PutCpu, Goto, Unmoved, VTypeOK, ThreadInv,
         ThreadOK, Outside, Loaded
    <3>2. \A d \in Cpus : \A x \in {"live", "dead"} :
            <<vpid[own[u]], x>> \in tlb'[d] => <<vpid[own[u]], x>> \in tlb[d]
      BY <2>1 DEF Flushed, VTypeOK
    <3>3. sw[u] = "load" => holds[u] \in Cpus
      BY DEF ThreadInv, ThreadOK, VTypeOK
    <3>4. cpu[own[u]] # None => cpu[own[u]] \in Cpus
      BY <3>1 DEF VTypeOK
    <3>5. own[u] # None => TlbOK(u)
      BY DEF TlbInv
    <3>6. Pending(own[u], cpu[own[u]]) => Pending(own[u], cpu[own[u]])'
      BY <2>1, <3>1 DEF Unmoved, Pending
    <3>. QED BY <3>1, <3>2, <3>3, <3>4, <3>5, <3>6, TlbKept
<1>17. ASSUME NEW n \in Notifiers, NotifyClear(n) PROVE TlbInv'
  <2>. SUFFICES ASSUME NEW u \in Threads, own'[u] # None PROVE TlbOK(u)'
    BY DEF TlbInv
  <2>1. PICK v \in watched :
          /\ notif' = [notif EXCEPT ![n] = [at |-> "cleared", vcpu |-> v, target |-> None]]
          /\ tlb' = Killed(v)
    BY <1>17 DEF NotifyClear
  <2>2. v \in Vcpus /\ notif[n].at = "idle" /\ UNCHANGED <<pc, sw, own, holds, cpu, vpid>>
    BY <1>17 DEF NotifyClear, VTypeOK
  <2>3. Unmoved(u) /\ own[u] \in Vcpus /\ own[u] # None /\ TlbOK(u) /\ vmcs[own[u]] # None
    BY <2>2 DEF Unmoved, VTypeOK, TlbInv, UseInv
  <2>4. \A d \in Cpus : \A x \in {"live", "dead"} : <<vpid[own[u]], x>> \in tlb'[d] =>
          \/ <<vpid[own[u]], x>> \in tlb[d]
          \/ v = own[u] /\ <<vpid[own[u]], "live">> \in tlb[d]
    BY <2>1, <2>2, <2>3, VpidsDiffer DEF Killed, Flushed
  <2>5. v = own[u] => Pending(own[u], cpu[own[u]])'
    BY <2>1, <2>2 DEF Pending, VTypeOK
  <2>6. Pending(own[u], cpu[own[u]]) => Pending(own[u], cpu[own[u]])'
    <3>. SUFFICES ASSUME NEW m \in Notifiers, notif[m].vcpu = own[u],
                         \/ notif[m].at = "cleared"
                         \/ notif[m].at = "send" /\ notif[m].target = cpu[own[u]]
                  PROVE  Pending(own[u], cpu[own[u]])'
      BY DEF Pending
    <3>1. notif'[m] = notif[m]
      BY <2>1, <2>2
    <3>. QED BY <2>2, <3>1 DEF Pending
  <2>7. sw[u] = "load" => holds[u] \in Cpus
    BY DEF ThreadInv, ThreadOK, VTypeOK
  <2>8. cpu[own[u]] # None => cpu[own[u]] \in Cpus
    BY <2>3 DEF VTypeOK
  <2>. QED BY <2>3, <2>4, <2>5, <2>6, <2>7, <2>8, TlbKept
<1>18. ASSUME NEW n \in Notifiers, vmx_ept_sync_vcpu(n) PROVE TlbInv'
  <2>. SUFFICES ASSUME NEW u \in Threads, own'[u] # None PROVE TlbOK(u)'
    BY DEF TlbInv
  <2>1. /\ notif[n].at = "cleared" /\ UNCHANGED <<pc, sw, own, holds, cpu, vpid, tlb>>
        /\ notif' = [notif EXCEPT ![n].at = "send", ![n].target = cpu[notif[n].vcpu]]
    BY <1>18 DEF vmx_ept_sync_vcpu
  <2>2. Unmoved(u)
    BY <2>1 DEF Unmoved
  <2>3. Pending(own[u], cpu[own[u]]) => Pending(own[u], cpu[own[u]])'
    <3>. SUFFICES ASSUME NEW m \in Notifiers, notif[m].vcpu = own[u],
                         \/ notif[m].at = "cleared"
                         \/ notif[m].at = "send" /\ notif[m].target = cpu[own[u]]
                  PROVE  Pending(own[u], cpu[own[u]])'
      BY DEF Pending
    <3>1. /\ notif'[m].vcpu = own[u]
          /\ notif'[m].at = "cleared" \/ (notif'[m].at = "send" /\ notif'[m].target = cpu[own[u]])
      <4>1. m # n => /\ notif'[m].vcpu = notif[m].vcpu /\ notif'[m].at = notif[m].at
                     /\ notif'[m].target = notif[m].target
        BY <2>1 DEF VTypeOK
      <4>2. /\ notif'[n].vcpu = notif[n].vcpu /\ notif'[n].at = "send"
            /\ notif'[n].target = cpu[notif[n].vcpu]
        BY <2>1 DEF VTypeOK
      <4>3. CASE m = n
        BY <4>2, <4>3
      <4>4. CASE m # n
        BY <4>1, <4>4
      <4>. QED BY <4>3, <4>4
    <3>. QED BY <2>1, <3>1 DEF Pending
  <2>. QED BY <2>1, <2>2, <2>3, TlbKept DEF TlbInv
<1>19. ASSUME NEW n \in Notifiers, __vmx_sync_helper(n) PROVE TlbInv'
  <2>. SUFFICES ASSUME NEW u \in Threads, own'[u] # None PROVE TlbOK(u)'
    BY DEF TlbInv
  <2>1. /\ notif[n].at = "send" /\ UNCHANGED <<pc, sw, own, holds, cpu, vpid>>
        /\ tlb' = [tlb EXCEPT ![notif[n].target] = Flushed(notif[n].target, notif[n].vcpu)]
        /\ notif' = [notif EXCEPT ![n] = [at |-> "idle", vcpu |-> None, target |-> None]]
    BY <1>19 DEF __vmx_sync_helper
  <2>. QED
    <3>1. Unmoved(u) /\ own[u] \in Vcpus
      BY <2>1 DEF Unmoved, VTypeOK
    <3>2. \A d \in Cpus : \A x \in {"live", "dead"} :
            <<vpid[own[u]], x>> \in tlb'[d] => <<vpid[own[u]], x>> \in tlb[d]
      BY <2>1 DEF Flushed, VTypeOK
    <3>3. sw[u] = "load" => holds[u] \in Cpus
      BY DEF ThreadInv, ThreadOK, VTypeOK
    <3>4. cpu[own[u]] # None => cpu[own[u]] \in Cpus
      BY <3>1 DEF VTypeOK
    <3>5. own[u] # None => TlbOK(u)
      BY DEF TlbInv
    <3>6. ASSUME cpu[own[u]] # None, <<vpid[own[u]], "dead">> \in tlb'[cpu[own[u]]],
                 Pending(own[u], cpu[own[u]])
          PROVE  Pending(own[u], cpu[own[u]])'
      <4>1. PICK m \in Notifiers : /\ notif[m].vcpu = own[u]
                                  /\ \/ notif[m].at = "cleared"
                                     \/ notif[m].at = "send" /\ notif[m].target = cpu[own[u]]
        BY <3>6 DEF Pending
      <4>2. m # n
        BY <2>1, <3>4, <3>6, <4>1 DEF Flushed, VTypeOK
      <4>. QED BY <2>1, <4>1, <4>2 DEF Pending, VTypeOK
    <3>. QED BY <3>1, <3>2, <3>3, <3>4, <3>5, <3>6, TlbKept
<1>20. CASE UNCHANGED vars
  BY <1>20 DEF vars, kernel, machine, TlbInv, TlbOK, Away, Pending
<1>. QED BY <1>1, <1>2, <1>3, <1>4, <1>5, <1>6, <1>7, <1>8, <1>9, <1>10,
         <1>11, <1>12, <1>13, <1>14, <1>15, <1>16, <1>17, <1>18, <1>19,
         <1>20, StepCases

-----------------------------------------------------------------------------
(***************************************************************************)
(* The theorems.                                                           *)
(***************************************************************************)

\* No thread is in DUNE_ENTER at first, and no VMCS is loaded.
LEMMA InitInv == ASSUME Init PROVE VcpuInv
<1>. USE NamesAssumption, NumbersAssumption DEF Init
<1>1. VTypeOK
  BY DEF VTypeOK, Labels, Loaded, Blank
<1>2. VpidsExact
  BY <1>1 DEF VpidsExact
<1>3. ThreadInv
  BY DEF ThreadInv, ThreadOK, Outside, Loaded
<1>4. UseInv
  BY DEF UseInv
<1>5. LocalInv /\ CurrentInv /\ FieldInv /\ TlbInv
  BY DEF LocalInv, CurrentInv, FieldInv, TlbInv
<1>. QED BY <1>2, <1>3, <1>4, <1>5 DEF VcpuInv, MachineInv

\* Threads, VCPUs, VMCSs and TLBs fit together in every reachable state, as far
\* as vmx_create_ept has not failed; the software's part always does.
THEOREM VcpuInvariance == Spec => []VcpuInv
<1>1. ASSUME VcpuInv, [Next]_vars PROVE VcpuInv'
  <2>1. MachineInv'
    BY <1>1, LocalStep, CurrentStep, FieldStep, TlbStep DEF MachineInv
  <2>. QED BY <1>1, <2>1, VpidStep, ThreadStep, UseStep DEF VcpuInv
<1>. QED BY <1>1, InitInv, PTL DEF Spec

\* vmx_vpid_bitmap and the VCPUs' VPIDs always agree: none is leaked and none
\* given twice.
THEOREM VpidsStayExact == Spec => []VpidsExact
<1>1. VcpuInv => VpidsExact
  BY DEF VcpuInv
<1>. QED BY <1>1, VcpuInvariance, PTL

\* Whoever holds a CPU between vmx_get_cpu and vmx_put_cpu reads and writes the
\* VMCS of its own VCPU.
THEOREM OwnVmcsLoaded == Spec => []OwnVmcs
<1>1. VcpuInv => OwnVmcs
  BY OwnFacts DEF OwnVmcs, At
<1>. QED BY <1>1, VcpuInvariance, PTL

\* vmx_run_vcpu never uses VMLAUNCH for a launched VMCS or VMRESUME for a clear
\* one.
THEOREM EntriesAreLegal == Spec => []LaunchStateKnown
<1>1. VcpuInv => LaunchStateKnown
  BY EntryIsLegal DEF LaunchStateKnown
<1>. QED BY <1>1, VcpuInvariance, PTL

\* A VMCS is active on at most one CPU, and a freed one on none.
THEOREM ActiveOnOneCpu == Spec => []ActiveOnce
<1>1. ASSUME VcpuInv, fails = 0, NEW r \in Regions
      PROVE  LET on == {c \in Cpus : r \in active[c] \/ current[c] = r} IN
             /\ Cardinality(on) <= 1
             /\ r \in FreeRegions => on = {}
  <2>. DEFINE on == {c \in Cpus : r \in active[c] \/ current[c] = r}
  <2>1. CurrentInv /\ VTypeOK /\ UseInv /\ ThreadInv
    BY <1>1 DEF VcpuInv, VpidsExact, MachineInv
  <2>2. \A c \in on : \E t \in Threads : own[t] # None /\ vmcs[own[t]] = r /\ cpu[own[t]] = c
    BY <2>1, NamesAssumption DEF CurrentInv
  <2>3. r \in FreeRegions => on = {}
    BY <2>1, <2>2 DEF FreeRegions, VTypeOK
  <2>4. \A c, d \in on : c = d
    BY <2>1, <2>2, NamesAssumption DEF VTypeOK, UseInv
  <2>. HIDE DEF on
  <2>5. Cardinality(on) <= 1
    <3>1. CASE on = {}
      BY <3>1, FS_EmptySet
    <3>2. CASE on # {}
      <4>1. PICK c \in on : TRUE
        BY <3>2
      <4>2. on = {c}
        BY <2>4, <4>1
      <4>. QED BY <4>2, FS_Singleton
    <3>. QED BY <3>1, <3>2
  <2>. QED BY <2>3, <2>5 DEF on
<1>2. VcpuInv => ActiveOnce
  BY <1>1 DEF ActiveOnce
<1>. QED BY <1>2, VcpuInvariance, PTL

\* No guest runs with a TLB entry whose EPT entry is gone, once the notifiers
\* of its VCPU have returned.
THEOREM NoStaleEntries == Spec => []NoStaleTlb
<1>1. ASSUME VcpuInv, fails = 0, NEW t \in Threads, At(t, "guest"),
             \A n \in Notifiers : notif[n].vcpu # own[t]
      PROVE  <<vpid[own[t]], "dead">> \notin tlb[holds[t]]
  <2>1. cpu[own[t]] = holds[t] /\ holds[t] \in Cpus /\ own[t] \in Vcpus
    BY <1>1, OwnFacts DEF At, Loaded
  <2>2. TlbOK(t)
    BY <1>1, <2>1, NamesAssumption DEF VcpuInv, MachineInv, TlbInv
  <2>. QED BY <1>1, <2>1, <2>2, NamesAssumption DEF TlbOK, Away, At, Pending
<1>2. VcpuInv => NoStaleTlb
  BY <1>1 DEF NoStaleTlb
<1>. QED BY <1>2, VcpuInvariance, PTL
=============================================================================
