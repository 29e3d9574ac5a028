-------------------------------- MODULE Wedge --------------------------------
(***************************************************************************)
(* Wedge's sthreads, apps/wedge/sthread.c: creation, recycling, the switch *)
(* at a read, exit and join.                                               *)
(*                                                                         *)
(* There is one processor.  An sthread runs inside a call of               *)
(* dune_jump_to_user, and dune_ret_from_user returns from the last such    *)
(* call; frames lists who made them, the last one first.  Sthreads are     *)
(* numbered by st_id: the newest comes first in ks_sthreads.               *)
(*                                                                         *)
(* The memory an sthread may write is one page here, clean while it is as  *)
(* checkpointed.  The processor marks the page dirty in its page-table     *)
(* entry at the first write, and need not do so again as long as its TLB,  *)
(* which CR3_NOFLUSH leaves alone, has the entry as dirty.  The host       *)
(* kernel, which fills the buffer of a read, marks nothing there.  missed, *)
(* which the code does not have, says that a write has gone unmarked.      *)
(*                                                                         *)
(* A launch is one call of sthread_create; an st_id is used for many.      *)
(***************************************************************************)
EXTENDS Naturals, Sequences, FiniteSets, FiniteSetsExt

CONSTANTS
    Keys,           \* sc_mem, the tags an sthread may use
    MaxSthreads,    \* sthreads that kmalloc's tag has room for
    MaxLaunches,    \* bound on calls of sthread_create
    MaxReads,       \* bound on the reads of one launch
    AtOnce          \* sthreads created and not joined yet

ASSUME WedgeAssumption ==
    /\ Keys # {} /\ MaxSthreads \in Nat \ {0} /\ MaxLaunches \in Nat /\ MaxReads \in Nat
    /\ AtOnce \in Nat \ {0}

Ids == 1..MaxSthreads
Master == 0         \* also pgroot, and no current sthread

VARIABLES
    sthreads,   \* ks_sthreads, by st_id
    current,    \* ks_current
    cr3,        \* whose page root is loaded
    running,    \* who executes
    frames,     \* who called dune_jump_to_user, innermost first
    call,       \* what the master is in: "none", "create" or "join", and of which launch
    proc,       \* "run", "exit", "abort", or "fault" after a use of a null ks_current
    ids,        \* the st_id that each launch so far was given
    owed,       \* launches the master has not joined yet
    rejoined,   \* some launch has been joined a second time
    joined      \* <<launch, result>> of the last join

vars == <<sthreads, current, cr3, running, frames, call, proc, ids, owed, rejoined, joined>>
ghosts == <<ids, owed, rejoined, joined>>

Idle == [op |-> "none", id |-> 0, launch |-> 0]

Init ==
    /\ sthreads = <<>> /\ current = Master /\ cr3 = Master /\ running = Master
    /\ frames = <<>> /\ call = Idle /\ proc = "run"
    /\ ids = <<>> /\ owed = {} /\ rejoined = FALSE /\ joined = <<0, 0>>

-----------------------------------------------------------------------------
\* create_new_sthread: private copies of the checkpointed pages and a page
\* root that grants the tags in sc_mem.
create_new_sthread(key) ==
    [state |-> "ST_RUNNING", key |-> key, grants |-> key, ret |-> 0, launch |-> 0,
     reads |-> 0, page |-> "clean", dirty |-> FALSE, cached |-> FALSE,
     missed |-> FALSE]

\* dune_jump_to_user into sthread s, from `from`.
Jump(s, from) ==
    /\ current' = s /\ cr3' = s /\ running' = s /\ frames' = <<from>> \o frames

\* dune_ret_from_user, and the end of launch_sthread or schedule after it.
Return ==
    /\ running' = Head(frames) /\ frames' = Tail(frames)
    /\ cr3' = Master /\ current' = Master
    /\ call' = IF Head(frames) = Master /\ call.op = "create" THEN Idle ELSE call

\* Variant: one that has ended will do.
EndedToo(key) ==
    {s \in DOMAIN sthreads : sthreads[s].state # "ST_RUNNING" /\ sthreads[s].key = key}

Recyclable(key) ==
    {s \in DOMAIN sthreads : sthreads[s].state = "ST_DEAD" /\ sthreads[s].key = key}

\* kmalloc finds room for another sthread.
kmalloc == Len(sthreads) < MaxSthreads

launch_sthread(list, s) ==
    LET n == Len(ids) + 1 IN
    /\ sthreads' = [list EXCEPT ![s].state = "ST_RUNNING", ![s].launch = n, ![s].reads = 0]
    /\ Jump(s, Master)
    /\ call' = [op |-> "create", id |-> s, launch |-> n]
    /\ ids' = Append(ids, s) /\ owed' = owed \cup {n}
    /\ UNCHANGED <<proc, rejoined, joined>>

sthread_create(key) ==
    /\ proc = "run" /\ running = Master /\ call = Idle
    /\ Len(ids) < MaxLaunches /\ Cardinality(owed) < AtOnce
    /\ IF Recyclable(key) # {}
       THEN LET s == Max(Recyclable(key)) IN launch_sthread([sthreads EXCEPT ![s].key = key], s)
       ELSE IF kmalloc
       THEN launch_sthread(Append(sthreads, create_new_sthread(key)), Len(sthreads) + 1)
       ELSE /\ proc' = "exit"
            /\ UNCHANGED <<sthreads, current, cr3, running, frames, call, ghosts>>

-----------------------------------------------------------------------------
\* Variant: the one that reads may be chosen.
AnyLive == {s \in DOMAIN sthreads : sthreads[s].state = "ST_RUNNING"}

Schedulable == {s \in DOMAIN sthreads : s # current /\ sthreads[s].state = "ST_RUNNING"}

Executing(s) == proc = "run" /\ running = s /\ s \in DOMAIN sthreads

Fault ==
    /\ proc' = "fault"
    /\ UNCHANGED <<sthreads, current, cr3, running, frames, call, ghosts>>

\* The sthread writes its memory.  With the master's root loaded it writes the
\* master's, which has no recycling.
Write(s) ==
    /\ Executing(s) /\ cr3 = s
    /\ \E caches \in BOOLEAN :
        sthreads' = [sthreads EXCEPT ![s].page = "used",
                        ![s].dirty = @ \/ ~sthreads[s].cached,
                        ![s].missed = @ \/ (sthreads[s].cached /\ ~sthreads[s].dirty),
                        ![s].cached = @ \/ caches]
    /\ UNCHANGED <<current, cr3, running, frames, call, proc, ghosts>>

\* The processor drops its entry.
Evict(s) ==
    /\ proc = "run" /\ s \in DOMAIN sthreads /\ sthreads[s].cached
    /\ sthreads' = [sthreads EXCEPT ![s].cached = FALSE]
    /\ UNCHANGED <<current, cr3, running, frames, call, proc, ghosts>>

\* dune_passthrough_syscall of the read an sthread was switched away from.  The
\* buffer is in its page or elsewhere, and the host kernel writes there without
\* the entry that the processor would mark.
SavedRead(st) ==
    {st, [st EXCEPT !.page = "used", !.missed = @ \/ ~st.dirty]}

\* schedule, when there is another: it does the read it waits with and goes on.
schedule(list, from) ==
    LET t == Max(Schedulable) IN
    /\ \E st \in SavedRead(list[t]) : sthreads' = [list EXCEPT ![t] = st]
    /\ Jump(t, from)

\* syscall_handler for read, once the file and the buffer have passed the
\* checks: another sthread is scheduled from inside the handler, or the last
\* dune_jump_to_user returns.
Read(s) ==
    /\ Executing(s) /\ current # Master /\ sthreads[s].reads < MaxReads
    /\ LET list == [sthreads EXCEPT ![s].reads = @ + 1] IN
       IF Schedulable # {} THEN schedule(list, s) /\ UNCHANGED call
       ELSE sthreads' = list /\ Return
    /\ UNCHANGED <<proc, ghosts>>

\* Variant: a page stays as it is.
KeepPage(st) == st

recycle(st) ==
    IF st.dirty THEN [st EXCEPT !.page = "clean", !.dirty = FALSE, !.missed = FALSE] ELSE st

\* Variant: the sthread is not marked as ended.
ExitUnmarked(s) ==
    /\ Executing(s) /\ current # Master
    /\ sthreads' = [sthreads EXCEPT ![current] = [recycle(@) EXCEPT !.ret = sthreads[s].launch]]
    /\ Return /\ UNCHANGED <<proc, ghosts>>

\* syscall_handler for call 666.
Exit(s) ==
    /\ Executing(s) /\ current # Master
    /\ sthreads' = [sthreads EXCEPT ![current] =
                        [recycle(@) EXCEPT !.state = "ST_ZOMBIE", !.ret = sthreads[s].launch]]
    /\ Return /\ UNCHANGED <<proc, ghosts>>

\* Any system call without a current sthread uses a null pointer.
CallWithoutCurrent(s) == Executing(s) /\ current = Master /\ Fault

-----------------------------------------------------------------------------
\* The master joins a launch, which it may have joined before: all that counts
\* is the st_id.  An id no launch was given makes the call return -1.
sthread_join(n) ==
    /\ proc = "run" /\ running = Master /\ call = Idle
    /\ n \in 1..Len(ids)
    /\ call' = [op |-> "join", id |-> ids[n], launch |-> n]
    /\ rejoined' = (rejoined \/ n \notin owed)
    /\ UNCHANGED <<sthreads, current, cr3, running, frames, proc, ids, owed, joined>>

AtJoin == proc = "run" /\ running = Master /\ call.op = "join"

JoinSchedule ==
    /\ AtJoin /\ sthreads[call.id].state # "ST_ZOMBIE"
    /\ IF Schedulable # {} THEN schedule(sthreads, Master) /\ UNCHANGED proc
       ELSE proc' = "abort" /\ UNCHANGED <<sthreads, current, cr3, running, frames>>
    /\ UNCHANGED <<call, ghosts>>

JoinReturn ==
    /\ AtJoin /\ sthreads[call.id].state = "ST_ZOMBIE"
    /\ sthreads' = [sthreads EXCEPT ![call.id].state = "ST_DEAD"]
    /\ owed' = owed \ {call.launch} /\ joined' = <<call.launch, sthreads[call.id].ret>>
    /\ call' = Idle
    /\ UNCHANGED <<current, cr3, running, frames, proc, ids, rejoined>>

Next ==
    \/ \E key \in Keys : sthread_create(key)
    \/ \E s \in Ids : Write(s) \/ Evict(s) \/ Read(s) \/ Exit(s) \/ CallWithoutCurrent(s)
    \/ \E n \in 1..MaxLaunches : sthread_join(n)
    \/ JoinSchedule \/ JoinReturn

Spec == Init /\ [][Next]_vars

\* The callback of an sthread ends after some reads, and the master goes on
\* with a join it has begun.
FairSpec ==
    /\ Spec
    /\ WF_vars(\E s \in Ids : Read(s) \/ Exit(s) \/ CallWithoutCurrent(s))
    /\ WF_vars(JoinSchedule \/ JoinReturn)

-----------------------------------------------------------------------------
\* The sthreads are records of their type and every bound is kept.
WTypeOK ==
    /\ current \in 0..Len(sthreads) /\ cr3 \in 0..Len(sthreads) /\ running \in 0..Len(sthreads)
    /\ proc \in {"run", "exit", "abort", "fault"} /\ call.op \in {"none", "create", "join"}
    /\ Len(sthreads) <= MaxSthreads /\ Cardinality(owed) <= AtOnce
    /\ \A s \in DOMAIN sthreads :
        /\ sthreads[s].state \in {"ST_RUNNING", "ST_ZOMBIE", "ST_DEAD"}
        /\ sthreads[s].key \in Keys /\ sthreads[s].page \in {"clean", "used"}

\* An sthread that has ended does not execute again, although its frames, left
\* in reads it never comes back to, stay on the stack of dune_jump_to_user and
\* although it may be scheduled from inside another's read; and the page root
\* that is loaded, also a recycled one, grants the tags its creator asked for.
OnlyLiveRun ==
    /\ WTypeOK
    /\ proc = "run" /\ running # Master => sthreads[running].state = "ST_RUNNING"
    /\ cr3 # Master => sthreads[cr3].grants = sthreads[cr3].key

\* An sthread starts with the memory of the checkpoint: whatever the earlier
\* launches of a recycled one wrote is gone, if the processor marked it.  What
\* the host kernel wrote for a read into a page the sthread did not write itself
\* is not gone.
StartsClean ==
    \A s \in DOMAIN sthreads :
        sthreads[s].state = "ST_DEAD" /\ ~sthreads[s].missed => sthreads[s].page = "clean"

\* Every join gets the result of the launch it is for, also when the id has been
\* used for several.  A second join of a launch takes the result of a later one
\* with its id, and then no other join can be relied on.
JoinsOwnLaunch == ~rejoined => joined[1] = joined[2]

\* A join that has begun returns, unless the process ends.
JoinReturns == (call.op = "join") ~> (call.op = "none" \/ proc # "run")
=============================================================================
