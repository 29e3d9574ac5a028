---------------------------- MODULE SandboxThread ----------------------------
(***************************************************************************)
(* How the sandbox makes a thread for clone, apps/sandbox/trap.c:          *)
(* dune_pthread_create waits for the tid of the new thread, which          *)
(* pthread_entry stores.                                                   *)
(*                                                                         *)
(* The two share struct thread_arg, in the parent's stack frame: its       *)
(* mutex, its condition variable and ta_tid.  A later call of the same     *)
(* thread has its frame at the same place, so arg[p] is that place and     *)
(* gen the call whose frame it holds.  Child n of p is the one of call n.  *)
(* A wait ends when the condition variable is signalled, by a child of     *)
(* this call or by a late one of an earlier call, or spuriously.           *)
(***************************************************************************)
EXTENDS Naturals, FiniteSets

CONSTANTS
    Parents,
    MaxCreates,     \* bound on the calls of one parent
    NoOwner         \* no owner of ta_mtx

Calls == 1..MaxCreates
Children == Parents \X Calls

ASSUME SandboxThreadAssumption ==
    MaxCreates \in Nat \ {0} /\ NoOwner \notin Parents \cup Children

VARIABLES
    pc,         \* of each parent
    call,       \* the number of its last call
    arg,        \* the frame: live, gen, tid, mtx, waiting, signalled
    child,      \* where each child is
    result,     \* what the parent's last call returned
    misled      \* ghost: parents that went on from a wait while ta_tid was still 0

tvars == <<pc, call, arg, child, result, misled>>

\* The tid of child n is n; 0 is the initial value of ta_tid.
NoFrame == [live |-> FALSE, gen |-> 0, tid |-> 0, mtx |-> NoOwner,
            waiting |-> FALSE, signalled |-> FALSE]
Failed == MaxCreates + 1

TInit ==
    /\ pc = [p \in Parents |-> "idle"] /\ call = [p \in Parents |-> 0]
    /\ arg = [p \in Parents |-> NoFrame] /\ child = [c \in Children |-> "none"]
    /\ result = [p \in Parents |-> Failed] /\ misled = {}

-----------------------------------------------------------------------------
PGoto(p, from, to) == pc[p] = from /\ pc' = [pc EXCEPT ![p] = to]
CGoto(c, from, to) == child[c] = from /\ child' = [child EXCEPT ![c] = to]

\* pthread_cond_init, pthread_mutex_init and pthread_create.
Create(p) ==
    /\ PGoto(p, "idle", "lock") /\ call[p] < MaxCreates
    /\ call' = [call EXCEPT ![p] = @ + 1]
    /\ arg' = [arg EXCEPT ![p] = [NoFrame EXCEPT !.live = TRUE, !.gen = call[p] + 1]]
    /\ child' = [child EXCEPT ![<<p, call[p] + 1>>] = "enter"]
    /\ UNCHANGED <<result, misled>>

\* One of them fails.
CreateFails(p) ==
    /\ pc[p] = "idle" /\ call[p] < MaxCreates
    /\ call' = [call EXCEPT ![p] = @ + 1] /\ result' = [result EXCEPT ![p] = Failed]
    /\ UNCHANGED <<pc, arg, child, misled>>

ParentLock(p) ==
    /\ PGoto(p, "lock", "check") /\ arg[p].mtx = NoOwner
    /\ arg' = [arg EXCEPT ![p].mtx = p]
    /\ UNCHANGED <<call, child, result, misled>>

\* Variant: the parent does not look before it waits.
AlwaysWaits(p) ==
    /\ PGoto(p, "check", "wait")
    /\ arg' = [arg EXCEPT ![p].mtx = NoOwner, ![p].waiting = TRUE]
    /\ UNCHANGED <<call, child, result, misled>>
\* Variant: the parent does not wait.
NeverWaits(p) == PGoto(p, "check", "unlock") /\ UNCHANGED <<call, arg, child, result, misled>>

\* pthread_cond_wait releases the mutex as it begins to wait.
ParentCheck(p) ==
    /\ IF arg[p].tid = 0
       THEN /\ PGoto(p, "check", "wait")
            /\ arg' = [arg EXCEPT ![p].mtx = NoOwner, ![p].waiting = TRUE]
       ELSE PGoto(p, "check", "unlock") /\ UNCHANGED arg
    /\ UNCHANGED <<call, child, result, misled>>

\* It has the mutex again; ta_tid is not looked at once more.
WaitEnds(p) ==
    /\ PGoto(p, "wait", "unlock") /\ arg[p].mtx = NoOwner
    /\ arg' = [arg EXCEPT ![p].mtx = p, ![p].waiting = FALSE, ![p].signalled = FALSE]
    /\ misled' = IF arg[p].tid = 0 THEN misled \cup {p} ELSE misled
    /\ UNCHANGED <<call, child, result>>

ParentWakes(p) == arg[p].signalled /\ WaitEnds(p)

\* pthread_cond_wait may return without a signal.
SpuriousWake(p) == ~arg[p].signalled /\ WaitEnds(p)

ParentUnlock(p) ==
    /\ PGoto(p, "unlock", "return")
    /\ arg' = [arg EXCEPT ![p].mtx = NoOwner]
    /\ UNCHANGED <<call, child, result, misled>>

\* pthread_mutex_destroy, pthread_cond_destroy and the return.
ParentReturn(p) ==
    /\ PGoto(p, "return", "idle")
    /\ result' = [result EXCEPT ![p] = arg[p].tid]
    /\ arg' = [arg EXCEPT ![p] = [NoFrame EXCEPT !.gen = arg[p].gen]]
    /\ UNCHANGED <<call, child, misled>>

\* dune_enter, the tls and tid words, and the copy of the parent's trap frame.
ChildEnter(c) == CGoto(c, "enter", "lock") /\ UNCHANGED <<pc, call, arg, result, misled>>

ChildLock(c) ==
    /\ CGoto(c, "lock", "tell") /\ arg[c[1]].mtx = NoOwner
    /\ arg' = [arg EXCEPT ![c[1]].mtx = c]
    /\ UNCHANGED <<pc, call, result, misled>>

ChildTell(c) ==
    /\ CGoto(c, "tell", "signal")
    /\ arg' = [arg EXCEPT ![c[1]].tid = c[2], ![c[1]].mtx = NoOwner]
    /\ UNCHANGED <<pc, call, result, misled>>

\* pthread_cond_signal on whatever is at the place of ta_cnd now.
ChildSignal(c) ==
    /\ CGoto(c, "signal", "user")
    /\ LET a == arg[c[1]] IN
        arg' = [arg EXCEPT ![c[1]].signalled = @ \/ (a.live /\ a.waiting)]
    /\ UNCHANGED <<pc, call, result, misled>>

ParentStep(p) ==
    \/ Create(p) \/ CreateFails(p) \/ ParentLock(p) \/ ParentCheck(p)
    \/ ParentWakes(p) \/ SpuriousWake(p) \/ ParentUnlock(p) \/ ParentReturn(p)
ChildStep(c) == ChildEnter(c) \/ ChildLock(c) \/ ChildTell(c) \/ ChildSignal(c)

TNext == (\E p \in Parents : ParentStep(p)) \/ (\E c \in Children : ChildStep(c))

TSpec == TInit /\ [][TNext]_tvars

\* The threads run; a mutex that is free again and again is obtained.
FairTSpec ==
    /\ TSpec
    /\ \A p \in Parents : /\ WF_tvars(ParentCheck(p) \/ ParentUnlock(p) \/ ParentReturn(p))
                          /\ SF_tvars(ParentLock(p) \/ ParentWakes(p))
    /\ \A c \in Children : /\ WF_tvars(ChildEnter(c) \/ ChildTell(c) \/ ChildSignal(c))
                           /\ SF_tvars(ChildLock(c))

-----------------------------------------------------------------------------
\* clone returns the tid of the new thread, or an error: never 0, which would
\* tell the parent that it is the child, and never the tid of an earlier call's
\* child, which shares the place of the frame.  The one way to another result,
\* for this call and for later ones of the same parent, is a wait that ends
\* before the store, spuriously or by a signal of an earlier call's child: the
\* code does not look at ta_tid again (README, known deviations).
TidReturned ==
    \A p \in Parents \ misled : pc[p] = "idle" /\ call[p] > 0 => result[p] \in {call[p], Failed}

\* A call that has begun returns: the child's signal is not lost, also without
\* spurious wakeups to help.
CreateReturns == \A p \in Parents : (pc[p] # "idle") ~> (pc[p] = "idle")
=============================================================================
