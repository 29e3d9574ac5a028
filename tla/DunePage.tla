------------------------------ MODULE DunePage ------------------------------
(***************************************************************************)
(* libdune's page allocator: page.c and the reference counts of dune.h.    *)
(*                                                                         *)
(* page_mutex protects the free list.  The reference counts are plain      *)
(* integers outside it: ref++ and ref-- are a load and a store, and        *)
(* dune_page_put looks at the count again after its store.                 *)
(*                                                                         *)
(* A frame is named by its distance from PAGEBASE in pages, so page p of   *)
(* the pages array has frame p (dune_page2pa).  held is what the callers   *)
(* own: a thread drops only references it has, and takes one only of a     *)
(* page it has.  With Sharing a new reference may be handed to another     *)
(* thread, as dune_vm_clone does for the page tables of two threads;       *)
(* without it the references of one page stay with one thread.             *)
(*                                                                         *)
(* There is one more caller: dune_vm_clone finds the pool itself in        *)
(* pgroot, where dune_init maps it with big pages, and takes a reference   *)
(* to the first page of each, whoever has that page or nobody.  pins,      *)
(* which the code does not have, counts these; they are never dropped.     *)
(***************************************************************************)
EXTENDS Naturals, Integers, Sequences, FiniteSets

CONSTANTS
    Threads,
    NoThread,    \* page_mutex is free
    GrowSize,    \* GROW_SIZE
    MaxPages,    \* MAX_PAGES, the length of the pages array
    IntPages,    \* pages of PGSIZE bytes in 2^31 bytes
    MapLimit,    \* bound: beyond so many pages the host has no memory left
    MaxRefs,     \* bound on the references to one page a thread collects
    BigSize,     \* pages in a big page
    MaxPins,     \* bound on the clones of pgroot
    RefMod,      \* values of the count's type, uint64_t
    Leftover,    \* what malloc leaves in the counts of the pages array
    Sharing

ASSUME ThreadsAssumption == NoThread \notin Threads
ASSUME SizesAssumption   ==
    /\ GrowSize \in Nat \ {0} /\ IntPages \in Nat \ {0}
    /\ MapLimit \in Nat /\ MaxPages \in Nat /\ GrowSize <= IntPages
ASSUME RefsAssumption    ==
    /\ MaxRefs \in Nat \ {0} /\ MaxPins \in Nat /\ RefMod \in Nat
    /\ MaxRefs + MaxPins + 1 < RefMod /\ BigSize \in Nat \ {0}
    /\ Leftover \in 0..(RefMod - 1)
ASSUME SharingAssumption == Sharing \in BOOLEAN

Pages == 0..(MapLimit - 1)

VARIABLES
    pool,       \* what dune_page_init came to
    num_pages,
    mapped,     \* the frames do_mapping has mapped
    ref,        \* pages[p].ref
    free,       \* pages_free, first page first
    mutex,      \* holder of page_mutex
    proc,       \* "run", or "die" after a failed assertion
    pc,         \* where each thread is
    pg,         \* the page its call is about
    tmp,        \* the count it has loaded
    held,       \* references each thread owns
    pins        \* references that clones of pgroot took with its big pages

vars == <<pool, num_pages, mapped, ref, free, mutex, proc, pc, pg, tmp, held, pins>>
calls == <<pc, pg, tmp, held, pins>>

Init ==
    /\ pool = "none" /\ num_pages = 0 /\ mapped = {} /\ free = <<>>
    /\ ref = [p \in Pages |-> Leftover]
    /\ mutex = NoThread /\ proc = "run"
    /\ pc = [t \in Threads |-> "idle"]
    /\ pg = [t \in Threads |-> 0] /\ tmp = [t \in Threads |-> 0]
    /\ held = [t \in Threads |-> [p \in Pages |-> 0]]
    /\ pins = [p \in Pages |-> 0]

-----------------------------------------------------------------------------
Running == proc = "run" /\ pool = "ready"

At(t, label) == Running /\ pc[t] = label

Goto(t, label) == pc' = [pc EXCEPT ![t] = label]

\* The count is unsigned.
Inc(n) == IF n = RefMod - 1 THEN 0 ELSE n + 1
Dec(n) == IF n = 0 THEN RefMod - 1 ELSE n - 1

\* num_pages * PGSIZE, in pages, as a product of two 32-bit ints.
Wrapped(n) ==
    IF n < IntPages THEN n
    ELSE ((n + IntPages) % (2 * IntPages)) - IntPages

\* The product overflows, which C leaves open: the compiler may compute it in
\* 32 bits and extend the result, or in 64 bits at once.
Products(n) == {n, Wrapped(n)}

Die == proc' = "die"

-----------------------------------------------------------------------------
(***************************************************************************)
(* Faulty variants of definitions below, for showing that each property    *)
(* notices the fault it is there for.  No specification uses them.         *)
(***************************************************************************)

\* The list is used without the lock.
AllocUnlocked(t) ==
    /\ At(t, "idle")
    /\ Goto(t, "alloc")
    /\ UNCHANGED <<pool, num_pages, mapped, ref, free, mutex, proc, pg, tmp, held, pins>>

\* The failure path keeps the lock.
GrowFailsLocked(t) ==
    /\ At(t, "alloc") /\ free = <<>>
    /\ Goto(t, "idle")
    /\ UNCHANGED <<pool, num_pages, mapped, ref, free, mutex, proc, pg, tmp, held, pins>>

\* The page stays on the list.
AllocKeepsFirst(t) ==
    /\ At(t, "remove")
    /\ mutex' = NoThread
    /\ Goto(t, "get")
    /\ UNCHANGED <<pool, num_pages, mapped, ref, free, proc, pg, tmp, held, pins>>

\* dune_page_put does not free.
PutNeverFrees(t) ==
    /\ At(t, "put_check")
    /\ Goto(t, "idle")
    /\ UNCHANGED <<pool, num_pages, mapped, ref, free, mutex, proc, pg, tmp, held, pins>>

-----------------------------------------------------------------------------
(***************************************************************************)
(* dune_page_init, which dune_init calls before there are other threads.   *)
(***************************************************************************)

\* SLIST_INSERT_HEAD of pages first..last-1 into an empty list.
Stacked(first, last) == [k \in 1..(last - first) |-> last - k]

PageInit ==
    /\ pool = "none" /\ GrowSize <= MapLimit
    /\ pool' = "ready" /\ num_pages' = GrowSize
    /\ mapped' = 0..(GrowSize - 1)
    /\ ref' = [p \in Pages |-> IF p < GrowSize THEN 0 ELSE ref[p]]
    /\ free' = Stacked(0, GrowSize)
    /\ UNCHANGED <<mutex, proc, calls>>

\* do_mapping or malloc fails; the mapping is undone, num_pages is not.
PageInitFails ==
    /\ pool = "none"
    /\ pool' = "failed" /\ num_pages' = GrowSize
    /\ UNCHANGED <<mapped, ref, free, mutex, proc, calls>>

-----------------------------------------------------------------------------
(***************************************************************************)
(* dune_page_alloc and grow_size.                                          *)
(***************************************************************************)
AllocLock(t) ==
    /\ At(t, "idle") /\ mutex = NoThread
    /\ mutex' = t
    /\ Goto(t, "alloc")
    /\ UNCHANGED <<pool, num_pages, mapped, ref, free, proc, pg, tmp, held, pins>>

\* grow_size with the mapping in place; ref is 0 in a fresh page.
Grow(t) ==
    LET new == num_pages + GrowSize IN
    /\ At(t, "alloc") /\ free = <<>> /\ new <= MapLimit
    /\ \E base \in Products(num_pages) :
           mapped' = mapped \cup base..(base + GrowSize - 1)
    /\ ref' = [p \in Pages |-> IF p \in num_pages..(new - 1) THEN 0 ELSE ref[p]]
    /\ free' = Stacked(num_pages, new)
    /\ num_pages' = new
    /\ UNCHANGED <<pool, mutex, proc, calls>>

\* do_mapping fails: the lock is released and there is no page.
GrowFails(t) ==
    /\ At(t, "alloc") /\ free = <<>>
    /\ mutex' = NoThread
    /\ Goto(t, "idle")
    /\ UNCHANGED <<pool, num_pages, mapped, ref, free, proc, pg, tmp, held, pins>>

\* SLIST_FIRST.
AllocFirst(t) ==
    /\ At(t, "alloc") /\ free # <<>>
    /\ pg' = [pg EXCEPT ![t] = Head(free)]
    /\ Goto(t, "remove")
    /\ UNCHANGED <<pool, num_pages, mapped, ref, free, mutex, proc, tmp, held, pins>>

\* SLIST_REMOVE_HEAD, and the lock is released; dune_page_get counts the
\* reference after that.
AllocRemove(t) ==
    /\ At(t, "remove")
    /\ free' = Tail(free)
    /\ mutex' = NoThread
    /\ Goto(t, "get")
    /\ UNCHANGED <<pool, num_pages, mapped, ref, proc, pg, tmp, held, pins>>

-----------------------------------------------------------------------------
(***************************************************************************)
(* dune_page_get.                                                          *)
(***************************************************************************)
CallGet(t, p) ==
    /\ At(t, "idle") /\ held[t][p] \in 1..(MaxRefs - 1)
    /\ pg' = [pg EXCEPT ![t] = p]
    /\ Goto(t, "get")
    /\ UNCHANGED <<pool, num_pages, mapped, ref, free, mutex, proc, tmp, held, pins>>

\* Both functions first assert that the page is one of the pool.
InPool(p) == p < num_pages

GetLoad(t) ==
    /\ At(t, "get")
    /\ IF InPool(pg[t])
       THEN /\ tmp' = [tmp EXCEPT ![t] = ref[pg[t]]]
            /\ Goto(t, "get_store")
            /\ UNCHANGED proc
       ELSE Die /\ UNCHANGED <<tmp, pc>>
    /\ UNCHANGED <<pool, num_pages, mapped, ref, free, mutex, pg, held, pins>>

\* The new reference goes to the caller or, with Sharing, to a thread it
\* names.
GetStore(t) ==
    /\ At(t, "get_store")
    /\ ref' = [ref EXCEPT ![pg[t]] = Inc(tmp[t])]
    /\ \E u \in Threads :
           /\ u = t \/ (Sharing /\ held[u][pg[t]] < MaxRefs)
           /\ held' = [held EXCEPT ![u][pg[t]] = @ + 1]
    /\ Goto(t, "idle")
    /\ UNCHANGED <<pool, num_pages, mapped, free, mutex, proc, pg, tmp, pins>>

\* __dune_vm_clone_helper at the entry of a big page of the pool.  Wedge, the
\* program that clones pgroot, has one thread, so no other call is under way.
ClonePin(p) ==
    /\ Running /\ \A t \in Threads : pc[t] = "idle"
    /\ InPool(p) /\ p % BigSize = 0 /\ pins[p] < MaxPins
    /\ ref' = [ref EXCEPT ![p] = Inc(@)]
    /\ pins' = [pins EXCEPT ![p] = @ + 1]
    /\ UNCHANGED <<pool, num_pages, mapped, free, mutex, proc, pc, pg, tmp, held>>

-----------------------------------------------------------------------------
(***************************************************************************)
(* dune_page_put and dune_page_free.                                       *)
(***************************************************************************)
PutLoad(t, p) ==
    /\ At(t, "idle") /\ held[t][p] > 0
    /\ held' = [held EXCEPT ![t][p] = @ - 1]
    /\ pg' = [pg EXCEPT ![t] = p]
    /\ IF InPool(p)
       THEN /\ tmp' = [tmp EXCEPT ![t] = ref[p]]
            /\ Goto(t, "put_store")
            /\ UNCHANGED proc
       ELSE Die /\ UNCHANGED <<tmp, pc>>
    /\ UNCHANGED <<pool, num_pages, mapped, ref, free, mutex, pins>>

PutStore(t) ==
    /\ At(t, "put_store")
    /\ ref' = [ref EXCEPT ![pg[t]] = Dec(tmp[t])]
    /\ Goto(t, "put_check")
    /\ UNCHANGED <<pool, num_pages, mapped, free, mutex, proc, pg, tmp, held, pins>>

\* if (!pg->ref): the build reloads the count or keeps what it has stored.
PutCheck(t) ==
    /\ At(t, "put_check")
    /\ \E seen \in {ref[pg[t]], Dec(tmp[t])} :
           Goto(t, IF seen = 0 THEN "free" ELSE "idle")
    /\ UNCHANGED <<pool, num_pages, mapped, ref, free, mutex, proc, pg, tmp, held, pins>>

\* assert(!pg->ref)
FreeAssert(t) ==
    /\ At(t, "free")
    /\ IF ref[pg[t]] = 0
       THEN Goto(t, "insert") /\ UNCHANGED proc
       ELSE Die /\ UNCHANGED pc
    /\ UNCHANGED <<pool, num_pages, mapped, ref, free, mutex, pg, tmp, held, pins>>

\* Lock, SLIST_INSERT_HEAD, unlock.
FreeInsert(t) ==
    /\ At(t, "insert") /\ mutex = NoThread
    /\ free' = <<pg[t]>> \o free
    /\ Goto(t, "idle")
    /\ UNCHANGED <<pool, num_pages, mapped, ref, mutex, proc, pg, tmp, held, pins>>

-----------------------------------------------------------------------------
Step(t) ==
    \/ AllocLock(t) \/ Grow(t) \/ GrowFails(t)
    \/ AllocFirst(t) \/ AllocRemove(t)
    \/ \E p \in Pages : CallGet(t, p) \/ PutLoad(t, p)
    \/ GetLoad(t) \/ GetStore(t)
    \/ PutStore(t) \/ PutCheck(t) \/ FreeAssert(t) \/ FreeInsert(t)

Next ==
    \/ PageInit \/ PageInitFails
    \/ \E t \in Threads : Step(t)
    \/ \E p \in Pages : ClonePin(p)

\* A thread that holds the lock goes on.
Holds(t) == Grow(t) \/ GrowFails(t) \/ AllocFirst(t) \/ AllocRemove(t)

Spec == Init /\ [][Next]_vars

FairSpec == Spec /\ \A t \in Threads : WF_vars(Holds(t))

-----------------------------------------------------------------------------
(***************************************************************************)
(* Properties.                                                             *)
(***************************************************************************)

\* Inside dune_page_get or dune_page_put.
InCall(t) == pc[t] \notin {"idle", "alloc", "remove"}

\* The thread owns a reference to the page or its call is about it.
Uses(t, p) == held[t][p] > 0 \/ (InCall(t) /\ pg[t] = p)

\* A page on pages_free.
IsFree(p) == \E k \in DOMAIN free : free[k] = p

\* The variables have the types of page.c and dune.h.
PageTypeOK ==
    /\ pool \in {"none", "ready", "failed"} /\ proc \in {"run", "die"}
    /\ num_pages \in Nat /\ mapped \subseteq Int
    /\ ref \in [Pages -> 0..(RefMod - 1)]
    /\ free \in Seq(Pages)
    /\ mutex \in Threads \cup {NoThread}
    /\ pc \in [Threads -> {"idle", "alloc", "remove", "get", "get_store",
                           "put_store", "put_check", "free", "insert"}]
    /\ pg \in [Threads -> Nat] /\ tmp \in [Threads -> 0..(RefMod - 1)]
    /\ held \in [Threads -> [Pages -> 0..MaxRefs]] /\ pins \in [Pages -> 0..MaxPins]

\* No assertion fails: dune_page_get and dune_page_put only see pages of the
\* pool, although they read num_pages without the lock, and dune_page_free
\* only pages whose count is still 0.
AssertsHold == proc = "run"

\* A page is on pages_free at most once, and only while no thread owns it and no
\* call is about it: dune_page_alloc gives no page twice, although it counts the
\* reference after it has released the lock, and although the count of a page on
\* the list need not be 0: it is the number of clones of pgroot that counted it.
FreePagesUnused ==
    /\ \A j, k \in DOMAIN free : free[j] = free[k] => j = k
    /\ \A k \in DOMAIN free :
           ref[free[k]] = pins[free[k]] /\ \A t \in Threads : ~Uses(t, free[k])

\* Every page of the pool is on pages_free or in use: none is lost, also not
\* by an allocation that fails in grow_size.  The exception are the pages that
\* clones of pgroot have counted, which dune_page_put never finds at 0 again.
NoPageLost ==
    pool = "ready" =>
        \A p \in Pages : p < num_pages =>
            IsFree(p) \/ pins[p] > 0 \/ \E t \in Threads : Uses(t, p)

\* The frame of every page of the pool is mapped, up to the MAX_PAGES pages that
\* dune.h allows: grow_size maps what dune_page2pa names.  The product in
\* grow_size overflows before: TLC refutes this when MapLimit exceeds IntPages
\* (README, known deviations).
PoolIsMapped ==
    pool = "ready" /\ num_pages <= MaxPages =>
        \A p \in Pages : p < num_pages => p \in mapped

\* grow_size stays within the pages array that dune_page_init allocates for
\* MAX_PAGES pages.  Nothing in the code makes sure of it: TLC refutes this when
\* MapLimit exceeds MaxPages (README, known deviations).
PagesFitArray == num_pages <= MaxPages

\* page_mutex is released on every path, the failure of grow_size included.
LockIsReleased == mutex # NoThread ~> (mutex = NoThread \/ proc = "die")

-----------------------------------------------------------------------------
(***************************************************************************)
(* The inductive invariant, without Sharing.                               *)
(***************************************************************************)

\* Before dune_page_init nothing happens.
PoolInv ==
    /\ pool = "ready" => num_pages <= MapLimit
    /\ \A p \in Pages : p >= num_pages => pins[p] = 0
    /\ pool # "ready" =>
           /\ free = <<>> /\ \A p \in Pages : pins[p] = 0
           /\ \A t \in Threads :
                  pc[t] = "idle" /\ \A p \in Pages : held[t][p] = 0

\* page_mutex is held inside dune_page_alloc, where SLIST_FIRST stays first.
LockInv ==
    \A t \in Threads :
        /\ mutex = t <=> pc[t] \in {"alloc", "remove"}
        /\ pc[t] = "remove" => free # <<>> /\ pg[t] = free[1]

\* The pages the threads use are pages of the pool, each used by one thread.
UseInv ==
    /\ \A t \in Threads : InCall(t) => pg[t] \in Pages
    /\ \A t \in Threads, p \in Pages : Uses(t, p) => p < num_pages
    /\ \A t, u \in Threads, p \in Pages : Uses(t, p) /\ Uses(u, p) => t = u
    /\ \A k \in DOMAIN free : free[k] < num_pages

\* The count of a page that a thread uses, of its references and the clones',
\* which is ahead of them in the middle of dune_page_put, and what the thread has
\* loaded of it.
CountOK(t) ==
    /\ \A p \in Pages :
           Uses(t, p) => ref[p] = IF pc[t] = "put_store" /\ pg[t] = p
                                  THEN held[t][p] + pins[p] + 1 ELSE held[t][p] + pins[p]
    /\ pc[t] \in {"get_store", "put_store"} => tmp[t] = ref[pg[t]]
    /\ pc[t] = "put_check" => Dec(tmp[t]) = ref[pg[t]]
    /\ pc[t] \in {"get", "get_store", "put_store"} => held[t][pg[t]] < MaxRefs
    /\ pc[t] \in {"free", "insert"} => held[t][pg[t]] = 0 /\ pins[pg[t]] = 0

CountInv == \A t \in Threads : CountOK(t)

\* The inductive invariant of page.c: list, lock, owners and counts agree.
PageInv ==
    /\ PageTypeOK /\ AssertsHold /\ PoolInv /\ LockInv /\ UseInv
    /\ FreePagesUnused /\ CountInv /\ NoPageLost

=============================================================================
