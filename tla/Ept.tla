-------------------------------- MODULE Ept --------------------------------
(***************************************************************************)
(* The extended page table of one VCPU, dune/kern/ept.c: a lazy copy of    *)
(* the process's page table, filled by EPT faults of the VCPU's thread and *)
(* emptied by mmu notifier callbacks of any thread of the process.         *)
(*                                                                         *)
(* A node <<l, i>> is the i-th aligned range of Fanout^l pages; entry[n]   *)
(* is the entry for that range in the directory of level l: absent, a      *)
(* table of the level below, or a leaf that maps a frame.  A leaf above    *)
(* level 0 is what the code calls big.  host is the process's page table   *)
(* over the same nodes.  Frames have a size; those of PfnFrames belong to  *)
(* devices and have no struct page.  The flushes that follow a clear are   *)
(* in module Vcpu; guest-physical and host-virtual addresses, which        *)
(* correspond one to one, in AddressMap.                                   *)
(***************************************************************************)
EXTENDS Naturals, FiniteSets

CONSTANTS
    Fanout,         \* PTRS_PER_PTE, PTRS_PER_PMD
    FramesOf,       \* FramesOf[l]: frames of Fanout^l pages
    PfnFrames,
    None,           \* absent
    Table

Levels == 0..2
Frames == UNION {FramesOf[l] : l \in Levels}

ASSUME EptAssumption ==
    /\ Fanout \in Nat \ {0} /\ None # Table
    /\ PfnFrames \subseteq FramesOf[0] /\ {None, Table} \cap Frames = {}
    /\ \A k, l \in Levels : k # l => FramesOf[k] \cap FramesOf[l] = {}

Pages == 0..(Fanout * Fanout - 1)
Size(l) == IF l = 0 THEN 1 ELSE IF l = 1 THEN Fanout ELSE Fanout * Fanout
NodeOf == [p \in Pages |-> [l \in Levels |-> <<l, p \div Size(l)>>]]
Node(p, l) == NodeOf[p][l]
Nodes == {Node(p, l) : p \in Pages, l \in Levels}
PagesOf == [n \in Nodes |-> {p \in Pages : Node(p, n[1]) = n}]
Above == [n \in Nodes |-> {Node(p, l) : p \in PagesOf[n], l \in (n[1] + 1)..2}]
Below == [n \in Nodes |-> {m \in Nodes : n \in Above[m]}]

\* raced, which the code does not keep, marks a leaf whose fault overlapped with
\* a change of the page it was resolving.
Leaf == [frame : Frames, write : {0, 1}, raced : BOOLEAN]
IsLeaf(e) == e \notin {None, Table}

ASSUME MarksAssumption == {None, Table} \cap Leaf = {}

VARIABLES
    state,      \* "run", "failed" after a failed fault, "gone" when destroyed
    entry,
    host,       \* the frame the process maps at a node
    refs,       \* reference counts of the frames
    flt,        \* the EPT fault in progress
    chg         \* the page table change in progress

vars == <<state, entry, host, refs, flt, chg>>

NoFault == [at |-> "idle", page |-> 0, write |-> 0, frame |-> None, raced |-> FALSE]
NoChange == [at |-> "idle", node |-> <<0, 0>>]

Init ==
    /\ state = "run"
    /\ entry = [n \in Nodes |-> None] /\ host = [n \in Nodes |-> None]
    /\ refs = [f \in Frames |-> 0]
    /\ flt = NoFault /\ chg = NoChange

-----------------------------------------------------------------------------
\* The frame the process has at page p.
HostFrames(p) == {host[Node(p, l)] : l \in Levels} \ {None}

\* What the processor finds for page p.
Found(p) == {e \in {entry[Node(p, l)] : l \in Levels} : IsLeaf(e)}

\* ept_lookup_gpa meets a big entry above level l.  Its test (i != 1 || i != 2)
\* is true of every i, so the lookup fails at once with -EINVAL.
MeetsBig(p, l) == \E k \in (l + 1)..2 : IsLeaf(entry[Node(p, k)])

\* Directories that ept_lookup_gpa does not find.
Missing(p, l) == {n \in {Node(p, k) : k \in (l + 1)..2} : entry[n] = None}

\* ept_lookup_gpa with level 0 that creates nothing.
LookupFinds(p) == ~MeetsBig(p, 0) /\ Missing(p, 0) = {}

\* free_ept_page for the leaves of a set of nodes: references that are dropped.
Dropped(f, nodes) ==
    IF f \in PfnFrames THEN 0
    ELSE Cardinality({n \in nodes : IsLeaf(entry[n]) /\ entry[n].frame = f})

PutPages(nodes) == [f \in Frames |-> refs[f] - Dropped(f, nodes)]

Cleared(nodes) == [n \in Nodes |-> IF n \in nodes THEN None ELSE entry[n]]

-----------------------------------------------------------------------------
(***************************************************************************)
(* Faulty variants of definitions below, for showing that each property    *)
(* notices the fault it is there for.  No specification uses them.         *)
(***************************************************************************)

\* The error path keeps the page.
PutNothing == refs

\* The notifier skips pages that are not the first of the process's table.
HitFirst(pages) == {Node(p, 0) : p \in {q \in pages : LookupFinds(q) /\ q % Fanout = 0}}

\* A failed allocation has linked the directories in the wrong order.
TablesUpward(p, l) ==
    {s \in SUBSET Missing(p, l) : \A n \in s, m \in Missing(p, l) : m[1] < n[1] => m \in s}

-----------------------------------------------------------------------------
(***************************************************************************)
(* vmx_do_ept_fault: the guest touched a page that its EPT does not map,   *)
(* or wrote to one it maps read-only.                                      *)
(***************************************************************************)
CanFault(p, w) ==
    /\ state = "run" /\ flt = NoFault
    /\ \A e \in Found(p) : w > e.write

\* The fault starts to resolve page p.
Got(at, p, w, f) ==
    [at |-> at, page |-> p, write |-> w, frame |-> f,
     raced |-> chg # NoChange /\ p \in PagesOf[chg.node]]

\* get_user_pages_fast gets the page and a reference to it.
GetUserPage(p, w) ==
    /\ CanFault(p, w)
    /\ \E f \in HostFrames(p) \ PfnFrames :
        /\ flt' = Got("got", p, w, f)
        /\ refs' = [refs EXCEPT ![f] = @ + 1]
    /\ UNCHANGED <<state, entry, host, chg>>

\* It gets none: find_vma and follow_pfn under mmap_sem.
FollowPfn(p, w) ==
    /\ CanFault(p, w)
    /\ \E f \in HostFrames(p) \cap PfnFrames :
        flt' = Got("pfn", p, w, f)
    /\ UNCHANGED <<state, entry, host, refs, chg>>

\* Nothing is mapped there, or an ordinary page that the process may not write:
\* -EFAULT.  The rights of the process's mappings are not modelled, so any write
\* to an ordinary page may be refused.
NoMapping(p, w) ==
    /\ CanFault(p, w)
    /\ HostFrames(p) = {} \/ (w = 1 /\ HostFrames(p) \cap PfnFrames = {})
    /\ state' = "failed"
    /\ UNCHANGED <<entry, host, refs, flt, chg>>

\* The level at which the page will be mapped: compound_order.
FaultLevel == CHOOSE l \in Levels : flt.frame \in FramesOf[l]

\* What flt.frame loses when the fault fails: follow_pfn took no reference.
PutFaultPage ==
    IF flt.at = "got" THEN [refs EXCEPT ![flt.frame] = @ - 1] ELSE refs

\* ept_lookup_gpa returns -EINVAL.
LookupFails ==
    /\ flt.at \in {"got", "pfn"} /\ MeetsBig(flt.page, FaultLevel)
    /\ state' = "failed" /\ flt' = NoFault /\ refs' = PutFaultPage
    /\ UNCHANGED <<entry, host, chg>>

\* The directories that exist after __get_free_page failed: from the top.
TablesDownward(p, l) ==
    {s \in SUBSET Missing(p, l) : \A n \in s, m \in Missing(p, l) : m[1] > n[1] => m \in s}

\* ept_lookup_gpa returns -ENOMEM.
LookupNoMemory ==
    LET p == flt.page IN
    /\ flt.at \in {"got", "pfn"} /\ ~MeetsBig(p, FaultLevel)
    /\ \E s \in TablesDownward(p, FaultLevel) \ {Missing(p, FaultLevel)} :
        entry' = [n \in Nodes |-> IF n \in s THEN Table ELSE entry[n]]
    /\ state' = "failed" /\ flt' = NoFault /\ refs' = PutFaultPage
    /\ UNCHANGED <<host, chg>>

\* ept_clear_epte, ept_clear_l1_epte and ept_clear_l2_epte: the nodes that
\* setting node n empties.
Replaced(n) == IF entry[n] = Table THEN {n} \cup Below[n] ELSE {n}

\* The entry is set, under ept_lock; it takes over the fault's reference.
SetEntry ==
    LET l == FaultLevel  n == Node(flt.page, FaultLevel)
        leaf == [frame |-> flt.frame, write |-> flt.write,
                 raced |-> flt.raced] IN
    /\ flt.at \in {"got", "pfn"} /\ ~MeetsBig(flt.page, l)
    /\ entry' = [m \in Nodes |->
                   IF m = n THEN leaf
                   ELSE IF m \in Missing(flt.page, l) THEN Table
                   ELSE Cleared(Replaced(n))[m]]
    /\ refs' = PutPages(Replaced(n))
    /\ flt' = NoFault
    /\ UNCHANGED <<state, host, chg>>

-----------------------------------------------------------------------------
(***************************************************************************)
(* Linux changes the process's page table and calls the notifier: before   *)
(* it unmaps a range, after it replaces one page, while it takes one away. *)
(* The callbacks look up every page at level 0 and clear what they find,   *)
(* under ept_lock.                                                         *)
(***************************************************************************)
Mapped(n) == {n} \cup Above[n] \cup Below[n]

HostMaps(n, f) ==
    /\ f \in FramesOf[n[1]] /\ refs[f] = 0 /\ (\A m \in Nodes : host[m] # f)
    /\ \A m \in Mapped(n) : host[m] = None
    /\ host' = [host EXCEPT ![n] = f]
    /\ refs' = [refs EXCEPT ![f] = @ + 1]
    /\ UNCHANGED <<state, entry, flt, chg>>

\* ept_clear_epte of the level 0 entries among nodes.
Invalidate(nodes) ==
    /\ entry' = Cleared(nodes) /\ refs' = PutPages(nodes)

Hit(pages) == {Node(p, 0) : p \in {q \in pages : LookupFinds(q)}}

\* The fault in progress, marked when the change of node n overlaps with it.
RacedBy(n) == [flt EXCEPT !.raced = @ \/ (flt.at # "idle" /\ flt.page \in PagesOf[n])]

\* A change of node n begins.
Changes(at, n) ==
    /\ chg = NoChange /\ chg' = [at |-> at, node |-> n] /\ flt' = RacedBy(n)

ept_mmu_notifier_invalidate_range_start(n) ==
    /\ host[n] # None /\ Changes("unmap", n)
    /\ IF state = "gone" THEN UNCHANGED <<entry, refs>>
       ELSE Invalidate(Hit(PagesOf[n]))
    /\ UNCHANGED <<state, host>>

\* The range is unmapped; invalidate_range_end does nothing.
HostUnmaps ==
    LET f == host[chg.node] IN
    /\ chg.at = "unmap"
    /\ host' = [host EXCEPT ![chg.node] = None]
    /\ refs' = [refs EXCEPT ![f] = @ - 1]
    /\ chg' = NoChange
    /\ UNCHANGED <<state, entry, flt>>

\* One page gets another frame.
HostReplaces(n, f) ==
    /\ n[1] = 0 /\ host[n] # None /\ Changes("changed", n)
    /\ f \in FramesOf[0] \ PfnFrames /\ refs[f] = 0
    /\ host' = [host EXCEPT ![n] = f]
    /\ refs' = [refs EXCEPT ![f] = @ + 1, ![host[n]] = @ - 1]
    /\ UNCHANGED <<state, entry>>

ept_mmu_notifier_change_pte ==
    /\ chg.at = "changed"
    /\ IF state = "gone" THEN UNCHANGED <<entry, refs>>
       ELSE Invalidate(Hit(PagesOf[chg.node]))
    /\ chg' = NoChange
    /\ UNCHANGED <<state, host, flt>>

\* One page is taken away, by reclaim for example, and the callback runs, both
\* under the lock of the process's page table.
ept_mmu_notifier_invalidate_page(n) ==
    LET hit == IF state = "gone" THEN {} ELSE Hit(PagesOf[n]) IN
    /\ n[1] = 0 /\ host[n] # None /\ chg = NoChange
    /\ host' = [host EXCEPT ![n] = None]
    /\ flt' = RacedBy(n)
    /\ entry' = Cleared(hit) /\ refs' = [PutPages(hit) EXCEPT ![host[n]] = @ - 1]
    /\ UNCHANGED <<state, chg>>

\* Reclaim asks whether a page was used.  Without A/D bits the entry is cleared;
\* with them only the A bit is, which is not modelled: a stuttering step.
ept_mmu_notifier_clear_flush_young(p) ==
    /\ state # "gone" /\ LookupFinds(p) /\ IsLeaf(entry[Node(p, 0)])
    /\ Invalidate({Node(p, 0)})
    /\ UNCHANGED <<state, host, flt, chg>>

-----------------------------------------------------------------------------
\* mmu_notifier_unregister waits for the callbacks; vmx_free_ept.
vmx_destroy_ept ==
    /\ state # "gone" /\ flt = NoFault /\ chg = NoChange
    /\ state' = "gone"
    /\ entry' = Cleared(Nodes) /\ refs' = PutPages(Nodes)
    /\ UNCHANGED <<host, flt, chg>>

Next ==
    \/ \E p \in Pages, w \in {0, 1} :
        GetUserPage(p, w) \/ FollowPfn(p, w) \/ NoMapping(p, w)
    \/ LookupFails \/ LookupNoMemory \/ SetEntry
    \/ \E n \in Nodes, f \in Frames : HostMaps(n, f) \/ HostReplaces(n, f)
    \/ \E n \in Nodes :
        ept_mmu_notifier_invalidate_range_start(n) \/ ept_mmu_notifier_invalidate_page(n)
    \/ HostUnmaps \/ ept_mmu_notifier_change_pte
    \/ \E p \in Pages : ept_mmu_notifier_clear_flush_young(p)
    \/ vmx_destroy_ept

Spec == Init /\ [][Next]_vars

-----------------------------------------------------------------------------
\* The types of the variables.
EptTypeOK ==
    /\ state \in {"run", "failed", "gone"}
    /\ entry \in [Nodes -> {None, Table} \cup Leaf]
    /\ host \in [Nodes -> Frames \cup {None}] /\ refs \in [Frames -> Nat]
    /\ flt \in [at : {"idle", "got", "pfn"}, page : Pages, write : {0, 1},
                frame : Frames \cup {None}, raced : BOOLEAN]
    /\ chg \in [at : {"idle", "unmap", "changed"}, node : Nodes]

\* A frame's references are the process's mapping, the EPT leaves that map it
\* and the fault that has just got it: none is lost on a path that fails or
\* replaces entries, and none is dropped twice.
RefsExact ==
    /\ EptTypeOK
    /\ \A f \in Frames \ PfnFrames :
        refs[f] = Cardinality({n \in Nodes : host[n] = f})
                  + Cardinality({n \in Nodes : IsLeaf(entry[n]) /\ entry[n].frame = f})
                  + (IF flt.at = "got" /\ flt.frame = f THEN 1 ELSE 0)

\* The directories form a tree: an entry hangs under tables only, so that every
\* directory page and every leaf is reached when the EPT is freed.
TreeSound ==
    \A n \in Nodes : entry[n] # None => \A m \in Above[n] : entry[m] = Table

\* Outside notifications, a small page that the EPT maps is the one the process's
\* page table maps, unless its own fault overlapped with a change of that page:
\* the notifier misses no entry that is older than the change, whatever else is
\* faulting, failing or being replaced.
Synchronized ==
    chg = NoChange =>
        \A p \in Pages : LET e == entry[Node(p, 0)] IN
            IsLeaf(e) /\ ~e.raced => HostFrames(p) = {e.frame}
=============================================================================
