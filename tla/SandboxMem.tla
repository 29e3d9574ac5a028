----------------------------- MODULE SandboxMem -----------------------------
(***************************************************************************)
(* The address space of the sandboxed program, apps/sandbox/umm.c, and the *)
(* lock of syscall_do in trap.c: only mmap, munmap and mprotect hold       *)
(* _syscall_mtx.                                                           *)
(*                                                                         *)
(* The heap grows from UMM_ADDR_START by brk_len bytes, mappings go down   *)
(* from UMM_ADDR_END by mmap_len.  Pages are numbered from UMM_ADDR_START. *)
(* For each page, host is what the process has mapped there, by the call   *)
(* that mapped it, and given is what the program may take to be there      *)
(* after the calls it has made; table holds the pages with an entry in     *)
(* Dune's page table.                                                      *)
(*                                                                         *)
(* A call is a check that picks the place, the host's system call, the     *)
(* change of the page table and, last, the new brk_len or mmap_len.  The   *)
(* program may name the place itself: the code then looks only whether it  *)
(* is within its area, and does not count it in mmap_len.                  *)
(***************************************************************************)
EXTENDS Integers, FiniteSets

CONSTANTS
    Threads,
    PGSIZE,
    BigPages,       \* BIG_PGSIZE, in pages
    SpacePages,     \* pages between UMM_ADDR_START and UMM_ADDR_END
    StackPages,     \* APP_STACK_SIZE
    Lengths,        \* the lengths, in bytes, that the program asks for
    Places,         \* the places, <<first page, pages>>, that the program names
    MaxCalls,       \* bound on the calls
    None

Locked == {"mmap", "munmap", "mprotect"}
Space == SpacePages * PGSIZE
Pages == 0..(SpacePages - 1)

\* The n-th call's mapping, and its shared memory segment.
Heap == 0
Stack == MaxCalls + 1
Segment(n) == Stack + n
Segments == {Segment(n) : n \in 1..MaxCalls}
Tags == Heap..(2 * MaxCalls + 1)

ASSUME SandboxMemAssumption ==
    /\ PGSIZE \in Nat \ {0} /\ StackPages \in Nat \ {0} /\ SpacePages \in Nat
    /\ StackPages < SpacePages /\ Lengths \subseteq Nat \ {0} /\ MaxCalls \in Nat
    /\ BigPages \in Nat \ {0} /\ Places \subseteq Nat \X Nat
    /\ None \notin Threads \cup Tags

VARIABLES
    brk_len, mmap_len,
    host,       \* page -> None or the mapping there
    table,      \* pages in the page table
    given,      \* page -> None or the mapping that the program has there
    mutex,      \* _syscall_mtx
    calls,      \* calls made so far
    mixed,      \* two calls overlapped, one of them without the mutex (not in the code)
    left,       \* pages of entries that failed calls and shmdt left behind (not in the code)
    unsafe,     \* pages the code may take away from the program (not in the code)
    op,         \* the call each thread is in
    proc        \* "start", "run", "exit", or "die" after a failed assertion

vars == <<brk_len, mmap_len, host, table, given, mutex, calls, mixed, left, unsafe, op, proc>>
space == <<brk_len, mmap_len, host, table, given, unsafe>>

Region(tag, first, count) == [tag |-> tag, first |-> first, count |-> count]
In(r) == r.first..(r.first + r.count - 1)
Empty == Region(None, 0, 0)

\* A call: own when the program named the new place.
Op(pc, kind, new, old, len, own, prot) ==
    [pc |-> pc, kind |-> kind, new |-> new, old |-> old, len |-> len, own |-> own, prot |-> prot]
Idle == Op("idle", "none", Empty, Empty, 0, FALSE, {})

Init ==
    /\ brk_len = 0 /\ mmap_len = 0 /\ host = [p \in Pages |-> None] /\ table = {}
    /\ given = [p \in Pages |-> None] /\ mutex = None /\ calls = 0
    /\ mixed = FALSE /\ left = {} /\ unsafe = {}
    /\ op = [t \in Threads |-> Idle]
    /\ proc = "start"

-----------------------------------------------------------------------------

RoundUp(len) == ((len + PGSIZE - 1) \div PGSIZE) * PGSIZE

umm_space_left(len) == brk_len + mmap_len + len < Space
umm_get_map_pos == Space - mmap_len

\* The pages that a new mapping of len bytes is put at.
Below(tag, len) ==
    Region(tag, (umm_get_map_pos - RoundUp(len)) \div PGSIZE, RoundUp(len) \div PGSIZE)

\* mem_ref_is_safe, for pages above UMM_ADDR_START; the range may end inside its
\* last page, so that one may reach up to UMM_ADDR_END.
mem_ref_is_safe(r) == r.first + r.count <= SpacePages

At(place) == Region(None, place[1], place[2])

Mapped(f, r) == [p \in Pages |-> IF p \in In(r) THEN r.tag ELSE f[p]]
Unmapped(f, r) == [p \in Pages |-> IF p \in In(r) THEN None ELSE f[p]]

\* The pages between the heap and the mappings.
FreeArea == {p \in Pages : brk_len <= p * PGSIZE /\ p * PGSIZE < umm_get_map_pos}

\* The stack of the main thread; its lowest page stays unmapped.
umm_alloc_stack ==
    LET r == Region(Stack, SpacePages - StackPages + 1, StackPages - 1)
    IN  /\ proc = "start" /\ umm_space_left(StackPages * PGSIZE)
        /\ host' = Mapped(host, r) /\ table' = table \cup In(r) /\ given' = Mapped(given, r)
        /\ mmap_len' = mmap_len + StackPages * PGSIZE /\ proc' = "run"
        /\ UNCHANGED <<brk_len, mutex, calls, mixed, left, unsafe, op>>

-----------------------------------------------------------------------------
\* Variant: no mutex.
EnterUnlocked(t, kind) ==
    /\ proc = "run" /\ op[t].pc = "idle" /\ calls < MaxCalls
    /\ calls' = calls + 1

\* syscall_do takes the mutex for some calls and gives it back at their end.
Enter(t, kind) ==
    /\ proc = "run" /\ op[t].pc = "idle" /\ calls < MaxCalls
    /\ kind \in Locked => mutex = None
    /\ calls' = calls + 1

Start(t, kind, new, old, len, own, prot) ==
    /\ op' = [op EXCEPT ![t] = Op("host", kind, new, old, len, own, prot)]
    /\ mutex' = IF kind \in Locked THEN t ELSE mutex
    /\ mixed' = (mixed \/ \E u \in Threads \ {t} :
                    op[u] # Idle /\ ~({kind, op[u].kind} \subseteq Locked))
    /\ UNCHANGED <<space, left, proc>>

Refuse == UNCHANGED <<space, mixed, left, op, mutex, proc>>

\* Variant: the mutex stays taken.
LeaveLocked(t) == op' = [op EXCEPT ![t] = Idle] /\ UNCHANGED mutex

Leave(t) ==
    /\ op' = [op EXCEPT ![t] = Idle]
    /\ mutex' = IF op[t].kind \in Locked THEN None ELSE mutex

\* umm_brk up to the system call; a heap that shrinks has an old part.
umm_brk(t, len) ==
    LET new == RoundUp(len)
        grown == Region(Heap, brk_len \div PGSIZE, (new - brk_len) \div PGSIZE)
        gone == Region(Heap, new \div PGSIZE, (brk_len - new) \div PGSIZE)
    IN  /\ Enter(t, "brk")
        /\ IF ~umm_space_left(new) \/ new = brk_len THEN Refuse
           ELSE IF new > brk_len THEN Start(t, "brk", grown, Empty, new, FALSE, {})
           ELSE Start(t, "brk", Empty, gone, new, FALSE, {})

\* Without an address the place is below all others.
Fits(w) == IF w.own THEN mem_ref_is_safe(w.at) ELSE umm_space_left(w.len)
PlaceOf(tag, w) == IF w.own THEN [w.at EXCEPT !.tag = tag] ELSE Below(tag, w.len)

\* umm_mmap and umm_shmat.
umm_map(t, kind, w) ==
    LET tag == IF kind = "shmat" THEN Segment(calls') ELSE calls'
    IN  /\ kind \in {"mmap", "shmat"} /\ Enter(t, kind)
        /\ IF Fits(w) THEN Start(t, kind, PlaceOf(tag, w), Empty, w.len, w.own, {}) ELSE Refuse

\* With MREMAP_FIXED the program names the place; a segment stays one.
umm_mremap(t, r, w, maymove) ==
    LET tag == IF host[r.first] \in Segments THEN Segment(calls') ELSE calls'
    IN  /\ Enter(t, "mremap")
        /\ IF mem_ref_is_safe(r) /\ Fits(w) /\ maymove
           THEN Start(t, "mremap", PlaceOf(tag, w), r, w.len, w.own, {}) ELSE Refuse

umm_munmap(t, r) ==
    /\ Enter(t, "munmap")
    /\ IF mem_ref_is_safe(r) THEN Start(t, "munmap", Empty, r, 0, FALSE, {}) ELSE Refuse

umm_mprotect(t, r, prot) ==
    /\ Enter(t, "mprotect")
    /\ IF mem_ref_is_safe(r) THEN Start(t, "mprotect", Empty, Empty, 0, FALSE, prot) ELSE Refuse

\* shmdt goes to the host as it is: the segment's entries stay in the page table.
shmdt(t, seg) ==
    LET gone == {p \in Pages : host[p] = seg} IN
    /\ Enter(t, "shmdt") /\ gone # {}
    /\ host' = [p \in Pages |-> IF p \in gone THEN None ELSE host[p]]
    /\ given' = [p \in Pages |-> IF p \in gone THEN None ELSE given[p]]
    /\ left' = left \cup gone
    /\ mixed' = (mixed \/ \E u \in Threads : op[u] # Idle)
    /\ UNCHANGED <<brk_len, mmap_len, table, unsafe, op, mutex, proc>>

-----------------------------------------------------------------------------
AtPc(t, pc) == proc = "run" /\ op[t].pc = pc
Goto(t, pc) == op' = [op EXCEPT ![t].pc = pc] /\ UNCHANGED mutex

\* What the host's calls replace (MAP_FIXED, mremap, SHM_REMAP) or remove at the
\* program's word is no longer the program's.
Dropped(o) == IF o.own THEN Unmapped(Unmapped(given, o.old), o.new) ELSE Unmapped(given, o.old)

\* mremap moves a mapping that is there, and not onto itself.
HostCall(t) ==
    /\ AtPc(t, "host")
    /\ op[t].kind = "mremap" =>
           /\ In(op[t].old) \cap In(op[t].new) = {}
           /\ \A p \in In(op[t].old) : host[p] # None
    /\ host' = Mapped(Unmapped(host, op[t].old), op[t].new)
    /\ given' = Dropped(op[t])
    /\ Goto(t, "table")
    /\ UNCHANGED <<brk_len, mmap_len, table, calls, mixed, left, unsafe, proc>>

HostFails(t) ==
    /\ AtPc(t, "host") /\ Leave(t) /\ UNCHANGED <<space, calls, mixed, left, proc>>

\* The pages that umm_munmap's second attempt is about.
BigRounded(r) == [r EXCEPT !.count = ((r.count + BigPages - 1) \div BigPages) * BigPages]

\* The host's munmap fails and succeeds for the length rounded to big pages; what
\* the program has in the pages behind its range goes too.
HostRetries(t) ==
    LET r == BigRounded(op[t].old) IN
    /\ AtPc(t, "host") /\ op[t].kind = "munmap"
    /\ host' = Unmapped(host, r)
    /\ given' = Unmapped(given, op[t].old)
    /\ unsafe' = unsafe \cup (In(r) \ In(op[t].old))
    /\ op' = [op EXCEPT ![t].pc = "table", ![t].old = r]
    /\ UNCHANGED <<brk_len, mmap_len, table, mutex, calls, mixed, left, proc>>

\* Variant: only the new pages.
TableKeepsOld(o) == table \cup In(o.new)

NewTable(o) == (table \ In(o.old)) \cup In(o.new)

\* umm_mremap counts its mapping before it changes the page table, the others
\* after it.
Counted(t, kinds) ==
    mmap_len' = IF op[t].kind \in kinds /\ ~op[t].own THEN mmap_len + RoundUp(op[t].len)
                ELSE mmap_len

\* dune_vm_mprotect takes no write without read.
BadProt(o) == o.kind = "mprotect" /\ "W" \in o.prot /\ "R" \notin o.prot

TableCall(t) ==
    /\ AtPc(t, "table") /\ ~BadProt(op[t]) /\ table' = NewTable(op[t])
    /\ Counted(t, {"mremap"})
    /\ Goto(t, "finish")
    /\ UNCHANGED <<brk_len, host, given, calls, mixed, left, unsafe, proc>>

\* umm_mprotect asserts the result.
ProtectFails(t) ==
    /\ AtPc(t, "table") /\ BadProt(op[t])
    /\ proc' = "die"
    /\ UNCHANGED <<space, calls, mixed, left, op, mutex>>

\* dune_vm_map_phys finds no page for a directory after some of the pages; the
\* mapping is undone, not the entries.  umm_mremap exits.
TableFails(t) ==
    /\ AtPc(t, "table") /\ op[t].new # Empty
    /\ \E k \in 0..(op[t].new.count - 1) :
        table' = (table \ In(op[t].old)) \cup In([op[t].new EXCEPT !.count = k])
    /\ left' = left \cup (table' \cap In(op[t].new))
    /\ host' = Unmapped(host, op[t].new)
    /\ Leave(t) /\ proc' = IF op[t].kind = "mremap" THEN "exit" ELSE "run"
    /\ UNCHANGED <<brk_len, mmap_len, given, calls, mixed, unsafe>>

\* The lengths, the result and the mutex.  A place of the program's own in the
\* free area may be taken from it by a later call.
Finish(t) ==
    /\ AtPc(t, "finish") /\ Leave(t)
    /\ brk_len' = IF op[t].kind = "brk" THEN op[t].len ELSE brk_len
    /\ Counted(t, {"mmap", "shmat"})
    /\ given' = Mapped(given, op[t].new)
    /\ left' = left \ (In(op[t].old) \cup In(op[t].new))
    /\ unsafe' = (unsafe \ In(op[t].new))
                    \cup (IF op[t].own THEN In(op[t].new) \cap FreeArea ELSE {})
    /\ UNCHANGED <<host, table, calls, mixed, proc>>

Step(t) ==
    \/ HostCall(t) \/ HostRetries(t) \/ HostFails(t)
    \/ TableCall(t) \/ TableFails(t) \/ ProtectFails(t) \/ Finish(t)

\* The place and the length of a new mapping.
Wanted ==
    {[own |-> TRUE, at |-> At(p), len |-> 0] : p \in Places}
        \cup {[own |-> FALSE, at |-> Empty, len |-> l] : l \in Lengths}

Call(t) ==
    \/ \E len \in Lengths \cup {0} : umm_brk(t, len)
    \/ \E w \in Wanted : umm_map(t, "mmap", w) \/ umm_map(t, "shmat", w)
    \/ \E w \in Wanted, p \in Places, maymove \in BOOLEAN : umm_mremap(t, At(p), w, maymove)
    \/ \E p \in Places : umm_munmap(t, At(p))
    \/ \E p \in Places, prot \in SUBSET {"R", "W"} : umm_mprotect(t, At(p), prot)
    \/ \E seg \in Segments : shmdt(t, seg)

Next == umm_alloc_stack \/ (\E t \in Threads : Call(t) \/ Step(t))

Spec == Init /\ [][Next]_vars
FairSpec == Spec /\ \A t \in Threads : WF_vars(Step(t))

-----------------------------------------------------------------------------
\* Until two calls overlap of which one has not taken the mutex, the lengths are
\* whole pages within the space.
SmTypeOK ==
    /\ mixed \in BOOLEAN /\ proc \in {"start", "run", "exit", "die"}
    /\ ~mixed =>
        /\ brk_len % PGSIZE = 0 /\ mmap_len % PGSIZE = 0
        /\ brk_len + mmap_len <= Space
        /\ host \in [Pages -> Tags \cup {None}] /\ given \in [Pages -> Tags \cup {None}]
        /\ mutex \in Threads \cup {None}

\* What the program was given stays its own: every page of a mapping, of the
\* stack and of the heap is still that mapping in the process, and the page
\* table has it, whatever calls failed, until two calls overlap of which one
\* has not taken the mutex.  Excepted are the pages that the program mapped at an
\* address of its own between heap and mappings, which umm_mmap does not count,
\* and the pages behind a range that umm_munmap has rounded.
GivenKept ==
    /\ SmTypeOK
    /\ proc = "run" /\ ~mixed =>
        \A p \in Pages \ unsafe :
            given[p] # None => host[p] = given[p] /\ p \in table

\* Between such calls the page table maps nothing that the process has unmapped,
\* except where a call has failed half way or shmdt removed a segment.
NoStrayEntries ==
    proc = "run" /\ ~mixed /\ (\A t \in Threads : op[t] = Idle) =>
        \A p \in table \ left : host[p] # None

\* A call that holds _syscall_mtx gives it back, on its failure paths too, unless
\* the process ends.
MutexReleased == (mutex # None) ~> (mutex = None \/ proc # "run")

\* The heuristic of umm.c wastes address space but is otherwise safe: as long as
\* calls do not overlap, no mapping takes a page away that the program still has.
\* It is not: TLC refutes this when the program names a place (README, known
\* deviations).
HeuristicIsSafe ==
    proc = "run" /\ ~mixed => \A p \in Pages : given[p] # None => host[p] = given[p]
=============================================================================
