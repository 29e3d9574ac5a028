------------------------------ MODULE PageTable ------------------------------
(***************************************************************************)
(* libdune's page tables, vm.c: walk, lookup, map, protect, unmap, clone,  *)
(* free and the copy-on-write fault, over the memory that holds them.      *)
(*                                                                         *)
(* mem[d] is the directory in frame d, W entries long.  An entry is None   *)
(* (the word 0) or a frame with flags.  Frames 0..PoolSize-1 belong to the *)
(* allocator and have reference counts (module DunePage has the allocator  *)
(* itself); pgroot and the identity frames lie outside of it.  want is the *)
(* reference: for each root the flat map from pages to frames that the     *)
(* calls ask for.                                                          *)
(*                                                                         *)
(* A call begins, visits one entry at a time and ends; libdune leaves it   *)
(* to its callers to serialise calls.  Addresses are page numbers.         *)
(***************************************************************************)
EXTENDS Naturals, FiniteSets

CONSTANTS
    W,              \* NPTENTRIES
    PoolSize,       \* bound: pages of the allocator
    MaxRoots,       \* bound on page roots in use
    MaxFrees,       \* bound on the calls of dune_vm_free
    MaxCalls,       \* bound on all calls
    Ranges,         \* the ranges <<first, last>> that calls are about
    BigRanges,      \* those of calls with PERM_BIG
    GiantRanges,    \* those of calls with PERM_BIG_1GB
    Perms,          \* the permissions calls give, sets of R, W and COW
    PoolRange,      \* the pages at which dune_init maps the pool, at PAGEBASE
    PoolFirst,      \* the frame of the first of them
    None

Top == 3
Levels == 0..Top
Size(level) == <<1, W, W * W, W * W * W, W * W * W * W>>[level + 1]
Pages == 0..(Size(Top + 1) - 1)

ASSUME PageTableAssumption ==
    /\ W \in Nat \ {0} /\ PoolSize \in Nat \ {0}
    /\ MaxRoots \in Nat /\ MaxFrees \in Nat /\ MaxCalls \in Nat
    /\ Ranges \cup BigRanges \cup GiantRanges \subseteq {r \in Pages \X Pages : r[1] <= r[2]}
    /\ PoolRange \in {r \in Pages \X Pages : r[1] <= r[2]} /\ PoolFirst \in 0..(PoolSize - 1)
    /\ \A r \in BigRanges \cup {PoolRange} : r[1] % W = 0 /\ (r[2] + 1) % W = 0
    /\ \A r \in GiantRanges : r[1] % (W * W) = 0 /\ (r[2] + 1) % (W * W) = 0
    /\ Perms \subseteq SUBSET {"R", "W", "COW"}

Pool == 0..(PoolSize - 1)
pgroot == PoolSize
Frames == 0..PoolSize
Identity(p) == PoolSize + 1 + p
Index == 0..(W - 1)

Flags == {"P", "W", "PS", "COW"}
Pte(f, flags) == [frame |-> f, flags |-> flags]
EmptyDir == [i \in Index |-> None]
Unmapped == [p \in Pages |-> None]

\* What a walk in progress is.
Walks ==
    [cb : {"map_phys", "map_pages", "mprotect", "free", "clone", "destroy", "put"}, root : Frames,
     top : 1..Top, create : {None, 0, 1, 2}, cur : Pages, hi : Pages, level : Levels,
     dirs : [Levels -> Frames], flags : SUBSET Flags, va : Nat, pa : Nat, to : Frames]

\* None is not an entry, a number, a place or a walk.
ASSUME NoneAssumption ==
    /\ None \notin Nat /\ None \notin [frame : Nat, flags : SUBSET Flags]
    /\ None \notin [root : Frames, level : Levels, up : Nat] /\ None \notin Walks

VARIABLES
    mem,        \* the directories
    ref,        \* reference counts of the pool's pages, struct page
    free,       \* the pages on pages_free
    pins,       \* the part of ref that clones added for copies of big pages (not in the code)
    roots,      \* the page roots in use
    walk,       \* the __dune_vm_page_walk in progress, or None
    look,       \* the dune_vm_lookup in progress, or None
    proc,       \* "run", "die" after a failed assertion, "null" after a write through NULL
    want,       \* per root, the flat map its calls ask for (not in the code)
    place,      \* the root, level and range that a frame is the directory of (not in the code)
    frees,      \* calls of dune_vm_free (not in the code)
    calls       \* all calls (not in the code)

vars == <<mem, ref, free, pins, roots, walk, look, proc, want, place, frees, calls>>

\* The range of a directory is given by the digits of its pages above it.
Place(root, level, up) == [root |-> root, level |-> level, up |-> up]

Init ==
    /\ mem = [d \in Frames |-> EmptyDir] /\ ref = [p \in Pool |-> 0]
    /\ free = Pool /\ pins = [p \in Pool |-> 0]
    /\ roots = {pgroot} /\ walk = None /\ look = None /\ proc = "run"
    /\ want = [r \in {pgroot} |-> Unmapped]
    /\ place = [d \in Frames |-> IF d = pgroot THEN Place(pgroot, Top, 0) ELSE None]
    /\ frees = 0 /\ calls = 0

-----------------------------------------------------------------------------
pte_present(e) == e # None /\ "P" \in e.flags
pte_big(e) == e # None /\ "PS" \in e.flags

\* An entry of the window through which the pool itself is mapped, or a copy.
MapsPool(e) == pte_big(e) /\ e.frame \in Pool

\* A page number without its digits below level; its digit there.
Up(level, p) ==
    LET u1 == p \div W
        u2 == u1 \div W
        u3 == u2 \div W
    IN  <<p, u1, u2, u3, u3 \div W>>[level + 1]
PDX(level, p) == Up(level, p) % W

\* alloc_page: which of the free pages it is does not matter.
alloc_page == CHOOSE p \in free : TRUE
Taken == [ref EXCEPT ![alloc_page] = @ + 1]
Blank == [mem EXCEPT ![alloc_page] = EmptyDir]

\* Variant: the page is never given back.
FreeKeepsPage(f, r) == r

\* dune_page_put for pages of the pool.  The words of a free page are dead
\* (NothingDangles), so they are cleared here.
PutRef(f, r) == IF f \in Pool THEN [r EXCEPT ![f] = IF @ = 0 THEN 0 ELSE @ - 1] ELSE r
PutFree(f, r, fr) == IF f \in Pool /\ PutRef(f, r)[f] = 0 THEN fr \cup {f} ELSE fr
PutMem(f, m) == IF f \in Pool /\ ref[f] <= 1 THEN [m EXCEPT ![f] = EmptyDir] ELSE m

Set(m, d, i, e) == [m EXCEPT ![d][i] = e]

\* Fills the missing entry i of directory d at level with a new directory,
\* PTE_DEF_FLAGS.
Link(d, i) ==
    /\ mem' = Set(Blank, d, i, Pte(alloc_page, {"P", "W"})) /\ ref' = Taken
    /\ free' = free \ {alloc_page} /\ UNCHANGED pins
    /\ place' = [place EXCEPT ![alloc_page] =
                    Place(place[d].root, place[d].level - 1, place[d].up * W + i)]

get_pte_perm(perm) ==
    (IF "R" \in perm THEN {"P"} ELSE {}) \cup (perm \cap {"W", "COW"})
    \cup (IF perm \cap {"BIG", "BIG_1GB"} # {} THEN {"PS"} ELSE {})

-----------------------------------------------------------------------------
\* A step of the processor's walk goes on through a table at level.
IsTable(level, e) == e # None /\ ~(level < Top /\ pte_big(e)) /\ e.frame \in Frames

\* The directory and the level at which the path of page p ends, the entry
\* there, and what the processor reads from it.
Leaf(m, root, p) ==
    LET e3 == m[root][PDX(3, p)]
        e2 == m[e3.frame][PDX(2, p)]
        e1 == m[e2.frame][PDX(1, p)]
    IN  IF ~IsTable(3, e3) THEN [dir |-> root, level |-> 3]
        ELSE IF ~IsTable(2, e2) THEN [dir |-> e3.frame, level |-> 2]
        ELSE IF ~IsTable(1, e1) THEN [dir |-> e2.frame, level |-> 1]
        ELSE [dir |-> e1.frame, level |-> 0]

LeafEntry(m, root, p) ==
    LET f == Leaf(m, root, p) IN m[f.dir][PDX(f.level, p)]

Translate(m, root, p) ==
    LET e == LeafEntry(m, root, p)
        level == Leaf(m, root, p).level
    IN  IF e = None THEN None
        ELSE Pte(e.frame + (p - Up(level, p) * Size(level)), e.flags \ {"PS"})

-----------------------------------------------------------------------------
\* The callers' side of the calls.  A normal mapping replaces none that the
\* table could not give up, a big one or one that holds a reference; the
\* other mappings replace nothing; a big page is changed as a whole, and
\* nobody unmaps the window of the pool.
Replaceable(root, p) ==
    LET e == LeafEntry(mem, root, p) IN e # None => ~pte_big(e) /\ e.frame \notin Pool
Fresh(root, p) == LeafEntry(mem, root, p) = None
NoTable(root, p, create) == Fresh(root, p) /\ Leaf(mem, root, p).level >= create
Whole(root, p, lo, hi) ==
    pte_big(LeafEntry(mem, root, p)) =>
        \A q \in Pages : LET l == Leaf(mem, root, p).level
                         IN  Up(l, q) = Up(l, p) => q \in lo..hi

\* The arguments of __dune_vm_page_walk, and its position: the page it has
\* come to, and the directories that its recursive calls have open.  create
\* is the level at which entries are made (0, 1, or 2 for 1 GB pages), or None.
Walk(cb, root, top, range, create) ==
    [cb |-> cb, root |-> root, top |-> top, create |-> create, cur |-> range[1], hi |-> range[2],
     level |-> top, dirs |-> [l \in Levels |-> root], flags |-> {}, va |-> range[1], pa |-> 0,
     to |-> root]
All == <<0, Size(Top + 1) - 1>>

\* dune_init maps the pool itself, big and not counted, before any other call.
Begin(range) ==
    /\ proc = "run" /\ walk = None /\ look = None /\ (calls = 0) = (range = PoolRange)
    /\ calls < MaxCalls /\ calls' = calls + 1

dune_vm_map_phys(root, range, pa, perm) ==
    LET create == IF "BIG" \in perm THEN 1 ELSE IF "BIG_1GB" \in perm THEN 2 ELSE 0
    IN  /\ Begin(range)
        /\ \A p \in range[1]..range[2] :
                IF create = 0 THEN Replaceable(root, p) ELSE NoTable(root, p, create)
        /\ walk' = [Walk("map_phys", root, Top, range, create)
                        EXCEPT !.flags = get_pte_perm(perm), !.pa = pa]
        /\ UNCHANGED <<mem, ref, free, pins, roots, look, proc, want, place, frees>>

dune_vm_map_pages(root, range, perm) ==
    /\ Begin(range)
    /\ "R" \in perm \/ perm = {}
    /\ \A p \in range[1]..range[2] : Fresh(root, p)
    /\ walk' = [Walk("map_pages", root, Top, range, 0) EXCEPT !.flags = get_pte_perm(perm)]
    /\ UNCHANGED <<mem, ref, free, pins, roots, look, proc, want, place, frees>>

dune_vm_mprotect(root, range, perm) ==
    /\ Begin(range)
    /\ "W" \in perm => "R" \in perm
    /\ \A p \in range[1]..range[2] : Whole(root, p, range[1], range[2])
    /\ walk' = [Walk("mprotect", root, Top, range, None)
                    EXCEPT !.flags = get_pte_perm(IF "R" \in perm THEN perm ELSE {})]
    /\ UNCHANGED <<mem, ref, free, pins, roots, look, proc, want, place, frees>>

dune_vm_unmap(root, range) ==
    /\ Begin(range)
    /\ \A p \in range[1]..range[2] :
            Whole(root, p, range[1], range[2]) /\ ~MapsPool(LeafEntry(mem, root, p))
    /\ walk' = Walk("free", root, Top, range, None)
    /\ UNCHANGED <<mem, ref, free, pins, roots, look, proc, want, place, frees>>

dune_vm_clone(root) ==
    /\ Begin(All) /\ Cardinality(roots) < MaxRoots
    /\ IF free = {}
       THEN proc' = "null" /\ UNCHANGED <<mem, ref, free, pins, roots, walk, want, place>>
       ELSE /\ mem' = Blank /\ ref' = Taken /\ free' = free \ {alloc_page}
            /\ roots' = roots \cup {alloc_page}
            /\ walk' = [Walk("clone", root, Top, All, None) EXCEPT !.to = alloc_page]
            /\ want' = [r \in roots \cup {alloc_page} |-> IF r = alloc_page THEN Unmapped ELSE want[r]]
            /\ place' = [place EXCEPT ![alloc_page] = Place(alloc_page, Top, 0)]
            /\ UNCHANGED <<pins, proc>>
    /\ UNCHANGED <<look, frees>>

\* The walks begin one and two levels too low, so that the directories of
\* level 0 and 1 are the leaves.
dune_vm_free(root) ==
    /\ Begin(All) /\ root # pgroot /\ frees < MaxFrees
    /\ walk' = Walk("destroy", root, 2, All, None)
    /\ roots' = roots \ {root} /\ want' = [r \in roots \ {root} |-> want[r]]
    /\ frees' = frees + 1
    /\ UNCHANGED <<mem, ref, free, pins, look, proc, place>>

-----------------------------------------------------------------------------
Here == walk.dirs[walk.level]
Idx == PDX(walk.level, walk.cur)
Entry == mem[Here][Idx]
Base == Up(walk.level, walk.cur) * Size(walk.level)

\* The next entry of the innermost directory that has one in the range, or
\* the end of the walk; dune_vm_free has another walk and a put to do.
After == Base + Size(walk.level)
Open == {l \in walk.level..walk.top : PDX(l, walk.cur) < W - 1}
Innermost == CHOOSE l \in Open : \A k \in Open : l <= k
Return ==
    IF walk.cb # "destroy" THEN None
    ELSE IF walk.top = 2 THEN Walk("destroy", walk.root, 1, All, None)
    ELSE [walk EXCEPT !.cb = "put"]
Advance ==
    IF After > walk.hi \/ Open = {} THEN Return
    ELSE [walk EXCEPT !.cur = After, !.level = Innermost]

\* What the call asks for is given to the pages of the range below the entry.
Served(root, New(_)) ==
    want' = [want EXCEPT ![root] = [p \in Pages |->
                IF p \in walk.cur..walk.hi /\ p < After THEN New(p) ELSE want[root][p]]]
Gone(p) == None
Same(p) == want[walk.root][p]
FirstOnly(p) == IF p = Base THEN Same(p) ELSE None
Protected(p) == IF Same(p) = None THEN None ELSE Pte(Same(p).frame, walk.flags)
Placed(p) == Pte(walk.pa + (p - walk.va), walk.flags \ {"PS"})

\* The big-page test of a level.
IsLeafHere ==
    \/ walk.level = 0 /\ (walk.create = 0 \/ Entry # None)
    \/ walk.level \in {1, 2} /\ (walk.create = walk.level \/ pte_big(Entry))

Walking(cbs) == proc = "run" /\ walk # None /\ look = None /\ walk.cb \in cbs
AtLeaf(cb) == Walking({cb}) /\ IsLeafHere
Inner == Walking({"map_phys", "map_pages", "mprotect", "free", "clone", "destroy"}) /\ ~IsLeafHere

WalkSkip ==
    /\ Inner /\ (walk.level = 0 \/ (~pte_present(Entry) /\ walk.create = None))
    /\ walk' = Advance
    /\ CASE walk.cb = "mprotect" -> Served(walk.root, Protected)
         [] walk.cb = "free" -> Served(walk.root, Gone)
         [] walk.cb = "clone" -> Served(walk.to, Same)
         [] OTHER -> UNCHANGED want
    /\ UNCHANGED <<mem, ref, free, pins, roots, look, proc, place, frees, calls>>

WalkDown ==
    /\ Inner /\ walk.level > 0 /\ pte_present(Entry)
    /\ walk' = [walk EXCEPT !.level = @ - 1, !.dirs[walk.level - 1] = Entry.frame]
    /\ UNCHANGED <<mem, ref, free, pins, roots, look, proc, want, place, frees, calls>>

\* A directory is made; without a page for it the call returns -ENOMEM.
WalkLink ==
    /\ Inner /\ walk.level > 0 /\ ~pte_present(Entry) /\ walk.create # None
    /\ IF free = {} THEN walk' = None /\ UNCHANGED <<mem, ref, free, pins, place>>
       ELSE Link(Here, Idx) /\ UNCHANGED walk
    /\ UNCHANGED <<roots, look, proc, want, frees, calls>>

mprotect_helper ==
    /\ AtLeaf("mprotect")
    /\ mem' = Set(mem, Here, Idx, Pte(Entry.frame, (Entry.flags \cap {"PS"}) \cup walk.flags))
    /\ walk' = Advance /\ Served(walk.root, Protected)
    /\ UNCHANGED <<ref, free, pins, roots, look, proc, place, frees, calls>>

\* Variant: the base address for every page.
MapPhysKeepsBase(p) == walk.pa

map_phys_frame(p) == walk.pa + (p - walk.va)

map_phys_helper ==
    /\ AtLeaf("map_phys")
    /\ mem' = Set(mem, Here, Idx, Pte(map_phys_frame(Base), walk.flags))
    /\ walk' = Advance /\ Served(walk.root, Placed)
    /\ UNCHANGED <<ref, free, pins, roots, look, proc, place, frees, calls>>

map_pages_helper ==
    LET New(p) == Pte(alloc_page, walk.flags)
    IN  /\ AtLeaf("map_pages")
        /\ IF free = {} THEN walk' = None /\ UNCHANGED <<mem, ref, free, want>>
           ELSE /\ mem' = Set(Blank, Here, Idx, Pte(alloc_page, walk.flags))
                /\ ref' = Taken /\ free' = free \ {alloc_page}
                /\ walk' = Advance /\ Served(walk.root, New)
        /\ UNCHANGED <<pins, roots, look, proc, place, frees, calls>>

\* For dune_vm_unmap.
free_helper ==
    /\ AtLeaf("free")
    /\ ref' = PutRef(Entry.frame, ref) /\ free' = PutFree(Entry.frame, ref, free)
    /\ mem' = Set(PutMem(Entry.frame, mem), Here, Idx, None)
    /\ walk' = Advance /\ Served(walk.root, Gone)
    /\ UNCHANGED <<pins, roots, look, proc, place, frees, calls>>

\* For dune_vm_free: the frame is a directory, or a big page.
free_directory ==
    /\ AtLeaf("destroy")
    /\ ref' = PutRef(Entry.frame, ref) /\ free' = PutFree(Entry.frame, ref, free)
    /\ mem' = Set(PutMem(Entry.frame, mem), Here, Idx, None)
    /\ place' = IF Entry.frame \in Frames THEN [place EXCEPT ![Entry.frame] = None] ELSE place
    /\ walk' = Advance
    /\ UNCHANGED <<pins, roots, look, proc, want, frees, calls>>

put_root ==
    /\ Walking({"put"})
    /\ ref' = PutRef(walk.root, ref) /\ free' = PutFree(walk.root, ref, free)
    /\ mem' = PutMem(walk.root, mem) /\ walk' = None
    /\ place' = [d \in Frames |->
                    IF place[d] # None /\ place[d].root = walk.root THEN None ELSE place[d]]
    /\ UNCHANGED <<pins, roots, look, proc, want, frees, calls>>

-----------------------------------------------------------------------------
\* dune_vm_lookup with create.
Lookup(root, p) == [root |-> root, page |-> p, level |-> Top, dirs |-> [l \in Levels |-> root]]

LookDir == look.dirs[look.level]
LookIdx == PDX(look.level, look.page)
LookEntry == mem[LookDir][LookIdx]
Looking == proc = "run" /\ look # None
Found ==
    Looking /\ (look.level = 0 \/ (look.level < Top /\ pte_present(LookEntry) /\ pte_big(LookEntry)))

LookDown ==
    /\ Looking /\ ~Found /\ pte_present(LookEntry)
    /\ look' = [look EXCEPT !.level = @ - 1, !.dirs[look.level - 1] = LookEntry.frame]
    /\ UNCHANGED <<mem, ref, free, pins, roots, walk, proc, want, place, frees, calls>>

\* The result of alloc_page is not tested.
LookLink ==
    /\ Looking /\ ~Found /\ ~pte_present(LookEntry)
    /\ IF free = {} THEN proc' = "null" /\ UNCHANGED <<mem, ref, free, pins, place>>
       ELSE Link(LookDir, LookIdx) /\ UNCHANGED proc
    /\ UNCHANGED <<roots, walk, look, want, frees, calls>>

\* __dune_vm_clone_helper up to the lookup in the new root, and after it.
CloneLooks ==
    /\ AtLeaf("clone")
    /\ look' = Lookup(walk.to, Base)
    /\ UNCHANGED <<mem, ref, free, pins, roots, walk, proc, want, place, frees, calls>>

\* Variant: a clone that takes no reference.
CloneWithoutGet(f) == ref

GetRef(f) == IF f \in Pool THEN [ref EXCEPT ![f] = @ + 1] ELSE ref

clone_helper ==
    /\ Found /\ walk # None
    /\ ref' = GetRef(Entry.frame) /\ mem' = Set(mem, LookDir, LookIdx, Entry)
    /\ pins' = IF MapsPool(Entry) THEN [pins EXCEPT ![Entry.frame] = @ + 1] ELSE pins
    /\ look' = None /\ walk' = Advance /\ Served(walk.to, FirstOnly)
    /\ UNCHANGED <<free, roots, proc, place, frees, calls>>

\* A fault handler fills the entry of an absent page (page.c, the sandbox).
FillLooks(p) ==
    /\ Begin(<<p, p>>) /\ Fresh(pgroot, p)
    /\ look' = Lookup(pgroot, p)
    /\ UNCHANGED <<mem, ref, free, pins, roots, walk, proc, want, place, frees>>

FillEntry ==
    LET e == Pte(Identity(look.page), {"P", "W"})
    IN  /\ Found /\ walk = None
        /\ mem' = Set(mem, LookDir, LookIdx, e) /\ look' = None
        /\ want' = [want EXCEPT ![pgroot] = [@ EXCEPT ![look.page] = e]]
        /\ UNCHANGED <<ref, free, pins, roots, walk, proc, place, frees, calls>>

\* dune_vm_default_pgflt_handler, for a write that the processor refuses.  The
\* error code has FEC_P when the entry is present, so that only an entry with
\* PTE_COW and no permission at all gets past the assertion to be copied.
WriteFaults(e) == e # None /\ ~({"P", "W"} \subseteq e.flags)

dune_vm_default_pgflt_handler(p) ==
    LET at == Leaf(mem, pgroot, p)
        e == LeafEntry(mem, pgroot, p)
        perm == (e.flags \ {"COW"}) \cup {"W"}
        Becomes(m, f) ==
            /\ mem' = Set(m, at.dir, PDX(at.level, p), Pte(f, perm))
            /\ want' = [want EXCEPT ![pgroot] = [@ EXCEPT ![p] = Pte(f, perm \ {"PS"})]]
    IN  /\ Begin(<<p, p>>) /\ WriteFaults(e)
        /\ IF "P" \in e.flags \/ at.level > 0    \* FEC_P, or -ENOENT for a big page
           THEN proc' = "die" /\ UNCHANGED <<mem, ref, free, want>>
           ELSE /\ "COW" \in e.flags
                /\ IF e.frame \in Pool /\ ref[e.frame] = 1
                   THEN Becomes(mem, e.frame) /\ UNCHANGED <<ref, free, proc>>
                   ELSE IF free = {} THEN proc' = "null" /\ UNCHANGED <<mem, ref, free, want>>
                   ELSE /\ ref' = PutRef(e.frame, Taken) /\ Becomes(Blank, alloc_page)
                        /\ free' = PutFree(e.frame, Taken, free \ {alloc_page})
                        /\ UNCHANGED proc
        /\ UNCHANGED <<pins, roots, walk, look, place, frees>>

setup_mappings == dune_vm_map_phys(pgroot, PoolRange, PoolFirst, {"R", "W", "BIG"})

Next ==
    \/ setup_mappings
    \/ \E r \in roots, range \in Ranges, perm \in Perms :
        \/ dune_vm_map_phys(r, range, Identity(range[1]), perm)
        \/ dune_vm_map_pages(r, range, perm)
        \/ dune_vm_mprotect(r, range, perm)
    \/ \E r \in roots :
        \/ \E range \in BigRanges :
            dune_vm_map_phys(r, range, Identity(range[1]), {"R", "W", "BIG"})
        \/ \E range \in GiantRanges :
            dune_vm_map_phys(r, range, Identity(range[1]), {"R", "W", "BIG_1GB"})
        \/ \E range \in Ranges : dune_vm_unmap(r, range)
        \/ dune_vm_clone(r) \/ dune_vm_free(r)
    \/ \E range \in Ranges : FillLooks(range[1]) \/ dune_vm_default_pgflt_handler(range[1])
    \/ WalkSkip \/ WalkDown \/ WalkLink
    \/ mprotect_helper \/ map_phys_helper \/ map_pages_helper \/ free_helper
    \/ free_directory \/ put_root
    \/ LookDown \/ LookLink \/ CloneLooks \/ clone_helper \/ FillEntry

Spec == Init /\ [][Next]_vars

-----------------------------------------------------------------------------
\* Every counter counts, every directory's entries lie in memory.
PtTypeOK ==
    /\ proc \in {"run", "die", "null"} /\ roots \subseteq Frames /\ pgroot \in roots
    /\ \A p \in Pool : ref[p] \in Nat
    /\ \A d \in Frames, i \in Index :
            mem[d][i] = None \/ (mem[d][i].frame \in Nat /\ mem[d][i].flags \subseteq Flags)

\* The page tables mean what was asked for: under every root the processor
\* finds for every page the frame and the permissions that the calls since
\* the last mapping of that page gave it, and nothing for other pages; under a
\* clone what the original had, but of a big page only its first small page.
FlatAgrees ==
    proc = "run" =>
        \A r \in roots, p \in Pages : Translate(mem, r, p) = want[r][p]

\* The tables that the directories in a set of level have entries for; the
\* directories in use.
Tables(level, dirs) ==
    {mem[x[1]][x[2]].frame : x \in {y \in dirs \X Index : IsTable(level, mem[y[1]][y[2]])}}
Dirs ==
    LET d2 == Tables(3, roots)
        d1 == Tables(2, d2)
    IN  roots \cup d2 \cup d1 \cup Tables(1, d1)

\* The references to frame f: as a root, and from entries of directories.  The
\* big entries of the pool's window and their copies are not meant as such.
Uses(dirs, f) ==
    (IF f \in roots THEN 1 ELSE 0)
    + Cardinality({x \in dirs \X Index : LET e == mem[x[1]][x[2]]
                                        IN  e # None /\ ~pte_big(e) /\ e.frame = f})

\* Until a tree is freed the counts are those of the uses, and of the copies
\* that clones made of the pool's window, so that a page without a copy is
\* given back with its last use; and a page that is off the list has either.
\* (dune_vm_free, whose walks begin too low, drops too few references.)
CountsMatch == proc = "run" /\ frees = 0 =>
    LET dirs == Dirs
    IN  \A f \in Pool : /\ ref[f] = Uses(dirs, f) + pins[f]
                        /\ f \notin free => Uses(dirs, f) + pins[f] > 0

\* No root, table or mapped page of a tree in use is on the list of free pages
\* or has fewer references than uses, whatever was cloned, unmapped and freed;
\* also when a clone has counted a page of the list, through the pool's window.
NothingDangles == PtTypeOK /\ (proc = "run" =>
    LET dirs == Dirs
    IN  \A f \in Pool : Uses(dirs, f) <= ref[f] /\ (f \in free => Uses(dirs, f) = 0))
=============================================================================
