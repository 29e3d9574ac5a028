--------------------------- MODULE SandboxProofs ---------------------------
(***************************************************************************)
(* The sandbox.  What the program was given stays its own, for any number  *)
(* of threads and calls and any sizes, as long as no call without          *)
(* _syscall_mtx overlaps with another one, but for the pages that umm.c    *)
(* takes away itself; and dune_pthread_create returns the tid of the       *)
(* thread that it has made.                                                *)
(***************************************************************************)
EXTENDS SandboxMem, SandboxThread, TLAPS

USE SandboxMemAssumption

-----------------------------------------------------------------------------
(***************************************************************************)
(* The inductive invariant of SandboxMem.  Lengths are counted in pages:   *)
(* the heap ends before page HeapEnd, the mappings begin at MapStart.      *)
(* Nothing is said of states after calls have overlapped.                  *)
(***************************************************************************)

HeapEnd == brk_len \div PGSIZE
MapStart == SpacePages - mmap_len \div PGSIZE

\* The pages that len bytes take.
PagesOf(len) == (len + PGSIZE - 1) \div PGSIZE

Regions == [tag : Tags \cup {None}, first : Nat, count : Nat]
MapKinds == {"mmap", "shmat", "mremap"}
Kinds == {"none", "brk", "munmap", "mprotect"} \cup MapKinds
Ops == [pc : {"idle", "host", "table", "finish"}, kind : Kinds,
        new : Regions, old : Regions, len : Nat, own : BOOLEAN, prot : SUBSET {"R", "W"}]

\* Heap, free pages and mappings follow in this order, in whole pages.
LenInv ==
    /\ brk_len \in Nat /\ mmap_len \in Nat
    /\ brk_len = HeapEnd * PGSIZE /\ HeapEnd \in Nat
    /\ mmap_len = (SpacePages - MapStart) * PGSIZE /\ MapStart \in Int
    /\ HeapEnd <= MapStart /\ MapStart <= SpacePages

DataInv ==
    /\ host \in [Pages -> Tags \cup {None}] /\ given \in [Pages -> Tags \cup {None}]
    /\ table \subseteq Pages /\ mutex \in Threads \cup {None} /\ calls \in 0..MaxCalls

\* Where the call puts what it maps and what it removes, when it picks the place.
PlaceOK(o) ==
    /\ o.kind = "brk" =>
         LET n == o.len \div PGSIZE
         IN  /\ o.len = n * PGSIZE /\ n <= MapStart
             /\ \/ HeapEnd < n /\ In(o.new) = HeapEnd..(n - 1)
                \/ n < HeapEnd /\ In(o.old) = n..(HeapEnd - 1) /\ In(o.new) = {}
    /\ o.kind \in MapKinds /\ ~o.own =>
         IF o.kind = "mremap" /\ o.pc = "finish"
         THEN In(o.new) = MapStart..(MapStart + PagesOf(o.len) - 1)
         ELSE /\ In(o.new) = (MapStart - PagesOf(o.len))..(MapStart - 1)
              /\ HeapEnd <= MapStart - PagesOf(o.len)
    /\ o.kind \notin MapKinds \cup {"brk"} => In(o.new) = {}
    /\ o.own => o.kind \in MapKinds

\* What the program has in the pages of a call: nothing that the call replaces, but
\* unsafe pages; a call has mapped and removed by now what it should have.
DoneOK(o) ==
    /\ o.pc # "host" => \A p \in In(o.old) \cap Pages : given[p] # None => p \in unsafe
    /\ ~(o.own /\ o.pc = "host") => \A p \in In(o.new) : given[p] # None => p \in unsafe
    /\ o.pc \in {"table", "finish"} => \A p \in In(o.new) : host[p] = o.new.tag
    /\ o.pc = "finish" => In(o.new) \subseteq table /\ In(o.old) \cap table \subseteq In(o.new)

OpOK(t, o) ==
    /\ o \in Ops
    /\ o.pc = "idle" => o = Idle
    /\ o.pc # "idle" => o.kind # "none" /\ proc # "start"
    /\ o.kind \in Locked => mutex = t
    /\ In(o.new) \subseteq Pages /\ (In(o.new) # {} => o.new.tag \in Tags)
    /\ PlaceOK(o) /\ DoneOK(o)

\* Calls are one at a time.
CallsInv ==
    /\ op = [t \in Threads |-> op[t]]
    /\ \A t \in Threads : OpOK(t, op[t])
    /\ \A t, u \in Threads : t # u => op[t] = Idle \/ op[u] = Idle

\* The program has nothing in the free pages that would be safe there.
FreeInv == \A p \in Pages : HeapEnd <= p /\ p < MapStart /\ given[p] # None => p \in unsafe

KeptInv ==
    \A p \in Pages : p \notin unsafe /\ given[p] # None => host[p] = given[p] /\ p \in table

\* The page table maps what the process has, except what a call is about to take out.
StrayInv ==
    \A p \in Pages : p \in table \ left =>
        host[p] # None \/ \E t \in Threads : op[t].pc = "table" /\ p \in In(op[t].old)

MemOK == LenInv /\ DataInv /\ CallsInv /\ FreeInv /\ KeptInv /\ StrayInv

\* The invariant, until calls overlap.
MemInv ==
    /\ mixed \in BOOLEAN /\ proc \in {"start", "run", "exit", "die"}
    /\ ~mixed => MemOK

-----------------------------------------------------------------------------
(***************************************************************************)
(* Bytes and pages.                                                        *)
(***************************************************************************)

\* What whole pages do to division and order.
LEMMA WholePages ==
    /\ \A a \in Int : (a * PGSIZE) \div PGSIZE = a
    /\ \A a \in Int : (a * PGSIZE) % PGSIZE = 0
    /\ \A a, b \in Int : a * PGSIZE < b * PGSIZE <=> a < b
    /\ \A a, b \in Int : a * PGSIZE = b * PGSIZE <=> a = b
    /\ \A a, b \in Int : /\ a * PGSIZE + b * PGSIZE = (a + b) * PGSIZE
                         /\ a * PGSIZE - b * PGSIZE = (a - b) * PGSIZE
<1>1. \A a \in Int : (a * PGSIZE) \div PGSIZE = a  OBVIOUS
<1>2. \A a \in Int : (a * PGSIZE) % PGSIZE = 0  OBVIOUS
<1>3. \A a, b \in Int : a * PGSIZE < b * PGSIZE <=> a < b  OBVIOUS
<1>4. \A a, b \in Int : a * PGSIZE = b * PGSIZE <=> a = b  OBVIOUS
<1>5. \A a, b \in Int : /\ a * PGSIZE + b * PGSIZE = (a + b) * PGSIZE
                        /\ a * PGSIZE - b * PGSIZE = (a - b) * PGSIZE
  OBVIOUS
<1>. QED BY <1>1, <1>2, <1>3, <1>4, <1>5

\* RoundUp gives the least number of whole pages that hold len bytes.
LEMMA RoundUpPages ==
    \A len \in Nat : /\ PagesOf(len) \in Nat /\ RoundUp(len) = PagesOf(len) * PGSIZE
                     /\ len <= PagesOf(len) * PGSIZE /\ PagesOf(len) * PGSIZE < len + PGSIZE
BY DEF PagesOf, RoundUp

\* Room for len bytes is room for the pages they take.
LEMMA RoomForPages ==
    ASSUME LenInv, NEW len \in Nat
    PROVE  /\ umm_space_left(len) => HeapEnd + PagesOf(len) <= MapStart
           /\ \A k \in Nat : umm_space_left(k * PGSIZE) => HeapEnd + k < MapStart
<1>1. /\ HeapEnd \in Int /\ MapStart \in Int /\ SpacePages \in Int
      /\ brk_len = HeapEnd * PGSIZE /\ mmap_len = (SpacePages - MapStart) * PGSIZE
  BY DEF LenInv
<1>2. PagesOf(len) \in Nat /\ RoundUp(len) = PagesOf(len) * PGSIZE
      /\ PagesOf(len) * PGSIZE < len + PGSIZE
  BY RoundUpPages
<1>3. \A h, m, k, n \in Int :
        /\ k * PGSIZE < n + PGSIZE
        /\ h * PGSIZE + (SpacePages - m) * PGSIZE + n < SpacePages * PGSIZE
        => (h + k) * PGSIZE < (m + 1) * PGSIZE
  OBVIOUS
<1>4. \A h, m, k \in Int :
        h * PGSIZE + (SpacePages - m) * PGSIZE + k * PGSIZE < SpacePages * PGSIZE
        => (h + k) * PGSIZE < m * PGSIZE
  OBVIOUS
<1>5. umm_space_left(len) => (HeapEnd + PagesOf(len)) * PGSIZE < (MapStart + 1) * PGSIZE
  BY <1>1, <1>2, <1>3 DEF umm_space_left, Space
<1>6. \A k \in Nat : umm_space_left(k * PGSIZE) => (HeapEnd + k) * PGSIZE < MapStart * PGSIZE
  BY <1>1, <1>4 DEF umm_space_left, Space
<1>7. umm_space_left(len) => HeapEnd + PagesOf(len) <= MapStart
  <2>1. HeapEnd + PagesOf(len) \in Int /\ MapStart + 1 \in Int  BY <1>1, <1>2
  <2>2. umm_space_left(len) => HeapEnd + PagesOf(len) < MapStart + 1
    BY <1>5, <2>1, WholePages
  <2>. QED BY <1>1, <1>2, <2>2
<1>8. ASSUME NEW k \in Nat, umm_space_left(k * PGSIZE) PROVE HeapEnd + k < MapStart
  <2>1. HeapEnd + k \in Int  BY <1>1
  <2>. QED BY <1>1, <1>6, <1>8, <2>1, WholePages
<1>. QED BY <1>7, <1>8

\* A new mapping is put right below the others.
LEMMA BelowOthers ==
    ASSUME LenInv, NEW len \in Nat, NEW tag
    PROVE  Below(tag, len) = Region(tag, MapStart - PagesOf(len), PagesOf(len))
<1>1. /\ MapStart \in Int /\ mmap_len = (SpacePages - MapStart) * PGSIZE
  BY DEF LenInv
<1>2. PagesOf(len) \in Nat /\ RoundUp(len) = PagesOf(len) * PGSIZE
  BY RoundUpPages
<1>3. \A m, k \in Int : SpacePages * PGSIZE - (SpacePages - m) * PGSIZE - k * PGSIZE
                          = (m - k) * PGSIZE
  OBVIOUS
<1>4. umm_get_map_pos - RoundUp(len) = (MapStart - PagesOf(len)) * PGSIZE
  BY <1>1, <1>2, <1>3 DEF umm_get_map_pos, Space
<1>5. MapStart - PagesOf(len) \in Int  BY <1>1, <1>2
<1>6. (umm_get_map_pos - RoundUp(len)) \div PGSIZE = MapStart - PagesOf(len)
  BY <1>4, <1>5, WholePages
<1>7. RoundUp(len) \div PGSIZE = PagesOf(len)
  BY <1>2, WholePages
<1>. QED BY <1>6, <1>7 DEF Below

\* Lengths stay whole pages when whole pages are added.
LEMMA MapStartMoves ==
    ASSUME LenInv, NEW k \in Nat, mmap_len' = mmap_len + k * PGSIZE
    PROVE  /\ mmap_len' \in Nat /\ mmap_len' = (SpacePages - MapStart') * PGSIZE
           /\ MapStart' = MapStart - k /\ MapStart' \in Int
<1>1. /\ MapStart \in Int /\ mmap_len = (SpacePages - MapStart) * PGSIZE /\ mmap_len \in Nat
      /\ SpacePages \in Int
  BY DEF LenInv
<1>2. \A m \in Int : (SpacePages - m) * PGSIZE + k * PGSIZE = (SpacePages - (m - k)) * PGSIZE
  OBVIOUS
<1>3. mmap_len' = (SpacePages - (MapStart - k)) * PGSIZE /\ MapStart - k \in Int
  BY <1>1, <1>2
<1>4. k * PGSIZE \in Nat  OBVIOUS
<1>5. mmap_len' \div PGSIZE = SpacePages - (MapStart - k)
  BY <1>1, <1>3, WholePages
<1>6. MapStart' = SpacePages - mmap_len' \div PGSIZE  BY DEF MapStart
<1>7. MapStart' = MapStart - k  BY <1>1, <1>5, <1>6
<1>. QED BY <1>1, <1>3, <1>4, <1>7

\* The free pages, in pages.
LEMMA FreePages ==
    ASSUME LenInv, NEW p \in Pages
    PROVE  p \in FreeArea <=> HeapEnd <= p /\ p < MapStart
<1>1. /\ HeapEnd \in Int /\ MapStart \in Int /\ p \in Int /\ brk_len = HeapEnd * PGSIZE
      /\ mmap_len = (SpacePages - MapStart) * PGSIZE
  BY DEF LenInv, Pages
<1>2. umm_get_map_pos = MapStart * PGSIZE
  <2>1. \A m \in Int : SpacePages * PGSIZE - (SpacePages - m) * PGSIZE = m * PGSIZE  OBVIOUS
  <2>. QED BY <1>1, <2>1 DEF umm_get_map_pos, Space
<1>3. p * PGSIZE < MapStart * PGSIZE <=> p < MapStart  BY <1>1, WholePages
<1>4. p * PGSIZE < HeapEnd * PGSIZE <=> p < HeapEnd  BY <1>1, WholePages
<1>5. brk_len <= p * PGSIZE <=> HeapEnd <= p
  <2>1. p * PGSIZE \in Int /\ HeapEnd * PGSIZE \in Int  BY <1>1
  <2>. QED BY <1>1, <1>4, <2>1
<1>. QED BY <1>2, <1>3, <1>5 DEF FreeArea

\* Two lengths that do not change.
LEMMA SameLengths ==
    ASSUME LenInv, UNCHANGED <<brk_len, mmap_len>>
    PROVE  LenInv' /\ HeapEnd' = HeapEnd /\ MapStart' = MapStart
BY DEF LenInv, HeapEnd, MapStart

\* The pages of a region, and no pages at all.
LEMMA RegionPages ==
    /\ \A tag : \A f, c \in Int : In(Region(tag, f, c)) = f..(f + c - 1)
    /\ In(Empty) = {} /\ Empty \in Regions
    /\ Idle \in Ops /\ Idle.pc = "idle" /\ Idle.kind = "none" /\ Idle.new = Empty
    /\ Idle.old = Empty /\ Idle.own = FALSE
BY DEF In, Region, Empty, Idle, Op, Ops, Regions, Kinds

\* A thread between calls is in no one's way.
LEMMA IdleOK == ASSUME NEW t \in Threads PROVE OpOK(t, Idle) /\ OpOK(t, Idle)'
BY RegionPages DEF OpOK, PlaceOK, DoneOK, Locked, MapKinds

\* What a mapping or unmapping of pages does to a map.
LEMMA MapChanges ==
    ASSUME NEW f \in [Pages -> Tags \cup {None}], NEW r \in Regions
    PROVE  /\ Mapped(f, r) \in [Pages -> Tags \cup {None}]
           /\ Unmapped(f, r) \in [Pages -> Tags \cup {None}]
           /\ \A p \in Pages : /\ Mapped(f, r)[p] = IF p \in In(r) THEN r.tag ELSE f[p]
                               /\ Unmapped(f, r)[p] = IF p \in In(r) THEN None ELSE f[p]
<1>1. r.tag \in Tags \cup {None}  BY DEF Regions
<1>. QED BY <1>1 DEF Mapped, Unmapped

\* The one call under way goes on, or comes to its end, or a first one begins.
LEMMA OneCall ==
    ASSUME CallsInv, NEW t \in Threads, NEW o, OpOK(t, o)',
           op' = [op EXCEPT ![t] = o], \A u \in Threads : u # t => op[u] = Idle
    PROVE  /\ CallsInv' /\ op'[t] = o /\ \A u \in Threads : u # t => op'[u] = Idle
<1>1. /\ op' = [u \in Threads |-> op'[u]] /\ op'[t] = o
      /\ \A u \in Threads : u # t => op'[u] = Idle
  BY DEF CallsInv
<1>2. \A u \in Threads : OpOK(u, op[u])'
  <2> TAKE u \in Threads
  <2>1. OpOK(u, Idle)'  BY IdleOK
  <2>. QED BY <1>1, <2>1 DEF OpOK, PlaceOK, DoneOK
<1>. QED BY <1>1, <1>2 DEF CallsInv

\* A thread in a call is the only one.
LEMMA OnlyCall ==
    ASSUME CallsInv, NEW t \in Threads, op[t].pc # "idle"
    PROVE  /\ \A u \in Threads : u # t => op[u] = Idle
           /\ OpOK(t, op[t]) /\ op[t] \in Ops
           /\ op[t].new \in Regions /\ op[t].old \in Regions
BY RegionPages DEF CallsInv, OpOK, Ops

-----------------------------------------------------------------------------
(***************************************************************************)
(* The invariant holds initially, and beginning a call keeps it.           *)
(***************************************************************************)

\* No call and no mapping yet.
LEMMA MemInit == Init => MemInv
<1> SUFFICES ASSUME Init PROVE MemInv
  OBVIOUS
<1>1. HeapEnd = 0 /\ MapStart = SpacePages
  BY WholePages DEF Init, HeapEnd, MapStart
<1>2. LenInv  BY <1>1 DEF LenInv, Init
<1>3. DataInv  BY DEF DataInv, Init
<1>4. CallsInv
  <2>1. \A t \in Threads : op[t] = Idle  BY DEF Init
  <2>2. \A t \in Threads : OpOK(t, Idle)  BY IdleOK
  <2>. QED BY <2>1, <2>2 DEF CallsInv, Init
<1>5. FreeInv /\ KeptInv /\ StrayInv  BY DEF FreeInv, KeptInv, StrayInv, Init
<1>. QED BY <1>2, <1>3, <1>4, <1>5 DEF MemInv, MemOK, Init

\* The stack goes to the upper end of the free pages, less its lowest page.
LEMMA StackStep == ASSUME MemOK, umm_alloc_stack PROVE MemOK'
<1> USE DEF MemOK
<1>1. PICK r : r = Region(Stack, SpacePages - StackPages + 1, StackPages - 1)
  OBVIOUS
<1>2. /\ host' = Mapped(host, r) /\ table' = table \cup In(r) /\ given' = Mapped(given, r)
      /\ mmap_len' = mmap_len + StackPages * PGSIZE /\ proc = "start" /\ proc' = "run"
      /\ UNCHANGED <<brk_len, mutex, calls, mixed, left, unsafe, op>>
      /\ umm_space_left(StackPages * PGSIZE)
  BY <1>1 DEF umm_alloc_stack
<1>3. /\ r \in Regions /\ r.tag = Stack /\ r.tag \in Tags
      /\ In(r) = (SpacePages - StackPages + 1)..(SpacePages - 1)
  BY <1>1 DEF Region, Regions, Tags, Stack, Heap, In
<1>4. /\ mmap_len' \in Nat /\ mmap_len' = (SpacePages - MapStart') * PGSIZE
      /\ MapStart' = MapStart - StackPages /\ MapStart' \in Int
  BY <1>2, MapStartMoves
<1>5. HeapEnd' = HeapEnd /\ HeapEnd \in Nat  BY <1>2 DEF HeapEnd, LenInv
<1>6. HeapEnd + StackPages < MapStart
  <2>1. 0 \in Nat  OBVIOUS
  <2>. QED BY <1>2, <2>1, RoomForPages
<1>7. \A t \in Threads : op[t] = Idle /\ op'[t] = Idle
  BY <1>2 DEF CallsInv, OpOK
<1>8. LenInv'  BY <1>2, <1>4, <1>5, <1>6 DEF LenInv
<1>9. In(r) \subseteq Pages  BY <1>3 DEF Pages
<1>10. /\ DataInv'
       /\ \A p \in Pages : host'[p] = IF p \in In(r) THEN r.tag ELSE host[p]
       /\ \A p \in Pages : given'[p] = IF p \in In(r) THEN r.tag ELSE given[p]
  BY <1>2, <1>3, <1>9, MapChanges DEF DataInv
<1>11. CallsInv'
  <2>1. \A t \in Threads : OpOK(t, Idle)'  BY IdleOK
  <2>. QED BY <1>2, <1>7, <2>1 DEF CallsInv
<1>12. FreeInv'
  <2>1. \A p \in Pages : p < MapStart' => p < MapStart /\ p \notin In(r)
    BY <1>3, <1>4 DEF LenInv, Pages
  <2>. QED BY <1>2, <1>5, <1>10, <2>1 DEF FreeInv
<1>13. KeptInv'  BY <1>2, <1>10 DEF KeptInv
<1>14. StrayInv'
  <2>1. Stack # None  BY <1>3
  <2>. QED BY <1>2, <1>3, <1>7, <1>10, <2>1, RegionPages DEF StrayInv
<1>. QED BY <1>8, <1>10, <1>11, <1>12, <1>13, <1>14

\* A call that begins keeps the invariant; without an overlap it is the only one.
LEMMA StartStep ==
    ASSUME MemOK, NEW t \in Threads, NEW kind \in Kinds \ {"none"}, Enter(t, kind), ~mixed',
           NEW new \in Regions, NEW old \in Regions, NEW len \in Nat, NEW own \in BOOLEAN,
           NEW prot \in SUBSET {"R", "W"}, Start(t, kind, new, old, len, own, prot),
           In(new) \subseteq Pages, In(new) # {} => new.tag \in Tags,
           PlaceOK(Op("host", kind, new, old, len, own, prot)),
           ~own => \A p \in In(new) : HeapEnd <= p /\ p < MapStart
    PROVE  MemOK'
<1> USE DEF MemOK
<1>1. PICK o : o = Op("host", kind, new, old, len, own, prot)
  OBVIOUS
<1>2. /\ o \in Ops /\ o.pc = "host" /\ o.kind = kind /\ o.new = new /\ o.old = old
      /\ o.len = len /\ o.own = own
  BY <1>1 DEF Op, Ops
<1>3. /\ op' = [op EXCEPT ![t] = o] /\ mutex' = IF kind \in Locked THEN t ELSE mutex
      /\ proc = "run" /\ calls' \in 0..MaxCalls /\ op[t] = Idle
      /\ UNCHANGED <<brk_len, mmap_len, host, table, given, unsafe, left, proc>>
      /\ kind \in Locked => mutex = None
  BY <1>1 DEF Start, Enter, space, DataInv, CallsInv, OpOK
<1>4. \A u \in Threads : u # t => op[u] = Idle
  <2> SUFFICES ASSUME NEW u \in Threads, u # t, op[u] # Idle PROVE FALSE
    OBVIOUS
  <2>1. {kind, op[u].kind} \subseteq Locked  BY DEF Start
  <2>2. mutex = u /\ mutex = None  BY <1>3, <2>1 DEF CallsInv, OpOK
  <2>. QED BY <2>2
<1>5. LenInv' /\ HeapEnd' = HeapEnd /\ MapStart' = MapStart  BY <1>3, SameLengths
<1>6. DataInv'  BY <1>3 DEF DataInv
<1>7. OpOK(t, o)'
  <2>1. PlaceOK(o)'
    <3>1. PlaceOK(o)  BY <1>1
    <3>. QED BY <1>5, <3>1 DEF PlaceOK
  <2>2. DoneOK(o)'
    <3>1. ~own => \A p \in In(new) : given[p] # None => p \in unsafe  BY DEF FreeInv
    <3>. QED BY <1>2, <1>3, <3>1 DEF DoneOK
  <2>. QED BY <1>2, <1>3, <2>1, <2>2 DEF OpOK
<1>8. CallsInv' /\ op'[t] = o /\ \A u \in Threads : u # t => op'[u] = Idle
  BY <1>3, <1>4, <1>7, OneCall
<1>9. FreeInv' /\ KeptInv'  BY <1>3, <1>5 DEF FreeInv, KeptInv
<1>10. StrayInv'
  <2>1. \A u \in Threads : op[u].pc # "table"  BY <1>3, <1>4, RegionPages
  <2>. QED BY <1>3, <2>1 DEF StrayInv
<1>. QED BY <1>5, <1>6, <1>8, <1>9, <1>10

\* A call that is refused.
LEMMA RefuseStep ==
    ASSUME MemOK, NEW t, NEW kind, Enter(t, kind), Refuse
    PROVE  MemOK'
<1>1. /\ UNCHANGED <<brk_len, mmap_len, host, table, given, unsafe, left, op, mutex, proc>>
      /\ calls' \in 0..MaxCalls
  BY DEF MemOK, DataInv, Enter, Refuse, space
<1>2. LenInv' /\ HeapEnd' = HeapEnd /\ MapStart' = MapStart
  BY <1>1, SameLengths DEF MemOK
<1>3. \A u \in Threads : OpOK(u, op[u]) => OpOK(u, op[u])'
  BY <1>1, <1>2 DEF OpOK, PlaceOK, DoneOK
<1>. QED BY <1>1, <1>2, <1>3 DEF MemOK, DataInv, CallsInv, FreeInv, KeptInv, StrayInv

\* The mapping of a call is not None.
LEMMA EnterCounts ==
    ASSUME MemOK, NEW t, NEW kind, Enter(t, kind)
    PROVE  calls' \in Tags /\ Segment(calls') \in Tags
BY DEF MemOK, DataInv, Enter, Tags, Heap, Stack, Segment

\* brk: the heap grows into free pages or gives some back.
LEMMA BrkStep ==
    ASSUME MemOK, NEW t \in Threads, NEW len \in Nat, umm_brk(t, len), ~mixed'
    PROVE  MemOK'
<1>1. Enter(t, "brk") /\ "brk" \in Kinds \ {"none"}  BY DEF umm_brk, Kinds
<1>2. /\ LenInv /\ HeapEnd \in Nat /\ MapStart \in Int /\ brk_len = HeapEnd * PGSIZE
      /\ MapStart <= SpacePages /\ HeapEnd <= MapStart
  BY DEF MemOK, LenInv
<1>3. PICK n \in Nat : n = PagesOf(len) /\ RoundUp(len) = n * PGSIZE
  BY RoundUpPages
<1>4. RoundUp(len) \in Nat /\ RoundUp(len) \div PGSIZE = n /\ FALSE \in BOOLEAN
      /\ {} \in SUBSET {"R", "W"}
  BY <1>3, WholePages
<1>5. CASE Refuse
  BY <1>1, <1>5, RefuseStep
<1>6. CASE /\ umm_space_left(RoundUp(len)) /\ RoundUp(len) > brk_len
           /\ Start(t, "brk", Region(Heap, brk_len \div PGSIZE,
                                     (RoundUp(len) - brk_len) \div PGSIZE), Empty,
                    RoundUp(len), FALSE, {})
  <2>1. HeapEnd + n < MapStart  BY <1>2, <1>3, <1>6, RoomForPages
  <2>2. HeapEnd < n  BY <1>2, <1>3, <1>6, WholePages
  <2>3. (RoundUp(len) - brk_len) \div PGSIZE = n - HeapEnd
    <3>1. RoundUp(len) - brk_len = (n - HeapEnd) * PGSIZE /\ n - HeapEnd \in Int
      BY <1>2, <1>3, WholePages
    <3>. QED BY <3>1, WholePages
  <2>4. PICK new : new = Region(Heap, HeapEnd, n - HeapEnd)  OBVIOUS
  <2>5. Start(t, "brk", new, Empty, n * PGSIZE, FALSE, {})
    BY <1>3, <1>6, <2>3, <2>4 DEF HeapEnd
  <2>6. new \in Regions /\ new.tag \in Tags
    BY <1>2, <2>2, <2>4 DEF Regions, Region, Tags, Stack, Heap
  <2>7. In(new) = HeapEnd..(n - 1)
    BY <1>2, <2>2, <2>4, RegionPages
  <2>8. In(new) \subseteq Pages /\ \A p \in In(new) : HeapEnd <= p /\ p < MapStart
    BY <1>2, <2>1, <2>7 DEF Pages
  <2>9. PlaceOK(Op("host", "brk", new, Empty, n * PGSIZE, FALSE, {}))
    BY <1>2, <1>3, <1>4, <2>1, <2>2, <2>7 DEF PlaceOK, Op, MapKinds
  <2>. QED BY <1>1, <1>3, <1>4, <2>5, <2>6, <2>8, <2>9, RegionPages, StartStep
<1>7. CASE RoundUp(len) < brk_len /\ Start(t, "brk", Empty,
                Region(Heap, RoundUp(len) \div PGSIZE, (brk_len - RoundUp(len)) \div PGSIZE),
                RoundUp(len), FALSE, {})
  <2>1. n < HeapEnd  BY <1>2, <1>3, <1>7, WholePages
  <2>2. (brk_len - RoundUp(len)) \div PGSIZE = HeapEnd - n
    <3>1. brk_len - RoundUp(len) = (HeapEnd - n) * PGSIZE /\ HeapEnd - n \in Int
      BY <1>2, <1>3, WholePages
    <3>. QED BY <3>1, WholePages
  <2>3. PICK old : old = Region(Heap, n, HeapEnd - n)  OBVIOUS
  <2>4. Start(t, "brk", Empty, old, n * PGSIZE, FALSE, {})
    BY <1>3, <1>4, <1>7, <2>2, <2>3
  <2>5. old \in Regions /\ In(old) = n..(HeapEnd - 1)
    <3>1. old \in Regions  BY <1>2, <2>1, <2>3 DEF Regions, Region, Tags, Stack, Heap
    <3>. QED BY <1>2, <2>3, <3>1, RegionPages
  <2>6. PlaceOK(Op("host", "brk", Empty, old, n * PGSIZE, FALSE, {}))
    BY <1>2, <1>3, <1>4, <2>1, <2>5, RegionPages DEF PlaceOK, Op, MapKinds
  <2>. QED BY <1>1, <1>3, <1>4, <2>4, <2>5, <2>6, RegionPages, StartStep
<1>8. ~umm_space_left(RoundUp(len)) \/ RoundUp(len) = brk_len \/ RoundUp(len) > brk_len
      \/ RoundUp(len) < brk_len
  BY <1>2, <1>4
<1>. QED BY <1>5, <1>6, <1>7, <1>8 DEF umm_brk

\* A place that the program names, and the ways to ask for a mapping.
LEMMA Asked ==
    ASSUME NEW w \in Wanted
    PROVE  /\ w.own \in BOOLEAN /\ w.len \in Nat
           /\ w.own => w.at.first \in Nat /\ w.at.count \in Nat
                       /\ \A tag : [w.at EXCEPT !.tag = tag] = Region(tag, w.at.first, w.at.count)
<1>1. CASE \E p \in Places : w = [own |-> TRUE, at |-> At(p), len |-> 0]
  <2>1. PICK p \in Places : w = [own |-> TRUE, at |-> At(p), len |-> 0]  BY <1>1
  <2>2. p[1] \in Nat /\ p[2] \in Nat  OBVIOUS
  <2>. QED BY <2>1, <2>2 DEF At, Region
<1>2. CASE \E l \in Lengths : w = [own |-> FALSE, at |-> Empty, len |-> l]
  BY <1>2
<1>. QED BY <1>1, <1>2 DEF Wanted

LEMMA AtPlace ==
    ASSUME NEW p \in Places
    PROVE  At(p) \in Regions
<1>1. p[1] \in Nat /\ p[2] \in Nat  OBVIOUS
<1>. QED BY <1>1 DEF At, Region, Regions

\* The place of a new mapping: the program's, or the free pages right below the
\* others.
LEMMA PlaceGood ==
    ASSUME LenInv, NEW w \in Wanted, NEW tag \in Tags, Fits(w), NEW new, new = PlaceOf(tag, w),
           NEW kind \in MapKinds, NEW old, NEW prot
    PROVE  /\ new \in Regions /\ new.tag \in Tags /\ In(new) \subseteq Pages
           /\ PlaceOK(Op("host", kind, new, old, w.len, w.own, prot))
           /\ ~w.own => \A p \in In(new) : HeapEnd <= p /\ p < MapStart
<1>1. /\ HeapEnd \in Nat /\ MapStart \in Int /\ MapStart <= SpacePages
  BY DEF LenInv
<1>2. w.own \in BOOLEAN /\ w.len \in Nat  BY Asked
<1>3. CASE w.own
  <2>1. new = Region(tag, w.at.first, w.at.count) /\ w.at.first \in Nat /\ w.at.count \in Nat
    BY <1>3, Asked DEF PlaceOf
  <2>2. w.at.first + w.at.count <= SpacePages  BY <1>3 DEF Fits, mem_ref_is_safe
  <2>3. In(new) = w.at.first..(w.at.first + w.at.count - 1)  BY <2>1, RegionPages
  <2>4. In(new) \subseteq Pages  BY <2>1, <2>2, <2>3 DEF Pages
  <2>5. new \in Regions /\ new.tag = tag  BY <2>1 DEF Region, Regions
  <2>6. PlaceOK(Op("host", kind, new, old, w.len, w.own, prot))
    BY <1>3 DEF PlaceOK, Op, MapKinds
  <2>. QED BY <1>3, <2>4, <2>5, <2>6
<1>4. CASE ~w.own
  <2> DEFINE k == PagesOf(w.len)
  <2>1. k \in Nat  BY <1>2, RoundUpPages
  <2>2. HeapEnd + k <= MapStart  BY <1>2, <1>4, RoomForPages DEF Fits
  <2>3. new = Region(tag, MapStart - k, k)  BY <1>2, <1>4, BelowOthers DEF PlaceOf
  <2> HIDE DEF k
  <2>4. In(new) = (MapStart - k)..(MapStart - 1)  BY <1>1, <2>1, <2>3 DEF In, Region
  <2>5. In(new) \subseteq Pages /\ \A p \in In(new) : HeapEnd <= p /\ p < MapStart
    BY <1>1, <2>1, <2>2, <2>4 DEF Pages
  <2>6. new \in Regions /\ new.tag = tag  BY <1>1, <2>1, <2>2, <2>3 DEF Region, Regions
  <2>7. HeapEnd <= MapStart - k  BY <1>1, <2>1, <2>2
  <2>8. PlaceOK(Op("host", kind, new, old, w.len, w.own, prot))
    BY <1>4, <2>4, <2>7 DEF PlaceOK, Op, MapKinds, k
  <2>. QED BY <2>5, <2>6, <2>8
<1>. QED BY <1>2, <1>3, <1>4

\* mmap, shmat and mremap.
LEMMA MapStep ==
    ASSUME MemOK, NEW t \in Threads, NEW kind \in MapKinds, NEW w \in Wanted, ~mixed',
           Enter(t, kind), NEW tag \in Tags, NEW old \in Regions, Fits(w),
           Start(t, kind, PlaceOf(tag, w), old, w.len, w.own, {})
    PROVE  MemOK'
<1>1. PICK new : new = PlaceOf(tag, w)  OBVIOUS
<1>2. kind \in Kinds \ {"none"} /\ LenInv /\ w.own \in BOOLEAN /\ w.len \in Nat
      /\ {} \in SUBSET {"R", "W"}
  BY Asked DEF Kinds, MapKinds, MemOK
<1>3. /\ new \in Regions /\ new.tag \in Tags /\ In(new) \subseteq Pages
      /\ PlaceOK(Op("host", kind, new, old, w.len, w.own, {}))
      /\ ~w.own => \A p \in In(new) : HeapEnd <= p /\ p < MapStart
  BY <1>1, <1>2, PlaceGood
<1>4. Start(t, kind, new, old, w.len, w.own, {})  BY <1>1
<1>. QED BY <1>2, <1>3, <1>4, StartStep

\* munmap and mprotect map nothing.
LEMMA NoNewStep ==
    ASSUME MemOK, NEW t \in Threads, NEW kind \in {"munmap", "mprotect"}, ~mixed', Enter(t, kind),
           NEW old \in Regions, NEW prot \in SUBSET {"R", "W"},
           Start(t, kind, Empty, old, 0, FALSE, prot)
    PROVE  MemOK'
<1>1. PlaceOK(Op("host", kind, Empty, old, 0, FALSE, prot))
  BY RegionPages DEF PlaceOK, Op, MapKinds
<1>2. kind \in Kinds \ {"none"} /\ 0 \in Nat /\ FALSE \in BOOLEAN  BY DEF Kinds, MapKinds
<1>. QED BY <1>1, <1>2, RegionPages, StartStep

\* shmdt takes what the program has of the segment; the entries it leaves are known.
LEMMA ShmdtStep ==
    ASSUME MemOK, NEW t \in Threads, NEW seg \in Segments, shmdt(t, seg), ~mixed'
    PROVE  MemOK'
<1> USE DEF MemOK
<1>1. PICK gone : gone = {p \in Pages : host[p] = seg}  OBVIOUS
<1>2. /\ host' = [p \in Pages |-> IF p \in gone THEN None ELSE host[p]]
      /\ given' = [p \in Pages |-> IF p \in gone THEN None ELSE given[p]]
      /\ left' = left \cup gone /\ \A u \in Threads : op[u] = Idle
      /\ UNCHANGED <<brk_len, mmap_len, table, unsafe, op, mutex, proc>>
      /\ calls' \in 0..MaxCalls
  <2>1. calls' \in 0..MaxCalls  BY DEF shmdt, Enter, DataInv
  <2>2. \A u \in Threads : op[u] = Idle  BY DEF shmdt
  <2>. QED BY <1>1, <2>1, <2>2 DEF shmdt
<1>3. LenInv' /\ HeapEnd' = HeapEnd /\ MapStart' = MapStart  BY <1>2, SameLengths
<1>4. DataInv'  BY <1>2 DEF DataInv
<1>5. CallsInv'
  <2>1. \A u \in Threads : OpOK(u, Idle)'  BY IdleOK
  <2>. QED BY <1>2, <2>1 DEF CallsInv
<1>6. FreeInv' /\ KeptInv'  BY <1>2, <1>3 DEF FreeInv, KeptInv
<1>7. StrayInv'  BY <1>2, RegionPages DEF StrayInv
<1>. QED BY <1>3, <1>4, <1>5, <1>6, <1>7

\* Every call, as far as its check.
LEMMA CallStep == ASSUME MemOK, NEW t \in Threads, Call(t), ~mixed' PROVE MemOK'
<1>1. ASSUME NEW len \in Lengths \cup {0}, umm_brk(t, len) PROVE MemOK'
  <2>1. len \in Nat  OBVIOUS
  <2>. QED BY <1>1, <2>1, BrkStep
<1>2. ASSUME NEW w \in Wanted, NEW kind \in {"mmap", "shmat"}, umm_map(t, kind, w) PROVE MemOK'
  <2>1. PICK tag : tag = IF kind = "shmat" THEN Segment(calls') ELSE calls'  OBVIOUS
  <2>2. Enter(t, kind) /\ kind \in MapKinds  BY <1>2 DEF umm_map, MapKinds
  <2>3. tag \in Tags  BY <2>1, <2>2, EnterCounts
  <2>4. Refuse \/ (Fits(w) /\ Start(t, kind, PlaceOf(tag, w), Empty, w.len, w.own, {}))
    BY <1>2, <2>1 DEF umm_map
  <2>. QED BY <2>2, <2>3, <2>4, RegionPages, RefuseStep, MapStep
<1>3. ASSUME NEW w \in Wanted, NEW p \in Places, NEW maymove \in BOOLEAN,
             umm_mremap(t, At(p), w, maymove)
      PROVE  MemOK'
  <2>1. PICK tag : tag = IF host[At(p).first] \in Segments THEN Segment(calls') ELSE calls'
    OBVIOUS
  <2>2. Enter(t, "mremap") /\ "mremap" \in MapKinds  BY <1>3 DEF umm_mremap, MapKinds
  <2>3. tag \in Tags  BY <2>1, <2>2, EnterCounts
  <2>4. Refuse \/ (Fits(w) /\ Start(t, "mremap", PlaceOf(tag, w), At(p), w.len, w.own, {}))
    BY <1>3, <2>1 DEF umm_mremap
  <2>. QED BY <2>2, <2>3, <2>4, AtPlace, RefuseStep, MapStep
<1>4. ASSUME NEW p \in Places, umm_munmap(t, At(p)) PROVE MemOK'
  <2>1. Enter(t, "munmap") /\ (Refuse \/ Start(t, "munmap", Empty, At(p), 0, FALSE, {}))
    BY <1>4 DEF umm_munmap
  <2>2. {} \in SUBSET {"R", "W"}  OBVIOUS
  <2>. QED BY <2>1, <2>2, AtPlace, RefuseStep, NoNewStep
<1>5. ASSUME NEW p \in Places, NEW prot \in SUBSET {"R", "W"}, umm_mprotect(t, At(p), prot)
      PROVE  MemOK'
  <2>1. Enter(t, "mprotect") /\ (Refuse \/ Start(t, "mprotect", Empty, Empty, 0, FALSE, prot))
    BY <1>5 DEF umm_mprotect
  <2>. QED BY <2>1, RegionPages, RefuseStep, NoNewStep
<1>6. ASSUME NEW seg \in Segments, shmdt(t, seg) PROVE MemOK'
  BY <1>6, ShmdtStep
<1>. QED BY <1>1, <1>2, <1>3, <1>4, <1>5, <1>6 DEF Call

-----------------------------------------------------------------------------
(***************************************************************************)
(* The steps of a call.                                                    *)
(***************************************************************************)

\* The host's call; what it replaces the program has given up, or it is unsafe.
LEMMA HostStep == ASSUME MemOK, NEW t \in Threads, HostCall(t) PROVE MemOK'
<1> USE DEF MemOK
<1>1. PICK o : o = op[t]  OBVIOUS
<1>2. PICK d : d = [o EXCEPT !.pc = "table"]  OBVIOUS
<1>3. /\ proc = "run" /\ o.pc = "host" /\ op' = [op EXCEPT ![t].pc = "table"]
      /\ host' = Mapped(Unmapped(host, o.old), o.new) /\ given' = Dropped(o)
      /\ UNCHANGED <<brk_len, mmap_len, table, calls, left, unsafe, proc, mutex>>
  BY <1>1 DEF HostCall, AtPc, Goto
<1>4. /\ OpOK(t, o) /\ o \in Ops /\ o.new \in Regions /\ o.old \in Regions
      /\ \A u \in Threads : u # t => op[u] = Idle
  BY <1>1, <1>3, OnlyCall
<1>5. op' = [op EXCEPT ![t] = d]  BY <1>1, <1>2, <1>3
<1>6. /\ d \in Ops /\ d.pc = "table" /\ d.kind = o.kind /\ d.new = o.new /\ d.old = o.old
      /\ d.len = o.len /\ d.own = o.own
  BY <1>2, <1>4 DEF Ops
<1>7. LenInv' /\ HeapEnd' = HeapEnd /\ MapStart' = MapStart  BY <1>3, SameLengths
<1>8. /\ host' \in [Pages -> Tags \cup {None}]
      /\ \A p \in Pages : host'[p] = IF p \in In(o.new) THEN o.new.tag
                                     ELSE IF p \in In(o.old) THEN None ELSE host[p]
  <2>1. host \in [Pages -> Tags \cup {None}]  BY DEF DataInv
  <2>2. PICK h : h = Unmapped(host, o.old)  OBVIOUS
  <2>3. /\ h \in [Pages -> Tags \cup {None}]
        /\ \A p \in Pages : h[p] = IF p \in In(o.old) THEN None ELSE host[p]
    BY <1>4, <2>1, <2>2, MapChanges
  <2>4. host' = Mapped(h, o.new)  BY <1>3, <2>2
  <2>. QED BY <1>4, <2>3, <2>4, MapChanges
<1>9. /\ given' \in [Pages -> Tags \cup {None}]
      /\ \A p \in Pages : given'[p] = IF p \in In(o.old) \/ (o.own /\ p \in In(o.new)) THEN None
                                      ELSE given[p]
  <2>1. given \in [Pages -> Tags \cup {None}]  BY DEF DataInv
  <2>2. PICK g : g = Unmapped(given, o.old)  OBVIOUS
  <2>3. /\ g \in [Pages -> Tags \cup {None}]
        /\ \A p \in Pages : g[p] = IF p \in In(o.old) THEN None ELSE given[p]
    BY <1>4, <2>1, <2>2, MapChanges
  <2>4. given' = IF o.own THEN Unmapped(g, o.new) ELSE g  BY <1>3, <2>2 DEF Dropped
  <2>. QED BY <1>4, <2>3, <2>4, MapChanges
<1>10. DataInv'  BY <1>3, <1>8, <1>9 DEF DataInv
<1>11. /\ In(o.new) \subseteq Pages
       /\ \A p \in In(o.new) : o.own \/ (given[p] # None => p \in unsafe)
       /\ In(o.new) # {} => o.new.tag \in Tags /\ o.new.tag # None
  BY <1>3, <1>4 DEF OpOK, DoneOK
<1>12. OpOK(t, d)'
  <2>1. PlaceOK(d)'
    <3>1. PlaceOK(o)  BY <1>4 DEF OpOK
    <3>. QED BY <1>3, <1>6, <1>7, <3>1 DEF PlaceOK
  <2>2. DoneOK(d)'  BY <1>3, <1>6, <1>8, <1>9, <1>11 DEF DoneOK
  <2>. QED BY <1>3, <1>4, <1>6, <2>1, <2>2 DEF OpOK
<1>13. CallsInv' /\ op'[t] = d  BY <1>4, <1>5, <1>12, OneCall
<1>14. FreeInv' /\ KeptInv'
  BY <1>3, <1>7, <1>8, <1>9, <1>11 DEF FreeInv, KeptInv
<1>15. StrayInv'
  <2>1. \A u \in Threads : op[u].pc # "table"  BY <1>1, <1>3, <1>4, RegionPages
  <2>. QED BY <1>3, <1>6, <1>8, <1>11, <1>13, <2>1 DEF StrayInv
<1>. QED BY <1>7, <1>10, <1>13, <1>14, <1>15

\* umm_munmap's second attempt; what else it removes is unsafe from now on.
LEMMA RetryStep == ASSUME MemOK, NEW t \in Threads, HostRetries(t) PROVE MemOK'
<1> USE DEF MemOK
<1>1. PICK o : o = op[t]  OBVIOUS
<1>2. PICK r : r = BigRounded(o.old)  OBVIOUS
<1>3. PICK d : d = [o EXCEPT !.pc = "table", !.old = r]  OBVIOUS
<1>4. /\ proc = "run" /\ o.pc = "host" /\ o.kind = "munmap"
      /\ op' = [op EXCEPT ![t].pc = "table", ![t].old = r]
      /\ host' = Unmapped(host, r) /\ given' = Unmapped(given, o.old)
      /\ unsafe' = unsafe \cup (In(r) \ In(o.old))
      /\ UNCHANGED <<brk_len, mmap_len, table, calls, left, proc, mutex>>
  BY <1>1, <1>2 DEF HostRetries, AtPc
<1>5. /\ OpOK(t, o) /\ o \in Ops /\ o.new \in Regions /\ o.old \in Regions
      /\ \A u \in Threads : u # t => op[u] = Idle
  BY <1>1, <1>4, OnlyCall
<1>6. r \in Regions
  <2>1. o.old.count \in Nat  BY <1>5 DEF Regions
  <2>2. ((o.old.count + BigPages - 1) \div BigPages) * BigPages \in Nat  BY <2>1
  <2>. QED BY <1>2, <1>5, <2>2 DEF BigRounded, Regions
<1>7. op' = [op EXCEPT ![t] = d]
  BY <1>1, <1>3, <1>4
<1>8. /\ d \in Ops /\ d.pc = "table" /\ d.kind = "munmap" /\ d.new = o.new /\ d.old = r
      /\ d.own = o.own /\ d.len = o.len
  BY <1>3, <1>4, <1>5, <1>6 DEF Ops
<1>9. LenInv' /\ HeapEnd' = HeapEnd /\ MapStart' = MapStart  BY <1>4, SameLengths
<1>10. /\ DataInv'
       /\ \A p \in Pages : host'[p] = IF p \in In(r) THEN None ELSE host[p]
       /\ \A p \in Pages : given'[p] = IF p \in In(o.old) THEN None ELSE given[p]
  BY <1>4, <1>5, <1>6, MapChanges DEF DataInv
<1>11. In(o.new) = {} /\ PlaceOK(o)  BY <1>4, <1>5 DEF OpOK, PlaceOK, MapKinds
<1>12. OpOK(t, d)'
  <2>1. PlaceOK(d)'  BY <1>4, <1>8, <1>11 DEF PlaceOK, MapKinds
  <2>2. DoneOK(d)'  BY <1>4, <1>8, <1>10, <1>11 DEF DoneOK
  <2>. QED BY <1>4, <1>5, <1>8, <1>11, <2>1, <2>2 DEF OpOK
<1>13. CallsInv' /\ op'[t] = d  BY <1>5, <1>7, <1>12, OneCall
<1>14. FreeInv' /\ KeptInv'  BY <1>4, <1>9, <1>10 DEF FreeInv, KeptInv
<1>15. StrayInv'
  <2>1. \A u \in Threads : op[u].pc # "table"  BY <1>1, <1>4, <1>5, RegionPages
  <2>. QED BY <1>4, <1>8, <1>10, <1>13, <2>1 DEF StrayInv
<1>. QED BY <1>9, <1>10, <1>13, <1>14, <1>15

\* The end of a call, as far as the threads and the mutex go.
LEMMA LeaveStep ==
    ASSUME CallsInv, DataInv, NEW t \in Threads, op[t].pc # "idle", Leave(t)
    PROVE  /\ CallsInv' /\ mutex' \in Threads \cup {None}
           /\ \A u \in Threads : op'[u] = Idle /\ (u # t => op[u] = Idle)
<1>1. \A u \in Threads : u # t => op[u] = Idle  BY OnlyCall
<1>2. OpOK(t, Idle)'  BY IdleOK
<1>. QED BY <1>1, <1>2, OneCall DEF Leave, DataInv

\* The host's call fails: nothing has changed.
LEMMA HostFailsStep == ASSUME MemOK, NEW t \in Threads, HostFails(t) PROVE MemOK'
<1> USE DEF MemOK
<1>1. /\ op[t].pc = "host" /\ Leave(t)
      /\ UNCHANGED <<brk_len, mmap_len, host, table, given, unsafe, calls, left>>
  BY DEF HostFails, AtPc, space
<1>2. LenInv' /\ HeapEnd' = HeapEnd /\ MapStart' = MapStart  BY <1>1, SameLengths
<1>3. /\ CallsInv' /\ mutex' \in Threads \cup {None}
      /\ \A u \in Threads : op'[u] = Idle /\ (u # t => op[u] = Idle)
  BY <1>1, LeaveStep
<1>4. \A u \in Threads : op[u].pc # "table"  BY <1>1, <1>3, RegionPages
<1>. QED BY <1>1, <1>2, <1>3, <1>4 DEF DataInv, FreeInv, KeptInv, StrayInv

\* The page table follows; umm_mremap counts its pages first.
LEMMA TableStep == ASSUME MemOK, NEW t \in Threads, TableCall(t) PROVE MemOK'
<1> USE DEF MemOK
<1>1. PICK o : o = op[t]  OBVIOUS
<1>2. PICK d : d = [o EXCEPT !.pc = "finish"]  OBVIOUS
<1>3. /\ proc = "run" /\ o.pc = "table" /\ op' = [op EXCEPT ![t].pc = "finish"]
      /\ table' = (table \ In(o.old)) \cup In(o.new)
      /\ mmap_len' = IF o.kind = "mremap" /\ ~o.own THEN mmap_len + RoundUp(o.len) ELSE mmap_len
      /\ UNCHANGED <<brk_len, host, given, calls, left, unsafe, proc, mutex>>
  BY <1>1 DEF TableCall, AtPc, Goto, NewTable, Counted
<1>4. /\ OpOK(t, o) /\ o \in Ops /\ o.new \in Regions /\ o.old \in Regions
      /\ \A u \in Threads : u # t => op[u] = Idle
  BY <1>1, <1>3, OnlyCall
<1>5. op' = [op EXCEPT ![t] = d]  BY <1>1, <1>2, <1>3
<1>6. /\ d \in Ops /\ d.pc = "finish" /\ d.kind = o.kind /\ d.new = o.new /\ d.old = o.old
      /\ d.len = o.len /\ d.own = o.own /\ o.len \in Nat /\ o.own \in BOOLEAN
  BY <1>2, <1>4 DEF Ops
<1>7. /\ PlaceOK(o) /\ DoneOK(o) /\ In(o.new) \subseteq Pages
      /\ In(o.new) # {} => o.new.tag \in Tags /\ o.new.tag # None
  BY <1>4 DEF OpOK
<1>8. LenInv' /\ HeapEnd' = HeapEnd /\ MapStart' <= MapStart /\ PlaceOK(d)'
  <2>1. CASE o.kind = "mremap" /\ ~o.own
    <3>1. PICK k \in Nat : k = PagesOf(o.len) /\ RoundUp(o.len) = k * PGSIZE
      BY <1>6, RoundUpPages
    <3>2. In(o.new) = (MapStart - k)..(MapStart - 1) /\ HeapEnd <= MapStart - k
      BY <1>3, <1>7, <2>1, <3>1 DEF PlaceOK, MapKinds
    <3>3. /\ mmap_len' \in Nat /\ mmap_len' = (SpacePages - MapStart') * PGSIZE
          /\ MapStart' = MapStart - k /\ MapStart' \in Int
      BY <1>3, <2>1, <3>1, MapStartMoves
    <3>4. HeapEnd' = HeapEnd  BY <1>3 DEF HeapEnd
    <3>5. LenInv'
      <4>1. MapStart' <= SpacePages /\ HeapEnd' <= MapStart'
        BY <3>2, <3>3, <3>4 DEF LenInv
      <4>. QED BY <1>3, <3>3, <3>4, <4>1 DEF LenInv
    <3>6. In(d.new) = MapStart'..(MapStart' + k - 1)  BY <1>6, <3>2, <3>3 DEF LenInv
    <3>7. PlaceOK(d)'  BY <1>6, <2>1, <3>1, <3>6 DEF PlaceOK, MapKinds
    <3>. QED BY <3>3, <3>4, <3>5, <3>7 DEF LenInv
  <2>2. CASE ~(o.kind = "mremap" /\ ~o.own)
    <3>1. LenInv' /\ HeapEnd' = HeapEnd /\ MapStart' = MapStart
      BY <1>3, <2>2, SameLengths
    <3>2. PlaceOK(d)'  BY <1>3, <1>6, <1>7, <2>2, <3>1 DEF PlaceOK, MapKinds
    <3>. QED BY <3>1, <3>2 DEF LenInv
  <2>. QED BY <2>1, <2>2
<1>9. DataInv'  BY <1>3, <1>7 DEF DataInv
<1>10. OpOK(t, d)'
  <2>1. DoneOK(d)'  BY <1>3, <1>6, <1>7 DEF DoneOK
  <2>. QED BY <1>3, <1>4, <1>6, <1>8, <2>1 DEF OpOK
<1>11. CallsInv' /\ op'[t] = d  BY <1>4, <1>5, <1>10, OneCall
<1>12. FreeInv'
  <2>1. \A p \in Pages : p < MapStart' => p < MapStart
    BY <1>8 DEF LenInv, Pages
  <2>. QED BY <1>3, <1>8, <2>1 DEF FreeInv
<1>13. KeptInv'
  <2>1. \A p \in In(o.old) \cap Pages : given[p] # None => p \in unsafe
    BY <1>3, <1>7 DEF DoneOK
  <2>. QED BY <1>3, <2>1 DEF KeptInv
<1>14. StrayInv'
  <2>1. \A u \in Threads : op[u].pc = "table" => u = t  BY <1>4, RegionPages
  <2>2. \A p \in In(o.new) : host[p] # None  BY <1>3, <1>7 DEF DoneOK
  <2>. QED BY <1>1, <1>3, <2>1, <2>2 DEF StrayInv
<1>. QED BY <1>8, <1>9, <1>11, <1>12, <1>13, <1>14

\* No page for a directory: the mapping is undone, its entries are known.
LEMMA TableFailsStep == ASSUME MemOK, NEW t \in Threads, TableFails(t) PROVE MemOK'
<1> USE DEF MemOK
<1>1. PICK o : o = op[t]  OBVIOUS
<1>2. /\ o.pc = "table" /\ Leave(t) /\ host' = Unmapped(host, o.new)
      /\ left' = left \cup (table' \cap In(o.new))
      /\ UNCHANGED <<brk_len, mmap_len, given, calls, unsafe>>
  BY <1>1 DEF TableFails, AtPc
<1>3. PICK k \in 0..(o.new.count - 1) :
          table' = (table \ In(o.old)) \cup In([o.new EXCEPT !.count = k])
  BY <1>1 DEF TableFails
<1>4. OpOK(t, o) /\ o \in Ops /\ o.new \in Regions /\ o.old \in Regions
  BY <1>1, <1>2, OnlyCall
<1>5. In([o.new EXCEPT !.count = k]) \subseteq In(o.new)
  BY <1>3, <1>4 DEF In, Regions
<1>6. PICK served \in SUBSET In(o.new) : table' = (table \ In(o.old)) \cup served
  BY <1>3, <1>5
<1>7. LenInv' /\ HeapEnd' = HeapEnd /\ MapStart' = MapStart  BY <1>2, SameLengths
<1>8. /\ CallsInv' /\ mutex' \in Threads \cup {None}
      /\ \A u \in Threads : op'[u] = Idle /\ (u # t => op[u] = Idle)
  BY <1>1, <1>2, LeaveStep
<1>9. /\ In(o.new) \subseteq Pages
      /\ \A p \in In(o.new) : given[p] # None => p \in unsafe
      /\ \A p \in In(o.old) \cap Pages : given[p] # None => p \in unsafe
  BY <1>2, <1>4 DEF OpOK, DoneOK
<1>10. /\ DataInv'
       /\ \A p \in Pages : host'[p] = IF p \in In(o.new) THEN None ELSE host[p]
  BY <1>2, <1>4, <1>6, <1>8, <1>9, MapChanges DEF DataInv
<1>11. FreeInv' /\ KeptInv'  BY <1>2, <1>6, <1>7, <1>9, <1>10 DEF FreeInv, KeptInv
<1>12. StrayInv'
  <2>1. \A u \in Threads : op[u].pc = "table" => u = t  BY <1>8, RegionPages
  <2>. QED BY <1>1, <1>2, <1>6, <1>10, <2>1 DEF StrayInv
<1>. QED BY <1>7, <1>8, <1>10, <1>11, <1>12

\* The end of a call: its pages are the program's.
LEMMA FinishStep == ASSUME MemOK, NEW t \in Threads, Finish(t) PROVE MemOK'
<1> USE DEF MemOK
<1>1. PICK o : o = op[t]  OBVIOUS
<1>2. /\ o.pc = "finish" /\ Leave(t)
      /\ brk_len' = IF o.kind = "brk" THEN o.len ELSE brk_len
      /\ mmap_len' = IF o.kind \in {"mmap", "shmat"} /\ ~o.own THEN mmap_len + RoundUp(o.len)
                     ELSE mmap_len
      /\ given' = Mapped(given, o.new)
      /\ left' = left \ (In(o.old) \cup In(o.new))
      /\ unsafe' = (unsafe \ In(o.new)) \cup (IF o.own THEN In(o.new) \cap FreeArea ELSE {})
      /\ UNCHANGED <<host, table, calls>>
  BY <1>1 DEF Finish, AtPc, Counted
<1>3. /\ OpOK(t, o) /\ o \in Ops /\ o.new \in Regions /\ o.len \in Nat /\ o.own \in BOOLEAN
  BY <1>1, <1>2, OnlyCall DEF Ops
<1>4. /\ CallsInv' /\ mutex' \in Threads \cup {None}
      /\ \A u \in Threads : op'[u] = Idle /\ (u # t => op[u] = Idle)
  BY <1>1, <1>2, LeaveStep
<1>5. /\ PlaceOK(o) /\ In(o.new) \subseteq Pages
      /\ In(o.new) # {} => o.new.tag \in Tags /\ o.new.tag # None
      /\ \A p \in In(o.new) : host[p] = o.new.tag /\ p \in table
      /\ In(o.old) \cap table \subseteq In(o.new)
      /\ \A p \in In(o.old) \cap Pages : given[p] # None => p \in unsafe
  BY <1>2, <1>3 DEF OpOK, DoneOK
<1>6. /\ DataInv'
      /\ \A p \in Pages : given'[p] = IF p \in In(o.new) THEN o.new.tag ELSE given[p]
  BY <1>2, <1>3, <1>4, MapChanges DEF DataInv
<1>7. KeptInv'  BY <1>2, <1>5, <1>6 DEF KeptInv
<1>8. StrayInv'
  <2>1. \A u \in Threads : op[u].pc # "table"  BY <1>1, <1>2, <1>4, RegionPages
  <2>. QED BY <1>2, <1>5, <2>1 DEF StrayInv
<1>9. /\ LenInv'
      /\ \A p \in Pages : HeapEnd' <= p /\ p < MapStart' =>
           /\ (HeapEnd <= p /\ p < MapStart) \/ p \in In(o.old)
           /\ p \in In(o.new) => o.own /\ HeapEnd <= p /\ p < MapStart
  <2>0. HeapEnd \in Nat /\ MapStart \in Int /\ Pages \subseteq Nat  BY DEF LenInv, Pages
  <2>1. CASE o.kind = "brk"
    <3>1. PICK n : n = o.len \div PGSIZE  OBVIOUS
    <3>2. /\ n \in Nat /\ o.len = n * PGSIZE /\ n <= MapStart
          /\ \/ HeapEnd < n /\ In(o.new) = HeapEnd..(n - 1)
             \/ n < HeapEnd /\ In(o.old) = n..(HeapEnd - 1) /\ In(o.new) = {}
      BY <1>3, <1>5, <2>1, <3>1 DEF PlaceOK
    <3>3. brk_len' = n * PGSIZE /\ mmap_len' = mmap_len  BY <1>2, <2>1, <3>2
    <3>4. HeapEnd' = n /\ MapStart' = MapStart
      BY <3>2, <3>3, WholePages DEF HeapEnd, MapStart
    <3>5. LenInv'  BY <3>2, <3>3, <3>4 DEF LenInv
    <3>6. ASSUME NEW p \in Pages, n <= p, p < MapStart
          PROVE  ((HeapEnd <= p /\ p < MapStart) \/ p \in In(o.old)) /\ p \notin In(o.new)
      BY <2>0, <3>2, <3>6
    <3>. QED BY <3>4, <3>5, <3>6
  <2>2. CASE o.kind \in {"mmap", "shmat"} /\ ~o.own
    <3>1. PICK k \in Nat : k = PagesOf(o.len) /\ RoundUp(o.len) = k * PGSIZE
      BY <1>3, RoundUpPages
    <3>2. In(o.new) = (MapStart - k)..(MapStart - 1) /\ HeapEnd <= MapStart - k
      BY <1>2, <1>5, <2>2, <3>1 DEF PlaceOK, MapKinds
    <3>3. /\ mmap_len' \in Nat /\ mmap_len' = (SpacePages - MapStart') * PGSIZE
          /\ MapStart' = MapStart - k /\ MapStart' \in Int
      BY <1>2, <2>2, <3>1, MapStartMoves
    <3>4. brk_len' = brk_len /\ HeapEnd' = HeapEnd  BY <1>2, <2>2 DEF HeapEnd
    <3>5. LenInv'  BY <3>2, <3>3, <3>4 DEF LenInv
    <3>6. ASSUME NEW p \in Pages, p < MapStart - k PROVE p < MapStart /\ p \notin In(o.new)
      BY <2>0, <3>1, <3>2, <3>6
    <3>. QED BY <3>3, <3>4, <3>5, <3>6
  <2>3. CASE o.kind # "brk" /\ ~(o.kind \in {"mmap", "shmat"} /\ ~o.own)
    <3>1. LenInv' /\ HeapEnd' = HeapEnd /\ MapStart' = MapStart
      BY <1>2, <2>3, SameLengths
    <3>2. ASSUME ~o.own, NEW p \in Pages, p < MapStart PROVE p \notin In(o.new)
      <4>1. o.kind = "mremap" =>
              In(o.new) = MapStart..(MapStart + PagesOf(o.len) - 1) /\ PagesOf(o.len) \in Nat
        BY <1>2, <1>3, <1>5, <3>2, RoundUpPages DEF PlaceOK, MapKinds
      <4>2. o.kind # "mremap" => In(o.new) = {}
        BY <1>5, <2>3, <3>2 DEF PlaceOK, MapKinds
      <4>. QED BY <2>0, <3>2, <4>1, <4>2
    <3>. QED BY <1>3, <3>1, <3>2
  <2>. QED BY <2>1, <2>2, <2>3
<1>10. FreeInv'
  <2>1. \A p \in Pages : p \in FreeArea <=> HeapEnd <= p /\ p < MapStart  BY FreePages
  <2>. QED BY <1>2, <1>5, <1>6, <1>9, <2>1 DEF FreeInv
<1>. QED BY <1>4, <1>6, <1>7, <1>8, <1>9, <1>10

-----------------------------------------------------------------------------
(***************************************************************************)
(* The theorems about SandboxMem.                                          *)
(***************************************************************************)

\* Once calls have overlapped they have; mixed and proc keep their types.
LEMMA MixedStep ==
    ASSUME MemInv, Next
    PROVE  mixed' \in BOOLEAN /\ (mixed => mixed') /\ proc' \in {"start", "run", "exit", "die"}
<1>1. CASE umm_alloc_stack  BY <1>1 DEF umm_alloc_stack, MemInv
<1>2. ASSUME NEW t \in Threads, Call(t)
      PROVE  mixed' \in BOOLEAN /\ (mixed => mixed') /\ proc' \in {"start", "run", "exit", "die"}
  BY <1>2 DEF Call, umm_brk, umm_map, umm_mremap, umm_munmap, umm_mprotect, shmdt, Start,
              Refuse, MemInv
<1>3. ASSUME NEW t \in Threads, Step(t)
      PROVE  mixed' \in BOOLEAN /\ (mixed => mixed') /\ proc' \in {"start", "run", "exit", "die"}
  BY <1>3 DEF Step, HostCall, HostRetries, HostFails, TableCall, TableFails, ProtectFails,
              Finish, MemInv
<1>. QED BY <1>1, <1>2, <1>3 DEF Next

\* Every step keeps the invariant.
LEMMA MemStep == MemInv /\ [Next]_vars => MemInv'
<1> SUFFICES ASSUME MemInv, [Next]_vars PROVE MemInv'
  OBVIOUS
<1>1. CASE UNCHANGED vars
  <2>1. HeapEnd' = HeapEnd /\ MapStart' = MapStart  BY <1>1 DEF vars, HeapEnd, MapStart
  <2>2. \A u \in Threads : OpOK(u, op[u]) => OpOK(u, op[u])'
    BY <1>1, <2>1 DEF vars, OpOK, PlaceOK, DoneOK
  <2>. QED BY <1>1, <2>1, <2>2 DEF vars, MemInv, MemOK, LenInv, DataInv, CallsInv, FreeInv,
                                   KeptInv, StrayInv
<1>2. CASE Next
  <2>1. SUFFICES ASSUME ~mixed' PROVE MemOK'
    BY <1>2, MixedStep DEF MemInv
  <2>2. MemOK  BY <1>2, <2>1, MixedStep DEF MemInv
  <2>3. CASE umm_alloc_stack  BY <2>2, <2>3, StackStep
  <2>4. ASSUME NEW t \in Threads, Call(t) PROVE MemOK'  BY <2>1, <2>2, <2>4, CallStep
  <2>5. ASSUME NEW t \in Threads, Step(t) PROVE MemOK'
    <3>1. CASE ProtectFails(t)
      <4>1. /\ UNCHANGED <<brk_len, mmap_len, host, table, given, unsafe, left, op, mutex, calls>>
            /\ proc' = "die"
        BY <3>1 DEF ProtectFails, space
      <4>2. LenInv' /\ HeapEnd' = HeapEnd /\ MapStart' = MapStart
        BY <2>2, <4>1, SameLengths DEF MemOK
      <4>3. \A u \in Threads : OpOK(u, op[u]) => OpOK(u, op[u])'
        BY <4>1, <4>2 DEF OpOK, PlaceOK, DoneOK
      <4>. QED BY <2>2, <4>1, <4>2, <4>3 DEF MemOK, DataInv, CallsInv, FreeInv, KeptInv, StrayInv
    <3>. QED BY <2>2, <2>5, <3>1, HostStep, RetryStep, HostFailsStep, TableStep,
                TableFailsStep, FinishStep DEF Step
  <2>. QED BY <1>2, <2>3, <2>4, <2>5 DEF Next
<1>. QED BY <1>1, <1>2

\* Until calls overlap without the mutex, the invariant of the sandbox's address
\* space holds whatever calls the threads make, with places of the program's own or
\* without, and whichever of their steps fail, for any sizes.
THEOREM MemInvariance == Spec => []MemInv
BY MemInit, MemStep, PTL DEF Spec

\* umm.c keeps what it has given to the program: until calls overlap without the
\* mutex, no call moves, unmaps or takes out of the page table a page of another
\* mapping, of the stack or of the heap.  Excepted are pages that the program
\* mapped at addresses of its own between heap and mappings, and pages behind a
\* range that umm_munmap rounded up.
THEOREM GivenStaysMapped == Spec => []GivenKept
<1>1. MemInv => GivenKept
  <2> SUFFICES ASSUME MemInv PROVE GivenKept
    OBVIOUS
  <2>1. ASSUME ~mixed PROVE brk_len % PGSIZE = 0 /\ mmap_len % PGSIZE = 0
                            /\ brk_len + mmap_len <= Space
    <3>1. /\ HeapEnd \in Int /\ MapStart \in Int /\ HeapEnd <= MapStart
          /\ brk_len = HeapEnd * PGSIZE /\ mmap_len = (SpacePages - MapStart) * PGSIZE
      BY <2>1 DEF MemInv, MemOK, LenInv
    <3>2. SpacePages - MapStart \in Int  BY <3>1
    <3>3. \A h, m \in Int : h <= m => h * PGSIZE + (SpacePages - m) * PGSIZE <= SpacePages * PGSIZE
      OBVIOUS
    <3>. QED BY <3>1, <3>2, <3>3, WholePages DEF Space
  <2>2. SmTypeOK  BY <2>1 DEF SmTypeOK, MemInv, MemOK, DataInv
  <2>. QED BY <2>2 DEF GivenKept, MemInv, MemOK, KeptInv
<1>. QED BY <1>1, MemInvariance, PTL

\* Until calls overlap without the mutex, Dune's page table maps between calls
\* nothing that the process has unmapped, except the entries that a call with a
\* failure half way or an shmdt has left.
THEOREM NoEntriesStray == Spec => []NoStrayEntries
<1>1. MemInv => NoStrayEntries
  BY RegionPages DEF MemInv, MemOK, DataInv, StrayInv, NoStrayEntries
<1>. QED BY <1>1, MemInvariance, PTL

-----------------------------------------------------------------------------
(***************************************************************************)
(* SandboxThread: the tid that dune_pthread_create returns.                *)
(***************************************************************************)

Frames == [live : BOOLEAN, gen : Nat, tid : Nat,
           mtx : Parents \cup Children \cup {NoOwner}, waiting : BOOLEAN, signalled : BOOLEAN]

\* Children that have not stored their tid yet.
Untold == {"enter", "lock", "tell"}
Told == {"signal", "user"}

ThreadType ==
    /\ pc \in [Parents -> {"idle", "lock", "check", "wait", "unlock", "return"}]
    /\ call \in [Parents -> 0..MaxCreates] /\ arg \in [Parents -> Frames]
    /\ child \in [Children -> {"none"} \cup Untold \cup Told]
    /\ result \in [Parents -> Nat] /\ misled \subseteq Parents

\* Calls that are still to come have no child, and a frame is live during a call.
FrameInv(p) ==
    /\ \A n \in Calls : n > call[p] => child[<<p, n>>] = "none"
    /\ pc[p] = "idle" => ~arg[p].live /\ ~arg[p].signalled
    /\ pc[p] # "idle" => arg[p].gen = call[p] /\ call[p] \in Calls

\* No child of an ended call is still to store a tid; the frame has the tid of
\* its own call's child, once that has stored it, and the call goes on after that.
TellInv(p) ==
    /\ \A n \in Calls : n < call[p] \/ pc[p] = "idle" => child[<<p, n>>] \notin Untold
    /\ pc[p] # "idle" => \/ arg[p].tid = 0 /\ child[<<p, call[p]>>] \in Untold
                         \/ arg[p].tid = call[p] /\ child[<<p, call[p]>>] \in Told
    /\ pc[p] \in {"unlock", "return"} => arg[p].tid = call[p]
    /\ pc[p] = "idle" /\ call[p] > 0 => result[p] \in {call[p], Failed}

ThreadInv ==
    /\ ThreadType
    /\ \A p \in Parents : FrameInv(p)
    /\ \A p \in Parents \ misled : TellInv(p)

\* The only part of the assumption that matters here.
LEMMA CreatesNat == MaxCreates \in Nat
BY SandboxThreadAssumption

USE CreatesNat

\* Initially no call has been made.
LEMMA ThreadInit == TInit => ThreadInv
<1> SUFFICES ASSUME TInit PROVE ThreadInv
  OBVIOUS
<1>1. /\ NoFrame \in Frames /\ ~NoFrame.live /\ ~NoFrame.signalled
  BY DEF NoFrame, Frames
<1>2. ThreadType  BY <1>1 DEF ThreadType, TInit, Failed, Untold, Told
<1>3. \A p \in Parents : FrameInv(p)
  BY <1>1 DEF FrameInv, TInit, Children, Calls
<1>4. \A p \in Parents : TellInv(p)
  BY <1>1 DEF TellInv, TInit, Children, Calls, Untold
<1>. QED BY <1>2, <1>3, <1>4 DEF ThreadInv

\* A step concerns one parent, its frame and its children.
LEMMA OneFamily ==
    ASSUME ThreadInv, NEW p \in Parents, ThreadType', misled \subseteq misled',
           \A q \in Parents \ {p} : /\ pc'[q] = pc[q] /\ call'[q] = call[q]
                                    /\ arg'[q] = arg[q] /\ result'[q] = result[q],
           \A q \in Parents \ {p}, n \in Calls : child'[<<q, n>>] = child[<<q, n>>],
           FrameInv(p)', p \notin misled' => TellInv(p)'
    PROVE  ThreadInv'
<1>1. \A q \in Parents \ {p} : FrameInv(q)'
  BY DEF ThreadInv, FrameInv
<1>2. ASSUME NEW q \in Parents \ misled', q # p PROVE TellInv(q)'
  <2>1. TellInv(q) /\ FrameInv(q)  BY <1>2 DEF ThreadInv
  <2>. QED BY <1>2, <2>1 DEF TellInv, FrameInv
<1>. QED BY <1>1, <1>2 DEF ThreadInv

\* A parent that moves on within a call, and does not change its tid.
LEMMA ParentMoves ==
    ASSUME ThreadInv, NEW p \in Parents, NEW a \in Frames,
           NEW to \in {"lock", "check", "wait", "unlock", "return"},
           pc[p] # "idle", pc'[p] = to, arg'[p] = a,
           a.gen = arg[p].gen, a.tid = arg[p].tid,
           to \in {"unlock", "return"} => \/ arg[p].tid # 0 \/ p \in misled'
                                          \/ pc[p] \in {"unlock", "return"},
           \A q \in Parents \ {p} : pc'[q] = pc[q] /\ arg'[q] = arg[q],
           ThreadType', UNCHANGED <<call, child, result>>, misled \subseteq misled'
    PROVE  ThreadInv'
<1>1. FrameInv(p)  BY DEF ThreadInv
<1>2. FrameInv(p)'  BY <1>1 DEF FrameInv
<1>3. ASSUME p \notin misled' PROVE TellInv(p)'
  <2>1. TellInv(p) /\ call[p] \in Nat  BY <1>3 DEF ThreadInv, ThreadType
  <2>. QED BY <1>1, <1>3, <2>1 DEF TellInv, FrameInv
<1>. QED BY <1>2, <1>3, OneFamily

\* A step of a parent.
LEMMA ParentKeeps ==
    ASSUME ThreadInv, NEW p \in Parents, ParentStep(p)
    PROVE  ThreadInv'
<1>1. CASE Create(p)
  <2>1. PICK a : a = [NoFrame EXCEPT !.live = TRUE, !.gen = call[p] + 1]  OBVIOUS
  <2>2. PICK n \in Calls : n = call[p] + 1
    BY <1>1 DEF Create, Calls, ThreadInv, ThreadType
  <2>3. /\ a \in Frames /\ a.gen = n /\ a.tid = 0 /\ ~a.signalled
    <3>1. a = [live |-> TRUE, gen |-> n, tid |-> 0, mtx |-> NoOwner, waiting |-> FALSE,
               signalled |-> FALSE]
      BY <2>1, <2>2 DEF NoFrame
    <3>2. n \in Nat  BY DEF Calls
    <3>. QED BY <3>1, <3>2 DEF Frames
  <2>4. /\ pc[p] = "idle" /\ pc' = [pc EXCEPT ![p] = "lock"] /\ call' = [call EXCEPT ![p] = n]
        /\ arg' = [arg EXCEPT ![p] = a] /\ child' = [child EXCEPT ![<<p, n>>] = "enter"]
        /\ UNCHANGED <<result, misled>>
    BY <1>1, <2>1, <2>2 DEF Create, PGoto
  <2>5. <<p, n>> \in Children /\ n \in 1..MaxCreates  BY DEF Children, Calls
  <2>6. ThreadType'
    BY <2>3, <2>4, <2>5 DEF ThreadInv, ThreadType, Untold
  <2>7. /\ pc'[p] = "lock" /\ call'[p] = n /\ arg'[p] = a /\ child'[<<p, n>>] = "enter"
        /\ \A m \in Calls \ {n} : child'[<<p, m>>] = child[<<p, m>>]
        /\ \A q \in Parents \ {p} : /\ pc'[q] = pc[q] /\ call'[q] = call[q]
                                    /\ arg'[q] = arg[q] /\ result'[q] = result[q]
        /\ \A q \in Parents \ {p}, m \in Calls : child'[<<q, m>>] = child[<<q, m>>]
    BY <2>4, <2>5 DEF ThreadInv, ThreadType, Children
  <2>8. FrameInv(p) /\ call[p] \in Nat  BY DEF ThreadInv, ThreadType
  <2>9. FrameInv(p)'
    BY <2>2, <2>3, <2>5, <2>7, <2>8 DEF FrameInv, Calls
  <2>10. p \notin misled' => TellInv(p)'
    <3> SUFFICES ASSUME p \notin misled' PROVE TellInv(p)'
      OBVIOUS
    <3>1. TellInv(p)  BY <2>4 DEF ThreadInv
    <3>. QED BY <2>2, <2>3, <2>4, <2>5, <2>7, <2>8, <3>1 DEF TellInv, Untold, Calls
  <2>. QED BY <2>4, <2>6, <2>7, <2>9, <2>10, OneFamily
<1>2. CASE CreateFails(p)
  <2>1. PICK n \in Calls : n = call[p] + 1
    BY <1>2 DEF CreateFails, Calls, ThreadInv, ThreadType
  <2>2. /\ pc[p] = "idle" /\ call' = [call EXCEPT ![p] = n]
        /\ result' = [result EXCEPT ![p] = Failed] /\ UNCHANGED <<pc, arg, child, misled>>
    BY <1>2, <2>1 DEF CreateFails
  <2>3. ThreadType'  BY <2>2 DEF ThreadInv, ThreadType, Calls, Failed
  <2>4. FrameInv(p) /\ call[p] \in Nat /\ call'[p] = n
    BY <2>2 DEF ThreadInv, ThreadType
  <2>5. FrameInv(p)'  BY <2>1, <2>2, <2>4 DEF FrameInv, Calls
  <2>6. ASSUME p \notin misled' PROVE TellInv(p)'
    <3>1. TellInv(p) /\ result'[p] = Failed /\ ~arg[p].signalled
      BY <2>2, <2>4, <2>6 DEF ThreadInv, ThreadType, FrameInv
    <3>. QED BY <2>2, <2>4, <3>1 DEF TellInv
  <2>7. \A q \in Parents \ {p} : call'[q] = call[q] /\ result'[q] = result[q]
    BY <2>2 DEF ThreadInv, ThreadType
  <2>. QED BY <2>2, <2>3, <2>5, <2>6, <2>7, OneFamily
<1>3. CASE ParentLock(p)
  <2>1. PICK a : a = [arg[p] EXCEPT !.mtx = p]  OBVIOUS
  <2>2. /\ pc[p] = "lock" /\ pc' = [pc EXCEPT ![p] = "check"] /\ arg' = [arg EXCEPT ![p] = a]
        /\ UNCHANGED <<call, child, result, misled>>
    BY <1>3, <2>1 DEF ParentLock, PGoto, ThreadInv, ThreadType
  <2>3. /\ a \in Frames /\ a.gen = arg[p].gen /\ a.tid = arg[p].tid
        /\ a.signalled => arg[p].signalled
    BY <2>1 DEF ThreadInv, ThreadType, Frames
  <2>4. ThreadType' /\ pc'[p] = "check" /\ arg'[p] = a
        /\ \A q \in Parents \ {p} : pc'[q] = pc[q] /\ arg'[q] = arg[q]
    BY <2>2, <2>3 DEF ThreadInv, ThreadType
  <2>. QED BY <2>2, <2>3, <2>4, ParentMoves
<1>4. CASE ParentCheck(p) /\ arg[p].tid = 0
  <2>1. PICK a : a = [arg[p] EXCEPT !.mtx = NoOwner, !.waiting = TRUE]  OBVIOUS
  <2>2. /\ pc[p] = "check" /\ pc' = [pc EXCEPT ![p] = "wait"] /\ arg' = [arg EXCEPT ![p] = a]
        /\ UNCHANGED <<call, child, result, misled>>
    BY <1>4, <2>1 DEF ParentCheck, PGoto, ThreadInv, ThreadType
  <2>3. /\ a \in Frames /\ a.gen = arg[p].gen /\ a.tid = arg[p].tid
        /\ a.signalled => arg[p].signalled
    BY <2>1 DEF ThreadInv, ThreadType, Frames
  <2>4. ThreadType' /\ pc'[p] = "wait" /\ arg'[p] = a
        /\ \A q \in Parents \ {p} : pc'[q] = pc[q] /\ arg'[q] = arg[q]
    BY <2>2, <2>3 DEF ThreadInv, ThreadType
  <2>. QED BY <2>2, <2>3, <2>4, ParentMoves
<1>5. CASE ParentCheck(p) /\ arg[p].tid # 0
  <2>1. /\ pc[p] = "check" /\ pc' = [pc EXCEPT ![p] = "unlock"]
        /\ UNCHANGED <<arg, call, child, result, misled>>
    BY <1>5 DEF ParentCheck, PGoto
  <2>2. ThreadType' /\ pc'[p] = "unlock" /\ \A q \in Parents \ {p} : pc'[q] = pc[q]
    BY <2>1 DEF ThreadInv, ThreadType
  <2>3. PICK a \in Frames : a = arg[p]  BY DEF ThreadInv, ThreadType
  <2>. QED BY <1>5, <2>1, <2>2, <2>3, ParentMoves
<1>6. CASE ParentWakes(p) \/ SpuriousWake(p)
  <2>1. PICK a : a = [arg[p] EXCEPT !.mtx = p, !.waiting = FALSE, !.signalled = FALSE]  OBVIOUS
  <2>2. /\ pc[p] = "wait" /\ pc' = [pc EXCEPT ![p] = "unlock"] /\ arg' = [arg EXCEPT ![p] = a]
        /\ UNCHANGED <<call, child, result>>
        /\ misled' = IF arg[p].tid = 0 THEN misled \cup {p} ELSE misled
    BY <1>6, <2>1 DEF ParentWakes, SpuriousWake, WaitEnds, PGoto, ThreadInv, ThreadType
  <2>3. /\ a \in Frames /\ a.gen = arg[p].gen /\ a.tid = arg[p].tid
        /\ ~a.signalled
    BY <2>1 DEF ThreadInv, ThreadType, Frames
  <2>4. ThreadType' /\ pc'[p] = "unlock" /\ arg'[p] = a
        /\ \A q \in Parents \ {p} : pc'[q] = pc[q] /\ arg'[q] = arg[q]
    BY <2>2, <2>3 DEF ThreadInv, ThreadType
  <2>. QED BY <2>2, <2>3, <2>4, ParentMoves
<1>7. CASE ParentUnlock(p)
  <2>1. PICK a : a = [arg[p] EXCEPT !.mtx = NoOwner]  OBVIOUS
  <2>2. /\ pc[p] = "unlock" /\ pc' = [pc EXCEPT ![p] = "return"] /\ arg' = [arg EXCEPT ![p] = a]
        /\ UNCHANGED <<call, child, result, misled>>
    BY <1>7, <2>1 DEF ParentUnlock, PGoto, ThreadInv, ThreadType
  <2>3. /\ a \in Frames /\ a.gen = arg[p].gen /\ a.tid = arg[p].tid
        /\ a.signalled => arg[p].signalled
    BY <2>1 DEF ThreadInv, ThreadType, Frames
  <2>4. ThreadType' /\ pc'[p] = "return" /\ arg'[p] = a
        /\ \A q \in Parents \ {p} : pc'[q] = pc[q] /\ arg'[q] = arg[q]
    BY <2>2, <2>3 DEF ThreadInv, ThreadType
  <2>. QED BY <2>2, <2>3, <2>4, ParentMoves
<1>8. CASE ParentReturn(p)
  <2>1. PICK a : a = [NoFrame EXCEPT !.gen = arg[p].gen]  OBVIOUS
  <2>2. /\ pc[p] = "return" /\ pc' = [pc EXCEPT ![p] = "idle"]
        /\ result' = [result EXCEPT ![p] = arg[p].tid] /\ arg' = [arg EXCEPT ![p] = a]
        /\ UNCHANGED <<call, child, misled>>
    BY <1>8, <2>1 DEF ParentReturn, PGoto
  <2>3. a \in Frames /\ ~a.live /\ ~a.signalled
    <3>1. a = [live |-> FALSE, gen |-> arg[p].gen, tid |-> 0, mtx |-> NoOwner,
               waiting |-> FALSE, signalled |-> FALSE]
      BY <2>1 DEF NoFrame
    <3>2. arg[p].gen \in Nat  BY DEF ThreadInv, ThreadType, Frames
    <3>. QED BY <3>1, <3>2 DEF Frames
  <2>4. ThreadType'
    <3>1. arg[p].tid \in Nat  BY DEF ThreadInv, ThreadType, Frames
    <3>. QED BY <2>2, <2>3, <3>1 DEF ThreadInv, ThreadType
  <2>5. /\ pc'[p] = "idle" /\ arg'[p] = a
        /\ \A q \in Parents \ {p} : pc'[q] = pc[q] /\ arg'[q] = arg[q] /\ result'[q] = result[q]
    BY <2>2 DEF ThreadInv, ThreadType
  <2>6. FrameInv(p)  BY DEF ThreadInv
  <2>7. FrameInv(p)'  BY <2>2, <2>3, <2>5, <2>6 DEF FrameInv
  <2>8. ASSUME p \notin misled' PROVE TellInv(p)'
    <3>1. TellInv(p) /\ call[p] \in Nat  BY <2>2, <2>8 DEF ThreadInv, ThreadType
    <3>2. arg[p].tid = call[p] /\ child[<<p, call[p]>>] \in Told /\ call[p] \in Calls
      BY <2>2, <2>6, <3>1 DEF TellInv, FrameInv, Calls
    <3>3. \A n \in Calls : child[<<p, n>>] \notin Untold
      BY <2>2, <2>6, <3>1, <3>2 DEF TellInv, FrameInv, Calls, Untold, Told
    <3>4. result'[p] = call[p]  BY <2>2, <3>2 DEF ThreadInv, ThreadType
    <3>. QED BY <2>2, <2>3, <2>5, <3>3, <3>4 DEF TellInv
  <2>. QED BY <2>2, <2>4, <2>5, <2>7, <2>8, OneFamily
<1>. QED BY <1>1, <1>2, <1>3, <1>4, <1>5, <1>6, <1>7, <1>8 DEF ParentStep

\* A step of a child.
LEMMA ChildKeeps ==
    ASSUME ThreadInv, NEW c \in Children, ChildStep(c)
    PROVE  ThreadInv'
<1>1. PICK p \in Parents, m \in Calls : c = <<p, m>> /\ c[1] = p /\ c[2] = m
  BY DEF Children
<1>2. /\ ThreadType /\ FrameInv(p) /\ (p \notin misled => TellInv(p)) /\ m \in Nat
      /\ call[p] \in Nat /\ child[c] \in {"none"} \cup Untold \cup Told
  BY DEF ThreadInv, ThreadType, Calls
<1>3. ASSUME child[c] \in Untold, p \notin misled
      PROVE  m = call[p] /\ pc[p] # "idle" /\ arg[p].tid = 0
  BY <1>1, <1>2, <1>3 DEF FrameInv, TellInv, Untold, Told
<1>4. ASSUME child[c] # "none" PROVE m <= call[p]
  BY <1>1, <1>2, <1>4 DEF FrameInv
<1>5. CASE ChildEnter(c)
  <2>1. /\ child[c] = "enter" /\ child' = [child EXCEPT ![c] = "lock"]
        /\ UNCHANGED <<pc, call, arg, result, misled>>
    BY <1>5 DEF ChildEnter, CGoto
  <2>2. ThreadType'  BY <2>1 DEF ThreadInv, ThreadType, Untold
  <2>3. /\ child'[c] = "lock" /\ \A n \in Calls \ {m} : child'[<<p, n>>] = child[<<p, n>>]
        /\ \A q \in Parents \ {p}, n \in Calls : child'[<<q, n>>] = child[<<q, n>>]
    BY <1>1, <1>2, <2>1 DEF ThreadType, Children
  <2>4. FrameInv(p)'  BY <1>1, <1>2, <1>4, <2>1, <2>3 DEF FrameInv
  <2>5. ASSUME p \notin misled' PROVE TellInv(p)'
    <3>1. m = call[p] /\ pc[p] # "idle" /\ arg[p].tid = 0
      BY <1>3, <2>1, <2>5 DEF Untold
    <3>. QED BY <1>1, <1>2, <2>1, <2>3, <2>5, <3>1 DEF TellInv, Untold
  <2>. QED BY <2>1, <2>2, <2>3, <2>4, <2>5, OneFamily
<1>6. CASE ChildLock(c)
  <2>1. PICK a : a = [arg[p] EXCEPT !.mtx = c]  OBVIOUS
  <2>2. /\ child[c] = "lock" /\ child' = [child EXCEPT ![c] = "tell"]
        /\ arg' = [arg EXCEPT ![p] = a] /\ UNCHANGED <<pc, call, result, misled>>
    BY <1>1, <1>6, <2>1 DEF ChildLock, CGoto
  <2>3. /\ a \in Frames /\ a.gen = arg[p].gen /\ a.tid = arg[p].tid /\ a.live = arg[p].live
        /\ a.signalled = arg[p].signalled
    BY <1>2, <2>1 DEF ThreadType, Frames
  <2>4. ThreadType'  BY <2>2, <2>3 DEF ThreadInv, ThreadType, Untold
  <2>5. /\ child'[c] = "tell" /\ arg'[p] = a
        /\ \A n \in Calls \ {m} : child'[<<p, n>>] = child[<<p, n>>]
        /\ \A q \in Parents \ {p} : arg'[q] = arg[q]
        /\ \A q \in Parents \ {p}, n \in Calls : child'[<<q, n>>] = child[<<q, n>>]
    BY <1>1, <1>2, <2>2 DEF ThreadType, Children
  <2>6. FrameInv(p)'  BY <1>1, <1>2, <1>4, <2>2, <2>3, <2>5 DEF FrameInv
  <2>7. ASSUME p \notin misled' PROVE TellInv(p)'
    <3>1. m = call[p] /\ pc[p] # "idle" /\ arg[p].tid = 0
      BY <1>3, <2>2, <2>7 DEF Untold
    <3>. QED BY <1>1, <1>2, <2>2, <2>3, <2>5, <2>7, <3>1 DEF TellInv, Untold
  <2>. QED BY <2>2, <2>4, <2>5, <2>6, <2>7, OneFamily
<1>7. CASE ChildTell(c)
  <2>1. PICK a : a = [arg[p] EXCEPT !.tid = m, !.mtx = NoOwner]  OBVIOUS
  <2>2. /\ child[c] = "tell" /\ child' = [child EXCEPT ![c] = "signal"]
        /\ arg' = [arg EXCEPT ![p] = a] /\ UNCHANGED <<pc, call, result, misled>>
    BY <1>1, <1>7, <2>1 DEF ChildTell, CGoto, ThreadInv, ThreadType
  <2>3. /\ a \in Frames /\ a.gen = arg[p].gen /\ a.tid = m /\ a.live = arg[p].live
        /\ a.signalled = arg[p].signalled
    BY <1>2, <2>1 DEF ThreadType, Frames
  <2>4. ThreadType'  BY <2>2, <2>3 DEF ThreadInv, ThreadType, Told
  <2>5. /\ child'[c] = "signal" /\ arg'[p] = a
        /\ \A n \in Calls \ {m} : child'[<<p, n>>] = child[<<p, n>>]
        /\ \A q \in Parents \ {p} : arg'[q] = arg[q]
        /\ \A q \in Parents \ {p}, n \in Calls : child'[<<q, n>>] = child[<<q, n>>]
    BY <1>1, <1>2, <2>2 DEF ThreadType, Children
  <2>6. FrameInv(p)'  BY <1>1, <1>2, <1>4, <2>2, <2>3, <2>5 DEF FrameInv
  <2>7. ASSUME p \notin misled' PROVE TellInv(p)'
    <3>1. m = call[p] /\ pc[p] # "idle"
      BY <1>3, <2>2, <2>7 DEF Untold
    <3>. QED BY <1>1, <1>2, <2>2, <2>3, <2>5, <2>7, <3>1 DEF TellInv, Untold, Told
  <2>. QED BY <2>2, <2>4, <2>5, <2>6, <2>7, OneFamily
<1>8. CASE ChildSignal(c)
  <2>1. PICK w \in BOOLEAN : w = (arg[p].live /\ arg[p].waiting)  OBVIOUS
  <2>2. PICK a : a = [arg[p] EXCEPT !.signalled = @ \/ w]  OBVIOUS
  <2>3. /\ child[c] = "signal" /\ child' = [child EXCEPT ![c] = "user"]
        /\ arg' = [arg EXCEPT ![p] = a] /\ UNCHANGED <<pc, call, result, misled>>
    BY <1>1, <1>8, <2>1, <2>2 DEF ChildSignal, CGoto
  <2>4. /\ a \in Frames /\ a.gen = arg[p].gen /\ a.tid = arg[p].tid /\ a.live = arg[p].live
        /\ a.signalled <=> arg[p].signalled \/ w
    BY <1>2, <2>2 DEF ThreadType, Frames
  <2>5. ThreadType'  BY <2>3, <2>4 DEF ThreadInv, ThreadType, Told
  <2>6. /\ child'[c] = "user" /\ arg'[p] = a
        /\ \A n \in Calls \ {m} : child'[<<p, n>>] = child[<<p, n>>]
        /\ \A q \in Parents \ {p} : arg'[q] = arg[q]
        /\ \A q \in Parents \ {p}, n \in Calls : child'[<<q, n>>] = child[<<q, n>>]
    BY <1>1, <1>2, <2>3 DEF ThreadType, Children
  <2>7. FrameInv(p)'
    BY <1>1, <1>2, <1>4, <2>1, <2>3, <2>4, <2>6 DEF FrameInv
  <2>8. ASSUME p \notin misled' PROVE TellInv(p)'
    <3>1. TellInv(p)  BY <1>2, <2>3, <2>8
    <3>. QED BY <1>1, <2>3, <2>4, <2>6, <3>1 DEF TellInv, Untold, Told
  <2>9. misled \subseteq misled'  BY <2>3
  <2>. QED BY <2>3, <2>5, <2>6, <2>7, <2>8, <2>9, OneFamily
<1>. QED BY <1>5, <1>6, <1>7, <1>8 DEF ChildStep

\* Every step keeps the invariant.
LEMMA ThreadStep ==
    ThreadInv /\ [TNext]_tvars => ThreadInv'
<1> SUFFICES ASSUME ThreadInv, [TNext]_tvars PROVE ThreadInv'
  OBVIOUS
<1>1. CASE UNCHANGED tvars
  BY <1>1 DEF tvars, ThreadInv, ThreadType, FrameInv, TellInv
<1>. QED BY <1>1, ParentKeeps, ChildKeeps DEF TNext

\* dune_pthread_create returns the tid of the thread that it has made, or an error,
\* for any number of threads and calls, whatever earlier calls' children are
\* doing, up to a parent's first wait that ends before the tid is stored.
THEOREM TidsAreReturned == TSpec => []TidReturned
<1>1. ThreadInv => TidReturned
  BY DEF ThreadInv, TellInv, TidReturned
<1>. QED BY <1>1, ThreadInit, ThreadStep, PTL DEF TSpec
=============================================================================
